---------------------------- MODULE Field_proofs ----------------------------
(***************************************************************************)
(* Proofs about the Modbus and S7 side of the gateway.  About FieldPool,   *)
(* for every number of devices, callers, clients, connections, retries,    *)
(* outages and commands: types, the capacity, who can meet a missing       *)
(* entry, and the empty pool after Close.                                  *)
(*                                                                         *)
(* About FieldReads, for every list of tags and writes, and every limit of *)
(* a range and a request: a write without an error was carried out, a good *)
(* point carries its own tag's cells unless its tag is one that the code   *)
(* may misread, and every tag has its point.                               *)
(***************************************************************************)
EXTENDS FieldPool, FieldReads, DataInduction

\* TypeOK in the parts that the steps change.
EntryTypes ==
    /\ pool \in [Devices -> Clients \cup {Nobody}]
    /\ link \in [Clients -> {"down", "up", "reset", "eof"}]
    /\ age \in [Devices -> 0..2]
    /\ breaker \in [Devices -> {"closed", "half", "open"}]
    /\ failures \in [Devices -> BOOLEAN]
CallTypes ==
    /\ call \in [Callers -> [pc : Pcs, dev : Devices,
                             ref : Clients \cup {Nobody}, entry : Clients \cup {Nobody},
                             attempt : 0..MaxRetries]]
    /\ commands \in 0..Commands
    /\ polled \subseteq Pollers
    /\ good \subseteq Pollers
    \* Who is past the pool has a client.
    /\ \A c \in Callers : call[c].pc \in {"request", "fail", "connect", "again"} => call[c].ref # Nobody
RestTypes ==
    /\ protocol \in {"modbus", "s7"}
    /\ todo \subseteq Clients
    /\ phase \in {"open", "closing", "closed"}
    /\ reachable \subseteq Devices
    /\ outages \in 0..Outages
Types == EntryTypes /\ CallTypes /\ RestTypes

\* Each device has its own client, and the pool has room for all it holds.
PoolInv == PoolBounded /\ ClosedModbusPoolIsEmpty /\ IsFiniteSet(Pooled)

\* An entry that a caller is about to look up again was used just now, so that
\* neither the reaper nor an eviction takes it; Modbus has the client at hand.
EnterInv ==
    /\ \A c \in Callers : call[c].pc = "enter" =>
          \/ protocol = "modbus" /\ call[c].ref # Nobody
          \/ protocol = "s7" /\ (phase = "closed" \/ (pool[call[c].dev] # Nobody /\ age[call[c].dev] = 0))
    /\ PanicsOnlyAfterClose

\* The inductive invariant.
IInv == Types /\ PoolInv /\ EnterInv

-----------------------------------------------------------------------------
(* Types.                                                                  *)

LEMMA Constants ==
  /\ Nobody \notin Clients
  /\ \A d \in Devices : Free(d) # {} =>
        Fresh(d) \in Clients /\ DeviceOf(Fresh(d)) = d /\ Fresh(d) \notin Pooled
  <1>1. Nobody \notin Clients
    BY PoolAssumption DEF Clients
  <1>2. ASSUME NEW d \in Devices, Free(d) # {}
        PROVE  Fresh(d) \in Clients /\ DeviceOf(Fresh(d)) = d /\ Fresh(d) \notin Pooled
    <2> DEFINE n == CHOOSE m \in 1..PerDevice : m \in Free(d)
    <2>1. n \in 1..PerDevice /\ n \in Free(d)
      BY <1>2 DEF Free
    <2> HIDE DEF n
    <2>2. Fresh(d) = <<d, n>>
      BY DEF Fresh, n
    <2>3. QED
      BY <2>1, <2>2 DEF Clients, DeviceOf, Free
  <1>3. QED
    BY <1>1, <1>2

LEMMA ConnectType ==
  ASSUME Types, NEW k \in Clients, Connect(k)
  PROVE  /\ link' \in [Clients -> {"down", "up", "reset", "eof"}]
         /\ age' \in [Devices -> 0..2]
  <1>1. link' \in [Clients -> {"down", "up", "reset", "eof"}]
    BY DEF Types, EntryTypes, Connect
  <1>2. [age EXCEPT ![DeviceOf(k)] = 0] \in [Devices -> 0..2]
    <2>1. \A d \in Devices : [age EXCEPT ![d] = 0] \in [Devices -> 0..2]
      BY DEF Types, EntryTypes
    <2>2. DeviceOf(k) \in Devices
      BY DEF Clients, DeviceOf
    <2>3. QED
      BY <2>1, <2>2
  <1>3. age' \in [Devices -> 0..2]
    BY <1>2 DEF Types, EntryTypes, Connect
  <1>4. QED
    BY <1>1, <1>3

LEMMA ClearType ==
  ASSUME Types, NEW ds, Clear(ds)
  PROVE  /\ age' \in [Devices -> 0..2]
         /\ breaker' \in [Devices -> {"closed", "half", "open"}]
         /\ failures' \in [Devices -> BOOLEAN]
  <1>1. age' \in [Devices -> 0..2]
    BY DEF Types, EntryTypes, Clear
  <1>2. breaker' \in [Devices -> {"closed", "half", "open"}]
    BY DEF Types, EntryTypes, Clear
  <1>3. failures' \in [Devices -> BOOLEAN]
    BY DEF Types, EntryTypes, Clear
  <1>4. QED
    BY <1>1, <1>2, <1>3

LEMMA RemoveType ==
  ASSUME Types, NEW ds, DropClients(ds)
  PROVE  EntryTypes'
  <1>1. link' \in [Clients -> {"down", "up", "reset", "eof"}]
    BY DEF Types, EntryTypes, DropClients, Disconnected
  <1>2. pool' \in [Devices -> Clients \cup {Nobody}]
    BY DEF Types, EntryTypes, DropClients
  <1>3. QED
    BY <1>1, <1>2, ClearType DEF DropClients, EntryTypes

LEMMA CreateType ==
  ASSUME Types, NEW d \in Devices, NEW gone, Free(d) # {}, Create(d, gone)
  PROVE  EntryTypes'
  <1>1. Fresh(d) \in Clients
    BY Constants
  <1>2. link' \in [Clients -> {"down", "up", "reset", "eof"}]
    BY <1>1 DEF Types, EntryTypes, Create, Disconnected
  <1>3. pool' \in [Devices -> Clients \cup {Nobody}]
    BY <1>1 DEF Types, EntryTypes, Create
  <1>4. QED
    BY <1>2, <1>3, ClearType DEF Create, EntryTypes

\* Calls.
LEMMA IdleType ==
  Idle \in [pc : Pcs, dev : Devices, ref : Clients \cup {Nobody},
            entry : Clients \cup {Nobody}, attempt : 0..MaxRetries]
  <1>1. (CHOOSE d \in Devices : TRUE) \in Devices
    BY PoolAssumption
  <1>2. QED
    BY <1>1, PoolAssumption DEF Idle, Pcs

LEMMA ReturnType ==
  ASSUME Types, NEW c \in Callers, NEW ok \in BOOLEAN, Return(c, ok)
  PROVE  CallTypes'
  <1>1. call' \in [Callers -> [pc : Pcs, dev : Devices, ref : Clients \cup {Nobody},
                               entry : Clients \cup {Nobody}, attempt : 0..MaxRetries]]
    BY IdleType DEF Types, CallTypes, Return
  <1>2. \A e \in Callers : call'[e].pc \in {"request", "fail", "connect", "again"} => call'[e].ref # Nobody
    BY DEF Types, CallTypes, Return, Idle
  <1>3. QED
    BY <1>1, <1>2 DEF Types, CallTypes, Return

LEMMA GoToType ==
  ASSUME Types, NEW c \in Callers, NEW where \in Pcs, GoTo(c, where),
         where \in {"request", "fail", "connect", "again"} => call[c].ref # Nobody
  PROVE  CallTypes'
  BY DEF Types, CallTypes, GoTo, report

LEMMA ExecuteType ==
  ASSUME Types, NEW c \in Callers, NEW ref \in Clients, NEW k \in Clients, Execute(c, ref, k)
  PROVE  CallTypes'
  <1>1. CASE Return(c, FALSE)
    BY <1>1, ReturnType
  <1>2. CASE /\ call' = [call EXCEPT ![c].pc = "request", ![c].ref = ref, ![c].entry = k]
             /\ UNCHANGED report
    <2>1. "request" \in Pcs
      BY DEF Pcs
    <2> DEFINE T == [pc : Pcs, dev : Devices, ref : Clients \cup {Nobody},
                     entry : Clients \cup {Nobody}, attempt : 0..MaxRetries]
               r == [call[c] EXCEPT !.pc = "request", !.ref = ref, !.entry = k]
    <2>a. r \in T /\ call \in [Callers -> T]
      BY <2>1 DEF Types, CallTypes
    <2>b. call' = [call EXCEPT ![c] = r]
      BY <1>2 DEF Types, CallTypes
    <2>2. call' \in [Callers -> T]
      <3> HIDE DEF r, T
      <3>1. QED
        BY <2>a, <2>b
    <2>3. \A e \in Callers : call'[e].pc \in {"request", "fail", "connect", "again"}
                                => call'[e].ref # Nobody
      BY <1>2, Constants DEF Types, CallTypes
    <2>4. QED
      BY <1>2, <2>2, <2>3 DEF Types, CallTypes, report
  <1>3. QED
    BY <1>1, <1>2 DEF Execute

LEMMA FinishType ==
  ASSUME Types, NEW c \in Callers, NEW ok \in BOOLEAN, NEW err, Finish(c, ok, err)
  PROVE  CallTypes' /\ breaker' \in [Devices -> {"closed", "half", "open"}]
  <1>1. \A b \in {"closed", "half", "open"} : BreakerAfter(b, ~err) \subseteq {"closed", "half", "open"}
    BY DEF BreakerAfter
  <1>2. breaker' \in [Devices -> {"closed", "half", "open"}]
    BY <1>1 DEF Types, EntryTypes, CallTypes, Finish
  <1>3. CallTypes'
    BY ReturnType DEF Finish
  <1>4. QED
    BY <1>2, <1>3

\* The steps of a call.
LEMMA GetClientTypes ==
  ASSUME Types, NEW c \in Callers, GetClient(c)
  PROVE  EntryTypes' /\ CallTypes'
  <1>0. call[c].dev \in Devices /\ call[c].pc \in Pcs
    BY DEF Types, CallTypes
  <1>1. CASE Refuse(c)
    BY <1>1, ReturnType DEF Refuse, entry, Types, EntryTypes
  <1>2. CASE GetKnown(c)
    <2> DEFINE k == pool[call[c].dev]
    <2>1. k \in Clients /\ Connect(k)
      BY <1>0, <1>2 DEF GetKnown, Types, EntryTypes
    <2>2. UNCHANGED <<pool, breaker, failures>>
      BY <1>2 DEF GetKnown
    <2>3. EntryTypes'
      BY <2>1, <2>2, ConnectType DEF Types, EntryTypes
    <2>4. CASE Return(c, FALSE)
      BY <2>3, <2>4, ReturnType
    <2>5. CASE call' = [call EXCEPT ![c].pc = "enter", ![c].ref = k] /\ UNCHANGED report
      <3>1. "enter" \in Pcs
        BY DEF Pcs
      <3>2. call' \in [Callers -> [pc : Pcs, dev : Devices, ref : Clients \cup {Nobody},
                                   entry : Clients \cup {Nobody}, attempt : 0..MaxRetries]]
        BY <2>1, <2>5, <3>1 DEF Types, CallTypes
      <3>3. \A e \in Callers : call'[e].pc \in {"request", "fail", "connect", "again"}
                                  => call'[e].ref # Nobody
        BY <2>5 DEF Types, CallTypes
      <3>4. QED
        BY <2>3, <2>5, <3>2, <3>3 DEF Types, CallTypes, report
    <2>6. QED
      BY <1>2, <2>4, <2>5 DEF GetKnown
  <1>3. CASE GetNew(c)
    <2> DEFINE k == Fresh(call[c].dev)
    <2>1. k \in Clients
      BY <1>0, <1>3, Constants DEF GetNew
    <2>2. EntryTypes'
      BY <1>0, <1>3, CreateType DEF GetNew
    <2>3. call' = [call EXCEPT ![c].pc = "enter", ![c].ref = k] /\ UNCHANGED report
      BY <1>3 DEF GetNew
    <2> HIDE DEF k
    <2>4. "enter" \in Pcs
      BY DEF Pcs
    <2>5. call' \in [Callers -> [pc : Pcs, dev : Devices, ref : Clients \cup {Nobody},
                                 entry : Clients \cup {Nobody}, attempt : 0..MaxRetries]]
      BY <2>1, <2>3, <2>4 DEF Types, CallTypes
    <2>6. \A e \in Callers : call'[e].pc \in {"request", "fail", "connect", "again"}
                                => call'[e].ref # Nobody
      BY <2>3 DEF Types, CallTypes
    <2>7. QED
      BY <2>2, <2>3, <2>5, <2>6 DEF Types, CallTypes, report
  <1>4. QED
    BY <1>1, <1>2, <1>3 DEF GetClient, GetNothing

LEMMA GetOrCreateTypes ==
  ASSUME Types, NEW c \in Callers, GetOrCreate(c)
  PROVE  EntryTypes' /\ CallTypes'
  <1>0. call[c].dev \in Devices /\ "enter" \in Pcs
    BY DEF Types, CallTypes, Pcs
  <1>1. CASE FindKnown(c)
    <2>1. age' \in [Devices -> 0..2]
      BY <1>0, <1>1 DEF FindKnown, Types, EntryTypes
    <2>2. CallTypes'
      BY <1>0, <1>1, GoToType DEF FindKnown
    <2>3. QED
      BY <1>1, <2>1, <2>2 DEF FindKnown, Types, EntryTypes
  <1>2. CASE CreateNew(c)
    <2>1. CallTypes'
      BY <1>0, <1>2, GoToType DEF CreateNew
    <2>2. EntryTypes'
      BY <1>0, <1>2, CreateType DEF CreateNew
    <2>3. QED
      BY <2>1, <2>2
  <1>3. CASE CreateNothing(c)
    <2>1. CallTypes'
      BY <1>3, ReturnType DEF CreateNothing
    <2>2. EntryTypes'
      BY <1>3, RemoveType DEF CreateNothing, Types, EntryTypes, entry
    <2>3. QED
      BY <2>1, <2>2
  <1>4. QED
    BY <1>1, <1>2, <1>3 DEF GetOrCreate

LEMMA LookupTypes ==
  ASSUME Types, EnterInv, NEW c \in Callers, Look(c) \/ Enter(c)
  PROVE  EntryTypes' /\ CallTypes'
  <1>0. /\ call[c].dev \in Devices /\ {"get", "panic"} \subseteq Pcs
        /\ pool[call[c].dev] \in Clients \cup {Nobody} /\ call[c].ref \in Clients \cup {Nobody}
    BY DEF Types, CallTypes, EntryTypes, Pcs
  <1>1. EntryTypes'
    BY DEF Look, Enter, Types, EntryTypes, entry
  <1>2. CASE Look(c)
    <2>1. CASE GoTo(c, "get")
      BY <1>0, <1>1, <2>1, GoToType
    <2>2. CASE pool[call[c].dev] # Nobody /\ Execute(c, pool[call[c].dev], pool[call[c].dev])
      BY <1>0, <1>1, <2>2, ExecuteType
    <2>3. QED
      BY <1>2, <2>1, <2>2 DEF Look
  <1>3. CASE Enter(c)
    <2>1. CASE GoTo(c, "panic")
      BY <1>0, <1>1, <2>1, GoToType
    <2>2. CASE Return(c, FALSE)
      BY <1>1, <2>2, ReturnType
    <2>3. CASE /\ pool[call[c].dev] # Nobody
               /\ Execute(c, IF protocol = "modbus" THEN call[c].ref ELSE pool[call[c].dev],
                          pool[call[c].dev])
      <3>1. protocol = "modbus" => call[c].ref \in Clients
        BY <1>0, <1>3 DEF Enter, EnterInv
      <3>2. QED
        BY <1>0, <1>1, <2>3, <3>1, ExecuteType
    <2>4. QED
      BY <1>3, <2>1, <2>2, <2>3 DEF Enter
  <1>4. QED
    BY <1>2, <1>3

LEMMA RequestTypes ==
  ASSUME Types, NEW c \in Callers,
         Request(c) \/ RequestLate(c) \/ RequestFailed(c) \/ Reconnect(c) \/ RequestAgain(c)
  PROVE  EntryTypes' /\ CallTypes'
  <1>0. /\ call[c].ref \in Clients /\ {"fail", "connect", "again"} \subseteq Pcs
    <2>1. call[c].pc \in {"request", "fail", "connect", "again"}
      BY DEF Request, RequestLate, RequestFailed, Reconnect, RequestAgain
    <2>2. call[c].ref \in Clients
      BY <2>1 DEF Types, CallTypes
    <2>3. {"fail", "connect", "again"} \subseteq Pcs
      BY DEF Pcs
    <2>4. QED
      BY <2>2, <2>3
  <1>a. ASSUME NEW ok \in BOOLEAN, NEW err, Finish(c, ok, err)
        PROVE  CallTypes' /\ breaker' \in [Devices -> {"closed", "half", "open"}]
    BY <1>a, FinishType
  <1>c. ASSUME Fail(c) \/ Answer(c)
        PROVE  CallTypes' /\ breaker' \in [Devices -> {"closed", "half", "open"}]
    <2>1. \E ok \in BOOLEAN, err \in BOOLEAN : Finish(c, ok, err)
      BY <1>c DEF Fail, Answer, Errors
    <2>2. QED
      BY <2>1, <1>a
  <1>b. ASSUME NEW where \in {"fail", "connect", "again"}, GoTo(c, where)
        PROVE  CallTypes'
    <2>1. where \in Pcs /\ call[c].ref # Nobody
      BY <1>0, Constants
    <2>2. QED
      BY <1>b, <2>1, GoToType
  <1>1. CASE Request(c)
    <2>1. CallTypes' /\ breaker' \in [Devices -> {"closed", "half", "open"}]
      BY <1>0, <1>1, <1>a, <1>b, <1>c DEF Request, Types, EntryTypes
    <2>2. age' \in [Devices -> 0..2]
      <3>1. [age EXCEPT ![DeviceOf(call[c].ref)] = 0] \in [Devices -> 0..2]
        <4>1. DeviceOf(call[c].ref) \in Devices
          BY <1>0 DEF Clients, DeviceOf
        <4>2. QED
          BY <4>1 DEF Types, EntryTypes
      <3>2. QED
        BY <1>1, <3>1 DEF Request, Used, Types, EntryTypes
    <2>3. QED
      BY <1>1, <2>1, <2>2 DEF Request, Types, EntryTypes
  <1>2. CASE RequestFailed(c)
    <2>1. link' \in [Clients -> {"down", "up", "reset", "eof"}]
      BY <1>2 DEF RequestFailed, Disconnected, Types, EntryTypes
    <2>2. QED
      BY <1>2, <1>b, <2>1 DEF RequestFailed, Types, EntryTypes
  <1>3. CASE Reconnect(c)
    <2>1. /\ link' \in [Clients -> {"down", "up", "reset", "eof"}]
          /\ age' \in [Devices -> 0..2]
      BY <1>0, <1>3, ConnectType DEF Reconnect
    <2>2. CASE Fail(c)
      BY <1>0, <1>3, <1>c, <2>1, <2>2 DEF Reconnect, Types, EntryTypes
    <2>3. CASE /\ call[c].attempt < MaxRetries
               /\ call' = [call EXCEPT ![c].pc = "again", ![c].attempt = @ + 1]
               /\ UNCHANGED <<breaker, report>>
      <3>1. call[c].attempt + 1 \in 0..MaxRetries
        BY <2>3, PoolAssumption DEF Types, CallTypes
      <3>2. call' \in [Callers -> [pc : Pcs, dev : Devices, ref : Clients \cup {Nobody},
                                   entry : Clients \cup {Nobody}, attempt : 0..MaxRetries]]
        BY <1>0, <2>3, <3>1 DEF Types, CallTypes
      <3>3. \A e \in Callers : call'[e].pc \in {"request", "fail", "connect", "again"}
                                  => call'[e].ref # Nobody
        BY <1>0, <2>3, Constants DEF Types, CallTypes
      <3>4. QED
        BY <1>3, <2>1, <2>3, <3>2, <3>3 DEF Reconnect, Types, EntryTypes, CallTypes, report
    <2>4. QED
      BY <1>3, <2>2, <2>3 DEF Reconnect
  <1>4. CASE RequestAgain(c)
    <2>1. CallTypes' /\ breaker' \in [Devices -> {"closed", "half", "open"}]
      BY <1>0, <1>4, <1>a, <1>b, <1>c DEF RequestAgain, Types, EntryTypes
    <2>2. QED
      BY <1>4, <2>1 DEF RequestAgain, Types, EntryTypes
  <1>5. CASE RequestLate(c)
    <2>1. (protocol = "s7") \in BOOLEAN /\ Finish(c, FALSE, protocol = "s7")
      BY <1>5 DEF RequestLate
    <2>2. CallTypes' /\ breaker' \in [Devices -> {"closed", "half", "open"}]
      BY <2>1, <1>a
    <2>3. QED
      BY <1>5, <2>2 DEF RequestLate, Types, EntryTypes
  <1>6. QED
    BY <1>1, <1>2, <1>3, <1>4, <1>5

\* The background loops, the network and the clock.
Background ==
    \/ \E k \in Clients : TransportIdle(k)
    \/ Health \/ ReapIdle \/ CloseBegins \/ CloseEnds
    \/ \E d \in Devices : OpenTimeout(d) \/ GoAway(d) \/ ComeBack(d)
    \/ Tick

LEMMA BackgroundTypes ==
  ASSUME Types, Background
  PROVE  Types'
  <1> USE DEF Types, CallTypes, RestTypes, entry, network, report
  <1>1. ASSUME NEW k \in Clients, TransportIdle(k) PROVE Types'
    <2>1. link' \in [Clients -> {"down", "up", "reset", "eof"}]
      BY <1>1 DEF TransportIdle, Disconnected, EntryTypes
    <2>2. QED
      BY <1>1, <2>1 DEF TransportIdle, EntryTypes
  <1>2. CASE HealthRound
    <2>1. todo' \subseteq Clients
      BY <1>2 DEF HealthRound, Pooled, EntryTypes
    <2>2. QED
      BY <1>2, <2>1 DEF HealthRound, EntryTypes
  <1>3. ASSUME NEW k \in Clients, HealthConnect(k) PROVE Types'
    <2>1. /\ link' \in [Clients -> {"down", "up", "reset", "eof"}]
          /\ age' \in [Devices -> 0..2]
      BY <1>3, ConnectType DEF HealthConnect
    <2>2. \A d \in Devices, b \in BOOLEAN : [failures EXCEPT ![d] = b] \in [Devices -> BOOLEAN]
      BY DEF EntryTypes
    <2>3. DeviceOf(k) \in Devices
      BY DEF DeviceOf, Clients
    <2>a. ASSUME failures' = [failures EXCEPT ![DeviceOf(k)] = ~CanConnect(k)]
          PROVE  failures' \in [Devices -> BOOLEAN]
      <3>1. CASE CanConnect(k)
        BY <2>2, <2>3, <2>a, <3>1
      <3>2. CASE ~CanConnect(k)
        BY <2>2, <2>3, <2>a, <3>2
      <3>3. QED
        BY <3>1, <3>2
    <2>4. failures' \in [Devices -> BOOLEAN]
      BY <1>3, <2>a DEF HealthConnect, EntryTypes
    <2>5. QED
      BY <1>3, <2>1, <2>4 DEF HealthConnect, EntryTypes
  <1>4. ASSUME NEW k \in Clients, HealthSkip(k) PROVE Types'
    BY <1>4 DEF HealthSkip, EntryTypes
  <1>5. CASE ReapIdle
    <2>1. EntryTypes'
      BY <1>5, RemoveType DEF ReapIdle
    <2>2. QED
      BY <1>5, <2>1 DEF ReapIdle
  <1>6. CASE CloseBegins
    BY <1>6 DEF CloseBegins, EntryTypes
  <1>7. CASE CloseEnds
    <2>1. EntryTypes'
      BY <1>7, RemoveType DEF CloseEnds
    <2>2. QED
      BY <1>7, <2>1 DEF CloseEnds
  <1>8. ASSUME NEW d \in Devices, OpenTimeout(d) PROVE Types'
    BY <1>8 DEF OpenTimeout, EntryTypes
  <1>9. ASSUME NEW d \in Devices, GoAway(d) PROVE Types'
    <2>1. link' \in [Clients -> {"down", "up", "reset", "eof"}]
      BY <1>9 DEF GoAway, EntryTypes
    <2>2. outages' \in 0..Outages
      BY <1>9, PoolAssumption DEF GoAway
    <2>3. QED
      BY <1>9, <2>1, <2>2 DEF GoAway, EntryTypes
  <1>10. ASSUME NEW d \in Devices, ComeBack(d) PROVE Types'
    BY <1>10 DEF ComeBack, EntryTypes
  <1>11. CASE Tick
    <2>1. age' \in [Devices -> 0..2]
      BY <1>11 DEF Tick, EntryTypes
    <2>2. QED
      BY <1>11, <2>1 DEF Tick, EntryTypes
  <1>12. QED
    BY <1>1, <1>2, <1>3, <1>4, <1>5, <1>6, <1>7, <1>8, <1>9, <1>10, <1>11
       DEF Background, Health

\* A call begins.
Begins == (\E c \in Pollers : Poll(c)) \/ (\E c \in Commanders : Command(c))

LEMMA BeginsTypes ==
  ASSUME Types, Begins
  PROVE  Types'
  <1>a. {"get", "look"} \subseteq Pcs
    BY DEF Pcs
  <1>b. \A d \in Devices, p \in {"get", "look"} :
          [Idle EXCEPT !.pc = p, !.dev = d] \in
            [pc : Pcs, dev : Devices, ref : Clients \cup {Nobody},
             entry : Clients \cup {Nobody}, attempt : 0..MaxRetries]
    BY <1>a, IdleType
  <1>c. /\ FirstStep \in {"get", "look"}
        /\ \A d : [Idle EXCEPT !.pc = FirstStep, !.dev = d].pc = FirstStep
    BY DEF FirstStep, Idle
  <1>1. ASSUME NEW c \in Callers, NEW d \in Devices,
               call' = [call EXCEPT ![c] = [Idle EXCEPT !.pc = FirstStep, !.dev = d]],
               commands' \in 0..Commands, UNCHANGED <<polled, good>>
        PROVE  CallTypes'
    <2>1. call' \in [Callers -> [pc : Pcs, dev : Devices, ref : Clients \cup {Nobody},
                                 entry : Clients \cup {Nobody}, attempt : 0..MaxRetries]]
      BY <1>1, <1>b, <1>c DEF Types, CallTypes
    <2>2. \A e \in Callers : call'[e].pc \in {"request", "fail", "connect", "again"}
                                => call'[e].ref # Nobody
      BY <1>1, <1>c DEF Types, CallTypes
    <2>3. QED
      BY <1>1, <2>1, <2>2 DEF Types, CallTypes
  <1> USE DEF Types, EntryTypes, RestTypes, entry, network, report
  <1>2. ASSUME NEW c \in Pollers, Poll(c) PROVE Types'
    <2>1. Polled[c] \in Devices /\ c \in Callers
      BY PoolAssumption DEF Callers
    <2>2. CallTypes'
      BY <1>1, <1>2, <2>1 DEF Poll, CallTypes
    <2>3. QED
      BY <1>2, <2>2 DEF Poll
  <1>3. ASSUME NEW c \in Commanders, Command(c) PROVE Types'
    <2>1. c \in Callers
      BY DEF Callers
    <2>2. commands' \in 0..Commands
      BY <1>3, PoolAssumption DEF Command, CallTypes
    <2>3. CallTypes'
      BY <1>1, <1>3, <2>1, <2>2 DEF Command
    <2>4. QED
      BY <1>3, <2>3 DEF Command
  <1>4. QED
    BY <1>2, <1>3 DEF Begins

LEMMA NextCases ==
  ASSUME [Next]_vars
  PROVE  \/ Begins \/ Background \/ UNCHANGED vars
         \/ \E c \in Callers : Step(c)
  BY DEF Next, Begins, Background

LEMMA NextTypes == Types /\ EnterInv /\ [Next]_vars => Types'
  <1> SUFFICES ASSUME Types, EnterInv, [Next]_vars PROVE Types'
    OBVIOUS
  <1>1. ASSUME NEW c \in Callers, Step(c) PROVE Types'
    <2>1. EntryTypes' /\ CallTypes'
      BY <1>1, GetClientTypes, GetOrCreateTypes, LookupTypes, RequestTypes DEF Step
    <2>2. UNCHANGED <<protocol, todo, phase, reachable>>
      BY <1>1 DEF Step, GetClient, GetOrCreate, Look, Enter, Request, RequestLate, RequestFailed,
                  Reconnect, RequestAgain, network
    <2>3. outages' \in 0..Outages
      <3>1. CASE RequestLate(c)
        BY <3>1, PoolAssumption DEF RequestLate, Types, RestTypes
      <3>2. CASE ~RequestLate(c)
        BY <1>1, <3>2 DEF Step, GetClient, GetOrCreate, Look, Enter, Request, RequestFailed,
                          Reconnect, RequestAgain, network, Types, RestTypes
      <3>3. QED
        BY <3>1, <3>2
    <2>4. QED
      BY <2>1, <2>2, <2>3 DEF Types, RestTypes
  <1>2. CASE UNCHANGED vars
    BY <1>2 DEF vars, Types, EntryTypes, CallTypes, RestTypes, entry, network, report
  <1>3. QED
    BY <1>1, <1>2, BeginsTypes, BackgroundTypes, NextCases

-----------------------------------------------------------------------------
(* What a step does to the pool.                                           *)

Aged == {d \in Devices : Expired(d)}

\* A new client of d, after the eviction of the devices gone.
Creates(d, gone) ==
    /\ Free(d) # {} /\ pool[d] = Nobody
    /\ Create(d, gone)
    /\ phase' = phase
    /\ protocol = "modbus" => phase = "open"
    /\ gone \subseteq Aged
    /\ \/ gone = {} /\ ~Full
       \/ \E e \in Devices : gone = {e}

\* The pool stays; or idle entries go; or Close empties it; or a client is new.
LEMMA PoolSteps ==
  ASSUME Types, [Next]_vars
  PROVE  /\ UNCHANGED protocol
         /\ \/ UNCHANGED pool /\ (phase' = phase \/ phase' = "closing")
            \/ UNCHANGED phase /\ \E ds \in SUBSET Aged : DropClients(ds)
            \/ CloseEnds
            \/ \E d \in Devices : \E gone \in SUBSET Devices : Creates(d, gone)
  <1> USE DEF entry, network
  <1>1. ASSUME NEW c \in Callers, GetClient(c)
        PROVE  \/ UNCHANGED pool /\ phase' = phase
               \/ \E d \in Devices : \E gone \in SUBSET Devices : Creates(d, gone)
    <2>1. call[c].dev \in Devices
      BY DEF Types, CallTypes
    <2>2. CASE phase = "open" /\ GetNew(c)
      <3>1. Creates(call[c].dev, {})
        BY <1>1, <2>2 DEF GetClient, GetNew, Creates
      <3>2. QED
        BY <2>1, <3>1
    <2>3. QED
      BY <1>1, <2>2 DEF GetClient, GetKnown, GetNothing, Refuse
  <1>2. ASSUME NEW c \in Callers, GetOrCreate(c)
        PROVE  \/ UNCHANGED pool /\ phase' = phase
               \/ UNCHANGED phase /\ \E ds \in SUBSET Aged : DropClients(ds)
               \/ \E d \in Devices : \E gone \in SUBSET Devices : Creates(d, gone)
    <2>1. call[c].dev \in Devices /\ phase' = phase /\ protocol = "s7"
      BY <1>2 DEF Types, CallTypes, GetOrCreate
    <2>2. Evictable \subseteq Aged /\ Evictable \subseteq Devices
      BY DEF Evictable, Oldest, Known, Aged
    <2>3. CASE CreateNew(c)
      <3>1. CASE ~Full /\ Create(call[c].dev, {})
        <4>1. Creates(call[c].dev, {})
          BY <2>1, <2>3, <3>1 DEF CreateNew, Creates
        <4>2. QED
          BY <2>1, <4>1
      <3>2. ASSUME NEW e \in Evictable, Create(call[c].dev, {e})
            PROVE  \E d \in Devices : \E gone \in SUBSET Devices : Creates(d, gone)
        <4>1. Creates(call[c].dev, {e})
          BY <2>1, <2>2, <2>3, <3>2 DEF CreateNew, Creates
        <4>2. QED
          BY <2>1, <2>2, <4>1
      <3>3. QED
        BY <2>3, <3>1, <3>2 DEF CreateNew
    <2>4. CASE CreateNothing(c)
      BY <2>1, <2>2, <2>4 DEF CreateNothing
    <2>5. QED
      BY <1>2, <2>1, <2>3, <2>4 DEF GetOrCreate, FindKnown
  <1>3. ASSUME NEW c \in Callers, Step(c), ~GetClient(c), ~GetOrCreate(c)
        PROVE  UNCHANGED <<pool, phase>>
    BY <1>3 DEF Step, Look, Enter, Request, RequestLate, RequestFailed, Reconnect, RequestAgain
  <1>4. ReapIdle => UNCHANGED phase /\ \E ds \in SUBSET Aged : DropClients(ds)
    BY DEF ReapIdle, Aged
  <1>5. CASE Background /\ ~CloseEnds /\ ~ReapIdle
    BY <1>5 DEF Background, TransportIdle, Health, HealthRound, HealthConnect, HealthSkip,
                CloseBegins, OpenTimeout, GoAway, ComeBack, Tick
  <1>6. Begins => UNCHANGED <<pool, phase>>
    BY DEF Begins, Poll, Command
  <1>7. UNCHANGED vars => UNCHANGED <<pool, phase>>
    BY DEF vars
  <1>8. UNCHANGED protocol
    <2>1. ASSUME NEW c \in Callers, Step(c) PROVE UNCHANGED protocol
      BY <2>1 DEF Step, GetClient, GetOrCreate, Look, Enter, Request, RequestLate, RequestFailed,
                  Reconnect, RequestAgain
    <2>2. Background => UNCHANGED protocol
      BY DEF Background, TransportIdle, Health, HealthRound, HealthConnect, HealthSkip,
             CloseBegins, CloseEnds, ReapIdle, OpenTimeout, GoAway, ComeBack, Tick
    <2>3. Begins \/ UNCHANGED vars => UNCHANGED protocol
      BY DEF Begins, Poll, Command, vars
    <2>4. QED
      BY <2>1, <2>2, <2>3, NextCases
  <1>9. QED
    BY <1>1, <1>2, <1>3, <1>4, <1>5, <1>6, <1>7, <1>8, NextCases DEF Background

\* What Create puts into the pool and takes out of it.
LEMMA CreateFacts ==
  ASSUME Types, PoolBounded, NEW d \in Devices, NEW gone \in SUBSET Devices, Creates(d, gone)
  PROVE  /\ pool'[d] = Fresh(d) /\ Fresh(d) \in Clients /\ Fresh(d) \notin Pooled
         /\ \A e \in Devices : e # d => pool'[e] = IF e \in gone THEN Nobody ELSE pool[e]
         /\ \A e \in gone : pool[e] # Nobody
         /\ Pooled' = (Pooled \ {pool[e] : e \in gone}) \cup {Fresh(d)}
  <1>1. /\ pool'[d] = Fresh(d) /\ Fresh(d) \in Clients /\ Fresh(d) \notin Pooled
        /\ \A e \in Devices : e # d => pool'[e] = IF e \in gone THEN Nobody ELSE pool[e]
    BY Constants DEF Creates, Create
  <1>2. \A e \in gone : pool[e] # Nobody
    BY DEF Creates, Aged, Expired
  <1>3. \A e, f \in Devices : pool[e] # Nobody /\ pool[e] = pool[f] => e = f
    BY DEF PoolBounded
  <1>4. pool[d] = Nobody /\ Fresh(d) # Nobody
    BY <1>1, Constants DEF Creates
  <1>5. Pooled' \subseteq (Pooled \ {pool[e] : e \in gone}) \cup {Fresh(d)}
    <2> SUFFICES ASSUME NEW e \in Devices, pool'[e] # Nobody
                 PROVE  pool'[e] \in (Pooled \ {pool[f] : f \in gone}) \cup {Fresh(d)}
      BY DEF Pooled
    <2>1. CASE e = d
      BY <1>1, <2>1
    <2>2. CASE e # d
      <3>1. pool'[e] = pool[e] /\ e \notin gone
        BY <1>1, <2>2
      <3>2. \A f \in gone : pool[f] # pool[e]
        BY <1>2, <1>3, <3>1
      <3>3. QED
        BY <3>1, <3>2 DEF Pooled
    <2>3. QED
      BY <2>1, <2>2
  <1>6. (Pooled \ {pool[e] : e \in gone}) \cup {Fresh(d)} \subseteq Pooled'
    <2>1. Fresh(d) \in Pooled'
      BY <1>1, <1>4 DEF Pooled
    <2>2. ASSUME NEW e \in Devices, pool[e] # Nobody, e \notin gone PROVE pool[e] \in Pooled'
      BY <1>1, <1>4, <2>2 DEF Pooled
    <2>3. QED
      BY <2>1, <2>2 DEF Pooled
  <1>7. QED
    BY <1>1, <1>2, <1>5, <1>6

\* DropClients leaves fewer clients.
LEMMA RemoveFacts ==
  ASSUME Types, NEW ds \in SUBSET Devices, DropClients(ds)
  PROVE  /\ \A d \in Devices : pool'[d] = IF d \in ds THEN Nobody ELSE pool[d]
         /\ Pooled' \subseteq Pooled
         /\ \A d \in ds : pool[d] \in Clients => link'[pool[d]] = "down"
  <1>1. \A d \in Devices : pool'[d] = IF d \in ds THEN Nobody ELSE pool[d]
    BY DEF DropClients
  <1>2. Pooled' \subseteq Pooled
    BY <1>1 DEF Pooled
  <1>3. \A d \in ds : pool[d] \in Clients => link'[pool[d]] = "down"
    BY DEF DropClients, Disconnected
  <1>4. QED
    BY <1>1, <1>2, <1>3

\* The capacity holds, each device has its own client, a closed pool is empty.
LEMMA NextPool == Types /\ PoolInv /\ EnterInv /\ [Next]_vars => PoolInv'
  <1> SUFFICES ASSUME Types, PoolInv, EnterInv, [Next]_vars PROVE PoolInv'
    OBVIOUS
  <1>0. /\ PoolBounded /\ IsFiniteSet(Pooled) /\ Cardinality(Pooled) \in Nat
        /\ MaxConnections \in Nat \ {0}
    BY PoolAssumption, FS_CardinalityType DEF PoolInv
  <1>a. ASSUME NEW S \in SUBSET Pooled
        PROVE  IsFiniteSet(S) /\ Cardinality(S) <= MaxConnections
    <2>1. IsFiniteSet(S) /\ Cardinality(S) <= Cardinality(Pooled) /\ Cardinality(S) \in Nat
      BY <1>0, <1>a, FS_Subset, FS_CardinalityType
    <2>2. QED
      BY <1>0, <2>1 DEF PoolBounded
  <1>1. CASE UNCHANGED pool /\ (phase' = phase \/ phase' = "closing")
    <2>1. Pooled' = Pooled
      BY <1>1 DEF Pooled
    <2>2. QED
      BY <1>1, <2>1, PoolSteps DEF PoolInv, PoolBounded, ClosedModbusPoolIsEmpty, DeviceOf
  <1>2. ASSUME NEW ds \in SUBSET Devices, DropClients(ds), phase' = phase \/ ds = Known
        PROVE  PoolInv'
    <2>1. /\ \A d \in Devices : pool'[d] = IF d \in ds THEN Nobody ELSE pool[d]
          /\ Pooled' \subseteq Pooled
      BY <1>2, RemoveFacts
    <2>2. IsFiniteSet(Pooled') /\ Cardinality(Pooled') <= MaxConnections
      BY <1>a, <2>1
    <2>3. \A d \in Devices : pool'[d] # Nobody => DeviceOf(pool'[d]) = d
      BY <1>0, <2>1 DEF PoolBounded
    <2>4. ds = Known => Pooled' = {}
      BY <2>1 DEF Known, Pooled
    <2>5. ClosedModbusPoolIsEmpty'
      BY <1>2, <2>1, <2>4, PoolSteps DEF PoolInv, ClosedModbusPoolIsEmpty
    <2>6. QED
      BY <2>2, <2>3, <2>5 DEF PoolInv, PoolBounded, DeviceOf
  <1>3. ASSUME NEW d \in Devices, NEW gone \in SUBSET Devices, Creates(d, gone)
        PROVE  PoolInv'
    <2>1. /\ pool'[d] = Fresh(d) /\ Fresh(d) \in Clients /\ Fresh(d) \notin Pooled
          /\ \A e \in Devices : e # d => pool'[e] = IF e \in gone THEN Nobody ELSE pool[e]
          /\ \A e \in gone : pool[e] # Nobody
          /\ Pooled' = (Pooled \ {pool[e] : e \in gone}) \cup {Fresh(d)}
      BY <1>0, <1>3, CreateFacts
    <2>2. DeviceOf(Fresh(d)) = d
      BY <1>3, Constants DEF Creates
    <2>3. \A e \in Devices : pool'[e] # Nobody => DeviceOf(pool'[e]) = e
      BY <1>0, <2>1, <2>2 DEF PoolBounded
    <2>4. ClosedModbusPoolIsEmpty'
      BY <1>3, PoolSteps DEF Creates, ClosedModbusPoolIsEmpty
    <2>5. IsFiniteSet(Pooled') /\ Cardinality(Pooled') <= MaxConnections
      <3> DEFINE S == Pooled \ {pool[e] : e \in gone}
      <3>1. IsFiniteSet(S) /\ Cardinality(S) \in Nat
        <4>1. S \in SUBSET Pooled
          OBVIOUS
        <4>2. IsFiniteSet(S)
          BY <1>a, <4>1
        <4>3. QED
          BY <4>2, FS_CardinalityType
      <3>2. Cardinality(S) <= MaxConnections - 1
        <4>1. CASE gone = {} /\ ~Full
          <5>1. S = Pooled
            BY <4>1
          <5>2. ~(Cardinality(Pooled) >= MaxConnections)
            BY <4>1 DEF Full
          <5> HIDE DEF S
          <5>3. QED
            BY <1>0, <5>1, <5>2
        <4>2. ASSUME NEW e \in Devices, gone = {e} PROVE Cardinality(S) <= MaxConnections - 1
          <5>1. S = Pooled \ {pool[e]} /\ pool[e] \in Pooled
            BY <2>1, <4>2 DEF Pooled
          <5>2. Cardinality(Pooled \ {pool[e]}) = Cardinality(Pooled) - 1
            BY <1>0, <5>1, FS_RemoveElement
          <5>3. Cardinality(Pooled) <= MaxConnections
            BY <1>0 DEF PoolBounded
          <5> HIDE DEF S
          <5>4. QED
            BY <1>0, <5>1, <5>2, <5>3
        <4>3. QED
          BY <1>3, <4>1, <4>2 DEF Creates
      <3> HIDE DEF S
      <3>3. IsFiniteSet(S \cup {Fresh(d)}) /\ Cardinality(S \cup {Fresh(d)}) <= Cardinality(S) + 1
        <4>1. /\ IsFiniteSet(S \cup {Fresh(d)})
              /\ Cardinality(S \cup {Fresh(d)}) = IF Fresh(d) \in S THEN Cardinality(S)
                                                  ELSE Cardinality(S) + 1
          BY <3>1, FS_AddElement
        <4>2. QED
          BY <3>1, <4>1
      <3>4. Pooled' = S \cup {Fresh(d)}
        BY <2>1 DEF S
      <3>5. Cardinality(S \cup {Fresh(d)}) \in Nat
        BY <3>3, FS_CardinalityType
      <3>6. QED
        BY <1>0, <3>1, <3>2, <3>3, <3>4, <3>5
    <2>6. QED
      BY <2>3, <2>4, <2>5 DEF PoolInv, PoolBounded, DeviceOf
  <1>4. Aged \subseteq Devices /\ Known \subseteq Devices
    BY DEF Aged, Known
  <1>5. QED
    BY <1>1, <1>2, <1>3, <1>4, PoolSteps DEF CloseEnds

-----------------------------------------------------------------------------
(* Nobody who is between the two lookups loses the entry to anyone but     *)
(* Close.                                                                  *)

LEMMA ClosedStays == [Next]_vars /\ phase = "closed" => phase' = "closed"
  <1> SUFFICES ASSUME [Next]_vars, phase = "closed" PROVE phase' = "closed"
    OBVIOUS
  <1>1. ASSUME NEW c \in Callers, Step(c) PROVE phase' = "closed"
    BY <1>1 DEF Step, GetClient, GetOrCreate, Look, Enter, Request, RequestLate, RequestFailed,
                Reconnect, RequestAgain
  <1>2. Background => phase' = "closed"
    BY DEF Background, TransportIdle, Health, HealthRound, HealthConnect, HealthSkip,
           CloseBegins, CloseEnds, ReapIdle, OpenTimeout, GoAway, ComeBack, Tick
  <1>3. Begins \/ UNCHANGED vars => phase' = "closed"
    BY DEF Begins, Poll, Command, vars
  <1>4. QED
    BY <1>1, <1>2, <1>3, NextCases

\* Clear and Connect leave a young S7 entry young.
LEMMA YoungAges ==
  ASSUME Types, protocol = "s7", [Next]_vars,
         NEW c \in Callers, call[c].pc = "enter",
         NEW d \in Devices, age[d] = 0
  PROVE  age'[d] = 0
  <1>0. age \in [Devices -> 0..2]
    BY DEF Types, EntryTypes
  <1>a. ASSUME NEW ds, Clear(ds) PROVE age'[d] = 0
    BY <1>a DEF Clear
  <1>b. ASSUME NEW k, Connect(k) PROVE age' = age
    BY <1>b DEF Connect
  <1>1. ASSUME NEW e \in Callers, Step(e) PROVE age'[d] = 0
    <2>1. CASE GetOrCreate(e)
      <3>1. CASE FindKnown(e)
        BY <1>0, <3>1 DEF FindKnown
      <3>2. CASE CreateNew(e)
        BY <1>a, <3>2 DEF CreateNew, Create
      <3>3. CASE CreateNothing(e)
        BY <1>a, <3>3 DEF CreateNothing, DropClients, entry
      <3>4. QED
        BY <2>1, <3>1, <3>2, <3>3 DEF GetOrCreate
    <2>2. CASE Reconnect(e)
      BY <1>b, <2>2 DEF Reconnect
    <2>3. CASE \/ Look(e) \/ Enter(e) \/ Request(e) \/ RequestLate(e)
               \/ RequestFailed(e) \/ RequestAgain(e)
      BY <2>3 DEF Look, Enter, Request, Used, RequestLate, RequestFailed, RequestAgain, entry
    <2>4. QED
      BY <1>1, <2>1, <2>2, <2>3 DEF Step, GetClient
  <1>2. CASE Background
    <2>1. ASSUME NEW k \in Clients, HealthConnect(k) PROVE age'[d] = 0
      BY <1>b, <2>1 DEF HealthConnect
    <2>2. ReapIdle \/ CloseEnds => age'[d] = 0
      BY <1>a DEF ReapIdle, CloseEnds, DropClients
    <2>3. ~Tick
      BY DEF Tick
    <2>4. CASE \/ \E k \in Clients : TransportIdle(k)
               \/ HealthRound \/ \E k \in Clients : HealthSkip(k)
               \/ CloseBegins
               \/ \E e \in Devices : OpenTimeout(e) \/ GoAway(e) \/ ComeBack(e)
      BY <2>4 DEF TransportIdle, HealthRound, HealthSkip, CloseBegins, OpenTimeout, GoAway,
                  ComeBack, entry
    <2>5. QED
      BY <1>2, <2>1, <2>2, <2>3, <2>4 DEF Background, Health
  <1>3. Begins \/ UNCHANGED vars => age'[d] = 0
    BY DEF Begins, Poll, Command, vars, entry
  <1>4. QED
    BY <1>1, <1>2, <1>3, NextCases

LEMMA YoungStay ==
  ASSUME Types, protocol = "s7", [Next]_vars,
         NEW c \in Callers, call[c].pc = "enter",
         NEW d \in Devices, pool[d] # Nobody, age[d] = 0
  PROVE  phase' = "closed" \/ (pool'[d] # Nobody /\ age'[d] = 0)
  <1>0. age'[d] = 0 /\ d \notin Aged
    BY YoungAges DEF Aged, Expired
  <1>1. ASSUME NEW ds \in SUBSET Aged, DropClients(ds) PROVE pool'[d] # Nobody
    BY <1>0, <1>1 DEF DropClients
  <1>2. ASSUME NEW e \in Devices, NEW gone \in SUBSET Devices, Creates(e, gone)
        PROVE  pool'[d] # Nobody
    <2>1. d # e /\ d \notin gone
      BY <1>0, <1>2 DEF Creates
    <2>2. QED
      BY <1>2, <2>1 DEF Creates, Create
  <1>3. CloseEnds => phase' = "closed"
    BY DEF CloseEnds
  <1>4. QED
    BY <1>0, <1>1, <1>2, <1>3, PoolSteps

\* Who comes to the second lookup, and who finds no entry there.
LEMMA StepEnters ==
  ASSUME Types, PoolInv, EnterInv, NEW c \in Callers, Step(c)
  PROVE  /\ \A e \in Callers : e # c => call'[e] = call[e]
         /\ call'[c].pc = "enter" =>
              \/ protocol = "modbus" /\ call'[c].ref # Nobody
              \/ protocol = "s7" /\ pool'[call'[c].dev] # Nobody /\ age'[call'[c].dev] = 0
         /\ call'[c].pc = "panic" => call[c].pc = "panic" \/ phase = "closed"
  <1>0. /\ call[c].dev \in Devices /\ call[c] = [call[c] EXCEPT !.pc = call[c].pc]
        /\ DOMAIN call = Callers
    BY DEF Types, CallTypes
  <1>a. ASSUME NEW ok, Return(c, ok)
        PROVE  (\A e \in Callers : e # c => call'[e] = call[e]) /\ call'[c].pc = "idle"
    BY <1>0, <1>a DEF Return, Idle
  <1>b. ASSUME NEW where, GoTo(c, where)
        PROVE  /\ \A e \in Callers : e # c => call'[e] = call[e]
               /\ call'[c].pc = where /\ call'[c].dev = call[c].dev
    BY <1>b DEF GoTo, Types, CallTypes
  <1>c. ASSUME NEW ok, NEW err, Finish(c, ok, err)
        PROVE  (\A e \in Callers : e # c => call'[e] = call[e]) /\ call'[c].pc = "idle"
    BY <1>a, <1>c DEF Finish
  <1>d. ASSUME NEW ref, NEW k, Execute(c, ref, k)
        PROVE  (\A e \in Callers : e # c => call'[e] = call[e]) /\ call'[c].pc \in {"idle", "request"}
    <2>1. CASE Return(c, FALSE)
      BY <1>a, <2>1
    <2>2. CASE call' = [call EXCEPT ![c].pc = "request", ![c].ref = ref, ![c].entry = k]
      BY <2>2 DEF Types, CallTypes
    <2>3. QED
      BY <1>d, <2>1, <2>2 DEF Execute
  <1>1. CASE GetClient(c)
    <2>1. CASE Return(c, FALSE)
      BY <1>a, <2>1
    <2>2. ASSUME NEW k \in Clients, call' = [call EXCEPT ![c].pc = "enter", ![c].ref = k]
          PROVE  /\ \A e \in Callers : e # c => call'[e] = call[e]
                 /\ call'[c].pc = "enter" /\ call'[c].ref # Nobody
      BY <2>2, Constants DEF Types, CallTypes
    <2>3. CASE GetKnown(c)
      <3>1. pool[call[c].dev] \in Clients
        BY <1>0, <2>3 DEF GetKnown, Types, EntryTypes
      <3>2. CASE call' = [call EXCEPT ![c].pc = "enter", ![c].ref = pool[call[c].dev]]
        BY <1>1, <2>2, <3>1, <3>2 DEF GetClient
      <3>3. QED
        BY <2>1, <2>3, <3>2 DEF GetKnown
    <2>4. CASE GetNew(c)
      <3>1. Fresh(call[c].dev) \in Clients
        BY <1>0, <2>4, Constants DEF GetNew
      <3>2. QED
        BY <1>1, <2>2, <2>4, <3>1 DEF GetNew, GetClient
    <2>5. QED
      BY <1>1, <2>1, <2>3, <2>4 DEF GetClient, GetNothing, Refuse
  <1>2. CASE GetOrCreate(c)
    <2>0. protocol = "s7" /\ age \in [Devices -> 0..2]
      BY <1>2 DEF GetOrCreate, Types, EntryTypes
    <2>1. CASE FindKnown(c)
      BY <1>0, <1>b, <2>0, <2>1 DEF FindKnown
    <2>2. CASE CreateNew(c)
      <3>1. Fresh(call[c].dev) # Nobody
        BY <1>0, <2>2, Constants DEF CreateNew
      <3>2. ASSUME NEW gone, Create(call[c].dev, gone)
            PROVE  pool'[call[c].dev] # Nobody /\ age'[call[c].dev] = 0
        BY <1>0, <3>1, <3>2 DEF Create, Clear
      <3>3. pool'[call[c].dev] # Nobody /\ age'[call[c].dev] = 0
        BY <2>2, <3>2 DEF CreateNew
      <3>4. QED
        BY <1>b, <2>0, <2>2, <3>3 DEF CreateNew
    <2>3. CASE CreateNothing(c)
      BY <1>a, <2>3 DEF CreateNothing
    <2>4. QED
      BY <1>2, <2>1, <2>2, <2>3 DEF GetOrCreate
  <1>3. CASE Look(c)
    BY <1>3, <1>b, <1>d DEF Look
  <1>4. CASE Enter(c)
    <2>1. CASE pool[call[c].dev] = Nobody /\ protocol = "s7" /\ GoTo(c, "panic")
      <3>1. phase = "closed"
        BY <1>4, <2>1 DEF EnterInv, Enter
      <3>2. QED
        BY <1>b, <2>1, <3>1
    <2>2. CASE Return(c, FALSE)
      BY <1>a, <2>2
    <2>3. CASE Execute(c, IF protocol = "modbus" THEN call[c].ref ELSE pool[call[c].dev],
                       pool[call[c].dev])
      BY <1>d, <2>3
    <2>4. QED
      BY <1>4, <2>1, <2>2, <2>3 DEF Enter
  <1>5. CASE Request(c)
    <2>1. CASE GoTo(c, "fail")
      BY <1>b, <2>1
    <2>2. CASE \E ok, err : Finish(c, ok, err)
      BY <1>c, <2>2
    <2>3. QED
      BY <1>5, <2>1, <2>2 DEF Request, Fail, Answer
  <1>6. CASE RequestFailed(c)
    BY <1>6, <1>b DEF RequestFailed
  <1>7. CASE Reconnect(c)
    <2>1. CASE call' = [call EXCEPT ![c].pc = "again", ![c].attempt = @ + 1]
      BY <2>1 DEF Types, CallTypes
    <2>2. QED
      BY <1>7, <1>c, <2>1 DEF Reconnect, Fail
  <1>8. CASE RequestAgain(c)
    <2>1. CASE GoTo(c, "fail")
      BY <1>b, <2>1
    <2>2. CASE \E ok, err : Finish(c, ok, err)
      BY <1>c, <2>2
    <2>3. QED
      BY <1>8, <2>1, <2>2 DEF RequestAgain, Fail, Answer
  <1>9. CASE RequestLate(c)
    BY <1>9, <1>c DEF RequestLate
  <1>10. QED
    BY <1>1, <1>2, <1>3, <1>4, <1>5, <1>6, <1>7, <1>8, <1>9, Zenon DEF Step

LEMMA NextEnter == Types /\ PoolInv /\ EnterInv /\ [Next]_vars => EnterInv'
  <1> SUFFICES ASSUME Types, PoolInv, EnterInv, [Next]_vars PROVE EnterInv'
    OBVIOUS
  <1>0. UNCHANGED protocol /\ (phase = "closed" => phase' = "closed")
    BY PoolSteps, ClosedStays
  \* Whose call stays as it is.
  <1>1. ASSUME NEW e \in Callers, call'[e] = call[e], call[e].pc = "enter"
        PROVE  \/ protocol' = "modbus" /\ call'[e].ref # Nobody
               \/ /\ protocol' = "s7"
                  /\ phase' = "closed" \/ (pool'[call'[e].dev] # Nobody /\ age'[call'[e].dev] = 0)
    <2>1. call[e].dev \in Devices
      BY DEF Types, CallTypes
    <2>2. CASE protocol = "modbus" /\ call[e].ref # Nobody
      BY <1>0, <1>1, <2>2
    <2>3. CASE protocol = "s7" /\ phase = "closed"
      BY <1>0, <2>3
    <2>4. CASE protocol = "s7" /\ pool[call[e].dev] # Nobody /\ age[call[e].dev] = 0
      BY <1>0, <1>1, <2>1, <2>4, YoungStay
    <2>5. QED
      BY <1>1, <2>2, <2>3, <2>4 DEF EnterInv
  <1>2. CASE UNCHANGED call
    <2>1. PanicsOnlyAfterClose'
      BY <1>0, <1>2 DEF EnterInv, PanicsOnlyAfterClose, Panicked
    <2>2. QED
      BY <1>1, <1>2, <2>1 DEF EnterInv
  <1>3. ASSUME NEW c \in Callers, Step(c) PROVE EnterInv'
    <2>1. /\ \A e \in Callers : e # c => call'[e] = call[e]
          /\ call'[c].pc = "enter" =>
               \/ protocol = "modbus" /\ call'[c].ref # Nobody
               \/ protocol = "s7" /\ pool'[call'[c].dev] # Nobody /\ age'[call'[c].dev] = 0
          /\ call'[c].pc = "panic" => call[c].pc = "panic" \/ phase = "closed"
      BY <1>3, StepEnters
    <2>2. PanicsOnlyAfterClose'
      BY <1>0, <2>1 DEF EnterInv, PanicsOnlyAfterClose, Panicked
    <2>3. ASSUME NEW e \in Callers, call'[e].pc = "enter"
          PROVE  \/ protocol' = "modbus" /\ call'[e].ref # Nobody
                 \/ /\ protocol' = "s7"
                    /\ \/ phase' = "closed"
                       \/ pool'[call'[e].dev] # Nobody /\ age'[call'[e].dev] = 0
      <3>1. CASE e = c
        BY <1>0, <2>1, <2>3, <3>1
      <3>2. CASE e # c
        BY <1>1, <2>1, <2>3, <3>2
      <3>3. QED
        BY <3>1, <3>2
    <2>4. QED
      BY <2>2, <2>3 DEF EnterInv
  <1>4. CASE Begins
    <2>1. \E c \in Callers : \E d :
            call' = [call EXCEPT ![c] = [Idle EXCEPT !.pc = FirstStep, !.dev = d]]
      BY <1>4 DEF Begins, Poll, Command, Callers
    <2>2. PICK c \in Callers : \E d :
            call' = [call EXCEPT ![c] = [Idle EXCEPT !.pc = FirstStep, !.dev = d]]
      BY <2>1
    <2>3. /\ \A e \in Callers : e # c => call'[e] = call[e]
          /\ call'[c].pc \in {"get", "look"}
      BY <2>2 DEF Types, CallTypes, FirstStep, Idle
    <2>4. PanicsOnlyAfterClose'
      BY <1>0, <2>3 DEF EnterInv, PanicsOnlyAfterClose, Panicked
    <2>5. QED
      BY <1>1, <2>3, <2>4 DEF EnterInv
  <1>5. Background => UNCHANGED call
    BY DEF Background, TransportIdle, Health, HealthRound, HealthConnect, HealthSkip,
           CloseBegins, CloseEnds, ReapIdle, OpenTimeout, GoAway, ComeBack, Tick
  <1>6. QED
    BY <1>2, <1>3, <1>4, <1>5, NextCases DEF vars

-----------------------------------------------------------------------------
(* The theorems.                                                           *)

LEMMA InitInv == Init => IInv
  <1> SUFFICES ASSUME Init PROVE IInv
    OBVIOUS
  <1>1. Types
    <2>1. EntryTypes
      BY DEF Init, EntryTypes
    <2>2. CallTypes
      <3>1. call \in [Callers -> [pc : Pcs, dev : Devices, ref : Clients \cup {Nobody},
                                  entry : Clients \cup {Nobody}, attempt : 0..MaxRetries]]
        BY IdleType DEF Init
      <3>2. \A c \in Callers : call[c].pc = "idle"
        BY DEF Init, Idle
      <3>3. QED
        BY <3>1, <3>2, PoolAssumption DEF Init, CallTypes
    <2>3. RestTypes
      BY PoolAssumption DEF Init, RestTypes
    <2>4. QED
      BY <2>1, <2>2, <2>3 DEF Types
  <1>2. Pooled = {}
    BY DEF Init, Pooled
  <1>3. IsFiniteSet(Pooled) /\ Cardinality(Pooled) = 0
    BY <1>2, FS_EmptySet
  <1>4. PoolInv
    BY <1>2, <1>3, PoolAssumption DEF Init, PoolInv, PoolBounded, ClosedModbusPoolIsEmpty
  <1>5. EnterInv
    BY DEF Init, EnterInv, PanicsOnlyAfterClose, Panicked, Idle
  <1>6. QED
    BY <1>1, <1>4, <1>5 DEF IInv

\* The inductive invariant holds: the types, the capacity of the pool, the
\* empty pool after Close, and that an entry looked up a second time was used
\* just now.
THEOREM PoolCorrect == Spec => []IInv
  <1>1. IInv /\ [Next]_vars => IInv'
    BY NextTypes, NextPool, NextEnter DEF IInv
  <1>2. QED
    BY <1>1, InitInv, PTL DEF Spec

\* The pool of either protocol never holds more than MaxConnections clients, no
\* reaper and no eviction takes the entry between the two lookups of an S7 call,
\* and a closed Modbus pool stays empty, for every number of devices and callers.
THEOREM AlwaysPoolSafe == Spec => []PoolSafe
  <1>1. IInv => PoolSafe
    <2> SUFFICES ASSUME IInv PROVE PoolSafe
      OBVIOUS
    <2>1. TypeOK
      BY DEF IInv, Types, EntryTypes, CallTypes, RestTypes, TypeOK
    <2>2. QED
      BY <2>1 DEF IInv, PoolInv, EnterInv, PoolSafe
  <1>2. QED
    BY <1>1, PoolCorrect, PTL

-----------------------------------------------------------------------------
(* FieldReads: lists and writes *)

\* before[i] is what comes before i in a strict order of S in which any two are ordered.
Orders(before, S) ==
  /\ before \in [S -> SUBSET S]
  /\ \A i \in S : i \notin before[i]
  /\ \A i, j \in S : i \in before[j] => before[i] \subseteq before[j]
  /\ \A i, j \in S : i = j \/ i \in before[j] \/ j \in before[i]

\* Arrange lists each element once, in order.
LEMMA ArrangeFacts ==
  ASSUME NEW S, IsFiniteSet(S), NEW before, Orders(before, S)
  PROVE  /\ Cardinality(S) \in Nat
         /\ Arrange(S, before) \in Bijection(1..Cardinality(S), S)
         /\ \A k, l \in 1..Cardinality(S) :
              k < l => Arrange(S, before)[k] \in before[Arrange(S, before)[l]]
<1> DEFINE n == Cardinality(S)
           rank == [i \in S |-> Cardinality(before[i]) + 1]
           A == Arrange(S, before)
<1>1. n \in Nat
  BY FS_CardinalityType
<1>2. ASSUME NEW i \in S
      PROVE  IsFiniteSet(before[i]) /\ Cardinality(before[i]) \in 0..(n-1)
  <2>1. before[i] \in SUBSET S /\ before[i] # S
    BY DEF Orders
  <2>2. IsFiniteSet(before[i]) /\ Cardinality(before[i]) \in Nat /\ Cardinality(before[i]) <= n
        /\ Cardinality(before[i]) # n
    BY <2>1, FS_Subset, FS_CardinalityType
  <2> QED
    BY <1>1, <2>2
<1>3. ASSUME NEW i \in S, NEW j \in S, i \in before[j]
      PROVE  Cardinality(before[i]) < Cardinality(before[j])
  <2>1. before[i] \in SUBSET before[j] /\ before[i] # before[j]
    BY <1>3 DEF Orders
  <2>2. Cardinality(before[i]) <= Cardinality(before[j])
        /\ Cardinality(before[i]) # Cardinality(before[j])
    BY <1>2, <2>1, FS_Subset
  <2> QED
    BY <1>2, <2>2
<1>4. rank \in Injection(S, 1..n)
  <2>1. rank \in [S -> 1..n]
    BY <1>1, <1>2
  <2>2. ASSUME NEW i \in S, NEW j \in S, rank[i] = rank[j]
        PROVE  i = j
    <3>1. Cardinality(before[i]) = Cardinality(before[j])
      BY <1>2, <2>2
    <3>2. i \notin before[j] /\ j \notin before[i]
      BY <1>2, <1>3, <3>1
    <3> QED
      BY <3>2 DEF Orders
  <2> QED
    BY <2>1, <2>2 DEF Injection, IsInjective
<1>5. rank \in Surjection(S, 1..n)
  <2>1. IsFiniteSet(1..n) /\ Cardinality(1..n) = n
    BY <1>1, FS_Interval
  <2> HIDE DEF rank
  <2> QED
    BY <1>4, <2>1, FS_Injection
<1>6. \A k \in 1..n : A[k] \in S /\ rank[A[k]] = k
  <2> SUFFICES ASSUME NEW k \in 1..n PROVE A[k] \in S /\ rank[A[k]] = k
    OBVIOUS
  <2>1. \E i \in S : rank[i] = k
    BY <1>5 DEF Surjection
  <2>2. \E i \in S : Cardinality(before[i]) = k - 1
    BY <1>2, <2>1
  <2>3. A[k] = CHOOSE i \in S : Cardinality(before[i]) = k - 1
    BY DEF Arrange
  <2>4. A[k] \in S /\ Cardinality(before[A[k]]) = k - 1
    <3> HIDE DEF A
    <3> QED BY <2>2, <2>3
  <2> QED
    BY <2>4
<1>7. A \in [1..n -> S]
  <2>1. A = [k \in 1..n |-> A[k]]
    BY DEF Arrange
  <2> HIDE DEF A
  <2> QED BY <1>6, <2>1
<1>8. \A i \in S : A[rank[i]] = i
  <2> SUFFICES ASSUME NEW i \in S PROVE A[rank[i]] = i
    OBVIOUS
  <2>1. rank[i] \in 1..n
    BY <1>4 DEF Injection
  <2>2. A[rank[i]] \in S /\ rank[A[rank[i]]] = rank[i]
    BY <1>6, <2>1
  <2> HIDE DEF A, rank
  <2> QED
    BY <1>4, <2>2 DEF Injection, IsInjective
<1>9. A \in Bijection(1..n, S)
  <2>1. \A k, l \in 1..n : A[k] = A[l] => k = l
    BY <1>6
  <2>2. \A i \in S : \E k \in 1..n : A[k] = i
    <3>1. \A i \in S : rank[i] \in 1..n
      BY <1>4 DEF Injection
    <3> HIDE DEF A, rank
    <3> QED BY <1>8, <3>1
  <2> HIDE DEF A
  <2> QED
    BY <1>7, <2>1, <2>2 DEF Bijection, Injection, Surjection, IsInjective
<1>10. ASSUME NEW k \in 1..n, NEW l \in 1..n, k < l
       PROVE  A[k] \in before[A[l]]
  <2>1. A[k] \in S /\ A[l] \in S /\ rank[A[k]] = k /\ rank[A[l]] = l
    BY <1>6
  <2>2. Cardinality(before[A[k]]) < Cardinality(before[A[l]])
    BY <1>1, <1>10, <2>1, <1>2
  <2>3. A[k] # A[l] /\ A[l] \notin before[A[k]]
    BY <2>2, <2>1, <1>2, <1>3
  <2> HIDE DEF A
  <2> QED
    BY <2>1, <2>3 DEF Orders
<1> QED
  BY <1>1, <1>9, <1>10

\* Numbers in ascending order.
LEMMA AscendingFacts ==
  ASSUME NEW n \in Nat, NEW S \in SUBSET (1..n)
  PROVE  /\ IsFiniteSet(S) /\ Cardinality(S) \in Nat
         /\ Ascending(S) \in [1..Cardinality(S) -> S]
         /\ \A i \in S : \E k \in 1..Cardinality(S) : Ascending(S)[k] = i
         /\ \A k, l \in 1..Cardinality(S) : k < l => Ascending(S)[k] < Ascending(S)[l]
<1> DEFINE before == [i \in S |-> {j \in S : j < i}]
<1>1. IsFiniteSet(S)
  <2>1. IsFiniteSet(1..n)
    BY FS_Interval
  <2> QED
    BY <2>1, FS_Subset
<1>2. Orders(before, S)
  <2>1. \A i \in S : i \in Nat
    OBVIOUS
  <2>2. before \in [S -> SUBSET S]
    OBVIOUS
  <2>3. \A i, j \in S : i \in before[j] => \A k \in before[i] : k \in before[j]
    BY <2>1
  <2>4. \A i, j \in S : i = j \/ i \in before[j] \/ j \in before[i]
    BY <2>1
  <2>5. \A i \in S : i \notin before[i]
    BY <2>1
  <2> QED
    BY <2>2, <2>3, <2>4, <2>5 DEF Orders
<1>3. Ascending(S) = Arrange(S, before)
  BY DEF Ascending
<1>4. \A i, j \in S : i \in before[j] => i < j
  OBVIOUS
<1> HIDE DEF before
<1>5. /\ Cardinality(S) \in Nat
      /\ Arrange(S, before) \in Bijection(1..Cardinality(S), S)
      /\ \A k, l \in 1..Cardinality(S) :
              k < l => Arrange(S, before)[k] \in before[Arrange(S, before)[l]]
  BY <1>1, <1>2, ArrangeFacts
<1>6. Arrange(S, before) \in [1..Cardinality(S) -> S]
  BY <1>5 DEF Bijection, Injection
<1>7. \A i \in S : \E k \in 1..Cardinality(S) : Arrange(S, before)[k] = i
  BY <1>5 DEF Bijection, Surjection
<1> QED
  BY <1>1, <1>3, <1>4, <1>5, <1>6, <1>7

-----------------------------------------------------------------------------
(* The call.                                                               *)

\* The stages of each kind of call.
Stages == [modbus |-> {"groups", "done"},
           s7 |-> {"optimized", "chunks", "fallback", "done"},
           write |-> {"split", "writes", "done"}]

\* What was asked is a list that the code can handle.
JobInv ==
  /\ job.kind \in Kinds /\ pc \in Stages[job.kind]
  /\ job.tags \in Seq(ToSet(job.tags))
  /\ job.kind = "modbus" => \A k \in DOMAIN job.tags : IsModbusTag(job.tags[k])
  /\ job.kind = "s7" => \A k \in DOMAIN job.tags : IsS7Read(job.tags[k])
  /\ job.kind = "write" => \A k \in DOMAIN job.tags : IsWrite(job.tags[k])
  /\ job.kind # "write" => Distinct(job.tags)

\* A part of the state that a stage leaves alone.
FlagInv == over \in BOOLEAN /\ failed \in BOOLEAN

\* A write without an error was carried out or is still to come.
Accounted(i) == \/ i \in applied
                \/ pc = "writes" /\ i \in ToSet(unsent) \union ToSet(group)
                \/ pc = "split"

\* The types of what a call of WriteTags keeps.
WriteTypes ==
  /\ errs \in [DOMAIN job.tags -> {"nil", "error"}]
  /\ applied \subseteq DOMAIN job.tags
  /\ unsent \in Seq(DOMAIN job.tags) /\ group \in Seq(DOMAIN job.tags)

\* The inductive invariant of the writes: a write without an error was carried out
\* or is still to be sent; a read neither writes nor has errors of writes.
WriteInv ==
  IF job.kind = "write"
  THEN WriteTypes /\ \A i \in DOMAIN job.tags : errs[i] = "nil" => Accounted(i)
  ELSE DOMAIN errs = {} /\ applied = {}

\* The head and the rest of a list that is sent in chunks.
LEMMA ChunkFacts ==
  ASSUME NEW T, NEW s \in Seq(T)
  PROVE  /\ Chunk(s) \in Seq(T) /\ Rest(s) \in Seq(T)
         /\ Len(s) = Len(Chunk(s)) + Len(Rest(s))
         /\ \A k \in 1..Len(Chunk(s)) : Chunk(s)[k] = s[k]
         /\ \A k \in 1..Len(Rest(s)) : Rest(s)[k] = s[Len(Chunk(s)) + k]
<1> DEFINE m == Min({MultiItems, Len(s)})
<1>1. MultiItems \in Nat /\ Len(s) \in Nat /\ \A i \in 1..Len(s) : s[i] \in T
  BY LimitsAssumption
<1>2. m \in Nat /\ m <= Len(s)
  BY <1>1 DEF Min
<1>3. Chunk(s) = SubSeq(s, 1, m)
  BY DEF Chunk
<1> HIDE DEF m
<1>4. /\ SubSeq(s, 1, m) \in Seq(T) /\ Len(SubSeq(s, 1, m)) = m
      /\ \A k \in 1..m : SubSeq(s, 1, m)[k] = s[k]
  BY <1>1, <1>2
<1>5. /\ SubSeq(s, m + 1, Len(s)) \in Seq(T) /\ Len(SubSeq(s, m + 1, Len(s))) = Len(s) - m
      /\ \A k \in 1..(Len(s) - m) : SubSeq(s, m + 1, Len(s))[k] = s[m + k]
  BY <1>1, <1>2
<1>6. Len(Chunk(s)) = m /\ Rest(s) = SubSeq(s, m + 1, Len(s))
  BY <1>3, <1>4 DEF Rest
<1>7. Chunk(s) \in Seq(T) /\ Rest(s) \in Seq(T) /\ Len(Rest(s)) = Len(s) - m
  BY <1>3, <1>4, <1>5, <1>6
<1>8. \A k \in 1..Len(Chunk(s)) : Chunk(s)[k] = s[k]
  BY <1>3, <1>4
<1>9. \A k \in 1..Len(Rest(s)) : Rest(s)[k] = s[Len(Chunk(s)) + k]
  BY <1>5, <1>6, <1>7
<1> HIDE DEF Chunk
<1> QED
  BY <1>1, <1>2, <1>6, <1>7, <1>8, <1>9

\* A chunk and the rest lose nothing of what was to be sent.
LEMMA ChunkMembers ==
  ASSUME NEW T, NEW s \in Seq(T), NEW x \in ToSet(s)
  PROVE  x \in ToSet(Chunk(s)) \/ x \in ToSet(Rest(s))
<1>1. PICK i \in 1..Len(s) : x = s[i]
  BY DEF ToSet
<1>2. CASE i <= Len(Chunk(s))
  BY <1>1, <1>2, ChunkFacts DEF ToSet
<1>3. CASE i > Len(Chunk(s))
  <2>1. i - Len(Chunk(s)) \in 1..Len(Rest(s)) /\ x = Rest(s)[i - Len(Chunk(s))]
    BY <1>1, <1>3, ChunkFacts
  <2> QED
    BY <2>1, ChunkFacts DEF ToSet
<1> QED
  BY <1>1, <1>2, <1>3, ChunkFacts

\* What is picked from a sequence by ascending positions.
LEMMA PickFacts ==
  ASSUME NEW T, NEW s \in Seq(T), NEW S \in SUBSET (1..Len(s))
  PROVE  /\ Pick(s, Ascending(S)) \in Seq(T)
         /\ Len(Pick(s, Ascending(S))) = Cardinality(S)
         /\ ToSet(Pick(s, Ascending(S))) = {s[i] : i \in S}
         /\ Distinct(s) => Distinct(Pick(s, Ascending(S)))
<1> DEFINE A == Ascending(S)
           n == Cardinality(S)
<1>0. Len(s) \in Nat /\ \A i \in S : s[i] \in T
  OBVIOUS
<1>1. /\ n \in Nat /\ A \in [1..n -> S]
      /\ \A i \in S : \E k \in 1..n : A[k] = i
      /\ \A k, l \in 1..n : k < l => A[k] < A[l]
  BY <1>0, AscendingFacts
<1> HIDE DEF A, n
<1>2. Pick(s, A) = [k \in 1..n |-> s[A[k]]]
  BY <1>1 DEF Pick
<1>3. \A k \in 1..n : A[k] \in S /\ s[A[k]] \in T
  BY <1>0, <1>1
<1>4. Pick(s, A) \in Seq(T) /\ Len(Pick(s, A)) = n
  BY <1>1, <1>2, <1>3
<1>5. ToSet(Pick(s, A)) = {s[i] : i \in S}
  <2>1. ToSet(Pick(s, A)) = {s[A[k]] : k \in 1..n}
    BY <1>2 DEF ToSet
  <2>2. \A k \in 1..n : s[A[k]] \in {s[i] : i \in S}
    BY <1>3
  <2>3. \A i \in S : \E k \in 1..n : s[A[k]] = s[i]
    BY <1>1
  <2> QED
    BY <2>1, <2>2, <2>3
<1>6. ASSUME Distinct(s) PROVE Distinct(Pick(s, A))
  <2>1. \A k, l \in 1..n : k # l => k < l \/ l < k
    BY <1>1
  <2>2. ASSUME NEW k \in 1..n, NEW l \in 1..n, k # l
        PROVE  A[k] # A[l] /\ A[k] \in DOMAIN s /\ A[l] \in DOMAIN s
    <3>1. A[k] \in S /\ A[l] \in S /\ DOMAIN s = 1..Len(s)
      BY <1>3
    <3>2. A[k] < A[l] \/ A[l] < A[k]
      BY <1>1, <2>1, <2>2
    <3>3. \A x \in S : x \in 1..Len(s) /\ x \in Nat
      BY <1>0
    <3>4. \A x, y \in S : x < y \/ y < x => x # y
      BY <3>3
    <3> QED
      BY <3>1, <3>2, <3>3, <3>4
  <2>3. DOMAIN Pick(s, A) = 1..n /\ \A k \in 1..n : Pick(s, A)[k] = s[A[k]]
    BY <1>2
  <2> QED
    BY <1>6, <2>2, <2>3 DEF Distinct
<1> QED
  BY <1>4, <1>5, <1>6 DEF A, n

\* The items of a request are the writes of the chunk that parse and convert.
LEMMA ItemsFacts ==
  ASSUME NEW T, NEW chunk \in Seq(T)
  PROVE  /\ Items(chunk) \in Seq(T)
         /\ ToSet(Items(chunk)) = {k \in ToSet(chunk) : Encodes(k)}
<1> DEFINE S == {k \in DOMAIN chunk : Encodes(chunk[k])}
<1>1. S \in SUBSET (1..Len(chunk))
  OBVIOUS
<1>2. {chunk[i] : i \in S} = {k \in ToSet(chunk) : Encodes(k)}
  BY DEF ToSet
<1>3. Items(chunk) = Pick(chunk, Ascending(S))
  BY DEF Items
<1> HIDE DEF S
<1> QED
  BY <1>1, <1>2, <1>3, PickFacts

\* The writes to send, bools apart, are indices of writes that were asked for.
LEMMA IndicesFacts ==
  ASSUME JobInv, NEW b \in BOOLEAN
  PROVE  /\ Indices(b) \in Seq(DOMAIN job.tags)
         /\ ToSet(Indices(b)) = {k \in DOMAIN job.tags : job.tags[k].writable /\ job.tags[k].bool = b}
<1> DEFINE S == {k \in DOMAIN job.tags : job.tags[k].writable /\ job.tags[k].bool = b}
<1>1. Len(job.tags) \in Nat /\ DOMAIN job.tags = 1..Len(job.tags)
  BY DEF JobInv
<1>2. S \in SUBSET (1..Len(job.tags)) /\ Indices(b) = Ascending(S)
  BY <1>1 DEF Indices
<1>3. S \subseteq DOMAIN job.tags
  OBVIOUS
<1> HIDE DEF S
<1>4. /\ Cardinality(S) \in Nat
      /\ Ascending(S) \in [1..Cardinality(S) -> S]
      /\ \A i \in S : \E k \in 1..Cardinality(S) : Ascending(S)[k] = i
  BY <1>1, <1>2, AscendingFacts
<1>5. Ascending(S) \in Seq(DOMAIN job.tags)
  BY <1>3, <1>4
<1>6. ToSet(Ascending(S)) = S
  BY <1>4 DEF ToSet
<1> QED
  BY <1>2, <1>5, <1>6 DEF S

\* A stage tells the kind of the call.
LEMMA StageFacts ==
  ASSUME JobInv
  PROVE  /\ pc = "groups" => job.kind = "modbus"
         /\ pc \in {"optimized", "chunks", "fallback"} => job.kind = "s7"
         /\ pc \in {"split", "writes"} => job.kind = "write"
BY DEF JobInv, Stages, Kinds

\* The call keeps its tags and the stages of its kind.
LEMMA JobStep == JobInv /\ FlagInv /\ [CallNext]_callVars => JobInv' /\ FlagInv'
<1> SUFFICES ASSUME JobInv, FlagInv, [CallNext]_callVars PROVE JobInv' /\ FlagInv'
  OBVIOUS
<1>1. job' = job
  BY DEF CallNext, Modbus, S7Read, S7Write, TakeGroup, ReadRange, RangeFails, NextRange,
         GroupDone, CutGroup, GroupReturns, ModbusDone, Optimize, CannotOptimize, FallBack,
         ReadChunk, ChunkFails, Assemble, ReadBatch, ReadEach, FallbackAdds, FallbackDone,
         SplitWrites, WriteChunk, WriteChunkFails, Settle, WritesCut, WriteBool,
         WriteBoolFails, NextBool, WritesDone, NotConnected, ContextEnds, callVars
<1>2. \/ pc' = pc \/ pc' = "done"
      \/ pc \in {"optimized", "chunks"} /\ pc' \in {"chunks", "fallback"}
      \/ pc = "split" /\ pc' = "writes"
  BY DEF CallNext, Modbus, S7Read, S7Write, TakeGroup, ReadRange, RangeFails, NextRange,
         GroupDone, CutGroup, GroupReturns, ModbusDone, Optimize, CannotOptimize, FallBack,
         ReadChunk, ChunkFails, Assemble, ReadBatch, ReadEach, FallbackAdds, FallbackDone,
         SplitWrites, WriteChunk, WriteChunkFails, Settle, WritesCut, WriteBool,
         WriteBoolFails, NextBool, WritesDone, NotConnected, ContextEnds, callVars
<1>3. over' \in BOOLEAN /\ failed' \in BOOLEAN
  <2>1. (over' = over \/ over' = TRUE)
        /\ (failed' = failed \/ failed' = (unsent # <<>>) \/ failed' = (job.kind = "s7"))
    BY DEF CallNext, Modbus, S7Read, S7Write, TakeGroup, ReadRange, RangeFails, NextRange,
         GroupDone, CutGroup, GroupReturns, ModbusDone, Optimize, CannotOptimize, FallBack,
         ReadChunk, ChunkFails, Assemble, ReadBatch, ReadEach, FallbackAdds, FallbackDone,
         SplitWrites, WriteChunk, WriteChunkFails, Settle, WritesCut, WriteBool,
         WriteBoolFails, NextBool, WritesDone, NotConnected, ContextEnds, callVars
  <2> QED
    BY <2>1 DEF FlagInv
<1>4. pc' \in Stages[job.kind]
  BY <1>2, StageFacts DEF JobInv, Stages, Kinds
<1> QED
  BY <1>1, <1>3, <1>4 DEF JobInv, FlagInv

-----------------------------------------------------------------------------
(* Writes.                                                                 *)

\* Reads leave the errors and the writes alone.
LEMMA ReadsWriteNothing ==
  ASSUME JobInv, WriteInv, Modbus \/ S7Read
  PROVE  WriteInv'
<1>1. job' = job /\ errs' = errs /\ applied' = applied
  BY DEF Modbus, S7Read, TakeGroup, ReadRange, RangeFails, NextRange, GroupDone, CutGroup,
         GroupReturns, ModbusDone, Optimize, CannotOptimize, FallBack, ReadChunk, ChunkFails,
         Assemble, ReadBatch, ReadEach, FallbackAdds, FallbackDone
<1>2. pc \in {"groups", "optimized", "chunks", "fallback"}
  BY DEF Modbus, S7Read, TakeGroup, ReadRange, RangeFails, NextRange, GroupDone, CutGroup,
         GroupReturns, ModbusDone, Optimize, CannotOptimize, FallBack, ReadChunk, ChunkFails,
         Assemble, ReadBatch, ReadEach, FallbackAdds, FallingBack, FallbackDone
<1>3. job.kind # "write"
  BY <1>2, StageFacts
<1> QED
  BY <1>1, <1>3 DEF WriteInv

\* The writes are split: all are accounted for by a list or an error.
LEMMA SplitStep ==
  ASSUME JobInv, WriteInv, SplitWrites
  PROVE  WriteInv'
<1>1. job.kind = "write" /\ job' = job /\ pc' = "writes" /\ applied' = applied
  BY StageFacts DEF SplitWrites
<1>2. WriteTypes
  BY <1>1 DEF WriteInv
<1>3. errs' = [k \in DOMAIN job.tags |-> IF job.tags[k].writable THEN "nil" ELSE "error"]
  BY <1>2 DEF SplitWrites, WriteTypes
<1>4. unsent' = Indices(FALSE) /\ group' = Indices(TRUE)
  BY DEF SplitWrites
<1>5. WriteTypes'
  BY <1>1, <1>2, <1>3, <1>4, IndicesFacts DEF WriteTypes
<1>6. ASSUME NEW i \in DOMAIN job.tags, errs'[i] = "nil"
      PROVE  Accounted(i)'
  <2>1. job.tags[i].writable /\ job.tags[i].bool \in BOOLEAN
    BY <1>1, <1>3, <1>6 DEF JobInv, IsWrite
  <2>2. i \in ToSet(Indices(job.tags[i].bool))
    BY <2>1, IndicesFacts
  <2>3. i \in ToSet(unsent') \union ToSet(group')
    BY <1>4, <2>1, <2>2
  <2> QED
    BY <1>1, <2>3 DEF Accounted, ToSet
<1> QED
  BY <1>1, <1>5, <1>6 DEF WriteInv

\* One chunk is answered: its writes have an error or were carried out.
LEMMA SettleStep ==
  ASSUME JobInv, WriteInv, WritingBatches, NEW wrong, NEW done, Settle(wrong, done),
         wrong \subseteq ToSet(Chunk(unsent)), done \subseteq ToSet(Chunk(unsent)),
         ToSet(Chunk(unsent)) \subseteq wrong \union done
  PROVE  WriteInv'
<1>1. job.kind = "write" /\ job' = job /\ pc' = pc /\ pc = "writes" /\ group' = group
      /\ applied' = applied \union done /\ unsent' = Rest(unsent)
  BY StageFacts DEF Settle, WritingBatches
<1>2. WriteTypes
  BY <1>1 DEF WriteInv
<1>3. Rest(unsent) \in Seq(DOMAIN job.tags) /\ Chunk(unsent) \in Seq(DOMAIN job.tags)
  BY <1>2, ChunkFacts DEF WriteTypes
<1>4. errs' = [k \in DOMAIN job.tags |-> IF k \in wrong THEN "error" ELSE errs[k]]
  BY <1>2 DEF Settle, WriteTypes
<1>5. done \subseteq DOMAIN job.tags
  BY <1>3 DEF ToSet
<1>6. WriteTypes'
  BY <1>1, <1>2, <1>3, <1>4, <1>5 DEF WriteTypes
<1>7. ASSUME NEW i \in DOMAIN job.tags, errs'[i] = "nil"
      PROVE  Accounted(i)'
  <2>1. i \notin wrong /\ errs[i] = "nil"
    BY <1>4, <1>7
  <2>2. Accounted(i)
    BY <1>1, <2>1 DEF WriteInv
  <2>3. CASE i \in ToSet(unsent)
    <3>1. i \in ToSet(Chunk(unsent)) \/ i \in ToSet(Rest(unsent))
      BY <1>2, <2>3, ChunkMembers DEF WriteTypes
    <3>2. i \in applied' \/ i \in ToSet(unsent')
      BY <1>1, <2>1, <3>1
    <3> QED
      BY <1>1, <3>2 DEF Accounted, ToSet
  <2>4. CASE i \notin ToSet(unsent)
    <3>1. i \in applied' \/ i \in ToSet(group')
      BY <1>1, <2>2, <2>4 DEF Accounted
    <3> QED
      BY <1>1, <3>1 DEF Accounted, ToSet
  <2> QED
    BY <2>3, <2>4
<1> QED
  BY <1>1, <1>6, <1>7 DEF WriteInv

\* A batch of writes, with some items refused or failed as a whole.
LEMMA ChunkStep ==
  ASSUME JobInv, WriteInv, WriteChunk \/ WriteChunkFails
  PROVE  WriteInv'
<1> DEFINE chunk == Chunk(unsent)
           items == Items(chunk)
<1>1. WritingBatches /\ job.kind = "write"
  BY StageFacts DEF WriteChunk, WriteChunkFails, WritingBatches
<1>2. chunk \in Seq(DOMAIN job.tags)
  BY <1>1, ChunkFacts DEF WriteInv, WriteTypes
<1>3. /\ items \in Seq(DOMAIN job.tags)
      /\ ToSet(items) = {k \in ToSet(chunk) : Encodes(k)}
  <2> HIDE DEF chunk
  <2> QED
    BY <1>2, ItemsFacts
<1>4. CASE WriteChunk
  <2> HIDE DEF items
  <2>1. PICK refused \in SUBSET DOMAIN items :
          Settle(Unencodable(chunk) \union WritesOf(chunk, refused),
                 {items[j] : j \in DOMAIN items \ refused})
    BY <1>4 DEF WriteChunk, items
  <2>2. Unencodable(chunk) = {k \in ToSet(chunk) : ~Encodes(k)}
    BY DEF Unencodable
  <2>3. WritesOf(chunk, refused) = {items[j] : j \in refused}
    BY DEF WritesOf, items
  <2> HIDE DEF chunk
  <2> DEFINE wrong == Unencodable(chunk) \union WritesOf(chunk, refused)
             done == {items[j] : j \in DOMAIN items \ refused}
  <2>4. ToSet(items) = {items[j] : j \in DOMAIN items}
    BY DEF ToSet
  <2>5. \A j \in DOMAIN items : items[j] \in ToSet(chunk)
    BY <1>3, <2>4
  <2>6. wrong \subseteq ToSet(chunk) /\ done \subseteq ToSet(chunk)
    BY <2>2, <2>3, <2>5
  <2>7. ASSUME NEW k \in ToSet(chunk), Encodes(k) PROVE k \in wrong \union done
    <3>1. PICK j \in DOMAIN items : k = items[j]
      BY <1>3, <2>4, <2>7
    <3> QED
      BY <2>3, <3>1
  <2>8. ToSet(chunk) \subseteq wrong \union done
    BY <2>2, <2>7
  <2> HIDE DEF wrong, done
  <2>9. Settle(wrong, done)
    BY <2>1 DEF wrong, done
  <2> QED
    BY <1>1, <2>6, <2>8, <2>9, SettleStep DEF chunk
<1>5. CASE WriteChunkFails
  <2>1. PICK done \in SUBSET ToSet(items) : Settle(ToSet(chunk), done)
    BY <1>5 DEF WriteChunkFails
  <2>2. done \subseteq ToSet(chunk)
    BY <1>3, <2>1
  <2> QED
    BY <1>1, <2>1, <2>2, SettleStep
<1> QED
  BY <1>4, <1>5

\* What is left gets the context's error.
LEMMA CutStep ==
  ASSUME JobInv, WriteInv, WritesCut
  PROVE  WriteInv'
<1>1. job.kind = "write" /\ job' = job /\ pc' = "done" /\ pc = "writes"
      /\ UNCHANGED <<applied, unsent, group>>
  BY StageFacts DEF WritesCut
<1>2. WriteTypes
  BY <1>1 DEF WriteInv
<1>3. errs' = [k \in DOMAIN job.tags |-> IF k \in ToSet(unsent) \union ToSet(group)
                                         THEN "error" ELSE errs[k]]
  BY <1>2 DEF WritesCut, WriteTypes
<1>4. WriteTypes'
  BY <1>1, <1>2, <1>3 DEF WriteTypes
<1>5. ASSUME NEW i \in DOMAIN job.tags, errs'[i] = "nil"
      PROVE  Accounted(i)'
  <2>1. i \notin ToSet(unsent) \union ToSet(group) /\ errs[i] = "nil"
    BY <1>3, <1>5
  <2>2. i \in applied
    BY <1>1, <2>1 DEF WriteInv, Accounted
  <2> QED
    BY <1>1, <2>2 DEF Accounted
<1> QED
  BY <1>1, <1>4, <1>5 DEF WriteInv

\* A bool is answered on its own; without an error only if it was carried out.
LEMMA BoolStep ==
  ASSUME JobInv, WriteInv, WriteBool \/ WriteBoolFails
  PROVE  WriteInv'
<1>1. PICK answer \in {"nil", "error"}, done \in SUBSET {Head(group)} :
        /\ NextBool(answer, done)
        /\ answer = "nil" => /\ Encodes(Head(group))
                             /\ done = IF AreaOfRequest(job.tags[Head(group)]) = job.tags[Head(group)].area
                                       THEN {Head(group)} ELSE {}
  BY DEF WriteBool, WriteBoolFails
<1>2. job.kind = "write" /\ job' = job /\ pc' = pc /\ pc = "writes" /\ unsent' = unsent
      /\ applied' = applied \union done /\ group' = Tail(group) /\ group # <<>>
      /\ errs' = [errs EXCEPT ![Head(group)] = answer]
  BY <1>1, StageFacts DEF NextBool
<1>3. WriteTypes
  BY <1>2 DEF WriteInv
<1> DEFINE b == Head(group)
<1>4. b \in DOMAIN job.tags /\ Tail(group) \in Seq(DOMAIN job.tags)
      /\ ToSet(group) = {b} \union ToSet(Tail(group))
  <2>1. group \in Seq(DOMAIN job.tags) /\ group # <<>>
    BY <1>2, <1>3 DEF WriteTypes
  <2>2. b = group[1] /\ 1 \in 1..Len(group) /\ Len(Tail(group)) = Len(group) - 1
        /\ \A k \in 1..(Len(group) - 1) : Tail(group)[k] = group[k + 1]
    BY <2>1
  <2>3. \A x \in ToSet(Tail(group)) : x \in ToSet(group)
    BY <2>1, <2>2 DEF ToSet
  <2>4. ASSUME NEW x \in ToSet(group), x # b PROVE x \in ToSet(Tail(group))
    <3>1. PICK i \in 1..Len(group) : x = group[i]
      BY <2>1 DEF ToSet
    <3>2. i - 1 \in 1..Len(Tail(group)) /\ x = Tail(group)[i - 1]
      BY <2>1, <2>2, <2>4, <3>1
    <3>3. DOMAIN Tail(group) = 1..Len(Tail(group))
      BY <2>1
    <3> QED
      BY <3>2, <3>3 DEF ToSet
  <2>5. b \in ToSet(group)
    <3>1. DOMAIN group = 1..Len(group)
      BY <2>1
    <3> QED
      BY <2>2, <3>1 DEF ToSet
  <2> QED
    BY <2>1, <2>3, <2>4, <2>5
<1>5. answer = "nil" => b \in done
  <2> SUFFICES ASSUME answer = "nil" PROVE b \in done
    OBVIOUS
  <2>1. job.tags[b].area \in DataBlocks \union {"I"}
    BY <1>1, <1>2, <1>4 DEF JobInv, IsWrite, IsS7Tag, Encodes, Parses
  <2>2. AreaOfRequest(job.tags[b]) = job.tags[b].area
    BY <2>1 DEF AreaOfRequest
  <2> QED
    BY <1>1, <2>2
<1> HIDE DEF b
<1>6. errs' = [errs EXCEPT ![b] = answer] /\ done \subseteq {b} /\ group' = Tail(group)
  BY <1>1, <1>2 DEF b
<1>7. WriteTypes'
  BY <1>2, <1>3, <1>4, <1>6 DEF WriteTypes
<1>8. ASSUME NEW i \in DOMAIN job.tags, errs'[i] = "nil"
      PROVE  Accounted(i)'
  <2>1. CASE i = b
    <3>1. answer = "nil"
      BY <1>3, <1>4, <1>6, <1>8, <2>1 DEF WriteTypes
    <3> QED
      BY <1>2, <1>5, <2>1, <3>1 DEF Accounted
  <2>2. CASE i # b
    <3>1. errs[i] = "nil"
      BY <1>3, <1>6, <1>8, <2>2 DEF WriteTypes
    <3>2. i \in applied \/ i \in ToSet(unsent) \/ i \in ToSet(group)
      BY <1>2, <3>1 DEF WriteInv, Accounted
    <3>3. i \in applied' \/ i \in ToSet(unsent') \union ToSet(group')
      BY <1>2, <1>4, <2>2, <3>2
    <3> QED
      BY <1>2, <3>3 DEF Accounted, ToSet
  <2> QED
    BY <2>1, <2>2
<1> QED
  BY <1>2, <1>7, <1>8 DEF WriteInv

\* The call of WriteTags ends, with nothing left to send or not connected.
LEMMA WriteEnds ==
  ASSUME JobInv, WriteInv, WritesDone \/ NotConnected
  PROVE  WriteInv'
<1>1. job' = job /\ pc' = "done" /\ UNCHANGED <<unsent, group, applied>>
  BY DEF WritesDone, NotConnected
<1>2. CASE job.kind # "write"
  BY <1>1, <1>2, StageFacts DEF WriteInv, NotConnected, WritesDone
<1>3. CASE job.kind = "write"
  <2>1. WriteTypes
    BY <1>3 DEF WriteInv
  <2>2. CASE WritesDone
    <3>1. \A i : Accounted(i) => i \in applied
      BY <2>2 DEF WritesDone, Accounted, ToSet
    <3>2. WriteTypes' /\ errs' = errs
      BY <1>1, <2>1, <2>2 DEF WritesDone, WriteTypes
    <3> QED
      BY <1>1, <1>3, <3>1, <3>2 DEF WriteInv, Accounted
  <2>3. CASE NotConnected
    <3>1. errs' = [k \in DOMAIN job.tags |-> "error"]
      BY <2>1, <2>3 DEF NotConnected, WriteTypes
    <3>2. WriteTypes'
      BY <1>1, <2>1, <3>1 DEF WriteTypes
    <3> QED
      BY <1>1, <1>3, <3>1, <3>2 DEF WriteInv
  <2> QED
    BY <2>2, <2>3
<1> QED
  BY <1>2, <1>3

\* Every step keeps the invariant of the writes.
LEMMA WriteStep == JobInv /\ WriteInv /\ [CallNext]_callVars => WriteInv'
<1> SUFFICES ASSUME JobInv, WriteInv, [CallNext]_callVars PROVE WriteInv'
  OBVIOUS
<1>1. CASE ContextEnds \/ UNCHANGED callVars
  <2>1. UNCHANGED <<job, pc, errs, applied, unsent, group>>
    BY <1>1 DEF ContextEnds, callVars
  <2> QED
    BY <2>1 DEF WriteInv, WriteTypes, Accounted, ToSet
<1> QED
  BY <1>1, ReadsWriteNothing, SplitStep, ChunkStep, CutStep, BoolStep, WriteEnds
  DEF CallNext, S7Write

\* A call starts in the invariants of its tags, flags and writes.
LEMMA CallInitFacts == CallInit => JobInv /\ FlagInv /\ WriteInv
<1> SUFFICES ASSUME CallInit PROVE JobInv /\ FlagInv /\ WriteInv
  OBVIOUS
<1>1. FlagInv /\ applied = {} /\ group = <<>> /\ unsent = <<>>
  BY DEF CallInit, FlagInv
<1>2. CASE \E ts \in ModbusReads : Start("modbus", ts, "groups")
  BY <1>1, <1>2, JobsAssumption DEF Start, JobInv, ListOf, Stages, Kinds, WriteInv
<1>3. CASE \E ts \in S7Reads : Start("s7", ts, "optimized")
  BY <1>1, <1>3, JobsAssumption DEF Start, JobInv, ListOf, Stages, Kinds, WriteInv
<1>4. CASE \E ws \in S7Writes : Start("write", ws, "split")
  <2>1. PICK ws \in S7Writes : Start("write", ws, "split")
    BY <1>4
  <2>2. JobInv
    BY <2>1, JobsAssumption DEF Start, JobInv, ListOf, Stages, Kinds
  <2>3. WriteTypes
    BY <1>1, <2>1 DEF Start, WriteTypes
  <2> QED
    BY <1>1, <2>1, <2>2, <2>3 DEF Start, WriteInv, Accounted
<1> QED
  BY <1>2, <1>3, <1>4 DEF CallInit

\* Whatever the devices refuse and whenever the context ends, a write that
\* WriteTags answers without an error was carried out (s7 WriteTags, batch.go).
THEOREM HonestWrites == CallSpec => []WritesAnsweredHonestly
<1>1. JobInv /\ WriteInv => WritesAnsweredHonestly
  BY DEF WriteInv, WriteTypes, WritesAnsweredHonestly, Accounted
<1> QED
  BY <1>1, CallInitFacts, JobStep, WriteStep, PTL DEF CallSpec

-----------------------------------------------------------------------------
(* FieldReads: ranges, and the points cut out of their answers *)

\* A tag the code reads rightly, with an address that parses.
Sane(t) == IsModbusTag(t) \/ (IsS7Tag(t) /\ Parses(t))

\* The areas of tags that the code can read.
Areas == Coils \union Registers \union DataBlocks \union {"I"}

\* What a sane tag's area says of its address.
LEMMA SaneFacts ==
  ASSUME NEW t, Sane(t)
  PROVE  /\ t.area \in Areas /\ t.addr \in Nat /\ t.count \in Nat
         /\ Kind(t.area) \in {"coils", "registers", "bytes"}
         /\ Kind(t.area) # "bytes" => t.addr \in 0..Space-1 /\ t.count \in 0..Space-1
         /\ (t.area \in Coils) <=> (Kind(t.area) = "coils")
         /\ t.area \in Coils => t.count > 0 /\ t.addr + t.count <= Space
<1>1. Space \in Nat \ {0}
  BY SpaceAssumption
<1>2. CASE IsModbusTag(t)
  BY <1>1, <1>2 DEF IsModbusTag, Kind, Areas, Coils, Registers
<1>3. CASE IsS7Tag(t) /\ Parses(t)
  <2>1. t.area \in DataBlocks \union {"I"} /\ t.addr \in Nat /\ t.count \in Nat
    BY <1>3 DEF IsS7Tag, Parses
  <2>2. t.area \notin Coils /\ t.area \notin Registers
    BY <2>1 DEF DataBlocks, Coils, Registers
  <2>3. Kind(t.area) = "bytes"
    BY <2>2 DEF Kind
  <2> QED
    BY <2>1, <2>2, <2>3 DEF Areas
<1> QED
  BY <1>2, <1>3 DEF Sane

\* Numbers of the address space, and what wraps around by once its size.
LEMMA WrapFacts ==
  /\ Space \in Nat \ {0}
  /\ \A x \in 0..Space-1 : x % Space = x /\ (x + Space) % Space = x /\ (x - Space) % Space = x
  /\ \A x \in Int : x % Space \in 0..Space-1
  /\ Space % Space = 0
<1>1. Space \in Nat \ {0}
  BY SpaceAssumption
<1>2. \A x \in 0..Space-1 : x % Space = x
  BY <1>1
<1>3. \A x \in 0..Space-1 : (x + Space) % Space = x
  BY <1>1
<1>4. \A x \in 0..Space-1 : (x - Space) % Space = x
  BY <1>1
<1>5. \A x \in Int : x % Space \in 0..Space-1
  BY <1>1
<1>6. (0 + Space) % Space = 0 /\ 0 + Space = Space
  BY <1>1, <1>3
<1> QED
  BY <1>1, <1>2, <1>3, <1>4, <1>5, <1>6

\* Address ranges with tags of T.
RangeRecords(T) == [area : Areas, start : Nat, last : Int, tags : Seq(T)]

\* One tag is another than the next, and starts at or before it.
Behind(u, t) == u.id # t.id /\ u.addr <= t.addr

\* What every range keeps: its tags are of its area, start in it and ascend, a
\* coil's address is in it, and it is as large as a batch may be or as one of its
\* tags.
RangeOk(r) ==
  /\ Kind(r.area) # "bytes" => r.start \in 0..Space-1 /\ r.last \in 0..Space-1
  /\ Kind(r.area) = "bytes" => r.last - r.start + 1 >= 0
  /\ \A k \in DOMAIN r.tags :
       /\ Sane(r.tags[k]) /\ r.tags[k].area = r.area /\ r.start <= r.tags[k].addr
       /\ r.area \in Coils => r.tags[k].addr <= r.last
  /\ \A m, n \in DOMAIN r.tags : m < n => Behind(r.tags[m], r.tags[n])
  /\ \/ Quantity(r) <= BatchLimits[Kind(r.area)].size
     \/ \E i \in DOMAIN r.tags : Quantity(r) = r.tags[i].count

\* The last cell of a tag, where it may wrap around the address space: from the
\* tag's address to it there are as many cells as the tag counts.
LEMMA LastFacts ==
  ASSUME NEW t, Sane(t)
  PROVE  /\ LastOf(t) \in Int
         /\ Kind(t.area) # "bytes" => LastOf(t) \in 0..Space-1
         /\ Kind(t.area) = "bytes" => LastOf(t) = t.addr + t.count - 1
         /\ t.area \in Coils => LastOf(t) = t.addr + t.count - 1
         /\ Wrap(t.area, LastOf(t) - t.addr + 1) = t.count
<1> DEFINE a == t.addr
           c == t.count
           e == t.addr + t.count - 1
<1>1. a \in Nat /\ c \in Nat /\ e \in Int /\ e = a + c - 1
  BY SaneFacts
<1>2. CASE Kind(t.area) = "bytes"
  <2>1. LastOf(t) = e /\ Wrap(t.area, LastOf(t) - t.addr + 1) = e - a + 1
    BY <1>2 DEF LastOf, Wrap
  <2>2. t.area \notin Coils
    BY <1>2, SaneFacts
  <2> QED
    BY <1>1, <1>2, <2>1, <2>2
<1>3. CASE Kind(t.area) # "bytes"
  <2>1. LastOf(t) = e % Space /\ Wrap(t.area, LastOf(t) - t.addr + 1) = ((e % Space) - a + 1) % Space
    BY <1>3 DEF LastOf, Wrap
  <2>2. a \in 0..Space-1 /\ c \in 0..Space-1
    BY <1>3, SaneFacts
  <2>3. t.area \in Coils => c > 0 /\ a + c <= Space
    BY SaneFacts
  <2> HIDE DEF a, c, e
  <2>4. CASE e = -1
    <3>1. a = 0 /\ c = 0
      BY <1>1, <2>4
    <3>2. e + Space = Space - 1 /\ Space - 1 \in 0..Space-1
      BY <2>4, WrapFacts
    <3>3. ((Space - 1) - Space) % Space = Space - 1
      BY <3>2, WrapFacts
    <3>4. e % Space = Space - 1
      BY <2>4, <3>3, WrapFacts
    <3>5. ((e % Space) - a + 1) % Space = 0
      <4>1. Space \in Nat \ {0} /\ Space % Space = 0
        BY WrapFacts
      <4>2. (e % Space) - a + 1 = Space
        BY <3>1, <3>4, <4>1
      <4> QED
        BY <4>1, <4>2
    <3> QED
      BY <1>3, <2>1, <2>3, <3>1, <3>2, <3>4, <3>5 DEF c
  <2>5. CASE e \in 0..Space-1
    <3>1. e % Space = e /\ (e - a + 1) = c
      BY <1>1, <2>5, WrapFacts
    <3>2. c % Space = c
      BY <2>2, WrapFacts
    <3> QED
      BY <1>3, <2>1, <2>5, <3>1, <3>2 DEF a, c, e
  <2>6. CASE e >= Space
    <3>1. e - Space \in 0..Space-1 /\ e = (e - Space) + Space
      BY <1>1, <2>2, <2>6, WrapFacts
    <3>2. e % Space = e - Space
      BY <3>1, WrapFacts
    <3>3. (e - Space) - a + 1 = c - Space
      BY <1>1, WrapFacts
    <3>4. (c - Space) % Space = c
      BY <2>2, WrapFacts
    <3>5. t.area \notin Coils
      BY <1>1, <2>3, <2>6, WrapFacts
    <3> QED
      BY <1>3, <2>1, <3>1, <3>2, <3>3, <3>4, <3>5 DEF c
  <2> QED
    BY <1>1, <2>2, <2>4, <2>5, <2>6, WrapFacts
<1> QED
  BY <1>2, <1>3

\* A range is well formed when it starts with one tag.
LEMMA NewRangeOk ==
  ASSUME NEW T, NEW t \in T, Sane(t)
  PROVE  NewRange(t) \in RangeRecords(T) /\ RangeOk(NewRange(t))
<1> DEFINE r == NewRange(t)
<1>1. r.area = t.area /\ r.start = t.addr /\ r.last = LastOf(t) /\ r.tags = <<t>>
      /\ r = [area |-> t.area, start |-> t.addr, last |-> LastOf(t), tags |-> <<t>>]
  BY DEF NewRange
<1>2. <<t>> \in Seq(T) /\ DOMAIN <<t>> = {1} /\ <<t>>[1] = t
  OBVIOUS
<1>3. r \in RangeRecords(T)
  BY <1>1, <1>2, SaneFacts, LastFacts DEF RangeRecords
<1> HIDE DEF r
<1>4. Quantity(r) = r.tags[1].count
  BY <1>1, <1>2, LastFacts DEF Quantity
<1>5. Kind(r.area) # "bytes" => r.start \in 0..Space-1 /\ r.last \in 0..Space-1
  BY <1>1, SaneFacts, LastFacts
<1>6. Kind(r.area) = "bytes" => r.last - r.start + 1 >= 0
  BY <1>1, SaneFacts, LastFacts
<1>7. \A k \in DOMAIN r.tags : r.tags[k] = t
  BY <1>1, <1>2
<1>8. r.area \in Coils => t.addr <= r.last
  BY <1>1, SaneFacts, LastFacts
<1>9. r.start <= t.addr
  BY <1>1, SaneFacts
<1>10. 1 \in DOMAIN r.tags
  BY <1>1, <1>2
<1>11. \A m, n \in DOMAIN r.tags : ~(m < n)
  BY <1>1, <1>2
<1>12. RangeOk(r)
  BY <1>1, <1>4, <1>5, <1>6, <1>7, <1>8, <1>9, <1>10, <1>11 DEF RangeOk
<1> QED
  BY <1>3, <1>12 DEF r

\* A range stays well formed when a tag joins it: the limit was checked, or the
\* range did not grow.
LEMMA ExtendOk ==
  ASSUME NEW T, NEW t \in T, Sane(t), NEW r \in RangeRecords(T), RangeOk(r),
         t.area = r.area, r.start <= t.addr, Merges(r, t),
         \A m \in 1..Len(r.tags) : Behind(r.tags[m], t)
  PROVE  /\ Extend(r, t) \in RangeRecords(T) /\ RangeOk(Extend(r, t))
         /\ Extend(r, t).tags = r.tags \o <<t>>
         /\ Extend(r, t).start = r.start /\ Extend(r, t).area = r.area
<1> DEFINE x == Extend(r, t)
           l == LastOf(t)
           m == Max({l, r.last})
<1>1. l \in Int /\ r.last \in Int /\ r.start \in Nat
  BY LastFacts DEF RangeRecords
<1>2. m \in {l, r.last} /\ l <= m /\ r.last <= m
  <2> HIDE DEF l
  <2>1. \E y \in {l, r.last} : \A z \in {l, r.last} : y >= z
    BY <1>1
  <2>2. m \in {l, r.last} /\ \A z \in {l, r.last} : m >= z
    BY <2>1 DEF Max
  <2> QED
    BY <1>1, <2>2
<1>3. x.area = r.area /\ x.start = r.start /\ x.last = m /\ x.tags = Append(r.tags, t)
      /\ x = [r EXCEPT !.last = m, !.tags = Append(r.tags, t)]
  <2> HIDE DEF m
  <2>1. x = [r EXCEPT !.last = m, !.tags = Append(r.tags, t)]
    BY DEF Extend, m
  <2> HIDE DEF x
  <2> QED
    BY <2>1 DEF RangeRecords
<1> HIDE DEF x, m, l
<1>4. /\ r.tags \in Seq(T) /\ r.tags \o <<t>> = Append(r.tags, t) /\ Append(r.tags, t) \in Seq(T)
      /\ Len(Append(r.tags, t)) = Len(r.tags) + 1
      /\ \A k \in 1..Len(r.tags) : Append(r.tags, t)[k] = r.tags[k]
      /\ Append(r.tags, t)[Len(r.tags) + 1] = t
  BY DEF RangeRecords
<1>5. x \in RangeRecords(T)
  BY <1>1, <1>2, <1>3, <1>4 DEF RangeRecords
<1>6. DOMAIN x.tags = 1..(Len(r.tags) + 1) /\ DOMAIN r.tags = 1..Len(r.tags) /\ Len(r.tags) \in Nat
  BY <1>3, <1>4
<1>7. Kind(x.area) # "bytes" => x.start \in 0..Space-1 /\ x.last \in 0..Space-1
  BY <1>2, <1>3, LastFacts DEF RangeOk, l
<1>8. Kind(x.area) = "bytes" => x.last - x.start + 1 >= 0
  BY <1>1, <1>2, <1>3 DEF RangeOk
<1>9. ASSUME NEW k \in DOMAIN x.tags
      PROVE  /\ Sane(x.tags[k]) /\ x.tags[k].area = x.area /\ x.start <= x.tags[k].addr
             /\ x.area \in Coils => x.tags[k].addr <= x.last
  <2>1. CASE k \in DOMAIN r.tags
    <3>1. x.tags[k] = r.tags[k] /\ r.tags[k] \in T
      BY <1>3, <1>4, <1>6, <2>1
    <3>2. Sane(r.tags[k]) /\ r.tags[k].area = r.area /\ r.start <= r.tags[k].addr
          /\ (r.area \in Coils => r.tags[k].addr <= r.last) /\ r.tags[k].addr \in Nat
      BY <2>1, SaneFacts DEF RangeOk
    <3> QED
      BY <1>1, <1>2, <1>3, <3>1, <3>2
  <2>2. CASE k = Len(r.tags) + 1
    <3>1. x.tags[k] = t
      BY <1>3, <1>4, <2>2
    <3>2. t.area \in Coils => t.addr <= l
      BY <1>1, SaneFacts, LastFacts DEF l
    <3> QED
      BY <1>1, <1>2, <1>3, <3>1, <3>2, SaneFacts
  <2> QED
    BY <1>6, <2>1, <2>2
<1>10. \/ Quantity(x) <= BatchLimits[Kind(x.area)].size
       \/ \E i \in DOMAIN x.tags : Quantity(x) = x.tags[i].count
  <2>1. CASE m = r.last
    <3>1. Quantity(x) = Quantity(r)
      BY <1>3, <2>1 DEF Quantity
    <3>2. \A i \in DOMAIN r.tags : i \in DOMAIN x.tags /\ x.tags[i] = r.tags[i]
      BY <1>3, <1>4, <1>6
    <3> QED
      BY <1>3, <3>1, <3>2 DEF RangeOk
  <2>2. CASE m = l
    <3>1. Wrap(t.area, m - r.start + 1) <= BatchLimits[Kind(t.area)].size
      BY <1>3, <2>2 DEF Merges, x, l
    <3> QED
      BY <1>3, <3>1 DEF Quantity
  <2> QED
    BY <1>2, <2>1, <2>2
<1>11. ASSUME NEW i \in DOMAIN x.tags, NEW j \in DOMAIN x.tags, i < j
       PROVE  Behind(x.tags[i], x.tags[j])
  <2>1. i \in 1..Len(r.tags) /\ x.tags[i] = r.tags[i]
    BY <1>3, <1>4, <1>6, <1>11
  <2>2. CASE j \in 1..Len(r.tags)
    <3>1. x.tags[j] = r.tags[j]
      BY <1>3, <1>4, <2>2
    <3> QED
      BY <1>6, <1>11, <2>1, <2>2, <3>1 DEF RangeOk
  <2>3. CASE j = Len(r.tags) + 1
    <3>1. x.tags[j] = t
      BY <1>3, <1>4, <2>3
    <3> QED
      BY <2>1, <3>1
  <2> QED
    BY <1>6, <2>2, <2>3
<1>12. RangeOk(x)
  BY <1>7, <1>8, <1>9, <1>10, <1>11 DEF RangeOk
<1> QED
  BY <1>3, <1>4, <1>5, <1>12 DEF x

\* Among the tags of T the code may read t wrongly.
Wrong(T, t) ==
  IF t.area \in Registers THEN \E u \in T : Disturbs(u, t) ELSE t.area \notin Coils /\ t.bit

\* The points that tell no lie about a tag but one that may be read wrongly.
PointsOf(T, t) ==
  {Good(t, Place(t).area, Place(t).cells), Bad(t), Point(t, "nil", "nothing")}
  \union {p \in {Good(t, t.area, c) : c \in Seq(Int)} : Wrong(T, t)}

\* The quantity of a request is a natural number.
LEMMA QuantityFacts ==
  ASSUME NEW T, NEW r \in RangeRecords(T), RangeOk(r)
  PROVE  Quantity(r) \in Nat
<1>1. r.start \in Nat /\ r.last \in Int
  BY DEF RangeRecords
<1>2. CASE Kind(r.area) = "bytes"
  BY <1>1, <1>2 DEF RangeOk, Quantity, Wrap
<1>3. CASE Kind(r.area) # "bytes"
  <2>1. Quantity(r) = (r.last - r.start + 1) % Space
    BY <1>3 DEF Quantity, Wrap
  <2>2. r.last - r.start + 1 \in Int
    BY <1>1
  <2> HIDE DEF Quantity
  <2>3. \A x \in 0..Space-1 : x \in Nat
    BY WrapFacts
  <2> QED
    BY <2>1, <2>2, <2>3, WrapFacts
<1> QED
  BY <1>2, <1>3

\* The answer a tag finds: spoiled cells are in a tag that disturbs it.
LEMMA AnswerFacts ==
  ASSUME NEW T, NEW r \in RangeRecords(T), RangeOk(r), NEW n \in 1..Len(r.tags),
         NEW k \in 1..Quantity(r)
  PROVE  /\ AnswerFor(r, n)[k] \in Int
         /\ \/ AnswerFor(r, n)[k] = r.start + k - 1
            \/ /\ r.area \in Registers
               /\ r.start + k - 1 >= r.tags[n].addr => \E u \in T : Disturbs(u, r.tags[n])
<1> DEFINE cell == r.start + k - 1
           t == r.tags[n]
           spoilt == \E m \in 1..(n - 1) : Reorders(r, r.tags[m], r.start + k - 1)
<1>1. r.start \in Nat /\ Quantity(r) \in Nat /\ cell \in Int
      /\ DOMAIN r.tags = 1..Len(r.tags) /\ \A m \in 1..Len(r.tags) : r.tags[m] \in T
  BY QuantityFacts DEF RangeRecords
<1>2. AnswerFor(r, n)[k] = IF spoilt THEN Spoiled ELSE cell
  BY DEF AnswerFor
<1>3. CASE spoilt
  <2>1. PICK m \in 1..(n - 1) : Reorders(r, r.tags[m], cell)
    BY <1>3
  <2> DEFINE u == r.tags[m]
  <2>2. m \in 1..Len(r.tags) /\ m < n /\ n \in DOMAIN r.tags /\ m \in DOMAIN r.tags
    BY <1>1
  <2>3. Behind(u, t) /\ u \in T /\ Sane(u) /\ u.area = r.area /\ t.area = r.area /\ Sane(t)
    BY <1>1, <2>2 DEF RangeOk
  <2> HIDE DEF u, t, cell
  <2>4. r.area \in Registers /\ u.reorders /\ cell \in u.addr..(u.addr + u.count - 1)
    BY <2>1 DEF Reorders, u
  <2>5. u.addr \in Nat /\ u.count \in Nat /\ t.addr \in Nat
    BY <2>3, SaneFacts
  <2>6. cell >= t.addr => Disturbs(u, t)
    BY <1>1, <2>3, <2>4, <2>5 DEF Behind, Disturbs
  <2>7. AnswerFor(r, n)[k] \in Int
    BY <1>2, <1>3 DEF Spoiled
  <2> QED
    BY <2>3, <2>4, <2>6, <2>7 DEF t, cell
<1>4. CASE ~spoilt
  BY <1>1, <1>2, <1>4
<1> QED
  BY <1>3, <1>4

\* Where the k-th cell of a slice lies in the sequence it is cut from.
LEMMA SliceCell ==
  ASSUME NEW q \in Nat, NEW b \in Nat, NEW o \in Nat, NEW n \in Nat, o + n <= q, NEW k \in 1..n
  PROVE  o + k \in 1..q /\ b + (o + k) - 1 = (b + o) + k - 1 /\ b + (o + k) - 1 >= b + o
  OBVIOUS

\* A slice of a sequence of integers, cell by cell.
LEMMA SliceFacts ==
  ASSUME NEW s \in Seq(Int), NEW o \in Nat, NEW n \in Nat, o + n <= Len(s)
  PROVE  /\ SubSeq(s, o + 1, o + n) \in Seq(Int)
         /\ Len(SubSeq(s, o + 1, o + n)) = n
         /\ \A k \in 1..n : SubSeq(s, o + 1, o + n)[k] = s[o + k]
<1> DEFINE cut == SubSeq(s, o + 1, o + n)
<1>1. cut = [k \in 1..n |-> s[o + k]]
  OBVIOUS
<1>2. \A k \in 1..n : o + k \in 1..Len(s)
  OBVIOUS
<1>3. \A k \in 1..n : s[o + k] \in Int
  BY <1>2
<1> HIDE DEF cut
<1>4. cut \in Seq(Int) /\ Len(cut) = n
  BY <1>1, <1>3
<1> QED
  BY <1>1, <1>4 DEF cut

\* The registers cut out of the answer are those of the tag, unless it is disturbed.
LEMMA RegisterPointTrue ==
  ASSUME NEW T, NEW r \in RangeRecords(T), RangeOk(r), NEW i \in 1..Len(r.tags),
         NEW t, t = r.tags[i], Sane(t), t.area = r.area, r.area \notin Coils, r.start <= t.addr
  PROVE  RegisterPoint(r, i) \in PointsOf(T, t)
<1> DEFINE q == Quantity(r)
           o == t.addr - r.start
           s == AnswerFor(r, i)
           n == t.count
           b == r.start
           cut == SubSeq(s, o + 1, o + n)
           c == [k \in 1..n |-> (b + o) + k - 1]
<1>1. q \in Nat /\ b \in Nat /\ t.addr \in Nat /\ n \in Nat /\ o \in Nat
      /\ t.addr = b + o
  BY QuantityFacts, SaneFacts DEF RangeRecords
<1>2. CASE ~Fits(r, t)
  BY <1>2 DEF RegisterPoint, PointsOf
<1>3. CASE Fits(r, t)
  <2>1. RegisterPoint(r, i) = Good(t, r.area, cut)
    BY <1>3 DEF RegisterPoint
  <2>2. Place(t).area = t.area /\ Place(t).cells = Cells(t.addr, t.count)
    BY DEF Place
  <2>3. Cells(t.addr, t.count) = c
    BY <1>1 DEF Cells
  <2>4. o + n <= q /\ n > 0
    BY <1>1, <1>3 DEF Fits
  <2>5. s = [k \in 1..q |-> s[k]] /\ \A k \in 1..q : s[k] \in Int
    <3>1. s = [k \in 1..q |-> s[k]]
      BY DEF AnswerFor
    <3> QED
      BY <3>1, AnswerFacts
  <2>6. ASSUME NEW k \in 1..n PROVE s[o + k] = (b + o) + k - 1 \/ Wrong(T, t)
    <3> HIDE DEF o, q, s, n, b
    <3>1. o + k \in 1..q /\ b + (o + k) - 1 = (b + o) + k - 1 /\ b + (o + k) - 1 >= t.addr
      <4>1. q \in Nat /\ b \in Nat /\ o \in Nat /\ n \in Nat /\ o + n <= q
        BY <1>1, <2>4
      <4>2. o + k \in 1..q /\ b + (o + k) - 1 = (b + o) + k - 1 /\ b + (o + k) - 1 >= b + o
        BY <4>1, SliceCell
      <4> QED
        BY <1>1, <4>2
    <3>2. \/ AnswerFor(r, i)[o + k] = r.start + (o + k) - 1
          \/ /\ r.area \in Registers
             /\ r.start + (o + k) - 1 >= r.tags[i].addr => \E u \in T : Disturbs(u, r.tags[i])
      BY <3>1, AnswerFacts DEF q
    <3> QED
      BY <3>1, <3>2 DEF s, b, Wrong
  <2> HIDE DEF q, o, s, n, b
  <2>7. s \in Seq(Int) /\ Len(s) = q
    BY <1>1, <2>5
  <2>8. /\ cut \in Seq(Int) /\ Len(cut) = n
        /\ \A k \in 1..n : cut[k] = s[o + k]
    <3>1. s \in Seq(Int) /\ o \in Nat /\ n \in Nat /\ o + n <= Len(s)
      BY <1>1, <2>4, <2>7
    <3> QED
      BY <3>1, SliceFacts
  <2>9. CASE Wrong(T, t)
    <3> HIDE DEF cut
    <3>1. Good(t, t.area, cut) \in {Good(t, t.area, d) : d \in Seq(Int)}
      BY <2>8
    <3> QED
      BY <2>1, <2>9, <3>1 DEF PointsOf
  <2>10. CASE ~Wrong(T, t)
    <3>0. c = [k \in 1..n |-> (b + o) + k - 1] /\ \A k \in 1..n : (b + o) + k - 1 \in Int
      BY <1>1
    <3>1. c \in Seq(Int) /\ Len(c) = n /\ \A k \in 1..n : c[k] = (b + o) + k - 1
      <4> HIDE DEF c
      <4> QED
        BY <1>1, <3>0
    <3>2. cut \in Seq(Int) /\ Len(cut) = Len(c) /\ \A k \in 1..Len(cut) : cut[k] = c[k]
      BY <2>6, <2>8, <2>10, <3>1
    <3> HIDE DEF cut, c
    <3>3. cut = c
      BY <3>1, <3>2, SeqEqual
    <3> QED
      BY <2>1, <2>2, <2>3, <3>3 DEF PointsOf
  <2> QED
    BY <2>9, <2>10
<1> QED
  BY <1>2, <1>3

\* The bit taken from the answer is that of the coil.
LEMMA CoilPointTrue ==
  ASSUME NEW T, NEW r \in RangeRecords(T), RangeOk(r), NEW t, Sane(t),
         t.area = r.area, r.area \in Coils, r.start <= t.addr, t.addr <= r.last
  PROVE  CoilPoint(r, t) \in PointsOf(T, t)
<1> DEFINE q == Quantity(r)
           o == t.addr - r.start
           d == r.last - r.start + 1
           bytes == (q + BitsPerByte - 1) \div BitsPerByte
<1>1. BitsPerByte \in Nat \ {0} /\ o \in Nat /\ d \in Int /\ o < d
  BY SaneFacts, SpaceAssumption DEF RangeRecords
<1>2. Kind(t.area) = "coils" /\ t.addr \in 0..Space-1
  BY SaneFacts
<1>3. r.start \in 0..Space-1 /\ r.last \in 0..Space-1
  BY <1>2 DEF RangeOk
<1>4. q = d % Space /\ d \in 1..Space
  <2>1. q = d % Space
    BY <1>2 DEF Quantity, Wrap
  <2>2. d \in Int /\ 1 <= d
    BY <1>1
  <2>3. d <= Space
    <3>1. Space \in Nat /\ 0 <= r.start /\ r.last <= Space - 1 /\ r.start \in Int /\ r.last \in Int
      BY <1>3, SpaceAssumption
    <3> QED
      BY <3>1
  <2> QED
    BY <2>1, <2>2, <2>3, SpaceAssumption
<1>5. CoilPoint(r, t) = IF o \div BitsPerByte >= bytes THEN Bad(t)
                        ELSE Good(t, r.area, <<IF o < q THEN t.addr ELSE Padding>>)
  BY DEF CoilPoint
<1> HIDE DEF q, o, d
<1>6. CASE d = Space
  <2>1. q = 0
    BY <1>4, <1>6, WrapFacts
  <2>2. bytes = 0
    BY <1>1, <2>1
  <2>3. o \div BitsPerByte >= 0
    BY <1>1
  <2> HIDE DEF bytes
  <2> QED
    BY <1>5, <2>2, <2>3 DEF PointsOf
<1>7. CASE d # Space
  <2>1. d \in 0..Space-1
    BY <1>4, <1>7, SpaceAssumption
  <2>2. o < q
    BY <1>1, <1>4, <2>1, WrapFacts
  <2>3. Place(t).area = t.area /\ Place(t).cells = Cells(t.addr, 1)
    BY DEF Place
  <2>4. Cells(t.addr, 1) = <<t.addr>>
    <3>1. t.addr \in Nat
      BY SaneFacts
    <3>2. t.addr + 1 - 1 = t.addr
      BY <3>1
    <3> QED
      BY <3>2 DEF Cells
  <2> HIDE DEF bytes
  <2> QED
    BY <1>5, <2>2, <2>3, <2>4 DEF PointsOf
<1> QED
  BY <1>6, <1>7

\* The points of a range are true of its tags, one for one.
LEMMA RangePointsFacts ==
  ASSUME NEW T, NEW r \in RangeRecords(T), RangeOk(r)
  PROVE  /\ RangePoints(r) \in Seq(UNION {PointsOf(T, t) : t \in T})
         /\ Len(RangePoints(r)) = Len(r.tags)
         /\ \A k \in 1..Len(r.tags) : RangePoints(r)[k] \in PointsOf(T, r.tags[k])
<1>1. r.tags \in Seq(T) /\ DOMAIN r.tags = 1..Len(r.tags) /\ Len(r.tags) \in Nat
      /\ \A k \in 1..Len(r.tags) : r.tags[k] \in T
  BY DEF RangeRecords
<1>2. RangePoints(r) = [k \in 1..Len(r.tags) |-> IF r.area \in Coils THEN CoilPoint(r, r.tags[k])
                                                 ELSE RegisterPoint(r, k)]
  BY <1>1 DEF RangePoints
<1>3. ASSUME NEW k \in 1..Len(r.tags) PROVE RangePoints(r)[k] \in PointsOf(T, r.tags[k])
  <2> DEFINE t == r.tags[k]
  <2>1. /\ Sane(t) /\ t.area = r.area /\ r.start <= t.addr
        /\ r.area \in Coils => t.addr <= r.last
    BY <1>1 DEF RangeOk
  <2>2. RangePoints(r)[k] = IF r.area \in Coils THEN CoilPoint(r, t) ELSE RegisterPoint(r, k)
    BY <1>2
  <2> HIDE DEF t
  <2>3. CASE r.area \in Coils
    BY <2>1, <2>2, <2>3, CoilPointTrue DEF t
  <2>4. CASE r.area \notin Coils
    BY <2>1, <2>2, <2>4, RegisterPointTrue DEF t
  <2> QED
    BY <2>3, <2>4
<1>4. \A k \in 1..Len(r.tags) : RangePoints(r)[k] \in UNION {PointsOf(T, t) : t \in T}
  BY <1>1, <1>3
<1>5. RangePoints(r) \in Seq(UNION {PointsOf(T, t) : t \in T}) /\ Len(RangePoints(r)) = Len(r.tags)
  BY <1>1, <1>2, <1>4
<1> QED
  BY <1>3, <1>5

\* Bad points say nothing false about their tags, one for one.
LEMMA BadPointsFacts ==
  ASSUME NEW T, NEW s \in Seq(T)
  PROVE  /\ BadPoints(s) \in Seq(UNION {PointsOf(T, t) : t \in T})
         /\ Len(BadPoints(s)) = Len(s)
         /\ \A k \in 1..Len(s) : BadPoints(s)[k] \in PointsOf(T, s[k])
<1>1. DOMAIN s = 1..Len(s) /\ Len(s) \in Nat /\ \A k \in 1..Len(s) : s[k] \in T
  OBVIOUS
<1>2. BadPoints(s) = [k \in 1..Len(s) |-> Bad(s[k])]
  BY <1>1 DEF BadPoints
<1>3. \A k \in 1..Len(s) : BadPoints(s)[k] \in PointsOf(T, s[k])
  BY <1>2 DEF PointsOf
<1>4. \A k \in 1..Len(s) : BadPoints(s)[k] \in UNION {PointsOf(T, t) : t \in T}
  BY <1>1, <1>3
<1> QED
  BY <1>1, <1>2, <1>3, <1>4

\* A point that is true of a tag carries its name.
LEMMA PointTag ==
  ASSUME NEW T, NEW t, NEW p \in PointsOf(T, t)
  PROVE  /\ p.tag = t.id /\ p.quality \in Qualities
         /\ p.quality = "good" => p.value = Place(t) \/ Wrong(T, t)
<1>1. Place(t) = [area |-> Place(t).area, cells |-> Place(t).cells]
  BY DEF Place
<1> QED
  BY <1>1 DEF PointsOf, Good, Bad, Point, Qualities

\* What Pick takes from a sequence at each of its positions once.
LEMMA PickAll ==
  ASSUME NEW T, NEW s \in Seq(T), NEW at \in Bijection(1..Len(s), 1..Len(s))
  PROVE  /\ Pick(s, at) \in Seq(T) /\ Len(Pick(s, at)) = Len(s)
         /\ ToSet(Pick(s, at)) = ToSet(s)
         /\ \A k \in 1..Len(s) : at[k] \in 1..Len(s) /\ Pick(s, at)[k] = s[at[k]]
<1> DEFINE n == Len(s)
<1>1. n \in Nat /\ DOMAIN s = 1..n /\ \A k \in 1..n : s[k] \in T
  OBVIOUS
<1>2. at \in [1..n -> 1..n] /\ \A i \in 1..n : \E k \in 1..n : at[k] = i
  BY DEF Bijection, Injection, Surjection
<1> HIDE DEF n
<1>3. Pick(s, at) = [k \in 1..n |-> s[at[k]]]
  BY <1>2 DEF Pick
<1>4. Pick(s, at) \in Seq(T) /\ Len(Pick(s, at)) = n
  <2>1. \A k \in 1..n : s[at[k]] \in T
    BY <1>1, <1>2
  <2> QED
    BY <1>1, <1>3, <2>1
<1>5. \A k \in 1..n : at[k] \in 1..n /\ Pick(s, at)[k] = s[at[k]]
  BY <1>2, <1>3
<1>6. DOMAIN Pick(s, at) = 1..n
  BY <1>3
<1>7. \A x \in ToSet(Pick(s, at)) : x \in ToSet(s)
  BY <1>1, <1>5, <1>6 DEF ToSet
<1>8. \A x \in ToSet(s) : x \in ToSet(Pick(s, at))
  <2> SUFFICES ASSUME NEW i \in 1..n PROVE s[i] \in ToSet(Pick(s, at))
    BY <1>1 DEF ToSet
  <2>1. PICK k \in 1..n : at[k] = i
    BY <1>2
  <2> QED
    BY <1>5, <1>6, <2>1 DEF ToSet
<1> QED
  BY <1>4, <1>5, <1>7, <1>8 DEF n

\* sortTagsByAddress: the same tags, by ascending address.
LEMMA SortFacts ==
  ASSUME NEW T, NEW ts \in Seq(T), \A t \in T : t.addr \in Nat, Distinct(ts)
  PROVE  /\ SortByAddress(ts) \in Seq(T) /\ Len(SortByAddress(ts)) = Len(ts)
         /\ ToSet(SortByAddress(ts)) = ToSet(ts)
         /\ \A k, l \in 1..Len(ts) :
              k < l => Behind(SortByAddress(ts)[k], SortByAddress(ts)[l])
<1> DEFINE D == DOMAIN ts
           Before(j, i) == \/ ts[j].addr < ts[i].addr
                           \/ ts[j].addr = ts[i].addr /\ j < i
           before == [i \in D |-> {j \in D : Before(j, i)}]
           at == Arrange(D, before)
<1>1. Len(ts) \in Nat /\ D = 1..Len(ts) /\ \A i \in D : ts[i] \in T
  OBVIOUS
<1>2. SortByAddress(ts) = Pick(ts, at)
  BY DEF SortByAddress
<1>3. \A i \in D : ts[i].addr \in Nat /\ i \in Nat
  BY <1>1
<1>4. Orders(before, D)
  <2> HIDE DEF D
  <2>1. before \in [D -> SUBSET D]
    OBVIOUS
  <2>2. \A i \in D : i \notin before[i]
    BY <1>3
  <2>3. \A i, j \in D : i \in before[j] => \A k \in before[i] : k \in before[j]
    BY <1>3
  <2>4. \A i, j \in D : i = j \/ i \in before[j] \/ j \in before[i]
    BY <1>3
  <2> HIDE DEF before
  <2>5. \A i, j \in D : i \in before[j] => before[i] \subseteq before[j]
    BY <2>3
  <2> QED
    BY <2>1, <2>2, <2>4, <2>5 DEF Orders
<1>5. IsFiniteSet(D) /\ Cardinality(D) = Len(ts)
  <2>1. IsFiniteSet(1..Len(ts)) /\ Cardinality(1..Len(ts)) = Len(ts)
    BY <1>1, FS_Interval
  <2> QED
    BY <1>1, <2>1
<1>6. \A i, j \in D : i \in before[j] => ts[i].addr <= ts[j].addr
  BY <1>3
<1> HIDE DEF D, before
<1>7. /\ at \in Bijection(1..Len(ts), D)
      /\ \A k, l \in 1..Len(ts) : k < l => at[k] \in before[at[l]]
  <2>1. /\ at \in Bijection(1..Cardinality(D), D)
        /\ \A k, l \in 1..Cardinality(D) : k < l => at[k] \in before[at[l]]
    BY <1>4, <1>5, ArrangeFacts
  <2> QED
    BY <1>5, <2>1
<1> HIDE DEF at
<1>8. at \in Bijection(1..Len(ts), 1..Len(ts))
  BY <1>1, <1>7
<1>9. /\ Pick(ts, at) \in Seq(T) /\ Len(Pick(ts, at)) = Len(ts)
      /\ ToSet(Pick(ts, at)) = ToSet(ts)
      /\ \A k \in 1..Len(ts) : at[k] \in 1..Len(ts) /\ Pick(ts, at)[k] = ts[at[k]]
  BY <1>8, PickAll
<1>10. ASSUME NEW k \in 1..Len(ts), NEW l \in 1..Len(ts), k < l
       PROVE  Behind(Pick(ts, at)[k], Pick(ts, at)[l])
  <2>1. at[k] \in before[at[l]] /\ at[k] \in D /\ at[l] \in D
    BY <1>1, <1>7, <1>9, <1>10
  <2>2. ts[at[k]].addr <= ts[at[l]].addr
    BY <1>6, <2>1
  <2>3. at[k] # at[l]
    BY <1>8, <1>10 DEF Bijection, Injection, IsInjective
  <2>4. ts[at[k]].id # ts[at[l]].id
    BY <1>1, <2>1, <2>3 DEF Distinct
  <2> QED
    BY <1>9, <2>2, <2>4 DEF Behind
<1> QED
  BY <1>2, <1>9, <1>10

\* The tags of the ranges, in their order.
TagsIn(rs) == FlattenSeq([k \in DOMAIN rs |-> rs[k].tags])

\* The well-formed ranges.
GoodRanges(T) == {r \in RangeRecords(T) : RangeOk(r)}

\* The tags in ranges are a sequence of tags.
LEMMA TagsInFacts ==
  ASSUME NEW T, NEW rs \in Seq(RangeRecords(T))
  PROVE  /\ TagsIn(rs) \in Seq(T)
         /\ [k \in DOMAIN rs |-> rs[k].tags] \in Seq(Seq(T))
         /\ Len([k \in DOMAIN rs |-> rs[k].tags]) = Len(rs)
<1>1. DOMAIN rs = 1..Len(rs) /\ Len(rs) \in Nat /\ \A k \in 1..Len(rs) : rs[k].tags \in Seq(T)
  <2>1. DOMAIN rs = 1..Len(rs) /\ Len(rs) \in Nat /\ \A k \in 1..Len(rs) : rs[k] \in RangeRecords(T)
    OBVIOUS
  <2>2. \A r \in RangeRecords(T) : r.tags \in Seq(T)
    BY DEF RangeRecords
  <2> QED
    BY <2>1, <2>2
<1> DEFINE ss == [k \in DOMAIN rs |-> rs[k].tags]
<1>2. ss \in Seq(Seq(T)) /\ Len(ss) = Len(rs)
  BY <1>1
<1> HIDE DEF ss
<1>3. FlattenSeq(ss) \in Seq(T)
  BY <1>2, FlattenMembers
<1> QED
  BY <1>2, <1>3 DEF ss, TagsIn

\* A range with one tag more is a range, whether the tag belongs there or not.
LEMMA ExtendType ==
  ASSUME NEW T, NEW t \in T, Sane(t), NEW r \in RangeRecords(T)
  PROVE  Extend(r, t) \in RangeRecords(T)
<1> DEFINE l == LastOf(t)
           m == Max({l, r.last})
<1>1. l \in Int /\ r.last \in Int
  BY LastFacts DEF RangeRecords
<1>2. m \in Int
  <2> HIDE DEF l
  <2>1. \E y \in {l, r.last} : \A z \in {l, r.last} : y >= z
    BY <1>1
  <2>2. m \in {l, r.last}
    BY <2>1 DEF Max
  <2> QED
    BY <1>1, <2>2
<1>3. Extend(r, t) = [r EXCEPT !.last = m, !.tags = Append(r.tags, t)]
  BY DEF Extend, RangeRecords
<1>4. Append(r.tags, t) \in Seq(T)
  BY DEF RangeRecords
<1> HIDE DEF m
<1> QED
  BY <1>2, <1>3, <1>4 DEF RangeRecords

\* AddTag yields ranges.
LEMMA AddTagType ==
  ASSUME NEW T, NEW t \in T, Sane(t), NEW rs \in Seq(RangeRecords(T))
  PROVE  AddTag(rs, t) \in Seq(RangeRecords(T))
<1> DEFINE R == RangeRecords(T)
           n == Len(rs)
<1>1. CASE rs # <<>> /\ Merges(Last(rs), t)
  <2>1. n \in 1..n /\ rs[n] \in R
    BY <1>1
  <2>2. Extend(rs[n], t) \in R
    BY <2>1, ExtendType
  <2>3. AddTag(rs, t) = [rs EXCEPT ![n] = Extend(rs[n], t)]
    BY <1>1 DEF AddTag
  <2> HIDE DEF R
  <2> QED
    BY <2>1, <2>2, <2>3 DEF R
<1>2. CASE ~(rs # <<>> /\ Merges(Last(rs), t))
  <2>1. AddTag(rs, t) = Append(rs, NewRange(t))
    BY <1>2 DEF AddTag
  <2>2. NewRange(t) \in R
    BY NewRangeOk
  <2> HIDE DEF R
  <2> QED
    BY <2>1, <2>2 DEF R
<1> QED
  BY <1>1, <1>2

\* A tag at or behind the start of the last range joins the ranges.
LEMMA AddTagFacts ==
  ASSUME NEW T, NEW t \in T, Sane(t), NEW rs \in Seq(GoodRanges(T)),
         \A k \in 1..Len(rs) : rs[k].area = t.area,
         rs # <<>> => /\ Last(rs).start <= t.addr
                      /\ \A m \in 1..Len(Last(rs).tags) : Behind(Last(rs).tags[m], t)
  PROVE  /\ AddTag(rs, t) \in Seq(GoodRanges(T)) /\ AddTag(rs, t) # <<>>
         /\ \A k \in 1..Len(AddTag(rs, t)) : AddTag(rs, t)[k].area = t.area
         /\ Last(AddTag(rs, t)).start <= t.addr
         /\ Last(AddTag(rs, t)).tags = <<t>>
            \/ (rs # <<>> /\ Last(AddTag(rs, t)).tags = Last(rs).tags \o <<t>>)
         /\ TagsIn(AddTag(rs, t)) = TagsIn(rs) \o <<t>>
<1> DEFINE G == GoodRanges(T)
           n == Len(rs)
           a == AddTag(rs, t)
           Tags(s) == [k \in DOMAIN s |-> s[k].tags]
<1>1. n \in Nat /\ DOMAIN rs = 1..n /\ \A k \in 1..n : rs[k] \in G
  OBVIOUS
<1>2. rs \in Seq(RangeRecords(T))
  BY DEF GoodRanges
<1>3. Tags(rs) \in Seq(Seq(T)) /\ Len(Tags(rs)) = n
  BY <1>2, TagsInFacts
<1>4. \A k \in 1..n : Tags(rs)[k] = rs[k].tags
  BY <1>1
<1>5. <<t>> \in Seq(T)
  OBVIOUS
<1>6. a \in Seq(RangeRecords(T))
  BY <1>2, AddTagType
<1>7. Tags(a) \in Seq(Seq(T)) /\ Len(Tags(a)) = Len(a)
  BY <1>6, TagsInFacts
<1>8. TagsIn(a) = FlattenSeq(Tags(a)) /\ TagsIn(rs) = FlattenSeq(Tags(rs))
  BY DEF TagsIn
<1>9. CASE rs # <<>> /\ Merges(Last(rs), t)
  <2> DEFINE r == rs[n]
             e == Extend(r, t)
  <2>1. n > 0 /\ n \in 1..n /\ r \in G /\ Last(rs) = r /\ r.start <= t.addr /\ r.area = t.area
        /\ Merges(r, t) /\ \A m \in 1..Len(r.tags) : Behind(r.tags[m], t)
    BY <1>9 DEF Last
  <2>2. e \in RangeRecords(T) /\ RangeOk(e) /\ e.tags = r.tags \o <<t>> /\ e.start = r.start
        /\ e.area = r.area
    BY <2>1, ExtendOk DEF GoodRanges
  <2>3. a = [rs EXCEPT ![n] = e]
    BY <1>9 DEF AddTag
  <2> HIDE DEF r, e, a, Tags, n
  <2>4. a[n] = e /\ \A k \in 1..n : k # n => a[k] = rs[k]
    BY <1>1, <2>1, <2>3
  <2>5. DOMAIN a = 1..n
    BY <1>1, <2>3
  <2>6. Len(a) = n
    BY <1>1, <1>6, <2>5
  <2>7. e \in G
    BY <2>2 DEF GoodRanges
  <2>8. \A k \in 1..n : a[k] \in G /\ a[k].area = t.area
    BY <1>1, <2>1, <2>2, <2>4, <2>7 DEF n
  <2>9. a \in Seq(G)
    BY <1>1, <1>6, <2>5, <2>6, <2>8
  <2>10. Last(a).start <= t.addr
    BY <2>1, <2>2, <2>4, <2>6 DEF Last, r
  <2>11. Lengthens(Tags(a), Tags(rs), <<t>>)
    <3>1. \A k \in 1..n : Tags(a)[k] = a[k].tags
      BY <2>5 DEF Tags
    <3>2. \A k \in 1..(n - 1) : k \in 1..n /\ k # n
      BY <1>1
    <3>3. Tags(a)[n] = Tags(rs)[n] \o <<t>>
      BY <1>4, <2>1, <2>2, <2>4, <3>1 DEF r
    <3>4. \A k \in 1..(n - 1) : Tags(a)[k] = Tags(rs)[k]
      BY <1>4, <2>4, <3>1, <3>2
    <3> QED
      BY <1>3, <1>7, <2>1, <2>6, <3>3, <3>4 DEF Lengthens
  <2>12. TagsIn(a) = TagsIn(rs) \o <<t>>
    <3> DEFINE x == Tags(rs)
               y == Tags(a)
               z == <<t>>
    <3>1. x \in Seq(Seq(T)) /\ y \in Seq(Seq(T)) /\ z \in Seq(T) /\ Lengthens(y, x, z)
      BY <1>3, <1>5, <1>7, <2>11
    <3> HIDE DEF x, y, z
    <3>2. FlattenSeq(y) = FlattenSeq(x) \o z
      BY <3>1, FlattenExtend
    <3> QED
      BY <1>8, <3>2 DEF x, y, z
  <2>13. a # <<>>
    BY <2>1, <2>6
  <2>14. Last(a) = e /\ Last(rs) = r
    BY <2>1, <2>4, <2>6 DEF Last
  <2>15. rs # <<>> /\ Last(a).tags = Last(rs).tags \o <<t>>
    BY <1>9, <2>2, <2>14
  <2> QED
    BY <2>6, <2>8, <2>9, <2>10, <2>12, <2>13, <2>15 DEF a
<1>10. CASE ~(rs # <<>> /\ Merges(Last(rs), t))
  <2> DEFINE r == NewRange(t)
  <2>1. a = Append(rs, r)
    BY <1>10 DEF AddTag
  <2>2. r \in G /\ r.area = t.area /\ r.start = t.addr /\ r.tags = <<t>>
    <3>1. r \in G
      BY NewRangeOk DEF GoodRanges
    <3> QED
      BY <3>1 DEF NewRange
  <2> HIDE DEF r, a, Tags, G
  <2>3. a \in Seq(G) /\ Len(a) = n + 1 /\ a[n + 1] = r /\ \A k \in 1..n : a[k] = rs[k]
    BY <2>1, <2>2 DEF G
  <2>4. \A k \in 1..(n + 1) : k \in 1..n \/ k = n + 1
    BY <1>1
  <2>5. \A k \in 1..(n + 1) : a[k].area = t.area
    BY <2>2, <2>3, <2>4
  <2>6. Last(a).start <= t.addr /\ Last(a).tags = <<t>>
    <3>1. t.addr \in Nat
      BY SaneFacts
    <3> QED
      BY <2>2, <2>3, <3>1 DEF Last
  <2>7. Tags(a) = Tags(rs) \o << <<t>> >>
    <3> DEFINE u == Tags(rs) \o << <<t>> >>
    <3>1. << <<t>> >> \in Seq(Seq(T)) /\ Len(<< <<t>> >>) = 1 /\ << <<t>> >>[1] = <<t>>
      OBVIOUS
    <3> DEFINE w == << <<t>> >>
               x == Tags(rs)
    <3>0. x \in Seq(Seq(T)) /\ Len(x) = n /\ w \in Seq(Seq(T)) /\ Len(w) = 1 /\ w[1] = <<t>>
      BY <1>3, <3>1
    <3>2. u \in Seq(Seq(T)) /\ Len(u) = n + 1 /\ u[n + 1] = <<t>>
          /\ \A k \in 1..n : u[k] = Tags(rs)[k]
      <4> DEFINE S == Seq(T)
      <4>1. x \in Seq(S) /\ w \in Seq(S) /\ u = x \o w
        BY <3>0
      <4> HIDE DEF x, w, u, S
      <4>2. /\ u \in Seq(S) /\ Len(u) = Len(x) + Len(w)
            /\ \A k \in 1 .. Len(x) + Len(w) : u[k] = IF k <= Len(x) THEN x[k] ELSE w[k - Len(x)]
        BY <4>1, ConcatProperties
      <4>3. \A k \in 1..n : k \in 1..(n + 1) /\ k <= n
        BY <1>1
      <4>4. n + 1 \in 1..(n + 1) /\ ~(n + 1 <= n) /\ (n + 1) - n = 1
        BY <1>1
      <4> QED
        BY <3>0, <4>2, <4>3, <4>4 DEF S, x
    <3>3. DOMAIN a = 1..(n + 1)
      BY <2>3
    <3>4. \A k \in 1..(n + 1) : Tags(a)[k] = a[k].tags
      BY <3>3 DEF Tags
    <3>5. \A k \in 1..(n + 1) : Tags(a)[k] = u[k]
      BY <1>4, <2>2, <2>3, <2>4, <3>2, <3>4
    <3> HIDE DEF u
    <3>6. Tags(a) = u
      BY <1>7, <2>3, <3>2, <3>5, SeqEqual
    <3> QED
      BY <3>6 DEF u
  <2>8. TagsIn(a) = TagsIn(rs) \o <<t>>
    <3>1. << <<t>> >> \in Seq(Seq(T))
      OBVIOUS
    <3>2. FlattenSeq(<< <<t>> >>) = <<t>>
      BY <1>5, FlattenOne
    <3>3. FlattenSeq(Tags(rs) \o << <<t>> >>) = FlattenSeq(Tags(rs)) \o FlattenSeq(<< <<t>> >>)
      BY <1>3, <3>1, FlattenConcat
    <3> QED
      BY <1>8, <2>7, <3>2, <3>3
  <2> QED
    BY <1>1, <2>3, <2>5, <2>6, <2>8 DEF a, G
<1> QED
  BY <1>9, <1>10

\* g holds the ranges after each of the tags of s.
Joins(g, s) ==
  /\ g[0] = <<>>
  /\ \A k \in 1..Len(s) : g[k] = AddTag(g[k - 1], s[k])

\* The fold of AddTag over the tags, by its last tag.
LEMMA FoldAddTag ==
  ASSUME NEW T, \A t \in T : Sane(t), NEW s \in Seq(T)
  PROVE  \E g : Joins(g, s) /\ FoldLeft(AddTag, <<>>, s) = g[Len(s)]
<1> DEFINE D == DOMAIN s
           V == Seq(RangeRecords(T))
           base == <<>>
           Equation(h) == h = [u \in SUBSET D |->
                                 IF u = {} THEN base ELSE AddTag(h[u \ {Max(u)}], s[Max(u)])]
           iter == CHOOSE h : Equation(h)
           step == [i \in D |-> [x \in V |-> AddTag(x, s[i])]]
           pick == [u \in SUBSET D |-> Max(u)]
           n == Len(s)
<1>1. FoldLeft(AddTag, <<>>, s) = iter[D]
  BY DEF FoldLeft, MapThenFoldSet
<1>2. n \in Nat /\ D = 1..n /\ \A i \in D : s[i] \in T
  OBVIOUS
<1>3. \A x \in V : \A t \in T : AddTag(x, t) \in V
  BY AddTagType
<1>4. base \in V
  OBVIOUS
<1> HIDE DEF n, D, V, base
<1>5. step \in [D -> [V -> V]]
  BY <1>2, <1>3
<1>6. Picks(pick, D)
  BY <1>2, MaxFacts DEF Picks
<1>7. IsFiniteSet(D)
  BY <1>2, FS_Interval
<1>8. PICK f \in [SUBSET D -> V] : Folding(f, D, base, step, pick)
  <2> HIDE DEF step, pick
  <2> QED
    BY <1>4, <1>5, <1>6, <1>7, FoldDefined
<1>9. \A u \in SUBSET D : u # {} => step[pick[u]][f[u \ {pick[u]}]] = AddTag(f[u \ {Max(u)}], s[Max(u)])
  BY <1>6 DEF Picks
<1>10. Equation(f)
  BY <1>8, <1>9 DEF Folding
<1>11. Equation(iter)
  <2> HIDE DEF Equation
  <2> QED
    BY <1>10
<1> HIDE DEF iter
<1>12. \A u \in SUBSET D : iter[u] = IF u = {} THEN base ELSE AddTag(iter[u \ {Max(u)}], s[Max(u)])
  BY <1>11
<1> DEFINE g == [k \in 0..n |-> iter[1..k]]
<1>13. g[0] = <<>> /\ g[n] = iter[D]
  <2>1. 1..0 = {} /\ {} \in SUBSET D
    OBVIOUS
  <2>2. iter[{}] = base
    BY <1>12, <2>1
  <2>3. 0 \in 0..n /\ n \in 0..n
    BY <1>2
  <2>4. g[0] = iter[1..0] /\ g[n] = iter[1..n]
    BY <2>3
  <2> QED
    BY <1>2, <2>1, <2>2, <2>4 DEF base
<1>14. ASSUME NEW k \in 1..n PROVE g[k] = AddTag(g[k - 1], s[k])
  <2> DEFINE u == 1..k
  <2>1. u \in SUBSET (1..n) /\ u # {} /\ k \in u /\ k - 1 \in 0..n /\ k \in 0..n
    <3>1. k \in u /\ k - 1 \in 0..n /\ k \in 0..n
      BY <1>2
    <3>2. \A i \in u : i \in 1..n
      BY <1>2
    <3> QED
      BY <3>1, <3>2
  <2>2. Max(u) = k
    <3> HIDE DEF u
    <3>1. Max(u) \in u /\ \A i \in u : i <= Max(u)
      BY <1>2, <2>1, MaxFacts
    <3> QED
      BY <2>1, <3>1 DEF u
  <2>3. u \ {k} = 1..(k - 1)
    OBVIOUS
  <2>4. iter[u] = AddTag(iter[1..(k - 1)], s[k])
    <3> HIDE DEF u
    <3>1. iter[u] = AddTag(iter[u \ {Max(u)}], s[Max(u)])
      BY <1>2, <1>12, <2>1
    <3> QED
      BY <2>2, <2>3, <3>1
  <2> QED
    BY <2>1, <2>4
<1> HIDE DEF g
<1>15. Joins(g, s)
  BY <1>13, <1>14 DEF Joins, n
<1> QED
  BY <1>1, <1>13, <1>15 DEF n

\* buildContiguousRanges of tags of one area, sorted: good ranges that hold every
\* tag once.
LEMMA RangesFacts ==
  ASSUME NEW T, NEW ts \in Seq(T), NEW a, \A t \in T : Sane(t) /\ t.area = a, Distinct(ts)
  PROVE  /\ Ranges(ts) \in Seq(GoodRanges(T))
         /\ TagsIn(Ranges(ts)) = SortByAddress(ts)
<1> DEFINE s == SortByAddress(ts)
           n == Len(ts)
<1>1. /\ s \in Seq(T) /\ Len(s) = n
      /\ \A k, l \in 1..n : k < l => Behind(s[k], s[l])
  <2>1. \A t \in T : t.addr \in Nat
    BY SaneFacts
  <2> QED
    BY <2>1, SortFacts
<1>2. n \in Nat /\ \A k \in 1..n : s[k] \in T /\ s[k].addr \in Nat
  BY <1>1, SaneFacts
<1>3. Ranges(ts) = FoldLeft(AddTag, <<>>, s)
  BY DEF Ranges
<1> HIDE DEF s, n
<1>4. PICK g : Joins(g, s) /\ FoldLeft(AddTag, <<>>, s) = g[n]
  BY <1>1, FoldAddTag
<1>5. g[0] = <<>> /\ \A k \in 1..n : g[k] = AddTag(g[k - 1], s[k])
  BY <1>1, <1>4 DEF Joins
<1> DEFINE Built(k) == /\ g[k] \in Seq(GoodRanges(T))
                       /\ \A i \in 1..Len(g[k]) : g[k][i].area = a
                       /\ TagsIn(g[k]) = SubSeq(s, 1, k)
                       /\ g[k] # <<>> => k > 0 /\ Last(g[k]).start <= s[k].addr
                       /\ g[k] # <<>> => \A m \in 1..Len(Last(g[k]).tags) :
                                           \E i \in 1..k : Last(g[k]).tags[m] = s[i]
           K == {k \in 0..n : Built(k)}
<1>6. 0 \in K
  <2>1. Len(<<>>) = 0 /\ <<>> \in Seq(GoodRanges(T)) /\ 0 \in 0..n
    BY <1>2
  <2>2. TagsIn(<<>>) = <<>>
    <3>1. [k \in DOMAIN <<>> |-> <<>>[k].tags] = <<>>
      OBVIOUS
    <3> QED
      BY <3>1, FlattenEmpty DEF TagsIn
  <2>3. SubSeq(s, 1, 0) = <<>>
    BY <1>1
  <2>4. g[0] \in Seq(GoodRanges(T)) /\ \A i \in 1..Len(g[0]) : g[0][i].area = a
    BY <1>5, <2>1
  <2>5. TagsIn(g[0]) = SubSeq(s, 1, 0)
    BY <1>5, <2>2, <2>3
  <2>6. Built(0)
    BY <1>5, <2>4, <2>5
  <2> HIDE DEF Built
  <2> QED
    BY <2>1, <2>6
<1>7. ASSUME NEW k \in 0..(n - 1), k \in K
      PROVE  k + 1 \in K
  <2> DEFINE j == k + 1
  <2>1. j \in 1..n /\ j - 1 = k /\ k \in 0..n /\ j \in 0..n /\ j > 0
    BY <1>2
  <2>2. Built(k)
    BY <1>7
  <2> HIDE DEF K, j
  <2>3. g[j] = AddTag(g[k], s[j]) /\ s[j] \in T /\ Sane(s[j]) /\ s[j].area = a
    BY <1>2, <1>5, <2>1
  <2>4. g[k] # <<>> => Last(g[k]).start <= s[j].addr
    <3> SUFFICES ASSUME g[k] # <<>> PROVE Last(g[k]).start <= s[j].addr
      OBVIOUS
    <3>1. k \in 1..n /\ k < j
      BY <1>2, <2>1, <2>2
    <3>2. Last(g[k]).start <= s[k].addr /\ s[k].addr <= s[j].addr
      BY <1>1, <2>1, <2>2, <3>1 DEF Behind
    <3>3. Last(g[k]).start \in Nat
      <4>1. Len(g[k]) \in 1..Len(g[k]) /\ g[k][Len(g[k])] \in GoodRanges(T)
        BY <2>2
      <4> QED
        BY <4>1 DEF GoodRanges, RangeRecords, Last
    <3> QED
      BY <1>2, <2>1, <3>1, <3>2, <3>3
  <2>5. \A i \in 1..Len(g[k]) : g[k][i].area = s[j].area
    BY <2>2, <2>3
  <2> DEFINE rs == g[k]
             t == s[j]
  <2>11. ASSUME rs # <<>>, NEW m \in 1..Len(Last(rs).tags)
         PROVE  Behind(Last(rs).tags[m], t)
    <3>1. PICK i \in 1..k : Last(g[k]).tags[m] = s[i]
      BY <2>2, <2>11
    <3>2. i \in 1..n /\ i < j
      BY <1>2, <2>1, <3>1
    <3> QED
      BY <1>1, <2>1, <3>1, <3>2
  <2>6. /\ rs \in Seq(GoodRanges(T)) /\ t \in T /\ Sane(t)
        /\ \A i \in 1..Len(rs) : rs[i].area = t.area
        /\ rs # <<>> => /\ Last(rs).start <= t.addr
                        /\ \A m \in 1..Len(Last(rs).tags) : Behind(Last(rs).tags[m], t)
    BY <2>2, <2>3, <2>4, <2>5, <2>11
  <2> HIDE DEF rs, t, Built
  <2>7. /\ AddTag(rs, t) \in Seq(GoodRanges(T)) /\ AddTag(rs, t) # <<>>
        /\ \A i \in 1..Len(AddTag(rs, t)) : AddTag(rs, t)[i].area = t.area
        /\ Last(AddTag(rs, t)).start <= t.addr
        /\ Last(AddTag(rs, t)).tags = <<t>>
           \/ (rs # <<>> /\ Last(AddTag(rs, t)).tags = Last(rs).tags \o <<t>>)
        /\ TagsIn(AddTag(rs, t)) = TagsIn(rs) \o <<t>>
    BY <2>6, AddTagFacts
  <2>8. AddTag(rs, t) = g[j] /\ t.area = a /\ TagsIn(rs) = SubSeq(s, 1, k)
    BY <2>2, <2>3 DEF rs, t, Built
  <2>9. SubSeq(s, 1, k) \o <<t>> = SubSeq(s, 1, j)
    <3> DEFINE x == SubSeq(s, 1, k)
               y == SubSeq(s, 1, j)
    <3>1. x \in Seq(T) /\ Len(x) = k /\ \A i \in 1..k : x[i] = s[i]
      BY <1>1, <2>1
    <3>2. y \in Seq(T) /\ Len(y) = j /\ \A i \in 1..j : y[i] = s[i]
      BY <1>1, <2>1
    <3> HIDE DEF x, y
    <3>3. x \o <<t>> \in Seq(T) /\ Len(x \o <<t>>) = k + 1 /\ (x \o <<t>>)[k + 1] = t
          /\ \A i \in 1..k : (x \o <<t>>)[i] = x[i]
      <4>1. <<t>> \in Seq(T) /\ Len(<<t>>) = 1 /\ <<t>>[1] = t
        BY <2>6
      <4> DEFINE w == <<t>>
      <4> HIDE DEF w
      <4>2. w \in Seq(T) /\ Len(w) = 1 /\ w[1] = t /\ k \in Nat
        BY <2>1, <4>1 DEF w
      <4>3. x \o w \in Seq(T) /\ Len(x \o w) = k + 1 /\ (x \o w)[k + 1] = t
            /\ \A i \in 1..k : (x \o w)[i] = x[i]
        <5>1. /\ x \o w \in Seq(T) /\ Len(x \o w) = Len(x) + Len(w)
              /\ \A i \in 1 .. Len(x) + Len(w) : (x \o w)[i] =
                     IF i <= Len(x) THEN x[i] ELSE w[i - Len(x)]
          BY <3>1, <4>2, ConcatProperties
        <5>2. Len(x) + Len(w) = k + 1 /\ k + 1 \in 1..(k + 1) /\ ~(k + 1 <= k)
              /\ (k + 1) - Len(x) = 1 /\ \A i \in 1..k : i \in 1..(k + 1) /\ i <= k
          BY <3>1, <4>2
        <5> QED
          BY <3>1, <4>2, <5>1, <5>2
      <4> QED
        BY <4>3 DEF w
    <3>4. \A i \in 1..j : i \in 1..k \/ i = k + 1
      BY <1>2, <2>1
    <3>5. j = k + 1 /\ s[j] = t
      BY DEF j, t
    <3>6. \A i \in 1..j : (x \o <<t>>)[i] = y[i]
      BY <3>1, <3>2, <3>3, <3>4, <3>5
    <3> DEFINE z == x \o <<t>>
    <3>7. z \in Seq(T) /\ Len(z) = Len(y) /\ \A i \in 1..Len(z) : z[i] = y[i]
      BY <3>2, <3>3, <3>5, <3>6
    <3> HIDE DEF z
    <3>8. z = y
      BY <3>2, <3>7, SeqEqual
    <3> QED
      BY <3>8 DEF x, y, z
  <2>12. ASSUME NEW m \in 1..Len(Last(g[j]).tags)
         PROVE  \E i \in 1..j : Last(g[j]).tags[m] = s[i]
    <3>1. j \in 1..j /\ s[j] = t /\ Last(g[j]).tags = Last(AddTag(rs, t)).tags
      BY <2>1, <2>8 DEF t
    <3>2. CASE Last(g[j]).tags = <<t>>
      <4>1. m = 1 /\ <<t>>[1] = t
        BY <2>12, <3>2
      <4> QED
        BY <3>1, <3>2, <4>1
    <3>3. CASE rs # <<>> /\ Last(g[j]).tags = Last(rs).tags \o <<t>>
      <4> DEFINE x == Last(rs).tags
                 l == Len(x)
      <4>1. x \in Seq(T)
        <5>1. Len(rs) \in 1..Len(rs) /\ rs[Len(rs)] \in GoodRanges(T)
          BY <2>6, <3>3
        <5> QED
          BY <5>1 DEF GoodRanges, RangeRecords, Last
      <4>2. \A i \in 1..l : \E h \in 1..k : x[i] = s[h]
        BY <2>2, <3>3 DEF Built, rs
      <4> HIDE DEF x
      <4>3. Len(x \o <<t>>) = l + 1 /\ (x \o <<t>>)[l + 1] = t /\ l \in Nat
            /\ \A i \in 1..l : (x \o <<t>>)[i] = x[i]
        BY <2>6, <4>1
      <4>4. Last(g[j]).tags = x \o <<t>>
        BY <3>3 DEF x
      <4>5. m \in 1..l \/ m = l + 1
        BY <2>12, <4>3, <4>4
      <4>6. \A h \in 1..k : h \in 1..j
        BY <2>1
      <4> QED
        BY <3>1, <4>2, <4>3, <4>4, <4>5, <4>6
    <3> QED
      BY <2>7, <3>1, <3>2, <3>3
  <2>10. Built(j)
    BY <2>1, <2>7, <2>8, <2>9, <2>12 DEF Built, t
  <2> QED
    BY <2>1, <2>10 DEF K, j
<1>8. \A k \in 0..n : k \in K
  <2> HIDE DEF K
  <2> QED
    BY <1>2, <1>6, <1>7, Induction
<1>9. Built(n)
  <2>1. n \in 0..n
    BY <1>2
  <2> HIDE DEF Built
  <2> QED
    BY <1>8, <2>1
<1>10. SubSeq(s, 1, n) = s
  BY <1>1, <1>2
<1> QED
  BY <1>3, <1>4, <1>9, <1>10 DEF s

\* A sequence is a sequence over any set that holds its members.
LEMMA SeqOfMembers ==
  ASSUME NEW T, NEW U, NEW s \in Seq(T), ToSet(s) \subseteq U
  PROVE  s \in Seq(U)
<1>1. Len(s) \in Nat /\ DOMAIN s = 1..Len(s) /\ s = [k \in 1..Len(s) |-> s[k]]
  OBVIOUS
<1>2. \A k \in 1..Len(s) : s[k] \in U
  BY <1>1 DEF ToSet
<1> QED
  BY <1>1, <1>2

\* Where the tags of some areas are.
At(ts, as) == {k \in 1..Len(ts) : ts[k].area \in as}

\* There are at most as many such places as tags.
LEMMA AtBound ==
  ASSUME NEW T, NEW ts \in Seq(T), NEW as
  PROVE  /\ IsFiniteSet(At(ts, as)) /\ Cardinality(At(ts, as)) \in Nat
         /\ Cardinality(At(ts, as)) <= Len(ts)
<1> DEFINE n == Len(ts)
<1>1. n \in Nat
  OBVIOUS
<1>2. At(ts, as) \in SUBSET (1..n)
  BY DEF At
<1> HIDE DEF n
<1>3. IsFiniteSet(1..n) /\ Cardinality(1..n) = n
  BY <1>1, FS_Interval
<1>4. IsFiniteSet(At(ts, as)) /\ Cardinality(At(ts, as)) <= n
  BY <1>2, <1>3, FS_Subset
<1>5. Cardinality(At(ts, as)) \in Nat
  BY <1>4, FS_CardinalityType
<1> QED
  BY <1>4, <1>5 DEF n

\* One more area has its tags more.
LEMMA AtFacts ==
  ASSUME NEW T, NEW ts \in Seq(T), NEW as, NEW a, a \notin as
  PROVE  Cardinality(At(ts, as \union {a})) = Cardinality(At(ts, as)) + Cardinality(At(ts, {a}))
<1> DEFINE X == At(ts, as)
           Y == At(ts, {a})
<1>1. IsFiniteSet(X) /\ IsFiniteSet(Y) /\ Cardinality(X) \in Nat /\ Cardinality(Y) \in Nat
  BY AtBound
<1>2. At(ts, as \union {a}) = X \union Y /\ X \cap Y = {}
  BY DEF At
<1> HIDE DEF X, Y
<1>3. Cardinality(X \union Y) = Cardinality(X) + Cardinality(Y) - Cardinality(X \cap Y)
  BY <1>1, FS_Union
<1>4. Cardinality(X \cap Y) = 0
  BY <1>2, FS_EmptySet, Zenon
<1>5. Cardinality(X \union Y) = Cardinality(X) + Cardinality(Y)
  BY <1>1, <1>3, <1>4
<1>6. Cardinality(At(ts, as \union {a})) = Cardinality(X) + Cardinality(Y)
  BY <1>2, <1>5
<1> QED
  BY <1>6 DEF X, Y

\* groupTagsByType and buildContiguousRanges: the tags of an area, in good ranges.
LEMMA AreaFacts ==
  ASSUME NEW T, NEW ts \in Seq(T), \A t \in T : Sane(t), Distinct(ts), NEW a
  PROVE  /\ OfArea(ts, a) \in Seq(T)
         /\ Len(OfArea(ts, a)) = Cardinality(At(ts, {a}))
         /\ ToSet(OfArea(ts, a)) = {ts[k] : k \in At(ts, {a})}
         /\ Ranges(OfArea(ts, a)) \in Seq(GoodRanges(T))
         /\ Len(TagsIn(Ranges(OfArea(ts, a)))) = Len(OfArea(ts, a))
         /\ ToSet(TagsIn(Ranges(OfArea(ts, a)))) = ToSet(OfArea(ts, a))
<1> DEFINE S == At(ts, {a})
           o == OfArea(ts, a)
           U == {t \in T : t.area = a}
<1>1. S \in SUBSET (1..Len(ts)) /\ S = {k \in DOMAIN ts : ts[k].area = a}
  BY DEF At
<1>2. o = Pick(ts, Ascending(S))
  BY <1>1 DEF OfArea
<1>3. \A k \in S : ts[k] \in U
  BY DEF At
<1> HIDE DEF S, o
<1>4. o \in Seq(T) /\ Len(o) = Cardinality(S) /\ ToSet(o) = {ts[k] : k \in S} /\ Distinct(o)
  BY <1>1, <1>2, PickFacts
<1>5. o \in Seq(U)
  <2>1. ToSet(o) \subseteq U
    BY <1>3, <1>4
  <2> HIDE DEF U
  <2> QED
    BY <1>4, <2>1, SeqOfMembers
<1>6. \A t \in U : Sane(t) /\ t.area = a
  OBVIOUS
<1> HIDE DEF U
<1>7. Ranges(o) \in Seq(GoodRanges(U)) /\ TagsIn(Ranges(o)) = SortByAddress(o)
  BY <1>4, <1>5, <1>6, RangesFacts
<1>8. Len(SortByAddress(o)) = Len(o) /\ ToSet(SortByAddress(o)) = ToSet(o)
  <2>1. \A t \in U : t.addr \in Nat
    BY <1>6, SaneFacts
  <2> QED
    BY <1>4, <1>5, <2>1, SortFacts
<1>9. Ranges(o) \in Seq(GoodRanges(T))
  <2> DEFINE R == Ranges(o)
  <2>1. \A x \in Seq(U) : x \in Seq(T)
    <3>1. U \subseteq T
      BY DEF U
    <3> QED
      BY <3>1
  <2>2. \A r \in GoodRanges(U) : r \in GoodRanges(T)
    BY <2>1 DEF GoodRanges, RangeRecords
  <2>3. R \in Seq(GoodRanges(U))
    BY <1>7
  <2> DEFINE G == GoodRanges(U)
             H == GoodRanges(T)
  <2>4. G \subseteq H
    BY <2>2
  <2>5. R \in Seq(G)
    BY <2>3
  <2> HIDE DEF R, G, H
  <2>6. R \in Seq(H)
    BY <2>4, <2>5
  <2> QED
    BY <2>6 DEF R, H
<1> QED
  BY <1>4, <1>7, <1>8, <1>9 DEF S, o

\* The tags in two lists of ranges are joined in their order.
LEMMA TagsInConcat ==
  ASSUME NEW T, NEW a \in Seq(RangeRecords(T)), NEW b \in Seq(RangeRecords(T))
  PROVE  /\ TagsIn(a) \in Seq(T) /\ TagsIn(b) \in Seq(T)
         /\ TagsIn(a \o b) = TagsIn(a) \o TagsIn(b)
<1> DEFINE R == RangeRecords(T)
           Tags(s) == [k \in DOMAIN s |-> s[k].tags]
           c == a \o b
<1>1. c \in Seq(R)
  OBVIOUS
<1>2. /\ Tags(a) \in Seq(Seq(T)) /\ Len(Tags(a)) = Len(a)
      /\ Tags(b) \in Seq(Seq(T)) /\ Len(Tags(b)) = Len(b)
      /\ Tags(c) \in Seq(Seq(T)) /\ Len(Tags(c)) = Len(c)
  BY <1>1, TagsInFacts
<1>3. /\ Len(c) = Len(a) + Len(b) /\ Len(a) \in Nat /\ Len(b) \in Nat
      /\ DOMAIN c = 1..(Len(a) + Len(b)) /\ DOMAIN a = 1..Len(a) /\ DOMAIN b = 1..Len(b)
      /\ \A k \in 1..Len(a) : c[k] = a[k]
      /\ \A k \in 1..Len(b) : c[k + Len(a)] = b[k]
  OBVIOUS
<1> HIDE DEF c, R
<1>4. /\ \A k \in 1..Len(a) : Tags(a)[k] = a[k].tags
      /\ \A k \in 1..Len(b) : Tags(b)[k] = b[k].tags
      /\ \A k \in 1..(Len(a) + Len(b)) : Tags(c)[k] = c[k].tags
  BY <1>3
<1> DEFINE x == Tags(a)
           y == Tags(b)
           z == Tags(c)
<1>5. x \in Seq(Seq(T)) /\ y \in Seq(Seq(T)) /\ z \in Seq(Seq(T))
      /\ Len(x) = Len(a) /\ Len(y) = Len(b) /\ Len(z) = Len(a) + Len(b)
  BY <1>2, <1>3
<1>6. TagsIn(a) = FlattenSeq(x) /\ TagsIn(b) = FlattenSeq(y) /\ TagsIn(c) = FlattenSeq(z)
  BY DEF TagsIn
<1>7. /\ \A k \in 1..Len(a) : z[k] = x[k]
      /\ \A k \in 1..Len(b) : z[k + Len(a)] = y[k]
  <2>1. \A k \in 1..Len(a) : k \in 1..(Len(a) + Len(b))
    BY <1>3
  <2>2. \A k \in 1..Len(b) : k + Len(a) \in 1..(Len(a) + Len(b))
    BY <1>3
  <2> HIDE DEF Tags
  <2> QED
    BY <1>3, <1>4, <2>1, <2>2
<1> HIDE DEF x, y, z
<1>8. z = x \o y
  <2>1. /\ x \o y \in Seq(Seq(T)) /\ Len(x \o y) = Len(x) + Len(y)
        /\ \A i \in 1 .. Len(x) + Len(y) : (x \o y)[i] = IF i <= Len(x) THEN x[i] ELSE y[i - Len(x)]
    <3> DEFINE V == Seq(T)
    <3>1. x \in Seq(V) /\ y \in Seq(V)
      BY <1>5
    <3> HIDE DEF V
    <3>2. /\ x \o y \in Seq(V) /\ Len(x \o y) = Len(x) + Len(y)
          /\ \A i \in 1 .. Len(x) + Len(y) : (x \o y)[i] = IF i <= Len(x) THEN x[i] ELSE y[i - Len(x)]
      BY <3>1, ConcatProperties
    <3> QED
      BY <3>2 DEF V
  <2>2. ASSUME NEW i \in 1..Len(z) PROVE z[i] = (x \o y)[i]
    <3>1. CASE i <= Len(x)
      BY <1>3, <1>5, <1>7, <2>1, <3>1
    <3>2. CASE ~(i <= Len(x))
      <4>1. i - Len(x) \in 1..Len(b) /\ (i - Len(x)) + Len(a) = i
        BY <1>3, <1>5, <3>2
      <4> QED
        BY <1>3, <1>5, <1>7, <2>1, <3>2, <4>1
    <3> QED
      BY <3>1, <3>2
  <2> DEFINE w == x \o y
  <2>3. w \in Seq(Seq(T)) /\ Len(w) = Len(z) /\ \A i \in 1..Len(z) : z[i] = w[i]
    BY <1>5, <2>1, <2>2
  <2> HIDE DEF w
  <2>4. z = w
    BY <1>5, <2>3, SeqEqual
  <2> QED
    BY <2>4 DEF w
<1>9. FlattenSeq(x \o y) = FlattenSeq(x) \o FlattenSeq(y)
  BY <1>5, FlattenConcat
<1>10. FlattenSeq(x) \in Seq(T) /\ FlattenSeq(y) \in Seq(T)
  BY <1>5, FlattenMembers
<1> QED
  BY <1>6, <1>8, <1>9, <1>10 DEF c

-----------------------------------------------------------------------------
(* FieldReads: a read *)

\* The tags of the call, and the points that are true of one of them.
JobTags == ToSet(job.tags)

\* The points that are true of one of the tags of the call.
TruePoints == UNION {PointsOf(JobTags, t) : t \in JobTags}

\* The points answer the tag.
Answered(ps, t) == \E k \in 1..Len(ps) : ps[k].tag = t.id

\* Every point is true of some tag, and there are never more points than tags.
PointTypes ==
  /\ left \subseteq AreasOf(job.tags)
  /\ partial \in Seq(TruePoints) /\ points \in Seq(TruePoints)
  /\ Len(partial) + Len(points) <= Len(job.tags)

\* Modbus: the group's points and the tags still to read make up the group, and
\* each tag of the call is in a group to come, in this one or answered.
GroupsInv ==
  /\ group \in Seq(JobTags) /\ unsent \in Seq(GoodRanges(JobTags))
  /\ Len(partial) + Len(TagsIn(unsent)) = Len(group)
  /\ Len(points) + Len(group) + Cardinality(At(job.tags, left)) = Len(job.tags)
  /\ \A t \in ToSet(group) : t \in ToSet(TagsIn(unsent)) \/ Answered(partial, t)
  /\ \A t \in JobTags : t.area \in left \/ t \in ToSet(group) \/ Answered(points, t)

\* S7, optimized: the points and the tags still to read are no more than asked for.
ChunksInv ==
  /\ points = <<>> /\ unsent \in Seq(GoodRanges(JobTags))
  /\ Len(partial) + Len(TagsIn(unsent)) <= Len(job.tags)

\* S7, one by one: the points are those of the first tags, the others are to be sent.
FallbackInv ==
  /\ partial = <<>> /\ unsent \in Seq(JobTags)
  /\ Len(points) + Len(unsent) = Len(job.tags)
  /\ \A k \in 1..Len(unsent) : unsent[k] = job.tags[Len(points) + k]
  /\ \A k \in 1..Len(points) : points[k].tag = job.tags[k].id

\* Every tag has its point, in S7 at its own place.
Answers ==
  /\ Len(points) = Len(job.tags)
  /\ \A i \in 1..Len(job.tags) : IF job.kind = "s7" THEN points[i].tag = job.tags[i].id
                                 ELSE Answered(points, job.tags[i])

\* The inductive invariant of the reads.
ReadInv ==
  /\ PointTypes
  /\ pc = "groups" => GroupsInv
  /\ pc = "optimized" => points = <<>> /\ partial = <<>>
  /\ pc = "chunks" => ChunksInv
  /\ pc = "fallback" => FallbackInv
  /\ (pc = "done" /\ job.kind # "write" /\ ~failed) => Answers

\* What the invariant says of the tags of the call.
LEMMA JobFacts ==
  ASSUME JobInv
  PROVE  /\ job.tags \in Seq(JobTags) /\ Len(job.tags) \in Nat
         /\ DOMAIN job.tags = 1..Len(job.tags)
         /\ \A k \in 1..Len(job.tags) : job.tags[k] \in JobTags
         /\ \A t \in JobTags : \E k \in 1..Len(job.tags) : t = job.tags[k]
         /\ job.kind = "modbus" => \A t \in JobTags : Sane(t)
         /\ job.kind = "s7" => \A t \in JobTags : IsS7Tag(t) /\ IsS7Read(t)
<1>1. job.tags \in Seq(JobTags)
  BY DEF JobInv, JobTags
<1>2. Len(job.tags) \in Nat /\ DOMAIN job.tags = 1..Len(job.tags)
      /\ \A k \in 1..Len(job.tags) : job.tags[k] \in JobTags
  BY <1>1
<1>3. \A t \in JobTags : \E k \in 1..Len(job.tags) : t = job.tags[k]
  BY <1>2 DEF JobTags, ToSet
<1>4. job.kind = "modbus" => \A t \in JobTags : Sane(t)
  BY <1>2, <1>3 DEF JobInv, Sane
<1>5. job.kind = "s7" => \A t \in JobTags : IsS7Tag(t) /\ IsS7Read(t)
  BY <1>2, <1>3 DEF JobInv, IsS7Read
<1> QED
  BY <1>1, <1>2, <1>3, <1>4, <1>5

\* What is answered stays answered when points are added.
LEMMA AnsweredConcat ==
  ASSUME NEW P, NEW a \in Seq(P), NEW b \in Seq(P), NEW t, Answered(a, t) \/ Answered(b, t)
  PROVE  Answered(a \o b, t)
<1>1. /\ a \o b \in Seq(P) /\ Len(a \o b) = Len(a) + Len(b)
      /\ \A i \in 1 .. Len(a) + Len(b) : (a \o b)[i] = IF i <= Len(a) THEN a[i] ELSE b[i - Len(a)]
  BY ConcatProperties
<1>2. Len(a) \in Nat /\ Len(b) \in Nat
  OBVIOUS
<1>3. CASE Answered(a, t)
  <2>1. PICK k \in 1..Len(a) : a[k].tag = t.id
    BY <1>3 DEF Answered
  <2>2. k \in 1..(Len(a) + Len(b)) /\ k <= Len(a)
    BY <1>2, <2>1
  <2> QED
    BY <1>1, <2>1, <2>2 DEF Answered
<1>4. CASE Answered(b, t)
  <2>1. PICK k \in 1..Len(b) : b[k].tag = t.id
    BY <1>4 DEF Answered
  <2>2. k + Len(a) \in 1..(Len(a) + Len(b)) /\ ~(k + Len(a) <= Len(a)) /\ (k + Len(a)) - Len(a) = k
    BY <1>2, <2>1
  <2> QED
    BY <1>1, <2>1, <2>2 DEF Answered
<1> QED
  BY <1>3, <1>4

\* Points that are true of their tags answer them.
LEMMA AnsweredBy ==
  ASSUME NEW T, NEW s \in Seq(T), NEW ps, Len(ps) = Len(s),
         \A k \in 1..Len(s) : ps[k] \in PointsOf(T, s[k])
  PROVE  \A t \in ToSet(s) : Answered(ps, t)
<1> SUFFICES ASSUME NEW t \in ToSet(s) PROVE Answered(ps, t)
  OBVIOUS
<1>1. PICK k \in 1..Len(s) : t = s[k]
  BY DEF ToSet
<1>2. ps[k] \in PointsOf(T, t)
  BY <1>1
<1>3. ps[k].tag = t.id
  BY <1>2, PointTag
<1> QED
  BY <1>1, <1>3 DEF Answered

\* There are no tags in no ranges.
LEMMA TagsInEmpty == TagsIn(<<>>) = <<>>
<1>1. [k \in DOMAIN <<>> |-> <<>>[k].tags] = <<>>
  OBVIOUS
<1> QED
  BY <1>1, FlattenEmpty DEF TagsIn

\* The tags of the first range come before those of the others.
LEMMA TagsInHead ==
  ASSUME NEW T, NEW rs \in Seq(GoodRanges(T)), rs # <<>>
  PROVE  /\ Head(rs) \in RangeRecords(T) /\ RangeOk(Head(rs)) /\ Head(rs).tags \in Seq(T)
         /\ Tail(rs) \in Seq(GoodRanges(T)) /\ TagsIn(Tail(rs)) \in Seq(T)
         /\ TagsIn(rs) = Head(rs).tags \o TagsIn(Tail(rs))
<1> DEFINE h == Head(rs)
           u == Tail(rs)
           R == RangeRecords(T)
           G == GoodRanges(T)
<1>1. h \in G /\ u \in Seq(G) /\ rs = <<h>> \o u
  <2> HIDE DEF G
  <2>1. rs \in Seq(G)
    BY DEF G
  <2>2. h \in G /\ u \in Seq(G)
    BY <2>1
  <2>3. rs = <<h>> \o u
    BY <2>1, HeadTailProperties
  <2> QED
    BY <2>2, <2>3
<1>2. h \in R /\ RangeOk(h) /\ h.tags \in Seq(T)
  BY <1>1 DEF GoodRanges, RangeRecords
<1> HIDE DEF h, u
<1>3. u \in Seq(R) /\ <<h>> \in Seq(R)
  <2>1. G \subseteq R
    BY DEF GoodRanges
  <2> HIDE DEF G, R
  <2> QED
    BY <1>1, <1>2, <2>1
<1> HIDE DEF R
<1>4. TagsIn(u) \in Seq(T) /\ TagsIn(<<h>> \o u) = TagsIn(<<h>>) \o TagsIn(u)
  BY <1>3, TagsInConcat DEF R
<1>5. TagsIn(<<h>>) = h.tags
  <2>1. [k \in DOMAIN <<h>> |-> <<h>>[k].tags] = <<h.tags>>
    OBVIOUS
  <2>2. FlattenSeq(<<h.tags>>) = h.tags
    BY <1>2, FlattenOne
  <2> QED
    BY <2>1, <2>2 DEF TagsIn
<1> QED
  BY <1>1, <1>2, <1>4, <1>5 DEF h, u, R

\* A sequence of length 0 is empty.
LEMMA LengthZero ==
  ASSUME NEW T, NEW s \in Seq(T), Len(s) = 0
  PROVE  s = <<>>
OBVIOUS

\* The tags of the areas still to read can be counted.
LEMMA UnreadCount ==
  ASSUME JobInv, NEW as
  PROVE  Cardinality(At(job.tags, as)) \in Nat
BY JobFacts, AtBound

\* The next group has all the tags of its area, in its ranges.
LEMMA TakeGroupStep ==
  ASSUME JobInv, ReadInv, TakeGroup
  PROVE  ReadInv'
<1>1. pc = "groups" /\ group = <<>>
      /\ UNCHANGED <<job, pc, partial, points>>
  BY DEF TakeGroup
<1>2. PICK a \in left : /\ left' = left \ {a}
                        /\ group' = OfArea(job.tags, a)
                        /\ unsent' = Ranges(OfArea(job.tags, a))
  BY DEF TakeGroup
<1>3. PointTypes /\ GroupsInv
  BY <1>1 DEF ReadInv
<1>4. job.kind = "modbus"
  BY <1>1, StageFacts
<1> DEFINE ts == job.tags
           o == OfArea(ts, a)
           b == left \ {a}
<1>5. ts \in Seq(JobTags) /\ (\A t \in JobTags : Sane(t)) /\ Distinct(ts)
  BY <1>4, JobFacts DEF JobInv
<1>6. \A t \in JobTags : \E k \in 1..Len(ts) : t = ts[k]
  BY JobFacts
<1>7. /\ o \in Seq(JobTags)
      /\ Len(o) = Cardinality(At(ts, {a}))
      /\ ToSet(o) = {ts[k] : k \in At(ts, {a})}
      /\ Ranges(o) \in Seq(GoodRanges(JobTags))
      /\ Len(TagsIn(Ranges(o))) = Len(o)
      /\ ToSet(TagsIn(Ranges(o))) = ToSet(o)
  <2> DEFINE T == JobTags
  <2>1. ts \in Seq(T) /\ (\A t \in T : Sane(t)) /\ Distinct(ts)
    BY <1>5
  <2> HIDE DEF T, ts, o
  <2>2. /\ OfArea(ts, a) \in Seq(T)
        /\ Len(OfArea(ts, a)) = Cardinality(At(ts, {a}))
        /\ ToSet(OfArea(ts, a)) = {ts[k] : k \in At(ts, {a})}
        /\ Ranges(OfArea(ts, a)) \in Seq(GoodRanges(T))
        /\ Len(TagsIn(Ranges(OfArea(ts, a)))) = Len(OfArea(ts, a))
        /\ ToSet(TagsIn(Ranges(OfArea(ts, a)))) = ToSet(OfArea(ts, a))
    BY <2>1, AreaFacts
  <2> QED
    BY <2>2 DEF T, o
<1>8. /\ Cardinality(At(ts, b)) \in Nat
      /\ Cardinality(At(ts, left)) = Cardinality(At(ts, b)) + Cardinality(At(ts, {a}))
  <2>1. a \notin b /\ b \union {a} = left
    BY <1>2
  <2> HIDE DEF ts, b
  <2>2. /\ Cardinality(At(ts, b)) \in Nat
        /\ Cardinality(At(ts, b \union {a})) = Cardinality(At(ts, b)) + Cardinality(At(ts, {a}))
    BY <1>5, <2>1, AtBound, AtFacts
  <2> QED
    BY <2>1, <2>2
<1>9. Len(group) = 0 /\ Len(partial) \in Nat /\ Len(points) \in Nat /\ Len(TagsIn(unsent)) \in Nat
      /\ Len(o) \in Nat
  <2>1. TagsIn(unsent) \in Seq(JobTags)
    <3> DEFINE R == RangeRecords(JobTags)
               G == GoodRanges(JobTags)
    <3>1. G \subseteq R /\ unsent \in Seq(G)
      BY <1>3 DEF GroupsInv, GoodRanges
    <3> HIDE DEF R, G
    <3>2. unsent \in Seq(R)
      BY <3>1
    <3> QED
      BY <3>2, TagsInFacts DEF R
  <2> QED
    BY <1>1, <1>3, <1>7, <2>1 DEF PointTypes
<1> HIDE DEF o, b, ts
<1>10. Len(partial) = 0 /\ Len(points) + Len(group) + Cardinality(At(ts, left)) = Len(ts)
       /\ Len(partial) + Len(points) <= Len(ts)
  BY <1>3, <1>9 DEF GroupsInv, PointTypes, ts
<1>11. left' = b /\ group' = o /\ unsent' = Ranges(o) /\ partial' = partial /\ points' = points
       /\ job' = job /\ pc' = pc /\ JobTags' = JobTags /\ TruePoints' = TruePoints
  BY <1>1, <1>2 DEF o, b, ts, JobTags, TruePoints
<1>12. PointTypes'
  BY <1>3, <1>11 DEF PointTypes, b
<1>13. Len(partial') + Len(TagsIn(unsent')) = Len(group')
  BY <1>7, <1>9, <1>10, <1>11
<1>14. Len(points') + Len(group') + Cardinality(At(job.tags, left')) = Len(job.tags)
  <2>1. Len(points) + Len(o) + Cardinality(At(ts, b)) = Len(ts)
    BY <1>7, <1>8, <1>9, <1>10
  <2> QED
    BY <1>11, <2>1 DEF ts
<1>15. \A t \in ToSet(group') : t \in ToSet(TagsIn(unsent'))
  BY <1>7, <1>11
<1>16. ASSUME NEW t \in JobTags
       PROVE  t.area \in left' \/ t \in ToSet(group') \/ Answered(points', t)
  <2>1. t.area \in left \/ Answered(points, t)
    <3>1. ToSet(group) = {}
      BY <1>1 DEF ToSet
    <3> QED
      BY <1>3, <3>1 DEF GroupsInv
  <2>2. CASE t.area = a
    <3>1. PICK k \in 1..Len(ts) : t = ts[k]
      BY <1>6
    <3>2. k \in At(ts, {a})
      BY <2>2, <3>1 DEF At
    <3> QED
      BY <1>7, <1>11, <3>1, <3>2
  <2>3. CASE t.area # a
    BY <1>11, <2>1, <2>3 DEF b
  <2> QED
    BY <2>2, <2>3
<1>17. GroupsInv'
  BY <1>7, <1>11, <1>13, <1>14, <1>15, <1>16 DEF GroupsInv
<1> QED
  BY <1>1, <1>11, <1>12, <1>17 DEF ReadInv

\* The answer to a range, or its refusal.
LEMMA NextRangeStep ==
  ASSUME JobInv, ReadInv, ReadRange \/ RangeFails
  PROVE  ReadInv'
<1>1. unsent # <<>> /\ pc = "groups"
  BY DEF ReadRange, RangeFails
<1>2. PointTypes /\ GroupsInv
  BY <1>1 DEF ReadInv
<1> DEFINE h == Head(unsent)
           u == Tail(unsent)
           T == JobTags
<1>3. /\ h \in RangeRecords(T) /\ RangeOk(h) /\ h.tags \in Seq(T)
      /\ u \in Seq(GoodRanges(T)) /\ TagsIn(u) \in Seq(T)
      /\ TagsIn(unsent) = h.tags \o TagsIn(u)
  <2>1. unsent \in Seq(GoodRanges(T))
    BY <1>2 DEF GroupsInv
  <2> HIDE DEF T
  <2> QED
    BY <1>1, <2>1, TagsInHead
<1>4. PICK result : /\ NextRange(result) /\ result \in Seq(TruePoints)
                    /\ Len(result) = Len(h.tags)
                    /\ \A k \in 1..Len(h.tags) : result[k] \in PointsOf(T, h.tags[k])
  <2>1. CASE ReadRange
    <3>1. NextRange(RangePoints(h))
      BY <2>1 DEF ReadRange
    <3>2. /\ RangePoints(h) \in Seq(UNION {PointsOf(T, t) : t \in T})
          /\ Len(RangePoints(h)) = Len(h.tags)
          /\ \A k \in 1..Len(h.tags) : RangePoints(h)[k] \in PointsOf(T, h.tags[k])
      <4> HIDE DEF h, T
      <4> QED
        BY <1>3, RangePointsFacts
    <3> HIDE DEF h
    <3> QED
      BY <3>1, <3>2 DEF TruePoints
  <2>2. CASE RangeFails
    <3>1. NextRange(BadPoints(h.tags))
      BY <2>2 DEF RangeFails
    <3> DEFINE s == h.tags
    <3>2. /\ BadPoints(s) \in Seq(UNION {PointsOf(T, t) : t \in T})
          /\ Len(BadPoints(s)) = Len(s)
          /\ \A k \in 1..Len(s) : BadPoints(s)[k] \in PointsOf(T, s[k])
      <4>1. s \in Seq(T)
        BY <1>3
      <4> HIDE DEF s, T
      <4> QED
        BY <4>1, BadPointsFacts
    <3> HIDE DEF h
    <3> QED
      BY <3>1, <3>2 DEF TruePoints
  <2> QED
    BY <2>1, <2>2
<1> DEFINE p == partial \o result
<1>5. partial' = p /\ unsent' = u /\ UNCHANGED <<job, pc, left, group, points>>
  BY <1>4 DEF NextRange
<1>6. JobTags' = JobTags /\ TruePoints' = TruePoints
  BY <1>5 DEF JobTags, TruePoints
<1>7. partial \in Seq(TruePoints) /\ points \in Seq(TruePoints) /\ group \in Seq(JobTags)
  BY <1>2 DEF PointTypes, GroupsInv
<1>8. p \in Seq(TruePoints) /\ Len(p) = Len(partial) + Len(result)
  <2> DEFINE P == TruePoints
  <2>1. partial \in Seq(P) /\ result \in Seq(P)
    BY <1>4, <1>7
  <2> HIDE DEF P
  <2>2. partial \o result \in Seq(P) /\ Len(partial \o result) = Len(partial) + Len(result)
    BY <2>1, ConcatProperties
  <2> QED
    BY <2>2 DEF P
<1>9. Len(TagsIn(unsent)) = Len(h.tags) + Len(TagsIn(u)) /\ Len(h.tags) \in Nat
      /\ Len(TagsIn(u)) \in Nat
  <2> DEFINE x == h.tags
             y == TagsIn(u)
  <2>1. x \in Seq(T) /\ y \in Seq(T) /\ TagsIn(unsent) = x \o y
    BY <1>3
  <2> HIDE DEF x, y, T
  <2>2. Len(x \o y) = Len(x) + Len(y) /\ Len(x) \in Nat /\ Len(y) \in Nat
    BY <2>1
  <2> QED
    BY <2>1, <2>2 DEF x, y
<1>10. Len(partial) \in Nat /\ Len(points) \in Nat /\ Len(group) \in Nat
  BY <1>7
<1> HIDE DEF h, u, p
<1>11. Len(p) + Len(TagsIn(u)) = Len(group)
  BY <1>2, <1>4, <1>8, <1>9, <1>10 DEF GroupsInv
<1>12. Len(p) + Len(points) <= Len(job.tags)
  <2>1. Cardinality(At(job.tags, left)) \in Nat
    BY UnreadCount
  <2>2. Len(points) + Len(group) + Cardinality(At(job.tags, left)) = Len(job.tags)
    BY <1>2 DEF GroupsInv
  <2>3. Len(job.tags) \in Nat /\ Len(p) \in Nat
    BY <1>8, JobFacts
  <2> QED
    BY <1>9, <1>10, <1>11, <2>1, <2>2, <2>3
<1>13. PointTypes'
  BY <1>2, <1>5, <1>6, <1>8, <1>12 DEF PointTypes
<1>14. ASSUME NEW t \in ToSet(group)
       PROVE  t \in ToSet(TagsIn(u)) \/ Answered(p, t)
  <2>1. t \in ToSet(TagsIn(unsent)) \/ Answered(partial, t)
    BY <1>2 DEF GroupsInv
  <2>2. ToSet(TagsIn(unsent)) = ToSet(h.tags) \union ToSet(TagsIn(u))
    <3> DEFINE x == h.tags
               y == TagsIn(u)
    <3>1. x \in Seq(T) /\ y \in Seq(T) /\ TagsIn(unsent) = x \o y
      BY <1>3 DEF h, u
    <3> HIDE DEF x, y, T
    <3>2. ToSet(x \o y) = ToSet(x) \union ToSet(y)
      BY <3>1, ConcatMembers
    <3> QED
      BY <3>1, <3>2 DEF x, y
  <2>3. t \in ToSet(h.tags) => Answered(result, t)
    <3> DEFINE s == h.tags
    <3>1. s \in Seq(T) /\ Len(result) = Len(s) /\ \A k \in 1..Len(s) : result[k] \in PointsOf(T, s[k])
      BY <1>3, <1>4 DEF h
    <3> HIDE DEF s, T
    <3>2. \A v \in ToSet(s) : Answered(result, v)
      BY <3>1, AnsweredBy
    <3> QED
      BY <3>2 DEF s
  <2>4. Answered(partial, t) \/ Answered(result, t) => Answered(p, t)
    <3> DEFINE P == TruePoints
    <3>1. partial \in Seq(P) /\ result \in Seq(P)
      BY <1>4, <1>7
    <3> HIDE DEF P
    <3>2. Answered(partial, t) \/ Answered(result, t) => Answered(partial \o result, t)
      BY <3>1, AnsweredConcat
    <3> QED
      BY <3>2 DEF p
  <2> QED
    BY <2>1, <2>2, <2>3, <2>4
<1>15. GroupsInv'
  <2>1. u \in Seq(GoodRanges(JobTags))
    BY <1>3 DEF u
  <2> QED
    BY <1>2, <1>5, <1>6, <1>11, <1>14, <2>1 DEF GroupsInv
<1> QED
  BY <1>1, <1>5, <1>13, <1>15 DEF ReadInv

\* The group's points, or an error for each of its tags, join the call's points.
LEMMA GroupReturnsStep ==
  ASSUME JobInv, ReadInv, GroupDone \/ CutGroup
  PROVE  ReadInv'
<1>1. pc = "groups"
  BY DEF GroupDone, CutGroup
<1>2. PointTypes /\ GroupsInv
  BY <1>1 DEF ReadInv
<1> DEFINE T == JobTags
           P == TruePoints
<1>3. partial \in Seq(P) /\ points \in Seq(P) /\ group \in Seq(T)
  BY <1>2 DEF PointTypes, GroupsInv
<1>4. PICK result : /\ GroupReturns(result) /\ result \in Seq(P) /\ Len(result) = Len(group)
                    /\ \A t \in ToSet(group) : Answered(result, t)
  <2>1. CASE GroupDone
    <3>1. GroupReturns(partial) /\ unsent = <<>>
      BY <2>1 DEF GroupDone
    <3>2. TagsIn(unsent) = <<>> /\ Len(TagsIn(unsent)) = 0 /\ ToSet(TagsIn(unsent)) = {}
      BY <3>1, TagsInEmpty DEF ToSet
    <3>3. Len(partial) = Len(group) /\ \A t \in ToSet(group) : Answered(partial, t)
      BY <1>2, <1>3, <3>2 DEF GroupsInv
    <3> HIDE DEF P
    <3> QED
      BY <1>3, <3>1, <3>3
  <2>2. CASE CutGroup
    <3>1. GroupReturns(BadPoints(group))
      BY <2>2 DEF CutGroup
    <3> HIDE DEF T
    <3>2. /\ BadPoints(group) \in Seq(UNION {PointsOf(T, t) : t \in T})
          /\ Len(BadPoints(group)) = Len(group)
          /\ \A k \in 1..Len(group) : BadPoints(group)[k] \in PointsOf(T, group[k])
      BY <1>3, BadPointsFacts
    <3>3. \A t \in ToSet(group) : Answered(BadPoints(group), t)
      BY <1>3, <3>2, AnsweredBy
    <3> QED
      BY <3>1, <3>2, <3>3 DEF TruePoints, T
  <2> QED
    BY <2>1, <2>2
<1> DEFINE p == points \o result
<1>5. points' = p /\ group' = <<>> /\ unsent' = <<>> /\ partial' = <<>> /\ UNCHANGED <<job, pc, left>>
  BY <1>4 DEF GroupReturns
<1>6. JobTags' = JobTags /\ TruePoints' = TruePoints
  BY <1>5 DEF JobTags, TruePoints
<1> HIDE DEF P
<1>7. p \in Seq(P) /\ Len(p) = Len(points) + Len(result)
  <2>1. points \o result \in Seq(P) /\ Len(points \o result) = Len(points) + Len(result)
    BY <1>3, <1>4, ConcatProperties
  <2> QED
    BY <2>1
<1>8. \A t : Answered(points, t) \/ Answered(result, t) => Answered(p, t)
  BY <1>3, <1>4, AnsweredConcat
<1> HIDE DEF p
<1>9. Len(points) \in Nat /\ Len(group) \in Nat /\ Len(job.tags) \in Nat
  BY <1>3, JobFacts
<1>10. Cardinality(At(job.tags, left)) \in Nat
  BY UnreadCount
<1>11. Len(points) + Len(group) + Cardinality(At(job.tags, left)) = Len(job.tags)
  BY <1>2 DEF GroupsInv
<1>12. Len(<<>>) + Len(p) <= Len(job.tags)
       /\ Len(p) + Len(<<>>) + Cardinality(At(job.tags, left)) = Len(job.tags)
  BY <1>4, <1>7, <1>9, <1>10, <1>11
<1>13. PointTypes'
  BY <1>2, <1>5, <1>6, <1>7, <1>12 DEF PointTypes, P
<1>14. GroupsInv'
  <2>1. Len(partial') + Len(TagsIn(unsent')) = Len(group')
    BY <1>5, TagsInEmpty
  <2>2. ToSet(group') = {}
    BY <1>5 DEF ToSet
  <2>3. \A t \in JobTags : t.area \in left \/ Answered(p, t)
    BY <1>2, <1>4, <1>8 DEF GroupsInv
  <2>4. group' \in Seq(JobTags) /\ unsent' \in Seq(GoodRanges(JobTags))
    BY <1>5
  <2>5. Len(points') + Len(group') + Cardinality(At(job.tags, left')) = Len(job.tags)
    BY <1>5, <1>12
  <2> QED
    BY <1>5, <1>6, <2>1, <2>2, <2>3, <2>4, <2>5 DEF GroupsInv
<1> QED
  BY <1>1, <1>5, <1>13, <1>14 DEF ReadInv

\* When no area is left every tag is answered, once.
LEMMA ModbusDoneStep ==
  ASSUME JobInv, ReadInv, ModbusDone
  PROVE  ReadInv'
<1>1. pc = "groups" /\ group = <<>> /\ left = {} /\ pc' = "done"
      /\ UNCHANGED <<job, left, partial, points>>
  BY DEF ModbusDone
<1>2. PointTypes /\ GroupsInv /\ job.kind = "modbus"
  BY <1>1, StageFacts DEF ReadInv
<1>3. JobTags' = JobTags /\ TruePoints' = TruePoints
  BY <1>1 DEF JobTags, TruePoints
<1>4. PointTypes'
  BY <1>1, <1>2, <1>3 DEF PointTypes
<1>5. At(job.tags, left) = {} /\ Cardinality({}) = 0
  BY <1>1, FS_EmptySet DEF At
<1>6. Len(points) = Len(job.tags)
  <2>1. Cardinality(At(job.tags, left)) = 0
    BY <1>5
  <2>2. Len(points) + Len(group) + Cardinality(At(job.tags, left)) = Len(job.tags)
    BY <1>2 DEF GroupsInv
  <2>3. Len(points) \in Nat /\ Len(group) = 0
    BY <1>1, <1>2 DEF PointTypes
  <2> QED
    BY <2>1, <2>2, <2>3
<1>7. \A t \in JobTags : Answered(points, t)
  <2>1. ToSet(group) = {}
    BY <1>1 DEF ToSet
  <2> QED
    BY <1>1, <1>2, <2>1 DEF GroupsInv
<1>8. Answers'
  BY <1>1, <1>2, <1>6, <1>7, JobFacts DEF Answers
<1> QED
  BY <1>1, <1>4, <1>8 DEF ReadInv

\* The S7 call starts again: nothing of what it had is kept.
LEMMA FallBackStep ==
  ASSUME JobInv, ReadInv, FallBack, pc \in {"optimized", "chunks"}
  PROVE  ReadInv'
<1>1. /\ pc' = "fallback" /\ unsent' = job.tags /\ partial' = <<>>
      /\ UNCHANGED <<job, left, points>>
  BY DEF FallBack
<1>2. PointTypes /\ points = <<>>
  BY DEF ReadInv, ChunksInv
<1>3. JobTags' = JobTags /\ TruePoints' = TruePoints
  BY <1>1 DEF JobTags, TruePoints
<1>4. Len(<<>>) = 0 /\ <<>> \in Seq(TruePoints)
  OBVIOUS
<1>5. PointTypes'
  BY <1>1, <1>2, <1>3, <1>4, JobFacts DEF PointTypes
<1>6. Len(points) = 0 /\ Len(job.tags) \in Nat /\ job.tags \in Seq(JobTags)
  BY <1>2, JobFacts
<1>7. FallbackInv'
  <2>1. partial' = <<>> /\ unsent' \in Seq(JobTags)'
    BY <1>1, <1>3, <1>6
  <2>2. Len(points') + Len(unsent') = Len(job.tags')
    BY <1>1, <1>6
  <2>3. \A k \in 1..Len(unsent') : unsent'[k] = job.tags'[Len(points') + k]
    BY <1>1, <1>6
  <2>4. \A k \in 1..Len(points') : points'[k].tag = job.tags'[k].id
    BY <1>1, <1>6
  <2> QED
    BY <2>1, <2>2, <2>3, <2>4 DEF FallbackInv
<1> QED
  BY <1>1, <1>5, <1>7 DEF ReadInv

\* The areas of a sequence of tags are finitely many.
LEMMA AreasFinite ==
  ASSUME NEW T, NEW ts \in Seq(T)
  PROVE  IsFiniteSet(AreasOf(ts)) /\ Cardinality(AreasOf(ts)) \in Nat
<1> DEFINE f == [k \in 1..Len(ts) |-> ts[k].area]
           A == AreasOf(ts)
<1>1. Len(ts) \in Nat /\ DOMAIN ts = 1..Len(ts)
  OBVIOUS
<1>2. A = {ts[k].area : k \in 1..Len(ts)}
  BY <1>1 DEF AreasOf
<1> HIDE DEF A
<1>3. f \in Surjection(1..Len(ts), A)
  BY <1>2 DEF Surjection
<1>4. IsFiniteSet(1..Len(ts))
  BY <1>1, FS_Interval
<1> HIDE DEF f
<1>5. IsFiniteSet(A)
  BY <1>3, <1>4, FS_Surjection
<1>6. Cardinality(A) \in Nat
  BY <1>5, FS_CardinalityType
<1> QED
  BY <1>5, <1>6 DEF A

\* The tags in good ranges are a sequence of tags.
LEMMA TagsInType ==
  ASSUME NEW T, NEW rs \in Seq(GoodRanges(T))
  PROVE  rs \in Seq(RangeRecords(T)) /\ TagsIn(rs) \in Seq(T) /\ Len(TagsIn(rs)) \in Nat
<1> DEFINE R == RangeRecords(T)
           G == GoodRanges(T)
<1>1. G \subseteq R /\ rs \in Seq(G)
  BY DEF GoodRanges
<1> HIDE DEF R, G
<1>2. rs \in Seq(R)
  BY <1>1
<1>3. TagsIn(rs) \in Seq(T)
  BY <1>2, TagsInFacts DEF R
<1> QED
  BY <1>2, <1>3 DEF R

\* The ranges of one area after the other hold no tag twice.
LEMMA OptimizedRanges ==
  ASSUME NEW T, NEW ts \in Seq(T), \A t \in T : Sane(t), Distinct(ts),
         NEW order \in SetToSeqs(AreasOf(ts)),
         NEW rs, rs = FlattenSeq([k \in DOMAIN order |-> Ranges(OfArea(ts, order[k]))])
  PROVE  /\ rs \in Seq(GoodRanges(T))
         /\ Len(TagsIn(rs)) <= Len(ts)
<1> DEFINE n == Cardinality(AreasOf(ts))
           G == GoodRanges(T)
           ss == [k \in DOMAIN order |-> Ranges(OfArea(ts, order[k]))]
           First(k) == {order[i] : i \in 1..k}
<1>1. n \in Nat
  BY AreasFinite
<1>2. /\ DOMAIN order = 1..n
      /\ \A i, j \in 1..n : i # j => order[i] # order[j]
  BY DEF SetToSeqs
<1> HIDE DEF n
<1>3. \A a : /\ Ranges(OfArea(ts, a)) \in Seq(G)
             /\ Len(TagsIn(Ranges(OfArea(ts, a)))) = Cardinality(At(ts, {a}))
  BY AreaFacts
<1> HIDE DEF G
<1>4. ss = [k \in 1..n |-> Ranges(OfArea(ts, order[k]))]
  BY <1>2
<1>5. ss \in Seq(Seq(G)) /\ Len(ss) = n
  <2>1. \A k \in 1..n : Ranges(OfArea(ts, order[k])) \in Seq(G)
    BY <1>3
  <2> HIDE DEF ss
  <2> QED
    BY <1>1, <1>4, <2>1
<1>6. \A k \in 1..n : ss[k] \in Seq(G) /\ Len(TagsIn(ss[k])) = Cardinality(At(ts, {order[k]}))
  <2> HIDE DEF ss
  <2> QED
    BY <1>3, <1>4
<1>7. rs = FlattenSeq(ss)
  OBVIOUS
<1> HIDE DEF ss
<1>8. PICK f \in [0..n -> Seq(G)] : Flattens(f, ss)
  BY <1>5, FlattensExists
<1>9. rs = f[n]
  BY <1>5, <1>7, <1>8, FlattenIs
<1>10. f[0] = <<>> /\ \A k \in 1..n : f[k] = f[k - 1] \o ss[k]
  BY <1>5, <1>8 DEF Flattens
<1> DEFINE size == [k \in 0..n |-> Len(TagsIn(f[k]))]
           count == [k \in 0..n |-> Cardinality(At(ts, First(k)))]
<1>11. size[0] = count[0]
  <2>1. size[0] = 0
    BY <1>1, <1>10, TagsInEmpty
  <2>2. First(0) = {}
    OBVIOUS
  <2>3. At(ts, First(0)) = {}
    BY <2>2 DEF At
  <2>4. Cardinality(At(ts, First(0))) = 0
    BY <2>3, FS_EmptySet, Zenon
  <2> HIDE DEF First
  <2>5. 0 \in 0..n
    BY <1>1
  <2>6. count[0] = Cardinality(At(ts, First(0)))
    BY <2>5
  <2> QED
    BY <2>1, <2>4, <2>6
<1>12. ASSUME NEW k \in 0..(n - 1), size[k] = count[k]
       PROVE  size[k + 1] = count[k + 1]
  <2> DEFINE a == order[k + 1]
             x == f[k]
             y == ss[k + 1]
             as == First(k)
  <2>1. k + 1 \in 1..n /\ k + 1 \in 0..n /\ k \in 0..n /\ (k + 1) - 1 = k
    BY <1>1
  <2>2. f[k + 1] = x \o y /\ x \in Seq(G) /\ y \in Seq(G) /\ Len(TagsIn(y)) = Cardinality(At(ts, {a}))
    BY <1>6, <1>8, <1>10, <2>1
  <2>3. a \notin as /\ First(k + 1) = as \union {a}
    <3>1. \A i \in 1..k : i \in 1..n /\ i # k + 1
      BY <1>1
    <3>2. a \notin as
      BY <1>2, <2>1, <3>1
    <3>3. \A i : i \in 1..(k + 1) <=> i \in 1..k \/ i = k + 1
      BY <2>1
    <3>4. First(k + 1) = as \union {a}
      BY <3>3
    <3> QED
      BY <3>2, <3>4
  <2> HIDE DEF x, y, a, as
  <2>4. Cardinality(At(ts, as \union {a})) = Cardinality(At(ts, as)) + Cardinality(At(ts, {a}))
    BY <2>3, AtFacts
  <2>5. x \in Seq(RangeRecords(T)) /\ y \in Seq(RangeRecords(T))
        /\ TagsIn(x) \in Seq(T) /\ TagsIn(y) \in Seq(T)
    BY <2>2, TagsInType DEF G
  <2>6. TagsIn(x \o y) = TagsIn(x) \o TagsIn(y)
    BY <2>5, TagsInConcat
  <2>7. Len(TagsIn(x \o y)) = Len(TagsIn(x)) + Len(TagsIn(y))
    BY <2>5, <2>6, ConcatProperties
  <2>8. size[k + 1] = Len(TagsIn(x \o y)) /\ size[k] = Len(TagsIn(x))
    BY <2>1, <2>2 DEF x
  <2>9. count[k + 1] = Cardinality(At(ts, as \union {a})) /\ count[k] = Cardinality(At(ts, as))
    <3> HIDE DEF First
    <3> QED
      BY <2>1, <2>3 DEF as
  <2> QED
    BY <1>12, <2>2, <2>4, <2>7, <2>8, <2>9
<1> HIDE DEF size, count
<1>13. \A k \in 0..n : size[k] = count[k]
  <2>1. \A k \in 0..(n - 1) : size[k] = count[k] => size[k + 1] = count[k + 1]
    BY <1>12
  <2> QED
    BY <1>1, <1>11, <2>1, SameSteps
<1>14. Len(TagsIn(rs)) = Cardinality(At(ts, First(n)))
  <2>1. n \in 0..n
    BY <1>1
  <2>2. size[n] = Len(TagsIn(f[n])) /\ count[n] = Cardinality(At(ts, First(n)))
    BY <2>1 DEF size, count
  <2> QED
    BY <1>9, <1>13, <2>1, <2>2
<1>15. Cardinality(At(ts, First(n))) <= Len(ts)
  <2> HIDE DEF First
  <2> QED
    BY AtBound
<1>16. rs \in Seq(G)
  BY <1>1, <1>8, <1>9
<1> QED
  BY <1>14, <1>15, <1>16 DEF G

\* The points of a chunk are true of its tags, one for one.
LEMMA ChunkPointsFacts ==
  ASSUME NEW T, NEW rs \in Seq(GoodRanges(T)), NEW refused
  PROVE  /\ ChunkPoints(rs, refused) \in Seq(UNION {PointsOf(T, t) : t \in T})
         /\ Len(ChunkPoints(rs, refused)) = Len(TagsIn(rs))
<1> DEFINE P == UNION {PointsOf(T, t) : t \in T}
           n == Len(rs)
           pp == [k \in DOMAIN rs |-> IF k \in refused THEN BadPoints(rs[k].tags)
                                      ELSE RangePoints(rs[k])]
           tt == [k \in DOMAIN rs |-> rs[k].tags]
<1>1. n \in Nat /\ DOMAIN rs = 1..n /\ \A k \in 1..n : rs[k] \in GoodRanges(T)
  <2> DEFINE G == GoodRanges(T)
  <2>1. rs \in Seq(G)
    OBVIOUS
  <2> HIDE DEF G
  <2>2. n \in Nat /\ DOMAIN rs = 1..n /\ \A k \in 1..n : rs[k] \in G
    BY <2>1
  <2> QED
    BY <2>2 DEF G
<1> HIDE DEF P, n
<1>2. ASSUME NEW k \in 1..n
      PROVE  /\ pp[k] \in Seq(P) /\ Len(pp[k]) = Len(rs[k].tags)
             /\ tt[k] = rs[k].tags
  <2> DEFINE r == rs[k]
  <2>1. r \in RangeRecords(T) /\ RangeOk(r)
    BY <1>1 DEF GoodRanges
  <2>2. pp[k] = (IF k \in refused THEN BadPoints(r.tags) ELSE RangePoints(r)) /\ tt[k] = r.tags
    BY <1>1
  <2> HIDE DEF r, pp, tt
  <2>3. r.tags \in Seq(T)
    BY <2>1 DEF RangeRecords
  <2>4. BadPoints(r.tags) \in Seq(P) /\ Len(BadPoints(r.tags)) = Len(r.tags)
    BY <2>3, BadPointsFacts DEF P
  <2>5. RangePoints(r) \in Seq(P) /\ Len(RangePoints(r)) = Len(r.tags)
    BY <2>1, RangePointsFacts DEF P
  <2> QED
    BY <2>2, <2>4, <2>5 DEF r
<1>3. tt \in Seq(Seq(T)) /\ Len(tt) = n
  BY TagsInType, TagsInFacts DEF n
<1>4. pp \in Seq(Seq(P)) /\ Len(pp) = n
  <2>1. pp = [k \in 1..n |-> pp[k]]
    BY <1>1
  <2> HIDE DEF pp
  <2>2. \A k \in 1..n : pp[k] \in Seq(P)
    BY <1>2
  <2> QED
    BY <1>1, <2>1, <2>2
<1>5. ChunkPoints(rs, refused) = FlattenSeq(pp) /\ TagsIn(rs) = FlattenSeq(tt)
  BY DEF ChunkPoints, TagsIn
<1>6. \A k \in 1..Len(tt) : Len(pp[k]) = Len(tt[k])
  BY <1>2, <1>3
<1> HIDE DEF pp, tt
<1>7. FlattenSeq(pp) \in Seq(P)
  BY <1>4, FlattenMembers
<1>8. Len(FlattenSeq(pp)) = Len(FlattenSeq(tt))
  BY <1>3, <1>4, <1>6, FlattenLength
<1> QED
  BY <1>5, <1>7, <1>8 DEF P

\* What is sent in one request, and what is left for the next ones.
LEMMA ChunkConcat ==
  ASSUME NEW T, NEW s \in Seq(T)
  PROVE  /\ Chunk(s) \in Seq(T) /\ Rest(s) \in Seq(T)
         /\ s = Chunk(s) \o Rest(s)
<1> DEFINE c == Chunk(s)
           r == Rest(s)
<1>1. /\ c \in Seq(T) /\ r \in Seq(T) /\ Len(s) = Len(c) + Len(r)
      /\ \A k \in 1..Len(c) : c[k] = s[k]
      /\ \A k \in 1..Len(r) : r[k] = s[Len(c) + k]
  BY ChunkFacts
<1> HIDE DEF c, r
<1> DEFINE x == c \o r
<1>2. /\ x \in Seq(T) /\ Len(x) = Len(c) + Len(r)
      /\ \A i \in 1 .. Len(c) + Len(r) : x[i] = IF i <= Len(c) THEN c[i] ELSE r[i - Len(c)]
  BY <1>1, ConcatProperties
<1> HIDE DEF x
<1>3. Len(c) \in Nat /\ Len(r) \in Nat
  BY <1>1
<1>4. ASSUME NEW i \in 1..Len(s) PROVE s[i] = x[i]
  <2>1. CASE i <= Len(c)
    BY <1>1, <1>2, <1>3, <2>1
  <2>2. CASE ~(i <= Len(c))
    <3>1. i - Len(c) \in 1..Len(r) /\ Len(c) + (i - Len(c)) = i
      BY <1>1, <1>3, <2>2
    <3> QED
      BY <1>1, <1>2, <1>3, <2>2, <3>1
  <2> QED
    BY <2>1, <2>2
<1>5. s = x
  BY <1>1, <1>2, <1>4, SeqEqual
<1> QED
  BY <1>1, <1>5 DEF c, r, x

\* The tags in another order are the same tags.
LEMMA ShuffleFacts ==
  ASSUME NEW T, NEW s \in Seq(T), NEW at \in SetToSeqs(DOMAIN s), Distinct(s)
  PROVE  /\ Pick(s, at) \in Seq(T) /\ Len(Pick(s, at)) = Len(s)
         /\ Distinct(Pick(s, at)) /\ AreasOf(Pick(s, at)) = AreasOf(s)
<1> DEFINE n == Len(s)
           x == Pick(s, at)
<1>1. n \in Nat /\ DOMAIN s = 1..n /\ IsFiniteSet(1..n) /\ Cardinality(1..n) = n
  <2>1. n \in Nat /\ DOMAIN s = 1..n
    OBVIOUS
  <2> QED
    BY <2>1, FS_Interval
<1> HIDE DEF n
<1>2. at \in [1..n -> 1..n] /\ \A i, j \in 1..n : i # j => at[i] # at[j]
  BY <1>1 DEF SetToSeqs
<1>3. at \in Injection(1..n, 1..n)
  BY <1>2 DEF Injection, IsInjective
<1>4. at \in Bijection(1..n, 1..n)
  <2>1. at \in Surjection(1..n, 1..n)
    BY <1>1, <1>3, FS_Injection
  <2> QED
    BY <1>3, <2>1 DEF Bijection
<1>5. /\ x \in Seq(T) /\ Len(x) = n /\ ToSet(x) = ToSet(s)
      /\ \A k \in 1..n : at[k] \in 1..n /\ x[k] = s[at[k]]
  BY <1>4, PickAll DEF n
<1> HIDE DEF x
<1>6. DOMAIN x = 1..n
  BY <1>5
<1>7. Distinct(x)
  <2> SUFFICES ASSUME NEW i \in 1..n, NEW j \in 1..n, i # j
               PROVE  x[i].id # x[j].id
    BY <1>6 DEF Distinct
  <2>1. at[i] \in DOMAIN s /\ at[j] \in DOMAIN s /\ at[i] # at[j]
    BY <1>1, <1>2
  <2>2. s[at[i]].id # s[at[j]].id
    BY <2>1 DEF Distinct
  <2> QED
    BY <1>5, <2>2
<1>8. AreasOf(x) = AreasOf(s)
  <2>1. AreasOf(x) = {t.area : t \in ToSet(x)} /\ AreasOf(s) = {t.area : t \in ToSet(s)}
    BY DEF AreasOf, ToSet
  <2> QED
    BY <1>5, <2>1
<1> QED
  BY <1>5, <1>7, <1>8 DEF n, x

\* The ranges of the optimized read hold no more tags than were asked for.
LEMMA OptimizeStep ==
  ASSUME JobInv, ReadInv, Optimize
  PROVE  ReadInv'
<1>1. /\ pc = "optimized" /\ pc' = "chunks"
      /\ \A k \in DOMAIN job.tags : Parses(job.tags[k])
      /\ UNCHANGED <<job, left, partial, points>>
  BY DEF Optimize
<1>2. PICK order \in SetToSeqs(AreasOf(job.tags)), at \in SetToSeqs(DOMAIN job.tags) :
        unsent' = FlattenSeq([k \in DOMAIN order |->
                                 Ranges(OfArea(Pick(job.tags, at), order[k]))])
  BY DEF Optimize
<1>3. PointTypes /\ points = <<>> /\ partial = <<>> /\ job.kind = "s7" /\ Distinct(job.tags)
  BY <1>1, StageFacts DEF ReadInv, JobInv
<1> DEFINE T == JobTags
           ts == Pick(job.tags, at)
<1>4. /\ ts \in Seq(T) /\ Len(ts) = Len(job.tags) /\ \A t \in T : Sane(t)
      /\ Distinct(ts) /\ AreasOf(ts) = AreasOf(job.tags)
  <2>1. ASSUME NEW t \in T PROVE Sane(t)
    <3>1. PICK k \in 1..Len(job.tags) : t = job.tags[k]
      BY JobFacts
    <3>2. k \in DOMAIN job.tags
      BY <3>1, JobFacts
    <3> QED
      BY <1>1, <1>3, <3>1, <3>2, JobFacts DEF Sane
  <2> QED
    BY <1>2, <1>3, <2>1, JobFacts, ShuffleFacts
<1> DEFINE rs == unsent'
<1>5. rs = FlattenSeq([k \in DOMAIN order |-> Ranges(OfArea(ts, order[k]))])
  BY <1>2
<1>6. order \in SetToSeqs(AreasOf(ts))
  BY <1>2, <1>4
<1> HIDE DEF T, ts, rs
<1>7. rs \in Seq(GoodRanges(T)) /\ Len(TagsIn(rs)) <= Len(ts)
  BY <1>4, <1>5, <1>6, OptimizedRanges
<1>8. Len(TagsIn(rs)) \in Nat /\ Len(ts) \in Nat /\ Len(ts) = Len(job.tags)
  BY <1>4, <1>7, TagsInType
<1>9. JobTags' = JobTags /\ TruePoints' = TruePoints
  BY <1>1 DEF JobTags, TruePoints
<1>10. Len(partial) + Len(TagsIn(rs)) <= Len(ts)
  <2>1. Len(partial) = 0
    BY <1>3
  <2> QED
    BY <1>7, <1>8, <2>1
<1>11. PointTypes'
  BY <1>1, <1>3, <1>9 DEF PointTypes
<1>12. ChunksInv'
  BY <1>1, <1>3, <1>7, <1>8, <1>9, <1>10 DEF ChunksInv, T, rs
<1> QED
  BY <1>1, <1>11, <1>12 DEF ReadInv

\* A request for a chunk of ranges yields a point for each of their tags.
LEMMA ReadChunkStep ==
  ASSUME JobInv, ReadInv, ReadChunk
  PROVE  ReadInv'
<1>1. /\ pc = "chunks" /\ unsent' = Rest(unsent)
      /\ UNCHANGED <<job, pc, left, points>>
  BY DEF ReadChunk
<1>2. PICK refused : partial' = partial \o ChunkPoints(Chunk(unsent), refused)
  BY DEF ReadChunk
<1>3. PointTypes /\ ChunksInv
  BY <1>1 DEF ReadInv
<1> DEFINE T == JobTags
           P == TruePoints
           G == GoodRanges(T)
           c == Chunk(unsent)
           r == Rest(unsent)
           new == ChunkPoints(c, refused)
<1>4. unsent \in Seq(G)
  BY <1>3 DEF ChunksInv
<1> HIDE DEF G
<1>5. c \in Seq(G) /\ r \in Seq(G) /\ unsent = c \o r
  BY <1>4, ChunkConcat
<1> HIDE DEF c, r, T
<1>6. /\ c \in Seq(RangeRecords(T)) /\ TagsIn(c) \in Seq(T) /\ Len(TagsIn(c)) \in Nat
      /\ r \in Seq(RangeRecords(T)) /\ TagsIn(r) \in Seq(T) /\ Len(TagsIn(r)) \in Nat
  BY <1>5, TagsInType DEF G
<1>7. Len(TagsIn(unsent)) = Len(TagsIn(c)) + Len(TagsIn(r))
  <2>1. TagsIn(c \o r) = TagsIn(c) \o TagsIn(r)
    BY <1>6, TagsInConcat
  <2>2. Len(TagsIn(c) \o TagsIn(r)) = Len(TagsIn(c)) + Len(TagsIn(r))
    BY <1>6, ConcatProperties
  <2> QED
    BY <1>5, <2>1, <2>2
<1>8. new \in Seq(P) /\ Len(new) = Len(TagsIn(c))
  <2>1. P = UNION {PointsOf(T, t) : t \in T}
    BY DEF TruePoints, T
  <2> HIDE DEF P
  <2> QED
    BY <1>5, <2>1, ChunkPointsFacts DEF G
<1> HIDE DEF new, P
<1>9. partial \in Seq(P) /\ points \in Seq(P) /\ points = <<>> /\ Len(points) = 0
      /\ Len(partial) + Len(TagsIn(unsent)) <= Len(job.tags)
  BY <1>3 DEF PointTypes, ChunksInv, P
<1>10. partial \o new \in Seq(P) /\ Len(partial \o new) = Len(partial) + Len(new)
  <2>1. partial \in Seq(P) /\ new \in Seq(P)
    BY <1>8, <1>9
  <2> QED
    BY <2>1, ConcatProperties
<1>11. Len(partial) \in Nat /\ Len(new) \in Nat /\ Len(job.tags) \in Nat
  BY <1>8, <1>9, JobFacts
<1>12. partial' = partial \o new /\ unsent' = r
  BY <1>1, <1>2 DEF new, c, r
<1> DEFINE p == partial \o new
<1>13. p \in Seq(P) /\ Len(p) + Len(TagsIn(r)) <= Len(job.tags)
       /\ Len(p) + Len(points) <= Len(job.tags)
  BY <1>6, <1>7, <1>8, <1>9, <1>10, <1>11
<1> HIDE DEF p
<1>14. partial' = p
  BY <1>12 DEF p
<1>15. JobTags' = JobTags /\ TruePoints' = TruePoints
  BY <1>1 DEF JobTags, TruePoints
<1>16. PointTypes'
  BY <1>1, <1>3, <1>13, <1>14, <1>15 DEF PointTypes, P
<1>17. ChunksInv'
  BY <1>1, <1>5, <1>9, <1>12, <1>13, <1>14, <1>15 DEF ChunksInv, G, T
<1> QED
  BY <1>1, <1>16, <1>17 DEF ReadInv

\* The points of the optimized path, put in the order of the tags.
LEMMA AssembleStep ==
  ASSUME JobInv, ReadInv, Assemble
  PROVE  ReadInv'
<1>1. /\ pc = "chunks" /\ pc' = "done" /\ partial' = <<>>
      /\ points' = [k \in DOMAIN job.tags |-> PointOf(job.tags[k])]
      /\ UNCHANGED <<job, left>>
  BY DEF Assemble
<1>2. PointTypes /\ job.kind = "s7"
  BY <1>1, StageFacts DEF ReadInv
<1> DEFINE P == TruePoints
           n == Len(job.tags)
           p == [k \in DOMAIN job.tags |-> PointOf(job.tags[k])]
<1>3. /\ n \in Nat /\ DOMAIN job.tags = 1..n
      /\ \A k \in 1..n : job.tags[k] \in JobTags
  BY JobFacts
<1>4. partial \in Seq(P) /\ Len(partial) \in Nat /\ DOMAIN partial = 1..Len(partial)
  BY <1>2 DEF PointTypes
<1>5. ASSUME NEW t \in JobTags PROVE PointOf(t) \in P /\ PointOf(t).tag = t.id
  <2> DEFINE found == {k \in DOMAIN partial : partial[k].tag = t.id}
  <2>1. PointOf(t) = IF found = {} THEN Bad(t) ELSE partial[Max(found)]
    BY DEF PointOf
  <2>2. CASE found = {}
    <3>1. PointOf(t) = Bad(t)
      BY <2>1, <2>2
    <3>2. Bad(t) \in PointsOf(JobTags, t)
      BY DEF PointsOf
    <3> QED
      BY <3>1, <3>2, PointTag DEF TruePoints
  <2>3. CASE found # {}
    <3> DEFINE m == Len(partial)
    <3>1. m \in Nat /\ found \in SUBSET (1..m)
      BY <1>4
    <3> HIDE DEF found, m, P
    <3>2. Max(found) \in found
      BY <2>3, <3>1, MaxFacts
    <3>3. Max(found) \in DOMAIN partial /\ partial[Max(found)].tag = t.id
      BY <3>2 DEF found
    <3>4. partial[Max(found)] \in P
      BY <1>4, <3>3
    <3> QED
      BY <2>1, <2>3, <3>3, <3>4
  <2> QED
    BY <2>2, <2>3
<1> HIDE DEF P
<1>6. p = [k \in 1..n |-> PointOf(job.tags[k])]
  BY <1>3
<1> HIDE DEF n
<1>7. p \in Seq(P) /\ Len(p) = n /\ \A k \in 1..n : p[k].tag = job.tags[k].id
  <2>1. \A k \in 1..n : PointOf(job.tags[k]) \in P /\ PointOf(job.tags[k]).tag = job.tags[k].id
    BY <1>3, <1>5
  <2> HIDE DEF p
  <2> QED
    BY <1>3, <1>6, <2>1
<1> HIDE DEF p
<1>8. points' = p
  BY <1>1 DEF p
<1>9. JobTags' = JobTags /\ TruePoints' = TruePoints
  BY <1>1 DEF JobTags, TruePoints
<1>10. PointTypes'
  <2>1. <<>> \in Seq(TruePoints) /\ Len(<<>>) + Len(p) <= n
    BY <1>3, <1>7
  <2> QED
    BY <1>1, <1>2, <1>7, <1>8, <1>9, <2>1 DEF PointTypes, P, n
<1>11. Answers'
  BY <1>1, <1>2, <1>7, <1>8 DEF Answers, n
<1> QED
  BY <1>1, <1>10, <1>11 DEF ReadInv

\* What the single reads return for a tag is true of it.
LEMMA ReadTagTrue ==
  ASSUME NEW T, NEW t, IsS7Tag(t), NEW outcome \in Qualities
  PROVE  ReadTag(t, outcome) \in PointsOf(T, t)
<1>1. CASE outcome = "nil"
  BY <1>1 DEF ReadTag, PointsOf
<1>2. CASE outcome = "good" /\ Parses(t)
  <2>1. t.area \in DataBlocks \union {"I"}
    BY <1>2 DEF IsS7Tag, Parses
  <2>2. AreaOfRequest(t) = t.area
    BY <2>1 DEF AreaOfRequest
  <2>3. ReadTag(t, outcome) = Good(t, t.area, Place(t).cells)
    BY <1>2, <2>2 DEF ReadTag
  <2>4. Place(t).area = t.area
    BY DEF Place
  <2> QED
    BY <2>3, <2>4 DEF PointsOf
<1>3. CASE outcome # "nil" /\ ~(outcome = "good" /\ Parses(t))
  BY <1>3 DEF ReadTag, PointsOf
<1> QED
  BY <1>1, <1>2, <1>3

\* What the batch of items returns is true but for a bool at another bit than 0.
LEMMA ItemPointTrue ==
  ASSUME NEW T, NEW t, IsS7Read(t), Parses(t)
  PROVE  ItemPoint(t) \in PointsOf(T, t)
<1>1. Place(t).area = t.area
  BY DEF Place
<1>2. CASE t.bit
  <2>1. ItemPoint(t) = Good(t, t.area, <<Spoiled>>)
    BY <1>1, <1>2 DEF ItemPoint
  <2>2. <<Spoiled>> \in Seq(Int)
    BY DEF Spoiled
  <2>3. t.area \notin Registers /\ t.area \notin Coils
    BY DEF IsS7Read, IsS7Tag, Parses, DataBlocks, Registers, Coils
  <2>4. Wrong(T, t)
    BY <1>2, <2>3 DEF Wrong
  <2>5. Good(t, t.area, <<Spoiled>>) \in {Good(t, t.area, c) : c \in Seq(Int)}
    BY <2>2
  <2> QED
    BY <2>1, <2>4, <2>5 DEF PointsOf
<1>3. CASE ~t.bit
  <2>1. ItemPoint(t) = Good(t, Place(t).area, Place(t).cells)
    BY <1>3 DEF ItemPoint
  <2> QED
    BY <2>1 DEF PointsOf
<1> QED
  BY <1>2, <1>3

\* The points that a step of the fallback adds, one for each tag of the chunk.
LEMMA FallbackResult ==
  ASSUME JobInv, ReadInv, ReadBatch \/ ReadEach
  PROVE  /\ pc = "fallback" /\ FallbackInv
         /\ \E result \in Seq(TruePoints) :
              /\ FallbackAdds(result) /\ Len(result) = Len(Chunk(unsent))
              /\ \A k \in 1..Len(result) : result[k].tag = Chunk(unsent)[k].id
<1> DEFINE c == Chunk(unsent)
           n == Len(c)
<1>1. pc = "fallback" /\ FallbackInv
  BY DEF ReadBatch, ReadEach, FallingBack, ReadInv
<1>2. job.kind = "s7" /\ \A t \in JobTags : IsS7Tag(t) /\ IsS7Read(t)
  BY <1>1, StageFacts, JobFacts
<1>3. c \in Seq(JobTags)
  <2> DEFINE T == JobTags
  <2>1. unsent \in Seq(T)
    BY <1>1 DEF FallbackInv
  <2> HIDE DEF T, c
  <2>2. Chunk(unsent) \in Seq(T)
    BY <2>1, ChunkConcat
  <2> QED
    BY <2>2 DEF T, c
<1> HIDE DEF c
<1>4. n \in Nat /\ DOMAIN c = 1..n /\ \A k \in 1..n : c[k] \in JobTags
  BY <1>3
<1>5. PICK result : /\ FallbackAdds(result)
                    /\ result = [k \in 1..n |-> result[k]]
                    /\ \A k \in 1..n : result[k] \in PointsOf(JobTags, c[k])
  <2>1. CASE ReadBatch
    <3>0. \A k \in 1..n : Parses(c[k])
      BY <1>4, <2>1 DEF ReadBatch, c
    <3>1. PICK refused : FallbackAdds([k \in DOMAIN c |->
             IF k \in refused THEN Bad(c[k]) ELSE ItemPoint(c[k])])
      BY <2>1 DEF ReadBatch, c
    <3> DEFINE f == [k \in DOMAIN c |-> IF k \in refused THEN Bad(c[k])
                                        ELSE ItemPoint(c[k])]
    <3>2. f = [k \in 1..n |-> f[k]]
      BY <1>4
    <3>3. \A k \in 1..n : f[k] \in PointsOf(JobTags, c[k])
      <4> SUFFICES ASSUME NEW k \in 1..n, k \notin refused PROVE f[k] \in PointsOf(JobTags, c[k])
        BY <1>4 DEF PointsOf
      <4>1. f[k] = ItemPoint(c[k]) /\ c[k] \in JobTags
        BY <1>4
      <4> QED
        BY <1>2, <3>0, <4>1, ItemPointTrue
    <3>4. FallbackAdds(f)
      BY <3>1
    <3> HIDE DEF f
    <3> QED
      BY <3>2, <3>3, <3>4
  <2>2. CASE ReadEach
    <3>1. PICK outcome \in [DOMAIN c -> Qualities] :
            FallbackAdds([k \in DOMAIN c |-> ReadTag(c[k], outcome[k])])
      BY <2>2 DEF ReadEach, c
    <3> DEFINE f == [k \in DOMAIN c |-> ReadTag(c[k], outcome[k])]
    <3>2. f = [k \in 1..n |-> f[k]]
      BY <1>4
    <3>3. \A k \in 1..n : f[k] = ReadTag(c[k], outcome[k]) /\ outcome[k] \in Qualities
      BY <1>4
    <3>4. FallbackAdds(f)
      BY <3>1
    <3> HIDE DEF f
    <3>5. \A k \in 1..n : f[k] \in PointsOf(JobTags, c[k])
      BY <1>2, <1>4, <3>3, ReadTagTrue
    <3> QED
      BY <3>2, <3>4, <3>5
  <2> QED
    BY <2>1, <2>2
<1> DEFINE P == TruePoints
<1>6. \A k \in 1..n : result[k] \in P /\ result[k].tag = c[k].id
  BY <1>4, <1>5, PointTag DEF TruePoints
<1> HIDE DEF P, n
<1>7. result \in Seq(P) /\ Len(result) = n
  BY <1>4, <1>5, <1>6
<1> QED
  BY <1>1, <1>5, <1>6, <1>7 DEF P, n, c

\* The fallback has one point for each tag that it has sent, in their order.
LEMMA FallbackStep ==
  ASSUME JobInv, ReadInv, ReadBatch \/ ReadEach
  PROVE  ReadInv'
<1>1. pc = "fallback" /\ FallbackInv /\ PointTypes
  BY FallbackResult DEF ReadInv
<1> DEFINE T == JobTags
           P == TruePoints
           c == Chunk(unsent)
           r == Rest(unsent)
<1>2. PICK result \in Seq(P) :
        /\ FallbackAdds(result) /\ Len(result) = Len(c)
        /\ \A k \in 1..Len(result) : result[k].tag = c[k].id
  BY FallbackResult
<1>3. points' = points \o result /\ unsent' = r /\ UNCHANGED <<job, pc, left, partial>>
  BY <1>2 DEF FallbackAdds
<1>4. JobTags' = JobTags /\ TruePoints' = TruePoints
  BY <1>3 DEF JobTags, TruePoints
<1>5. /\ unsent \in Seq(T) /\ partial = <<>>
      /\ Len(points) + Len(unsent) = Len(job.tags)
      /\ \A k \in 1..Len(unsent) : unsent[k] = job.tags[Len(points) + k]
      /\ \A k \in 1..Len(points) : points[k].tag = job.tags[k].id
      /\ points \in Seq(P)
  BY <1>1 DEF FallbackInv, PointTypes
<1> HIDE DEF T, P, c, r
<1>6. /\ c \in Seq(T) /\ r \in Seq(T) /\ Len(unsent) = Len(c) + Len(r)
      /\ \A k \in 1..Len(c) : c[k] = unsent[k]
      /\ \A k \in 1..Len(r) : r[k] = unsent[Len(c) + k]
  BY <1>5, ChunkFacts DEF c, r
<1> DEFINE p == points \o result
           n == Len(points)
           m == Len(c)
<1>7. /\ p \in Seq(P) /\ Len(p) = Len(points) + Len(result)
      /\ \A i \in 1 .. Len(points) + Len(result) :
            p[i] = IF i <= Len(points) THEN points[i] ELSE result[i - Len(points)]
  <2>1. points \in Seq(P) /\ result \in Seq(P)
    BY <1>2, <1>5
  <2> QED
    BY <2>1, ConcatProperties
<1>8. n \in Nat /\ m \in Nat /\ Len(r) \in Nat /\ Len(result) = m /\ Len(partial) = 0
  BY <1>2, <1>5, <1>6
<1> HIDE DEF p
<1>9. Len(p) = n + m /\ Len(p) + Len(r) = Len(job.tags) /\ Len(p) <= Len(job.tags)
  BY <1>5, <1>6, <1>7, <1>8
<1>10. ASSUME NEW k \in 1..Len(r) PROVE r[k] = job.tags[Len(p) + k]
  <2>1. m + k \in 1..Len(unsent) /\ n + (m + k) = Len(p) + k
    BY <1>6, <1>8, <1>9
  <2> QED
    BY <1>5, <1>6, <2>1
<1>11. ASSUME NEW k \in 1..Len(p) PROVE p[k].tag = job.tags[k].id
  <2>1. CASE k <= n
    <3>1. k \in 1..n /\ k \in 1..n + Len(result)
      BY <1>8, <1>9, <2>1
    <3>2. p[k] = points[k]
      BY <1>7, <2>1, <3>1
    <3>3. points[k].tag = job.tags[k].id
      BY <1>5, <3>1
    <3> QED
      BY <3>2, <3>3
  <2>2. CASE ~(k <= n)
    <3>1. k - n \in 1..m /\ k - n \in 1..Len(unsent) /\ n + (k - n) = k
      BY <1>6, <1>8, <1>9, <2>2
    <3>2. p[k] = result[k - n]
      BY <1>7, <1>8, <1>9, <2>2
    <3>3. result[k - n].tag = c[k - n].id /\ c[k - n] = unsent[k - n] /\ unsent[k - n] = job.tags[k]
      BY <1>2, <1>5, <1>6, <1>8, <3>1
    <3> QED
      BY <3>2, <3>3
  <2> QED
    BY <2>1, <2>2
<1>12. points' = p
  BY <1>3 DEF p
<1>13. PointTypes'
  <2>1. points' \in Seq(P) /\ partial' = partial /\ Len(partial) + Len(p) <= Len(job.tags)
    BY <1>3, <1>7, <1>8, <1>9, <1>12
  <2> QED
    BY <1>1, <1>3, <1>4, <1>12, <2>1 DEF PointTypes, P
<1>14. FallbackInv'
  BY <1>3, <1>4, <1>5, <1>6, <1>9, <1>10, <1>11, <1>12 DEF FallbackInv, T
<1> QED
  BY <1>1, <1>3, <1>13, <1>14 DEF ReadInv

\* The fallback ends with a point for every tag, or with an error.
LEMMA FallbackDoneStep ==
  ASSUME JobInv, ReadInv, FallbackDone
  PROVE  ReadInv'
<1>1. /\ pc = "fallback" /\ pc' = "done" /\ failed' = (unsent # <<>>)
      /\ UNCHANGED <<job, left, partial, points>>
  BY DEF FallbackDone
<1>2. FallbackInv /\ PointTypes /\ job.kind = "s7"
  BY <1>1, StageFacts DEF ReadInv
<1>3. JobTags' = JobTags /\ TruePoints' = TruePoints
  BY <1>1 DEF JobTags, TruePoints
<1>4. PointTypes'
  BY <1>1, <1>2, <1>3 DEF PointTypes
<1>5. CASE unsent = <<>>
  <2>1. Len(unsent) = 0 /\ Len(points) \in Nat
    BY <1>2, <1>5 DEF PointTypes
  <2>2. Len(points) = Len(job.tags)
    BY <1>2, <2>1 DEF FallbackInv
  <2>3. Answers'
    BY <1>1, <1>2, <2>2 DEF Answers, FallbackInv
  <2> QED
    BY <1>1, <1>4, <2>3 DEF ReadInv
<1>6. CASE unsent # <<>>
  <2>1. failed'
    BY <1>1, <1>6, Zenon
  <2> QED
    BY <1>1, <1>4, <2>1 DEF ReadInv
<1> QED
  BY <1>5, <1>6

\* What leaves the call's points alone: a write, a call that is not
\* connected, the end of the context.
LEMMA OtherSteps ==
  ASSUME JobInv, ReadInv, S7Write \/ NotConnected \/ ContextEnds \/ UNCHANGED callVars
  PROVE  ReadInv'
<1>1. UNCHANGED <<job, left, partial, points>>
  BY DEF S7Write, SplitWrites, WriteChunk, WriteChunkFails, WritingBatches, Settle, WritesCut,
         WriteBool, WriteBoolFails, NextBool, WritesDone, NotConnected, ContextEnds, callVars
<1>2. JobTags' = JobTags /\ TruePoints' = TruePoints
  BY <1>1 DEF JobTags, TruePoints
<1>3. PointTypes'
  BY <1>1, <1>2 DEF PointTypes, ReadInv
<1>4. CASE S7Write
  <2>1. pc \in {"split", "writes"}
    BY <1>4 DEF S7Write, SplitWrites, WriteChunk, WriteChunkFails, WritingBatches, WritesCut,
                WriteBool, WriteBoolFails, WritesDone
  <2>2. pc' \in {"writes", "done"}
    BY <1>4 DEF S7Write, SplitWrites, WriteChunk, WriteChunkFails, WritingBatches, Settle,
                WritesCut, WriteBool, WriteBoolFails, NextBool, WritesDone
  <2>3. job.kind = "write"
    BY <2>1, StageFacts
  <2> QED
    BY <1>1, <1>3, <2>2, <2>3 DEF ReadInv
<1>5. CASE NotConnected
  <2>1. pc \in {"optimized", "split"} /\ pc' = "done" /\ failed' = (job.kind = "s7")
    BY <1>5 DEF NotConnected
  <2>2. job.kind = "write" \/ job.kind = "s7"
    BY <2>1, StageFacts
  <2>3. job.kind = "s7" => failed'
    BY <2>1, Zenon
  <2> QED
    BY <1>1, <1>3, <2>1, <2>2, <2>3 DEF ReadInv
<1>6. CASE ContextEnds \/ UNCHANGED callVars
  <2>1. UNCHANGED <<pc, group, unsent, failed>>
    BY <1>6 DEF ContextEnds, callVars
  <2>2. /\ GroupsInv' = GroupsInv /\ ChunksInv' = ChunksInv /\ FallbackInv' = FallbackInv
        /\ Answers' = Answers
    BY <1>1, <1>2, <2>1 DEF GroupsInv, ChunksInv, FallbackInv, Answers
  <2> QED
    BY <1>1, <1>3, <2>1, <2>2 DEF ReadInv
<1> QED
  BY <1>4, <1>5, <1>6

\* Every step keeps the invariant of the reads.
LEMMA ReadStep == JobInv /\ ReadInv /\ [CallNext]_callVars => ReadInv'
<1> SUFFICES ASSUME JobInv, ReadInv, [CallNext]_callVars PROVE ReadInv'
  OBVIOUS
<1>1. CASE TakeGroup
  BY <1>1, TakeGroupStep
<1>2. CASE ReadRange \/ RangeFails
  BY <1>2, NextRangeStep
<1>3. CASE GroupDone \/ CutGroup
  BY <1>3, GroupReturnsStep
<1>4. CASE ModbusDone
  BY <1>4, ModbusDoneStep
<1>5. CASE Optimize
  BY <1>5, OptimizeStep
<1>6. CASE CannotOptimize \/ ChunkFails
  BY <1>6, FallBackStep DEF CannotOptimize, ChunkFails
<1>7. CASE ReadChunk
  BY <1>7, ReadChunkStep
<1>8. CASE Assemble
  BY <1>8, AssembleStep
<1>9. CASE ReadBatch \/ ReadEach
  BY <1>9, FallbackStep
<1>10. CASE FallbackDone
  BY <1>10, FallbackDoneStep
<1>11. CASE S7Write \/ NotConnected \/ ContextEnds \/ UNCHANGED callVars
  BY <1>11, OtherSteps
<1> QED
  BY <1>1, <1>2, <1>3, <1>4, <1>5, <1>6, <1>7, <1>8, <1>9, <1>10, <1>11
     DEF CallNext, Modbus, S7Read

\* The call starts with nothing read.
LEMMA ReadInitFacts == CallInit => ReadInv
<1> SUFFICES ASSUME CallInit PROVE ReadInv
  OBVIOUS
<1>1. /\ group = <<>> /\ unsent = <<>> /\ partial = <<>> /\ points = <<>>
      /\ left \subseteq AreasOf(job.tags)
      /\ pc = "groups" => left = AreasOf(job.tags)
      /\ pc \in {"groups", "optimized", "split"}
  BY DEF CallInit, Start
<1>2. JobInv
  BY CallInitFacts
<1> DEFINE ts == job.tags
           n == Len(ts)
<1>3. n \in Nat /\ ts \in Seq(JobTags) /\ DOMAIN ts = 1..n
  BY <1>2, JobFacts
<1>4. PointTypes
  <2>1. <<>> \in Seq(TruePoints) /\ Len(<<>>) + Len(<<>>) <= n
    BY <1>3
  <2> QED
    BY <1>1, <2>1 DEF PointTypes
<1>5. ASSUME pc = "groups" PROVE GroupsInv
  <2>1. left = AreasOf(ts)
    BY <1>1, <1>5
  <2>2. At(ts, left) = 1..n
    BY <1>3, <2>1 DEF At, AreasOf
  <2>3. Cardinality(At(ts, left)) = n
    <3> HIDE DEF n, ts
    <3>1. Cardinality(1..n) = n
      BY <1>3, FS_Interval
    <3> QED
      BY <2>2, <3>1
  <2>4. group \in Seq(JobTags) /\ unsent \in Seq(GoodRanges(JobTags)) /\ ToSet(group) = {}
        /\ Len(group) = 0 /\ Len(points) = 0 /\ Len(partial) = 0
    BY <1>1 DEF ToSet
  <2>5. TagsIn(unsent) = <<>>
    BY <1>1, TagsInEmpty
  <2>6. Len(partial) + Len(TagsIn(unsent)) = Len(group)
    BY <2>4, <2>5
  <2>7. Len(points) + Len(group) + Cardinality(At(ts, left)) = n
    BY <1>3, <2>3, <2>4
  <2>8. \A t \in JobTags : t.area \in left
    <3> SUFFICES ASSUME NEW t \in JobTags PROVE t.area \in left
      OBVIOUS
    <3>1. PICK k \in 1..n : t = ts[k]
      BY <1>2, JobFacts
    <3> QED
      BY <1>3, <2>1, <3>1 DEF AreasOf
  <2> QED
    BY <2>4, <2>6, <2>7, <2>8 DEF GroupsInv
<1> QED
  BY <1>1, <1>4, <1>5 DEF ReadInv

\* What the invariant says of the call.
LEMMA ReadGood == JobInv /\ ReadInv => GoodPointsAreTrue
<1> SUFFICES ASSUME JobInv, ReadInv, NEW k \in DOMAIN points, points[k].quality = "good"
             PROVE  \E i \in DOMAIN job.tags :
                       /\ points[k].tag = job.tags[i].id
                       /\ points[k].value = Place(job.tags[i]) \/ Misread(job.tags[i])
  BY DEF GoodPointsAreTrue
<1>1. points \in Seq(TruePoints)
  BY DEF ReadInv, PointTypes
<1>2. PICK t \in JobTags : points[k] \in PointsOf(JobTags, t)
  <2> DEFINE P == TruePoints
  <2>1. points[k] \in P
    <3> HIDE DEF P
    <3> QED
      BY <1>1 DEF P
  <2> QED
    BY <2>1 DEF TruePoints
<1>3. points[k].tag = t.id /\ (points[k].value = Place(t) \/ Wrong(JobTags, t))
  BY <1>2, PointTag
<1>4. PICK i \in 1..Len(job.tags) : t = job.tags[i]
  BY JobFacts
<1>5. Wrong(JobTags, t) => Misread(t)
  <2>1. CASE job.kind = "modbus"
    <3>1. IsModbusTag(t)
      BY <1>4, <2>1, JobFacts DEF JobInv
    <3>2. t.area \in Coils => t.area \notin Registers
      BY DEF Coils, Registers
    <3>3. Wrong(JobTags, t) => \E u \in JobTags : Disturbs(u, t)
      BY <3>1, <3>2 DEF IsModbusTag, Wrong
    <3> QED
      BY <2>1, <3>3 DEF Misread, JobTags
  <2>2. CASE job.kind \in {"s7", "write"}
    <3>1. IsS7Tag(t)
      BY <1>4, <2>2, JobFacts DEF JobInv, IsS7Read, IsWrite
    <3>2. t.area \notin Registers
      BY <3>1 DEF IsS7Tag, DataBlocks, Registers, Unparsable
    <3> QED
      BY <2>2, <3>2 DEF Wrong, Misread
  <2> QED
    BY <2>1, <2>2 DEF JobInv, Kinds
<1> QED
  BY <1>3, <1>4, <1>5, JobFacts

\* Type correctness.
LEMMA ReadTypes == JobInv /\ FlagInv /\ WriteInv /\ ReadInv => CallTypeOK
<1> SUFFICES ASSUME JobInv, FlagInv, WriteInv, ReadInv PROVE CallTypeOK
  OBVIOUS
<1>1. PointTypes
  BY DEF ReadInv
<1>2. job.kind \in Kinds /\ pc \in {"groups", "optimized", "chunks", "fallback", "split", "writes", "done"}
  BY DEF JobInv, Stages, Kinds
<1>3. left \subseteq {job.tags[k].area : k \in DOMAIN job.tags}
  BY <1>1 DEF PointTypes, AreasOf
<1>4. ASSUME NEW k \in DOMAIN points
      PROVE  /\ points[k].quality \in Qualities
             /\ \E i \in DOMAIN job.tags : points[k].tag = job.tags[i].id
  <2> DEFINE P == TruePoints
  <2>1. points[k] \in P
    <3>1. points \in Seq(P)
      BY <1>1 DEF PointTypes
    <3> HIDE DEF P
    <3> QED
      BY <3>1
  <2>2. PICK t \in JobTags : points[k] \in PointsOf(JobTags, t)
    BY <2>1 DEF TruePoints
  <2>3. points[k].quality \in Qualities
    BY <2>2 DEF PointsOf, Good, Bad, Point, Qualities
  <2>4. points[k].tag = t.id
    BY <2>2, PointTag
  <2>5. PICK i \in 1..Len(job.tags) : t = job.tags[i]
    BY JobFacts
  <2> QED
    BY <2>3, <2>4, <2>5, JobFacts
<1>5. DOMAIN errs = (IF job.kind = "write" THEN DOMAIN job.tags ELSE {}) /\ applied \subseteq DOMAIN errs
  BY DEF WriteInv, WriteTypes
<1>6. {over, failed} \subseteq BOOLEAN
  BY DEF FlagInv
<1>7. Len(partial) + Len(points) <= Len(job.tags)
  BY <1>1 DEF PointTypes
<1> QED
  BY <1>2, <1>3, <1>4, <1>5, <1>6, <1>7 DEF CallTypeOK

\* One point for every tag.
LEMMA ReadAnswers == JobInv /\ ReadInv => OnePointPerTag
<1> SUFFICES ASSUME JobInv, ReadInv, pc = "done", job.kind # "write", ~failed
             PROVE  /\ Len(points) = Len(job.tags)
                    /\ \A i \in DOMAIN job.tags :
                         \/ points[i].quality = "nil"
                         \/ IF job.kind = "s7" THEN points[i].tag = job.tags[i].id
                            ELSE \E k \in DOMAIN points : points[k].tag = job.tags[i].id
  BY DEF OnePointPerTag
<1>1. Answers /\ points \in Seq(TruePoints)
  BY DEF ReadInv, PointTypes
<1>2. DOMAIN points = 1..Len(points) /\ DOMAIN job.tags = 1..Len(job.tags)
  BY <1>1, JobFacts
<1> QED
  BY <1>1, <1>2 DEF Answers, Answered

\* Requests are within the limits.
LEMMA RequestSizes == ReadInv => RequestsFit
<1> SUFFICES ASSUME ReadInv, pc \in {"groups", "chunks"}, NEW k \in DOMAIN unsent
             PROVE  \/ Quantity(unsent[k]) <= BatchLimits[Kind(unsent[k].area)].size
                    \/ \E i \in DOMAIN unsent[k].tags : Quantity(unsent[k]) = unsent[k].tags[i].count
  BY DEF RequestsFit
<1> DEFINE G == GoodRanges(JobTags)
<1>1. unsent \in Seq(G)
  BY DEF ReadInv, GroupsInv, ChunksInv
<1>2. unsent[k] \in G
  <2> HIDE DEF G
  <2> QED
    BY <1>1
<1>3. RangeOk(unsent[k])
  BY <1>2 DEF GoodRanges
<1> QED
  BY <1>3 DEF RangeOk

\* The invariant of a call.
CallInv == JobInv /\ FlagInv /\ WriteInv /\ ReadInv

\* The invariant holds throughout a call.
LEMMA CallInvariant == CallSpec => []CallInv
<1>1. CallInit => CallInv
  BY CallInitFacts, ReadInitFacts DEF CallInv
<1>2. CallInv /\ [CallNext]_callVars => CallInv'
  BY JobStep, WriteStep, ReadStep DEF CallInv
<1> QED
  BY <1>1, <1>2, PTL DEF CallSpec

\* Whatever the devices refuse and whenever the context ends, a read that returns
\* points returns one for every tag, each request is within its limit, and the
\* state has its types (ReadTags of both clients, buildContiguousRanges).
THEOREM ReadsSafe == CallSpec => []ReadSafe
<1>1. CallInv => ReadSafe
  BY ReadTypes, ReadAnswers, RequestSizes DEF CallInv, ReadSafe
<1> QED
  BY <1>1, CallInvariant, PTL

\* For every list of tags and every gap, size and address space, a good point of
\* ReadTags carries the cells of its own tag (readRegisterRange, readCoilRange,
\* readTagsOptimized and their S7 counterparts).
THEOREM TruthfulPoints == CallSpec => []GoodPointsAreTrue
<1>1. CallInv => GoodPointsAreTrue
  BY ReadGood DEF CallInv
<1> QED
  BY <1>1, CallInvariant, PTL
=============================================================================
