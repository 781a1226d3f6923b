-------------------------- MODULE ConfigSync_proofs --------------------------
(***************************************************************************)
(* Proofs about ConfigSync for every number of devices, tags, changes,     *)
(* restarts and lost connections: that the callbacks keep the services     *)
(* with the map, and that the map with the messages on the way applied is  *)
(* the database.                                                           *)
(***************************************************************************)
EXTENDS ConfigSync, DataInduction

\* TypeOK in the parts that the steps change.
CoreTypes ==
    /\ db \in Tables /\ used \subseteq Ids /\ changes \in Versions
    /\ \A p \in pending : p \in Ops
    \* The answer to a sync has the devices whose tags are still to be read.
    /\ \A p \in pending : p.op = "sync" => \A d \in p.left : p.rows[d] # None
    /\ orderly \in BOOLEAN
LinkTypes ==
    /\ coreUp \in BOOLEAN /\ linkUp \in BOOLEAN /\ subscribed \in BOOLEAN
    /\ drops \in 0 .. MaxEvents /\ restarts \in 0 .. MaxEvents
    /\ alive \in BOOLEAN /\ syncPc \in {"sleep", "sent"}
HandlerTypes ==
    /\ inbox \in Seq(Ops)
    /\ map \in Tables /\ polled \in Tables /\ writable \in Tables
    /\ seen \subseteq Devices
    /\ hDev \in Devices \union {None} /\ hOld \in BOOLEAN
    /\ hDev # None => hDev \in seen
    /\ seen # {} => inbox # <<>>
CacheTypes ==
    /\ cache \in Tables \union {Torn}
    /\ spawned \in Nat
    /\ \A s \in snaps : s \in Tables
Types == CoreTypes /\ LinkTypes /\ HandlerTypes /\ CacheTypes

\* While the process is down nothing of it is left, nor of its connection.
DownInv ==
    ~alive => /\ ~subscribed /\ ~orderly
              /\ inbox = <<>> /\ seen = {} /\ hDev = None

\* A device that the map did not have when its callback began is in it now, and
\* no service knows it yet.
CallbackInv ==
    hDev # None /\ ~hOld => /\ map[hDev] # None
                            /\ polled[hDev] = None /\ writable[hDev] = None

\* An entry x is as good as y: the callback may have refused it.
Admits(x, y) == x = y \/ (x = None /\ y # None /\ y.kind = "unsupported")

\* What of the message in hand is handled is in the map, or was refused.
SeenInv == \A d \in seen : Admits(map[d], Incoming(Head(inbox), d, map[d]))

\* Message m applied to rows by a gateway whose callbacks refuse nothing.
Applied(rows, m) ==
    [d \in Devices |-> IF m.op # "sync" /\ m.dev # d THEN rows[d]
                     ELSE Incoming(m, d, rows[d])]

\* A table after each of the messages.
Traces(T, messages) ==
    /\ T \in [0 .. Len(messages) -> Tables]
    /\ \A i \in 1 .. Len(messages) : T[i] = Applied(T[i - 1], messages[i])

\* What comes out after the messages on the way is the database, but for the one
\* change whose notification is not published yet.
Settled(rows) ==
    /\ (\A p \in pending : p.op = "sync") => rows = db
    /\ \A p \in pending : p.op # "sync" =>
          /\ Applied(rows, p) = db
          /\ \A q \in pending : q.op # "sync" => q = p

\* The map with the refused entries put back leads to the database.
TrackInv ==
    orderly => \E T : /\ Traces(T, inbox)
                      /\ \A d \in Devices : Admits(map[d], T[0][d])
                      /\ Settled(T[Len(inbox)])

\* The inductive invariant.
GatewayInv == Types /\ DownInv /\ CallbackInv /\ ServiceFollowsMap /\ SeenInv
IInv == GatewayInv /\ TrackInv

-----------------------------------------------------------------------------
(* Rows, tables and messages.                                              *)

LEMMA RowFacts ==
  /\ None \notin Rows
  /\ Untagged \in [Tags -> Versions]
  /\ Empty \in Tables
  /\ \A r \in Rows : /\ r.kind \in Kinds /\ r.tags \in [Tags -> Versions]
                     /\ \A ts \in [Tags -> Versions] : [r EXCEPT !.tags = ts] \in Rows
                     /\ \A t \in Tags, v \in Versions : [r EXCEPT !.tags[t] = v] \in Rows
  /\ \A k \in Kinds, v \in Versions, ts \in [Tags -> Versions] :
        [kind |-> k, ver |-> v, tags |-> ts] \in Rows
  <1>1. Untagged \in [Tags -> Versions] /\ Empty \in Tables
    BY ConfigSyncAssumption DEF Untagged, Empty, Versions, Tables
  <1>2. ASSUME NEW r \in Rows
        PROVE  /\ r.kind \in Kinds /\ r.tags \in [Tags -> Versions]
               /\ \A ts \in [Tags -> Versions] : [r EXCEPT !.tags = ts] \in Rows
               /\ \A t \in Tags, v \in Versions : [r EXCEPT !.tags[t] = v] \in Rows
    BY DEF Rows
  <1>3. QED
    BY <1>1, <1>2, NoneAssumption DEF Rows

\* What each kind of operation is made of.
LEMMA OpFacts ==
  ASSUME NEW m \in Ops
  PROVE  /\ m.op \in {"device", "delete", "tag", "sync"}
         /\ m.op = "device" => m.dev \in Devices /\ m.row \in Rows /\ m.ready \in BOOLEAN
         /\ m.op = "delete" => m.dev \in Devices
         /\ m.op = "tag" => m.dev \in Devices /\ m.tag \in Tags /\ m.ver \in Versions
         /\ m.op = "sync" => m.rows \in Tables /\ m.left \in SUBSET Devices
  BY DEF Ops

\* What a message makes of an entry is an entry again.
LEMMA IncomingType ==
  ASSUME NEW m \in Ops, NEW d \in Devices, NEW entry \in Rows \union {None},
         m.op # "sync" => m.dev = d
  PROVE  Incoming(m, d, entry) \in Rows \union {None}
  <1>1. CASE m.op = "sync"
    BY <1>1, OpFacts DEF Incoming, Tables
  <1>2. CASE m.op = "tag"
    BY <1>2, OpFacts, RowFacts DEF Incoming
  <1>3. CASE m.op \in {"device", "delete"}
    BY <1>3, OpFacts DEF Incoming
  <1>4. QED
    BY <1>1, <1>2, <1>3, OpFacts

\* A message that is applied twice is applied once.
LEMMA IncomingTwice ==
  ASSUME NEW m \in Ops, NEW d \in Devices, NEW entry \in Rows \union {None},
         m.op # "sync" => m.dev = d
  PROVE  Incoming(m, d, Incoming(m, d, entry)) = Incoming(m, d, entry)
  <1>1. CASE m.op = "tag" /\ entry # None
    <2> DEFINE once == [entry EXCEPT !.tags[m.tag] = m.ver]
    <2>1. once \in Rows /\ once # None
      BY <1>1, OpFacts, RowFacts
    <2>2. [once EXCEPT !.tags[m.tag] = m.ver] = once
      BY <1>1, OpFacts DEF Rows
    <2>3. QED
      BY <1>1, <2>1, <2>2 DEF Incoming
  <1>2. CASE m.op = "tag" /\ entry = None
    BY <1>2 DEF Incoming
  <1>3. CASE m.op \in {"sync", "device", "delete"}
    BY <1>3 DEF Incoming
  <1>4. QED
    BY <1>1, <1>2, <1>3, OpFacts

-----------------------------------------------------------------------------
(* Types.                                                                  *)

\* What the proofs use of Init.
InitFacts ==
  /\ db \in [Devices -> {None, [kind |-> "ok", ver |-> 1, tags |-> [t \in Tags |-> 1]]}]
  /\ used \subseteq Ids
  /\ changes = 1 /\ pending = {}
  /\ coreUp = TRUE /\ linkUp = FALSE /\ subscribed = FALSE /\ drops = 0
  /\ alive = FALSE /\ inbox = <<>> /\ syncPc = "sent"
  /\ map = Empty /\ polled = Empty /\ writable = Empty
  /\ seen = {} /\ hDev = None /\ hOld = FALSE
  /\ cache = Empty /\ spawned = 0 /\ snaps = {}
  /\ restarts = 0 /\ orderly = FALSE

LEMMA InitGives == Init => InitFacts
  <1> SUFFICES ASSUME Init PROVE InitFacts
    OBVIOUS
  <1>1. used \subseteq Ids
    BY Zenon DEF Init
  <1>2. QED
    BY <1>1, Zenon DEF Init, InitFacts

LEMMA InitTypes == Init => Types
  <1> SUFFICES ASSUME InitFacts PROVE Types
    BY InitGives
  <1>1. [kind |-> "ok", ver |-> 1, tags |-> [t \in Tags |-> 1]] \in Rows
    BY ConfigSyncAssumption DEF Rows, Kinds, Versions
  <1>2. db \in Tables /\ used \subseteq Ids /\ changes \in Versions
    BY <1>1, ConfigSyncAssumption DEF InitFacts, Versions, Tables
  <1>3. coreUp \in BOOLEAN /\ linkUp \in BOOLEAN /\ subscribed \in BOOLEAN
    BY DEF InitFacts
  <1>4. drops \in 0 .. MaxEvents /\ restarts \in 0 .. MaxEvents
    BY ConfigSyncAssumption DEF InitFacts
  <1>5. alive \in BOOLEAN /\ syncPc \in {"sleep", "sent"}
    BY DEF InitFacts
  <1>6. inbox \in Seq(Ops) /\ map \in Tables /\ polled \in Tables /\ writable \in Tables
    BY RowFacts DEF InitFacts
  <1>7. hDev = None /\ hOld \in BOOLEAN /\ seen = {}
    BY DEF InitFacts
  <1>8. cache \in Tables /\ spawned \in Nat /\ snaps = {}
    BY RowFacts DEF InitFacts
  <1>9. pending = {} /\ orderly \in BOOLEAN
    BY DEF InitFacts
  <1>10. QED
    BY <1>2, <1>3, <1>4, <1>5, <1>6, <1>7, <1>8, <1>9
       DEF Types, CoreTypes, LinkTypes, HandlerTypes, CacheTypes

\* The operations that requests leave.
LEMMA OpTypes ==
  /\ \A d \in Devices, r \in Rows, b \in BOOLEAN :
        DeviceOp(d, r, b) \in Ops /\ DeviceOp(d, r, b).op = "device"
  /\ \A d \in Devices, t \in Tags, v \in Versions :
        TagOp(d, t, v) \in Ops /\ TagOp(d, t, v).op = "tag"
  /\ \A d \in Devices : [op |-> "delete", dev |-> d] \in Ops
  BY DEF DeviceOp, TagOp, Ops

\* A request's change of the database is a row of the next number.
LEMMA NextVersion ==
  ASSUME Types, changes + restarts + drops < MaxEvents
  PROVE  changes + 1 \in Versions
  BY ConfigSyncAssumption DEF Types, CoreTypes, LinkTypes, Versions

LEMMA CommitTypes ==
  ASSUME Types, NEW rows \in Tables, NEW ids \in SUBSET Ids, NEW op \in Ops,
         op.op # "sync", Commit(rows, ids, op)
  PROVE  Types'
  <1>0. changes + 1 \in Versions
    BY NextVersion DEF Commit
  <1>1. CoreTypes'
    BY <1>0 DEF Types, CoreTypes, Commit
  <1>2. LinkTypes' /\ HandlerTypes' /\ CacheTypes'
    BY DEF Types, LinkTypes, HandlerTypes, CacheTypes, Commit, linkVars, serviceVars,
           handlerVars, cacheVars
  <1>3. QED
    BY <1>1, <1>2 DEF Types

LEMMA RequestTypes ==
  ASSUME Types, Request
  PROVE  Types'
  <1> USE DEF Tables
  <1>1. PICK d \in Devices :
           \/ \E kind \in Kinds : CreateDevice(d, kind) \/ UpdateDevice(d, kind)
           \/ DeleteDevice(d)
           \/ \E t \in Tags : PutTag(d, t) \/ DeleteTag(d, t)
    BY DEF Request
  <1>2. changes + 1 \in Versions /\ db \in Tables /\ 0 \in Versions
    <2>1. changes + restarts + drops < MaxEvents
      BY <1>1 DEF CreateDevice, UpdateDevice, DeleteDevice, PutTag, DeleteTag, Commit
    <2>2. QED
      BY <2>1, NextVersion, ConfigSyncAssumption DEF Types, CoreTypes, Versions
  <1>3. ASSUME NEW kind \in Kinds, CreateDevice(d, kind)
        PROVE  Types'
    <2> DEFINE row == [kind |-> kind, ver |-> changes + 1, tags |-> Untagged]
    <2>1. row \in Rows
      BY <1>2, RowFacts
    <2>2. [db EXCEPT ![d] = row] \in Tables /\ {<<d>>} \in SUBSET Ids
      BY <1>2, <2>1 DEF Ids
    <2>3. QED
      BY <1>3, <2>1, <2>2, OpTypes, CommitTypes DEF CreateDevice
  <1>4. ASSUME NEW kind \in Kinds, UpdateDevice(d, kind)
        PROVE  Types'
    <2> DEFINE row == [kind |-> kind, ver |-> changes + 1, tags |-> db[d].tags]
    <2>1. row \in Rows
      BY <1>2, <1>4, RowFacts DEF UpdateDevice
    <2>2. [db EXCEPT ![d] = row] \in Tables
      BY <1>2, <2>1
    <2>3. QED
      BY <1>4, <2>1, <2>2, OpTypes, CommitTypes DEF UpdateDevice
  <1>5. CASE DeleteDevice(d)
    <2>1. [db EXCEPT ![d] = None] \in Tables
      BY <1>2
    <2>2. QED
      BY <1>5, <2>1, OpTypes, CommitTypes DEF DeleteDevice
  <1>6. ASSUME NEW t \in Tags, PutTag(d, t) \/ DeleteTag(d, t)
        PROVE  Types'
    <2>1. db[d] \in Rows
      BY <1>2, <1>6 DEF PutTag, DeleteTag
    <2>2. \A v \in Versions : [db EXCEPT ![d].tags[t] = v] \in Tables
      BY <1>2, <2>1, RowFacts
    <2>3. {<<d, t>>} \in SUBSET Ids
      BY DEF Ids
    <2>4. QED
      BY <1>2, <1>6, <2>2, <2>3, OpTypes, CommitTypes DEF PutTag, DeleteTag
  <1>7. QED
    BY <1>1, <1>3, <1>4, <1>5, <1>6

LEMMA AdvanceTypes ==
  ASSUME Types, NEW p \in Ops, NEW q \in Ops, Advance(p, q),
         q.op = "sync" => \A d \in q.left : q.rows[d] # None
  PROVE  Types'
  <1>1. CoreTypes'
    BY DEF Types, CoreTypes, Advance
  <1>2. LinkTypes' /\ HandlerTypes' /\ CacheTypes'
    BY DEF Types, LinkTypes, HandlerTypes, CacheTypes, Advance, linkVars, serviceVars,
           handlerVars, cacheVars
  <1>3. QED
    BY <1>1, <1>2 DEF Types

\* The tags of a device are tags, and a sync answer stays one as it is filled.
LEMMA SyncTypes ==
  ASSUME Types
  PROVE  /\ \A d \in Devices : TagsOf(d) \in [Tags -> Versions]
         /\ \A S \in SUBSET Present(db) :
               [d \in Devices |-> IF d \in S THEN [db[d] EXCEPT !.tags = Untagged]
                                ELSE None] \in Tables
         /\ \A p \in Ops : p.op = "sync" =>
               /\ \A at \in {"list", "tags"}, rows \in Tables, left \in SUBSET Devices :
                     [p EXCEPT !.at = at, !.rows = rows, !.left = left] \in Ops
               /\ \A d \in Devices, left \in SUBSET Devices, ts \in [Tags -> Versions] :
                     p.rows[d] # None => [p EXCEPT !.rows[d].tags = ts, !.left = left] \in Ops
  <1>1. db \in Tables
    BY DEF Types, CoreTypes
  <1>2. \A d \in Devices : TagsOf(d) \in [Tags -> Versions]
    BY <1>1, RowFacts DEF TagsOf, Tables
  <1>3. ASSUME NEW S \in SUBSET Present(db)
        PROVE  [d \in Devices |-> IF d \in S THEN [db[d] EXCEPT !.tags = Untagged]
                                ELSE None] \in Tables
    BY <1>1, RowFacts DEF Tables, Present
  <1>4. ASSUME NEW p \in Ops, p.op = "sync",
               NEW at \in {"list", "tags"}, NEW rows \in Tables, NEW left \in SUBSET Devices
        PROVE  [p EXCEPT !.at = at, !.rows = rows, !.left = left] \in Ops
    BY <1>4 DEF Ops
  <1>5. ASSUME NEW p \in Ops, p.op = "sync", NEW d \in Devices,
               NEW left \in SUBSET Devices, NEW ts \in [Tags -> Versions], p.rows[d] # None
        PROVE  [p EXCEPT !.rows[d].tags = ts, !.left = left] \in Ops
    <2>1. [p.rows EXCEPT ![d].tags = ts] \in Tables
      BY <1>5, OpFacts, RowFacts DEF Tables
    <2>2. QED
      BY <1>5, <2>1 DEF Ops
  <1>6. QED
    BY <1>2, <1>3, <1>4, <1>5

LEMMA PublishTypes ==
  ASSUME Types, NEW p \in Ops, Publish(p)
  PROVE  Types'
  <1>1. orderly' \in BOOLEAN
    BY DEF Types, CoreTypes, LinkTypes, Publish
  <1>2. CoreTypes'
    BY <1>1 DEF Types, CoreTypes, Publish
  <1>3. inbox' \in Seq(Ops) /\ (inbox # <<>> => inbox' # <<>>)
    BY DEF Types, HandlerTypes, Publish
  <1>4. LinkTypes' /\ HandlerTypes' /\ CacheTypes'
    BY <1>3 DEF Types, LinkTypes, HandlerTypes, CacheTypes, Publish, linkVars, serviceVars,
           handlerVars, cacheVars
  <1>5. QED
    BY <1>2, <1>4 DEF Types

LEMMA NotifyTypes ==
  ASSUME Types, Notify
  PROVE  Types'
  <1>1. PICK p \in pending : \/ FetchTags(p) \/ SyncLists(p) \/ Publish(p)
                            \/ \E d \in Devices : SyncFetches(p, d)
    BY DEF Notify
  <1>2. p \in Ops /\ (p.op = "sync" => \A d \in p.left : p.rows[d] # None)
    BY DEF Types, CoreTypes
  <1>3. CASE FetchTags(p)
    <2>1. [p.row EXCEPT !.tags = TagsOf(p.dev)] \in Rows
      BY <1>2, <1>3, OpFacts, RowFacts, SyncTypes DEF FetchTags
    <2>2. QED
      BY <1>2, <1>3, <2>1, OpFacts, OpTypes, AdvanceTypes DEF FetchTags
  <1>4. CASE SyncLists(p)
    <2>1. PICK S \in SUBSET Present(db) :
             Advance(p, [p EXCEPT !.at = "tags",
                                  !.rows = [d \in Devices |->
                                              IF d \in S THEN [db[d] EXCEPT !.tags = Untagged]
                                              ELSE None],
                                  !.left = S])
      BY <1>4 DEF SyncLists
    <2> DEFINE rows == [d \in Devices |-> IF d \in S THEN [db[d] EXCEPT !.tags = Untagged]
                                        ELSE None]
               q == [p EXCEPT !.at = "tags", !.rows = rows, !.left = S]
    <2>2. S \in SUBSET Devices /\ rows \in Tables
      BY SyncTypes DEF Present
    <2>3. \A d \in S : rows[d] # None
      <3> SUFFICES ASSUME NEW d \in S PROVE rows[d] # None
        OBVIOUS
      <3>1. db[d] \in Rows /\ d \in Devices
        BY DEF Types, CoreTypes, Present, Tables
      <3>2. QED
        BY <3>1, RowFacts
    <2>4. q \in Ops
      BY <1>2, <1>4, <2>2, SyncTypes DEF SyncLists
    <2>5. q.rows = rows /\ q.left = S
      BY <1>2, <1>4 DEF SyncLists, Ops
    <2>6. QED
      BY <1>2, <2>1, <2>3, <2>4, <2>5, AdvanceTypes
  <1>5. CASE Publish(p)
    BY <1>2, <1>5, PublishTypes
  <1>6. ASSUME NEW d \in Devices, SyncFetches(p, d)
        PROVE  Types'
    <2> DEFINE q == [p EXCEPT !.rows[d].tags = TagsOf(d), !.left = @ \ {d}]
    <2>1. p.op = "sync" /\ d \in p.left /\ p.left \subseteq Devices /\ p.rows \in Tables
      BY <1>2, <1>6, OpFacts DEF SyncFetches
    <2>2. q \in Ops
      BY <1>2, <2>1, SyncTypes
    <2>3. \A e \in q.left : q.rows[e] # None
      <3>1. q.left = p.left \ {d} /\ q.rows = [p.rows EXCEPT ![d].tags = TagsOf(d)]
        BY <1>2, <2>1 DEF Ops
      <3>2. QED
        BY <1>2, <2>1, <3>1 DEF Tables
    <2>4. QED
      BY <1>2, <1>6, <2>2, <2>3, AdvanceTypes DEF SyncFetches
  <1>7. QED
    BY <1>1, <1>3, <1>4, <1>5, <1>6

\* The message in hand, and the devices it is about.
LEMMA InHand ==
  ASSUME HandlerTypes, inbox # <<>>
  PROVE  /\ Head(inbox) \in Ops
         /\ Concerned \subseteq Devices
         /\ \A d \in Concerned : Head(inbox).op # "sync" => Head(inbox).dev = d
  <1>1. Head(inbox) \in Ops
    BY DEF HandlerTypes
  <1>2. QED
    BY <1>1, OpFacts DEF Concerned

\* Store either leaves the map as it is or puts an entry into it.
LEMMA StoreFacts ==
  ASSUME HandlerTypes, NEW d \in Devices, Store(d)
  PROVE  LET new == Incoming(Head(inbox), d, map[d])
         IN  /\ inbox # <<>> /\ hDev = None /\ alive
             /\ d \in Concerned \ seen
             /\ new \in Rows \union {None}
             /\ map' = [map EXCEPT ![d] = new]
             /\ \/ new = None /\ map[d] = None /\ hDev' = hDev /\ hOld' = hOld
                \/ (new # None \/ map[d] # None) /\ hDev' = d /\ hOld' = (map[d] # None)
             /\ seen' = seen \union {d}
             /\ inbox' = inbox /\ polled' = polled /\ writable' = writable
             /\ UNCHANGED <<coreVars, linkVars, alive, syncPc, cacheVars, restarts, orderly>>
  <1> DEFINE new == Incoming(Head(inbox), d, map[d])
  <1>1. /\ inbox # <<>> /\ hDev = None /\ alive /\ d \in Concerned \ seen
        /\ seen' = seen \union {d}
        /\ inbox' = inbox /\ polled' = polled /\ writable' = writable
        /\ UNCHANGED <<coreVars, linkVars, alive, syncPc, cacheVars, restarts, orderly>>
    BY DEF Store, Handles, serviceVars
  <1>2. map \in Tables /\ map[d] \in Rows \union {None}
    BY DEF HandlerTypes, Tables
  <1>3. new \in Rows \union {None}
    BY <1>1, <1>2, InHand, IncomingType
  <1>4. \/ new = None /\ map[d] = None /\ map' = map /\ hDev' = hDev /\ hOld' = hOld
        \/ /\ new # None \/ map[d] # None
           /\ map' = [map EXCEPT ![d] = new] /\ hDev' = d /\ hOld' = (map[d] # None)
    BY DEF Store, PutEntry
  <1>5. map[d] = None => [map EXCEPT ![d] = None] = map
    BY <1>2 DEF Tables
  <1>6. QED
    BY <1>1, <1>3, <1>4, <1>5

LEMMA StoreTypes ==
  ASSUME Types, NEW d \in Devices, Store(d)
  PROVE  Types'
  <1> DEFINE new == Incoming(Head(inbox), d, map[d])
  <1>1. /\ new \in Rows \union {None} /\ map' = [map EXCEPT ![d] = new]
        /\ inbox # <<>> /\ inbox' = inbox /\ seen' = seen \union {d}
        /\ (hDev' = d \/ (hDev' = None)) /\ hOld' \in BOOLEAN
        /\ polled' = polled /\ writable' = writable
    BY StoreFacts DEF Types, HandlerTypes
  <1>2. map' \in Tables
    BY <1>1 DEF Types, HandlerTypes, Tables
  <1>3. HandlerTypes'
    BY <1>1, <1>2 DEF Types, HandlerTypes
  <1>4. CoreTypes' /\ LinkTypes' /\ CacheTypes'
    BY DEF Types, CoreTypes, LinkTypes, CacheTypes, Store, Handles, coreVars, linkVars,
           cacheVars
  <1>5. QED
    BY <1>3, <1>4 DEF Types

LEMMA CallbackTypes ==
  ASSUME Types, CallbackFails \/ CallbackServes \/ CallbackRemoves
  PROVE  Types'
  <1>1. EndCallback /\ hDev \in Devices
    BY DEF CallbackFails, CallbackServes, CallbackRemoves, EndCallback, Types, HandlerTypes
  <1>2. map' \in Tables /\ polled' \in Tables /\ writable' \in Tables /\ spawned' \in Nat
    <2>1. map \in Tables /\ polled \in Tables /\ writable \in Tables /\ spawned \in Nat
      BY DEF Types, HandlerTypes, CacheTypes
    <2>2. CASE CallbackFails
      BY <1>1, <2>1, <2>2 DEF CallbackFails, Tables, serviceVars
    <2>3. CASE CallbackServes
      BY <1>1, <2>1, <2>3 DEF CallbackServes, Tables, Save
    <2>4. CASE CallbackRemoves
      BY <1>1, <2>1, <2>4 DEF CallbackRemoves, Tables, Save
    <2>5. QED
      BY <2>2, <2>3, <2>4
  <1>3. HandlerTypes' /\ CacheTypes'
    BY <1>1, <1>2 DEF Types, HandlerTypes, CacheTypes, EndCallback
  <1>4. CoreTypes' /\ LinkTypes'
    BY <1>1 DEF Types, CoreTypes, LinkTypes, EndCallback, coreVars, linkVars
  <1>5. QED
    BY <1>3, <1>4 DEF Types

LEMMA FinishTypes ==
  ASSUME Types, Finish
  PROVE  Types'
  <1>1. HandlerTypes'
    BY DEF Types, HandlerTypes, Finish, serviceVars
  <1>2. CoreTypes' /\ LinkTypes' /\ CacheTypes'
    BY DEF Types, CoreTypes, LinkTypes, CacheTypes, Finish, coreVars, linkVars, cacheVars
  <1>3. QED
    BY <1>1, <1>2 DEF Types

LEMMA RequestSyncTypes ==
  ASSUME Types, RequestSync
  PROVE  Types'
  <1>1. SyncOp("list", Empty, {}) \in Ops
    BY RowFacts DEF Types, LinkTypes, SyncOp, Ops
  <1>2. SyncOp("list", Empty, {}).left = {}
    BY DEF SyncOp
  <1>3. CoreTypes'
    BY <1>1, <1>2 DEF Types, CoreTypes, RequestSync
  <1>4. LinkTypes'
    BY DEF Types, LinkTypes, RequestSync, linkVars
  <1>5. HandlerTypes' /\ CacheTypes'
    BY DEF Types, HandlerTypes, CacheTypes, RequestSync, serviceVars, handlerVars, cacheVars
  <1>6. QED
    BY <1>3, <1>4, <1>5 DEF Types

LEMMA SaverTypes ==
  ASSUME Types, Saver
  PROVE  Types'
  <1>1. SaverStep
    BY DEF Saver, Snapshot, WriteFile
  <1>2. CacheTypes'
    BY RowFacts DEF Types, HandlerTypes, CacheTypes, Saver, Snapshot, WriteFile
  <1>3. CoreTypes' /\ LinkTypes' /\ HandlerTypes'
    BY <1>1 DEF Types, CoreTypes, LinkTypes, HandlerTypes, SaverStep, coreVars, linkVars,
                serviceVars, handlerVars
  <1>4. QED
    BY <1>2, <1>3 DEF Types

LEMMA LoadedType ==
  ASSUME Types
  PROVE  Loaded \in Tables
  BY RowFacts DEF Types, CacheTypes, Loaded, Loadable

LEMMA BootTypes ==
  ASSUME Types, Boot
  PROVE  Types'
  <1>1. map' \in Tables /\ polled' \in Tables /\ writable' \in Tables
    BY LoadedType DEF Boot, Tables
  <1>2. HandlerTypes'
    BY <1>1 DEF Types, HandlerTypes, Boot, handlerVars
  <1>3. LinkTypes'
    BY DEF Types, LinkTypes, Boot
  <1>4. CoreTypes' /\ CacheTypes'
    BY DEF Types, CoreTypes, CacheTypes, Boot, coreVars, cacheVars
  <1>5. QED
    BY <1>2, <1>3, <1>4 DEF Types

LEMMA CrashTypes ==
  ASSUME Types, Crash
  PROVE  Types'
  <1>1. restarts + 1 \in 0 .. MaxEvents
    BY ConfigSyncAssumption DEF Types, CoreTypes, LinkTypes, Versions, Crash
  <1>2. LinkTypes'
    BY <1>1 DEF Types, LinkTypes, Crash
  <1>3. HandlerTypes'
    <2>1. inbox' = <<>> /\ seen' = {} /\ hDev' = None
      BY DEF Crash
    <2>2. map' \in Tables /\ polled' \in Tables /\ writable' \in Tables
      BY RowFacts DEF Crash
    <2>3. inbox' \in Seq(Ops)
      BY <2>1
    <2>4. hOld' \in BOOLEAN
      BY DEF Crash
    <2>5. QED
      BY <2>1, <2>2, <2>3, <2>4 DEF HandlerTypes
  <1>4. CoreTypes'
    BY DEF Types, CoreTypes, Crash, coreVars
  <1>5. CacheTypes'
    BY DEF Types, CacheTypes, Crash
  <1>6. QED
    BY <1>2, <1>3, <1>4, <1>5 DEF Types

LEMMA LinkStepTypes ==
  ASSUME Types, LinkDrops \/ LinkReturns \/ CoreDrops \/ CoreReturns
  PROVE  Types'
  <1>1. drops' \in 0 .. MaxEvents
    BY ConfigSyncAssumption
       DEF Types, CoreTypes, LinkTypes, Versions, LinkDrops, LinkReturns, CoreDrops, CoreReturns
  <1>2. LinkTypes'
    BY <1>1 DEF Types, LinkTypes, LinkDrops, LinkReturns, CoreDrops, CoreReturns
  <1>3. inbox' \in Seq(Ops) /\ (seen # {} => inbox' # <<>>)
    <2>1. CASE LinkDrops
      <3>1. PICK n \in (IF seen = {} THEN 0 ELSE 1) .. Len(inbox) :
               inbox' = SubSeq(inbox, 1, n)
        BY <2>1 DEF LinkDrops
      <3>2. inbox \in Seq(Ops) /\ n \in 0 .. Len(inbox)
        BY <3>1 DEF Types, HandlerTypes
      <3>3. QED
        BY <3>1, <3>2
    <2>2. QED
      BY <2>1 DEF Types, HandlerTypes, LinkReturns, CoreDrops, CoreReturns
  <1>4. HandlerTypes'
    BY <1>3 DEF Types, HandlerTypes, LinkDrops, LinkReturns, CoreDrops, CoreReturns,
                serviceVars, handlerVars
  <1>5. CoreTypes' /\ CacheTypes'
    BY DEF Types, CoreTypes, CacheTypes, LinkDrops, LinkReturns, CoreDrops, CoreReturns,
           coreVars, cacheVars
  <1>6. QED
    BY <1>2, <1>4, <1>5 DEF Types

LEMMA NextTypes ==
  ASSUME Types, [Next]_vars
  PROVE  Types'
  <1>1. CASE UNCHANGED vars
    BY <1>1 DEF Types, CoreTypes, LinkTypes, HandlerTypes, CacheTypes, vars, coreVars,
                linkVars, serviceVars, handlerVars, cacheVars
  <1>2. CASE Handler
    BY <1>2, FinishTypes, CallbackTypes, StoreTypes DEF Handler
  <1>3. QED
    BY <1>1, <1>2, RequestTypes, NotifyTypes, RequestSyncTypes, SaverTypes, BootTypes,
       CrashTypes, LinkStepTypes DEF Next, Rest

-----------------------------------------------------------------------------
(* The services follow the map.                                            *)

LEMMA DownStep ==
  ASSUME Types, DownInv, [Next]_vars
  PROVE  DownInv'
  <1>1. CASE Request
    <2>1. \E rows, ids, op : Commit(rows, ids, op)
      BY <1>1 DEF Request, CreateDevice, UpdateDevice, DeleteDevice, PutTag, DeleteTag
    <2>2. QED
      <3>1. /\ alive' = alive /\ subscribed' = subscribed /\ inbox' = inbox
            /\ seen' = seen /\ hDev' = hDev
        BY <2>1 DEF Commit, linkVars, handlerVars
      <3>2. ~orderly => ~orderly'
        BY <2>1 DEF Commit
      <3>3. QED
        BY <3>1, <3>2 DEF DownInv
  <1>2. CASE Notify
    <2>1. PICK p \in pending : \/ FetchTags(p) \/ SyncLists(p) \/ Publish(p)
                              \/ \E d \in Devices : SyncFetches(p, d)
      BY <1>2 DEF Notify
    <2>2. CASE Publish(p)
      BY <2>2 DEF DownInv, Publish, linkVars, handlerVars
    <2>3. CASE \E old, new : Advance(old, new)
      BY <2>3 DEF DownInv, Advance, linkVars, handlerVars
    <2>4. QED
      BY <2>1, <2>2, <2>3 DEF FetchTags, SyncLists, SyncFetches
  <1>3. CASE Handler
    <2>1. CASE \E d \in Devices : Store(d)
      BY <2>1, StoreFacts DEF DownInv, Types, Store, Handles, linkVars, handlerVars
    <2>2. CASE Finish
      BY <2>2 DEF DownInv, Finish
    <2>3. CASE CallbackFails \/ CallbackServes \/ CallbackRemoves
      BY <2>3 DEF DownInv, CallbackFails, CallbackServes, CallbackRemoves, EndCallback, linkVars
    <2>4. QED
      BY <1>3, <2>1, <2>2, <2>3 DEF Handler
  <1>4. CASE RequestSync \/ Saver \/ UNCHANGED vars
    BY <1>4 DEF DownInv, RequestSync, Saver, Snapshot, WriteFile, SaverStep, vars, linkVars,
                handlerVars
  <1>5. CASE Boot \/ Crash
    BY <1>5 DEF DownInv, Boot, Crash
  <1>6. CASE LinkDrops \/ LinkReturns \/ CoreDrops \/ CoreReturns
    BY <1>6 DEF DownInv, LinkDrops, LinkReturns, CoreDrops, CoreReturns, handlerVars
  <1>7. QED
    BY <1>1, <1>2, <1>3, <1>4, <1>5, <1>6 DEF Next, Rest

\* Steps of the database, of core, of the file and of the connections do not touch
\* the map, the services or the callback.
LEMMA OtherSteps ==
  ASSUME Request \/ Notify \/ RequestSync \/ Saver
            \/ LinkDrops \/ LinkReturns \/ CoreDrops \/ CoreReturns \/ UNCHANGED vars
  PROVE  /\ UNCHANGED <<map, serviceVars, handlerVars, alive>>
  <1>1. CASE Request
    BY <1>1 DEF Request, CreateDevice, UpdateDevice, DeleteDevice, PutTag, DeleteTag, Commit
  <1>2. CASE Notify
    BY <1>2 DEF Notify, FetchTags, SyncLists, SyncFetches, Publish, Advance
  <1>3. CASE Saver
    BY <1>3 DEF Saver, Snapshot, WriteFile, SaverStep
  <1>4. QED
    BY <1>1, <1>2, <1>3 DEF RequestSync, LinkDrops, LinkReturns, CoreDrops, CoreReturns, vars

LEMMA ServiceStep ==
  ASSUME Types, DownInv, CallbackInv, ServiceFollowsMap, [Next]_vars
  PROVE  CallbackInv' /\ ServiceFollowsMap'
  <1>0. /\ map \in Tables /\ polled \in Tables /\ writable \in Tables
        /\ hDev \in Devices \union {None} /\ hOld \in BOOLEAN /\ None \notin Devices
    BY ConfigSyncAssumption DEF Types, HandlerTypes
  <1>1. CASE Request \/ Notify \/ RequestSync \/ Saver
            \/ LinkDrops \/ LinkReturns \/ CoreDrops \/ CoreReturns \/ UNCHANGED vars
    BY <1>1, OtherSteps DEF CallbackInv, ServiceFollowsMap, serviceVars, handlerVars
  <1>2. ASSUME NEW d \in Devices, Store(d)
        PROVE  CallbackInv' /\ ServiceFollowsMap'
    <2> DEFINE new == Incoming(Head(inbox), d, map[d])
    <2>1. /\ hDev = None /\ new \in Rows \union {None}
          /\ map' = [map EXCEPT ![d] = new]
          /\ \/ new = None /\ map[d] = None /\ hDev' = None
             \/ (new # None \/ map[d] # None) /\ hDev' = d /\ hOld' = (map[d] # None)
          /\ polled' = polled /\ writable' = writable
      BY <1>2, StoreFacts DEF Types
    <2> HIDE DEF new
    <2>2. CallbackInv'
      BY <1>0, <2>1 DEF CallbackInv, ServiceFollowsMap, Tables
    <2>3. ServiceFollowsMap'
      BY <1>0, <2>1 DEF ServiceFollowsMap, Tables
    <2>4. QED
      BY <2>2, <2>3
  <1>3. CASE Finish
    BY <1>3 DEF Finish, CallbackInv, ServiceFollowsMap, serviceVars
  <1>4. ASSUME CallbackFails \/ CallbackServes \/ CallbackRemoves
        PROVE  CallbackInv' /\ ServiceFollowsMap'
    <2>1. hDev \in Devices /\ hDev' = None
      BY <1>0, <1>4 DEF CallbackFails, CallbackServes, CallbackRemoves, EndCallback
    <2>2. CallbackInv'
      BY <2>1 DEF CallbackInv
    <2>3. CASE CallbackFails
      <3>1. ~hOld => polled[hDev] = None /\ writable[hDev] = None
        BY <2>1, <1>0 DEF CallbackInv
      <3>2. map[hDev] # None /\ map[hDev].kind = "unsupported"
        BY <2>3, <3>1, <1>0 DEF CallbackFails, AddRefused
      <3>3. QED
        BY <1>0, <2>1, <2>2, <2>3, <3>1, <3>2
           DEF CallbackFails, ServiceFollowsMap, serviceVars, Tables
    <2>4. CASE CallbackServes
      BY <1>0, <2>1, <2>2, <2>4 DEF CallbackServes, ServiceFollowsMap, Tables
    <2>5. CASE CallbackRemoves
      BY <1>0, <2>1, <2>2, <2>5 DEF CallbackRemoves, ServiceFollowsMap, Tables
    <2>6. QED
      BY <1>4, <2>3, <2>4, <2>5
  <1>5. CASE Boot
    <2>1. hDev' = None /\ Loaded \in Tables
      BY <1>5, LoadedType DEF Boot, DownInv, handlerVars
    <2>2. QED
      BY <1>5, <2>1 DEF Boot, CallbackInv, ServiceFollowsMap, Tables
  <1>6. CASE Crash
    BY <1>6 DEF Crash, CallbackInv, ServiceFollowsMap, Empty
  <1>7. QED
    BY <1>1, <1>2, <1>3, <1>4, <1>5, <1>6 DEF Next, Handler, Rest

-----------------------------------------------------------------------------
(* The message in hand is in the map as far as it is handled.              *)

\* What is in hand stays in hand while the gateway's handler does not move.
LEMMA HeadStays ==
  ASSUME Types, seen # {},
         \/ Request \/ Notify \/ RequestSync \/ Saver
         \/ LinkDrops \/ LinkReturns \/ CoreDrops \/ CoreReturns \/ UNCHANGED vars
  PROVE  Head(inbox') = Head(inbox)
  <1>0. inbox \in Seq(Ops) /\ inbox # <<>>
    BY DEF Types, HandlerTypes
  <1>1. CASE Request
    BY <1>1 DEF Request, CreateDevice, UpdateDevice, DeleteDevice, PutTag, DeleteTag, Commit
  <1>2. CASE Notify
    <2>1. PICK p \in pending : \/ FetchTags(p) \/ SyncLists(p) \/ Publish(p)
                              \/ \E d \in Devices : SyncFetches(p, d)
      BY <1>2 DEF Notify
    <2>2. CASE Publish(p)
      <3>1. inbox' = inbox \/ inbox' = Append(inbox, p)
        BY <2>2 DEF Publish
      <3>2. p \in Ops
        BY DEF Types, CoreTypes
      <3>3. QED
        BY <1>0, <3>1, <3>2
    <2>3. QED
      BY <2>1, <2>2 DEF FetchTags, SyncLists, SyncFetches, Advance
  <1>3. CASE Saver
    BY <1>3 DEF Saver, Snapshot, WriteFile, SaverStep
  <1>4. CASE LinkDrops
    <2>1. PICK n \in 1 .. Len(inbox) : inbox' = SubSeq(inbox, 1, n)
      BY <1>4 DEF LinkDrops
    <2>2. QED
      BY <1>0, <2>1
  <1>5. QED
    BY <1>1, <1>2, <1>3, <1>4 DEF RequestSync, LinkReturns, CoreDrops, CoreReturns, vars

LEMMA SeenStep ==
  ASSUME Types, DownInv, CallbackInv, SeenInv, [Next]_vars
  PROVE  SeenInv'
  <1>0. map \in Tables /\ (seen # {} => inbox # <<>>) /\ seen \subseteq Devices
    BY DEF Types, HandlerTypes
  <1>1. CASE Request \/ Notify \/ RequestSync \/ Saver
            \/ LinkDrops \/ LinkReturns \/ CoreDrops \/ CoreReturns \/ UNCHANGED vars
    <2>1. map' = map /\ seen' = seen
      BY <1>1, OtherSteps DEF handlerVars
    <2>2. seen # {} => Head(inbox') = Head(inbox)
      BY <1>1, HeadStays
    <2>3. QED
      BY <2>1, <2>2 DEF SeenInv
  <1>2. ASSUME NEW d \in Devices, Store(d)
        PROVE  SeenInv'
    <2> DEFINE m == Head(inbox)
               new == Incoming(m, d, map[d])
    <2>1. /\ inbox # <<>> /\ inbox' = inbox /\ seen' = seen \union {d}
          /\ d \in Concerned \ seen
          /\ map' = [map EXCEPT ![d] = new]
      BY <1>2, StoreFacts DEF Types
    <2>2. m \in Ops /\ (m.op # "sync" => m.dev = d)
      BY <2>1, InHand DEF Types
    <2>3. Incoming(m, d, new) = new
      BY <1>0, <2>2, IncomingTwice DEF Tables
    <2>4. map'[d] = new /\ \A e \in Devices : e # d => map'[e] = map[e]
      BY <1>0, <2>1 DEF Tables
    <2> HIDE DEF new
    <2>5. QED
      BY <1>0, <2>1, <2>3, <2>4 DEF SeenInv, Admits
  <1>3. CASE Finish \/ Crash
    BY <1>3 DEF Finish, Crash, SeenInv
  <1>4. CASE CallbackFails
    <2>1. /\ hDev \in seen /\ map[hDev] # None
          /\ seen' = seen /\ inbox' = inbox
          /\ map' = IF hOld THEN map ELSE [map EXCEPT ![hDev] = None]
      BY <1>4 DEF CallbackFails, EndCallback, Types, HandlerTypes
    <2>2. CASE hOld
      BY <2>1, <2>2 DEF SeenInv
    <2>3. CASE ~hOld
      <3>1. map[hDev].kind = "unsupported"
        BY <1>4, <2>1, <2>3 DEF CallbackFails, EndCallback, AddRefused, CallbackInv
      <3>2. Incoming(Head(inbox), hDev, map[hDev]) = map[hDev]
        BY <2>1 DEF SeenInv, Admits
      <3>3. Incoming(Head(inbox), hDev, None) = None
            \/ Incoming(Head(inbox), hDev, None) = Incoming(Head(inbox), hDev, map[hDev])
        <4>1. Head(inbox) \in Ops
          BY <1>0, <2>1, InHand DEF Types
        <4>2. QED
          BY <4>1, OpFacts DEF Incoming
      <3>4. Admits(None, Incoming(Head(inbox), hDev, None))
        BY <2>1, <3>1, <3>2, <3>3 DEF Admits
      <3>5. map'[hDev] = None /\ \A e \in Devices : e # hDev => map'[e] = map[e]
        BY <1>0, <2>1, <2>3 DEF Tables
      <3>6. QED
        BY <1>0, <2>1, <3>4, <3>5 DEF SeenInv
    <2>4. QED
      BY <2>2, <2>3 DEF Types, HandlerTypes
  <1>5. CASE CallbackServes \/ CallbackRemoves
    BY <1>5 DEF CallbackServes, CallbackRemoves, EndCallback, SeenInv
  <1>6. CASE Boot
    BY <1>6 DEF Boot, handlerVars, DownInv, SeenInv
  <1>7. QED
    BY <1>1, <1>2, <1>3, <1>4, <1>5, <1>6 DEF Next, Handler, Rest

LEMMA GatewayStep ==
  ASSUME GatewayInv, [Next]_vars
  PROVE  GatewayInv'
  BY NextTypes, DownStep, ServiceStep, SeenStep DEF GatewayInv

LEMMA GatewayInit == Init => GatewayInv
  <1> SUFFICES ASSUME InitFacts, Types PROVE GatewayInv
    BY InitGives, InitTypes
  <1>1. DownInv /\ CallbackInv /\ SeenInv
    BY DEF InitFacts, DownInv, CallbackInv, SeenInv
  <1>2. ServiceFollowsMap
    BY DEF InitFacts, ServiceFollowsMap, Empty
  <1>3. QED
    BY <1>1, <1>2 DEF GatewayInv

-----------------------------------------------------------------------------
(* The map with the messages on the way is the database.                   *)

LEMMA AppliedType ==
  ASSUME NEW rows \in Tables, NEW m \in Ops
  PROVE  Applied(rows, m) \in Tables
  BY IncomingType DEF Applied, Tables

\* One more message makes a trace one longer.
LEMMA TraceGrows ==
  ASSUME NEW s \in Seq(Ops), NEW m \in Ops, NEW T, Traces(T, s)
  PROVE  \E U : /\ Traces(U, Append(s, m))
               /\ U[0] = T[0]
               /\ U[Len(s) + 1] = Applied(T[Len(s)], m)
  <1> DEFINE n == Len(s)
             last == Applied(T[n], m)
             U == [i \in 0 .. (n + 1) |-> IF i = n + 1 THEN last ELSE T[i]]
  <1>1. n \in Nat /\ T \in [0 .. n -> Tables] /\ Len(Append(s, m)) = n + 1
    BY DEF Traces
  <1>2. last \in Tables
    BY <1>1, AppliedType
  <1>3. \A i \in 1 .. n : Append(s, m)[i] = s[i]
    OBVIOUS
  <1>4. Append(s, m)[n + 1] = m
    OBVIOUS
  <1> HIDE DEF last, n
  <1>5. U \in [0 .. (n + 1) -> Tables]
    BY <1>1, <1>2
  <1>6. \A i \in 1 .. n : U[i] = Applied(U[i - 1], Append(s, m)[i])
    BY <1>1, <1>3 DEF Traces, n
  <1>7. U[n + 1] = Applied(U[n], Append(s, m)[n + 1]) /\ U[0] = T[0]
    BY <1>1, <1>4 DEF last
  <1>8. Traces(U, Append(s, m))
    <2>1. \A i \in 1 .. (n + 1) : i \in 1 .. n \/ i = n + 1
      BY <1>1
    <2> HIDE DEF U
    <2>2. \A i \in 1 .. (n + 1) : U[i] = Applied(U[i - 1], Append(s, m)[i])
      <3>1. (n + 1) - 1 = n
        BY <1>1
      <3> QED
        BY <1>6, <1>7, <2>1, <3>1
    <2> QED
      BY <1>1, <1>5, <2>2 DEF Traces
  <1>9. U[n + 1] = last /\ U[0] = T[0]
    BY <1>1, <1>7
  <1> HIDE DEF U
  <1>10. QED
    BY <1>8, <1>9 DEF last, n

\* Every table has its trace.
LEMMA TraceExists ==
  ASSUME NEW rows \in Tables, NEW s \in Seq(Ops)
  PROVE  \E T : Traces(T, s) /\ T[0] = rows
  <1> DEFINE Prefix(k) == SubSeq(s, 1, k)
             Good(k) == \E T : Traces(T, Prefix(k)) /\ T[0] = rows
             K == {k \in 0 .. Len(s) : Good(k)}
  <1>0. Len(s) \in Nat
    OBVIOUS
  <1>1. 0 \in K
    <2> DEFINE T == [i \in 0 .. 0 |-> rows]
    <2>1. Traces(T, Prefix(0)) /\ T[0] = rows
      BY DEF Traces
    <2>2. QED
      BY <2>1, <1>0
  <1>2. ASSUME NEW k \in 0 .. (Len(s) - 1), k \in K
        PROVE  k + 1 \in K
    <2>1. PICK T : Traces(T, Prefix(k)) /\ T[0] = rows
      BY <1>2
    <2>2. Prefix(k) \in Seq(Ops) /\ s[k + 1] \in Ops /\ Append(Prefix(k), s[k + 1]) = Prefix(k + 1)
      OBVIOUS
    <2> HIDE DEF Prefix
    <2>3. Good(k + 1)
      <3> DEFINE p == Prefix(k)
                 m == s[k + 1]
      <3>1. p \in Seq(Ops) /\ m \in Ops /\ Traces(T, p)
        BY <2>1, <2>2
      <3> HIDE DEF p, m
      <3>2. PICK U : Traces(U, Append(p, m)) /\ U[0] = T[0]
        BY <3>1, TraceGrows
      <3>3. QED
        BY <2>1, <2>2, <3>2 DEF p, m
    <2> HIDE DEF Good
    <2>4. QED
      BY <1>0, <2>3
  <1>3. Len(s) \in K
    <2> DEFINE n == Len(s)
    <2>1. n \in Nat /\ 0 \in K /\ \A k \in 0 .. (n - 1) : k \in K => k + 1 \in K
      BY <1>0, <1>1, <1>2
    <2> HIDE DEF K, n
    <2>2. \A k \in 0 .. n : k \in K
      BY <2>1, Induction
    <2>3. QED
      BY <2>1, <2>2 DEF n
  <1>4. Prefix(Len(s)) = s
    OBVIOUS
  <1>5. QED
    BY <1>3, <1>4

\* What is left of a trace when its first message is done.
LEMMA TraceShrinks ==
  ASSUME NEW s \in Seq(Ops), s # <<>>, NEW T, Traces(T, s)
  PROVE  \E U : /\ Traces(U, Tail(s))
               /\ U[0] = Applied(T[0], Head(s))
               /\ U[Len(Tail(s))] = T[Len(s)]
  <1> DEFINE n == Len(s)
             U == [i \in 0 .. (n - 1) |-> T[i + 1]]
  <1>1. /\ n \in Nat \ {0} /\ Len(Tail(s)) = n - 1 /\ Head(s) = s[1]
        /\ \A i \in 1 .. (n - 1) : Tail(s)[i] = s[i + 1]
    OBVIOUS
  <1>2. /\ T \in [0 .. n -> Tables]
        /\ \A i \in 1 .. n : T[i] = Applied(T[i - 1], s[i])
    BY DEF Traces
  <1> HIDE DEF n
  <1>3. U \in [0 .. (n - 1) -> Tables]
    BY <1>1, <1>2
  <1>4. ASSUME NEW i \in 1 .. (n - 1)
        PROVE  U[i] = Applied(U[i - 1], Tail(s)[i])
    <2>1. U[i] = T[i + 1] /\ U[i - 1] = T[i] /\ Tail(s)[i] = s[i + 1]
      BY <1>1
    <2>2. T[i + 1] = Applied(T[i], s[i + 1])
      BY <1>1, <1>2
    <2>3. QED
      BY <2>1, <2>2
  <1>5. U[0] = Applied(T[0], Head(s)) /\ U[n - 1] = T[n]
    BY <1>1, <1>2
  <1>6. QED
    BY <1>1, <1>3, <1>4, <1>5 DEF Traces, n

\* A first table that the first message makes the same of.
LEMMA TraceRestarts ==
  ASSUME NEW s \in Seq(Ops), s # <<>>, NEW T, Traces(T, s),
         NEW rows \in Tables, Applied(rows, Head(s)) = Applied(T[0], Head(s))
  PROVE  \E U : Traces(U, s) /\ U[0] = rows /\ U[Len(s)] = T[Len(s)]
  <1> DEFINE n == Len(s)
             U == [i \in 0 .. n |-> IF i = 0 THEN rows ELSE T[i]]
  <1>1. n \in Nat \ {0} /\ Head(s) = s[1]
    OBVIOUS
  <1>2. /\ T \in [0 .. n -> Tables]
        /\ \A i \in 1 .. n : T[i] = Applied(T[i - 1], s[i])
    BY DEF Traces
  <1> HIDE DEF n
  <1>3. U \in [0 .. n -> Tables] /\ U[0] = rows /\ U[n] = T[n]
    BY <1>1, <1>2
  <1>4. ASSUME NEW i \in 1 .. n
        PROVE  U[i] = Applied(U[i - 1], s[i])
    <2>1. CASE i = 1
      <3>1. U[1] = T[1] /\ U[0] = rows /\ T[1] = Applied(T[0], s[1])
        BY <1>1, <1>2, <2>1
      <3>2. QED
        BY <1>1, <2>1, <3>1
    <2>2. CASE i # 1
      BY <1>1, <1>2, <2>2
    <2>3. QED
      BY <2>1, <2>2
  <1>5. QED
    BY <1>3, <1>4 DEF Traces, n

\* A request leaves the operation that makes the new database of the old one.
LEMMA RequestIsApplied ==
  ASSUME Types, Request
  PROVE  \E ids, op : Commit(Applied(db, op), ids, op) /\ op.op # "sync"
  <1>0. db \in [Devices -> Rows \union {None}]
    BY DEF Types, CoreTypes, Tables
  <1>1. PICK d \in Devices :
           \/ \E kind \in Kinds : CreateDevice(d, kind) \/ UpdateDevice(d, kind)
           \/ DeleteDevice(d)
           \/ \E t \in Tags : PutTag(d, t) \/ DeleteTag(d, t)
    BY DEF Request
  <1>2. ASSUME NEW row, NEW ready
        PROVE  Applied(db, DeviceOp(d, row, ready)) = [db EXCEPT ![d] = row]
    BY <1>0 DEF Applied, DeviceOp, Incoming
  <1>3. Applied(db, [op |-> "delete", dev |-> d]) = [db EXCEPT ![d] = None]
    BY <1>0 DEF Applied, Incoming
  <1>4. ASSUME NEW t, NEW v, db[d] # None
        PROVE  Applied(db, TagOp(d, t, v)) = [db EXCEPT ![d].tags[t] = v]
    BY <1>0, <1>4 DEF Applied, TagOp, Incoming
  <1>5. ASSUME NEW kind \in Kinds, CreateDevice(d, kind) \/ UpdateDevice(d, kind)
        PROVE  \E ids, op : Commit(Applied(db, op), ids, op) /\ op.op # "sync"
    <2>1. PICK row, ready, ids : Commit([db EXCEPT ![d] = row], ids, DeviceOp(d, row, ready))
      BY <1>5 DEF CreateDevice, UpdateDevice
    <2>2. DeviceOp(d, row, ready).op # "sync"
      BY DEF DeviceOp
    <2>3. QED
      BY <1>2, <2>1, <2>2
  <1>6. CASE DeleteDevice(d)
    BY <1>3, <1>6 DEF DeleteDevice
  <1>7. ASSUME NEW t \in Tags, PutTag(d, t) \/ DeleteTag(d, t)
        PROVE  \E ids, op : Commit(Applied(db, op), ids, op) /\ op.op # "sync"
    <2>1. PICK v, ids : Commit([db EXCEPT ![d].tags[t] = v], ids, TagOp(d, t, v)) /\ db[d] # None
      BY <1>7 DEF PutTag, DeleteTag
    <2>2. TagOp(d, t, v).op # "sync"
      BY DEF TagOp
    <2>3. QED
      BY <1>4, <2>1, <2>2
  <1>8. QED
    BY <1>1, <1>5, <1>6, <1>7

\* TrackInv for one trace T.
Tracked(T) == /\ Traces(T, inbox)
              /\ \A d \in Devices : Admits(map[d], T[0][d])
              /\ Settled(T[Len(inbox)])

LEMMA TrackRequest ==
  ASSUME Types, TrackInv, Request, orderly'
  PROVE  TrackInv'
  <1>1. PICK ids, op : Commit(Applied(db, op), ids, op) /\ op.op # "sync"
    BY RequestIsApplied
  <1>2. /\ orderly /\ pending = {} /\ pending' = {op} /\ db' = Applied(db, op)
        /\ inbox' = inbox /\ map' = map
    BY <1>1 DEF Commit
  <1>3. PICK T : Tracked(T)
    BY <1>2 DEF TrackInv, Tracked
  <1>4. T[Len(inbox)] = db
    BY <1>2, <1>3 DEF Tracked, Settled
  <1>5. Settled(T[Len(inbox)])'
    BY <1>1, <1>2, <1>4 DEF Settled
  <1>6. QED
    BY <1>2, <1>3, <1>5 DEF Tracked, TrackInv

\* Core goes on with an operation that makes the same of the database.
LEMMA TrackAdvance ==
  ASSUME TrackInv, NEW p, NEW q, Advance(p, q),
         p.op = "sync" <=> q.op = "sync",
         p.op # "sync" => \A rows : Applied(rows, p) = db => Applied(rows, q) = db
  PROVE  TrackInv'
  <1>1. /\ p \in pending /\ pending' = (pending \ {p}) \union {q}
        /\ db' = db /\ orderly' = orderly /\ inbox' = inbox /\ map' = map
    BY DEF Advance
  <1>2. ASSUME NEW rows, Settled(rows) PROVE Settled(rows)'
    BY <1>1, <1>2 DEF Settled
  <1>3. QED
    BY <1>1, <1>2 DEF TrackInv

LEMMA TrackPublish ==
  ASSUME Types, TrackInv, NEW p \in Ops, Publish(p), orderly'
  PROVE  TrackInv'
  <1>0. /\ inbox \in Seq(Ops) /\ Len(inbox) \in Nat /\ map \in Tables /\ p \in pending
        /\ pending' = pending \ {p} /\ db' = db /\ map' = map
        /\ Len(Append(inbox, p)) = Len(inbox) + 1
    BY DEF Types, HandlerTypes, Publish
  <1>1. CASE p.op # "sync"
    <2>1. inbox' = Append(inbox, p) /\ orderly
      BY <1>1 DEF Publish
    <2>2. PICK T : Tracked(T)
      BY <2>1 DEF TrackInv, Tracked
    <2>3. PICK U : Traces(U, inbox') /\ U[0] = T[0] /\ U[Len(inbox')] = Applied(T[Len(inbox)], p)
      BY <1>0, <2>1, <2>2, TraceGrows DEF Tracked
    <2>4. /\ Applied(T[Len(inbox)], p) = db
          /\ \A q \in pending : q.op # "sync" => q = p
      BY <1>0, <1>1, <2>2 DEF Tracked, Settled
    <2>5. Settled(db)'
      BY <1>0, <2>4 DEF Settled
    <2>6. QED
      BY <1>0, <2>2, <2>3, <2>4, <2>5 DEF Tracked, TrackInv
  <1>2. CASE p.op = "sync" /\ inbox' = inbox
    <2>1. orderly
      <3>1. inbox # Append(inbox, p)
        BY <1>0
      <3>2. QED
        BY <1>2, <3>1 DEF Publish
    <2>2. PICK T : Tracked(T)
      BY <2>1 DEF TrackInv, Tracked
    <2>3. Settled(T[Len(inbox)])'
      BY <1>0, <1>2, <2>2 DEF Tracked, Settled
    <2>4. QED
      BY <1>0, <1>2, <2>2, <2>3 DEF Tracked, TrackInv
  <1>3. CASE p.op = "sync" /\ inbox' # inbox
    <2>1. inbox' = Append(inbox, p) /\ pending = {p} /\ p.rows = db
      BY <1>3 DEF Publish
    <2>2. PICK T : Traces(T, inbox) /\ T[0] = map
      BY <1>0, TraceExists
    <2>3. PICK U : Traces(U, inbox') /\ U[0] = T[0] /\ U[Len(inbox')] = Applied(T[Len(inbox)], p)
      BY <1>0, <2>1, <2>2, TraceGrows
    <2>4. Applied(T[Len(inbox)], p) = db
      BY <1>3, <2>1 DEF Applied, Incoming, Types, CoreTypes, Tables
    <2>5. Settled(db)'
      BY <1>0, <2>1 DEF Settled
    <2>6. QED
      BY <1>0, <2>2, <2>3, <2>4, <2>5 DEF TrackInv, Admits
  <1>4. QED
    BY <1>1, <1>2, <1>3

LEMMA TrackNotify ==
  ASSUME Types, TrackInv, Notify
  PROVE  TrackInv'
  <1>1. PICK p \in pending : \/ FetchTags(p) \/ SyncLists(p) \/ Publish(p)
                            \/ \E d \in Devices : SyncFetches(p, d)
    BY DEF Notify
  <1>2. p \in Ops
    BY DEF Types, CoreTypes
  <1>3. CASE FetchTags(p)
    <2> DEFINE row == [p.row EXCEPT !.tags = TagsOf(p.dev)]
               q == DeviceOp(p.dev, row, TRUE)
    <2>1. p.op = "device" /\ p.dev \in Devices /\ p.row \in Rows /\ Advance(p, q)
      BY <1>2, <1>3, OpFacts DEF FetchTags
    <2>2. ASSUME NEW rows, Applied(rows, p) = db PROVE Applied(rows, q) = db
      <3>1. db[p.dev] = p.row
        BY <2>1, <2>2 DEF Applied, Incoming
      <3>2. row = p.row
        BY <2>1, <3>1, RowFacts DEF TagsOf, Rows
      <3>3. Applied(rows, q) = Applied(rows, p)
        BY <2>1, <3>2 DEF Applied, Incoming, DeviceOp
      <3>4. QED
        BY <2>2, <3>3
    <2>3. q.op = "device"
      BY DEF DeviceOp
    <2> HIDE DEF q
    <2>4. QED
      BY <2>1, <2>2, <2>3, TrackAdvance
  <1>4. CASE SyncLists(p) \/ \E d \in Devices : SyncFetches(p, d)
    <2>1. PICK q : Advance(p, q) /\ q.op = "sync" /\ p.op = "sync"
      <3>1. p.op = "sync"
        BY <1>4 DEF SyncLists, SyncFetches
      <3>2. \A rows, left : [p EXCEPT !.at = "tags", !.rows = rows, !.left = left].op = "sync"
        BY <1>2, <3>1 DEF Ops
      <3>3. \A d \in Devices : \A ts, left : [p EXCEPT !.rows[d].tags = ts, !.left = left].op = "sync"
        BY <1>2, <3>1 DEF Ops
      <3>4. QED
        BY <1>4, <3>1, <3>2, <3>3 DEF SyncLists, SyncFetches
    <2>2. QED
      BY <2>1, TrackAdvance
  <1>5. CASE Publish(p)
    BY <1>2, <1>5, TrackPublish DEF TrackInv
  <1>6. QED
    BY <1>1, <1>3, <1>4, <1>5

\* An entry that was refused stays as good as the other under any message.
LEMMA AdmitsIncoming ==
  ASSUME NEW m \in Ops, NEW d \in Devices, m.op # "sync" => m.dev = d,
         NEW x \in Rows \union {None}, NEW y \in Rows \union {None}, Admits(x, y)
  PROVE  Admits(Incoming(m, d, x), Incoming(m, d, y))
  <1>1. CASE m.op = "tag" /\ x # y
    <2>1. x = None /\ y \in Rows /\ y.kind = "unsupported"
      BY <1>1 DEF Admits
    <2>2. Incoming(m, d, x) = None /\ Incoming(m, d, y) = [y EXCEPT !.tags[m.tag] = m.ver]
      BY <1>1, <2>1, RowFacts DEF Incoming
    <2>3. [y EXCEPT !.tags[m.tag] = m.ver] \in Rows
      BY <1>1, <2>1, OpFacts, RowFacts
    <2>4. [y EXCEPT !.tags[m.tag] = m.ver].kind = "unsupported"
      BY <2>1 DEF Rows
    <2>5. QED
      BY <2>2, <2>3, <2>4, RowFacts DEF Admits
  <1>2. CASE x = y
    BY <1>2 DEF Admits
  <1>3. CASE m.op # "tag"
    BY <1>3, OpFacts DEF Incoming, Admits
  <1>4. QED
    BY <1>1, <1>2, <1>3

LEMMA TrackStore ==
  ASSUME Types, TrackInv, NEW d \in Devices, Store(d)
  PROVE  TrackInv'
  <1> DEFINE m == Head(inbox)
             new == Incoming(m, d, map[d])
  <1>1. /\ inbox # <<>> /\ inbox' = inbox
        /\ d \in Concerned
        /\ map' = [map EXCEPT ![d] = new]
        /\ db' = db /\ pending' = pending /\ orderly' = orderly
    BY StoreFacts DEF Types, coreVars
  <1>2. m \in Ops /\ (m.op # "sync" => m.dev = d)
    BY <1>1, InHand DEF Types
  <1>3. map \in [Devices -> Rows \union {None}] /\ inbox \in Seq(Ops)
    BY DEF Types, HandlerTypes, Tables
  <1>4. SUFFICES ASSUME orderly PROVE \E T : Tracked(T)'
    BY <1>1 DEF TrackInv, Tracked
  <1>5. PICK T : Tracked(T)
    BY <1>4 DEF TrackInv, Tracked
  <1> DEFINE rows == [T[0] EXCEPT ![d] = Incoming(m, d, T[0][d])]
  <1>6. T[0] \in [Devices -> Rows \union {None}]
    BY <1>3, <1>5 DEF Tracked, Traces, Tables
  <1>7. rows \in Tables
    BY <1>2, <1>6, IncomingType DEF Tables
  <1>8. Applied(rows, m) = Applied(T[0], m)
    <2>1. Incoming(m, d, rows[d]) = Incoming(m, d, T[0][d])
      BY <1>2, <1>6, IncomingTwice
    <2>2. \A e \in Devices : e # d => rows[e] = T[0][e]
      BY <1>6
    <2> HIDE DEF rows, m
    <2>3. QED
      BY <1>2, <2>1, <2>2 DEF Applied
  <1>9. \A e \in Devices : Admits(map'[e], rows[e])
    <2>1. Admits(map'[d], rows[d])
      <3>1. Admits(map[d], T[0][d])
        BY <1>5 DEF Tracked
      <3>2. Admits(new, Incoming(m, d, T[0][d]))
        BY <1>2, <1>3, <1>6, <3>1, AdmitsIncoming
      <3>3. QED
        BY <1>1, <1>3, <1>6, <3>2
    <2>2. \A e \in Devices : e # d => map'[e] = map[e] /\ rows[e] = T[0][e]
      BY <1>1, <1>3, <1>6
    <2>3. QED
      BY <1>5, <2>1, <2>2 DEF Tracked
  <1>10. PICK U : Traces(U, inbox) /\ U[0] = rows /\ U[Len(inbox)] = T[Len(inbox)]
    <2> HIDE DEF rows
    <2>1. QED
      BY <1>1, <1>3, <1>5, <1>7, <1>8, TraceRestarts DEF Tracked
  <1>11. Settled(U[Len(inbox)])'
    BY <1>1, <1>5, <1>10 DEF Tracked, Settled
  <1>12. QED
    BY <1>1, <1>9, <1>10, <1>11 DEF Tracked

LEMMA TrackFinish ==
  ASSUME Types, SeenInv, TrackInv, Finish
  PROVE  TrackInv'
  <1> DEFINE m == Head(inbox)
  <1>1. /\ inbox # <<>> /\ inbox' = Tail(inbox) /\ Concerned \subseteq seen
        /\ map' = map /\ db' = db /\ pending' = pending /\ orderly' = orderly
    BY DEF Finish, coreVars
  <1>2. m \in Ops /\ Concerned = IF m.op = "sync" THEN Devices ELSE {m.dev}
    BY <1>1, InHand DEF Types, Concerned
  <1>3. map \in [Devices -> Rows \union {None}] /\ inbox \in Seq(Ops)
    BY DEF Types, HandlerTypes, Tables
  <1>4. SUFFICES ASSUME orderly PROVE \E T : Tracked(T)'
    BY <1>1 DEF TrackInv, Tracked
  <1>5. PICK T : Tracked(T)
    BY <1>4 DEF TrackInv, Tracked
  <1>6. T[0] \in [Devices -> Rows \union {None}]
    BY <1>3, <1>5 DEF Tracked, Traces, Tables
  <1>7. PICK U : /\ Traces(U, Tail(inbox)) /\ U[0] = Applied(T[0], m)
                 /\ U[Len(Tail(inbox))] = T[Len(inbox)]
    BY <1>1, <1>3, <1>5, TraceShrinks DEF Tracked
  <1>8. ASSUME NEW d \in Devices
        PROVE  Admits(map[d], Applied(T[0], m)[d])
    <2>1. Admits(map[d], T[0][d])
      BY <1>5 DEF Tracked
    <2>2. CASE d \notin Concerned
      BY <1>2, <2>1, <2>2 DEF Applied
    <2>3. CASE d \in Concerned
      <3>1. Applied(T[0], m)[d] = Incoming(m, d, T[0][d])
        BY <1>2, <2>3 DEF Applied
      <3>2. Admits(map[d], Incoming(m, d, map[d]))
        BY <1>1, <2>3 DEF SeenInv
      <3>3. Admits(Incoming(m, d, map[d]), Incoming(m, d, T[0][d]))
        BY <1>2, <1>3, <1>6, <2>1, <2>3, AdmitsIncoming
      <3>4. QED
        BY <3>1, <3>2, <3>3 DEF Admits
    <2>4. QED
      BY <2>2, <2>3
  <1>9. Settled(U[Len(inbox)])'
    BY <1>1, <1>5, <1>7 DEF Tracked, Settled
  <1>10. QED
    BY <1>1, <1>7, <1>8, <1>9 DEF Tracked

LEMMA TrackCallback ==
  ASSUME Types, CallbackInv, TrackInv, CallbackFails \/ CallbackServes \/ CallbackRemoves
  PROVE  TrackInv'
  <1>1. /\ hDev \in Devices /\ inbox' = inbox
        /\ db' = db /\ pending' = pending /\ orderly' = orderly
    BY DEF CallbackFails, CallbackServes, CallbackRemoves, EndCallback, coreVars, Types,
           HandlerTypes
  <1>2. map \in [Devices -> Rows \union {None}]
    BY DEF Types, HandlerTypes, Tables
  <1>3. SUFFICES ASSUME orderly PROVE \E T : Tracked(T)'
    BY <1>1 DEF TrackInv, Tracked
  <1>4. PICK T : Tracked(T)
    BY <1>3 DEF TrackInv, Tracked
  <1>5. \A d \in Devices : Admits(map'[d], T[0][d])
    <2>1. CASE map' = map
      BY <1>4, <2>1 DEF Tracked
    <2>2. CASE CallbackFails /\ map' # map
      <3>1. map' = [map EXCEPT ![hDev] = None] /\ ~hOld /\ map[hDev] # None
        BY <2>2 DEF CallbackFails
      <3>2. map[hDev].kind = "unsupported"
        BY <2>2, <3>1 DEF CallbackFails, EndCallback, AddRefused, CallbackInv
      <3>3. map[hDev] = T[0][hDev]
        BY <1>1, <1>4, <3>1 DEF Tracked, Admits
      <3>4. Admits(None, T[0][hDev])
        BY <3>1, <3>2, <3>3 DEF Admits
      <3>5. map'[hDev] = None /\ \A d \in Devices : d # hDev => map'[d] = map[d]
        BY <1>1, <1>2, <3>1
      <3>6. QED
        BY <1>4, <3>4, <3>5 DEF Tracked
    <2>3. QED
      BY <2>1, <2>2 DEF CallbackServes, CallbackRemoves
  <1>6. QED
    BY <1>1, <1>4, <1>5 DEF Tracked, Settled

LEMMA TrackStep ==
  ASSUME GatewayInv, TrackInv, [Next]_vars
  PROVE  TrackInv'
  <1>0. Types /\ DownInv /\ CallbackInv /\ SeenInv
    BY DEF GatewayInv
  <1>1. CASE Request
    BY <1>0, <1>1, TrackRequest DEF TrackInv
  <1>2. CASE Handler
    BY <1>0, <1>2, TrackStore, TrackFinish, TrackCallback DEF Handler
  <1>3. CASE RequestSync
    <2>1. PICK q : (pending' = pending \/ pending' = pending \union {q}) /\ q.op = "sync"
      <3>1. SyncOp("list", Empty, {}).op = "sync"
        BY DEF SyncOp
      <3>2. QED
        BY <1>3, <3>1 DEF RequestSync
    <2>2. ASSUME NEW rows, Settled(rows) PROVE Settled(rows)'
      BY <1>3, <2>1, <2>2 DEF Settled, RequestSync
    <2>3. QED
      BY <1>3, <2>2 DEF RequestSync, TrackInv
  <1>4. CASE LinkDrops \/ Crash
    BY <1>4 DEF LinkDrops, Crash, TrackInv
  <1>5. CASE Boot
    BY <1>0, <1>5 DEF Boot, DownInv, TrackInv
  <1>6. CASE Saver \/ LinkReturns \/ CoreDrops \/ CoreReturns \/ UNCHANGED vars
    <2>1. UNCHANGED <<db, pending, map, inbox, orderly>>
      BY <1>6 DEF Saver, Snapshot, WriteFile, SaverStep, LinkReturns, CoreDrops, CoreReturns,
                  vars, coreVars
    <2>2. QED
      BY <2>1 DEF TrackInv, Settled
  <1>7. QED
    BY <1>0, <1>1, <1>2, <1>3, <1>4, <1>5, <1>6, TrackNotify DEF Next, Rest

-----------------------------------------------------------------------------
(* The theorems.                                                           *)

\* The inductive invariant: types, what the callbacks find and leave, how far the
\* message in hand is in the map, and that the map with the messages on the way
\* leads to the database.
THEOREM ConfigCorrect == Spec => []IInv
  <1>1. Init => IInv
    <2>1. Init => TrackInv
      BY InitGives DEF InitFacts, TrackInv
    <2>2. QED
      BY <2>1, GatewayInit DEF IInv
  <1>2. IInv /\ [Next]_vars => IInv'
    BY GatewayStep, TrackStep DEF IInv
  <1>3. QED
    BY <1>1, <1>2, PTL DEF Spec

\* An enabled device is polled as configured, a disabled one is not, and a device
\* that is not in the map is neither polled nor writable, for any number of
\* devices, changes, errors and restarts.
THEOREM ServicesFollow == Spec => []GatewaySafe
  <1>1. IInv => GatewaySafe
    <2> SUFFICES ASSUME IInv PROVE GatewaySafe
      OBVIOUS
    <2>1. \A i \in DOMAIN inbox : inbox[i] \in Ops
      BY DEF IInv, GatewayInv, Types, HandlerTypes
    <2>2. TypeOK
      BY <2>1 DEF IInv, GatewayInv, Types, CoreTypes, LinkTypes, HandlerTypes, CacheTypes, TypeOK
    <2>3. QED
      BY <2>2 DEF IInv, GatewayInv, GatewaySafe
  <1>2. QED
    BY <1>1, ConfigCorrect, PTL

\* The fold of After over the messages, by its last message.
LEMMA FoldAfter ==
  ASSUME NEW rows \in Tables, NEW s \in Seq(Ops)
  PROVE  \E g : /\ FoldLeft(After, rows, s) = g[1 .. Len(s)]
               /\ \A t \in SUBSET (1 .. Len(s)) :
                     g[t] = IF t = {} THEN rows ELSE After(g[t \ {Max(t)}], s[Max(t)])
  <1> DEFINE D == DOMAIN s
             Equation(g) == g = [t \in SUBSET D |->
                                   IF t = {} THEN rows ELSE After(g[t \ {Max(t)}], s[Max(t)])]
             iter == CHOOSE g : Equation(g)
             step == [i \in D |-> [x \in Tables |-> After(x, s[i])]]
             pick == [t \in SUBSET D |-> Max(t)]
  <1>1. FoldLeft(After, rows, s) = iter[D]
    BY DEF FoldLeft, MapThenFoldSet
  <1>2. Len(s) \in Nat /\ D = 1 .. Len(s) /\ \A i \in D : s[i] \in Ops
    OBVIOUS
  <1>3. ASSUME NEW x \in Tables, NEW m \in Ops
        PROVE  After(x, m) \in Tables
    <2>1. \A d \in Devices : (m.op # "sync" => m.dev = d) =>
                                Incoming(m, d, x[d]) \in Rows \union {None}
      BY IncomingType DEF Tables
    <2>2. QED
      BY <2>1 DEF After, Tables
  <1>4. step \in [D -> [Tables -> Tables]]
    BY <1>2, <1>3
  <1>5. Picks(pick, D)
    BY <1>2, MaxFacts DEF Picks
  <1>6. IsFiniteSet(D)
    BY <1>2, FS_Interval
  <1>7. PICK g \in [SUBSET D -> Tables] : Folding(g, D, rows, step, pick)
    <2> HIDE DEF step, pick, D
    <2>1. QED
      BY <1>4, <1>5, <1>6, FoldDefined
  <1>8. \A t \in SUBSET D : t # {} => step[pick[t]][g[t \ {pick[t]}]] = After(g[t \ {Max(t)}], s[Max(t)])
    BY <1>5 DEF Picks
  <1>9. Equation(g)
    BY <1>7, <1>8 DEF Folding
  <1>10. Equation(iter)
    <2> HIDE DEF Equation
    <2>1. QED
      BY <1>9
  <1>11. QED
    BY <1>1, <1>2, <1>10

\* What the callbacks make of a message is as good as the message itself.
LEMMA AfterAdmits ==
  ASSUME NEW m \in Ops, NEW x, NEW y \in Tables, \A d \in Devices : Admits(x[d], y[d])
  PROVE  \A d \in Devices : Admits(After(x, m)[d], Applied(y, m)[d])
  <1> SUFFICES ASSUME NEW d \in Devices
               PROVE  Admits(After(x, m)[d], Applied(y, m)[d])
    OBVIOUS
  <1>1. x[d] \in Rows \union {None} /\ y[d] \in Rows \union {None}
    BY DEF Admits, Tables
  <1>2. CASE m.op # "sync" /\ m.dev # d
    BY <1>2 DEF After, Applied
  <1>3. CASE m.op # "sync" => m.dev = d
    <2> DEFINE new == Incoming(m, d, x[d])
    <2>1. Admits(new, Incoming(m, d, y[d])) /\ Applied(y, m)[d] = Incoming(m, d, y[d])
      BY <1>1, <1>3, AdmitsIncoming DEF Applied
    <2>2. After(x, m)[d] = IF x[d] = None /\ new # None /\ new.kind = "unsupported"
                           THEN None ELSE new
      BY <1>3 DEF After
    <2> HIDE DEF new
    <2>3. QED
      BY <2>1, <2>2 DEF Admits
  <1>4. QED
    BY <1>2, <1>3

LEMMA FoldFollowsTrace ==
  ASSUME NEW rows \in Tables, NEW s \in Seq(Ops), NEW T, Traces(T, s),
         \A d \in Devices : Admits(rows[d], T[0][d])
  PROVE  \A d \in Devices : Admits(FoldLeft(After, rows, s)[d], T[Len(s)][d])
  <1> DEFINE n == Len(s)
  <1>0. n \in Nat /\ \A i \in 1 .. n : s[i] \in Ops
    OBVIOUS
  <1>1. PICK g : /\ FoldLeft(After, rows, s) = g[1 .. n]
                 /\ \A t \in SUBSET (1 .. n) :
                       g[t] = IF t = {} THEN rows ELSE After(g[t \ {Max(t)}], s[Max(t)])
    BY FoldAfter
  <1>2. T \in [0 .. n -> Tables] /\ \A i \in 1 .. n : T[i] = Applied(T[i - 1], s[i])
    BY DEF Traces
  <1> HIDE DEF n
  <1> DEFINE Follows(k) == \A d \in Devices : Admits(g[1 .. k][d], T[k][d])
             K == {k \in 0 .. n : Follows(k)}
  <1>3. 0 \in K
    <2>1. 1 .. 0 = {} /\ {} \in SUBSET (1 .. n)
      OBVIOUS
    <2>2. g[1 .. 0] = rows
      BY <1>1, <2>1
    <2>3. QED
      BY <1>0, <2>2
  <1>4. ASSUME NEW k \in 0 .. (n - 1), k \in K
        PROVE  k + 1 \in K
    <2> DEFINE t == 1 .. (k + 1)
    <2>1. k + 1 \in 1 .. n /\ k + 1 \in t /\ t \in SUBSET (1 .. n) /\ \A i \in t : i <= k + 1
      BY <1>0
    <2>2. Max(t) = k + 1
      <3> HIDE DEF t
      <3>1. Max(t) \in t /\ \A i \in t : i <= Max(t)
        BY <1>0, <2>1, MaxFacts
      <3>2. Max(t) \in 1 .. n /\ Max(t) <= k + 1 /\ k + 1 <= Max(t)
        BY <2>1, <3>1
      <3>3. QED
        BY <1>0, <3>2
    <2>3. t \ {k + 1} = 1 .. k
      OBVIOUS
    <2>4. g[t] = After(g[1 .. k], s[k + 1])
      BY <1>1, <2>1, <2>2, <2>3
    <2>5. T[k + 1] = Applied(T[k], s[k + 1]) /\ T[k] \in Tables /\ s[k + 1] \in Ops
      BY <1>0, <1>2, <2>1
    <2>6. Follows(k)
      BY <1>4
    <2>7. Follows(k + 1)
      BY <2>4, <2>5, <2>6, AfterAdmits
    <2> HIDE DEF Follows
    <2>8. QED
      BY <1>0, <2>1, <2>7
  <1>5. n \in K
    <2> HIDE DEF K
    <2>1. \A k \in 0 .. n : k \in K
      BY <1>0, <1>3, <1>4, Induction
    <2>2. QED
      BY <1>0, <2>1
  <1>6. QED
    BY <1>1, <1>5 DEF n

\* While no message is lost and requests do not overlap, the gateway's map with the
\* messages on the way applied is the database, for any number of devices, tags,
\* changes and messages under way: the fold over the inbox follows the trace that
\* the inductive invariant has.
THEOREM MapTracksDatabase == Spec => []TracksDatabase
  <1>1. IInv => TracksDatabase
    <2> SUFFICES ASSUME IInv, orderly, pending = {} PROVE Mirrors(FoldLeft(After, map, inbox))
      BY DEF TracksDatabase
    <2>1. map \in Tables /\ inbox \in Seq(Ops)
      BY DEF IInv, GatewayInv, Types, HandlerTypes
    <2>2. PICK T : Tracked(T)
      BY DEF IInv, TrackInv, Tracked
    <2>3. T[Len(inbox)] = db
      BY <2>2 DEF Tracked, Settled
    <2>4. \A d \in Devices : Admits(FoldLeft(After, map, inbox)[d], db[d])
      BY <2>1, <2>2, <2>3, FoldFollowsTrace DEF Tracked
    <2>5. QED
      BY <2>4 DEF Mirrors, Admits
  <1>2. QED
    BY <1>1, ConfigCorrect, PTL
=============================================================================
