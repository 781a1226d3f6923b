------------------------------ MODULE ConfigSync ------------------------------
(***************************************************************************)
(* Device configuration on its way from gateway-core's database to the     *)
(* protocol gateway: REST requests commit a change and publish it without  *)
(* waiting (gateway-core/src/routes, mqtt); ConfigSubscriber applies the   *)
(* messages to MQTTDeviceManager (service/config_subscriber.go), whose     *)
(* callbacks (cmd/gateway/main.go) tell the polling service and the        *)
(* command handler, and whose cache file survives a restart.               *)
(*                                                                         *)
(* A device's fields and a tag's fields are the number of the change that  *)
(* wrote them.  A topic is the kind of its message.  MQTT delivers in the  *)
(* order of the publishes, and only to a client that is subscribed: every  *)
(* session is clean and nothing is retained.                               *)
(***************************************************************************)
EXTENDS Naturals, Sequences, FiniteSets, SequencesExt

CONSTANTS
    Devices,     \* device ids; a deleted one never comes back (UUIDs)
    Tags,        \* tag ids of one device
    ListLimit,   \* the most devices a sync answer lists (1000)
    MaxEvents,   \* bound: changes to the database, ends of the gateway process and
                 \* lost connections
    None,        \* no entry
    Torn         \* a cache file that does not parse

ASSUME ConfigSyncAssumption ==
    /\ IsFiniteSet(Devices) /\ IsFiniteSet(Tags)
    /\ ListLimit \in Nat
    /\ MaxEvents \in Nat \ {0}
    /\ None \notin Devices

VARIABLES
    db,         \* the devices table with its tags
    used,       \* device and tag ids that were ever inserted
    changes,    \* the number of the last change
    pending,    \* core: notifications and sync answers not yet published
    coreUp,     \* core is connected to the broker
    alive,      \* the gateway process runs
    linkUp,     \* the gateway is connected to the broker
    subscribed, \* the broker has the gateway's subscriptions
    inbox,      \* messages sent to the gateway; it handles the first
    syncPc,     \* requestSync: "sleep" or "sent"
    map,        \* MQTTDeviceManager.devices
    polled,     \* what the polling service was last told of each device
    writable,   \* CommandHandler.devices
    seen,       \* devices of the message in hand already looked at
    hDev,       \* the device whose callback comes next
    hOld,       \* whether the map already had it
    cache,      \* the YAML file
    spawned,    \* persistCache goroutines that have not read the map yet
    snaps,      \* the snapshots of those that have opened the file
    restarts, drops,
    orderly     \* history: since a sync answer that was up to date when it was
                \* published, no message was lost and no requests overlapped

coreVars    == <<db, used, changes, pending>>
linkVars    == <<coreUp, linkUp, subscribed, drops>>
handlerVars == <<seen, hDev, hOld>>
serviceVars == <<polled, writable>>
cacheVars   == <<cache, spawned, snaps>>
vars == <<coreVars, linkVars, alive, inbox, syncPc, map, serviceVars, handlerVars,
          cacheVars, restarts, orderly>>

\* What a device's protocol and enabled flag decide: polled and writable, only
\* writable, or refused by the callbacks (GetPool does not know it).
Kinds == {"ok", "disabled", "unsupported"}

\* Rows of the tables devices and tags.
Ids == {<<d>> : d \in Devices} \union (Devices \X Tags)

Untagged == [t \in Tags |-> 0]
Empty == [d \in Devices |-> None]
Present(rows) == {d \in Devices : rows[d] # None}

\* The database may hold devices from earlier.
Init ==
    /\ changes = 1
    /\ db \in [Devices -> {None, [kind |-> "ok", ver |-> 1, tags |-> [t \in Tags |-> 1]]}]
    /\ used = {id \in Ids : db[id[1]] # None}
    /\ pending = {}
    /\ coreUp = TRUE /\ linkUp = FALSE /\ subscribed = FALSE /\ drops = 0
    /\ alive = FALSE /\ inbox = <<>> /\ syncPc = "sent"
    /\ map = Empty /\ polled = Empty /\ writable = Empty
    /\ seen = {} /\ hDev = None /\ hOld = FALSE
    /\ cache = Empty /\ spawned = 0 /\ snaps = {}
    /\ restarts = 0 /\ orderly = FALSE

-----------------------------------------------------------------------------
(* gateway-core: a request commits, and leaves a notification to publish.  *)

\* The database holds rows, written by the next change; op is to be published.
Commit(rows, ids, op) ==
    /\ changes + restarts + drops < MaxEvents
    /\ db' = rows
    /\ used' = used \union ids
    /\ changes' = changes + 1
    /\ pending' = pending \union {op}
    /\ orderly' = (orderly /\ pending = {})
    /\ UNCHANGED <<linkVars, alive, inbox, syncPc, map, serviceVars, handlerVars,
                   cacheVars, restarts>>

DeviceOp(d, row, ready) == [op |-> "device", dev |-> d, row |-> row, ready |-> ready]
TagOp(d, t, ver) == [op |-> "tag", dev |-> d, tag |-> t, ver |-> ver]

CreateDevice(d, kind) ==
    LET row == [kind |-> kind, ver |-> changes + 1, tags |-> Untagged]
    IN  /\ <<d>> \notin used
        /\ Commit([db EXCEPT ![d] = row], {<<d>>}, DeviceOp(d, row, TRUE))

\* The tags for the notification are read afterwards.
UpdateDevice(d, kind) ==
    LET row == [kind |-> kind, ver |-> changes + 1, tags |-> db[d].tags]
    IN  /\ db[d] # None
        /\ Commit([db EXCEPT ![d] = row], {}, DeviceOp(d, row, FALSE))

DeleteDevice(d) ==
    /\ db[d] # None
    /\ Commit([db EXCEPT ![d] = None], {}, [op |-> "delete", dev |-> d])

\* create and update of a tag.
PutTag(d, t) ==
    /\ db[d] # None
    /\ db[d].tags[t] # 0 \/ <<d, t>> \notin used
    /\ Commit([db EXCEPT ![d].tags[t] = changes + 1], {<<d, t>>},
              TagOp(d, t, changes + 1))

DeleteTag(d, t) ==
    /\ db[d] # None
    /\ db[d].tags[t] # 0
    /\ Commit([db EXCEPT ![d].tags[t] = 0], {}, TagOp(d, t, 0))

\* The tags the database has for d now.
TagsOf(d) == IF db[d] = None THEN Untagged ELSE db[d].tags

\* Core goes from one step of an operation to the next.
Advance(old, new) ==
    /\ old \in pending
    /\ pending' = (pending \ {old}) \union {new}
    /\ UNCHANGED <<db, used, changes, linkVars, alive, inbox, syncPc, map,
                   serviceVars, handlerVars, cacheVars, restarts, orderly>>

\* update's getDeviceTags has answered.
FetchTags(p) ==
    /\ p.op = "device" /\ ~p.ready
    /\ Advance(p, DeviceOp(p.dev, [p.row EXCEPT !.tags = TagsOf(p.dev)], TRUE))

SyncOp(step, rows, left) ==
    [op |-> "sync", id |-> restarts, at |-> step, rows |-> rows, left |-> left]

\* handleSyncRequest: the list of devices, without tags.
SyncLists(p) ==
    /\ p.op = "sync" /\ p.at = "list"
    /\ \E S \in SUBSET Present(db) :
          /\ Cardinality(S) = ListLimit \/ S = Present(db)
          /\ Cardinality(S) <= ListLimit
          /\ Advance(p, [p EXCEPT !.at = "tags",
                                  !.rows = [d \in Devices |->
                                              IF d \in S THEN [db[d] EXCEPT !.tags = Untagged]
                                              ELSE None],
                                  !.left = S])

\* ... and the tags of one of them.
SyncFetches(p, d) ==
    /\ p.op = "sync"
    /\ d \in p.left
    /\ Advance(p, [p EXCEPT !.rows[d].tags = TagsOf(d), !.left = @ \ {d}])

Ready(p) == CASE p.op = "device" -> p.ready
              [] p.op = "sync"   -> p.at = "tags" /\ p.left = {}
              [] OTHER           -> TRUE

\* MqttService.publish: skipped while core is disconnected, and lost unless the
\* gateway is subscribed.
Publish(p) ==
    LET delivered == coreUp /\ linkUp /\ subscribed
    IN  /\ p \in pending /\ Ready(p)
        /\ pending' = pending \ {p}
        /\ inbox' = IF delivered THEN Append(inbox, p) ELSE inbox
        /\ orderly' = IF p.op # "sync" THEN orderly /\ delivered
                      ELSE IF delivered THEN pending = {p} /\ p.rows = db
                      ELSE orderly
        /\ UNCHANGED <<db, used, changes, linkVars, alive, syncPc, map, serviceVars,
                       handlerVars, cacheVars, restarts>>

-----------------------------------------------------------------------------
(* ConfigSubscriber and MQTTDeviceManager.  paho runs one handler at a     *)
(* time, so nothing else writes the map.                                   *)

\* What message m makes of the entry of device d.
Incoming(m, d, entry) ==
    CASE m.op = "sync"   -> m.rows[d]
      [] m.op = "device" -> m.row
      [] m.op = "delete" -> None
      [] m.op = "tag"    -> IF entry = None THEN None
                            ELSE [entry EXCEPT !.tags[m.tag] = m.ver]

\* The devices that the message in hand is about.
Concerned == IF Head(inbox).op = "sync" THEN Devices ELSE {Head(inbox).dev}

\* handleMessage looks at device d.  A bulk message removes what it does not list
\* last.
Handles(d) ==
    /\ alive
    /\ inbox # <<>>
    /\ hDev = None
    /\ d \in Concerned \ seen
    /\ Incoming(Head(inbox), d, map[d]) = None =>
          \A e \in Concerned \ seen : Incoming(Head(inbox), e, map[e]) = None
    /\ seen' = seen \union {d}
    /\ UNCHANGED <<coreVars, linkVars, alive, inbox, syncPc, serviceVars, cacheVars,
                   restarts, orderly>>

\* AddDeviceFromConfig, UpdateDeviceFromConfig or DeleteDeviceByID up to the callback.
PutEntry(d, entry) ==
    /\ map' = [map EXCEPT ![d] = entry]
    /\ hDev' = d
    /\ hOld' = (map[d] # None)

\* Mutant: a bulk message does not remove the devices it does not list.
MutantKeepsUnlisted(d) ==
    LET new == Incoming(Head(inbox), d, map[d])
    IN  /\ Handles(d)
        /\ IF new = None /\ (map[d] = None \/ Head(inbox).op = "sync")
           THEN UNCHANGED <<map, hDev, hOld>>
           ELSE PutEntry(d, new)

\* A tag of an unknown device and the removal of an unknown device are ignored.
Store(d) ==
    LET new == Incoming(Head(inbox), d, map[d])
    IN  /\ Handles(d)
        /\ IF new = None /\ map[d] = None
           THEN UNCHANGED <<map, hDev, hOld>>
           ELSE PutEntry(d, new)

\* go m.persistCache().
Save == spawned' = spawned + 1

\* The callback returns.
EndCallback ==
    /\ hDev # None
    /\ hDev' = None
    /\ UNCHANGED <<coreVars, linkVars, alive, inbox, syncPc, seen, hOld, cache, snaps,
                   restarts, orderly>>

\* RegisterDevice refuses a device that it has (ErrDeviceExists).
AddRefused == ~hOld /\ polled[hDev] # None

\* The callback's error: an added device leaves the map again, an edited one stays
\* in it; neither is saved.
CallbackFails ==
    /\ EndCallback
    /\ map[hDev] # None
    /\ map[hDev].kind = "unsupported" \/ AddRefused
    /\ map' = IF hOld THEN map ELSE [map EXCEPT ![hDev] = None]
    /\ UNCHANGED <<serviceVars, spawned>>

\* Mutant: a device that is disabled stays with the polling service.
MutantPollsDisabled ==
    /\ EndCallback
    /\ map[hDev] # None
    /\ map[hDev].kind # "unsupported" /\ ~AddRefused
    /\ polled' = IF map[hDev].kind = "ok" THEN [polled EXCEPT ![hDev] = map[hDev]] ELSE polled
    /\ writable' = [writable EXCEPT ![hDev] = map[hDev]]
    /\ Save
    /\ UNCHANGED map

\* RegisterDevice or ReplaceDevice, then CommandHandler.AddDevice.
CallbackServes ==
    /\ EndCallback
    /\ map[hDev] # None
    /\ map[hDev].kind # "unsupported" /\ ~AddRefused
    /\ polled' = [polled EXCEPT ![hDev] = IF map[hDev].kind = "ok" THEN map[hDev] ELSE None]
    /\ writable' = [writable EXCEPT ![hDev] = map[hDev]]
    /\ Save
    /\ UNCHANGED map

\* UnregisterDevice and CommandHandler.RemoveDevice.
CallbackRemoves ==
    /\ EndCallback
    /\ map[hDev] = None
    /\ polled' = [polled EXCEPT ![hDev] = None]
    /\ writable' = [writable EXCEPT ![hDev] = None]
    /\ Save
    /\ UNCHANGED map

\* handleMessage returns.
Finish ==
    /\ alive
    /\ inbox # <<>>
    /\ hDev = None
    /\ Concerned \subseteq seen
    /\ seen' = {}
    /\ inbox' = Tail(inbox)
    /\ UNCHANGED <<coreVars, linkVars, alive, syncPc, map, serviceVars, hDev, hOld,
                   cacheVars, restarts, orderly>>

\* Mutant: a gateway that has devices from its cache does not ask.
MutantTrustsCache ==
    /\ alive /\ linkUp
    /\ syncPc = "sleep"
    /\ syncPc' = "sent"
    /\ pending' = IF coreUp /\ map = Empty THEN pending \union {SyncOp("list", Empty, {})}
                  ELSE pending
    /\ UNCHANGED <<db, used, changes, linkVars, alive, inbox, map, serviceVars,
                   handlerVars, cacheVars, restarts, orderly>>

\* requestSync, 2 s after Start and never again.  (A publish while the client
\* reconnects waits for the connection.)
RequestSync ==
    /\ alive /\ linkUp
    /\ syncPc = "sleep"
    /\ syncPc' = "sent"
    /\ pending' = IF coreUp THEN pending \union {SyncOp("list", Empty, {})} ELSE pending
    /\ UNCHANGED <<db, used, changes, linkVars, alive, inbox, map, serviceVars,
                   handlerVars, cacheVars, restarts, orderly>>

-----------------------------------------------------------------------------
(* persistCache and the file.                                              *)

\* A persistCache goroutine takes a step.
SaverStep ==
    UNCHANGED <<coreVars, linkVars, alive, inbox, syncPc, map, serviceVars,
                handlerVars, restarts, orderly>>

\* The snapshot, under the read lock; then os.WriteFile opens the file, which
\* truncates it ...
Snapshot ==
    /\ spawned > 0
    /\ spawned' = spawned - 1
    /\ snaps' = snaps \union {map}
    /\ cache' = Empty
    /\ SaverStep

\* ... and writes it from the start: over a longer content that another
\* goroutine has written since, the end of that one remains.
WriteFile(s) ==
    /\ s \in snaps
    /\ snaps' = snaps \ {s}
    /\ \/ cache' = s
       \/ cache \notin {Empty, s} /\ cache' = Torn
    /\ UNCHANGED spawned
    /\ SaverStep

-----------------------------------------------------------------------------
(* The gateway process and the connections.                                *)

\* LoadDevices validates every device and gives up at the first invalid one:
\* Device.Validate wants a tag.
Loadable == cache # Torn /\ \A d \in Present(cache) : cache[d].tags # Untagged

Loaded == IF Loadable THEN cache ELSE Empty

\* main: the cached devices are registered, the command handler is seeded with
\* them, the config topics are subscribed and requestSync is started.
Boot ==
    /\ ~alive
    /\ alive' = TRUE
    /\ linkUp' = TRUE
    /\ subscribed' = TRUE
    /\ syncPc' = "sleep"
    /\ map' = Loaded
    /\ polled' = [d \in Devices |-> IF Loaded[d] # None /\ Loaded[d].kind = "ok"
                                    THEN Loaded[d] ELSE None]
    /\ writable' = Loaded
    /\ UNCHANGED <<coreVars, coreUp, drops, inbox, handlerVars, cacheVars, restarts,
                   orderly>>

\* The process ends, at any moment; the file stays as it is.
Crash ==
    /\ alive
    /\ changes + restarts + drops < MaxEvents
    /\ restarts' = restarts + 1
    /\ alive' = FALSE /\ linkUp' = FALSE /\ subscribed' = FALSE
    /\ inbox' = <<>> /\ syncPc' = "sent"
    /\ map' = Empty /\ polled' = Empty /\ writable' = Empty
    /\ seen' = {} /\ hDev' = None /\ hOld' = FALSE
    /\ spawned' = 0 /\ snaps' = {}
    /\ orderly' = FALSE
    /\ UNCHANGED <<coreVars, coreUp, drops, cache>>

\* The gateway loses the broker, and the broker its clean session.  What it has
\* received so far it still handles.
LinkDrops ==
    /\ alive /\ linkUp
    /\ changes + restarts + drops < MaxEvents
    /\ drops' = drops + 1
    /\ linkUp' = FALSE /\ subscribed' = FALSE
    /\ \E n \in (IF seen = {} THEN 0 ELSE 1) .. Len(inbox) : inbox' = SubSeq(inbox, 1, n)
    /\ orderly' = FALSE
    /\ UNCHANGED <<coreVars, coreUp, alive, syncPc, map, serviceVars, handlerVars,
                   cacheVars, restarts>>

\* paho reconnects; onConnect only sets a flag.
LinkReturns ==
    /\ alive /\ ~linkUp
    /\ linkUp' = TRUE
    /\ UNCHANGED <<coreVars, coreUp, subscribed, drops, alive, inbox, syncPc, map,
                   serviceVars, handlerVars, cacheVars, restarts, orderly>>

CoreDrops ==
    /\ coreUp
    /\ changes + restarts + drops < MaxEvents
    /\ drops' = drops + 1
    /\ coreUp' = FALSE
    /\ UNCHANGED <<coreVars, linkUp, subscribed, alive, inbox, syncPc, map, serviceVars,
                   handlerVars, cacheVars, restarts, orderly>>

\* mqtt.js reconnects and subscribes again.
CoreReturns ==
    /\ ~coreUp
    /\ coreUp' = TRUE
    /\ UNCHANGED <<coreVars, linkUp, subscribed, drops, alive, inbox, syncPc, map,
                   serviceVars, handlerVars, cacheVars, restarts, orderly>>

-----------------------------------------------------------------------------

Request == \E d \in Devices :
              \/ \E kind \in Kinds : CreateDevice(d, kind) \/ UpdateDevice(d, kind)
              \/ DeleteDevice(d)
              \/ \E t \in Tags : PutTag(d, t) \/ DeleteTag(d, t)

Notify == \E p \in pending :
             \/ FetchTags(p) \/ SyncLists(p) \/ Publish(p)
             \/ \E d \in Devices : SyncFetches(p, d)

Handler == \/ Finish
           \/ CallbackFails \/ CallbackServes \/ CallbackRemoves
           \/ \E d \in Devices : Store(d)

Saver == Snapshot \/ \E s \in snaps : WriteFile(s)

\* Everything is handled, and nothing has to happen.
Rest == /\ pending = {} /\ inbox = <<>> /\ spawned = 0 /\ snaps = {}
        /\ alive /\ linkUp /\ coreUp /\ syncPc = "sent"
        /\ UNCHANGED vars

Next == \/ Request
        \/ Notify
        \/ Handler
        \/ RequestSync
        \/ Saver
        \/ Boot \/ Crash
        \/ LinkDrops \/ LinkReturns \/ CoreDrops \/ CoreReturns
        \/ Rest

Spec == Init /\ [][Next]_vars

(***************************************************************************)
(* Fairness.  Node's event loop and the Go scheduler run what can run, the *)
(* database answers, the orchestrator restarts the gateway, and both MQTT  *)
(* clients reconnect.  No request has to come, nothing has to fail.        *)
(***************************************************************************)
Fairness == /\ WF_vars(Notify) /\ WF_vars(Handler) /\ WF_vars(RequestSync)
            /\ WF_vars(Saver) /\ WF_vars(Boot)
            /\ WF_vars(LinkReturns) /\ WF_vars(CoreReturns)

FairSpec == Spec /\ Fairness

-----------------------------------------------------------------------------
(* Properties.                                                             *)

Versions == 0 .. MaxEvents
Rows == [kind : Kinds, ver : Versions, tags : [Tags -> Versions]]
ASSUME NoneAssumption == None \notin Rows
Tables == [Devices -> Rows \union {None}]
Ops == [op : {"device"}, dev : Devices, row : Rows, ready : BOOLEAN]
       \union [op : {"delete"}, dev : Devices]
       \union [op : {"tag"}, dev : Devices, tag : Tags, ver : Versions]
       \union [op : {"sync"}, id : 0 .. MaxEvents, at : {"list", "tags"},
               rows : Tables, left : SUBSET Devices]

\* Every variable has its type; the callback runs for a device while its message is
\* handled.
TypeOK ==
    /\ db \in Tables /\ used \subseteq Ids /\ changes \in Versions
    /\ \A p \in pending : p \in Ops
    /\ coreUp \in BOOLEAN /\ linkUp \in BOOLEAN /\ subscribed \in BOOLEAN
    /\ drops \in 0 .. MaxEvents /\ restarts \in 0 .. MaxEvents
    /\ alive \in BOOLEAN /\ syncPc \in {"sleep", "sent"}
    /\ \A i \in DOMAIN inbox : inbox[i] \in Ops
    /\ map \in Tables /\ polled \in Tables /\ writable \in Tables
    /\ seen \subseteq Devices
    /\ hDev \in Devices \union {None} /\ hOld \in BOOLEAN
    /\ hDev # None => hDev \in seen
    /\ seen # {} => inbox # <<>>
    /\ cache \in Tables \union {Torn}
    /\ spawned \in Nat
    /\ \A s \in snaps : s \in Tables
    /\ orderly \in BOOLEAN

\* The map after all of message m; a device the callback refuses does not enter it.
After(rows, m) ==
    [d \in Devices |->
        IF m.op # "sync" /\ m.dev # d THEN rows[d]
        ELSE LET new == Incoming(m, d, rows[d])
             IN  IF rows[d] = None /\ new # None /\ new.kind = "unsupported"
                 THEN None ELSE new]

Mirrors(rows) ==
    \A d \in Devices :
        \/ rows[d] = db[d]
        \/ rows[d] = None /\ db[d].kind = "unsupported"

\* While no message is lost and requests do not overlap, the gateway's map with
\* the messages on the way applied is the database: device, tag and bulk messages
\* are complete, in order, and applied right, also when one of them is half applied.
TracksDatabase ==
    orderly /\ pending = {} => Mirrors(FoldLeft(After, map, inbox))

\* The callbacks keep the polling service and the command handler with the map,
\* through edits, bulk messages, errors, restarts and cached starts: an enabled
\* device is polled as configured, a disabled one is not, and a device that is not in
\* the map is neither polled nor writable.
ServiceFollowsMap ==
    \A d \in Devices \ {hDev} :
        /\ map[d] = None => polled[d] = None /\ writable[d] = None
        /\ map[d] # None /\ map[d].kind # "unsupported" =>
              /\ writable[d] = map[d]
              /\ polled[d] = IF map[d].kind = "ok" THEN map[d] ELSE None

\* The safety of the gateway's side, with the types.
GatewaySafe == TypeOK /\ ServiceFollowsMap

\* Nothing but this process's own sync is under way, and both sides are connected.
Calm == /\ alive /\ linkUp /\ coreUp /\ subscribed
        /\ \A p \in pending : p.op = "sync" /\ p.id = restarts

\* A gateway that starts in a calm moment gets the database's state, whatever its
\* cache held: stale, torn, or devices deleted meanwhile.
StartReconciles == syncPc = "sleep" /\ Calm ~> Mirrors(map) \/ ~Calm
=============================================================================
