# A TLA+ model of the VOLTHA read-write core

VOLTHA's core (`rw_core`) manages the devices of a passive optical network: it
keeps every OLT (a *root* or *parent* device) and ONU (a *child* device) in a KV
store, sends the operator's requests to the adapter of the device, takes the
adapter's reports, and presents each OLT with its ONUs to an SDN controller as
one *logical device*. This directory holds TLA+ modules for the core's
concurrent parts, the TLC runs that check them on small instances, and TLAPS
proofs.

## Parts of the system

| Part | State | Operations | What makes it hard | What it should guarantee |
|---|---|---|---|---|
| Request queue (`utils/request_queue.go`) | linked list of requests, one completion channel each, `last`, `current` | wait for the green light, give up, complete | cancellation at any moment, hand-over of channels | mutual exclusion, order of arrival, no lost wake-up |
| Transition table (`device/state/transitions.go`) | rows of previous and current states with handlers | look up the best row | wildcards at several levels, rows of three kinds | every deletion leads to removal |
| Device agent (`device/agent.go`) | device, transient state, lock, reconcile channel, stop flag | enable, disable, status report, delete, force delete, reconcile, abort, stop | handlers and transient state outside the lock, KV failures, restarts | memory agrees with the store, deletions finish, a removed device stays removed |
| Transient state loader (`device/transientstate`) | transient state in memory and store | load, update, delete | a lock of its own, next to the device lock | store written first |
| Device manager (`device/manager*.go`) | map of agents, root devices | northbound and southbound calls, loading on demand, adapter restarts | check-then-act on the map | one agent per device, no duplicate child |
| Logical device manager and agent (`device/logical_*.go`) | logical devices, flows, groups, meters, ports, routes | flow, group, meter and port changes; start, stop, load | several locks at once, partial failures with reverts, ordered events | one logical device per OLT, no deadlock, device rules follow the logical tables |
| Caches and loaders (`device/flow`, `group`, `meter`, `port`, `logical_port`) | map of entries, one lock per entry, deleted flag | lock or create, lock, update, delete, list | an entry deleted while somebody waits for its lock | at most one live entry per key, no handle of a dead entry |
| Device flows, groups, PM, ports, images (`device/agent_*.go`) | per-device caches, image states | add, delete, update, with the adapter's answer | answers that arrive late, early returns with the lock | cache agrees with what was accepted |
| Routes (`route/device_route.go`) | path table, port caches | compute, look up, remove | cache invalidation | a route follows existing ports |
| Flow decomposition (`flowdecomposition`) | none | logical rule to device rules | many cases, a route that may be missing | the rules of a flow fit together |
| Adapter manager (`core/adapter`) | agents by adapter and by endpoint, rolling updates, ring of replicas | register, restart, rolling update, endpoint choice | overlapping registrations, failures half-way, a cached ring | every adapter has one client at work, one owner per device |
| Event manager (`device/event`) | two bounded queues | enqueue, stream | queue full, stream broken | order, no loss while connected |
| KV access (`db/model`, `core/kv.go`) | connection | get, set, remove, list | failures, retries | a failed write changes nothing |
| Start-up, API, extension manager, configuration, mocks | none that is shared | delegation | | |

The request queue is the lock of every device agent and logical device agent.
A device agent stores a changed device, releases the lock and asks the
transition table for handlers; these call back into the device manager, which
takes locks of other agents, creates and deletes logical devices and stops
agents. A flow, group or meter request works on the tables of the logical device,
decomposes flows along the routes and calls the device agents; a port report
goes the other way, from the device agent to the logical ports, the routes and
the events for the controller. `PROJECT.json` lists the parts with their
sources, and under `hazards` what is hard to test in them, at the line where it
bites.

## Modules

| Module | Models |
|---|---|
| `FifoLock` | what the request queue promises: a lock granted in order of arrival, callers may give up |
| `RequestQueue` | `request_queue.go`: linked list, channels, both branches of a cancellation |
| `RequestQueueProofs` | the theorems about `RequestQueue` |
| `StateTransitions` | `transitions.go`: all rows, matching and choice of the row, as operators |
| `DeviceAgent` | one device: its agent, the goroutines working for it, the KV store, its logical devices |
| `MCDeviceAgent` | instances of `DeviceAgent`: sets of adapter reports, symmetry of goroutines |
| `EntryTable` | what a cache or loader promises: one entry per key, one user per entry, atomic operations |
| `EntryLoader` | the five caches and loaders of flows, groups, meters, ports and logical ports |
| `EntryLoaderProofs`, `EntryTableSteps`, `EntryTableProofs` | the theorems about `EntryLoader` |
| `FlowDecomposition` | routes and the flow decomposer, as operators |
| `LogicalFlows` | flow, group and meter requests with the device calls they make |
| `DeviceRoutes` | `device_route.go`: the stored routes and their upkeep, as operators |
| `EventStreams` | `event.go`: the change event channel and the streams that drain it |
| `EventStreamsProofs` | the theorem about `EventStreams` |
| `LogicalPorts` | ports of devices and logical devices, with `DeviceRoutes` and `EventStreams` |
| `EndpointManager` | `endpoint_manager.go`: the ring of replicas and the lookup of an owner |
| `Adapters` | the adapter manager, its agents and the restart handler, with `EndpointManager` |
| `MCEntryLoader`, `MCLogicalFlows`, `MCLogicalPorts`, `MCAdapters` | instances for TLC |

Operators named `...Unchecked`, `...KeepsLock` and so on, marked *Mutant* in
their comment, are wrong variants of the definition that follows them. Each one
makes some property fail, which shows that the property depends on that code.

### RequestQueue

Requests are numbered in order of arrival, and channel `r` is the one request
`r` made; request `r` waits on channel `r - 1`. One action is one section under
`rq.mutex`: `Enqueue` (arrival), `Acquire` (green light), `Drop` (cancelled, but
the light was already on), `Abort` (cancelled while waiting), `RequestComplete`.
Contexts may be cancelled at any time, so no variable records them.

### StateTransitions

Each device state is a record of admin, connection, operational and transient
state. `getHandler` gives the strength of a match as a number, as `toInt` does
in the code; `getTransitionHandler` chooses the row: an exact row of the
device's own kind, else the last exact row for any kind, else the first of the
best ones.

### DeviceAgent

A goroutine is a record in `task`: its operation, program counter, the device it
stores, the transient states before and after, and the handlers left to run.
Operations are split wherever another goroutine can get in:

* `Request` puts a goroutine in front of the lock; `enableDevice`,
  `disableDevice`, `updateDeviceStatus`, `deleteDevice`, `deleteDeviceForce`,
  `abortAllProcessing`, `StartReconcileWithRetry` are the first locked step with
  all its checks.
* `updateDeviceAndReleaseLock` and `markReboot`, or `markDeleting` and
  `storeDeleting`, are the writes. Each write to the store is a step of its own,
  because it can fail and the core can crash after it.
* The handlers of `manager_state_callback.go` run one per step without the lock,
  on the device that was stored. `RunPostDeviceDelete` expands into its parts,
  down to `stop` and `removeDevice`, which take the lock again.
* `adapterDelete`, `onDeleteSuccess`, `onDeleteFailure`: the adapter's part of a
  deletion. `resetTransientState` and `markFailed`: what a failed deletion does.
* `sendReconcileRequestToAdapter`, `reconcileAnswered`, `retryReconcile`,
  `reconcilingCleanup`: the retry loop, with the channel it listens to.
* `logicalAgentStart`: the goroutine that starts a logical device.
* `Restart`: the core crashes between any two steps and loads what is stored.

The device lock is taken as an atomic lock here; that the request queue is one
is what `RequestQueue` shows. `Faults` says what may fail: a write to the store,
a context, the connection to the adapter, the adapter's answer, a handler.

### EntryLoader

A goroutine calls `LockOrCreate` or `Lock`, then updates, deletes or unlocks. One
action is one section under the lock of the map, one acquisition of a chunk's
lock or one call to the store. `StoredKeys` are the keys of a loader that writes
through to the KV store (meters, ports), with the step that takes a refused
creation back; `IndexedKeys` those of the logical port loader with its index by
device. `Restart` loads the store, or fails to and leaves the table empty, as
`Load` does. The refinement to `EntryTable` shows a key from the moment its
creation is certain until its removal is.

### LogicalFlows and FlowDecomposition

A request is a record in `req` with its program counter; a call to a device is
a record in `calls`, with a state of its own, because it runs in another
goroutine and outlives a request that stops waiting. `flowLock` and `meterLock`
are the entry locks that are held across steps. A call applies to the cache of
the device and is answered, fails, or is late: the request may time out before.
`Stop` deletes the meters in the request queue, `DeleteAllLogicalMeters` (the
root device is deleted or has rebooted) outside of it; `DeleteLogicalPorts` and
`StopManagingDevice` take a child away. Flows are decomposed at the moment the code does it, along the
routes and with the agents there are then.

The ghosts say which keys a property is about. `overlap`: two requests worked on
the key at once. `gaps`: the code ended a request without bringing the tables
together, in one of the ways listed at `SequentialAgreement`. `restored`: a
failed update put an old flow back. `cleared`: meters that
`DeleteAllLogicalMeters` deleted, whose flows stay.

### LogicalPorts, DeviceRoutes, EventStreams

Requests are the adapter's reports (a port is created, one or all ports change
state, all ports are deleted), the controller's (enable or disable a port, ask
for a route) and the life cycle (set-up, activation and deletion of a child,
reboot and deletion of the root device). `deleting` are the devices in a
transient state of deletion: `deleteAllPorts` refuses the ports of any other
device, nothing is set up for a device in it, an adapter that refuses the
deletion (`DeletionFails`) or a reboot (`RebootWhileDeleting`) ends it. A created or deleted logical port takes a
position in `pending`, which is `orderedEvents`; its goroutine updates the
routes and sends when it is first in line. `EventStreams` takes the event from
the bounded channel in the loop of a stream; a new stream hands over a token
that tells one old loop to leave.

Here too ghosts name what is excepted: `overlap` as above; `raced`, a port that
came back before its deletion had a position; `stale`, routes written from an
outdated listing; `late` and `lost`, events after the deletion and events that
were not sent. `wiped` are the logical ports that the adapter's `DeleteAllPorts`
took away though their device was not the one in deletion:
`Manager.DeleteAllPorts` deletes the device ports of one device, and then, for a
child as for the root, every logical port of the logical device. `kept` are the
ports whose routes a computation with fewer than two ports has left in the
table; `RoutesAgree` is stated without them, and `RoutesCleared`, which says that
no such route stays, is what the run `logical_routes_kept` refutes. Two deadlocks of the code are in the model: a device port that
`updatePortsOperState` locks twice (`selfLocked`), and a stream that puts a
failed event back into a full channel that nobody reads (`FlushBlocked`).

### Adapters and EndpointManager

An agent is an object in the sequence `agent`; `adapterAgents` and
`adapterEndpoints` refer to it, and a rolling update replaces it while a call
may still hold the old one. `RegisterAdapter` goes through the steps *known*,
*stop*, *update*, *rolling*, *handler*, *delete*, *start* for an adapter that is
known, and *add*, *types*, *ring*, *startNew* for a new one. A client (the gRPC
client of voltha-lib-go, in `vendor`) is reduced to not connected, connected and
stopped, and to whether it was connected when it was stopped; it connects until
it is stopped. `AddAdapter` writes an adapter only when the store does not have
it; with a failed write that changes nothing, the store never has an adapter
without an agent, so the other case does not arise. Where the code dereferences a missing client
(`GetClientOfNone`) or resets a stopped one, the core goes down and `Restart`
loads what was stored; `Crash` does so at any time. The map of endpoints is
written without its lock in a rolling update; a crash is what Go makes of that.
A lookup is `GetAdapterService`, `LoadAdapterServices`, `GetEndpoint`; its answer
is recorded as the members of the ring it used.

`left` are the agents without a connection that a failed registration, or one
with a new endpoint, leaves behind; `moved` the adapters with a new endpoint;
`overlapped` those with two registrations at once.

## Runs

| Run | Shows |
|---|---|
| `request_queue` | seven requests, any cancellations: mutual exclusion, order of arrival, every release is the caller's own, the abstract lock is implemented; without a late cancellation (`Drop`) no wake-up is lost and everybody is served |
| `request_queue_wakeup` | *violation*: with a late cancellation a wake-up can be lost |
| `device_faults` | store failures, expired contexts and one crash against enable, report, delete, force delete of a root or child device: memory agrees with the store, a removed device stays removed, an enable is not stored over a deletion, the handlers of a deletion do remove the device |
| `device_reconcile` | adapter restarts, reports, reboots, enable and disable against the retry loop: the lock is always given back; a reconciliation in progress has somebody working on it. Store failures are left out: with them neither holds (`agent.go:1083` returns with the lock, `agent.go:1664` ends the retry loop as after a success) |
| `device_deletion` | liveness: a deletion ends although adapters fail or restart |
| `device_stuck` | *violation*: a handler failure of a forced deletion next to a normal one leaves a device that is being deleted for ever |
| `device_logical` | *violation*: two quick reports create two logical devices |
| `entry_loader` | two goroutines on a stored and an indexed key with store failures and restarts: no two handles on a key, store, index and map agree, no lock without owner, and the table implements `EntryTable` |
| `logical_flows` | two overlapping requests of any kind, failing and late devices, stop, the deletion of all meters, a child that leaves: flows keep their meters and groups, only `meterDelete` can deadlock, requests that do not overlap leave device tables that agree with the logical ones (but for `gaps`), no meter comes back after stop, a subscriber's rules fit together |
| `logical_ports` | two requests of any kind on the ports, or one while streams are replaced: the controller comes to know exactly the ports there are, routes and logical ports follow the device ports, the deletion is the last event (each but for the ghosts named above), one event loop remains, everything settles but for the two deadlocks |
| `logical_routes_kept` | *violation*: the deletion of the last child leaves its routes in the table, because `ComputeRoutes` returns before the reset when fewer than two ports are left |
| `adapters` | two overlapping registrations of any kind, store failures, lost connections, crashes and lookups: every registered adapter has a client at work or is in `left`, an old client stays only where registrations overlapped, all lookups use the same complete ring until an adapter moves, the northbound API opens unless an adapter in use is in `left` |

The violations are disagreements between the code and what its comments say of
it; `findings` in `PROJECT.json` quotes the comments and tells the story of each
counterexample.

**Bounds.** `MaxRequests = 7`: every case of the unlinking needs at most three
requests, and a lost wake-up three and a victim; seven leave room for such a
history to follow another one. Two goroutines per device are enough for every interaction
between two operations, and each goes on to further operations when it is done,
so sequences are not bounded; three at once is not covered. `MaxLogical` bounds
the logical devices that exist at once (an exhausted bound is a failing
handler). `MaxRestarts = 1` puts one crash at each point. The sets of operations
and reports differ per run, to keep each below a few million states;
`CHECK_DEADLOCK FALSE` because a removed device has no next step, and because
the runs of the logical device have a finite number of requests.

`entry_loader`: two goroutines and three chunks let one wait for a chunk that is
deleted and replaced under it; more goroutines are covered by the proofs.
`logical_flows` and `logical_ports`: two requests, each with its device calls
and event goroutines, from several settled starts (empty, in part, complete);
any two operations that a start allows interleave in every way, three requests
are not covered. One OLT with one NNI port and one ONU in `logical_flows`; in
`logical_ports` one or two NNI ports, one ONU, a channel of two events instead
of 100 so that it fills, and two streams of which one may break. `adapters`: two
replicas, two versions, a third endpoint to move to, two registrations and at
most `MaxFaults = 2` faults of any kind; three registrations with one fault
were checked once for the invariants (4.7 million states).

**Symmetry** of the two goroutines of a device, and of the chunks in
`entry_loader`, is used only in runs without liveness.

**Fairness.** In `RequestQueue`, weak fairness of `Acquire` and
`RequestComplete`: the Go scheduler runs a runnable goroutine, and operations
return (adapter calls have a timeout). No fairness of arrivals or cancellations.
In `DeviceAgent`, strong fairness of each goroutine's step: it may wait for the
device lock, which is free again and again and is granted in order of arrival
(`EventuallyServed`); weak fairness of the start of a logical device. Requests,
restarts and faults are never obliged to happen. In `LogicalPorts` and `Adapters`
one weak fairness of `Proceed`: as long as some goroutine that has begun can go
on, one of them does; in `Adapters` this includes a client that retries until it
is connected, as the gRPC client does, by default without a time limit. New requests, streams,
broken connections and crashes are not part of it. The answer of an adapter is
part of the fair step because every call to an adapter has a timeout, which
counts as an error answer.

## Proofs

`RequestQueueProofs` proves for every `MaxRequests`: `TypeOK`,
`MutualExclusion`, `NoOvertaking`, `ReleasesOwnLock`, `WakeupKept`, and that
`RequestQueue` implements `FifoLock`. The only assumption is
`MaxRequests \in Nat`.

None of these is inductive. The strengthening `IInv` says who closes which
channel and how the links lie: no live request is as old as a closed channel
(`ClosedInv`); a live request will close an open channel, its own or a younger
one with no live request in between (`NotifyInv`); the request being processed
has its green light, is `current` and is unlinked (`HolderInv`, `CurrentInv`);
`prev` and `next` of a waiting request are its nearest waiting neighbours, and
`last` is the youngest (`PrevInv`, `NextInv`, `LastInv`), where a pointer to a
dropped request counts as nil. A second holder, or a holder with an older
waiting request, would then be older than a closed channel. `WakeInv` adds,
while nothing was dropped, who closes the channel that is waited on. Each action
has one step for its pointwise effect and one leaf per conjunct.
`Refinement` maps arrivals to `n`, the waiting set to the waiting
requests and the holder to `current`.

`EntryLoaderProofs` proves for any number of goroutines, keys and chunks that
handles are exclusive and that a locked chunk has an owner. The inductive
invariant `LockInv` says that whoever is in a step with a lock holds it, that
the chunk of a goroutine is in the map until the step that takes it out, that
the map is injective, that the deleted flag is set exactly on the way out, and
that whoever waits for a chunk waits for the entry of its key or will find the
flag (`WaitersWarned`); without the last one the second look of `Lock` would not
be enough. `EntryTableSteps` and `EntryTableProofs` go on to the refinement, step
by step: a stored creation maps to the step in which the store accepts it, and a
removal to the one that takes the entry out of the store. The agreement of store
and table follows from the same step lemmas; the index is inductive together
with `LockInv`.
Assumed of the constants: stored and indexed keys are disjoint sets of keys,
every value has a device, and `None` is none of the other values.

`EventStreamsProofs` proves `Readers` for any number of streams and any capacity:
`StreamsInv` adds to it that before the first stream there is neither a token
nor a loop.

Only model-checked: liveness (`EventuallyServed`, `DeletionSettles`,
`AllSettles`, `NbiOpens`), which needs fairness, and everything about
`DeviceAgent`, `StateTransitions`, `LogicalFlows`, `FlowDecomposition`,
`DeviceRoutes`, `LogicalPorts`, `EndpointManager` and `Adapters`.

## Not modelled

* **Device agent**: the reboot request itself, which only calls the adapter (its
  effect is a status report), enabling and disabling an ONU through its OLT,
  serial-number operations, software images, the address update, PM
  configuration, enabling and disabling a PON port, loading a second agent
  after a failed stop, and `DeleteDevicePostAdapterRestart`, which nothing
  calls. Most are a locked update of the one device and a call to the adapter;
  early returns that keep the lock or release it twice are listed under
  `hazards` in `PROJECT.json`, without a property.
* **Device manager**: creation of a device, detection of a child and loading on
  demand.
* **Logical flows**: modification of flows (not implemented in the code),
  CHECK_OVERLAP and RESET_COUNTS, deletion of all groups at once, failures of
  the store while `stop` deletes the meters, the contents of meters beyond a
  version, and the statistics of a meter.
* **Logical ports**: routes between two UNI or two NNI ports, the filter by port
  type, errors of listings and of the set-up, the retries of
  `getSwitchCapability`. Of the transient states only "being deleted" is kept,
  and a device has one deletion at a time (two at once, forced and not, are in
  `DeviceAgent`); the deletion of the children that goes with that of the root
  device is a request of its own. The listings of a child's ports in
  `setupLogicalPorts` are one step.
* **Events**: packet-in streams, which run the same code as change events, and
  the events sent to Kafka.
* **Adapters**: `Stop` at shutdown, after which the process ends; the channels that
  signal the end of a keep-alive stream, which nothing receives from; the
  choice of a member by the ring, a function of its members and the device; the
  events and goroutines inside the gRPC client. Where they send on the channel
  that `Stop` has closed the process ends, which `Crash` covers. A registration without a type is refused and
  changes nothing.
* **Between the modules**: each takes the others as inputs. `DeviceAgent` has
  restarts and missing connections of an adapter as faults, `LogicalFlows` a
  topology that changes between its steps, `LogicalPorts` device agents that come
  and go. One model of all of them is out of TLC's reach.
* **KV access** beyond success and failure: the connection, the client's lazy
  initialisation and the encoding of values.
* **Start-up** (a sequence of start calls), **API delegation** and the **extension
  manager** (each call is passed on), **configuration** and **mocks**: there is no
  protocol in them to check.
