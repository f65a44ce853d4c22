----------------------------- MODULE DeviceAgent -----------------------------
(***************************************************************************)
(* One device agent (rw_core/core/device/agent.go), the goroutines that    *)
(* run its operations, and what it keeps in the KV store.                  *)
(*                                                                         *)
(* The agent serialises the operations with its request queue (the device  *)
(* lock, module RequestQueue), but two things happen outside the lock: the *)
(* handlers of a state transition, which run after the lock is released    *)
(* with the device as it was stored, and several updates of the transient  *)
(* state, which has a lock of its own.  An operation is therefore split at *)
(* every point at which another goroutine can get in: waiting for the lock *)
(* and the checks made with it, each write of the transient state, each    *)
(* write of the device, each handler, each wait for an adapter.            *)
(***************************************************************************)
EXTENDS StateTransitions, TLC, FiniteSets

CONSTANTS Procs,      \* goroutines that may be working for this device
          Kinds,      \* which kinds of device: subset of {"parent", "child"}
          Ops,        \* which requests may arrive
          Reports,    \* the <<oper, conn>> pairs adapters may report
          Faults,     \* what may fail: subset of FaultKinds
          MaxLogical, \* logical devices ever created for this device
          MaxRestarts,\* restarts of the core
          Nil

VARIABLES
    deviceType,      \* "parent" for a root device (OLT), "child" otherwise (ONU)
    device,          \* agent.device
    transientState,  \* the transient state held by the loader
    store,           \* the KV store: the device and its transient state
    agent,           \* "running", "stopping" (stopOnce used up), "stopped"
    managed,         \* the agent is in the manager's map
    lock,            \* the goroutine that holds the device lock
    stopReconciling, \* agent.stopReconciling is not nil
    logical,         \* logical devices of this root device: "none", "starting" (not
                     \* stored yet), "loading" (stored, not in the map) or "running"
    task,            \* what each goroutine is doing
    restarts

vars == <<deviceType, device, transientState, store, agent, managed, lock,
          stopReconciling, logical, task, restarts>>

dataVars == <<device, transientState, store>>
lifeVars == <<agent, managed>>
frameVars == <<deviceType, restarts>>

AllOps == {"enable", "disable", "status", "delete", "force", "forceByParent",
           "abort", "reconcile"}

(* "store": a write to the KV store fails and changes nothing.  "context": *)
(* the context of a request is done before it gets the lock or an answer.  *)
(* "client": there is no connection to the adapter.  "adapter": the        *)
(* adapter answers with an error.  "handler": a transition handler fails.  *)
FaultKinds == {"store", "context", "client", "adapter", "handler"}

ASSUME ConstantsAssumption ==
    /\ Kinds \subseteq {"parent", "child"}
    /\ Ops \subseteq AllOps
    /\ Reports \subseteq OperStatuses \X ConnectStatuses
    /\ Faults \subseteq FaultKinds
    /\ MaxLogical \in Nat /\ MaxRestarts \in Nat

LogicalIds == 1..MaxLogical

(* parent is the ParentId of a root device: its logical device, 0 if none. *)
Devices == [admin : AdminStates, conn : ConnectStatuses, oper : OperStatuses,
            parent : 0..MaxLogical]

Deleting == {"FORCE_DELETING", "DELETING_FROM_ADAPTER",
             "DELETING_POST_ADAPTER_RESPONSE"}

-----------------------------------------------------------------------------
(* A goroutine: its operation and where it stands, the device it is about  *)
(* to store or has stored, the transient state before and after, the       *)
(* handlers left to run, the stop channel it listens to ("open" for the    *)
(* one in agent.stopReconciling, "closed" once that is closed, "nil" for a *)
(* nil channel or one that nobody will close any more), and whether the    *)
(* adapter said that the device is already reconciled.                     *)
Idle == [op |-> "none", pc |-> "idle", dev |-> Nil, was |-> "NONE",
         to |-> "NONE", todo |-> <<>>, ch |-> "nil", reconciled |-> FALSE]

Become(p, t) == task' = [task EXCEPT ![p] = t]

Goto(p, pc) == Become(p, [task[p] EXCEPT !.pc = pc])

(* The same operation with nothing but its name to remember.               *)
Fresh(p, pc) == [Idle EXCEPT !.op = task[p].op, !.pc = pc]

Finish(p) == Become(p, Idle)

At(p, op, pc) == task[p].op = op /\ task[p].pc = pc

(* RequestComplete *)
Release == lock' = Nil

(* updateTransientState, without the checks of its callers.  The store is  *)
(* written first and nothing is written when the state is already there.   *)
UpdateTransientState(t) ==
    IF t = transientState THEN UNCHANGED <<transientState, store>>
    ELSE transientState' = t /\ store' = [store EXCEPT !.transient = t]

UpdateFails(t) == "store" \in Faults /\ t # transientState

StoreFails == "store" \in Faults /\ UNCHANGED dataVars

(* Mutant: Load keeps what it finds, even when there is nothing.           *)
LoadedAsIs(t) == t

(* What the loader holds after it has read the store (Load): NONE when     *)
(* there is no transient state there.                                      *)
Loaded(t) == IF t = Nil THEN "NONE" ELSE t

(* Mutant: the loader changes what it holds before the store is written.   *)
TryTransientStateMemoryFirst(t) ==
    \/ "store" \in Faults /\ transientState' = t /\ UNCHANGED <<device, store>>
    \/ UpdateTransientState(t) /\ UNCHANGED device

(* The same as UpdateTransientState where the caller only logs a failure.  *)
TryTransientState(t) ==
    \/ StoreFails
    \/ UpdateTransientState(t) /\ UNCHANGED device

StateOf(d, t) == deviceState(d.admin, d.conn, d.oper, t)

isDeletionInProgress == transientState \in Deleting

proceedWithRequest ==
    /\ ~ isDeletionInProgress
    /\ device.oper # "RECONCILING"
    /\ transientState # "RECONCILE_IN_PROGRESS"

-----------------------------------------------------------------------------
Init ==
    /\ deviceType \in Kinds
    /\ device = [admin |-> "PREPROVISIONED", conn |-> "UNKNOWN",
                 oper |-> "UNKNOWN", parent |-> 0]
    /\ transientState = "NONE"
    /\ store = [device |-> device, transient |-> Nil]
    /\ agent = "running" /\ managed = TRUE
    /\ lock = Nil
    /\ stopReconciling = FALSE
    /\ logical = [i \in LogicalIds |-> "none"]
    /\ task = [p \in Procs |-> Idle]
    /\ restarts = 0

(* A request finds the agent in the manager's map and queues for its lock. *)
(* A reconciliation reads the transient state before it queues.            *)
Request(p, op) ==
    /\ task[p] = Idle /\ managed
    /\ op \in Ops
    /\ op = "forceByParent" => deviceType = "child"
    /\ Become(p, [Idle EXCEPT !.op = op, !.pc = "wait",
                              !.was = IF op = "reconcile" THEN transientState ELSE "NONE"])
    /\ UNCHANGED <<dataVars, lifeVars, frameVars, lock, stopReconciling, logical>>

(* The first locked step of an operation that stores the device: take the  *)
(* lock and prepare the new device, or give the lock back at once.         *)
Prepare(p, dev) ==
    /\ lock' = p
    /\ Become(p, [task[p] EXCEPT !.pc = "store", !.dev = dev])

Refuse(p) == Finish(p) /\ UNCHANGED lock

(* Mutant: the device is enabled whatever its transient state is.          *)
enableDeviceUnchecked(p) ==
    /\ At(p, "enable", "wait") /\ lock = Nil
    /\ IF device.admin = "ENABLED" /\ device.oper # "FAILED"
       THEN Refuse(p)
       ELSE Prepare(p, [device EXCEPT !.admin = "ENABLED", !.oper = "ACTIVATING"])
    /\ UNCHANGED <<dataVars, lifeVars, frameVars, stopReconciling, logical>>

enableDevice(p) ==
    /\ At(p, "enable", "wait") /\ lock = Nil
    /\ \/ /\ proceedWithRequest
          /\ device.admin # "ENABLED" \/ device.oper = "FAILED"
          /\ Prepare(p, [device EXCEPT !.admin = "ENABLED", !.oper = "ACTIVATING"])
       \/ /\ \/ ~ proceedWithRequest
             \/ device.admin = "ENABLED" /\ device.oper # "FAILED"
             \/ "client" \in Faults
          /\ Refuse(p)
    /\ UNCHANGED <<dataVars, lifeVars, frameVars, stopReconciling, logical>>

(* Mutant: the early return does not call RequestComplete.                 *)
disableDeviceKeepsLock(p) ==
    /\ At(p, "disable", "wait") /\ lock = Nil
    /\ IF proceedWithRequest /\ device.admin \notin {"DISABLED", "PREPROVISIONED"}
       THEN Prepare(p, [device EXCEPT !.admin = "DISABLED", !.oper = "UNKNOWN"])
       ELSE Finish(p) /\ lock' = p
    /\ UNCHANGED <<dataVars, lifeVars, frameVars, stopReconciling, logical>>

disableDevice(p) ==
    /\ At(p, "disable", "wait") /\ lock = Nil
    /\ \/ /\ proceedWithRequest
          /\ device.admin \notin {"DISABLED", "PREPROVISIONED"}
          /\ Prepare(p, [device EXCEPT !.admin = "DISABLED", !.oper = "UNKNOWN"])
       \/ /\ \/ ~ proceedWithRequest
             \/ device.admin \in {"DISABLED", "PREPROVISIONED"}
             \/ "client" \in Faults
          /\ Refuse(p)
    /\ UNCHANGED <<dataVars, lifeVars, frameVars, stopReconciling, logical>>

(* DeviceStateUpdate and DeviceUpdate from the adapter: accepted whatever  *)
(* the core is doing with the device.                                      *)
updateDeviceStatus(p) ==
    /\ At(p, "status", "wait") /\ lock = Nil
    /\ \E r \in Reports :
          Prepare(p, [device EXCEPT !.oper = r[1], !.conn = r[2]])
    /\ UNCHANGED <<dataVars, lifeVars, frameVars, stopReconciling, logical>>

(* Mutant: the device is stored although the agent is stopped.             *)
updateDeviceUnchecked(p) ==
    /\ task[p].pc = "store"
    /\ device' = task[p].dev /\ store' = [store EXCEPT !.device = task[p].dev]
    /\ Release /\ Finish(p)
    /\ UNCHANGED <<lifeVars, frameVars, transientState, stopReconciling, logical>>

(* The device is stored and becomes agent.device; the lock is released and *)
(* the handlers of the change are looked up.  A root device that comes     *)
(* back from a reboot first gets another transient state.                  *)
updateDeviceAndReleaseLock(p) ==
    LET new == task[p].dev IN
    /\ task[p].pc = "store"
    /\ \/ /\ agent = "stopped" \/ "store" \in Faults
          /\ Release /\ Finish(p)
          /\ UNCHANGED <<device, store>>
       \/ /\ agent # "stopped"
          /\ device' = new /\ store' = [store EXCEPT !.device = new]
          /\ LET rebooted == /\ deviceType = "parent" /\ new.oper = "REBOOTED"
                             /\ device.oper # "REBOOTED"
                 to == IF rebooted THEN "REBOOT_IN_PROGRESS" ELSE transientState
             IN  /\ Become(p, [task[p] EXCEPT
                       !.pc = IF rebooted THEN "reboot" ELSE "handlers",
                       !.to = to,
                       !.todo = getTransitionHandler(deviceType,
                                    StateOf(device, transientState), StateOf(new, to))])
                 /\ lock' = IF rebooted THEN p ELSE Nil
    /\ UNCHANGED <<lifeVars, frameVars, transientState, stopReconciling, logical>>

(* The second half for a rebooted root device.  When the transient state   *)
(* cannot be written the code returns without releasing the lock.          *)
markReboot(p) ==
    /\ task[p].pc = "reboot"
    /\ \/ /\ UpdateFails("REBOOT_IN_PROGRESS") /\ Finish(p)
          /\ UNCHANGED <<transientState, store, lock>>
       \/ /\ UpdateTransientState("REBOOT_IN_PROGRESS")
          /\ Release /\ Goto(p, "handlers")
    /\ UNCHANGED <<lifeVars, frameVars, device, stopReconciling, logical>>

-----------------------------------------------------------------------------
(***************************************************************************)
(* Deletion.                                                               *)
(***************************************************************************)
DeletionOps == {"delete", "force", "forceByParent"}

(* The first locked step of a change of the transient state.               *)
PrepareDeletion(p, to) ==
    /\ lock' = p
    /\ Become(p, [task[p] EXCEPT !.pc = "mark", !.dev = device,
                                 !.was = transientState, !.to = to])

deleteDevice(p) ==
    /\ At(p, "delete", "wait") /\ lock = Nil
    /\ IF proceedWithRequest
       THEN PrepareDeletion(p, IF device.admin = "PREPROVISIONED"
                               THEN "DELETING_POST_ADAPTER_RESPONSE"
                               ELSE "DELETING_FROM_ADAPTER")
       ELSE Refuse(p)
    /\ UNCHANGED <<dataVars, lifeVars, frameVars, stopReconciling, logical>>

(* On behalf of a deleted parent (DeleteAllChildDevices) a refusal is an   *)
(* error like any other: the child is marked and tried again.              *)
deleteDeviceForce(p) ==
    /\ task[p].op \in {"force", "forceByParent"} /\ task[p].pc = "wait" /\ lock = Nil
    /\ \/ transientState # "FORCE_DELETING" /\ PrepareDeletion(p, "FORCE_DELETING")
       \/ /\ \/ transientState = "FORCE_DELETING"
             \/ "client" \in Faults /\ device.admin # "PREPROVISIONED"
          /\ IF task[p].op = "force" THEN Refuse(p)
             ELSE Become(p, Fresh(p, "markFailed")) /\ UNCHANGED lock
    /\ UNCHANGED <<dataVars, lifeVars, frameVars, stopReconciling, logical>>

(* updateDeviceWithTransientStateAndReleaseLock, first half: the transient *)
(* state.                                                                  *)
markDeleting(p) ==
    /\ task[p].pc = "mark"
    /\ \/ /\ agent = "stopped" \/ UpdateFails(task[p].to)
          /\ Release /\ Become(p, Fresh(p, "reset"))
          /\ UNCHANGED <<transientState, store>>
       \/ /\ agent # "stopped"
          /\ UpdateTransientState(task[p].to)
          /\ Goto(p, "storeDeleting") /\ UNCHANGED lock
    /\ UNCHANGED <<lifeVars, frameVars, device, stopReconciling, logical>>

(* Second half: the device, and the transition.  When the store fails the  *)
(* transient state is put back, which may fail as well.                    *)
storeDeleting(p) ==
    /\ task[p].pc = "storeDeleting"
    /\ \/ /\ "store" \in Faults
          /\ Become(p, Fresh(p, "reset"))
          /\ \/ UpdateTransientState(task[p].was)
             \/ UNCHANGED <<transientState, store>>
          /\ UNCHANGED device
       \/ /\ device' = task[p].dev
          /\ store' = [store EXCEPT !.device = task[p].dev]
          /\ Become(p, [task[p] EXCEPT !.pc = "handlers",
                !.todo = getTransitionHandler(deviceType, StateOf(device, task[p].was),
                                              StateOf(task[p].dev, task[p].to))])
          /\ UNCHANGED transientState
    /\ Release
    /\ UNCHANGED <<lifeVars, frameVars, stopReconciling, logical>>

(* A deletion that failed puts the transient state back to NONE, without   *)
(* the device lock; a deletion started by the parent then marks the child. *)
resetTransientState(p) ==
    /\ task[p].pc = "reset"
    /\ TryTransientState("NONE")
    /\ IF task[p].op = "forceByParent" THEN Goto(p, "markFailed") ELSE Finish(p)
    /\ UNCHANGED <<lifeVars, frameVars, lock, stopReconciling, logical>>

markFailed(p) ==
    /\ task[p].pc = "markFailed"
    /\ TryTransientState("DELETE_FAILED")
    /\ Become(p, IF managed
                 THEN [Idle EXCEPT !.op = "forceByParent", !.pc = "wait"]
                 ELSE Idle)
    /\ UNCHANGED <<lifeVars, frameVars, lock, stopReconciling, logical>>

(* The adapter is asked to delete the device, without the device lock.     *)
adapterDelete(p) ==
    /\ task[p].pc = "adapter"
    /\ \/ "client" \in Faults /\ Finish(p)
       \/ Goto(p, "deleted")
       \/ "adapter" \in Faults /\ Goto(p, "failed")
    /\ UNCHANGED <<dataVars, lifeVars, frameVars, lock, stopReconciling, logical>>

onDeleteSuccess(p) ==
    /\ task[p].pc = "deleted"
    /\ \/ lock = Nil /\ PrepareDeletion(p, "DELETING_POST_ADAPTER_RESPONSE")
       \/ "context" \in Faults /\ Refuse(p)
    /\ UNCHANGED <<dataVars, lifeVars, frameVars, stopReconciling, logical>>

(* Mutant: the adapter's error is only logged.                             *)
onDeleteFailureIgnored(p) ==
    /\ task[p].pc = "failed" /\ Finish(p)
    /\ UNCHANGED <<dataVars, lifeVars, frameVars, lock, stopReconciling, logical>>

onDeleteFailure(p) ==
    /\ task[p].pc = "failed"
    /\ TryTransientState("DELETE_FAILED")
    /\ Finish(p)
    /\ UNCHANGED <<lifeVars, frameVars, lock, stopReconciling, logical>>

-----------------------------------------------------------------------------
(***************************************************************************)
(* The handlers of a transition (manager_state_callback.go), one step per  *)
(* handler and more where a handler takes the device lock itself.  They    *)
(* work on the device that was stored, task[p].dev, not on agent.device.   *)
(***************************************************************************)
Then(p, steps) == [task[p] EXCEPT !.todo = steps \o Tail(@)]

HandlerDone(p) == Become(p, Then(p, <<>>))

HandlerReplacedBy(p, steps) == Become(p, Then(p, steps))

(* The first error ends the transition.  Only a deletion hears of it.      *)
Failed(p) == IF task[p].op \in DeletionOps
             THEN Fresh(p, "reset") ELSE Idle

HandlerFailed(p) == Become(p, Failed(p))

Running(p, handlers) ==
    task[p].pc = "handlers" /\ task[p].todo # <<>> /\ Head(task[p].todo) \in handlers

transitionDone(p) ==
    /\ task[p].pc = "handlers" /\ task[p].todo = <<>>
    /\ IF task[p].op = "delete" /\ task[p].to = "DELETING_FROM_ADAPTER"
       THEN Become(p, Fresh(p, "adapter")) ELSE Finish(p)
    /\ UNCHANGED <<dataVars, lifeVars, frameVars, lock, stopReconciling, logical>>

(* Handlers that change nothing this module keeps: the first set cannot    *)
(* fail, the second can, and the third also needs the agent in the map.    *)
LogOnly == {"NotifyInvalidTransition", "DeleteLogicalPorts", "DeleteAllLogicalPorts"}
OnOthers == {"ChildDeviceLost"}
OnAgent == {"SetupUNILogicalPorts", "DeleteAllChildDevices",
            "DeleteAllLogicalMeters", "DeleteAllDeviceFlows"}

otherHandler(p) ==
    /\ \/ Running(p, LogOnly \cup OnOthers) /\ HandlerDone(p)
       \/ Running(p, OnAgent) /\ managed /\ HandlerDone(p)
       \/ Running(p, OnAgent \cup OnOthers) /\ "handler" \in Faults /\ HandlerFailed(p)
       \/ Running(p, OnAgent) /\ ~ managed /\ HandlerFailed(p)
    /\ UNCHANGED <<dataVars, lifeVars, frameVars, lock, stopReconciling, logical>>

(* setParentID and updateDeviceAttribute: under the lock, on the current   *)
(* device, with no change of state and so without a transition.            *)
SetParentId(id) ==
    /\ device' = [device EXCEPT !.parent = id]
    /\ store' = [store EXCEPT !.device = device']

(* A logical device is created unless the stored device already had one.   *)
(* Its agent starts in a goroutine of its own.                             *)
CreateLogicalDevice(p) ==
    /\ Running(p, {"CreateLogicalDevice"})
    /\ \/ /\ task[p].dev.parent # 0 /\ HandlerDone(p)
          /\ UNCHANGED <<device, store, logical>>
       \/ /\ task[p].dev.parent = 0 /\ managed /\ agent # "stopped" /\ lock = Nil
          /\ \E id \in LogicalIds :
                /\ logical[id] = "none"
                /\ SetParentId(id)
                /\ logical' = [logical EXCEPT ![id] = "starting"]
          /\ HandlerDone(p)
       \/ /\ task[p].dev.parent = 0
          /\ \/ ~ managed
             \/ lock = Nil /\ (agent = "stopped" \/ "store" \in Faults)
             \/ "context" \in Faults
             \/ \A id \in LogicalIds : logical[id] # "none"  \* the bound of the model
          /\ HandlerFailed(p)
          /\ UNCHANGED <<device, store, logical>>
    /\ UNCHANGED <<lifeVars, frameVars, transientState, lock, stopReconciling>>

(* Starting or stopping a logical device fails when a step of it, or one   *)
(* of its writes to the store, fails.                                      *)
LogicalFails == Faults \cap {"handler", "store"} # {}

(* LogicalAgent.start: the logical device is stored and its agent enters   *)
(* the map, or, when a step of it fails, it is stopped and removed.        *)
logicalAgentStart(id) ==
    /\ logical[id] \in {"starting", "loading"}
    /\ \/ logical' = [logical EXCEPT ![id] = "running"]
       \/ LogicalFails /\ logical' = [logical EXCEPT ![id] = "none"]
    /\ UNCHANGED <<dataVars, lifeVars, frameVars, lock, stopReconciling, task>>

(* The logical device the stored device names, if its agent is in the map. *)
WithoutLogical(ids) ==
    [i \in LogicalIds |-> IF i \in ids /\ logical[i] = "running"
                          THEN "none" ELSE logical[i]]

DeleteLogicalDevice(p) ==
    /\ Running(p, {"DeleteLogicalDevice"})
    /\ \/ /\ logical' = WithoutLogical({task[p].dev.parent})
          /\ HandlerReplacedBy(p, <<"ClearParentId">>)
       \/ LogicalFails /\ HandlerFailed(p) /\ UNCHANGED logical
    /\ UNCHANGED <<dataVars, lifeVars, frameVars, lock, stopReconciling>>

(* UpdateDeviceAttribute(ParentId, ""): a failure is only logged.          *)
ClearParentId(p) ==
    /\ Running(p, {"ClearParentId"})
    /\ \/ managed /\ agent # "stopped" /\ lock = Nil /\ SetParentId(0)
       \/ /\ \/ ~ managed
             \/ lock = Nil /\ (agent = "stopped" \/ "store" \in Faults)
             \/ "context" \in Faults
          /\ UNCHANGED <<device, store>>
    /\ HandlerDone(p)
    /\ UNCHANGED <<lifeVars, frameVars, transientState, lock, stopReconciling, logical>>

ClearDeviceTransientState(p) ==
    /\ Running(p, {"ClearDeviceTransientState"})
    /\ \/ managed /\ UpdateTransientState("NONE") /\ HandlerDone(p)
       \/ /\ ~ managed \/ UpdateFails("NONE")
          /\ HandlerFailed(p) /\ UNCHANGED <<transientState, store>>
    /\ UNCHANGED <<lifeVars, frameVars, device, lock, stopReconciling, logical>>

(* RunPostDeviceDelete: the logical device goes first, then the ParentId,  *)
(* and the agent is stopped last.                                          *)
RunPostDeviceDelete(p) ==
    /\ Running(p, {"RunPostDeviceDelete"})
    /\ IF deviceType = "parent"
       THEN /\ \/ logical' = WithoutLogical({task[p].dev.parent})
               \/ LogicalFails /\ UNCHANGED logical
            /\ HandlerReplacedBy(p, <<"ClearParentId", "StopManaging">>)
       ELSE HandlerReplacedBy(p, <<"StopManaging">>) /\ UNCHANGED logical
    /\ UNCHANGED <<dataVars, lifeVars, frameVars, lock, stopReconciling>>

(* Every logical device of the root device is stopped, then the agent.  An *)
(* agent that somebody else is stopping is taken out of the map at once.   *)
stopManagingDevice(p) ==
    /\ Running(p, {"StopManaging"})
    /\ IF ~ managed
       THEN HandlerDone(p) /\ UNCHANGED <<agent, managed, logical>>
       ELSE /\ \/ lock = Nil /\ logical' = WithoutLogical(LogicalIds)
               \/ /\ lock = Nil /\ LogicalFails
                  /\ \E ids \in SUBSET LogicalIds : logical' = WithoutLogical(ids)
               \/ "context" \in Faults /\ UNCHANGED logical
            /\ IF agent = "running"
               THEN /\ agent' = "stopping" /\ UNCHANGED managed
                    /\ HandlerReplacedBy(p, <<"Stop">>)
               ELSE managed' = FALSE /\ HandlerDone(p) /\ UNCHANGED agent
    /\ UNCHANGED <<dataVars, frameVars, lock, stopReconciling>>

(* stop, first half: the transient state leaves the store.  When the lock  *)
(* does not come in time the transient state is reset instead.             *)
stop(p) ==
    /\ Running(p, {"Stop"})
    /\ \/ /\ lock = Nil /\ lock' = p
          /\ store' = [store EXCEPT !.transient = Nil]
          /\ HandlerReplacedBy(p, <<"Remove">>) /\ UNCHANGED <<device, transientState>>
       \/ /\ lock = Nil /\ StoreFails
          /\ HandlerReplacedBy(p, <<"Unmanage">>) /\ UNCHANGED lock
       \/ /\ "context" \in Faults /\ TryTransientState("NONE")
          /\ HandlerReplacedBy(p, <<"Unmanage">>) /\ UNCHANGED lock
    /\ UNCHANGED <<lifeVars, frameVars, stopReconciling, logical>>

(* Second half: the device leaves the store and the agent is stopped.      *)
removeDevice(p) ==
    /\ Running(p, {"Remove"})
    /\ \/ store' = [store EXCEPT !.device = Nil] /\ agent' = "stopped"
       \/ "store" \in Faults /\ UNCHANGED <<store, agent>>
    /\ Release /\ HandlerReplacedBy(p, <<"Unmanage">>)
    /\ UNCHANGED <<frameVars, device, transientState, managed, stopReconciling, logical>>

deleteDeviceAgentFromMap(p) ==
    /\ Running(p, {"Unmanage"})
    /\ managed' = FALSE /\ HandlerDone(p)
    /\ UNCHANGED <<dataVars, frameVars, agent, lock, stopReconciling, logical>>

-----------------------------------------------------------------------------
(***************************************************************************)
(* Reconciliation after a restart of an adapter or of the core.            *)
(***************************************************************************)
(* The channel in agent.stopReconciling is closed, or just forgotten.      *)
Closed == [q \in Procs |-> IF task[q].ch = "open"
                           THEN [task[q] EXCEPT !.ch = "closed"] ELSE task[q]]

Forgotten == [q \in Procs |-> IF task[q].ch = "open"
                              THEN [task[q] EXCEPT !.ch = "nil"] ELSE task[q]]

(* A goroutine starts to listen to the channel that is there now.          *)
Listen(p, pc, reconciled) ==
    Become(p, [task[p] EXCEPT !.pc = pc, !.reconciled = reconciled,
                              !.ch = IF stopReconciling THEN "open" ELSE "nil"])

(* The goroutine that an adapter restart starts for the device.            *)
goReconcile(p) ==
    /\ At(p, "reconcile", "start")
    /\ Become(p, [task[p] EXCEPT !.pc = "wait", !.was = transientState])
    /\ UNCHANGED <<dataVars, lifeVars, frameVars, lock, stopReconciling, logical>>

StartReconcileWithRetry(p) ==
    /\ At(p, "reconcile", "wait") /\ lock = Nil
    /\ IF device.admin = "PREPROVISIONED" \/ isDeletionInProgress \/ stopReconciling
       THEN Finish(p) /\ UNCHANGED stopReconciling
       ELSE stopReconciling' = TRUE /\ Goto(p, "send")
    /\ UNCHANGED <<dataVars, lifeVars, frameVars, lock, logical>>

(* The lock is not held here, and "was" was read before it was released.   *)
(* When the transient state cannot be written the loop ends as if it had   *)
(* succeeded, with the channel still in place.                             *)
UpdateTransientStateToReconcile(p) ==
    /\ At(p, "reconcile", "send")
    /\ \/ /\ task[p].was = "REBOOT_IN_PROGRESS"
          /\ Listen(p, "backoff", FALSE) /\ UNCHANGED <<transientState, store>>
       \/ /\ task[p].was = "RECONCILE_IN_PROGRESS"
          /\ Goto(p, "sending") /\ UNCHANGED <<transientState, store>>
       \/ /\ task[p].was \notin {"REBOOT_IN_PROGRESS", "RECONCILE_IN_PROGRESS"}
          /\ UpdateTransientState("RECONCILE_IN_PROGRESS") /\ Goto(p, "sending")
       \/ /\ task[p].was \notin {"REBOOT_IN_PROGRESS", "RECONCILE_IN_PROGRESS"}
          /\ UpdateFails("RECONCILE_IN_PROGRESS") /\ Finish(p)
          /\ UNCHANGED <<transientState, store>>
    /\ UNCHANGED <<lifeVars, frameVars, device, lock, stopReconciling, logical>>

sendReconcileRequestToAdapter(p) ==
    /\ task[p].pc = "sending"
    /\ \/ Listen(p, "sent", task[p].reconciled)
       \/ "client" \in Faults /\ Listen(p, "backoff", task[p].reconciled)
    /\ UNCHANGED <<dataVars, lifeVars, frameVars, lock, stopReconciling, logical>>

(* A good answer and an expired context both end the loop and forget the   *)
(* channel; an error is tried again; a closed channel ends the loop.       *)
reconcileAnswered(p) ==
    /\ task[p].pc = "sent"
    /\ \/ task' = [Forgotten EXCEPT ![p] = Idle] /\ stopReconciling' = FALSE
       \/ /\ "adapter" \in Faults
          /\ \E again \in BOOLEAN : Listen(p, "backoff", again)
          /\ UNCHANGED stopReconciling
       \/ task[p].ch = "closed" /\ Finish(p) /\ UNCHANGED stopReconciling
    /\ UNCHANGED <<dataVars, lifeVars, frameVars, lock, logical>>

(* The loop waits for its timer, for the agent to stop or for an abort.    *)
(* When the retries are used up and the adapter says that the device is    *)
(* already reconciled, the loop ends with a cleanup.                       *)
retryReconcile(p) ==
    /\ task[p].pc = "backoff"
    /\ \/ /\ lock = Nil
          /\ Become(p, [task[p] EXCEPT !.pc = "send", !.was = transientState, !.ch = "nil"])
       \/ /\ lock = Nil /\ task[p].reconciled
          /\ Become(p, [task[p] EXCEPT !.pc = "cleanup", !.ch = "nil"])
       \/ /\ "context" \in Faults \/ agent = "stopped" \/ task[p].ch = "closed"
          /\ Finish(p)
    /\ UNCHANGED <<dataVars, lifeVars, frameVars, lock, stopReconciling, logical>>

(* reconcilingCleanup, at the end of the loop or as the handler of the     *)
(* state change that ends a reconciliation.                                *)
reconcilingCleanup(p) ==
    LET inLoop == task[p].pc = "cleanup"
        good == IF inLoop THEN Idle ELSE Then(p, <<>>)
        bad == IF inLoop THEN Idle ELSE Failed(p)
    IN  /\ inLoop \/ Running(p, {"ReconcilingCleanup"})
        /\ \/ /\ inLoop \/ managed
              /\ lock = Nil /\ stopReconciling' = FALSE
              /\ \/ /\ UpdateTransientState("NONE")
                    /\ task' = [Closed EXCEPT ![p] = good]
                 \/ /\ UpdateFails("NONE") /\ UNCHANGED <<transientState, store>>
                    /\ task' = [Closed EXCEPT ![p] = bad]
           \/ /\ "context" \in Faults \/ ~ (inLoop \/ managed)
              /\ Become(p, bad)
              /\ UNCHANGED <<transientState, store, stopReconciling>>
        /\ UNCHANGED <<lifeVars, frameVars, device, lock, logical>>

-----------------------------------------------------------------------------
(***************************************************************************)
(* Restarts of an adapter and of the core.                                 *)
(***************************************************************************)
AbortedState ==
    CASE transientState \in {"FORCE_DELETING", "DELETING_FROM_ADAPTER"} -> "DELETE_FAILED"
      [] transientState = "REBOOT_IN_PROGRESS" -> "REBOOT_IN_PROGRESS"
      [] OTHER -> "NONE"

ThenReconcile == IF managed THEN [Idle EXCEPT !.op = "reconcile", !.pc = "start"]
                 ELSE Idle

(* Mutant: the channel is closed but stays in agent.stopReconciling.       *)
abortKeepsChannel(p) ==
    /\ At(p, "abort", "wait") /\ lock = Nil
    /\ lock' = p
    /\ task' = [Closed EXCEPT ![p] = [task[p] EXCEPT !.pc = "abort", !.to = AbortedState]]
    /\ UNCHANGED <<dataVars, lifeVars, frameVars, stopReconciling, logical>>

(* The adapter of the device was restarted: abortAllProcessing under the   *)
(* lock, up to the choice of the new transient state.                      *)
abortAllProcessing(p) ==
    /\ At(p, "abort", "wait") /\ lock = Nil
    /\ lock' = p /\ stopReconciling' = FALSE
    /\ task' = [Closed EXCEPT ![p] = [task[p] EXCEPT !.pc = "abort", !.to = AbortedState]]
    /\ UNCHANGED <<dataVars, lifeVars, frameVars, logical>>

(* The transient state is written, the lock released and the device        *)
(* reconciled with the new adapter.                                        *)
adapterRestarted(p) ==
    /\ task[p].pc = "abort"
    /\ IF task[p].to = "REBOOT_IN_PROGRESS" THEN UNCHANGED dataVars
       ELSE TryTransientState(task[p].to)
    /\ Release /\ Become(p, ThenReconcile)
    /\ UNCHANGED <<lifeVars, frameVars, stopReconciling, logical>>

(* The context of a request is done before the lock is given to it.        *)
giveUp(p) ==
    /\ task[p].pc = "wait" /\ "context" \in Faults
    /\ Become(p, CASE task[p].op = "forceByParent" -> Fresh(p, "markFailed")
                   [] task[p].op = "abort" -> ThenReconcile
                   [] OTHER -> Idle)
    /\ UNCHANGED <<dataVars, lifeVars, frameVars, lock, stopReconciling, logical>>

(* The core crashes and starts again with what is in the store.  A device  *)
(* that was being reconciled is reconciled again.                          *)
Restart ==
    LET d == store.device
        t == Loaded(store.transient)
        reconcile == /\ d # Nil
                     /\ d.oper # "RECONCILING"
                     /\ d.oper = "RECONCILING_FAILED" \/ t = "RECONCILE_IN_PROGRESS"
        none == [p \in Procs |-> Idle]
    IN  /\ restarts < MaxRestarts /\ restarts' = restarts + 1
        /\ managed' = (d # Nil)
        /\ agent' = IF d # Nil THEN "running" ELSE "stopped"
        /\ IF d # Nil THEN device' = d /\ transientState' = t
           ELSE UNCHANGED <<device, transientState>>
        /\ lock' = Nil /\ stopReconciling' = FALSE
        /\ logical' = [i \in LogicalIds |->
                          IF logical[i] = "starting" THEN "none"
                          ELSE IF logical[i] = "running" THEN "loading" ELSE logical[i]]
        /\ IF reconcile
           THEN \E p \in Procs : task' = [none EXCEPT ![p] =
                   [Idle EXCEPT !.op = "reconcile", !.pc = "start"]]
           ELSE task' = none
        /\ UNCHANGED <<deviceType, store>>

-----------------------------------------------------------------------------
Step(p) ==
    \/ enableDevice(p) \/ disableDevice(p) \/ updateDeviceStatus(p)
    \/ updateDeviceAndReleaseLock(p) \/ markReboot(p)
    \/ deleteDevice(p) \/ deleteDeviceForce(p) \/ markDeleting(p) \/ storeDeleting(p)
    \/ resetTransientState(p) \/ markFailed(p)
    \/ adapterDelete(p) \/ onDeleteSuccess(p) \/ onDeleteFailure(p)
    \/ transitionDone(p) \/ otherHandler(p) \/ CreateLogicalDevice(p)
    \/ DeleteLogicalDevice(p) \/ ClearParentId(p) \/ ClearDeviceTransientState(p)
    \/ RunPostDeviceDelete(p) \/ stopManagingDevice(p) \/ stop(p) \/ removeDevice(p)
    \/ deleteDeviceAgentFromMap(p)
    \/ goReconcile(p) \/ StartReconcileWithRetry(p)
    \/ UpdateTransientStateToReconcile(p) \/ sendReconcileRequestToAdapter(p)
    \/ reconcileAnswered(p) \/ retryReconcile(p) \/ reconcilingCleanup(p)
    \/ abortAllProcessing(p) \/ adapterRestarted(p) \/ giveUp(p)

Next ==
    \/ \E p \in Procs : Step(p) \/ \E op \in Ops : Request(p, op)
    \/ \E id \in LogicalIds : logicalAgentStart(id)
    \/ Restart

Spec == Init /\ [][Next]_vars

(* The device lock is FIFO and everybody who holds it gives it back        *)
(* (RequestQueue!EventuallyServed), so a goroutine that can take its next  *)
(* step again and again takes it: strong fairness.  Requests, restarts and *)
(* faults are never obliged to happen.                                     *)
Fairness ==
    /\ \A p \in Procs : SF_vars(Step(p))
    /\ \A id \in LogicalIds : WF_vars(logicalAgentStart(id))

FairSpec == Spec /\ Fairness

-----------------------------------------------------------------------------
(* Every variable keeps its type: what is in memory and in the store is a  *)
(* device, what a goroutine is doing is one of the steps above.            *)
TypeOK ==
    /\ deviceType \in {"parent", "child"}
    /\ device \in Devices /\ transientState \in TransientStates
    /\ store \in [device : Devices \cup {Nil}, transient : TransientStates \cup {Nil}]
    /\ agent \in {"running", "stopping", "stopped"} /\ managed \in BOOLEAN
    /\ lock \in Procs \cup {Nil} /\ stopReconciling \in BOOLEAN
    /\ logical \in [LogicalIds -> {"none", "starting", "loading", "running"}]
    /\ restarts \in 0..MaxRestarts
    /\ \A p \in Procs :
          /\ task[p].op \in AllOps \cup {"none"} /\ task[p].dev \in Devices \cup {Nil}
          /\ task[p].was \in TransientStates /\ task[p].to \in TransientStates
          /\ task[p].ch \in {"nil", "open", "closed"}

(* A device that was removed from the store stays removed: no operation    *)
(* that was still waiting for the lock when the agent stopped, no adapter  *)
(* report and no handler writes it back (the checks of agent.stopped in    *)
(* updateDeviceAndReleaseLock and its siblings).                           *)
NoResurrection == [][store.device = Nil => store.device' = Nil]_vars

(* An operator's enable or disable is never written over a deletion: when  *)
(* it is about to be stored, no deletion has started meanwhile, although   *)
(* deletions change the transient state without holding the device lock    *)
(* (proceedWithRequest in enableDevice and disableDevice).                 *)
DeletionExcludesUpdates ==
    \A p \in Procs :
        task[p].op \in {"enable", "disable"} /\ task[p].pc = "store"
            => ~ isDeletionInProgress

(* What a running agent holds in memory when nobody has its lock is what a *)
(* restarted core would load: the device and the transient state are       *)
(* written to the store before they change in memory, and not at all when  *)
(* the store fails (loader.Update, updateDeviceInStoreWithoutLock).        *)
MemoryMatchesStore ==
    managed /\ agent = "running" /\ lock = Nil =>
        /\ store.device = device
        /\ transientState = Loaded(store.transient)

(* Once all handlers of a forced deletion, or of a deletion the adapter    *)
(* has confirmed, have run, the manager no longer has the agent: whatever  *)
(* the state of the device was, the transition table led to                *)
(* RunPostDeviceDelete (getTransitionHandler).  A deletion that found the  *)
(* transient state already set by another one runs no handlers itself.     *)
DeletionRemovesDevice ==
    \A p \in Procs :
        (/\ task[p].op \in DeletionOps /\ task[p].pc = "handlers" /\ task[p].todo = <<>>
         /\ task[p].was # task[p].to
         /\ task[p].to \in {"FORCE_DELETING", "DELETING_POST_ADAPTER_RESPONSE"})
            => ~ managed

(* The goroutine that holds the lock is in the middle of a locked section  *)
(* and nobody else is in one: every early return of an operation gives the *)
(* lock back (RequestComplete).                                            *)
InLockedSection(p) ==
    \/ task[p].pc \in {"store", "reboot", "mark", "storeDeleting", "abort"}
    \/ Running(p, {"Remove"})

LockDiscipline == \A p \in Procs : lock = p <=> InLockedSection(p)

(* A deletion does not stay in progress for ever: the device goes away, or *)
(* the transient state says NONE or DELETE_FAILED so that the operator can *)
(* try again.                                                              *)
DeletionSettles == isDeletionInProgress ~> (~ isDeletionInProgress \/ ~ managed)

(* While agent.stopReconciling says that a reconciliation is going on,     *)
(* some goroutine is in the retry loop of StartReconcileWithRetry.  If it  *)
(* were left behind, every later reconciliation of the device would be     *)
(* refused ("already in progress") and the device would never come back.   *)
InReconcileLoop(p) == task[p].pc \in {"send", "sending", "sent", "backoff", "cleanup"}

ReconcileDriven ==
    stopReconciling /\ agent # "stopped" => \E p \in Procs : InReconcileLoop(p)

(* A root device has at most one logical device: CreateLogicalDevice       *)
(* verifies that it has not already been created.  The code checks the     *)
(* ParentId of the device as it was when the transition began, so that two *)
(* transitions that run their handlers at the same time each create one.   *)
OneLogicalDevice == Cardinality({i \in LogicalIds : logical[i] # "none"}) =< 1
=============================================================================
