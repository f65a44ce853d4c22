---------------------------- MODULE LogicalFlows ----------------------------
(***************************************************************************)
(* The flow, group and meter tables of a logical device and the rules they *)
(* put on its devices: logical_agent_flow.go, logical_agent_group.go,      *)
(* logical_agent_meter.go, the fan-out in logical_agent.go, and the flow   *)
(* and group tables of the device agents (agent_flow.go, agent_group.go).  *)
(*                                                                         *)
(* A request of the controller runs in its own goroutine and starts one    *)
(* more per device (a call).  Only the locks that are held across steps    *)
(* appear: the lock of a logical flow, the lock of a meter, which only     *)
(* meterDelete keeps, and the request queue that meter requests and stop   *)
(* go through.  The tables themselves are those of EntryTable.             *)
(***************************************************************************)
EXTENDS FlowDecomposition

CONSTANTS Requests,     \* the requests, numbered in the order they come
          Entries,      \* the flows the controller may ask for
          Meters, Groups,
          Starts,       \* what has been added before: flows, groups, meters
          None

ASSUME NoneAssumption ==
    /\ None \notin Requests /\ None \notin Entries /\ None \notin Meters
    /\ \A e \in Entries : None # e.id /\ e.id \notin Groups
ASSUME StartsAssumption == \A s \in Starts :
    /\ s.flows \subseteq Entries /\ s.groups \subseteq Groups /\ s.meters \subseteq Meters
    /\ \A x, y \in s.flows : x.id = y.id => x = y
    /\ \A x \in s.flows : x.meter \in s.meters \cup {NoMeter} /\ x.group \in s.groups \cup {NoGroup}

VARIABLES lflows,      \* the logical flow table
          flowLock,    \* the request that has a flow's lock
          lgroups,     \* the logical group table
          meters,      \* the meter table, write-through to the store
          meterLock,   \* the request that has a meter's lock
          queue,       \* the request that has the green light
          stopped,     \* the logical agent has been stopped
          dflows,      \* the flow table of each device agent
          dgroups,     \* the group table of each device agent
          unis,        \* the UNI ports that have a logical port
          agents,      \* the devices that have an agent
          req,         \* the requests
          calls,       \* the goroutines that talk to the device agents
          overlap,     \* keys two requests worked on at the same time
          gaps,        \* keys whose request left tables that differ
          restored,    \* flows a failed update put back
          cleared      \* meters the removal of the root device deleted

tables == << lflows, flowLock, lgroups, meters, meterLock, queue, stopped >>
devices == << dflows, dgroups >>
topology == << unis, agents >>
history == << overlap, gaps, restored, cleared >>
vars == << tables, devices, topology, req, calls, history >>

FlowIds == {e.id : e \in Entries}
Devices == Children \cup {Root}
Keys    == FlowIds \cup Groups

Idle == [op |-> "none", pc |-> "idle", entry |-> None, key |-> None, todo |-> {},
         groups |-> {}, rules |-> NoRules, replaced |-> None, found |-> {}]

\* A group entry of a device: its id and its version.
GroupEntry(g, ver) == [id |-> g, ver |-> ver]

Has(f) == lflows[f] # None
Present == {f \in FlowIds : Has(f)}
Ids(flows) == {e.id : e \in flows}

\* What a request is about.
Touches(q) ==
    CASE q.op \in {"add", "strict"} -> {q.entry.id}
      [] q.op = "delete" -> IF q.key = None THEN FlowIds ELSE {q.key}
      [] q.op \in {"groupAdd", "groupModify"} -> {q.key}
      [] q.op = "groupDelete" -> {q.key} \cup FlowIds
      [] q.op = "meterDelete" -> FlowIds
      [] OTHER -> {}

\* A call is over when it is "ok" or "err".
Pending(c) == c.st \in {"meter", "device"}
Running(r) == req[r].pc \notin {"idle", "done"}
Busy(k) == \/ \E r \in Requests : Running(r) /\ k \in Touches(req[r])
           \/ \E c \in calls : Pending(c) /\ k \in {x.flow : x \in c.rules} \cup {g.id : g \in c.groups}
Quiet == \A r \in Requests : ~Running(r)

-----------------------------------------------------------------------------
(* Initially nothing is under way: some flows and groups have been added, *)
(* with their meters, and their rules are on the devices.                  *)

RulesFor(flows, groups, d) ==
    UNION {IF d \in DOMAIN o.rules THEN o.rules[d] ELSE {} :
              o \in DecomposeRules(Routes(UniPorts), Devices, NniPorts \cup UniPorts, groups, flows)}

Init ==
    \E s \in Starts :
        /\ lflows = [f \in FlowIds |->
                        IF f \in Ids(s.flows) THEN CHOOSE e \in s.flows : e.id = f ELSE None]
        /\ lgroups = [g \in Groups |-> IF g \in s.groups THEN "first" ELSE None]
        /\ meters = [m \in Meters |-> IF m \in s.meters THEN "first" ELSE None]
        /\ dflows = [d \in Devices |-> RulesFor(s.flows, s.groups, d)]
        /\ dgroups = [d \in Devices |->
                        IF d = Root THEN {GroupEntry(g, "first") : g \in s.groups} ELSE {}]
        /\ flowLock = [f \in FlowIds |-> None] /\ meterLock = [m \in Meters |-> None]
        /\ queue = None /\ stopped = FALSE
        /\ unis = UniPorts /\ agents = Devices
        /\ req = [r \in Requests |-> Idle] /\ calls = {}
        /\ overlap = {} /\ gaps = {} /\ restored = {} /\ cleared = {}

\* updateFlowTable, updateGroupTable and updateMeterTable dispatch a request.
Free(r) == req[r] = Idle /\ \A o \in Requests : o < r => req[o] # Idle

Begin(r, q) ==
    /\ Free(r)
    /\ req' = [req EXCEPT ![r] = q]
    /\ overlap' = overlap \cup {k \in Touches(q) : Busy(k)}
    /\ UNCHANGED << tables, devices, topology, calls, gaps, restored, cleared >>

UpdateFlowTable(r) == \E e \in Entries :
    \/ Begin(r, [Idle EXCEPT !.op = "add", !.pc = "create", !.entry = e])
    \/ Begin(r, [Idle EXCEPT !.op = "strict", !.pc = "strictLock", !.entry = e])
    \/ \E k \in {e.id, None} : Begin(r, [Idle EXCEPT !.op = "delete", !.pc = "match", !.key = k])

UpdateGroupTable(r) == \E g \in Groups :
    \/ Begin(r, [Idle EXCEPT !.op = "groupAdd", !.pc = "groupAdd", !.key = g])
    \/ Begin(r, [Idle EXCEPT !.op = "groupModify", !.pc = "groupModify", !.key = g])
    \/ Begin(r, [Idle EXCEPT !.op = "groupDelete", !.pc = "groupLock", !.key = g])

UpdateMeterTable(r) == \E m \in Meters :
    \/ Begin(r, [Idle EXCEPT !.op = "meterAdd", !.pc = "queue", !.key = m])
    \/ Begin(r, [Idle EXCEPT !.op = "meterModify", !.pc = "queue", !.key = m])
    \/ Begin(r, [Idle EXCEPT !.op = "meterDelete", !.pc = "queue", !.key = m])

-----------------------------------------------------------------------------
(* Helpers.                                                                *)

Go(r, pc) == [req EXCEPT ![r].pc = pc]
Over(r)   == [req EXCEPT ![r] = [Idle EXCEPT !.pc = "done"]]

\* The goroutine of a device.  Adds and deletes look up the meters first.
NewCall(r, phase, kind, d, rules, groups, uni) ==
    [req |-> r, phase |-> phase, kind |-> kind, dev |-> d, rules |-> rules, groups |-> groups,
     uni |-> uni, st |-> IF \E x \in rules : x.meter # NoMeter THEN "meter" ELSE "device"]

\* addFlowsAndGroupsToDevices, deleteFlowsAndGroupsFromDevices.
FanOut(r, phase, kind, dr) ==
    {NewCall(r, phase, kind, d, dr[d], {}, NoPort) : d \in DOMAIN dr}

\* getUNILogicalPortNo: a port that is not an NNI port, the controller included.
UniOf(f) ==
    CASE f.inPort \notin NniPorts \cup {NoPort} -> f.inPort
      [] f.inPort \in NniPorts \cup {NoPort} /\ f.outPort \notin NniPorts \cup {NoPort} -> f.outPort
      [] OTHER -> NoPort

\* deleteFlowsFromParentDevice: one call per flow.  The meters are looked up
\* first; a missing one ends the loop, whatever flows it has reached.
MeterMissing(f) == f.meter # NoMeter /\ meters[f.meter] = None

ParentCall(r, f) ==
    IF MeterMissing(f) \/ UniOf(f) = NoPort
    THEN [NewCall(r, "do", "parent", Root, {}, {}, NoPort) EXCEPT !.st = "err"]
    ELSE NewCall(r, "do", "parent", Root, {}, {}, UniOf(f))

DeleteFlowsFromParentDevice(r, flows) ==
    {{ParentCall(r, f) : f \in part} : part \in
        {p \in SUBSET flows : p = flows \/ \E f \in p : MeterMissing(f)}}

MetersFree(ms) == \A m \in ms \ {NoMeter} : meterLock[m] = None

Mine(r, phase) == {c \in calls : c.req = r /\ c.phase = phase}

\* WaitForNilOrErrorResponses: everything has been answered, or the wait
\* times out, which counts as an error.
AllOk(cs)    == \A c \in cs : c.st = "ok"
TimedOut(cs) == \E c \in cs : Pending(c)

\* The answers have been read; the goroutines still running stay.
Read(cs) == calls \ {c \in cs : ~Pending(c)}

\* The outcomes of DecomposeRules at this moment.
Decompose(groups, flows) ==
    DecomposeRules(Routes(unis), agents, NniPorts \cup unis, groups, flows)

KnownGroups == {g \in Groups : lgroups[g] # None}

Unlocked(f) == [flowLock EXCEPT ![f] = None]
UnlockedBy(r) == [f \in FlowIds |-> IF flowLock[f] = r THEN None ELSE flowLock[f]]

-----------------------------------------------------------------------------
(* flowAdd: decomposeAndAdd and, when a device fails, revertAddedFlows.    *)

\* LockOrCreate.  An identical flow is left as it is.
CreateFlow(r) ==
    LET e == req[r].entry IN
    /\ req[r].pc = "create"
    /\ flowLock[e.id] = None
    /\ \/ /\ lflows[e.id] = e
          /\ req' = Over(r)
          /\ UNCHANGED << lflows, flowLock >>
       \/ /\ lflows[e.id] # e
          /\ lflows' = [lflows EXCEPT ![e.id] = IF Has(e.id) THEN @ ELSE e]
          /\ flowLock' = [flowLock EXCEPT ![e.id] = r]
          /\ req' = [Go(r, "groups") EXCEPT ![r].replaced = lflows[e.id]]
    /\ UNCHANGED << lgroups, meters, meterLock, queue, stopped, devices, topology, calls, history >>

\* Mutant: every group is taken to be there.
StaleGroups(r) ==
    /\ req[r].pc = "groups"
    /\ req' = [Go(r, "decompose") EXCEPT ![r].groups = Groups]
    /\ UNCHANGED << tables, devices, topology, calls, history >>

ListGroups(r) ==
    /\ req[r].pc = "groups"
    /\ req' = [Go(r, "decompose") EXCEPT ![r].groups = KnownGroups]
    /\ UNCHANGED << tables, devices, topology, calls, history >>

\* Decomposing a trap flow of a UNI port moves the meter of the metadata into
\* the flow, which is the entry of the table.
Stored(e) ==
    IF e.outPort = Controller /\ e.inPort \notin NniPorts /\ e.oltMeter # NoMeter
    THEN [e EXCEPT !.meter = e.oltMeter] ELSE e

\* Every device has its agent.  One that is not ready may refuse all the same.
CanMultipleAdapterRequestProceed(ds) == ds # {} /\ ds \subseteq agents

\* DecomposeRules fails or canMultipleAdapterRequestProceed refuses: no device
\* at all, a device that is gone, or one that is not ready.
\* Mutant: the flow that has just been created stays in the table.
AbandonAddKeepsFlow(r, f) ==
    /\ req' = Over(r)
    /\ UNCHANGED << lflows, calls, restored >>

AbandonAdd(r, f) ==
    /\ lflows' = [lflows EXCEPT ![f] = req[r].replaced]
    /\ req' = Over(r)
    /\ UNCHANGED << calls, restored >>

\* Mutant: the flow stays locked while the devices are at work.
DecomposeAndAddLocked(r) ==
    LET e == req[r].entry IN
    /\ req[r].pc = "decompose"
    /\ \E o \in Decompose(req[r].groups, {e}) :
         /\ o.ok /\ CanMultipleAdapterRequestProceed(DOMAIN o.rules)
         /\ lflows' = [lflows EXCEPT ![e.id] = Stored(e)]
         /\ req' = [Go(r, "addWait") EXCEPT ![r].rules = o.rules, ![r].groups = {}]
         /\ calls' = calls \cup FanOut(r, "do", "add", o.rules)
         /\ restored' = restored \ {e.id}
    /\ UNCHANGED << flowLock, lgroups, meters, meterLock, queue, stopped,
                    devices, topology, overlap, gaps, cleared >>

DecomposeAndAdd(r) ==
    LET e == req[r].entry IN
    /\ req[r].pc = "decompose"
    /\ \/ AbandonAdd(r, e.id)
       \/ \E o \in Decompose(req[r].groups, {e}) :
             /\ o.ok /\ CanMultipleAdapterRequestProceed(DOMAIN o.rules)
             /\ lflows' = [lflows EXCEPT ![e.id] = Stored(e)]
             /\ req' = [Go(r, "addWait") EXCEPT ![r].rules = o.rules, ![r].groups = {}]
             /\ calls' = calls \cup FanOut(r, "do", "add", o.rules)
             /\ restored' = restored \ {e.id}
    /\ flowLock' = Unlocked(e.id)
    /\ UNCHANGED << lgroups, meters, meterLock, queue, stopped, devices, topology, overlap, gaps, cleared >>

AddWait(r) ==
    LET cs == Mine(r, "do") IN
    /\ req[r].pc = "addWait"
    /\ calls' = Read(cs)
    /\ req' = IF AllOk(cs) THEN Over(r) ELSE Go(r, "revert")
    /\ gaps' = IF TimedOut(cs) THEN gaps \cup {req[r].entry.id} ELSE gaps
    /\ UNCHANGED << tables, devices, topology, overlap, restored, cleared >>

\* A flow that is not there any more is not reverted.
RevertAddedFlows(r) ==
    LET f == req[r].entry.id IN
    /\ req[r].pc = "revert"
    /\ \/ /\ ~Has(f)
          /\ req' = Over(r)
          /\ UNCHANGED flowLock
       \/ /\ Has(f) /\ flowLock[f] = None
          /\ req' = Go(r, "revertMeter")
          /\ flowLock' = [flowLock EXCEPT ![f] = r]
    /\ UNCHANGED << lflows, lgroups, meters, meterLock, queue, stopped,
                    devices, topology, calls, history >>

\* The rules are taken back from every device and the flow is deleted, or the
\* one it replaced is put back, whose rules nobody sends again.
RevertDevices(r) ==
    LET f == req[r].entry.id IN
    /\ req[r].pc = "revertMeter"
    /\ MetersFree({Stored(req[r].entry).meter})
    /\ calls' = calls \cup FanOut(r, "undo", "delete", req[r].rules)
    /\ lflows' = [lflows EXCEPT ![f] = req[r].replaced]
    /\ req' = Go(r, "revertWait")
    /\ \/ /\ req[r].replaced = None
          /\ flowLock' = Unlocked(f)
          /\ UNCHANGED << gaps, restored >>
       \/ /\ req[r].replaced # None
          /\ gaps' = gaps \cup {f} /\ restored' = restored \cup {f}
          /\ UNCHANGED flowLock
    /\ UNCHANGED << lgroups, meters, meterLock, queue, stopped, devices, topology, overlap, cleared >>

RevertWait(r) ==
    LET cs == Mine(r, "undo") IN
    /\ req[r].pc = "revertWait"
    /\ calls' = Read(cs)
    /\ req' = Over(r)
    /\ flowLock' = UnlockedBy(r)
    /\ gaps' = IF AllOk(cs) THEN gaps ELSE gaps \cup {req[r].entry.id}
    /\ UNCHANGED << lflows, lgroups, meters, meterLock, queue, stopped,
                    devices, topology, overlap, restored, cleared >>

-----------------------------------------------------------------------------
(* flowDelete and flowDeleteStrict.                                        *)

\* The entry that matches exactly, or, for an empty match, every flow.
MatchFlows(r) ==
    /\ req[r].pc = "match"
    /\ req' = [Go(r, "collect") EXCEPT ![r].todo =
                  IF req[r].key = None THEN Present ELSE Present \cap {req[r].key}]
    /\ UNCHANGED << tables, devices, topology, calls, history >>

\* toDelete, read one flow at a time.
CollectFlows(r) ==
    /\ req[r].pc = "collect"
    /\ \/ \E f \in req[r].todo :
             /\ flowLock[f] = None
             /\ req' = [req EXCEPT ![r].todo = @ \ {f},
                          ![r].found = IF Has(f) THEN @ \cup {lflows[f]} ELSE @]
       \/ /\ req[r].todo = {}
          /\ req' = IF req[r].found = {} THEN Over(r)
                    ELSE [Go(r, "remove") EXCEPT ![r].todo = Ids(req[r].found)]
    /\ UNCHANGED << tables, devices, topology, calls, history >>

\* The logical flows go first, one at a time.
RemoveFlow(r) ==
    /\ req[r].pc = "remove"
    /\ \E f \in req[r].todo :
         /\ flowLock[f] = None
         /\ lflows' = [lflows EXCEPT ![f] = None]
         /\ req' = [req EXCEPT ![r].todo = @ \ {f},
                              ![r].pc = IF req[r].todo = {f} THEN "send" ELSE @]
    /\ UNCHANGED << flowLock, lgroups, meters, meterLock, queue, stopped,
                    devices, topology, calls, history >>

\* A flow that is not in the table is deleted from the devices all the same.
StrictLock(r) ==
    LET f == req[r].entry.id IN
    /\ req[r].pc = "strictLock"
    /\ flowLock[f] = None \/ ~Has(f)
    /\ flowLock' = IF Has(f) THEN [flowLock EXCEPT ![f] = r] ELSE flowLock
    /\ req' = [Go(r, "send") EXCEPT ![r].found = {IF Has(f) THEN lflows[f] ELSE req[r].entry}]
    /\ UNCHANGED << lflows, lgroups, meters, meterLock, queue, stopped,
                    devices, topology, calls, history >>

\* The device calls a deletion makes: to the devices of the rules, or, when
\* there is no route any more or a device is gone, to the root device alone.
DeletionCalls(r, flows) ==
    UNION {IF o.ok /\ DOMAIN o.rules \subseteq agents
           THEN {FanOut(r, "do", "delete", o.rules)}
           ELSE IF o.ok \/ o.noRoute THEN DeleteFlowsFromParentDevice(r, flows) ELSE {}
             : o \in Decompose(KnownGroups, flows)}

\* Any other error of DecomposeRules, or an adapter that is not ready, ends
\* the request here.
SendDeletion(r) ==
    LET flows == req[r].found IN
    /\ req[r].pc = "send"
    /\ \/ /\ req' = Over(r)
          /\ flowLock' = UnlockedBy(r)
          /\ gaps' = IF req[r].op = "delete" THEN gaps \cup Ids(flows) ELSE gaps
          /\ UNCHANGED calls
       \/ \E cs \in DeletionCalls(r, flows) :
             /\ \A c \in cs : c.kind = "parent" => MetersFree({f.meter : f \in flows})
             /\ req' = Go(r, "deleteWait")
             /\ calls' = calls \cup cs
             /\ UNCHANGED << flowLock, gaps >>
    /\ UNCHANGED << lflows, lgroups, meters, meterLock, queue, stopped,
                    devices, topology, overlap, restored, cleared >>

\* flowDelete only reports a failure; flowDeleteStrict keeps the flow.
DeleteWait(r) ==
    LET cs == Mine(r, "do") IN
    /\ req[r].pc = "deleteWait"
    /\ calls' = Read(cs)
    /\ gaps' = IF AllOk(cs) THEN gaps ELSE gaps \cup Ids(req[r].found)
    /\ \/ /\ AllOk(cs) /\ req[r].op = "strict"
          /\ req' = Go(r, "strictMeter")
          /\ UNCHANGED flowLock
       \/ /\ ~AllOk(cs) \/ req[r].op = "delete"
          /\ req' = Over(r)
          /\ flowLock' = UnlockedBy(r)
    /\ UNCHANGED << lflows, lgroups, meters, meterLock, queue, stopped,
                    devices, topology, overlap, restored, cleared >>

\* updateFlowCountOfMeterStats takes the lock of the meter while the flow's is
\* held, and the flow is deleted if this request has it.
StrictDelete(r) ==
    LET f == req[r].entry.id IN
    /\ req[r].pc = "strictMeter"
    /\ MetersFree({req[r].entry.meter})
    /\ lflows' = IF flowLock[f] = r THEN [lflows EXCEPT ![f] = None] ELSE lflows
    /\ flowLock' = UnlockedBy(r)
    /\ req' = Over(r)
    /\ UNCHANGED << lgroups, meters, meterLock, queue, stopped, devices, topology, calls, history >>

-----------------------------------------------------------------------------
(* Meters.  The requests go through the logical agent's request queue.     *)

\* Mutant: the check for a stopped agent is missing.
AddMeterAlways(r) ==
    LET m == req[r].key IN
    /\ req[r].pc = "queue" /\ req[r].op = "meterAdd"
    /\ queue = None
    /\ meters' = [meters EXCEPT ![m] = IF @ = None THEN "first" ELSE @]
    /\ req' = Over(r)
    /\ UNCHANGED << lflows, flowLock, lgroups, meterLock, queue, stopped,
                    devices, topology, calls, history >>

AddMeter(r) ==
    LET m == req[r].key IN
    /\ req[r].pc = "queue" /\ req[r].op = "meterAdd"
    /\ queue = None
    /\ meters' = IF stopped THEN meters
                 ELSE [meters EXCEPT ![m] = IF @ = None THEN "first" ELSE @]
    /\ req' = Over(r)
    /\ UNCHANGED << lflows, flowLock, lgroups, meterLock, queue, stopped,
                    devices, topology, calls, history >>

ModifyMeter(r) ==
    LET m == req[r].key IN
    /\ req[r].pc = "queue" /\ req[r].op = "meterModify"
    /\ queue = None
    /\ meters' = IF stopped THEN meters
                 ELSE [meters EXCEPT ![m] = IF @ = None THEN @ ELSE "second"]
    /\ req' = Over(r)
    /\ UNCHANGED << lflows, flowLock, lgroups, meterLock, queue, stopped,
                    devices, topology, calls, history >>

\* Mutant: the meter is looked up, not locked.
FindMeter(r) ==
    LET m == req[r].key IN
    /\ req[r].pc = "queue" /\ req[r].op = "meterDelete"
    /\ queue = None
    /\ ~stopped /\ meters[m] # None
    /\ req' = Go(r, "meterList")
    /\ queue' = r
    /\ UNCHANGED << lflows, flowLock, lgroups, meters, meterLock, stopped,
                    devices, topology, calls, history >>

\* meterDelete locks the meter, deletes every flow that refers to it from the
\* logical table, then the meter.
LockMeter(r) ==
    LET m == req[r].key IN
    /\ req[r].pc = "queue" /\ req[r].op = "meterDelete"
    /\ queue = None
    /\ \/ /\ stopped \/ meters[m] = None
          /\ req' = Over(r)
          /\ UNCHANGED << queue, meterLock >>
       \/ /\ ~stopped /\ meters[m] # None
          /\ req' = Go(r, "meterList")
          /\ queue' = r
          /\ meterLock' = [meterLock EXCEPT ![m] = r]
    /\ UNCHANGED << lflows, flowLock, lgroups, meters, stopped, devices, topology, calls, history >>

ListFlows(r) ==
    /\ \/ req[r].pc = "meterList" /\ req' = [Go(r, "meterFlows") EXCEPT ![r].todo = Present]
       \/ req[r].pc = "groupList" /\ req' = [Go(r, "groupFlows") EXCEPT ![r].todo = Present]
    /\ UNCHANGED << tables, devices, topology, calls, history >>

\* The rules of the flow stay on the devices.
DeleteFlowsHavingMeter(r) ==
    /\ req[r].pc = "meterFlows"
    /\ \E f \in req[r].todo :
         /\ flowLock[f] = None
         /\ req' = [req EXCEPT ![r].todo = @ \ {f}]
         /\ \/ /\ Has(f) /\ lflows[f].meter = req[r].key
               /\ lflows' = [lflows EXCEPT ![f] = None]
               /\ gaps' = gaps \cup {f}
            \/ /\ Has(f) => lflows[f].meter # req[r].key
               /\ UNCHANGED << lflows, gaps >>
    /\ UNCHANGED << flowLock, lgroups, meters, meterLock, queue, stopped,
                    devices, topology, calls, overlap, restored, cleared >>

DeleteMeter(r) ==
    LET m == req[r].key IN
    /\ req[r].pc = "meterFlows" /\ req[r].todo = {}
    /\ meters' = [meters EXCEPT ![m] = None]
    /\ meterLock' = [meterLock EXCEPT ![m] = None]
    /\ queue' = None
    /\ req' = Over(r)
    /\ UNCHANGED << lflows, flowLock, lgroups, stopped, devices, topology, calls, history >>

\* stop deletes every meter, in the request queue.
Stop(r) ==
    /\ Free(r)
    /\ ~stopped
    /\ queue = None
    /\ stopped' = TRUE
    /\ meters' = [m \in Meters |-> None]
    /\ req' = Over(r)
    /\ UNCHANGED << lflows, flowLock, lgroups, meterLock, queue,
                    devices, topology, calls, history >>

\* DeleteAllLogicalMeters: the root device is deleted or has rebooted.  Not in
\* the request queue; each meter is locked, and the flows stay.
DeleteAllLogicalMeters(r) ==
    LET ids == {m \in Meters : meters[m] # None} IN
    /\ Free(r)
    /\ ~stopped /\ ids # {}
    /\ req' = [req EXCEPT ![r].op = "clear", ![r].pc = "clear", ![r].todo = ids]
    /\ UNCHANGED << tables, devices, topology, calls, history >>

ClearMeter(r) ==
    /\ req[r].pc = "clear"
    /\ \E m \in req[r].todo :
         /\ MetersFree({m})
         /\ meters' = [meters EXCEPT ![m] = None]
         /\ cleared' = cleared \cup {m}
         /\ req' = IF req[r].todo = {m} THEN Over(r)
                   ELSE [req EXCEPT ![r].todo = @ \ {m}]
    /\ UNCHANGED << lflows, flowLock, lgroups, meterLock, queue, stopped,
                    devices, topology, calls, overlap, gaps, restored >>

-----------------------------------------------------------------------------
(* Groups.                                                                 *)

\* groupAdd sends the group to the root device; an existing one is an error.
AddGroup(r) ==
    LET g == req[r].key IN
    /\ req[r].pc = "groupAdd"
    /\ \/ /\ lgroups[g] # None
          /\ req' = Over(r)
          /\ UNCHANGED << lgroups, calls >>
       \/ /\ lgroups[g] = None
          /\ lgroups' = [lgroups EXCEPT ![g] = "first"]
          /\ calls' = calls \cup {NewCall(r, "do", "add", Root, {}, {GroupEntry(g, "first")}, NoPort)}
          /\ req' = Go(r, "groupWait")
    /\ UNCHANGED << lflows, flowLock, meters, meterLock, queue, stopped, devices, topology, history >>

ModifyGroup(r) ==
    LET g == req[r].key IN
    /\ req[r].pc = "groupModify"
    /\ \/ /\ lgroups[g] = None
          /\ req' = Over(r)
          /\ UNCHANGED << lgroups, calls >>
       \/ /\ lgroups[g] # None
          /\ lgroups' = [lgroups EXCEPT ![g] = "second"]
          /\ calls' = calls \cup {NewCall(r, "do", "update", Root, {}, {GroupEntry(g, "second")}, NoPort)}
          /\ req' = Go(r, "groupWait")
    /\ UNCHANGED << lflows, flowLock, meters, meterLock, queue, stopped, devices, topology, history >>

\* groupDelete deletes the group, then, one at a time, the flows that use it.
RemoveGroup(r) ==
    LET g == req[r].key IN
    /\ req[r].pc = "groupLock"
    /\ lgroups' = [lgroups EXCEPT ![g] = None]
    /\ req' = IF lgroups[g] = None THEN Over(r) ELSE Go(r, "groupList")
    /\ UNCHANGED << lflows, flowLock, meters, meterLock, queue, stopped,
                    devices, topology, calls, history >>

DeleteFlowsHavingGroup(r) ==
    /\ req[r].pc = "groupFlows"
    /\ \E f \in req[r].todo :
         /\ flowLock[f] = None
         /\ \/ /\ Has(f) /\ lflows[f].group = req[r].key
               /\ lflows' = [lflows EXCEPT ![f] = None]
               /\ req' = [req EXCEPT ![r].todo = @ \ {f}, ![r].found = @ \cup {lflows[f]}]
            \/ /\ Has(f) => lflows[f].group # req[r].key
               /\ req' = [req EXCEPT ![r].todo = @ \ {f}]
               /\ UNCHANGED lflows
    /\ UNCHANGED << flowLock, lgroups, meters, meterLock, queue, stopped,
                    devices, topology, calls, history >>

\* The entry of the root device is replaced by the group alone, so the rules
\* of the deleted flows stay on it.
SendGroupDeletion(r) ==
    LET g == req[r].key
        flows == req[r].found
        group == NewCall(r, "do", "delete", Root, {}, {GroupEntry(g, "any")}, NoPort)
    IN
    /\ req[r].pc = "groupFlows" /\ req[r].todo = {}
    /\ \/ /\ req' = Over(r)
          /\ gaps' = gaps \cup Ids(flows) \cup {g}
          /\ UNCHANGED calls
       \/ \E o \in Decompose({g}, flows) :
             /\ o.ok /\ CanMultipleAdapterRequestProceed(DOMAIN o.rules \cup {Root})
             /\ req' = Go(r, "groupWait")
             /\ calls' = calls \cup {group}
                           \cup {c \in FanOut(r, "do", "delete", o.rules) : c.dev # Root}
             /\ gaps' = gaps \cup Ids(flows)
    /\ UNCHANGED << tables, devices, topology, overlap, restored, cleared >>

GroupWait(r) ==
    LET cs == Mine(r, "do") IN
    /\ req[r].pc = "groupWait"
    /\ calls' = Read(cs)
    /\ gaps' = IF AllOk(cs) THEN gaps ELSE gaps \cup {req[r].key}
    /\ req' = Over(r)
    /\ UNCHANGED << tables, devices, topology, overlap, restored, cleared >>

-----------------------------------------------------------------------------
(* The calls: the goroutine of a device, and the device agent it reaches.  *)

\* Somebody still waits for the answer of this call.
Awaited(c) ==
    \/ c.phase = "do" /\ req[c.req].pc \in {"addWait", "deleteWait", "groupWait"}
    \/ c.phase = "undo" /\ req[c.req].pc = "revertWait"

Moved(c, st) ==
    IF st \in {"ok", "err"} /\ ~Awaited(c) THEN calls \ {c}
    ELSE (calls \ {c}) \cup {[c EXCEPT !.st = st]}

\* GetMeterConfig: every meter the rules refer to has to be there.
GetMeterConfig(c) ==
    LET ms == {x.meter : x \in c.rules} \ {NoMeter} IN
    /\ c.st = "meter"
    /\ MetersFree(ms)
    /\ calls' = Moved(c, IF \E m \in ms : meters[m] = None THEN "err" ELSE "device")
    /\ UNCHANGED << tables, devices, topology, req, history >>

\* sendBulkFlows, sendIncrementalFlows: without a change nothing is sent; else
\* the adapter answers, refuses, cannot be reached or does not answer in time.
Answer(c, unchanged) ==
    \E st \in IF unchanged THEN {"ok"} ELSE {"ok", "err"} : calls' = Moved(c, st)

\* What the rules of a call do to the table of a device, entry by entry.
Without(table, rules) == {x \in table : \A y \in rules : RuleId(x) # RuleId(y)}
WithoutGroups(table, groups) == {x \in table : \A y \in groups : x.id # y.id}

\* Mutant: an existing rule is not replaced.
AddBesideExisting(c) == dflows' = [dflows EXCEPT ![c.dev] = @ \cup c.rules]

\* A rule or group that is there with other contents is replaced.
AddFlowsToAdapter(c) ==
    dflows' = [dflows EXCEPT ![c.dev] = Without(@, c.rules) \cup c.rules]
AddGroupsToAdapter(c) ==
    dgroups' = [dgroups EXCEPT ![c.dev] = WithoutGroups(@, c.groups) \cup c.groups]

\* The tables change before the adapter has answered.
DeleteFlowsFromAdapter(c)  == dflows' = [dflows EXCEPT ![c.dev] = Without(@, c.rules)]
DeleteGroupsFromAdapter(c) == dgroups' = [dgroups EXCEPT ![c.dev] = WithoutGroups(@, c.groups)]

\* Only groups the device has.  The logical agent never updates rules.
Known(c) == {x \in c.groups : \E y \in dgroups[c.dev] : y.id = x.id}
UpdateFlowsToAdapter(c)  == UNCHANGED dflows
UpdateGroupsToAdapter(c) ==
    dgroups' = [dgroups EXCEPT ![c.dev] = WithoutGroups(@, Known(c)) \cup Known(c)]

AddFlowsAndGroups(c) ==
    /\ c.kind = "add"
    /\ AddFlowsToAdapter(c) /\ AddGroupsToAdapter(c)
    /\ Answer(c, c.rules \subseteq dflows[c.dev] /\ c.groups \subseteq dgroups[c.dev])
    /\ UNCHANGED gaps

DeleteFlowsAndGroups(c) ==
    /\ c.kind = "delete"
    /\ DeleteFlowsFromAdapter(c) /\ DeleteGroupsFromAdapter(c)
    /\ Answer(c, c.rules = {} /\ c.groups = {})
    /\ UNCHANGED gaps

UpdateFlowsAndGroups(c) ==
    /\ c.kind = "update"
    /\ UpdateFlowsToAdapter(c) /\ UpdateGroupsToAdapter(c)
    /\ Answer(c, Known(c) = {})
    /\ UNCHANGED gaps

\* filterOutFlows: every rule that has the UNI port as input, output or
\* tunnel, of whichever flow.
FilterOutFlows(c) ==
    LET out == {x \in dflows[c.dev] : c.uni \in {x.inPort, x.output, x.tunnel}} IN
    /\ c.kind = "parent"
    /\ dflows' = [dflows EXCEPT ![c.dev] = @ \ out]
    /\ Answer(c, out = {})
    /\ gaps' = gaps \cup ({x.flow : x \in out} \ Ids(req[c.req].found))
    /\ UNCHANGED dgroups

\* The device agent is gone or does not let the request proceed.
RefuseCall(c) ==
    /\ c.st = "device"
    /\ calls' = Moved(c, "err")
    /\ UNCHANGED << tables, devices, topology, req, history >>

ApplyCall(c) ==
    /\ c.st = "device"
    /\ c.dev \in agents
    /\ \/ AddFlowsAndGroups(c) \/ DeleteFlowsAndGroups(c)
       \/ UpdateFlowsAndGroups(c) \/ FilterOutFlows(c)
    /\ UNCHANGED << tables, topology, req, overlap, restored, cleared >>

-----------------------------------------------------------------------------
(* The deletion of a child device: its rules go, then its logical ports,   *)
(* then its agent.                                                         *)

DeleteAllFlows(r) == \E d \in Children \cap agents :
    /\ Free(r)
    /\ dflows' = [dflows EXCEPT ![d] = {}]
    /\ req' = [req EXCEPT ![r].op = "deleteChild", ![r].pc = "ports", ![r].key = d]
    /\ UNCHANGED << tables, dgroups, topology, calls, history >>

DeleteLogicalPorts(r) ==
    /\ req[r].pc = "ports"
    /\ unis' = {u \in unis : ChildOf[u] # req[r].key}
    /\ req' = Go(r, "agent")
    /\ UNCHANGED << tables, devices, agents, calls, history >>

StopManagingDevice(r) ==
    LET d == req[r].key IN
    /\ req[r].pc = "agent"
    /\ agents' = agents \ {d}
    /\ dflows' = [dflows EXCEPT ![d] = {}]
    /\ dgroups' = [dgroups EXCEPT ![d] = {}]
    /\ req' = Over(r)
    /\ UNCHANGED << tables, unis, calls, history >>

Next ==
    \/ \E r \in Requests :
         \/ UpdateFlowTable(r) \/ UpdateGroupTable(r) \/ UpdateMeterTable(r)
         \/ CreateFlow(r) \/ ListGroups(r) \/ DecomposeAndAdd(r) \/ AddWait(r)
         \/ RevertAddedFlows(r) \/ RevertDevices(r) \/ RevertWait(r)
         \/ MatchFlows(r) \/ CollectFlows(r) \/ RemoveFlow(r) \/ StrictLock(r)
         \/ SendDeletion(r) \/ DeleteWait(r) \/ StrictDelete(r)
         \/ AddMeter(r) \/ ModifyMeter(r) \/ LockMeter(r) \/ ListFlows(r)
         \/ DeleteFlowsHavingMeter(r) \/ DeleteMeter(r)
         \/ AddGroup(r) \/ ModifyGroup(r) \/ RemoveGroup(r)
         \/ DeleteFlowsHavingGroup(r) \/ SendGroupDeletion(r) \/ GroupWait(r)
         \/ Stop(r) \/ DeleteAllLogicalMeters(r) \/ ClearMeter(r)
         \/ DeleteAllFlows(r) \/ DeleteLogicalPorts(r) \/ StopManagingDevice(r)
    \/ \E c \in calls :
         GetMeterConfig(c) \/ RefuseCall(c) \/ ApplyCall(c)

Spec == Init /\ [][Next]_vars

-----------------------------------------------------------------------------
(* Properties.                                                             *)

\* Type invariant of the logical and the device tables.
TypeOK ==
    /\ \A f \in FlowIds : Has(f) => lflows[f] \in Entries \cup {Stored(e) : e \in Entries}
    /\ flowLock \in [FlowIds -> Requests \cup {None}]
    /\ meterLock \in [Meters -> Requests \cup {None}]
    /\ queue \in Requests \cup {None}
    /\ lgroups \in [Groups -> {None, "first", "second"}]
    /\ meters \in [Meters -> {None, "first", "second"}]
    /\ \A d \in Devices : \A x, y \in dflows[d] : RuleId(x) = RuleId(y) => x = y
    /\ \A d \in Devices : \A x, y \in dgroups[d] : x.id = y.id => x = y

\* When no request is at work, every flow of the logical table whose rules
\* carry a meter refers to a meter that exists: a flow added while its meter
\* is being deleted is either caught by deleteFlowsHavingMeter or fails on
\* GetMeterConfig and is reverted.  Not so for a flow that revertAddedFlows has
\* put back, not after stop and not for the meters DeleteAllLogicalMeters has
\* deleted: those two delete the meters alone.
FlowsHaveMeters ==
    Quiet /\ ~stopped =>
        \A f \in Present \ restored :
            lflows[f].meter \notin cleared \cup {NoMeter} => meters[lflows[f].meter] # None

\* When no request is at work, a flow that sends to a group has that group:
\* flowAdd puts the flow in the table before it reads the groups, groupDelete
\* removes the group before it searches the flows.
FlowsHaveGroups ==
    Quiet => \A f \in Present \ restored :
                lflows[f].group # NoGroup => lgroups[lflows[f].group] # None

\* Who waits for a lock that a request holds.  Waits with a timeout are left out.
WaitsFor(a, b) ==
    \/ /\ req[a].pc \in {"create", "strictLock", "revert"}
       /\ flowLock[req[a].entry.id] = b
    \/ /\ req[a].pc \in {"collect", "remove", "meterFlows", "groupFlows"}
       /\ req[a].todo # {} /\ \A f \in req[a].todo : flowLock[f] # None
       /\ \E f \in req[a].todo : flowLock[f] = b
    \/ /\ req[a].pc \in {"strictMeter", "revertMeter"}
       /\ ~MetersFree({req[a].entry.meter}) /\ meterLock[req[a].entry.meter] = b
    \/ /\ req[a].pc = "clear" /\ \A m \in req[a].todo : meterLock[m] # None
       /\ \E m \in req[a].todo : meterLock[m] = b
    \/ req[a].pc = "queue" /\ queue = b

\* Two requests that wait for each other: one of them is a meterDelete, which
\* takes flow locks while it holds a meter's.  No other pair of requests of a
\* logical agent can block each other for good.
OnlyMeterDeleteDeadlocks ==
    \A a, b \in Requests :
        WaitsFor(a, b) /\ WaitsFor(b, a) => "meterDelete" \in {req[a].op, req[b].op}

\* The rules a flow of the table stands for, when every device is there.
Outputs(rules) == {[id |-> RuleId(x), output |-> x.output] : x \in rules}
RulesOf(f, d) == {x \in dflows[d] : x.flow = f}
Agrees(f) ==
    LET there == {Root} \cup {d \in agents : \A u \in UniPorts : ChildOf[u] = d => u \in unis}
    IN  IF ~Has(f) THEN \A d \in there : RulesOf(f, d) = {}
        ELSE \E o \in DecomposeFlow(Routes(UniPorts), Devices, NniPorts \cup UniPorts,
                                     Groups, lflows[f]) :
               /\ o.ok
               /\ \A d \in there : Outputs(RulesOf(f, d)) =
                                    Outputs(IF d \in DOMAIN o.rules THEN o.rules[d] ELSE {})

\* When no request is at work and no call is under way, the device tables hold
\* exactly the rules of the logical flows, and the root device exactly the
\* groups.  Left out are the keys two requests worked on at the same time and
\* the keys in "gaps", whose request the code ends without bringing the tables
\* together: a call that failed or timed out, a deletion given up after the
\* logical flow had gone, a meter's or a group's flows, an update put back, a
\* rule of another flow on the same UNI port.
SequentialAgreement ==
    Quiet /\ (\A c \in calls : ~Pending(c)) =>
        /\ \A f \in FlowIds \ (overlap \cup gaps) : Agrees(f)
        /\ \A g \in Groups \ (overlap \cup gaps) :
               {x.ver : x \in {y \in dgroups[Root] : y.id = g}} = {lgroups[g]} \ {None}

\* A meter request that comes after stop does nothing: no meter is left behind
\* in the store for a logical device that is gone (updateMeterTable).
NoStaleMeters == stopped => \A m \in Meters : meters[m] = None

\* The flows that carry a subscriber's traffic between UNI port u and NNI port
\* n: a trap, upstream in two tables, downstream in two tables.
Shape(in, out, table, next, metaPort, trap) ==
    [id |-> 0, inPort |-> in, outPort |-> out, table |-> table, next |-> next,
     meta |-> metaPort # NoPort, metaPort |-> metaPort, meter |-> NoMeter,
     oltMeter |-> NoMeter, group |-> NoGroup, trap |-> trap]
Trapping(u)      == Shape(u, Controller, 0, FALSE, NoPort, FALSE)
Upstream0(u)     == Shape(u, NoPort, 0, TRUE, NoPort, FALSE)
Upstream1(u, n)  == Shape(u, n, 1, FALSE, NoPort, FALSE)
Protocol(u, n)   == Shape(u, n, 1, FALSE, NoPort, TRUE)
Downstream0(u, n) == Shape(n, NoPort, 0, TRUE, u, FALSE)
Downstream1(u, n) == Shape(n, u, 1, FALSE, NoPort, FALSE)

\* A device hands packets with a tunnel id over from one port to another.
Passes(outcomes, d, in, tunnel, out) ==
    \A o \in outcomes : o.ok =>
        \E x \in UNION {o.rules[e] : e \in DOMAIN o.rules \cap {d}} :
            x.inPort = in /\ x.tunnel = tunnel /\ x.output = out

\* The rules of a subscriber's flows fit together: upstream the ONU's rule ends
\* on its PON port and the OLT's starts on the PON port the ONU hangs on, under
\* the UNI port as tunnel id; downstream the other way round; a protocol goes
\* up to the controller.  A flow that cannot be decomposed fails with "no
\* route", the one error flowDelete treats as a child that is gone.
SubscriberPaths ==
    Quiet /\ (\E r \in Requests : req[r] = Idle) => \A u \in UniPorts, n \in NniPorts :
        LET Of(f) == Decompose(KnownGroups, {f})
            onu == ChildOf[u]
        IN  /\ Passes(Of(Trapping(u)), onu, u, u, OnuPon[onu])
            /\ Passes(Of(Trapping(u)), Root, OltPon[onu], u, n)
            /\ Passes(Of(Upstream0(u)), onu, u, u, OnuPon[onu])
            /\ Passes(Of(Upstream1(u, n)), Root, OltPon[onu], u, n)
            /\ Passes(Of(Protocol(u, n)), Root, OltPon[onu], u, Controller)
            /\ Passes(Of(Downstream0(u, n)), Root, n, u, OltPon[onu])
            /\ Passes(Of(Downstream1(u, n)), onu, OnuPon[onu], NoPort, u)
            /\ \A f \in {Trapping(u), Upstream0(u), Upstream1(u, n), Protocol(u, n),
                          Downstream0(u, n), Downstream1(u, n)} :
                  \A o \in Of(f) : o.ok \/ o.noRoute

=============================================================================
