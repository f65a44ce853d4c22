---------------------------- MODULE LogicalPorts ----------------------------
(***************************************************************************)
(* The ports of a logical device, from the adapter's report of a physical  *)
(* port to the event the controller gets: the ports of the device agents   *)
(* (agent_port.go, manager.go, manager_sbi.go), the logical ports and the  *)
(* queue that keeps their events in order (logical_agent_port.go), the     *)
(* upkeep of the routes (logical_agent_route.go with DeviceRoutes) and the *)
(* change event channel (EventStreams).                                    *)
(*                                                                         *)
(* A request runs in a goroutine of its own.  A logical port that is       *)
(* created gets a place in the event queue at once, and a goroutine that   *)
(* first updates the routes and then sends the event in its turn: such a   *)
(* goroutine is an element of `pending'.  The lock of a device port is     *)
(* modelled where it is held across steps, in updatePortsOperState; the    *)
(* lock of a logical port never is.                                        *)
(***************************************************************************)
EXTENDS DeviceRoutes, EventStreams, SequencesExt

CONSTANTS Requests,     \* the requests, numbered in the order they come
          Starts        \* the settled states things begin in

VARIABLES dports,       \* the ports of each device agent
          peers,        \* the children the PON ports of the root name
          operDown,     \* the device ports whose oper status is not ACTIVE
          ofpDown,      \* the device ports whose OpenFlow port is down
          portLock,     \* the request that keeps the lock of a device port
          ready,        \* the children that are ENABLED and ACTIVE
          agents,       \* the devices that have an agent
          deleting,     \* the devices whose deletion is in progress
          lports,       \* the logical ports
          pending,      \* orderedEvents: the positions that were assigned
          dr,           \* deviceRoutes
          green,        \* the request that has the logical agent's green light
          phase,        \* of the logical agent
          req,          \* the requests
          overlap,      \* ports two requests worked on at the same time
          wiped,        \* ports deleted by DeleteAllPorts of another device
          raced,        \* ports re-created before their deletion was queued
          stale,        \* the routes were written from an outdated listing
          kept,         \* ports that were gone when ComputeRoutes kept the routes
          late,         \* events may follow the deletion of the device
          lost          \* an event was not sent, or not in its turn

deviceVars == << dports, peers, operDown, ofpDown, portLock, ready, agents,
                 deleting >>
portHistory == << overlap, wiped, raced >>
routeHistory == << stale, kept >>
history == << portHistory, routeHistory, late, lost >>
vars == << deviceVars, lports, pending, dr, green, phase, req, history, streamVars >>

\* What the OpenFlow port of a logical port says: it is down by configuration,
\* its link is down.
Value(config, link) == [config |-> config, link |-> link]
Up == Value(FALSE, FALSE)
ASSUME PortsAssumption ==
    Ports = NniPorts \cup UniPorts /\ Values = {Value(c, l) : c, l \in BOOLEAN}

PonPorts == {OltPon[c] : c \in Children} \cup {OnuPon[c] : c \in Children}
Holder(p) == CASE p \in NniPorts -> Root
               [] p \in UniPorts -> ChildOf[p]
               [] \E c \in Children : p = OltPon[c] -> Root
               [] OTHER -> CHOOSE c \in Children : p = OnuPon[c]
UnisOf(c) == {u \in UniPorts : ChildOf[u] = c}

net == [ports |-> dports, peers |-> peers, agents |-> agents]
Present == {p \in Ports : lports[p] # None}

\* getLogicalDeviceAgent finds the agent while it serves.
Serving == phase = "serving"

NoSnap == [ports |-> {}, peers |-> {}]
Idle == [op |-> "none", pc |-> "idle", port |-> NoPort, dev |-> Root, down |-> FALSE,
         todo |-> {}, lps |-> {}, snap |-> NoSnap]
Done == [Idle EXCEPT !.pc = "done"]
Running(r) == req[r].pc \notin {"idle", "done"}

Touches(q) == CASE q.op \in {"created", "portState", "config"} -> {q.port} \cap Ports
                [] q.op = "portsState" -> {p \in Ports : Holder(p) = q.dev}
                [] q.op \in {"activate", "childDelete"} -> UnisOf(q.dev)
                [] q.op \in {"start", "deleteAllPorts", "remove", "rootDelete"} -> Ports
                [] OTHER -> {}
Busy(p) == \E r \in Requests : Running(r) /\ p \in Touches(req[r])

Free(r) == req[r] = Idle /\ \A o \in Requests : o < r => req[o] # Idle
Go(r, pc) == [req EXCEPT ![r].pc = pc]
Over(r)   == [req EXCEPT ![r] = Done]
At(r, pc) == req[r].pc = pc

\* The loop of a request goes on with what is left, and ends the request.
GoOn(r, pc, left) == IF left = {} THEN Over(r) ELSE [req EXCEPT ![r].pc = pc, ![r].todo = left]

\* listDevicePorts takes the lock of every port of a device in turn.
Listable(d) == \A p \in dports[d] : portLock[p] = None
Snapshot(d) == DevicePorts(net, d)

SettledRoutes(ports, n) ==
    IF Cardinality(ports) < 2 THEN [EmptyRoutes EXCEPT !.ports = ports, !.roots = ports \cap NniPorts]
    ELSE CHOOSE x \in ComputeRoutes(EmptyRoutes, n, ports) : TRUE

Init == \E s \in Starts :
    /\ dports = s.dports /\ peers = s.peers /\ ready = s.ready /\ agents = Devices
    /\ operDown = {} /\ ofpDown = {} /\ deleting = {}
    /\ portLock = [p \in Ports \cup PonPorts |-> None]
    /\ lports = [p \in Ports |-> IF p \in s.ports THEN Up ELSE None]
    /\ phase = s.phase /\ pending = << >> /\ green = None
    /\ dr = SettledRoutes(s.ports, [ports |-> s.dports, peers |-> s.peers, agents |-> Devices])
    /\ req = [r \in Requests |-> IF r \in s.requests THEN Idle ELSE Done]
    /\ overlap = {} /\ wiped = {} /\ raced = {} /\ stale = FALSE /\ kept = {} /\ late = FALSE /\ lost = FALSE
    /\ StreamInit /\ view = lports 
    /\ stream = s.stream

-----------------------------------------------------------------------------
(* The positions of the event queue.                                       *)

\* assignQueuePosition: the goroutine behind a position.
Position(kind, p, v, at, snap) ==
    [kind |-> kind, port |-> p, value |-> v, at |-> at, lps |-> {}, snap |-> snap]

\* The agent waits for the last events, or is over.
Closing == phase = "stopped" \/ \E r \in Requests : req[r].pc \in {"waitEvents", "gone"}

Assign(position) == /\ pending' = Append(pending, position)
                    /\ late' = (late \/ Closing)

\* addNNILogicalPort and addUNILogicalPort.
AddLogicalPort(p, v, snap) ==
    IF lports[p] # None THEN UNCHANGED << lports, pending, late >>
    ELSE /\ lports' = [lports EXCEPT ![p] = v]
         /\ Assign(Position("add", p, v, "list", snap))

\* Mutant: a port that changes goes the way of a port that is added.
SetLikeAdded(p, v) ==
    /\ lports' = [lports EXCEPT ![p] = v]
    /\ Assign(Position("modify", p, v, "list", NoSnap))

\* updatePortState and its kind: a new value, and its event.
SetLogicalPort(p, v) ==
    /\ lports' = [lports EXCEPT ![p] = v]
    /\ Assign(Position("modify", p, v, "send", NoSnap))

\* clonePortSetState.
StateOf(down) == Value(down, down)

\* updateRoutes of a port that was added: the logical ports are listed ...
ListForRoutes(i) ==
    /\ pending[i].at = "list"
    /\ pending' = [pending EXCEPT ![i].at = "routes", ![i].lps = Present]
    /\ UNCHANGED << deviceVars, lports, dr, green, phase, req, history, streamVars >>

\* ... and AddPort is called with that listing.
UpdateRoutes(i) ==
    LET x == pending[i]
    IN  /\ x.at = "routes"
        /\ \A d \in x.snap.peers \cup {Root, Holder(x.port)} : Listable(d)
        /\ dr' = AddPort(dr, net, x.port, x.snap, x.lps)
        /\ stale' = (stale \/ ~(x.lps \cup {x.port} \subseteq Present))
        /\ pending' = [pending EXCEPT ![i] = Position(x.kind, x.port, x.value, "send", NoSnap)]
        /\ UNCHANGED << deviceVars, lports, green, phase, req, portHistory, kept, late, lost, streamVars >>

\* Mutant: a goroutine sends as soon as it has updated the routes.
SendOutOfTurn ==
    /\ \E i \in 1 .. Len(pending) :
          /\ pending[i].at = "send"
          /\ pending' = SubSeq(pending, 1, i - 1) \o SubSeq(pending, i + 1, Len(pending))
          /\ IF pending[i].kind = "completion" THEN UNCHANGED queue
             ELSE Send(PortEvent(pending[i].kind, pending[i].port, pending[i].value))
    /\ UNCHANGED << deviceVars, lports, dr, green, phase, req, history,
                    token, tracker, stream, alive, held, failed, view >>

\* queuePosition.send and sendCompletion: the first in line has its turn.
SendInTurn ==
    /\ pending # << >> /\ Head(pending).at = "send"
    /\ pending' = Tail(pending)
    /\ IF Head(pending).kind = "completion" THEN UNCHANGED queue
       ELSE Send(PortEvent(Head(pending).kind, Head(pending).port, Head(pending).value))
    /\ UNCHANGED << deviceVars, lports, dr, green, phase, req, history,
                    token, tracker, stream, alive, held, failed, view >>

-----------------------------------------------------------------------------
(* Requests begin.                                                         *)

Begin(r, q) ==
    /\ Free(r)
    /\ req' = [req EXCEPT ![r] = q]
    /\ overlap' = overlap \cup {p \in Touches(q) : Busy(p)}
    /\ UNCHANGED << deviceVars, lports, pending, dr, green, phase, wiped, raced, routeHistory, late, lost, streamVars >>

PortCreated(r) == \E p \in Ports \cup PonPorts :
    Begin(r, [Idle EXCEPT !.op = "created", !.pc = "addPort", !.port = p, !.dev = Holder(p)])

PortStateUpdate(r) == \E p \in Ports, b \in BOOLEAN :
    Begin(r, [Idle EXCEPT !.op = "portState", !.pc = "deviceState", !.port = p,
                          !.dev = Holder(p), !.down = b])

PortsStateUpdate(r) == \E d \in agents, b \in BOOLEAN :
    Begin(r, [Idle EXCEPT !.op = "portsState", !.pc = "ports", !.dev = d, !.down = b,
                          !.todo = dports[d]])

\* A root device that becomes active gets a logical device (start).
CreateLogicalDevice(r) == \E exist \in BOOLEAN :
    /\ phase = "none" /\ Root \notin deleting
    /\ \A o \in Requests : req[o].op # "start"
    /\ Begin(r, [Idle EXCEPT !.op = "start", !.pc = "setupNNI", !.down = exist])

DeleteAllPorts(r) == \E d \in agents :
    Begin(r, [Idle EXCEPT !.op = "deleteAllPorts", !.pc = "deleteDevicePorts", !.dev = d])

\* A request that changes the transient state of a device to deleting.
BeginDeletion(r, q) ==
    /\ Free(r)
    /\ deleting' = deleting \cup {q.dev}
    /\ req' = [req EXCEPT ![r] = q]
    /\ overlap' = overlap \cup {p \in Touches(q) : Busy(p)}
    /\ UNCHANGED << dports, peers, operDown, ofpDown, portLock, ready, agents, lports, pending, dr,
                    green, phase, wiped, raced, routeHistory, late, lost, streamVars >>

\* A root device that was rebooted: DeleteAllLogicalPorts, then
\* DeleteLogicalDevice.
RemoveLogicalDevice(r) ==
    /\ Root \in agents \ deleting
    /\ \A o \in Requests : req[o].op # "remove"
    /\ Begin(r, [Idle EXCEPT !.op = "remove", !.pc = "listAll"])

\* A reboot during the deletion has no handlers, and the transient state that
\* says reboot replaces the one that says deletion.
RebootWhileDeleting(r) ==
    /\ Free(r)
    /\ Root \in agents \cap deleting
    /\ deleting' = deleting \ {Root}
    /\ req' = Over(r)
    /\ UNCHANGED << dports, peers, operDown, ofpDown, portLock, ready, agents, lports, pending, dr,
                    green, phase, history, streamVars >>

\* A root device is deleted: the same, then RunPostDeviceDelete.
DeleteRoot(r) ==
    /\ Root \in agents \ deleting
    /\ \A o \in Requests : req[o].op # "remove"
    /\ BeginDeletion(r, [Idle EXCEPT !.op = "rootDelete", !.pc = "listAll"])

\* A child becomes active: SetupUNILogicalPorts, unless it is being deleted.
ActivateChild(r) == \E c \in Children \cap agents :
    /\ c \notin ready
    /\ Free(r)
    /\ ready' = ready \cup {c}
    /\ req' = IF c \in deleting THEN Over(r)
              ELSE [req EXCEPT ![r] = [Idle EXCEPT !.op = "activate", !.pc = "listUnis", !.dev = c]]
    /\ overlap' = overlap \cup {p \in UnisOf(c) : Busy(p)}
    /\ UNCHANGED << dports, peers, operDown, ofpDown, portLock, agents, deleting, lports, pending, dr, green,
                    phase, wiped, raced, routeHistory, late, lost, streamVars >>

\* A child is deleted: DeleteLogicalPorts, then RunPostDeviceDelete.
DeleteChild(r) == \E c \in (Children \cap agents) \ deleting :
    BeginDeletion(r, [Idle EXCEPT !.op = "childDelete", !.pc = "listDevice", !.dev = c])

\* The adapter refuses the deletion, before any of the handlers has run.
DeletionFails(r) ==
    /\ req[r].op \in {"childDelete", "rootDelete"} /\ req[r].pc \in {"listDevice", "listAll"}
    /\ deleting' = deleting \ {req[r].dev}
    /\ req' = Over(r)
    /\ UNCHANGED << dports, peers, operDown, ofpDown, portLock, ready, agents, lports, pending, dr,
                    green, phase, history, streamVars >>

-----------------------------------------------------------------------------
(* The ports of the device agents.                                         *)

\* Agent.addPort.  A port that exists stays as it is.
AddDevicePort(r) ==
    LET q == req[r]
    IN  /\ At(r, "addPort")
        /\ portLock[q.port] = None
        /\ IF q.dev \notin agents THEN req' = Over(r) /\ UNCHANGED << dports, operDown, ofpDown >>
           ELSE /\ dports' = [dports EXCEPT ![q.dev] = @ \cup {q.port}]
                /\ IF q.port \in dports[q.dev] THEN UNCHANGED << operDown, ofpDown >>
                   ELSE operDown' = operDown \ {q.port} /\ ofpDown' = ofpDown \ {q.port}
                /\ req' = Go(r, IF q.dev # Root /\ q.port \in PonPorts THEN "addPeer" ELSE "list")
        /\ UNCHANGED << peers, portLock, ready, agents, deleting, lports, pending, dr, green, phase,
                        history, streamVars >>

\* Agent.addPeerPort of the root, which creates the PON port if need be.
AddPeerPort(r) ==
    LET c == req[r].dev
    IN  /\ At(r, "addPeer")
        /\ portLock[OltPon[c]] = None
        /\ IF Root \notin agents THEN UNCHANGED << peers, dports >>
           ELSE /\ peers' = peers \cup {c}
                /\ dports' = [dports EXCEPT ![Root] = @ \cup {OltPon[c]}]
        /\ req' = Go(r, "list")
        /\ UNCHANGED << operDown, ofpDown, portLock, ready, agents, deleting, lports, pending, dr, green,
                        phase, history, streamVars >>

\* The rest of Manager.addPeerPort up to the logical device.  `down' is set
\* for a child that is not ready.
ListDevicePorts(r) ==
    LET q == req[r]
    IN  /\ At(r, "list")
        /\ Listable(q.dev)
        /\ req' = IF q.dev \notin agents THEN Over(r)
                  ELSE [req EXCEPT ![r].pc = "update", ![r].snap = Snapshot(q.dev),
                                   ![r].down = q.dev \notin ready \cup {Root}]
        /\ UNCHANGED << deviceVars, lports, pending, dr, green, phase, history, streamVars >>

\* LogicalAgent.updateLogicalPort.  The case of the PON port of the root does
\* not fall through to that of a child.
UpdateLogicalPort(r) ==
    LET q == req[r]
    IN  /\ At(r, "update")
        /\ IF Serving /\ q.port \in Ports /\ ~q.down
           THEN AddLogicalPort(q.port, Up, q.snap)
           ELSE UNCHANGED << lports, pending, late >>
        /\ req' = CASE ~Serving \/ q.port \in Ports -> Over(r)
                    [] q.dev = Root -> Go(r, "build")
                    [] OTHER -> Go(r, "listForAll")
        /\ UNCHANGED << deviceVars, dr, green, phase, portHistory, routeHistory, lost, streamVars >>

\* Agent.updatePortState.
UpdateDevicePortState(r) ==
    LET q == req[r]
        d == {q.port} \cap dports[q.dev]
    IN  /\ At(r, "deviceState")
        /\ portLock[q.port] = None
        /\ operDown' = IF q.down THEN operDown \cup d ELSE operDown \ d
        /\ ofpDown'  = IF q.down THEN ofpDown \cup d ELSE ofpDown \ d
        /\ req' = IF q.dev \in agents THEN Go(r, "logicalState") ELSE Over(r)
        /\ UNCHANGED << dports, peers, portLock, ready, agents, deleting, lports, pending, dr, green, phase,
                        history, streamVars >>

\* updatePortsOperState: one port after the other.  The OpenFlow port of the
\* device port is not touched.
UpdatePortsOperState(r) ==
    LET q == req[r]
    IN  /\ At(r, "ports")
        /\ \/ /\ q.todo = {}
              /\ req' = Over(r)
              /\ UNCHANGED << operDown, portLock >>
           \/ \E p \in q.todo :
                /\ portLock[p] = None
                /\ IF p \notin dports[q.dev]
                   THEN req' = GoOn(r, "ports", q.todo \ {p}) /\ UNCHANGED << operDown, portLock >>
                   ELSE /\ operDown' = IF q.down THEN operDown \cup {p} ELSE operDown \ {p}
                        /\ IF p \in Ports
                           THEN /\ portLock' = [portLock EXCEPT ![p] = r]
                                /\ req' = [req EXCEPT ![r].todo = @ \ {p}, ![r].port = p,
                                                      ![r].pc = "notify"]
                           ELSE req' = GoOn(r, "ports", q.todo \ {p}) /\ UNCHANGED portLock
        /\ UNCHANGED << dports, peers, ofpDown, ready, agents, deleting, lports, pending, dr, green, phase,
                        history, streamVars >>

\* The logical port is told with the lock of the device port held.  A logical
\* port that does not exist is looked up again under that very lock
\* (getDevicePort), which never succeeds: the request stays there.
NotifyLogicalPort(r) ==
    LET p == req[r].port
    IN  /\ At(r, "notify")
        /\ CASE ~Serving ->
                  /\ portLock' = [portLock EXCEPT ![p] = None]
                  /\ req' = GoOn(r, "ports", req[r].todo)
                  /\ UNCHANGED << lports, pending, late >>
             [] Serving /\ lports[p] = None ->
                  req' = Go(r, "selfLocked") /\ UNCHANGED << portLock, lports, pending, late >>
             [] OTHER ->
                  /\ SetLogicalPort(p, StateOf(req[r].down))
                  /\ portLock' = [portLock EXCEPT ![p] = None]
                  /\ req' = GoOn(r, "ports", req[r].todo)
        /\ UNCHANGED << dports, peers, operDown, ofpDown, ready, agents, deleting, dr, green, phase,
                        portHistory, routeHistory, lost, streamVars >>

\* Agent.deleteAllPorts is refused unless the deletion of the device is in
\* progress.  RunPostDeviceDelete ends the agent then, DeleteAllPorts goes on to
\* the logical device if the agent is still there.
DeleteDevicePorts(r) ==
    LET q  == req[r]
        ok == q.dev \in deleting
    IN  /\ At(r, "deleteDevicePorts")
        /\ Listable(q.dev)
        /\ dports' = IF ok THEN [dports EXCEPT ![q.dev] = {}] ELSE dports
        /\ peers' = IF ok /\ q.dev = Root THEN {} ELSE peers
        /\ IF q.op = "deleteAllPorts"
           THEN /\ req' = IF ok /\ q.dev \in agents THEN Go(r, "listAll") ELSE Over(r)
                /\ UNCHANGED agents
           ELSE req' = Over(r) /\ agents' = agents \ {q.dev}
        /\ UNCHANGED << operDown, ofpDown, portLock, ready, deleting, lports, pending, dr, green, phase,
                        history, streamVars >>

-----------------------------------------------------------------------------
(* The logical ports.                                                      *)

\* LogicalAgent.updatePortState.  A port that is missing is first created from
\* the device port (checkAndUpdateLogicalPort), if its device is ready.
UpdatePortState(r) ==
    LET q    == req[r]
        able == q.dev = Root \/ q.dev \in ready
    IN  /\ At(r, "logicalState")
        /\ CASE ~Serving -> req' = Over(r) /\ UNCHANGED << lports, pending, late >>
             [] Serving /\ lports[q.port] # None ->
                    SetLogicalPort(q.port, StateOf(q.down)) /\ req' = Over(r)
             [] Serving /\ lports[q.port] = None /\ q.port \notin dports[q.dev] ->
                    req' = Over(r) /\ UNCHANGED << lports, pending, late >>
             [] OTHER ->
                    /\ Listable(q.dev)
                    /\ req' = Go(r, "relock")
                    /\ IF able
                       THEN AddLogicalPort(q.port, StateOf(q.port \in (IF q.dev = Root THEN ofpDown
                                                                       ELSE operDown)), Snapshot(q.dev))
                       ELSE UNCHANGED << lports, pending, late >>
        /\ UNCHANGED << deviceVars, dr, green, phase, portHistory, routeHistory, lost, streamVars >>

RelockPort(r) ==
    LET q == req[r]
    IN  /\ At(r, "relock")
        /\ req' = Over(r)
        /\ IF lports[q.port] = None THEN UNCHANGED << lports, pending, late >>
           ELSE SetLogicalPort(q.port, StateOf(q.down))
        /\ UNCHANGED << deviceVars, dr, green, phase, portHistory, routeHistory, lost, streamVars >>

\* EnableLogicalDevicePort and DisableLogicalDevicePort change the configuration.
ConfigureLogicalPort(r) == \E p \in Present, disable \in BOOLEAN :
    /\ Free(r) /\ Serving
    /\ SetLogicalPort(p, Value(disable, lports[p].link))
    /\ req' = Over(r)
    /\ UNCHANGED << deviceVars, dr, green, phase, portHistory, routeHistory, lost, streamVars >>

\* setupUNILogicalPorts of a child that became active.
ListUnis(r) ==
    LET q == req[r]
        x == Snapshot(q.dev)
    IN  /\ At(r, "listUnis")
        /\ Listable(q.dev)
        /\ req' = IF ~Serving THEN Over(r)
                  ELSE GoOn(r, "setupUnis", {<< p, StateOf(p \in operDown), x >> :
                                                p \in x.ports \cap Ports})
        /\ UNCHANGED << deviceVars, lports, pending, dr, green, phase, history, streamVars >>

\* start: setupNNILogicalPorts with the ports of the root ...
SetupNNILogicalPorts(r) ==
    LET x == Snapshot(Root)
    IN  /\ At(r, "setupNNI")
        /\ Listable(Root)
        /\ req' = [req EXCEPT ![r].pc = "setupNnis",
                              ![r].todo = {<< p, StateOf(p \in ofpDown), x >> :
                                              p \in x.ports \cap Ports}]
        /\ phase' = "starting"
        /\ UNCHANGED << deviceVars, lports, pending, dr, green, history, streamVars >>

\* ... then the UNI ports of the children.
SetupUNILogicalPorts(r) ==
    /\ At(r, "setupNnis") /\ req[r].todo = {}
    /\ \A c \in Children : Listable(c)
    /\ req' = [req EXCEPT ![r].pc = "setupUnis",
                          ![r].todo = {<< p, StateOf(p \in operDown), Snapshot(ChildOf[p]) >> :
                             p \in {u \in UniPorts : u \in dports[ChildOf[u]] /\ ChildOf[u] \in ready}}]
    /\ UNCHANGED << deviceVars, lports, pending, dr, green, phase, history, streamVars >>

SetupPort(r) ==
    /\ req[r].pc \in {"setupNnis", "setupUnis"}
    /\ \E x \in req[r].todo :
          /\ AddLogicalPort(x[1], x[2], x[3])
          /\ req' = IF req[r].op = "activate" THEN GoOn(r, "setupUnis", req[r].todo \ {x})
                    ELSE [req EXCEPT ![r].todo = @ \ {x}]
    /\ UNCHANGED << deviceVars, dr, green, phase, portHistory, routeHistory, lost, streamVars >>

\* The routes are built for a logical device that was loaded, not for a new one.
SetupDone(r) ==
    /\ At(r, "setupUnis") /\ req[r].todo = {}
    /\ req' = Go(r, IF req[r].down THEN "build" ELSE "register")
    /\ UNCHANGED << deviceVars, lports, pending, dr, green, phase, history, streamVars >>

\* addLogicalDeviceAgentToMap: from here on the agent can be found.
RegisterAgent(r) ==
    /\ At(r, "register")
    /\ phase' = "serving"
    /\ req' = Over(r)
    /\ UNCHANGED << deviceVars, lports, pending, dr, green, history, streamVars >>

\* Mutant: deleteLogicalPorts does not look at the device of a port.
ListEveryPort(r) ==
    /\ req[r].pc \in {"listDevice", "listAll"}
    /\ req' = CASE Serving -> [req EXCEPT ![r].pc = "delete", ![r].todo = Present]
                [] ~Serving /\ req[r].op \in {"childDelete", "rootDelete"} -> Go(r, "deleteDevicePorts")
                [] OTHER -> Over(r)
    /\ UNCHANGED << deviceVars, lports, pending, dr, green, phase, history, streamVars >>

\* deleteLogicalPorts lists the ports of a child, deleteAllLogicalPorts all.
ListPortsToDelete(r) ==
    /\ req[r].pc \in {"listDevice", "listAll"}
    /\ req' = CASE Serving -> [req EXCEPT ![r].pc = "delete",
                                   ![r].todo = IF At(r, "listAll") THEN Present
                                               ELSE Present \cap UnisOf(req[r].dev)]
                [] ~Serving /\ req[r].op \in {"childDelete", "rootDelete"} -> Go(r, "deleteDevicePorts")
                [] OTHER -> Over(r)
    /\ UNCHANGED << deviceVars, lports, pending, dr, green, phase, history, streamVars >>

\* The lock of the port is released by the deletion ...  DeleteAllPorts of a
\* device gets here with the ports of all the others, too.
DeleteLogicalPort(r) ==
    LET q == req[r]
    IN  /\ At(r, "delete")
        /\ \E p \in q.todo :
              /\ lports' = [lports EXCEPT ![p] = None]
              /\ wiped' = IF q.op = "deleteAllPorts" /\ q.dev # Holder(p) THEN wiped \cup {p} ELSE wiped
              /\ req' = IF lports[p] = None THEN [req EXCEPT ![r].todo = @ \ {p}]
                        ELSE [req EXCEPT ![r].todo = @ \ {p}, ![r].port = p, ![r].pc = "deleted"]
        /\ UNCHANGED << deviceVars, pending, dr, green, phase, overlap, raced, routeHistory, late, lost,
                        streamVars >>

\* ... before the event gets its place: the port may be back by then.
SendDeletion(r) ==
    LET p == req[r].port
    IN  /\ At(r, "deleted")
        /\ Assign(Position("delete", p, Up, "send", NoSnap))
        /\ raced' = IF lports[p] = None THEN raced ELSE raced \cup {p}
        /\ req' = Go(r, "delete")
        /\ UNCHANGED << deviceVars, lports, dr, green, phase, overlap, wiped, routeHistory, lost,
                        streamVars >>

AllDeleted(r) == At(r, "delete") /\ req[r].todo = {}

-----------------------------------------------------------------------------
(* The routes.                                                             *)

\* buildRoutes: the logical ports are listed under the green light ...
BuildRoutes(r) ==
    /\ At(r, "build") \/ (req[r].op = "childDelete" /\ AllDeleted(r))
    /\ green = None
    /\ green' = r
    /\ req' = [req EXCEPT ![r].pc = "compute", ![r].lps = Present]
    /\ UNCHANGED << deviceVars, lports, pending, dr, phase, history, streamVars >>

\* Mutant: the early return of ComputeRoutes keeps the green light.
ComputeAndKeepLight(r) ==
    LET lps == req[r].lps
    IN  /\ At(r, "compute")
        /\ \A d \in Devices : Listable(d)
        /\ dr' \in ComputeRoutes(dr, net, lps)
        /\ stale' = IF Cardinality(lps) < 2 THEN stale
                    ELSE ~(lps \subseteq Present) \/ (Present \ lps) \cap dr.ports # {}
        /\ kept' = IF Cardinality(lps) < 2 THEN kept \cup (dr.ports \ lps) ELSE {}
        /\ green' = IF Cardinality(lps) < 2 THEN green ELSE None
        /\ req' = CASE req[r].op = "created" -> Over(r)
                    [] req[r].op = "start" -> Go(r, "register")
                    [] OTHER -> Go(r, "deleteDevicePorts")
        /\ UNCHANGED << deviceVars, lports, pending, phase, portHistory, late, lost, streamVars >>

\* ... and ComputeRoutes is called with that listing.
ComputeAllRoutes(r) ==
    LET lps == req[r].lps
    IN  /\ At(r, "compute")
        /\ \A d \in Devices : Listable(d)
        /\ dr' \in ComputeRoutes(dr, net, lps)
        /\ stale' = IF Cardinality(lps) < 2 THEN stale
                    ELSE ~(lps \subseteq Present) \/ (Present \ lps) \cap dr.ports # {}
        /\ kept' = IF Cardinality(lps) < 2 THEN kept \cup (dr.ports \ lps) ELSE {}
        /\ green' = None
        /\ req' = CASE req[r].op = "created" -> Over(r)
                    [] req[r].op = "start" -> Go(r, "register")
                    [] OTHER -> Go(r, "deleteDevicePorts")
        /\ UNCHANGED << deviceVars, lports, pending, phase, portHistory, late, lost, streamVars >>

\* removeRoutes.
RemoveRoutes(r) ==
    /\ req[r].op # "childDelete" /\ AllDeleted(r)
    /\ green = None
    /\ dr' = EmptyRoutes
    /\ stale' = (Present \cap dr.ports # {})
    /\ kept' = {}
    /\ req' = IF req[r].op \in {"remove", "rootDelete"} THEN Go(r, "stop") ELSE Over(r)
    /\ UNCHANGED << deviceVars, lports, pending, green, phase, portHistory, late, lost, streamVars >>

\* updateAllRoutes, when the PON port of a child was added ...
ListForAllRoutes(r) ==
    /\ At(r, "listForAll")
    /\ LET unis == Present \cap UnisOf(req[r].dev)
       IN  req' = IF unis = {} THEN Over(r)
                  ELSE [req EXCEPT ![r].pc = "addAll", ![r].lps = Present, ![r].todo = unis]
    /\ UNCHANGED << deviceVars, lports, pending, dr, green, phase, history, streamVars >>

\* ... and AddAllPorts, which returns when AddPort fails.
AddAllPorts(r) ==
    LET q == req[r]
    IN  /\ At(r, "addAll")
        /\ Listable(Root) /\ Listable(q.dev)
        /\ \E p \in q.todo :
              /\ dr' = AddPort(dr, net, p, q.snap, q.lps)
              /\ stale' = (stale \/ ~(q.lps \subseteq Present))
              /\ req' = IF q.dev \in dr'.pons \cap dr'.conns THEN GoOn(r, "addAll", q.todo \ {p})
                        ELSE Over(r)
        /\ UNCHANGED << deviceVars, lports, pending, green, phase, portHistory, kept, late, lost, streamVars >>

\* A flow request asks for a route.
GetRouteForFlow(r) == \E n \in NniPorts, u \in UniPorts :
    /\ Free(r) /\ Serving
    /\ Listable(Root) /\ Listable(ChildOf[u])
    /\ dr' = OnDemand(dr, net, n, u)
    /\ req' = Over(r)
    /\ UNCHANGED << deviceVars, lports, pending, green, phase, history, streamVars >>

-----------------------------------------------------------------------------
(* The end of the logical device.                                          *)

\* Mutant: no position is assigned, so there is nothing to wait for.
StopWithoutPosition(r) ==
    /\ At(r, "stop")
    /\ green = None
    /\ green' = r
    /\ req' = Go(r, "waitEvents")
    /\ UNCHANGED << deviceVars, lports, pending, dr, phase, history, streamVars >>

\* stop, under the green light: a last position is assigned ...
StopAgent(r) ==
    /\ At(r, "stop")
    /\ green = None
    /\ green' = r
    /\ pending' = Append(pending, Position("completion", r, Up, "send", NoSnap))
    /\ req' = Go(r, "waitEvents")
    /\ UNCHANGED << deviceVars, lports, dr, phase, history, streamVars >>

\* ... and waited for, up to a timeout.
WaitForAllEventsToBeSent(r) ==
    /\ At(r, "waitEvents")
    /\ late' = (late \/ \E i \in 1 .. Len(pending) : pending[i].kind = "completion")
    /\ green' = None
    /\ phase' = "stopped"
    /\ req' = Go(r, "gone")
    /\ UNCHANGED << deviceVars, lports, pending, dr, portHistory, routeHistory, lost, streamVars >>

SendDeviceDeletionEvent(r) ==
    /\ At(r, "gone")
    /\ Send(Gone)
    /\ req' = IF req[r].op = "rootDelete" THEN Go(r, "deleteDevicePorts") ELSE Over(r)
    /\ UNCHANGED << deviceVars, lports, pending, dr, green, phase, history,
                    token, tracker, stream, alive, held, failed, view >>

-----------------------------------------------------------------------------

DeviceStep(r) ==
    \/ AddDevicePort(r) \/ AddPeerPort(r) \/ ListDevicePorts(r) \/ UpdateLogicalPort(r)
    \/ UpdateDevicePortState(r) \/ UpdatePortsOperState(r) \/ NotifyLogicalPort(r)
    \/ DeleteDevicePorts(r) \/ DeletionFails(r)

LogicalStep(r) ==
    \/ UpdatePortState(r) \/ RelockPort(r) \/ ListUnis(r)
    \/ SetupNNILogicalPorts(r) \/ SetupUNILogicalPorts(r) \/ SetupPort(r) \/ SetupDone(r)
    \/ RegisterAgent(r) \/ ListPortsToDelete(r) \/ DeleteLogicalPort(r) \/ SendDeletion(r)
    \/ StopAgent(r) \/ WaitForAllEventsToBeSent(r) \/ SendDeviceDeletionEvent(r)

RouteStep(r) ==
    \/ BuildRoutes(r) \/ ComputeAllRoutes(r) \/ RemoveRoutes(r) \/ ListForAllRoutes(r)
    \/ AddAllPorts(r)

Step(r) == DeviceStep(r) \/ LogicalStep(r) \/ RouteStep(r)

Arrive(r) ==
    \/ PortCreated(r) \/ PortStateUpdate(r) \/ PortsStateUpdate(r) \/ CreateLogicalDevice(r)
    \/ DeleteAllPorts(r) \/ RemoveLogicalDevice(r) \/ RebootWhileDeleting(r) \/ DeleteRoot(r)
    \/ ActivateChild(r) \/ DeleteChild(r)
    \/ ConfigureLogicalPort(r) \/ GetRouteForFlow(r)

EventStep(i) == ListForRoutes(i) \/ UpdateRoutes(i)

\* What a step of a stream leaves alone, and whether it loses an event.
AtStreams == /\ lost' = \/ lost
                        \/ failed' # None
                        \/ Cardinality({t \in Streams : stream'[t] = "sending"}) > 1
             /\ UNCHANGED << deviceVars, lports, pending, dr, green, phase, req,
                             portHistory, routeHistory, late >>

Next == \/ \E r \in Requests : Arrive(r) \/ Step(r)
        \/ \E i \in 1 .. Len(pending) : EventStep(i)
        \/ SendInTurn
        \/ \E s \in Streams : Streaming(s) /\ AtStreams

\* Some goroutine runs as long as one can.  Requests and streams that come, and
\* connections that break, are not promised.
Proceed == \/ \E s \in Streams : Loop(s) /\ AtStreams
           \/ SendInTurn
           \/ \E i \in 1 .. Len(pending) : EventStep(i)
           \/ \E r \in Requests : Step(r)

Spec == Init /\ [][Next]_vars /\ WF_vars(Proceed)

-----------------------------------------------------------------------------
(* Properties.                                                             *)

Snaps == [ports : SUBSET (Ports \cup PonPorts), peers : SUBSET Children]
PortSets == SUBSET (Ports \cup PonPorts)

\* Every variable keeps its type, and of the goroutines of the event queue only
\* that of an added port works on the routes before its event.
TypeOK ==
    /\ dports \in [Devices -> PortSets] /\ peers \subseteq Children
    /\ operDown \in PortSets /\ ofpDown \in PortSets
    /\ portLock \in [Ports \cup PonPorts -> Requests \cup {None}]
    /\ ready \subseteq Children /\ agents \subseteq Devices /\ deleting \subseteq Devices
    /\ lports \in [Ports -> Values \cup {None}]
    /\ \A i \in 1 .. Len(pending) :
          /\ pending[i].kind \in {"add", "modify", "delete", "completion"}
          /\ pending[i].at \in {"list", "routes", "send"}
          /\ pending[i].kind # "add" => pending[i].at = "send"
          /\ pending[i].lps \subseteq Ports /\ pending[i].snap \in Snaps
    /\ dr.ports \subseteq Ports /\ dr.roots \subseteq NniPorts
    /\ dr.pons \subseteq Devices /\ dr.conns \subseteq Children
    /\ green \in Requests \cup {None}
    /\ phase \in {"none", "starting", "serving", "stopped"}
    /\ \A r \in Requests : /\ req[r].lps \subseteq Ports /\ req[r].snap \in Snaps
                           /\ req[r].dev \in Devices
    /\ StreamTypeOK

\* No request is running, and every event has left.
Settled == /\ \A r \in Requests : ~Running(r)
           /\ pending = << >> /\ queue = << >> /\ \A s \in Streams : held[s] = None

\* The changes the controller has not been told of yet, in order, and what it
\* will believe of a port once it has been told of all of them.
InFlight == LET sending == {s \in Streams : held[s] # None}
            IN  (IF sending = {} THEN << >> ELSE << held[CHOOSE s \in sending : TRUE] >>)
                \o queue \o SelectSeq(pending, LAMBDA x : x.kind # "completion")
Believed(p) == FoldLeft(Told, view, InFlight)[p]

\* At any time the controller will come to know exactly the logical ports there
\* are, each in its present state: orderedEvents and the channel keep the order
\* of the changes.  Apart from a port whose deletion is queued after it had come
\* back, and from events that were not sent.
ControllerAgrees ==
    ~lost /\ ~late /\ phase # "stopped" =>
        \A p \in Ports \ raced :
            \/ Believed(p) = lports[p]
            \/ \E r \in Requests : At(r, "deleted") /\ req[r].port = p

\* The logical ports of a child that is gone, or has no PON port.
Orphans == {u \in Present \cap UniPorts : \/ ChildOf[u] \notin agents
                                          \/ OnuPon[ChildOf[u]] \notin dports[ChildOf[u]]}

\* Once everything has settled, flow requests get routes between exactly the
\* NNI ports and the connected UNI ports there are, hop by hop the right ones,
\* in whatever order ports, peers and flow requests came.  There are two
\* exceptions.  Nothing is said once AddPort or ComputeRoutes has used a listing
\* of ports that had changed meanwhile, or removeRoutes has dropped a port that
\* had come back (stale), until the routes are next reset from a good listing.
\* And where ComputeRoutes found fewer than two ports, it returned before its
\* reset: routes to the ports that were gone by then may be left (kept), see
\* RoutesCleared.
RoutesAgree ==
    Settled /\ Serving /\ ~stale =>
        LET served == Served(dr, net)
            out    == Orphans \cup (kept \ Present)
            inside == {p \in DOMAIN served : p[1] \notin out /\ p[2] \notin out}
        IN  [p \in inside |-> served[p]]
                = RoutesBetween(Present \cap NniPorts, (Present \cap UniPorts) \ Orphans)

\* What the comment of ComputeRoutes says, "This will clear up any existing
\* route": once everything has settled, and no listing was outdated, a flow
\* request gets no route to a port that is gone.
RoutesCleared ==
    Settled /\ Serving /\ ~stale =>
        \A p \in DOMAIN Served(dr, net) : {p[1], p[2]} \subseteq Present

\* Once everything has settled, each port of a device that is ready has its
\* logical port, and a UNI port whose link the adapter reported down is down.
\* There are two exceptions.  Nothing is said of a port that two requests worked
\* on at the same time (overlap).  And DeleteAllPorts of a device deletes the
\* logical ports of every device of the logical device: those of the others
\* (wiped) are gone although their device has the port.
PortsAgree ==
    Settled /\ Serving => \A p \in Ports \ overlap :
        /\ p \in dports[Holder(p)] /\ (p \in NniPorts \/ ChildOf[p] \in ready)
              => p \in Present \cup wiped
        /\ p \in UniPorts \cap Present => (lports[p].link <=> (p \in operDown))

\* The deletion of the logical device is the last the controller hears of it,
\* provided stop did not give up waiting, no port changed after it had begun
\* to wait, and no send failed.
DeletionIsLast ==
    ~late /\ ~lost =>
        \A i \in 1 .. Len(queue) : queue[i] = Gone => i = Len(queue) /\ pending = << >>

\* updatePortsOperState locked itself out, or a stream flushes into a channel
\* that nobody reads.
Stuck == FlushBlocked \/ \E r \in Requests : At(r, "selfLocked")

\* Every request ends, every event leaves and every route is updated, again and
\* again, unless one of the two known deadlocks happens: neither the turns of
\* the event queue, nor the green light, nor the channel and the token of the
\* streams keep anybody waiting for ever.
AllSettles == []<>(Settled \/ Stuck)

=============================================================================
