------------------------------ MODULE Adapters ------------------------------
(***************************************************************************)
(* The adapter manager and its agents (rw_core/core/adapter/manager.go and *)
(* agent.go), with the restart handler that the device manager gives them  *)
(* (rw_core/core/device/manager.go) and the endpoint manager.              *)
(*                                                                         *)
(* RegisterAdapter runs in a goroutine per call and takes no lock from its *)
(* beginning to its end: it is a sequence of steps, each of them what the  *)
(* code does under one lock.  An agent is an object of its own, because a  *)
(* rolling update replaces the agent of an adapter while calls and the     *)
(* map of endpoints still refer to the old one.                            *)
(***************************************************************************)
EXTENDS EndpointManager, SequencesExt

CONSTANTS Requests,      \* the RegisterAdapter calls, numbered from 1
          Registrations, \* the adapters they may be made for
          Starts         \* what the KV store may hold when the core starts

ASSUME AdaptersAssumption ==
    /\ Registrations \subseteq Registration
    /\ Starts \subseteq [Adapters -> Registrations \cup {None}]

VARIABLES agent,            \* the agents that were created, in order
          adapterAgents,    \* the agent of an adapter, 0 when there is none
          adapterEndpoints, \* the agent at an endpoint, 0 when there is none
          rollingUpdateMap, \* the endpoints with a rolling update under way
          call,             \* the RegisterAdapter calls
          nbi,              \* whether the core serves the northbound API yet
          left,             \* agents a failed or moving call left unconnected
          moved,            \* adapters that changed their endpoint
          overlapped,       \* adapters with two calls at the same time
          stray             \* adapters with a client that no agent refers to

managerVars == <<agent, adapterAgents, adapterEndpoints, rollingUpdateMap>>
ghosts == <<left, moved, overlapped, stray>>
storeVars == <<stored, typesStored>>
vars == <<storeVars, endpointVars, faults, managerVars, call, nbi, ghosts>>

-----------------------------------------------------------------------------
(* Agents and their clients                                                *)

\* A client is connecting or up until it is stopped.  A client stopped while
\* it was up keeps that state.
Client == {"none", "connecting", "up", "stopped", "closed"}
Running == {"connecting", "up"}

newAdapterAgent(a) == [adapter |-> a, client |-> "none"]

\* agent.stop.
Stop(n) ==
    agent' = [agent EXCEPT ![n].client =
                CASE @ = "up" -> "closed"
                  [] @ = "connecting" -> "stopped"
                  [] OTHER -> @]

\* agent.start makes a new client, whatever the agent had.
Start(n) ==
    /\ agent' = [agent EXCEPT ![n].client = "connecting"]
    /\ stray' = IF agent[n].client \in Running
                THEN stray \cup {agent[n].adapter.id}
                ELSE stray

Current == {adapterAgents[a] : a \in Adapters} \ {0}

\* loadAdaptersAndDevicetypesInMemory: the agents of the stored adapters, all
\* of them started.
Loaded(st) ==
    LET s == SetToSeq({st[a] : a \in Adapters} \ {None}) IN
        [agent |-> [n \in 1..Len(s) |->
                      [newAdapterAgent(s[n]) EXCEPT !.client = "connecting"]],
         adapterAgents |-> [a \in Adapters |->
                              SelectInSeq(s, LAMBDA x : x.id = a)],
         adapterEndpoints |-> [e \in Endpoints |->
                                 SelectInSeq(s, LAMBDA x : x.endpoint = e)]]

\* The core starts again, from what it stored: the calls and the rest of the
\* memory are gone.
Restart ==
    /\ agent' = Loaded(stored).agent
    /\ adapterAgents' = Loaded(stored).adapterAgents
    /\ adapterEndpoints' = Loaded(stored).adapterEndpoints
    /\ rollingUpdateMap' = {}
    /\ ring' = {}
    /\ typed' = FALSE
    /\ ask' = [c \in Callers |-> [pc |-> "idle", typed |-> FALSE]]
    /\ call' = [r \in Requests |->
                  IF call[r].pc = "free" THEN call[r] ELSE [pc |-> "done"]]
    /\ nbi' = "waiting"
    /\ left' = {} /\ overlapped' = {} /\ stray' = {}
    /\ UNCHANGED <<storeVars, answers, moved>>

-----------------------------------------------------------------------------
(* RegisterAdapter                                                         *)

InFlight(r) == call[r].pc \notin {"free", "done"}
Reg(r) == call[r].adapter
Id(r) == call[r].adapter.id
Goto(r, pc) == call' = [call EXCEPT ![r].pc = pc]

\* The call returns, and what it held is of no use to anyone.
Return(r) == call' = [call EXCEPT ![r] = [pc |-> "done"]]

Fault == faults < MaxFaults /\ faults' = faults + 1

\* A call arrives and looks for the adapter (getAdapter).  Calls are taken in
\* the order of their numbers: they differ in nothing else.
RegisterAdapter(r, a) ==
    /\ call[r].pc = "free"
    /\ \A s \in Requests : s < r => call[s].pc # "free"
    /\ LET n == adapterAgents[a.id] IN
         call' = [call EXCEPT ![r] =
                    IF n = 0 THEN [pc |-> "add", adapter |-> a]
                    ELSE [pc |-> "known", adapter |-> a,
                          old |-> agent[n].adapter, agent |-> n]]
    /\ overlapped' = IF \E s \in Requests : InFlight(s) /\ Id(s) = a.id
                     THEN overlapped \cup {a.id}
                     ELSE overlapped
    /\ moved' = IF \E b \in {Reg(s) : s \in {t \in Requests : InFlight(t)}}
                            \cup ({stored[a.id]} \ {None}) :
                       b.id = a.id /\ b.endpoint # a.endpoint
                THEN moved \cup {a.id}
                ELSE moved
    /\ UNCHANGED <<storeVars, endpointVars, faults, managerVars, nbi, left,
                   stray>>

\* getAgent: the agent may have been replaced since getAdapter.
GetAgent(r) ==
    /\ call[r].pc = "known"
    /\ call' = [call EXCEPT
                  ![r].agent = adapterAgents[Id(r)],
                  ![r].pc = IF Reg(r).version # call[r].old.version
                            THEN "stop" ELSE "reset"]
    /\ UNCHANGED <<storeVars, endpointVars, faults, managerVars, nbi, ghosts>>

\* Mutant of StopOldAgent: the old client is left to itself.
LeaveOldAgent(r) ==
    /\ call[r].pc = "stop"
    /\ Goto(r, "update")
    /\ UNCHANGED <<storeVars, endpointVars, faults, managerVars, nbi, ghosts>>

\* A rolling update stops the connection to the old adapter.
StopOldAgent(r) ==
    /\ call[r].pc = "stop"
    /\ Stop(call[r].agent)
    /\ Goto(r, "update")
    /\ UNCHANGED <<storeVars, endpointVars, faults, adapterAgents,
                   adapterEndpoints, rollingUpdateMap, nbi, ghosts>>

\* newAdapterAgent, and its place in both maps.
NewAgent(a) ==
    /\ agent' = Append(agent, newAdapterAgent(a))
    /\ adapterAgents' = [adapterAgents EXCEPT ![a.id] = Len(agent) + 1]
    /\ adapterEndpoints' = [adapterEndpoints EXCEPT ![a.endpoint] = Len(agent) + 1]

\* Mutant of UpdateAdapter: the new version is not saved.
UpdateWithoutSave(r) ==
    /\ call[r].pc = "update"
    /\ NewAgent(Reg(r))
    /\ Goto(r, "rolling")
    /\ UNCHANGED <<storeVars, faults, endpointVars, rollingUpdateMap, nbi, ghosts>>

\* updateAdapter: the adapter is saved and gets a new agent, which has no
\* client yet.  When the save fails, the old agent stays, stopped.
UpdateAdapter(r) ==
    /\ call[r].pc = "update"
    /\ \/ /\ stored' = [stored EXCEPT ![Id(r)] = Reg(r)]
          /\ NewAgent(Reg(r))
          /\ left' = IF Reg(r).endpoint # call[r].old.endpoint
                     THEN left \cup {Len(agent) + 1}
                     ELSE left
          /\ Goto(r, "rolling")
          /\ UNCHANGED faults
       \/ /\ Fault
          /\ left' = left \cup {call[r].agent}
          /\ Return(r)
          /\ UNCHANGED <<stored, agent, adapterAgents, adapterEndpoints>>
    /\ UNCHANGED <<typesStored, endpointVars, rollingUpdateMap, nbi, moved,
                   overlapped, stray>>

\* SetRollingUpdate, for the endpoint the adapter has now.
SetRollingUpdate(r) ==
    /\ call[r].pc = "rolling"
    /\ rollingUpdateMap' = rollingUpdateMap \cup {Reg(r).endpoint}
    /\ Goto(r, "handler")
    /\ UNCHANGED <<storeVars, endpointVars, faults, agent, adapterAgents,
                   adapterEndpoints, nbi, ghosts>>

\* agent.resetConnection.  The reset of a client that was up when it was
\* stopped sends on a closed channel, and the core goes down.
ResetConnection(r) ==
    /\ call[r].pc = "reset"
    /\ LET n == call[r].agent IN
         \/ /\ agent[n].client # "closed"
            /\ agent' = [agent EXCEPT ![n].client =
                           IF @ = "up" THEN "connecting" ELSE @]
            /\ Goto(r, "handler")
            /\ UNCHANGED <<storeVars, endpointVars, faults, adapterAgents,
                           adapterEndpoints, rollingUpdateMap, nbi, ghosts>>
         \/ /\ agent[n].client = "closed"
            /\ Restart
            /\ UNCHANGED faults

-----------------------------------------------------------------------------
(* The device manager's adapterRestartedHandler, for the old endpoint      *)

\* The handler finds the agent at the old endpoint and looks for a rolling
\* update.  Without one it goes on to reconcile the devices, in their agents.
AdapterRestartedHandler(r) ==
    /\ call[r].pc = "handler"
    /\ IF call[r].old.endpoint \in rollingUpdateMap
       THEN Goto(r, "delete")
       ELSE Return(r)
    /\ UNCHANGED <<storeVars, endpointVars, faults, managerVars, nbi, ghosts>>

\* DeleteRollingUpdate comes before the start: an update that comes between
\* the two has its agent started by this call.
DeleteRollingUpdate(r) ==
    /\ call[r].pc = "delete"
    /\ rollingUpdateMap' = rollingUpdateMap \ {call[r].old.endpoint}
    /\ Goto(r, "start")
    /\ UNCHANGED <<storeVars, endpointVars, faults, agent, adapterAgents,
                   adapterEndpoints, nbi, ghosts>>

\* Mutant of StartAdapterWithEndPoint: only a call with a new version starts.
StartOwnUpdate(r) ==
    /\ call[r].pc = "start"
    /\ LET N == {n \in Current : agent[n].adapter.endpoint = call[r].old.endpoint
                                 /\ Reg(r).version # call[r].old.version}
       IN \/ \E n \in N : Start(n)
          \/ N = {} /\ UNCHANGED <<agent, stray>>
    /\ Return(r)
    /\ UNCHANGED <<storeVars, endpointVars, faults, adapterAgents,
                   adapterEndpoints, rollingUpdateMap, nbi, left, moved,
                   overlapped>>

\* StartAdapterWithEndPoint: it is an error when no agent has the endpoint.
StartAdapterWithEndPoint(r) ==
    /\ call[r].pc = "start"
    /\ LET N == {n \in Current : agent[n].adapter.endpoint = call[r].old.endpoint}
       IN \/ \E n \in N : Start(n)
          \/ N = {} /\ UNCHANGED <<agent, stray>>
    /\ Return(r)
    /\ UNCHANGED <<storeVars, endpointVars, faults, adapterAgents,
                   adapterEndpoints, rollingUpdateMap, nbi, left, moved,
                   overlapped>>

-----------------------------------------------------------------------------
(* The registration of an adapter that was not known                       *)

\* addAdapter: another call may have added the adapter in the meantime.  An
\* adapter that the store has already is not written again.
AddAdapter(r) ==
    /\ call[r].pc = "add"
    /\ \/ /\ adapterAgents[Id(r)] # 0
          /\ Goto(r, "types")
          /\ UNCHANGED <<stored, agent, adapterAgents, adapterEndpoints, faults>>
       \/ /\ adapterAgents[Id(r)] = 0
          /\ stored' = [stored EXCEPT ![Id(r)] = IF @ = None THEN Reg(r) ELSE @]
          /\ NewAgent(Reg(r))
          /\ Goto(r, "types")
          /\ UNCHANGED faults
       \/ /\ adapterAgents[Id(r)] = 0
          /\ Fault
          /\ Return(r)
          /\ UNCHANGED <<stored, agent, adapterAgents, adapterEndpoints>>
    /\ UNCHANGED <<typesStored, endpointVars, rollingUpdateMap, nbi, ghosts>>

\* addDeviceTypes: when it fails the agent stays, and nothing starts it.
AddDeviceTypes(r) ==
    /\ call[r].pc = "types"
    /\ \/ /\ typesStored' = TRUE
          /\ Goto(r, "ring")
          /\ UNCHANGED <<faults, left>>
       \/ /\ Fault
          /\ left' = left \cup {adapterAgents[Id(r)]}
          /\ Return(r)
          /\ UNCHANGED typesStored
    /\ UNCHANGED <<stored, endpointVars, managerVars, nbi, moved, overlapped,
                   stray>>

RegisterEndpoint(r) ==
    /\ call[r].pc = "ring"
    /\ SetupAdapter(Reg(r))
    /\ Goto(r, "startNew")
    /\ UNCHANGED <<storeVars, ask, answers, faults, managerVars, nbi, ghosts>>

StartNewAgent(r) ==
    /\ call[r].pc = "startNew"
    /\ Start(adapterAgents[Id(r)])
    /\ Return(r)
    /\ UNCHANGED <<storeVars, endpointVars, faults, adapterAgents,
                   adapterEndpoints, rollingUpdateMap, nbi, left, moved,
                   overlapped>>

-----------------------------------------------------------------------------
(* The connections, the start of the northbound API and the core           *)

\* The client's connection, made and lost.  Only a client that was not
\* stopped connects.
Connect(n) ==
    /\ agent[n].client = "connecting"
    /\ agent' = [agent EXCEPT ![n].client = "up"]
    /\ UNCHANGED <<storeVars, endpointVars, faults, adapterAgents,
                   adapterEndpoints, rollingUpdateMap, call, nbi, ghosts>>

Disconnect(n) ==
    /\ agent[n].client = "up"
    /\ Fault
    /\ agent' = [agent EXCEPT ![n].client = "connecting"]
    /\ UNCHANGED <<storeVars, endpointVars, adapterAgents, adapterEndpoints,
                   rollingUpdateMap, call, nbi, ghosts>>

\* Mutant of the wait: it also waits for the first adapter to register.
WaitForFirstAdapter ==
    /\ nbi = "waiting"
    /\ Current # {}
    /\ \A n \in Current : agent[n].client = "up"
    /\ nbi' = "serving"
    /\ UNCHANGED <<storeVars, endpointVars, faults, managerVars, call, ghosts>>

\* WaitUntilConnectionsToAdaptersAreUp: the northbound API opens when a look
\* at the agents finds them all up.
WaitUntilConnectionsToAdaptersAreUp ==
    /\ nbi = "waiting"
    /\ \A n \in Current : agent[n].client = "up"
    /\ nbi' = "serving"
    /\ UNCHANGED <<storeVars, endpointVars, faults, managerVars, call, ghosts>>

\* An agent without a client is asked for it, by the wait or for a device
\* whose adapter is at the agent's endpoint: a nil pointer is dereferenced.
GetClientOfNone ==
    /\ \/ nbi = "waiting" /\ \E n \in Current : agent[n].client = "none"
       \/ \E e \in UNION answers :
              adapterEndpoints[e] # 0 /\ agent[adapterEndpoints[e]].client = "none"
    /\ Restart
    /\ UNCHANGED faults

\* The core may go down at any time.
Crash == Fault /\ Restart

-----------------------------------------------------------------------------
Init ==
    /\ stored \in Starts
    /\ typesStored = (\E a \in Adapters : stored[a] # None)
    /\ NoServices
    /\ answers = {}
    /\ faults = 0
    /\ agent = Loaded(stored).agent
    /\ adapterAgents = Loaded(stored).adapterAgents
    /\ adapterEndpoints = Loaded(stored).adapterEndpoints
    /\ rollingUpdateMap = {}
    /\ call = [r \in Requests |-> [pc |-> "free"]]
    /\ nbi = "waiting"
    /\ left = {} /\ moved = {} /\ overlapped = {} /\ stray = {}

Step(r) ==
    \/ GetAgent(r) \/ StopOldAgent(r) \/ UpdateAdapter(r)
    \/ SetRollingUpdate(r) \/ ResetConnection(r)
    \/ AdapterRestartedHandler(r) \/ DeleteRollingUpdate(r)
    \/ StartAdapterWithEndPoint(r) \/ AddAdapter(r) \/ AddDeviceTypes(r)
    \/ RegisterEndpoint(r) \/ StartNewAgent(r)

\* A lookup leaves the adapter manager alone.
Lookup(c) ==
    /\ \/ GetAdapterService(c) \/ LoadAdapterServices(c) \/ GetEndpoint(c)
    /\ UNCHANGED <<managerVars, call, nbi, ghosts>>

Next ==
    \/ \E r \in Requests :
         \/ \E a \in Registrations : RegisterAdapter(r, a)
         \/ Step(r)
    \/ \E n \in 1..Len(agent) : Connect(n) \/ Disconnect(n)
    \/ WaitUntilConnectionsToAdaptersAreUp
    \/ GetClientOfNone
    \/ Crash
    \/ \E c \in Callers : Lookup(c)

\* What the core and its adapters do by themselves: a call that was taken goes
\* on, a client retries until it is connected, the wait looks again.
Proceed ==
    \/ \E r \in Requests : Step(r)
    \/ \E n \in 1..Len(agent) : Connect(n)
    \/ WaitUntilConnectionsToAdaptersAreUp

Spec == Init /\ [][Next]_vars /\ WF_vars(Proceed)

-----------------------------------------------------------------------------
(* Properties                                                              *)

\* The calls, the maps and the store are well formed: the agent at an endpoint
\* is one that was made for that endpoint, and the agent of an adapter is the
\* one that was made last for what the store has of it.
TypeOK ==
    /\ EndpointTypeOK
    /\ \A n \in 1..Len(agent) : agent[n] \in [adapter : Registration, client : Client]
    /\ \A e \in Endpoints : adapterEndpoints[e] # 0 =>
         agent[adapterEndpoints[e]].adapter.endpoint = e
    /\ \A a \in Adapters :
         IF adapterAgents[a] = 0 THEN stored[a] = None
         ELSE agent[adapterAgents[a]].adapter = stored[a]
    /\ rollingUpdateMap \subseteq Endpoints
    /\ nbi \in {"waiting", "serving"}
    /\ left \subseteq 1..Len(agent)
    /\ moved \subseteq Adapters /\ overlapped \subseteq Adapters
    /\ stray \subseteq Adapters

\* A call that has the connection of adapter a to make, or has yet to find out.
Pending(r, a) ==
    /\ InFlight(r)
    /\ Id(r) = a
    /\ call[r].pc \notin {"add", "known", "stop", "reset"}

\* The adapters that are registered have a client at work (manager.go:336 and
\* the handler of device/manager.go:886): whatever calls for one adapter
\* overlap, when none of them has the connection still to make the current
\* agent has been started and not been stopped since.  Excepted are the agents
\* that a call left behind when the store failed or the endpoint changed.
ClientsStarted ==
    \A a \in Adapters :
        adapterAgents[a] # 0 /\ adapterAgents[a] \notin left
        /\ (\A r \in Requests : ~Pending(r, a))
            => agent[adapterAgents[a]].client \in Running

\* A client that runs is the client of an adapter's current agent, unless two
\* calls for that adapter overlapped: the rolling update stops the old client
\* before it makes the new one (manager.go:361), and nothing starts an agent
\* that runs.
NoStrayClient ==
    /\ stray \subseteq overlapped
    /\ \A n \in 1..Len(agent) \ Current :
         agent[n].client \in Running => agent[n].adapter.id \in overlapped

\* A device is never given an endpoint from a part of the replicas, nor one
\* that the adapter manager does not know (endpoint_manager.go:272): as long
\* as no adapter moves, all lookups use the same ring, over failing reloads,
\* concurrent registrations and restarts of the core.
OwnersAgree ==
    /\ moved = {} => \A s, t \in answers : s = t
    /\ \A s \in answers : \A e \in s :
         adapterEndpoints[e] # 0 \/ moved # {}

\* The wait for the adapters ends (manager.go:573): the northbound API opens,
\* unless an adapter was left unconnected.
NbiOpens == nbi = "waiting" ~> (nbi = "serving" \/ left \cap Current # {})
=============================================================================
