--------------------------- MODULE EndpointManager ---------------------------
(***************************************************************************)
(* The endpoint manager (rw_core/core/adapter/endpoint_manager.go): it     *)
(* says which replica of an adapter owns a device.  Its consistent ring is *)
(* a cache of the adapters in the KV store, filled by RegisterAdapter and  *)
(* reloaded by the lookup that finds it incomplete.                        *)
(*                                                                         *)
(* One adapter type is modelled, with one device type and Total replicas.  *)
(* The ring's members are told apart by their endpoints, and the owner it  *)
(* locates is a function of its members and of the device: an answer is    *)
(* recorded as the members it was computed from.                           *)
(***************************************************************************)
EXTENDS Naturals, FiniteSets

CONSTANTS Adapters,  \* the adapter ids, one per replica
          Endpoints, \* the endpoints an adapter may register with
          Versions,  \* the versions of an adapter
          Callers,   \* the goroutines that look for the endpoint of a device
          Total,     \* the TotalReplicas every adapter registers with
          MaxFaults, \* how many KV store calls, connections and cores fail
          None       \* no adapter

VARIABLES stored,      \* the adapters in the KV store
          typesStored, \* whether the device types are in the KV store
          ring,        \* the endpoints of the service's consistent ring
          typed,       \* whether deviceTypeToAdapterServiceMap has the type
          ask,         \* a caller's progress in GetEndpoint
          answers,     \* the rings that answered, of all lookups so far
          faults       \* how many faults have happened

endpointVars == <<ring, typed, ask, answers>>

Registration == [id : Adapters, version : Versions, endpoint : Endpoints]

EndpointTypeOK ==
    /\ stored \in [Adapters -> Registration \cup {None}]
    /\ typesStored \in BOOLEAN
    /\ ring \subseteq Endpoints
    /\ typed \in BOOLEAN
    /\ ask \in [Callers -> [pc : {"idle", "load", "check"}, typed : BOOLEAN]]
    /\ answers \subseteq SUBSET Endpoints
    /\ faults \in 0..MaxFaults

NoServices ==
    /\ ring = {}
    /\ typed = FALSE
    /\ ask = [c \in Callers |-> [pc |-> "idle", typed |-> FALSE]]

\* A service that exists and has as many members as replicas.
Complete == Cardinality(ring) = Total

\* LocateKey on the ring, and the end of the lookup.
Answer(c) ==
    /\ answers' = answers \cup {ring}
    /\ ask' = [ask EXCEPT ![c].pc = "idle"]

\* getAdapterService up to the call of loadAdapterServices.
GetAdapterService(c) ==
    /\ ask[c].pc = "idle"
    /\ \/ /\ typed /\ Complete
          /\ Answer(c)
       \/ /\ ~(typed /\ Complete)
          /\ ask' = [ask EXCEPT ![c] = [pc |-> "load", typed |-> typed]]
          /\ UNCHANGED answers
    /\ UNCHANGED <<stored, typesStored, ring, typed, faults>>

StoredEndpoints == {stored[a].endpoint : a \in {b \in Adapters : stored[b] # None}}

\* loadAdapterServices: the maps are emptied before the store is listed.  A
\* listing that fails leaves them with what was loaded before it.
LoadAdapterServices(c) ==
    /\ ask[c].pc = "load"
    /\ \/ /\ ring' = StoredEndpoints
          /\ typed' = typesStored
          /\ ask' = [ask EXCEPT ![c].pc = "check"]
          /\ UNCHANGED faults
       \/ /\ faults < MaxFaults
          /\ faults' = faults + 1
          /\ ring' \in {{}, StoredEndpoints}
          /\ typed' = FALSE
          /\ ask' = [ask EXCEPT ![c].pc = "idle"]
    /\ UNCHANGED <<stored, typesStored, answers>>

\* Mutant of GetEndpoint: it answers from any service it finds.
GetEndpointOfAnyRing(c) ==
    /\ ask[c].pc = "check"
    /\ \/ /\ (ask[c].typed \/ typed) /\ ring # {}
          /\ Answer(c)
       \/ /\ ~((ask[c].typed \/ typed) /\ ring # {})
          /\ ask' = [ask EXCEPT ![c].pc = "idle"]
          /\ UNCHANGED answers
    /\ UNCHANGED <<stored, typesStored, ring, typed, faults>>

\* The rest of getAdapterService, which answers only from a complete service,
\* and GetEndpoint.
GetEndpoint(c) ==
    /\ ask[c].pc = "check"
    /\ \/ /\ (ask[c].typed \/ typed) /\ Complete
          /\ Answer(c)
       \/ /\ ~((ask[c].typed \/ typed) /\ Complete)
          /\ ask' = [ask EXCEPT ![c].pc = "idle"]
          /\ UNCHANGED answers
    /\ UNCHANGED <<stored, typesStored, ring, typed, faults>>

\* endpointMgr.RegisterAdapter: the adapter becomes a member of the ring,
\* unless its endpoint is one, and its device type becomes known.
SetupAdapter(a) ==
    /\ ring' = ring \cup {a.endpoint}
    /\ typed' = TRUE
=============================================================================
