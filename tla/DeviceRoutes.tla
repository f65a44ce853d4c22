---------------------------- MODULE DeviceRoutes ----------------------------
(***************************************************************************)
(* The routes of a logical device: rw_core/route/device_route.go.  Every   *)
(* operator takes the structure as a record                                *)
(*   routes  the paths, by ingress and egress port                         *)
(*   ports   logicalPorts                                                  *)
(*   roots   RootPorts                                                     *)
(*   pons    the devices whose PON ports are known (devicesPonPorts)       *)
(*   conns   the children whose PON port on the root is known              *)
(*           (childConnectionPort)                                         *)
(* and gives it as it is when routeBuildLock is released.  `net' is what   *)
(* the device agents know: their ports, the peers of the PON ports of the  *)
(* root, and which agents there are.                                       *)
(***************************************************************************)
EXTENDS FlowDecomposition

Devices == Children \cup {Root}

NoRoutes == [p \in {} |-> << >>]
EmptyRoutes == [routes |-> NoRoutes, ports |-> {}, roots |-> {}, pons |-> {}, conns |-> {}]

\* listDevicePorts of the device manager.
DevicePorts(net, d) == [ports |-> net.ports[d], peers |-> IF d = Root THEN net.peers ELSE {}]

HasPon(d, snap) == IF d = Root THEN \E c \in Children : OltPon[c] \in snap.ports
                   ELSE OnuPon[d] \in snap.ports

\* updateCache.  The PON port of a child names its peer from the start.
UpdateCache(dr, d, snap) ==
    IF ~HasPon(d, snap) THEN dr
    ELSE [dr EXCEPT !.pons = @ \cup {d},
                    !.conns = @ \cup (IF d = Root THEN snap.peers ELSE {d})]

GetDeviceWithCacheUpdate(dr, net, d) ==
    IF d \in net.agents THEN UpdateCache(dr, d, DevicePorts(net, d)) ELSE dr

\* getChildPonPort and getParentPonPort look in the cache, then in the model.
GetChildPonPort(dr, net, c) ==
    IF c \in dr.pons THEN dr ELSE GetDeviceWithCacheUpdate(dr, net, c)

GetParentPonPort(dr, net, c) ==
    IF c \in dr.conns THEN dr ELSE GetDeviceWithCacheUpdate(dr, net, Root)

WithRoutes(dr, nnis, us) ==
    LET new == RoutesBetween(nnis, us)
    IN  [dr EXCEPT !.routes = [p \in DOMAIN new \cup DOMAIN @ |->
                                  IF p \in DOMAIN new THEN new[p] ELSE @[p]]]

AddUNIPort(dr, net, u, snap, lps) ==
    LET c     == ChildOf[u]
        known == UpdateCache([dr EXCEPT !.ports = @ \cup {u}], c, snap)
        child == GetChildPonPort(known, net, c)
        both  == GetParentPonPort(child, net, c)
    IN  CASE c \notin child.pons -> child
          [] c \notin both.conns -> both
          [] OTHER -> WithRoutes(both, lps \cap NniPorts, {u})

\* The peers of the PON ports of the root: the caches learn of those that have
\* an agent, and the UNI ports of those that have a PON port get routes.
CachePeers(dr, net, peers) ==
    LET found == {c \in peers \cap net.agents : HasPon(c, DevicePorts(net, c))}
    IN  [dr EXCEPT !.pons = @ \cup found, !.conns = @ \cup found]

ReachedUnis(dr, net, peers, lps) ==
    {u \in lps \cap UniPorts : /\ ChildOf[u] \in peers \cap net.agents \cap dr.pons
                               /\ u \in net.ports[ChildOf[u]]}

AddNNIPort(dr, net, n, snap, lps) ==
    LET known == UpdateCache([dr EXCEPT !.ports = @ \cup lps,
                                        !.roots = @ \cup (lps \cap NniPorts)], Root, snap)
        all   == CachePeers(known, net, snap.peers)
    IN  WithRoutes(all, {n}, ReachedUnis(all, net, snap.peers, lps))

AddPort(dr, net, p, snap, lps) ==
    IF p \in NniPorts THEN AddNNIPort(dr, net, p, snap, lps)
    ELSE AddUNIPort(dr, net, p, snap, lps)

\* Mutant: the routes are computed on top of the old ones (no reset).
ComputeWithoutReset(dr, net, lps) ==
    LET all == CachePeers(GetDeviceWithCacheUpdate(dr, net, Root), net, net.peers)
    IN  IF Cardinality(lps) < 2 THEN {dr}
        ELSE {WithRoutes(all, lps \cap NniPorts, ReachedUnis(all, net, net.peers, lps))}

\* ComputeRoutes.  With fewer than two ports it fails and leaves everything as
\* it was; the other failures come after the reset.  Two NNI ports at most get
\* routes: the first it meets, and the one the routes are copied to.
ComputeRoutes(dr, net, lps) ==
    LET nnis == lps \cap NniPorts
        base == [EmptyRoutes EXCEPT !.ports = lps, !.roots = nnis]
        all  == CachePeers(GetDeviceWithCacheUpdate(base, net, Root), net, net.peers)
        two  == {s \in SUBSET nnis : Cardinality(s) = IF Cardinality(nnis) > 2 THEN 2
                                                      ELSE Cardinality(nnis)}
    IN  CASE Cardinality(lps) < 2 -> {dr}
          [] nnis = {} -> {base}
          [] OTHER -> {WithRoutes(all, s, ReachedUnis(all, net, net.peers, lps)) : s \in two}

\* GetRoute between an NNI port and a UNI port: what is not there is computed
\* from the logical ports the structure knows.
OnDemand(dr, net, n, u) ==
    LET c     == ChildOf[u]
        child == GetChildPonPort(dr, net, c)
        both  == GetParentPonPort(child, net, c)
    IN  CASE << n, u >> \in DOMAIN dr.routes \/ ~({n, u} \subseteq dr.ports) -> dr
          [] c \notin child.pons -> child
          [] c \notin both.conns -> both
          [] OTHER -> WithRoutes(both, {n}, {u})

\* The routes a flow request gets.
Served(dr, net) ==
    LET all == {OnDemand(dr, net, n, u).routes : n \in NniPorts, u \in UniPorts}
    IN  [p \in UNION {DOMAIN f : f \in all} |-> (CHOOSE f \in all : p \in DOMAIN f)[p]]

=============================================================================
