------------------------- MODULE FlowDecomposition -------------------------
(***************************************************************************)
(* How a flow of a logical device becomes rules of its devices: the choice *)
(* of a route (rw_core/core/device/logical_agent_route.go) and the flow    *)
(* decomposer (rw_core/flowdecomposition/flow_decomposer.go).  Everything  *)
(* here is a pure operator; LogicalFlows evaluates it at the moment the    *)
(* logical agent calls DecomposeRules.                                     *)
(*                                                                         *)
(* A logical device is one root device (OLT) with its NNI ports and child  *)
(* devices (ONUs) with their UNI ports.  A logical port has the number of  *)
(* the physical port it stands for.  Match fields, actions and VLAN        *)
(* handling that no property tells apart are part of a flow's id.          *)
(***************************************************************************)
EXTENDS Naturals, FiniteSets

CONSTANTS Root,         \* the root device
          NniPorts,     \* the NNI ports of the root device
          UniPorts,     \* the UNI ports of the child devices
          ChildOf,      \* the child device of a UNI port
          OltPon,       \* the PON port of the root a child hangs on
          OnuPon,       \* the PON port of a child
          Controller    \* OFPP_CONTROLLER

Children == {ChildOf[u] : u \in UniPorts}
NoPort   == 0
NoMeter  == 0
NoGroup  == 0

ASSUME TopologyAssumption ==
    /\ NniPorts \cap UniPorts = {}
    /\ Root \notin Children
    /\ {NoPort, Controller} \cap (NniPorts \cup UniPorts) = {}

-----------------------------------------------------------------------------
(* Routes.                                                                 *)

Hop(d, in, out) == [device |-> d, ingress |-> in, egress |-> out]

\* The empty hop of a half route.  It names no device.
NoHop == Hop("", NoPort, NoPort)

\* getReverseRoute.
Reversed(path) ==
    << Hop(path[2].device, path[2].egress, path[2].ingress),
       Hop(path[1].device, path[1].egress, path[1].ingress) >>

\* From an NNI port down to a UNI port.
Downstream(n, u) ==
    << Hop(Root, n, OltPon[ChildOf[u]]), Hop(ChildOf[u], OnuPon[ChildOf[u]], u) >>

RoutesBetween(nnis, unis) ==
    [p \in (nnis \X unis) \cup (unis \X nnis) |->
        IF p[1] \in NniPorts THEN Downstream(p[1], p[2])
        ELSE Reversed(Downstream(p[2], p[1]))]

\* The routes between the NNI ports and the UNI ports that have a logical port.
Routes(unis) == RoutesBetween(NniPorts, unis)

\* GetHalfRoute takes the first route of the map that fits, in the order the
\* map happens to be walked: any of them.
HalfRoutesFrom(routes, in) ==
    {<< routes[p][1], NoHop >> : p \in {q \in DOMAIN routes : q[1] = in}}

HalfRoutesTo(routes, out) ==
    {<< NoHop, routes[p][2] >> : p \in {q \in DOMAIN routes : q[2] = out}}

\* LogicalAgent.GetRoute: the paths it may return, none when it fails.
GetRoute(routes, in, out) ==
    LET outs == IF out = Controller /\ in \notin NniPorts THEN NniPorts ELSE {out}
    IN  CASE out = Controller /\ in \in NniPorts ->
                IF DOMAIN routes = {} THEN {<< Hop(Root, in, in), Hop(Root, in, in) >>}
                ELSE HalfRoutesFrom(routes, in)
          [] in = NoPort /\ outs \subseteq NniPorts ->
                UNION {HalfRoutesTo(routes, e) : e \in outs}
          [] in # NoPort /\ out = NoPort -> HalfRoutesFrom(routes, in)
          [] OTHER -> {routes[<< in, e >>] : e \in {x \in outs : << in, x >> \in DOMAIN routes}}

-----------------------------------------------------------------------------
(* Rules.                                                                  *)

\* A rule of a device.  Its identity in the device's table is its match:
\* the fields of the logical flow, its input port and its tunnel id.
Rule(f, in, tunnel, out, meter) ==
    [flow |-> f.id, inPort |-> in, tunnel |-> tunnel, output |-> out, meter |-> meter]

RuleId(rule) == [flow |-> rule.flow, inPort |-> rule.inPort, tunnel |-> rule.tunnel]

NoRules == [d \in {} |-> {}]

OneRule(d, rule) == [x \in {d} |-> {rule}]

\* AddFlowsAndGroup replaces what the device already had: of several rules
\* added to one device, the last one stays.
Replacing(dr, d, rules) == [x \in DOMAIN dr \cup {d} |-> IF x = d THEN rules ELSE dr[x]]

\* The meter of the parent's rule comes from the metadata, if it has one.
OltMeter(f) == IF f.oltMeter = NoMeter THEN f.meter ELSE f.oltMeter

\* processControllerBoundFlow.  A wildcard input port stands for every other
\* logical port, one after the other.
ProcessControllerBoundFlow(path, in, f, lports) ==
    IF in \in NniPorts
    THEN {OneRule(path[1].device, Rule(f, path[1].ingress, NoPort, f.outPort, NoMeter))}
    ELSE {Replacing(OneRule(path[2].device,
                            Rule(f, path[2].ingress, p, path[2].egress, OltMeter(f))),
                    path[1].device,
                    {Rule(f, path[1].ingress, p, path[1].egress, f.meter)})
             : p \in IF in = NoPort THEN lports \ {path[2].egress} ELSE {in}}

\* Mutant: the parent's rule has the tunnel id of no UNI port.
UpstreamWithoutTunnel(path, in, f) ==
    CASE f.table = 0 /\ f.next /\ f.outPort = NoPort ->
            OneRule(path[1].device, Rule(f, path[1].ingress, in, path[1].egress, f.meter))
      [] ~(f.table = 0 /\ f.next) /\ f.table = 1 /\ f.outPort # NoPort ->
            OneRule(path[2].device, Rule(f, path[2].ingress, NoPort, path[2].egress, f.meter))
      [] OTHER -> NoRules

\* processUpstreamNonControllerBoundFlow.
ProcessUpstreamNonControllerBoundFlow(path, in, f) ==
    CASE f.table = 0 /\ f.next /\ f.outPort = NoPort ->
            OneRule(path[1].device, Rule(f, path[1].ingress, in, path[1].egress, f.meter))
      [] ~(f.table = 0 /\ f.next) /\ f.table = 1 /\ f.outPort # NoPort ->
            OneRule(path[2].device, Rule(f, path[2].ingress, in, path[2].egress, f.meter))
      [] OTHER -> NoRules

\* processDownstreamFlowWithNextTable.  A port number in the metadata changes
\* the route; when there is none the flow gets no rules, without an error.
ProcessDownstreamFlowWithNextTable(routes, path, in, f) ==
    IF f.outPort # NoPort THEN {NoRules}
    ELSE IF ~f.meta
    THEN {OneRule(path[1].device, Rule(f, path[1].ingress, in, path[1].egress, f.meter))}
    ELSE LET paths == IF f.metaPort = NoPort THEN {path}
                      ELSE GetRoute(routes, in, f.metaPort)
         IN  IF paths = {} THEN {NoRules}
             ELSE {OneRule(p[1].device,
                           Rule(f, p[1].ingress, f.metaPort, p[1].egress, f.meter)) : p \in paths}

\* processUnicastFlow.
ProcessUnicastFlow(path, f) ==
    OneRule(path[2].device, Rule(f, path[2].ingress, NoPort, path[2].egress, f.meter))

\* processMulticastFlow: the flow itself, unless its group is not known.
ProcessMulticastFlow(path, f, groups) ==
    IF f.group \in groups
    THEN OneRule(path[1].device, Rule(f, f.inPort, NoPort, NoPort, f.meter))
    ELSE NoRules

\* updateOutputPortForControllerBoundFlowForParentDevice: on the root device
\* a flow that traps a control protocol goes to the controller.
UpdateOutputPort(f, dr) ==
    [d \in DOMAIN dr |->
        IF d = Root /\ f.trap THEN {[r EXCEPT !.output = Controller] : r \in dr[d]} ELSE dr[d]]

Failed(why) == [ok |-> FALSE, noRoute |-> why = "no route", rules |-> NoRules]
Found(dr)   == [ok |-> TRUE, noRoute |-> FALSE, rules |-> dr]

\* decomposeFlow: the possible outcomes, given the routes, the devices that
\* have an agent, the logical ports and the known groups.
DecomposeFlow(routes, agents, lports, groups, f) ==
    LET ins == IF f.group # NoGroup /\ f.inPort = NoPort THEN NniPorts ELSE {f.inPort}
        Along(in, path) ==
            CASE f.outPort = Controller ->
                    {Found(dr) : dr \in ProcessControllerBoundFlow(path, in, f, lports)}
              [] path[1].device \notin agents -> {Failed("no route")}
              [] path[1].device # Root ->
                    {Found(ProcessUpstreamNonControllerBoundFlow(path, in, f))}
              [] f.next /\ f.table \in {0, 1} ->
                    {Found(dr) : dr \in ProcessDownstreamFlowWithNextTable(routes, path, in, f)}
              [] f.table \in {1, 2} /\ f.outPort # NoPort -> {Found(ProcessUnicastFlow(path, f))}
              [] f.group # NoGroup /\ f.table = 0 -> {Found(ProcessMulticastFlow(path, f, groups))}
              [] OTHER -> {Failed("unknown downstream flow")}
        Outcomes(in) ==
            LET paths == GetRoute(routes, in, f.outPort)
            IN  IF paths = {} THEN {Failed("no route")}
                ELSE UNION {Along(in, p) : p \in paths}
    IN  {[o EXCEPT !.rules = UpdateOutputPort(f, o.rules)] : o \in UNION {Outcomes(in) : in \in ins}}

\* AddFrom: the rules of several flows, device by device.
Merge(drs) ==
    [d \in UNION {DOMAIN dr : dr \in drs} |-> UNION {dr[d] : dr \in {x \in drs : d \in DOMAIN x}}]

\* DecomposeRules: the flows one after the other, the first error ends it.
DecomposeRules(routes, agents, lports, groups, flows) ==
    LET outcomes == [f \in flows |-> DecomposeFlow(routes, agents, lports, groups, f)]
        picks    == {o \in [flows -> UNION {outcomes[f] : f \in flows}] :
                        \A f \in flows : o[f] \in outcomes[f]}
        Whole(o) == IF \A f \in flows : o[f].ok THEN {Found(Merge({o[f].rules : f \in flows}))}
                    ELSE {o[f] : f \in {g \in flows : ~o[g].ok}}
    IN  UNION {Whole(o) : o \in picks}

=============================================================================
