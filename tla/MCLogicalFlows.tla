--------------------------- MODULE MCLogicalFlows ---------------------------
(***************************************************************************)
(* LogicalFlows for TLC: an OLT with one NNI port and one ONU with one UNI *)
(* port.                                                                   *)
(***************************************************************************)
EXTENDS LogicalFlows, TLC

MCNniPorts == {1}
MCUniPorts == {4}
MCChildOf  == 4 :> "onu"
MCOltPon   == "onu" :> 2
MCOnuPon   == "onu" :> 3
MCController == 9

Flow(id, in, out, meter, oltMeter, group, ver) ==
    [id |-> id, inPort |-> in, outPort |-> out, table |-> 0, next |-> FALSE, meta |-> FALSE,
     metaPort |-> NoPort, meter |-> meter, oltMeter |-> oltMeter, group |-> group,
     trap |-> FALSE, ver |-> ver]

\* A flow that traps packets of the UNI port, with a meter or without, and a
\* multicast flow.
Trap(meter) == Flow(11, 4, MCController, meter, NoMeter, NoGroup, 1)
Multicast   == Flow(12, NoPort, NoPort, NoMeter, NoMeter, 1, 1)
MCEntries == {Trap(1), Trap(NoMeter), Multicast}

Start(flows, groups, ms) == [flows |-> flows, groups |-> groups, meters |-> ms]
MCStarts == {Start({}, {}, {1}), Start({Multicast}, {1}, {}), Start({Trap(1)}, {1}, {1})}

=============================================================================
