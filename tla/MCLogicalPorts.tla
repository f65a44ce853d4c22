--------------------------- MODULE MCLogicalPorts ---------------------------
(***************************************************************************)
(* LogicalPorts for TLC: an OLT with two NNI ports and one ONU with one    *)
(* UNI port.                                                               *)
(***************************************************************************)
EXTENDS LogicalPorts, TLC

MCNniPorts == {1, 2}
MCUniPorts == {4}
MCPorts    == {1, 2, 4}
MCChildOf  == 4 :> "onu"
MCOltPon   == "onu" :> 11
MCOnuPon   == "onu" :> 12
MCController == 9
MCValues   == {Value(c, l) : c, l \in BOOLEAN}

Start(root, onu, peer, ports, ph, streams, reqs) ==
    [dports |-> "olt" :> root @@ "onu" :> onu, peers |-> peer,
     ready |-> IF onu = {} THEN {} ELSE {"onu"}, ports |-> ports, phase |-> ph,
     stream |-> 1 :> streams[1] @@ 2 :> streams[2], requests |-> reqs]

\* One stream is running, and no other will be opened.
One == << "running", "over" >>

MCStarts == {
    \* A new device.
    Start({1, 11}, {12, 4}, {"onu"}, {}, "none", One, Requests),
    \* The ONU is not there yet.
    Start({1}, {}, {}, {1}, "serving", One, Requests),
    \* Everything is in place.
    Start({1, 11}, {12, 4}, {"onu"}, {1, 4}, "serving", One, Requests),
    \* One request, while the controller opens a second stream.
    Start({1, 2, 11}, {12, 4}, {"onu"}, {1, 2, 4}, "serving", << "off", "running" >>, {1})}

=============================================================================
