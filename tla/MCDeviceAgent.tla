--------------------------- MODULE MCDeviceAgent ---------------------------
(* Small instances of DeviceAgent: what the adapters may report, and the   *)
(* goroutines that are interchangeable.                                    *)
EXTENDS DeviceAgent

ActiveReport == {<<"ACTIVE", "REACHABLE">>}

RebootReports == {<<"ACTIVE", "REACHABLE">>, <<"REBOOTED", "REACHABLE">>}

LossReports == {<<"ACTIVE", "REACHABLE">>, <<"UNKNOWN", "UNREACHABLE">>}

AllReports == RebootReports \cup {<<"RECONCILING", "UNREACHABLE">>}

Symmetry == Permutations(Procs)
=============================================================================
