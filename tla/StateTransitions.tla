-------------------------- MODULE StateTransitions --------------------------
(***************************************************************************)
(* The state transition table of the device manager                        *)
(* (rw_core/core/device/state/transitions.go).  Every stored change of a   *)
(* device is looked up here, and the handlers of the best matching row are *)
(* run one after the other.                                                *)
(*                                                                         *)
(* A device state is a record of the three states the device carries and   *)
(* the transient state the core keeps next to it.  "UNKNOWN" is the zero   *)
(* value of the three enumerations of the device and doubles as a wildcard *)
(* in the rows; "ANY" is the wildcard of the transient state.              *)
(***************************************************************************)
EXTENDS Integers, Sequences, FiniteSetsExt

AdminStates == {"UNKNOWN", "PREPROVISIONED", "ENABLED", "DISABLED",
                "DOWNLOADING_IMAGE"}

OperStatuses == {"UNKNOWN", "DISCOVERED", "ACTIVATING", "TESTING", "ACTIVE",
                 "FAILED", "RECONCILING", "RECONCILING_FAILED", "REBOOTED"}

ConnectStatuses == {"UNKNOWN", "UNREACHABLE", "REACHABLE"}

TransientStates == {"NONE", "FORCE_DELETING", "DELETING_FROM_ADAPTER",
                    "DELETING_POST_ADAPTER_RESPONSE", "DELETE_FAILED",
                    "RECONCILE_IN_PROGRESS", "REBOOT_IN_PROGRESS"}

deviceState(admin, conn, oper, transient) ==
    [admin |-> admin, conn |-> conn, oper |-> oper, transient |-> transient]

transition(type, previous, current, handlers) ==
    [type |-> type, previous |-> previous, current |-> current,
     handlers |-> handlers]

-----------------------------------------------------------------------------
(***************************************************************************)
(* The rows, in the order the code appends them.                           *)
(***************************************************************************)

(* An enabled device in its first life, with an unknown connection.        *)
Enabled(oper) == deviceState("ENABLED", "UNKNOWN", oper, "NONE")

(* The wildcard rows of a deletion: only the transient state counts, and   *)
(* for the first four rows that the device never left PREPROVISIONED.      *)
Preprovisioned(transient) ==
    deviceState("PREPROVISIONED", "UNKNOWN", "UNKNOWN", transient)

Anything(transient) == deviceState("UNKNOWN", "UNKNOWN", "UNKNOWN", transient)

RemoveParent == <<"DeleteAllLogicalPorts", "DeleteAllChildDevices",
                  "DeleteAllLogicalMeters", "RunPostDeviceDelete">>

ActivationAndDeletionRows == <<
  transition("parent", Enabled("ACTIVATING"), Enabled("ACTIVE"),
             <<"CreateLogicalDevice">>),
  transition("child", Enabled("DISCOVERED"), Enabled("ACTIVATING"), <<>>),
  transition("child", Enabled("DISCOVERED"), Enabled("ACTIVE"),
             <<"SetupUNILogicalPorts">>),
  transition("child", Enabled("ACTIVATING"), Enabled("DISCOVERED"), <<>>),
  transition("child", Enabled("ACTIVATING"), Enabled("ACTIVE"),
             <<"SetupUNILogicalPorts">>),
  transition("parent", Preprovisioned("ANY"), Preprovisioned("FORCE_DELETING"),
             <<"RunPostDeviceDelete">>),
  transition("parent", Preprovisioned("ANY"),
             Preprovisioned("DELETING_POST_ADAPTER_RESPONSE"),
             <<"RunPostDeviceDelete">>),
  transition("child", Preprovisioned("ANY"), Preprovisioned("FORCE_DELETING"),
             <<"ChildDeviceLost", "RunPostDeviceDelete">>),
  transition("child", Preprovisioned("ANY"),
             Preprovisioned("DELETING_POST_ADAPTER_RESPONSE"),
             <<"ChildDeviceLost", "RunPostDeviceDelete">>),
  transition("parent", Anything("ANY"), Anything("FORCE_DELETING"), RemoveParent),
  transition("parent", Anything("ANY"),
             Anything("DELETING_POST_ADAPTER_RESPONSE"), RemoveParent),
  transition("parent", Anything("ANY"), Anything("DELETING_FROM_ADAPTER"), <<>>)>>

(* What a rebooted OLT loses, in the order it is taken down.               *)
TakeDown == <<"DeleteAllLogicalPorts", "DeleteAllChildDevices",
              "DeleteAllLogicalMeters", "DeleteLogicalDevice",
              "DeleteAllDeviceFlows">>

ConnectionAndRebootRows == <<
  transition("parent", deviceState("ENABLED", "REACHABLE", "ACTIVE", "NONE"),
             deviceState("ENABLED", "UNREACHABLE", "UNKNOWN", "NONE"), <<>>),
  transition("parent", deviceState("ENABLED", "UNREACHABLE", "UNKNOWN", "NONE"),
             deviceState("ENABLED", "REACHABLE", "REBOOTED", "REBOOT_IN_PROGRESS"),
             Append(TakeDown, "ClearDeviceTransientState")),
  transition("parent", deviceState("DISABLED", "UNREACHABLE", "UNKNOWN", "NONE"),
             deviceState("DISABLED", "REACHABLE", "REBOOTED", "NONE"), TakeDown),
  transition("parent", deviceState("DISABLED", "REACHABLE", "UNKNOWN", "NONE"),
             deviceState("DISABLED", "UNREACHABLE", "UNKNOWN", "NONE"), <<>>),
  transition("parent", deviceState("ENABLED", "UNREACHABLE", "UNKNOWN", "NONE"),
             deviceState("ENABLED", "REACHABLE", "ACTIVE", "NONE"),
             <<"CreateLogicalDevice">>),
  transition("parent", deviceState("DISABLED", "UNREACHABLE", "UNKNOWN", "NONE"),
             deviceState("DISABLED", "REACHABLE", "UNKNOWN", "NONE"),
             <<"CreateLogicalDevice">>),
  transition("child", Anything("ANY"), Anything("FORCE_DELETING"),
             <<"DeleteAllDeviceFlows", "ChildDeviceLost", "DeleteLogicalPorts",
               "RunPostDeviceDelete">>),
  transition("child", Anything("ANY"), Anything("DELETING_POST_ADAPTER_RESPONSE"),
             <<"DeleteAllDeviceFlows", "DeleteLogicalPorts", "ChildDeviceLost",
               "RunPostDeviceDelete">>),
  transition("child", Anything("ANY"), Anything("DELETING_FROM_ADAPTER"), <<>>)>>

Invalid(type, previous, current) ==
    transition(type, previous, current, <<"NotifyInvalidTransition">>)

InvalidAndImageRows == <<
  Invalid("any", Enabled("ACTIVE"), Enabled("ACTIVATING")),
  Invalid("any", Enabled("ACTIVATING"), Enabled("UNKNOWN")),
  Invalid("any", Preprovisioned("NONE"), Anything("NONE")),
  transition("child", deviceState("ENABLED", "REACHABLE", "UNKNOWN", "NONE"),
             deviceState("DOWNLOADING_IMAGE", "REACHABLE", "UNKNOWN", "NONE"), <<>>),
  transition("child",
             deviceState("DOWNLOADING_IMAGE", "REACHABLE", "UNKNOWN", "NONE"),
             deviceState("ENABLED", "REACHABLE", "UNKNOWN", "NONE"), <<>>),
  Invalid("any", Enabled("UNKNOWN"), Anything("NONE")),
  Invalid("parent", Enabled("ACTIVE"), Enabled("ACTIVATING")),
  Invalid("any", Enabled("ACTIVATING"), Enabled("UNKNOWN")),
  Invalid("any", Enabled("UNKNOWN"), Preprovisioned("NONE")),
  Invalid("child", deviceState("DISABLED", "UNKNOWN", "UNKNOWN", "NONE"),
          Anything("NONE")),
  Invalid("any", deviceState("DISABLED", "UNKNOWN", "UNKNOWN", "NONE"),
          Preprovisioned("NONE"))>>

(* All rows of a reconciliation have this transient state on both sides.   *)
Reconciling(admin, conn, oper) ==
    deviceState(admin, conn, oper, "RECONCILE_IN_PROGRESS")

(* A reconciliation that ends: the adapter reported the device again.      *)
Reconciled(admin, conn, oper) ==
    transition("any", Reconciling(admin, "UNKNOWN", "RECONCILING"),
              Reconciling(admin, conn, oper), <<"ReconcilingCleanup">>)

ReconcilingRows ==
  [i \in 1..4 |->
     LET admin == <<"ENABLED", "DISABLED", "PREPROVISIONED", "DOWNLOADING_IMAGE">>[i]
     IN  transition("any", Reconciling(admin, "UNKNOWN", "UNKNOWN"),
                   Reconciling(admin, "UNKNOWN", "RECONCILING"), <<>>)]
  \o <<Reconciled("ENABLED", "REACHABLE", "ACTIVE"),
       Reconciled("ENABLED", "UNREACHABLE", "UNKNOWN"),
       Reconciled("DISABLED", "UNREACHABLE", "UNKNOWN"),
       Reconciled("DOWNLOADING_IMAGE", "UNKNOWN", "UNKNOWN"),
       Reconciled("ENABLED", "UNKNOWN", "RECONCILING_FAILED"),
       Reconciled("DISABLED", "UNKNOWN", "RECONCILING_FAILED"),
       Reconciled("DOWNLOADING_IMAGE", "UNKNOWN", "RECONCILING_FAILED")>>
  \o [i \in 1..2 |->
        transition("parent",
                  Reconciling("ENABLED", <<"REACHABLE", "UNREACHABLE">>[i], "RECONCILING"),
                  Reconciling("ENABLED", "REACHABLE", "REBOOTED"),
                  <<"ReconcilingCleanup">> \o TakeDown)]
  \o <<transition("parent", Reconciling("ENABLED", "REACHABLE", "REBOOTED"),
                 Reconciling("ENABLED", "UNREACHABLE", "RECONCILING"), <<>>),
       transition("parent", Reconciling("ENABLED", "UNREACHABLE", "RECONCILING"),
                 Reconciling("ENABLED", "REACHABLE", "RECONCILING"),
                 <<"CreateLogicalDevice">>),
       transition("parent", Reconciling("ENABLED", "REACHABLE", "ACTIVE"),
                 Reconciling("ENABLED", "UNREACHABLE", "UNKNOWN"), <<>>)>>

Transitions == ActivationAndDeletionRows \o ConnectionAndRebootRows
               \o InvalidAndImageRows \o ReconcilingRows
-----------------------------------------------------------------------------
(***************************************************************************)
(* The lookup.  Each of the four states matches a row with one of the      *)
(* levels below; a row in which the transient or the admin state does not  *)
(* match is out, one in which only the operational or the connection state *)
(* differs stays a candidate.                                              *)
(***************************************************************************)
noMatch == 0
currWildcardMatch == 1
currStateOnlyMatch == 2
currPrevStateMatch == 3

transientMatch(previous, current, row) ==
    CASE current.transient # row.current.transient -> noMatch
      [] row.previous.transient \in {previous.transient, "ANY"} ->
            IF row.current.transient = "ANY" THEN currWildcardMatch
                                             ELSE currPrevStateMatch
      [] OTHER -> IF row.current.transient = "ANY" THEN noMatch
                                                   ELSE currStateOnlyMatch

adminMatch(previous, current, row) ==
    CASE current.admin # row.current.admin -> noMatch
      [] row.current.admin = "UNKNOWN" ->
            IF row.previous.admin \in {previous.admin, "UNKNOWN"}
            THEN currWildcardMatch ELSE noMatch
      [] previous.admin = row.previous.admin -> currPrevStateMatch
      [] row.previous.admin = "UNKNOWN" -> currStateOnlyMatch
      [] OTHER -> noMatch

(* The rule shared by the operational and the connection state.            *)
statusMatch(previous, current, rowPrevious, rowCurrent) ==
    CASE current # rowCurrent -> noMatch
      [] rowPrevious = "UNKNOWN" -> currWildcardMatch
      [] previous = rowPrevious -> currPrevStateMatch
      [] OTHER -> currStateOnlyMatch

(* A row whose admin states are both UNKNOWN leaves the admin state open.  *)
waitForOtherStatesMatch(row) ==
    row.previous.admin = "UNKNOWN" /\ row.current.admin = "UNKNOWN"

toInt(transient, admin, oper, conn) ==
    transient * 2^8 + admin * 2^4 + oper * 2^2 + conn

exactMatch == toInt(currPrevStateMatch, currPrevStateMatch,
                    currPrevStateMatch, currPrevStateMatch)

(* Mutant: a deletion row also asks for the admin state to match, as if    *)
(* waitForOtherStatesMatch were forgotten.                                 *)
getHandlerNoWait(previous, current, row) ==
    LET transient == transientMatch(previous, current, row)
        admin == adminMatch(previous, current, row)
    IN  IF transient = noMatch \/ admin = noMatch THEN noMatch
        ELSE toInt(transient, admin,
                   statusMatch(previous.oper, current.oper,
                               row.previous.oper, row.current.oper),
                   statusMatch(previous.conn, current.conn,
                               row.previous.conn, row.current.conn))

(* How well a row matches a change of state, noMatch if it does not.       *)
getHandler(previous, current, row) ==
    LET transient == transientMatch(previous, current, row)
        admin == adminMatch(previous, current, row)
    IN  IF previous = row.previous /\ current = row.current THEN exactMatch
        ELSE IF transient = noMatch THEN noMatch
        ELSE IF admin = noMatch /\ ~ waitForOtherStatesMatch(row) THEN noMatch
        ELSE toInt(transient, admin,
                   statusMatch(previous.oper, current.oper,
                               row.previous.oper, row.current.oper),
                   statusMatch(previous.conn, current.conn,
                               row.previous.conn, row.current.conn))

(* The rows a device of the given kind may use, in table order.            *)
RowsFor(kind) == {i \in DOMAIN Transitions : Transitions[i].type \in {kind, "any"}}

(* How well each row matches: <<match, row>> pairs.                        *)
Matches(kind, previous, current) ==
    {<<getHandler(change[1], change[2], Transitions[i]), i>> :
        change \in {<<previous, current>>}, i \in RowsFor(kind)}

(* The row to use: an exact row of the device's own kind ends the search,  *)
(* an exact row of any kind replaces what was found before, and otherwise  *)
(* the first of the best rows wins.                                        *)
BestRow(kind, matches) ==
    LET rows(match) == {m[2] : m \in {n \in matches : n[1] = match}}
        exact == rows(exactMatch)
        own == {i \in exact : Transitions[i].type = kind}
    IN  IF own # {} THEN Min(own)
        ELSE IF exact # {} THEN Max(exact)
        ELSE Min(UNION {rows(top) : top \in {Max({m[1] : m \in matches})}})

(* The handlers of a change of state, none if no row matches.              *)
getTransitionHandler(kind, previous, current) ==
    CHOOSE handlers \in
        {IF previous = current \/ \A m \in matches : m[1] = noMatch THEN <<>>
         ELSE Transitions[BestRow(kind, matches)].handlers :
             matches \in {Matches(kind, previous, current)}} : TRUE
=============================================================================
