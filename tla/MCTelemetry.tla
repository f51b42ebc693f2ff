----------------------------- MODULE MCTelemetry -----------------------------
(***************************************************************************)
(* The streams of HAL values, topology, previews and scope frames, on      *)
(* small instances.  They share no state that a property is about, so in   *)
(* each behaviour here one of them runs and the others stay where they     *)
(* start.                                                                  *)
(***************************************************************************)
EXTENDS HalValues, TopologyWatch, PreviewFlow, ScopeCapture

HalStatesDef ==
    {Absent, [type |-> "bit", value |-> 0], [type |-> "bit", value |-> 1], [type |-> "u32", value |-> 0]}

\* Two lists that name the items in different orders, and two periods.
RequestsDef ==
    {[items |-> <<"i1">>, period |-> 50], [items |-> <<"i2", "i1">>, period |-> 100],
     [items |-> <<"i1", "i2">>, period |-> 50]}

VARIABLE turn   \* the one that runs

telemetryVars == <<turn, valueVars, topologyVars, previewVars, scopeVars>>

TelemetryInit ==
    /\ turn \in {"values", "topology", "previews", "scope"}
    /\ ValueInit /\ TopologyInit /\ PreviewInit /\ ScopeInit

TelemetryNext ==
    /\ UNCHANGED turn
    /\ \/ turn = "values" /\ ValueNext /\ UNCHANGED <<topologyVars, previewVars, scopeVars>>
       \/ turn = "topology" /\ TopologyNext /\ UNCHANGED <<valueVars, previewVars, scopeVars>>
       \/ turn = "previews" /\ PreviewNext /\ UNCHANGED <<valueVars, topologyVars, scopeVars>>
       \/ turn = "scope" /\ ScopeNext /\ UNCHANGED <<valueVars, topologyVars, previewVars>>

TelemetrySpec == TelemetryInit /\ [][TelemetryNext]_telemetryVars
=============================================================================
