--------------------------- MODULE MCControlPlane ---------------------------
(* Small instances of ControlPlane for TLC. *)
EXTENDS MCKubeSwiftMachine, ControlPlane

Endpoint(mode) == [mode |-> mode, type |-> "", port |-> 0, class |-> "", annotation |-> ""]

\* The default mode, External, spelled out for the machine controller.
BothModes     == {Endpoint(""), Endpoint("Service")}
BothEndpoints == {[mode |-> "External", port |-> 0], [mode |-> "Service", port |-> 0]}

SideLimits(edits) == [create |-> 1, edit |-> edits, service |-> 0, fault |-> 0, pause |-> 0]

\* The guest comes up once, nothing else happens; or the endpoint is edited once.
OneReport   == Limits(0, 1, 0, 0, 0)
Undisturbed == SideLimits(0)
OneEdit     == Limits(0, 1, 0, 0, 1)
Edited      == SideLimits(1)
=============================================================================
