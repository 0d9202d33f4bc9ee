------------------------- MODULE MCKubeSwiftCluster -------------------------
(* Small instances of KubeSwiftCluster for TLC. *)
EXTENDS KubeSwiftCluster

Endpoint(mode, type, port) ==
  [mode |-> mode, type |-> type, port |-> port,
   class |-> IF type = "LoadBalancer" THEN "lb" ELSE "",
   annotation |-> IF port = 8443 THEN "pool" ELSE ""]

External == Endpoint("", "", 0)
\* Both types; the default class, as a foreign Service has it.
BothTypes == {Endpoint("Service", "", 0),
              [Endpoint("Service", "LoadBalancer", 0) EXCEPT !.class = ""]}
OnlyService == {Endpoint("Service", "", 0)}
Both == {External, Endpoint("Service", "", 0)}
\* Both modes; port and annotation left out or not.
Edits == {External, Endpoint("Service", "LoadBalancer", 0),
          Endpoint("Service", "LoadBalancer", 8443)}

Limits(create, edit, service, fault, pause) ==
  [k \in Kinds |-> CASE k = "create" -> create [] k = "edit" -> edit
                     [] k = "service" -> service [] k = "fault" -> fault
                     [] k = "pause" -> pause]

\* One object, edited once, its Service deleted or a foreign one in place, a fault.
EndpointLimit == Limits(1, 1, 1, 1, 0)
\* One object, paused once, its Service deleted or a foreign one in place.
PauseLimit    == Limits(1, 0, 1, 0, 1)
\* The least that shows a finding.
EditLimit     == Limits(1, 1, 0, 0, 0)
FaultLimit    == Limits(1, 0, 0, 1, 0)
=============================================================================
