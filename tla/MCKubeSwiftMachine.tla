------------------------- MODULE MCKubeSwiftMachine -------------------------
(* Small instances of KubeSwiftMachine for TLC. *)
EXTENDS KubeSwiftMachine, TLC

CONSTANTS PodA, PodB   \* addresses of launcher pods

Config(net) ==
  [imageRef |-> "img", guestClassRef |-> "class", networkRef |-> net,
   nodeNetworkRef |-> "", nodeName |-> "", storageClassName |-> "", gpu |-> {},
   interfaces |-> <<>>]

\* A configuration every machine may have; and a swiftGuest block left out,
\* which the backend rejects.
GoodBackend == {{Config("")}}
GoodOrNil   == {{Config("")}, {}}

Status(phase, pod) ==
  [phase |-> phase, primaryIP |-> "192.168.99.2", scope |-> "Pod", podIP |-> pod,
   resolved |-> "True"]

\* A nat guest that runs, changes launcher pod, fails, has leased an address
\* before its pod's is known, or waits for its references.
RunningA == Status("Running", PodA)
RunningB == Status("Running", PodB)
OneStatus == {RunningA}
TwoPods == {RunningA, RunningB}
\* Nothing tells one pod's address from the other's.
EitherPod == Permutations({PodA, PodB})
AllStatuses == {RunningA, RunningB, Status("Running", ""), Status("Failed", ""),
                [NoStatus EXCEPT !.resolved = "False"]}

OneEndpoint == {[mode |-> "Service", port |-> 0]}

Limits(create, report, fault, nodes, clusters) ==
  [k \in Kinds |-> CASE k = "create" -> create [] k = "report" -> report
                     [] k = "fault" -> fault [] k = "node" -> nodes
                     [] k = "cluster" -> clusters]

\* The machine is created twice: the cache may still hold the first one.
TeardownLimit == Limits(2, 1, 1, 0, 0)
\* Two status changes; a Node that registers and is then removed or given an ID
\* by someone else; one failed call, restart or deleted guest.
FollowLimit   == Limits(1, 2, 1, 2, 0)
\* An existing machine: its Node leaves and registers again, and one fault.
UpgradeLimit  == Limits(0, 1, 1, 2, 0)
\* The Cluster appears, is provisioned, and is paused.
ClusterLimit  == Limits(1, 1, 0, 0, 1)
\* The least that shows a finding.
PlainLimit    == Limits(1, 1, 0, 0, 0)
=============================================================================
