---------------------------- MODULE ControlPlane ----------------------------
(***************************************************************************)
(* The two controllers of the manager together, for one cluster: the       *)
(* KubeSwiftCluster controller mints the endpoint Service and reports the  *)
(* endpoint; core Cluster API takes that as provisioned infrastructure; the*)
(* KubeSwiftMachine controller then creates the guests, whose exposure it  *)
(* reads off the same KubeSwiftCluster.                                    *)
(*                                                                         *)
(* KubeSwiftMachine is extended, KubeSwiftCluster instantiated. They share *)
(* the Cluster, the KubeSwiftCluster and the manager's informer caches of  *)
(* both: the instance's Cluster is a function of the extended module's, and*)
(* the extended module's ksc, which holds only what the machine controller *)
(* reads, a function of the instance's.                                    *)
(***************************************************************************)
EXTENDS KubeSwiftMachine

CONSTANTS Specs, Pool, ClusterLimits

VARIABLES
  infra, svc, cInfra, cSvc,                \* the KubeSwiftCluster, its Service
  clEvents, clQueued, clDelayed,           \* the other controller's queue
  clPc, clBefore, clAfter, clRequeue,      \* ... and worker
  uids, ids, clUsed

\* Cluster, as the KubeSwiftCluster controller sees it.
Seen(c) == IF ~ c.exists THEN "absent" ELSE IF c.paused THEN "paused" ELSE "active"

K == INSTANCE KubeSwiftCluster WITH
  Limit <- ClusterLimits, ksc <- infra, cKsc <- cInfra,
  cluster <- Seen(cluster), cCluster <- Seen(cCluster),
  events <- clEvents, queued <- clQueued, delayed <- clDelayed,
  pc <- clPc, before <- clBefore, after <- clAfter, requeue <- clRequeue, used <- clUsed

clusterSide == <<infra, svc, cInfra, cSvc, clEvents, clQueued, clDelayed, clPc, clBefore,
                 clAfter, clRequeue, uids, ids, clUsed>>
systemVars == <<vars, clusterSide>>

\* The KubeSwiftCluster, as the machine controller sees it (controlPlaneExposure).
Read(k) == IF k.state = "absent" THEN {}
           ELSE {[mode |-> K!EndpointMode(k), port |-> k.spec.port]}

ASSUME EndpointsAssumption ==
  \A e \in Specs : [mode |-> IF e.mode = "" THEN "External" ELSE e.mode,
                    port |-> e.port] \in Endpoints

-----------------------------------------------------------------------------
(* Steps of one side. The workers take turns: once begun, a reconcile      *)
(* neither reads nor writes anything the other controller's reconcile      *)
(* does, so that two overlapping ones can always be told one after the     *)
(* other.                                                                  *)

MachineReconcile(m) == clPc = "idle" /\ Reconcile(m) /\ UNCHANGED clusterSide
MachineReconcileStep == ReconcileStep /\ UNCHANGED clusterSide
MachineSyncs(m) == SyncKSM(m) /\ UNCHANGED clusterSide
OwnerSyncs(m) == SyncMachine(m) /\ UNCHANGED clusterSide
SecretSyncs(m) == SyncSecret(m) /\ UNCHANGED clusterSide
MachineWakes(m) == (DeliverGuestEvent(m) \/ TimerFires(m)) /\ UNCHANGED clusterSide

\* The bootstrap provider, once the infrastructure is there; KubeSwift.
BootstrapMachine(m) == PublishBootstrap(m) /\ UNCHANGED clusterSide
GuestReports(m) == ReportStatus(m) /\ UNCHANGED clusterSide

ClusterReconcile == pc = "idle" /\ UNCHANGED vars /\ K!Reconcile
ClusterReconcileStep == UNCHANGED vars /\ K!ReconcileStep
ServiceSyncs == UNCHANGED vars /\ K!SyncService
ClusterWakes == UNCHANGED vars /\ K!TimerFires

-----------------------------------------------------------------------------
(* Steps both sides take part in                                           *)

\* One informer serves both controllers; only one of them watches.
SyncSharedKSC ==
  /\ cKsc' = Read(infra)
  /\ UNCHANGED <<api, cKsm, cMachine, cCluster, wakeups, worker, used>>
  /\ K!SyncKSC

SyncSharedCluster == SyncCluster /\ UNCHANGED clusterSide

\* The informers' resyncs are hours apart: each finds the manager with nothing to do.
ResyncManager ==
  /\ pc = "idle" /\ queue \cup delayed \cup guestEvents = {}
  /\ clPc = "idle" /\ ~ clDelayed
  /\ queue' = {m \in Machines : cKsm[m].state # "absent"}
  /\ UNCHANGED <<api, caches, delayed, guestEvents, worker, used>>
  /\ K!Resync

\* Core Cluster API: the infrastructure is provisioned when the KubeSwiftCluster
\* says so, and stays so.
InfrastructureProvisioned ==
  /\ infra.provisioned = "true" /\ ~ cluster.infra
  /\ ClusterChanges /\ cluster'.infra
  /\ UNCHANGED clusterSide

\* An operator edits the endpoint block; the machine controller reads it anew if
\* mode or port differ.
EditEndpoint == /\ ClusterChanges \/ UNCHANGED vars
                /\ K!EditSpec /\ ksc' = Read(infra')

-----------------------------------------------------------------------------
(* The specification: the manager starts on a cluster whose objects have   *)
(* been applied, with the VIP if it is External, and given their owners.   *)

Applied(m, b) == [AbsentKSM EXCEPT !.state = "live", !.owned = TRUE, !.backend = b]

SystemInit ==
  /\ \E b \in Backends : ksm = [m \in Machines |-> Applied(m, b)]
  /\ machine = [m \in Machines |-> "noData"]
  /\ cluster = [exists |-> TRUE, infra |-> FALSE, paused |-> FALSE]
  /\ \E spec \in Specs :
       infra = [K!AbsentKSC EXCEPT
                  !.state = "live", !.uid = 1, !.owned = TRUE, !.spec = spec,
                  !.endpoint = IF spec.mode = "Service" THEN {} ELSE {K!OperatorEndpoint}]
  /\ ksc = Read(infra)
  /\ seed = [m \in Machines |-> "absent"] /\ guest = [m \in Machines |-> AbsentGuest]
  /\ node = [m \in Machines |-> {}]
  /\ cKsm = ksm /\ cMachine = machine /\ cCluster = cluster /\ cKsc = ksc
  /\ queue = Machines /\ delayed = {} /\ guestEvents = {}
  /\ pc = "idle" /\ cur \in Machines
  /\ before = AbsentKSM /\ after = AbsentKSM /\ exposure = {} /\ requeue = FALSE
  /\ used = [k \in Kinds |-> 0]
  /\ svc = {} /\ cInfra = infra /\ cSvc = svc
  /\ clEvents = {} /\ clQueued = TRUE /\ clDelayed = FALSE
  /\ clPc = "idle" /\ clBefore = K!AbsentKSC /\ clAfter = K!AbsentKSC /\ clRequeue = FALSE
  /\ uids = 1 /\ ids = 0
  /\ clUsed = [k \in K!Kinds |-> 0]

SystemNext ==
  \/ \E m \in Machines :
       \/ MachineReconcile(m) \/ MachineSyncs(m) \/ OwnerSyncs(m) \/ SecretSyncs(m)
       \/ MachineWakes(m) \/ BootstrapMachine(m) \/ GuestReports(m)
  \/ MachineReconcileStep
  \/ ClusterReconcile \/ ClusterReconcileStep
  \/ ServiceSyncs \/ ClusterWakes \/ ResyncManager
  \/ SyncSharedKSC \/ SyncSharedCluster \/ InfrastructureProvisioned

\* The fairness of the running manager, for both controllers, strong for the two
\* that wait for each other's turn; and that KubeSwift,
\* core Cluster API and the bootstrap provider do their part.
SystemSpec ==
  /\ SystemInit /\ [][SystemNext]_systemVars
  /\ WF_systemVars(MachineReconcileStep)
  /\ SF_systemVars(ClusterReconcile) /\ WF_systemVars(ClusterReconcileStep)
  /\ WF_systemVars(ServiceSyncs) /\ WF_systemVars(ClusterWakes)
  /\ WF_systemVars(ResyncManager)
  /\ WF_systemVars(SyncSharedKSC) /\ WF_systemVars(SyncSharedCluster)
  /\ WF_systemVars(InfrastructureProvisioned)
  /\ \A m \in Machines :
       /\ SF_systemVars(MachineReconcile(m))
       /\ WF_systemVars(MachineSyncs(m)) /\ WF_systemVars(OwnerSyncs(m))
       /\ WF_systemVars(SecretSyncs(m)) /\ WF_systemVars(MachineWakes(m))
       /\ WF_systemVars(BootstrapMachine(m)) /\ WF_systemVars(GuestReports(m))

\* The same cluster, whose endpoint block is edited.
EditedSpec == SystemInit /\ [][SystemNext \/ EditEndpoint]_systemVars

-----------------------------------------------------------------------------
(* Properties                                                              *)

\* The Service's packets reach guest g: it carries the label the Service selects
\* by, and its launcher pod forwards the Service's target port.
Fronts(s, g) == g.poolLabel = {"cp"} /\ \E n \in g.network : n.port = s.port

InStep == \A m \in ControlPlane, s \in svc : \A g \in guest[m].spec : Fronts(s, g)

\* The two controllers, which each work out mode and port for themselves from
\* their own reading of the endpoint block, agree ("keeping them equal keeps the
\* two in step", kubeswiftcluster_types.go:53): what the endpoint Service selects
\* and forwards to is what every control-plane guest exposes.
EndpointServed == InStep

\* No circular wait: the endpoint needs no guest, the guests wait for the
\* infrastructure, the infrastructure for the endpoint, and the machine controller
\* watches neither. The cluster comes up, and its machines report their guests
\* for good.
ControlPlaneComesUp == <>[](\A m \in Machines : Reflects(m))

-----------------------------------------------------------------------------
(* What the repository says of the program, and the program does not do    *)

\* "the provider mints a Kubernetes Service in the management cluster fronting
\* the control-plane guests on the API-server port" (kubeswiftcluster_types.go:36):
\* once the cluster reports its endpoint, the machines their guests, and no
\* event is left to deliver, the Service's port leads to the guests.
ServiceFrontsGuests ==
  /\ K!Settled /\ infra.spec.mode = "Service" /\ infra.provisioned = "true"
  /\ pc = "idle" /\ queue \cup guestEvents = {} /\ cKsm = ksm
  /\ \A m \in Machines : Reflects(m)
  => InStep
=============================================================================
