-------------------------- MODULE KubeSwiftCluster --------------------------
(***************************************************************************)
(* The KubeSwiftCluster controller                                         *)
(* (internal/controller/kubeswiftcluster_controller.go) and the endpoint   *)
(* Service it mints (endpoint_service.go), for one KubeSwiftCluster name   *)
(* over several incarnations.                                              *)
(*                                                                         *)
(* KubeSwiftCluster, Cluster and Service are read from informer caches;    *)
(* the Service is written live, one call per step; the KubeSwiftCluster is *)
(* written back by the patch helper, in three writes, as in                *)
(* KubeSwiftMachine. The controller watches KubeSwiftClusters and the      *)
(* Services they own, and nothing else.                                    *)
(*                                                                         *)
(* Left out: the Service's labels (constant); the pause annotation on the  *)
(* KubeSwiftCluster.                                                       *)
(***************************************************************************)
EXTENDS Naturals, FiniteSets

CONSTANTS
  Specs,   \* values of spec.endpoint, "" and 0 when unset; annotation is the
           \* value of the one configured Service annotation
  Pool,    \* how many Service addresses there are before one is used again
  Limit    \* bounds on the environment, by kind of event

Kinds == {"create", "edit", "service", "fault", "pause"}

ASSUME SpecsAssumption ==
  Specs \subseteq [mode : {"", "External", "Service"},
                   type : {"", "ClusterIP", "LoadBalancer"}, port : Nat,
                   class : STRING, annotation : STRING]
ASSUME PoolAssumption == Pool \in Nat \ {0}
ASSUME ClusterLimitAssumption == Limit \in [Kinds -> Nat]

-----------------------------------------------------------------------------
(* The objects                                                             *)

UIDs == 0..Limit["create"]
\* A Service is told by the address it was given when it was created: another
\* one of a finite pool each time.
ServiceIDs == 0..Pool

Hosts == {<<"operator", 0>>} \cup ({"clusterIP", "ingress"} \X ServiceIDs)
APIEndpoints == [host : Hosts, port : Nat]
OperatorEndpoint == [host |-> <<"operator", 0>>, port |-> 6443]

NextID(i) == (i % Pool) + 1

Unset == [mode |-> "", type |-> "", port |-> 0, class |-> "", annotation |-> ""]

Reasons == {"unset", "WaitingForControlPlaneEndpoint", "WaitingForEndpointService",
            "Provisioned"}

\* `owned`: the core controller has set the owner reference; `external`: the
\* externally-managed annotation; endpoint is spec.controlPlaneEndpoint.
KSCs == [state : {"absent", "live", "deleting"}, uid : UIDs, owned : BOOLEAN,
         external : BOOLEAN, finalizer : BOOLEAN, spec : Specs \cup {Unset},
         endpoint : SUBSET APIEndpoints, provisioned : {"unset", "false", "true"},
         ready : Reasons]

AbsentKSC == [state |-> "absent", uid |-> 0, owned |-> FALSE, external |-> FALSE,
              finalizer |-> FALSE, spec |-> Unset, endpoint |-> {},
              provisioned |-> "unset", ready |-> "unset"]

Classes == {""} \cup {e.class : e \in Specs}
Annotations == {""} \cup {e.annotation : e \in Specs}

\* The Service <name>-cp: owner is the uid in its controller reference, 0 for
\* none; by, the incarnation for which the provider created it, 0 for a Service
\* the provider did not create (no code reads it). `ours`: its selector and its
\* port's name are the provider's. nodePort is 0 or one of two; `foreign`: the
\* annotation a load-balancer controller writes back.
Services == [id : ServiceIDs, owner : UIDs, by : UIDs, type : {"ClusterIP", "LoadBalancer"},
             port : Nat, ours : BOOLEAN, nodePort : 0..2,
             class : Classes, annotation : Annotations,
             foreign : BOOLEAN, ingress : BOOLEAN, deleting : BOOLEAN]

VARIABLES
  ksc, cluster, svc,          \* the API: svc is nil or a Service
  cKsc, cCluster, cSvc,       \* informer caches
  events,                     \* what the watches have yet to deliver
  queued, delayed,            \* the KubeSwiftCluster is queued, or on a timer
  pc, before, after, requeue, \* the worker
  uids, ids,                  \* the last identities given out
  used                        \* how much of Limit is spent

objects == <<ksc, cluster, svc, uids, ids>>
api    == <<objects, events>>
caches == <<cKsc, cCluster, cSvc>>
worker == <<pc, before, after, requeue>>
vars   == <<api, caches, queued, delayed, worker, used>>

Spend(kind) == /\ used[kind] < Limit[kind]
               /\ used' = [used EXCEPT ![kind] = @ + 1]

\* Owns(Service): an event is mapped to the owner by name, whichever
\* incarnation; a Service without this owner wakes nobody.
Owned(s) == s.owner # 0

\* What the watches will deliver of this step: every change, also one undone
\* before the cache has seen it (each has its resourceVersion); "owned" where the
\* Service's change will enqueue.
Watch ==
  events' = events \cup (IF ksc' = ksc THEN {} ELSE {"ksc"})
                   \cup (IF svc' = svc THEN {} ELSE {"svc"})
                   \cup (IF svc' # svc /\ \E s \in svc \cup svc' : Owned(s)
                         THEN {"owned"} ELSE {})

-----------------------------------------------------------------------------
(* What the configuration asks for                                         *)

EndpointMode(k) == IF k.spec.mode = "" THEN "External" ELSE k.spec.mode

ControlPlaneServicePort(k) == IF k.spec.port = 0 THEN 6443 ELSE k.spec.port
ControlPlaneServiceType(k) == IF k.spec.type = "" THEN "ClusterIP" ELSE k.spec.type

\* A form that waits for an ingress whatever the type.
IngressAddress(s) == IF s.ingress THEN {<<"ingress", s.id>>} ELSE {}

\* The address of a Service: set of at most one host.
ControlPlaneServiceAddress(s) ==
  IF s.type = "LoadBalancer"
  THEN IF s.ingress THEN {<<"ingress", s.id>>} ELSE {}
  ELSE {<<"clusterIP", s.id>>}

\* mergeServicePorts: a node port is carried over to the port of the same name.
NodePortDropped(s) == 0
MergeServicePorts(s) == IF s.ours THEN s.nodePort ELSE 0

\* What ensureControlPlaneService makes of the Service it found: the provider's
\* fields, the class only of a LoadBalancer, annotations added and none removed.
Updated(s, k) ==
  [s EXCEPT !.type = ControlPlaneServiceType(k), !.port = ControlPlaneServicePort(k),
            !.ours = TRUE, !.nodePort = MergeServicePorts(s),
            !.class = IF ControlPlaneServiceType(k) = "LoadBalancer" THEN k.spec.class ELSE @,
            !.annotation = IF k.spec.annotation = "" THEN @ ELSE k.spec.annotation]

UpToDate(s, k) == Updated(s, k) = s

\* The API server refuses another class for a LoadBalancer.
ClassFixed(s, t) == /\ s.type = "LoadBalancer" /\ t.type = "LoadBalancer"
                    /\ s.class # t.class

\* The API server allocates a node port to a LoadBalancer that has none, not the
\* one it had, and clears what belongs to a type the Service no longer has.
Stored(s, t) ==
  IF t.type = "LoadBalancer"
  THEN [t EXCEPT !.nodePort = IF @ = 0 THEN (s.nodePort % 2) + 1 ELSE @]
  ELSE [t EXCEPT !.nodePort = 0, !.class = "", !.ingress = FALSE]

MarkProvisioned(k) == [k EXCEPT !.provisioned = "true", !.ready = "Provisioned"]
MarkNotProvisioned(k, reason) == [k EXCEPT !.provisioned = "false", !.ready = reason]

\* A form that does not ask whether the address is there.
AdoptAddressUnchecked(s, k) ==
  MarkProvisioned(
    [k EXCEPT !.endpoint = {[host |-> h, port |-> ControlPlaneServicePort(k)] :
                 h \in IF ControlPlaneServiceAddress(s) = {} THEN {<<>>}
                       ELSE ControlPlaneServiceAddress(s)}])

\* The tail of reconcileServiceEndpoint, for the Service `s` it ended up with.
AdoptAddress(s, k) ==
  IF ControlPlaneServiceAddress(s) = {}
  THEN MarkNotProvisioned(k, "WaitingForEndpointService")
  ELSE MarkProvisioned(
         [k EXCEPT !.endpoint = {[host |-> h, port |-> ControlPlaneServicePort(k)] :
                                   h \in ControlPlaneServiceAddress(s)}])

-----------------------------------------------------------------------------
(* Reconcile, up to its first live call                                    *)

Attended == /\ cKsc.state # "absent" /\ cKsc.owned /\ cCluster # "absent"
            /\ ~ cKsc.external /\ cCluster # "paused"

\* GetOwnerCluster fails: the owner reference names a Cluster not in the cache.
OwnerMissing == cKsc.state # "absent" /\ cKsc.owned /\ cCluster = "absent"

Take == pc = "idle" /\ queued /\ queued' = FALSE

\* Gone, not owned yet, externally managed or paused: nothing is requeued.
ReconcileReturns ==
  /\ Take /\ ~ Attended /\ ~ OwnerMissing
  /\ UNCHANGED <<api, caches, delayed, worker, used>>

ReconcileErrs ==
  /\ Take /\ OwnerMissing
  /\ delayed' = TRUE
  /\ UNCHANGED <<api, caches, worker, used>>

Begin(k, next) ==
  /\ Take /\ Attended
  /\ before' = cKsc /\ after' = k /\ pc' = next /\ requeue' = FALSE
  /\ UNCHANGED <<api, caches, delayed, used>>

\* The deferred patch makes up to three writes: conditions, metadata and spec,
\* status. The first two are left out where the reconcile changed nothing.
SpecDiffers(b, a) == b.finalizer # a.finalizer \/ b.endpoint # a.endpoint
AfterConditions(b, a) == IF SpecDiffers(b, a) THEN "spec" ELSE "status"
FirstWrite(b, a) == IF b.ready # a.ready THEN "conditions" ELSE AfterConditions(b, a)

WithFinalizer == [cKsc EXCEPT !.finalizer = TRUE]

\* markClusterNotProvisioned or markClusterProvisioned, by the endpoint.
MarkExternal(k) == IF k.endpoint = {}
                   THEN MarkNotProvisioned(k, "WaitingForControlPlaneEndpoint")
                   ELSE MarkProvisioned(k)

\* reconcileNormal with an operator-supplied endpoint.
ReconcileExternal ==
  /\ cKsc.state = "live" /\ EndpointMode(cKsc) # "Service"
  /\ Begin(MarkExternal(WithFinalizer), FirstWrite(cKsc, MarkExternal(WithFinalizer)))

ReconcileService ==
  /\ cKsc.state = "live" /\ EndpointMode(cKsc) = "Service"
  /\ Begin(WithFinalizer, "service")

ReconcileDelete ==
  /\ cKsc.state = "deleting"
  /\ Begin(cKsc, "delete")

Reconcile == \/ ReconcileReturns \/ ReconcileErrs
             \/ ReconcileExternal \/ ReconcileService \/ ReconcileDelete

-----------------------------------------------------------------------------
(* The endpoint Service: a cached read, then at most one live write        *)

EndReconcile(k, again) ==
  /\ after' = k /\ requeue' = again /\ pc' = FirstWrite(before, k)
  /\ UNCHANGED before

\* A form that takes any Service of the name as it is.
UseServiceAsIs ==
  /\ pc = "service"
  /\ \E s \in cSvc : EndReconcile(AdoptAddress(s, after), FALSE)
  /\ UNCHANGED <<api, caches, queued, delayed, used>>

\* The cached Service will do.
UseService ==
  /\ pc = "service"
  /\ \E s \in cSvc : UpToDate(s, after) /\ EndReconcile(AdoptAddress(s, after), FALSE)
  /\ UNCHANGED <<api, caches, queued, delayed, used>>

\* buildControlPlaneService, with what the API server allocates.
NewService(owner, k) ==
  LET lb == ControlPlaneServiceType(k) = "LoadBalancer"
  IN  [id |-> NextID(ids), owner |-> owner, by |-> k.uid,
       type |-> ControlPlaneServiceType(k), port |-> ControlPlaneServicePort(k),
       ours |-> TRUE, nodePort |-> IF lb THEN 1 ELSE 0,
       class |-> IF lb THEN k.spec.class ELSE "", annotation |-> k.spec.annotation,
       foreign |-> FALSE, ingress |-> FALSE, deleting |-> FALSE]

Create(s) ==
  /\ pc = "service" /\ cSvc = {} /\ svc = {}
  /\ svc' = {s} /\ ids' = s.id
  /\ EndReconcile(AdoptAddress(s, after), FALSE)
  /\ UNCHANGED <<ksc, cluster, uids, caches, queued, delayed, used>> /\ Watch

\* A form without the controller reference.
CreateServiceUnowned == Create(NewService(0, after))

CreateService == Create(NewService(after.uid, after))

Update(s) ==
  LET t == Updated(s, after)
  IN  /\ pc = "service" /\ t # s /\ ~ ClassFixed(s, t)
      /\ svc' = {Stored(s, t)} /\ EndReconcile(AdoptAddress(Stored(s, t), after), FALSE)
      /\ UNCHANGED <<ksc, cluster, uids, ids, caches, queued, delayed, used>> /\ Watch

\* A form without a precondition.
UpdateServiceUnconditionally == svc # {} /\ \E s \in cSvc : Update(s)

\* Update carries the resourceVersion read from the cache: refused if the Service
\* has changed since, even back to what it was.
UpdateService == "svc" \notin events /\ \E s \in cSvc : Update(s)

\* AlreadyExists, or Conflict or NotFound: the cache was stale. Or the class was
\* edited: Invalid, now and at every retry.
WriteServiceRefused ==
  /\ pc = "service"
  /\ \A s \in cSvc : ~ UpToDate(s, after)
  /\ \/ cSvc = {} /\ svc # {}
     \/ cSvc # {} /\ "svc" \in events
     \/ \E s \in cSvc : ClassFixed(s, Updated(s, after))
  /\ EndReconcile(after, TRUE)
  /\ UNCHANGED <<api, caches, queued, delayed, used>>

Terminating(s) == [s EXCEPT !.deleting = TRUE]

\* Forms that leave the Service to the garbage collector, and that forget the
\* finalizer.
DeleteServiceSkipped ==
  /\ pc = "delete"
  /\ EndReconcile([after EXCEPT !.finalizer = FALSE], FALSE)
  /\ UNCHANGED <<api, caches, queued, delayed, used>>

DeleteServiceKeepsFinalizer ==
  /\ pc = "delete"
  /\ svc' = {}
  /\ EndReconcile(after, FALSE)
  /\ UNCHANGED <<ksc, cluster, uids, ids, caches, queued, delayed, used>> /\ Watch

\* deleteControlPlaneService, by name; a load balancer's own finalizer may keep
\* the Service terminating. The finalizer is then dropped in memory.
DeleteControlPlaneService ==
  /\ pc = "delete"
  /\ \/ (\A s \in svc : s.type # "LoadBalancer") /\ svc' = {}
     \/ (\E s \in svc : s.type = "LoadBalancer") /\ svc' = {Terminating(s) : s \in svc}
  /\ EndReconcile([after EXCEPT !.finalizer = FALSE], FALSE)
  /\ UNCHANGED <<ksc, cluster, uids, ids, caches, queued, delayed, used>> /\ Watch

ServiceCallFails ==
  /\ \/ pc = "delete"
     \/ pc = "service" /\ \A s \in cSvc : ~ UpToDate(s, after)
  /\ Spend("fault")
  /\ EndReconcile(after, TRUE)
  /\ UNCHANGED <<api, caches, queued, delayed>>

-----------------------------------------------------------------------------
(* The deferred patch                                                      *)

InPatch == pc \in {"conditions", "spec", "status"}

Patched(field) == IF before[field] # after[field] THEN after[field] ELSE ksc[field]

Writing == InPatch /\ (pc = "status" => before.provisioned # after.provisioned)

\* Conditions are merged three ways: refused if Ready changed underneath.
Refused == \/ ksc.state = "absent"
           \/ pc = "conditions" /\ ksc.ready \notin {before.ready, after.ready}

\* The API server removes a deleting object with its last finalizer.
Settle(k) == IF k.state = "deleting" /\ ~ k.finalizer THEN AbsentKSC ELSE k

Write == CASE pc = "conditions" -> [ksc EXCEPT !.ready = after.ready]
           [] pc = "spec" -> Settle([ksc EXCEPT !.finalizer = Patched("finalizer"),
                                                !.endpoint = Patched("endpoint")])
           [] OTHER -> [ksc EXCEPT !.provisioned = after.provisioned]

\* Every write is tried, whatever became of the one before it; after the last
\* one the worker is idle, and the object is on a timer if anything failed.
AfterWrite(failed) ==
  IF pc = "status"
  THEN /\ pc' = "idle" /\ before' = AbsentKSC /\ after' = AbsentKSC /\ requeue' = FALSE
       /\ delayed' = (delayed \/ requeue \/ failed)
  ELSE /\ pc' = IF pc = "conditions" THEN AfterConditions(before, after) ELSE "status"
       /\ requeue' = (requeue \/ failed)
       /\ UNCHANGED <<before, after, delayed>>

Patch ==
  /\ InPatch /\ (Writing => ~ Refused)
  /\ ksc' = IF Writing THEN Write ELSE ksc
  /\ AfterWrite(FALSE)
  /\ UNCHANGED <<cluster, svc, uids, ids, caches, queued, used>> /\ Watch

\* A NotFound for an object whose finalizer this reconcile dropped is no error.
PatchRefused ==
  /\ Writing /\ Refused
  /\ AfterWrite(after.state # "deleting" \/ after.finalizer)
  /\ UNCHANGED <<api, caches, queued, used>>

PatchFails ==
  /\ Writing
  /\ Spend("fault")
  /\ AfterWrite(TRUE)
  /\ UNCHANGED <<api, caches, queued>>

ReconcileStep ==
  \/ UseService \/ CreateService \/ UpdateService \/ WriteServiceRefused
  \/ DeleteControlPlaneService \/ ServiceCallFails
  \/ Patch \/ PatchRefused \/ PatchFails

-----------------------------------------------------------------------------
(* controller-runtime: informers, work queue, restart                      *)

\* For(KubeSwiftCluster)
SyncKSC ==
  /\ "ksc" \in events
  /\ cKsc' = ksc /\ queued' = TRUE /\ events' = events \ {"ksc"}
  /\ UNCHANGED <<objects, cCluster, cSvc, delayed, worker, used>>

\* A form without Owns(Service).
SyncServiceSilently ==
  /\ "svc" \in events
  /\ cSvc' = svc /\ events' = events \ {"svc", "owned"}
  /\ UNCHANGED <<objects, cKsc, cCluster, queued, delayed, worker, used>>

\* Owns(Service)
SyncService ==
  /\ "svc" \in events
  /\ cSvc' = svc /\ events' = events \ {"svc", "owned"}
  /\ queued' = (queued \/ "owned" \in events)
  /\ UNCHANGED <<objects, cKsc, cCluster, delayed, worker, used>>

\* Clusters are cached but not watched.
SyncCluster ==
  /\ cCluster # cluster
  /\ cCluster' = cluster
  /\ UNCHANGED <<api, cKsc, cSvc, queued, delayed, worker, used>>

TimerFires ==
  /\ delayed
  /\ delayed' = FALSE /\ queued' = TRUE
  /\ UNCHANGED <<api, caches, worker, used>>

Crash ==
  /\ Spend("fault")
  /\ cKsc' = ksc /\ cCluster' = cluster /\ cSvc' = svc /\ events' = {}
  /\ queued' = (ksc.state # "absent" \/ \E s \in svc : Owned(s))
  /\ delayed' = FALSE
  /\ pc' = "idle" /\ before' = AbsentKSC /\ after' = AbsentKSC /\ requeue' = FALSE
  /\ UNCHANGED objects

\* The informers' periodic resync (10 hours by default).
Resync ==
  /\ cKsc.state # "absent" /\ ~ queued
  /\ queued' = TRUE
  /\ UNCHANGED <<api, caches, delayed, worker, used>>

Runtime == SyncKSC \/ SyncService \/ SyncCluster \/ TimerFires \/ Crash

-----------------------------------------------------------------------------
(* The environment: operators, core Cluster API, Kubernetes' controllers   *)

CreateKSC ==
  /\ ksc.state = "absent"
  /\ Spend("create")
  /\ uids' = uids + 1
  /\ \E spec \in Specs, external \in BOOLEAN :
       ksc' = [AbsentKSC EXCEPT !.state = "live", !.uid = uids + 1, !.spec = spec,
                                !.external = external]
  /\ UNCHANGED <<cluster, svc, ids, caches, queued, delayed, worker>> /\ Watch

CreateCluster ==
  /\ cluster = "absent"
  /\ cluster' = "active"
  /\ UNCHANGED <<ksc, svc, uids, ids, events, caches, queued, delayed, worker, used>>

\* The core Cluster controller sets the owner reference.
AdoptKSC ==
  /\ ksc.state = "live" /\ ~ ksc.owned /\ cluster # "absent"
  /\ ksc' = [ksc EXCEPT !.owned = TRUE]
  /\ UNCHANGED <<cluster, svc, uids, ids, caches, queued, delayed, worker, used>> /\ Watch

PauseCluster ==
  /\ \/ cluster = "active" /\ Spend("pause") /\ cluster' = "paused"
     \/ cluster = "paused" /\ cluster' = "active" /\ UNCHANGED used
  /\ UNCHANGED <<ksc, svc, uids, ids, events, caches, queued, delayed, worker>>

\* An operator edits the endpoint block; one who runs an External endpoint also
\* writes it down.
EditSpec ==
  /\ ksc.state = "live" /\ Spend("edit")
  /\ \E spec \in Specs \ {ksc.spec} :
       ksc' = [ksc EXCEPT !.spec = spec,
                 !.endpoint = IF spec.mode = "Service" THEN @ ELSE {OperatorEndpoint}]
  /\ UNCHANGED <<cluster, svc, uids, ids, caches, queued, delayed, worker>> /\ Watch

SetEndpoint ==
  /\ ksc.state = "live" /\ EndpointMode(ksc) = "External" /\ ksc.endpoint = {}
  /\ ksc' = [ksc EXCEPT !.endpoint = {OperatorEndpoint}]
  /\ UNCHANGED <<cluster, svc, uids, ids, caches, queued, delayed, worker, used>> /\ Watch

DeleteKSC ==
  /\ ksc.state = "live"
  /\ ksc' = Settle([ksc EXCEPT !.state = "deleting"])
  /\ UNCHANGED <<cluster, svc, uids, ids, caches, queued, delayed, worker, used>> /\ Watch

\* A load-balancer controller assigns an address and annotates the Service.
AssignIngress ==
  /\ \E s \in svc : /\ s.type = "LoadBalancer" /\ ~ s.ingress /\ ~ s.deleting
                    /\ svc' = {[s EXCEPT !.ingress = TRUE, !.foreign = TRUE]}
  /\ UNCHANGED <<ksc, cluster, uids, ids, caches, queued, delayed, worker, used>> /\ Watch

\* An operator deletes the endpoint Service, or creates one of its name.
OperatorDeletesService ==
  /\ Spend("service")
  /\ \E s \in svc : ~ s.deleting /\ svc' = {Terminating(s)}
  /\ UNCHANGED <<ksc, cluster, uids, ids, caches, queued, delayed, worker>> /\ Watch

OperatorCreatesService ==
  /\ svc = {} /\ Spend("service")
  /\ \E type \in {"ClusterIP", "LoadBalancer"} :
       svc' = {[id |-> NextID(ids), owner |-> 0, by |-> 0, type |-> type, port |-> 443,
                ours |-> FALSE, nodePort |-> IF type = "LoadBalancer" THEN 1 ELSE 0,
                class |-> "", annotation |-> "", foreign |-> FALSE, ingress |-> FALSE,
                deleting |-> FALSE]}
  /\ ids' = NextID(ids)
  /\ UNCHANGED <<ksc, cluster, uids, caches, queued, delayed, worker>> /\ Watch

\* A terminating Service goes; the garbage collector deletes one whose owner is
\* gone, told apart by uid.
RemoveService ==
  /\ \E s \in svc : \/ s.deleting
                    \/ Owned(s) /\ (ksc.state = "absent" \/ ksc.uid # s.owner)
  /\ svc' = {}
  /\ UNCHANGED <<ksc, cluster, uids, ids, caches, queued, delayed, worker, used>> /\ Watch

Environment ==
  \/ CreateKSC \/ CreateCluster \/ AdoptKSC \/ PauseCluster \/ EditSpec \/ SetEndpoint
  \/ DeleteKSC \/ AssignIngress \/ OperatorDeletesService \/ OperatorCreatesService
  \/ RemoveService

-----------------------------------------------------------------------------
(* The specification                                                       *)

Init ==
  /\ ksc = AbsentKSC /\ cluster = "absent" /\ svc = {} /\ events = {}
  /\ cKsc = ksc /\ cCluster = cluster /\ cSvc = svc
  /\ queued = FALSE /\ delayed = FALSE
  /\ pc = "idle" /\ before = AbsentKSC /\ after = AbsentKSC /\ requeue = FALSE
  /\ uids = 0 /\ ids = 0
  /\ used = [k \in Kinds |-> 0]

Next == Reconcile \/ ReconcileStep \/ Runtime \/ Environment

Spec == Init /\ [][Next]_vars

\* The fairness of a running manager (see KubeSwiftMachine), of the load-balancer
\* controller and of the garbage collector.
FairSpec ==
  /\ Init /\ [][Next \/ Resync]_vars
  /\ WF_vars(Reconcile) /\ WF_vars(ReconcileStep)
  /\ WF_vars(SyncKSC) /\ WF_vars(SyncService) /\ WF_vars(SyncCluster)
  /\ WF_vars(TimerFires) /\ WF_vars(Resync)
  /\ WF_vars(RemoveService)

-----------------------------------------------------------------------------
(* Properties                                                              *)

\* Every variable keeps its type.
TypeOK ==
  /\ ksc \in KSCs /\ cKsc \in KSCs /\ before \in KSCs /\ after \in KSCs
  /\ cluster \in {"absent", "active", "paused"}
  /\ cCluster \in {"absent", "active", "paused"}
  /\ svc \in SUBSET Services /\ cSvc \in SUBSET Services
  /\ events \subseteq {"ksc", "svc", "owned"}
  /\ queued \in BOOLEAN /\ delayed \in BOOLEAN /\ requeue \in BOOLEAN
  /\ pc \in {"idle", "service", "delete", "conditions", "spec", "status"}
  /\ uids \in UIDs /\ ids \in ServiceIDs
  /\ used \in [Kinds -> Nat]

\* Nothing is going on or pending, and the caches have caught up.
Settled == /\ pc = "idle" /\ ~ queued /\ ~ delayed /\ events = {}
           /\ cKsc = ksc /\ cCluster = cluster /\ cSvc = svc

Says(k, provisioned, reason) == k.provisioned = provisioned /\ k.ready = reason

\* What the object k reports is what its endpoint is: in Service mode the
\* address and port of the Service as configured, else what the operator wrote.
Reports(k, services) ==
  IF EndpointMode(k) = "Service"
  THEN \E s \in services :
         /\ UpToDate(s, k)
         /\ IF ControlPlaneServiceAddress(s) = {}
            THEN Says(k, "false", "WaitingForEndpointService")
            ELSE /\ Says(k, "true", "Provisioned")
                 /\ \E e \in k.endpoint : /\ e.host \in ControlPlaneServiceAddress(s)
                                          /\ e.port = s.port
  ELSE IF k.endpoint = {} THEN Says(k, "false", "WaitingForControlPlaneEndpoint")
       ELSE Says(k, "true", "Provisioned")

\* No lost wake-up ("The Owns(&Service) watch re-reconciles when the address
\* lands", endpoint_service.go:37): once nothing is pending, a KubeSwiftCluster
\* reports its endpoint as it is now, also after its Service was deleted, its
\* mode or port edited, or its address assigned while the object was being
\* reconciled from stale copies. Service of its own: a foreign one is not
\* watched.
SettledReportsEndpoint ==
  Settled /\ Attended /\ (\A s \in svc : Owned(s)) =>
    ksc.state = "live" /\ ksc.finalizer /\ Reports(ksc, svc)

\* The finalizer leaves a KubeSwiftCluster only once its Service is deleted or
\* terminating (reconcileDelete), and no stale reconcile brings it back.
ServiceDeletedFirst ==
  [][ksc.finalizer /\ ~ ksc'.finalizer =>
       /\ ksc.state = "deleting"
       /\ \A s \in svc' : s.by = ksc.uid => s.deleting]_vars

\* An update keeps what is not the provider's ("preserving apiserver-assigned
\* fields (clusterIP, nodePorts)", endpoint_service.go:49-50, "without removing
\* foreign ones (e.g. those an LB controller writes back)", :76-77): while a
\* Service is there, an annotation written back by the load-balancer controller
\* stays, also one written between the controller's cached read and its Update,
\* and a LoadBalancer's API-server port keeps its node port through edits of
\* port and annotations.
ForeignFieldsKept ==
  [][\A s \in svc, t \in svc' :
       s.id = t.id =>
         /\ s.foreign => t.foreign
         /\ s.ours /\ s.nodePort # 0 /\ t.type = "LoadBalancer" => t.nodePort = s.nodePort
    ]_vars

\* A Service never outlives the KubeSwiftCluster it was created for, even one
\* created for an object deleted before its finalizer was persisted: the owner
\* reference set by ensureControlPlaneService hands it to the garbage collector.
ServiceNeverLeaks ==
  \A u \in UIDs \ {0} :
    (uids >= u /\ (ksc.state = "absent" \/ ksc.uid # u))
       ~> [](\A s \in svc : s.by # u)

Active == cluster = "active"

\* A KubeSwiftCluster that is being deleted goes away once its Cluster stays
\* there, unpaused. (One without an owner reference need not: a patch computed
\* for a deleted namesake may give it a finalizer, and Reconcile then returns
\* before reconcileDelete.)
DeletionCompletes ==
  <>[](Active /\ ~ ksc.external) => (ksc.state = "deleting" /\ ksc.owned ~> ksc.state = "absent")

\* Once a KubeSwiftCluster is left alone, it comes to report its endpoint for
\* good, also one that is paused on the way or found a foreign Service in place.
Converges ==
  <>[](ksc.state = "live" /\ ksc.owned /\ Active /\ ~ ksc.external) => <>[]Reports(ksc, svc)

-----------------------------------------------------------------------------
(* What the repository says of the program, and the program does not do    *)

\* "with endpoint.mode=External the operator supplies it"
\* (kubeswiftcluster_types.go:11): the controller does not replace an endpoint
\* the operator supplied.
OperatorEndpointKept ==
  [][ReconcileStep /\ EndpointMode(ksc) = "External" /\ ksc.endpoint # {}
       /\ ksc'.state # "absent" => ksc'.endpoint = ksc.endpoint]_vars

\* "Once it is set, the controller reports the cluster provisioned"
\* (kubeswiftcluster_types.go:13): provisioned is not reported before
\* spec.controlPlaneEndpoint is set.
ProvisionedHasEndpoint == ksc.provisioned = "true" => ksc.endpoint # {}
=============================================================================
