-------------------------- MODULE KubeSwiftMachine --------------------------
(***************************************************************************)
(* The KubeSwiftMachine controller and its SwiftGuest backend              *)
(* (internal/controller/kubeswiftmachine_controller.go, workload_node.go,  *)
(* internal/backend/swiftguest.go) running against a Kubernetes API server.*)
(*                                                                         *)
(* One worker (controller-runtime's default) takes machines off a work     *)
(* queue. It reads KubeSwiftMachine, Machine, Secret, Cluster and          *)
(* KubeSwiftCluster from informer caches that lag the API server, each on  *)
(* its own; it reads and writes SwiftGuest, SwiftSeedProfile and the       *)
(* workload Node live, one API call per step; and it writes the            *)
(* KubeSwiftMachine back with Cluster API's patch helper, which is three   *)
(* separate writes (conditions, metadata and spec, status) of the          *)
(* difference between the cached object and the reconciled one.            *)
(*                                                                         *)
(* Left out: the wording of condition messages; failureDomain (copied      *)
(* beside the addresses); the pause annotation on the KubeSwiftMachine     *)
(* (Cluster.spec.paused is modelled); edits of a KubeSwiftMachine's        *)
(* spec.backend; foreign objects that happen to use the names of a         *)
(* machine's guest, seed profile or Node.                                  *)
(***************************************************************************)
EXTENDS SwiftGuest

CONSTANTS
  Machines,          \* names of KubeSwiftMachines (and of their Machines)
  ControlPlane,      \* the control-plane machines among them
  Backends,          \* values of spec.backend.swiftGuest: nil or a configuration
  Statuses,          \* statuses KubeSwift may report for a guest
  Endpoints,         \* values of KubeSwiftCluster.spec.endpoint: [mode, port]
  Legacy,            \* machines provisioned by an earlier release, seed inline
  ClusterMayChange,  \* the Cluster appears, is paused, ... during the behaviour
  Limit              \* bounds on the environment, by kind of event

Kinds == {"create", "report", "fault", "node", "cluster"}

ASSUME MachinesAssumption == Machines # {} /\ ControlPlane \subseteq Machines
ASSUME LegacyAssumption == Legacy \subseteq Machines /\ (Legacy # {} => ~ ClusterMayChange)
ASSUME BackendsAssumption ==
  \A b \in Backends : b # {} => \E c \in b : b = {c}
ASSUME LimitAssumption == Limit \in [Kinds -> Nat] /\ ClusterMayChange \in BOOLEAN

-----------------------------------------------------------------------------
(* The objects                                                             *)

NoID == <<>>
ForeignID == <<"foreign">>
\* fmt.Sprintf("%s://%s/%s", ProviderIDScheme, namespace, name), one namespace.
ProviderID(m) == <<"kubeswift", m>>

Reasons == {"unset", "WaitingForClusterInfrastructure", "WaitingForBootstrapData",
            "VMProvisioning", "VMWaitingForReferences", "VMProvisioned", "VMFailed"}

IPs == {s.primaryIP : s \in Statuses} \cup {s.podIP : s \in Statuses}

\* A KubeSwiftMachine. `owned`: the Machine controller has set the owner
\* reference and the cluster label. `ready` is the Ready condition's reason.
KSMs == [state : {"absent", "live", "deleting"}, owned : BOOLEAN,
         finalizer : BOOLEAN, providerID : {NoID} \cup {ProviderID(m) : m \in Machines},
         addresses : SUBSET IPs, provisioned : {"unset", "false", "true"},
         ready : Reasons, backend : Backends \cup {{}}]

AbsentKSM == [state |-> "absent", owned |-> FALSE, finalizer |-> FALSE,
              providerID |-> NoID, addresses |-> {}, provisioned |-> "unset",
              ready |-> "unset", backend |-> {}]

\* A Machine and its bootstrap secret. "named": dataSecretName is visible, the
\* Secret is not (the two are read from different caches).
MachineStates == {"absent", "noData", "named", "ready"}

Clusters == [exists : BOOLEAN, infra : BOOLEAN, paused : BOOLEAN]

Exposures == {{}} \cup {{[poolLabel |-> "cp", port |-> p]} :
                          p \in {6443} \cup {e.port : e \in Endpoints}}

KSCs == {{}} \cup {{e} : e \in Endpoints}

AbsentGuest == [state |-> "absent", status |-> NoStatus, spec |-> {}]

GuestSpecs == {RenderSwiftGuest(m, c, x) :
                 m \in Machines, c \in UNION Backends, x \in Exposures}

Guests == [state : {"absent", "live", "deleting"}, status : Statuses \cup {NoStatus},
           spec : SUBSET GuestSpecs]

VARIABLES
  ksm, machine, cluster, ksc,        \* management API: Cluster API objects
  seed, guest,                       \* management API: KubeSwift objects
  node,                              \* workload API: nil or a Node's providerID
  cKsm, cMachine, cCluster, cKsc,    \* informer caches of the first four
  queue, delayed, guestEvents,       \* work queue, its timers, undelivered events
  pc, cur, before, after, exposure, requeue,  \* the worker's reconcile
  used                               \* how much of Limit is spent

api     == <<ksm, machine, cluster, ksc, seed, guest, node>>
caches  == <<cKsm, cMachine, cCluster, cKsc>>
wakeups == <<queue, delayed, guestEvents>>
worker  == <<pc, cur, before, after, exposure, requeue>>
vars    == <<api, caches, wakeups, worker, used>>

Spend(kind) == /\ used[kind] < Limit[kind]
               /\ used' = [used EXCEPT ![kind] = @ + 1]

-----------------------------------------------------------------------------
(* Reconcile, up to its first live call                                    *)

\* A form that also takes the providerID back.
NotReadyClearsProviderID(k, reason) ==
  [k EXCEPT !.provisioned = "false", !.ready = reason, !.providerID = NoID]

NotReady(k, reason) == [k EXCEPT !.provisioned = "false", !.ready = reason]

\* Reconcile gets past its early returns: the machine, its owner and its
\* Cluster are in the caches and the Cluster is not paused.
Attended(m) == /\ cKsm[m].state # "absent"
               /\ cKsm[m].owned /\ cMachine[m] # "absent"
               /\ cCluster.exists /\ ~ cCluster.paused

\* GetOwnerMachine fails: the owner reference names a Machine not in the cache.
OwnerMissing(m) == /\ cKsm[m].state # "absent"
                   /\ cKsm[m].owned /\ cMachine[m] = "absent"

\* controlPlaneExposure; nil KubeSwiftCluster is its error.
ExposureUnknown(m) == m \in ControlPlane /\ cKsc = {}

\* A form that leaves the port's default to the Service.
ExposureWithoutDefault(m) ==
  IF m \notin ControlPlane THEN {}
  ELSE {[poolLabel |-> "cp", port |-> e.port] : e \in {x \in cKsc : x.mode = "Service"}}

ControlPlaneExposure(m) ==
  IF m \notin ControlPlane THEN {}
  ELSE {[poolLabel |-> "cp", port |-> IF e.port = 0 THEN 6443 ELSE e.port] :
          e \in {x \in cKsc : x.mode = "Service"}}

\* Some machine's reconcile starts: it is taken off the queue.
Take(m) == /\ pc = "idle" /\ m \in queue
           /\ queue' = queue \ {m}

\* The early returns: object gone, no owner yet, no Cluster, paused. Nothing is
\* requeued.
ReconcileReturns(m) ==
  /\ Take(m)
  /\ ~ Attended(m) /\ ~ OwnerMissing(m)
  /\ UNCHANGED <<api, caches, delayed, guestEvents, worker, used>>

\* The early error: retried with back-off.
ReconcileErrs(m) ==
  /\ Take(m)
  /\ OwnerMissing(m)
  /\ delayed' = delayed \cup {m}
  /\ UNCHANGED <<api, caches, guestEvents, worker, used>>

\* The patch helper snapshots the cached object; the reconcile goes on at
\* `next` with `k`, and will return an error or RequeueAfter if `again`.
Begin(m, k, next, again) ==
  /\ Take(m) /\ Attended(m)
  /\ cur' = m /\ before' = cKsm[m] /\ after' = k
  /\ exposure' = ControlPlaneExposure(m)
  /\ requeue' = again
  /\ pc' = next
  /\ UNCHANGED <<api, caches, delayed, guestEvents, used>>

\* The deferred patch makes up to three writes (conditions, metadata and spec,
\* status), each of what differs between the snapshot and the result. The first
\* two are left out where nothing does.
SpecDiffers(b, a) == b.finalizer # a.finalizer \/ b.providerID # a.providerID
AfterConditions(b, a) == IF SpecDiffers(b, a) THEN "spec" ELSE "status"
FirstWrite(b, a) == IF b.ready # a.ready THEN "conditions" ELSE AfterConditions(b, a)

\* The reconcile is over before it made a live call.
BeginPatch(m, k, again) == Begin(m, k, FirstWrite(cKsm[m], k), again)

WithFinalizerForgotten(m) == cKsm[m]

\* reconcileNormal, with the finalizer added to the in-memory object only.
WithFinalizer(m) == [cKsm[m] EXCEPT !.finalizer = TRUE]

WaitForInfrastructure(m) ==
  /\ cKsm[m].state = "live" /\ ~ cCluster.infra
  /\ BeginPatch(m, NotReady(WithFinalizer(m), "WaitingForClusterInfrastructure"), FALSE)

WaitForBootstrapData(m) ==
  /\ cKsm[m].state = "live" /\ cCluster.infra /\ cMachine[m] = "noData"
  /\ BeginPatch(m, NotReady(WithFinalizer(m), "WaitingForBootstrapData"), FALSE)

\* checkBootstrapData or controlPlaneExposure fails: no condition is set.
InputsMissing(m) ==
  /\ cKsm[m].state = "live" /\ cCluster.infra
  /\ \/ cMachine[m] = "named"
     \/ cMachine[m] = "ready" /\ ExposureUnknown(m)
  /\ BeginPatch(m, WithFinalizer(m), TRUE)

InputsReadyUnchecked(m) == /\ cKsm[m].state = "live" /\ cCluster.infra
                           /\ cMachine[m] \in {"noData", "ready"} /\ ~ ExposureUnknown(m)

InputsReady(m) == /\ cKsm[m].state = "live" /\ cCluster.infra
                  /\ cMachine[m] = "ready" /\ ~ ExposureUnknown(m)

\* The backend rejects the configuration before any API call.
BackendRejects(m) ==
  /\ InputsReady(m)
  /\ ~ Accepts(cKsm[m].backend, ControlPlaneExposure(m))
  /\ BeginPatch(m, NotReady(WithFinalizer(m), "VMFailed"), TRUE)

BackendReconciles(m) ==
  /\ InputsReady(m)
  /\ Accepts(cKsm[m].backend, ControlPlaneExposure(m))
  /\ Begin(m, WithFinalizer(m), "seed", FALSE)

ReconcileDeleteUnguarded(m) == Begin(m, cKsm[m], "deleteGuest", FALSE)

ReconcileDeleteGated(m) ==
  /\ cKsm[m].state = "deleting" /\ cCluster.infra
  /\ Begin(m, cKsm[m], "deleteGuest", FALSE)

ReconcileDelete(m) ==
  /\ cKsm[m].state = "deleting"
  /\ Begin(m, cKsm[m], "deleteGuest", FALSE)

Reconcile(m) ==
  \/ ReconcileReturns(m) \/ ReconcileErrs(m)
  \/ WaitForInfrastructure(m) \/ WaitForBootstrapData(m) \/ InputsMissing(m)
  \/ BackendRejects(m) \/ BackendReconciles(m) \/ ReconcileDelete(m)

-----------------------------------------------------------------------------
(* The backend's live calls, one step each                                 *)

\* The reconcile ends with `k` and goes on to the deferred patch.
EndReconcile(k, again) ==
  /\ after' = k /\ requeue' = again
  /\ pc' = FirstWrite(before, k)
  /\ UNCHANGED <<cur, before, exposure>>

GoTo(next) == pc' = next /\ UNCHANGED <<cur, before, after, exposure, requeue>>

\* An API call fails: `k` is what the error path leaves in the object.
CallFails(at, k) ==
  /\ pc = at
  /\ Spend("fault")
  /\ EndReconcile(k, TRUE)
  /\ UNCHANGED <<api, caches, wakeups>>

\* ensureSeedProfile: create, or convert a profile that is not "ref" yet.
EnsureSeedCreateOnly ==
  /\ pc = "seed"
  /\ seed' = [seed EXCEPT ![cur] = IF @ = "absent" THEN "ref" ELSE @]
  /\ GoTo("guest")
  /\ UNCHANGED <<ksm, machine, cluster, ksc, guest, node, caches, wakeups, used>>

EnsureSeedProfile ==
  /\ pc = "seed"
  /\ seed' = [seed EXCEPT ![cur] = "ref"]
  /\ GoTo("guest")
  /\ UNCHANGED <<ksm, machine, cluster, ksc, guest, node, caches, wakeups, used>>

\* A form with the providerID's parts in the wrong order.
ObserveSwappedID(s) ==
  IF Provisioned(s)
  THEN [after EXCEPT !.providerID = <<cur, "kubeswift">>, !.addresses = GuestAddresses(s),
                     !.provisioned = "true", !.ready = "VMProvisioned"]
  ELSE NotReady(after, BackendReason(s))

\* What a reconcile makes of the guest's status.
Observe(s) ==
  IF Provisioned(s)
  THEN [after EXCEPT !.providerID = ProviderID(cur), !.addresses = GuestAddresses(s),
                     !.provisioned = "true", !.ready = "VMProvisioned"]
  ELSE NotReady(after, BackendReason(s))

UseStatus(s) ==
  /\ after' = Observe(s)
  /\ requeue' = ~ Provisioned(s)
  /\ pc' = IF Provisioned(s) THEN "node" ELSE FirstWrite(before, Observe(s))
  /\ UNCHANGED <<cur, before, exposure>>

\* ensureSwiftGuest finds a guest: it is used as it is, terminating or not.
FindSwiftGuest ==
  /\ pc = "guest" /\ guest[cur].state # "absent"
  /\ UseStatus(guest[cur].status)
  /\ UNCHANGED <<api, caches, wakeups, used>>

\* ... or creates one from the cached configuration.
CreateSwiftGuest ==
  /\ pc = "guest" /\ guest[cur].state = "absent"
  /\ guest' = [guest EXCEPT ![cur] =
       [state |-> "live", status |-> NoStatus,
        spec |-> {RenderSwiftGuest(cur, c, exposure) : c \in after.backend}]]
  /\ guestEvents' = guestEvents \cup {cur}
  /\ UseStatus(NoStatus)
  /\ UNCHANGED <<ksm, machine, cluster, ksc, seed, node, caches, queue, delayed, used>>

BackendFails == \/ CallFails("seed", NotReady(after, "VMFailed"))
                \/ CallFails("guest", NotReady(after, "VMFailed"))

\* SwiftGuestBackend.Delete on a guest that is there: delete it once, wait.
DeleteSwiftGuestNoWait ==
  /\ pc = "deleteGuest" /\ guest[cur].state # "absent"
  /\ guest' = [guest EXCEPT ![cur].state = "deleting"]
  /\ guestEvents' = guestEvents \cup {cur}
  /\ GoTo("deleteSeed")
  /\ UNCHANGED <<ksm, machine, cluster, ksc, seed, node, caches, queue, delayed, used>>

DeleteSwiftGuest ==
  /\ pc = "deleteGuest" /\ guest[cur].state # "absent"
  /\ guest' = [guest EXCEPT ![cur].state = "deleting"]
  /\ guestEvents' = IF guest[cur].state = "live" THEN guestEvents \cup {cur}
                    ELSE guestEvents
  /\ EndReconcile(after, TRUE)
  /\ UNCHANGED <<ksm, machine, cluster, ksc, seed, node, caches, queue, delayed, used>>

SwiftGuestGone ==
  /\ pc = "deleteGuest" /\ guest[cur].state = "absent"
  /\ GoTo("deleteSeed")
  /\ UNCHANGED <<api, caches, wakeups, used>>

DeleteSeedProfileKeepsFinalizer ==
  /\ pc = "deleteSeed"
  /\ seed' = [seed EXCEPT ![cur] = "absent"]
  /\ EndReconcile(after, FALSE)
  /\ UNCHANGED <<ksm, machine, cluster, ksc, guest, node, caches, wakeups, used>>

\* The seed profile last; then reconcileDelete drops the finalizer in memory.
DeleteSeedProfile ==
  /\ pc = "deleteSeed"
  /\ seed' = [seed EXCEPT ![cur] = "absent"]
  /\ EndReconcile([after EXCEPT !.finalizer = FALSE], FALSE)
  /\ UNCHANGED <<ksm, machine, cluster, ksc, guest, node, caches, wakeups, used>>

DeleteFails == CallFails("deleteGuest", after) \/ CallFails("deleteSeed", after)

-----------------------------------------------------------------------------
(* ensureNodeProviderID: kubeconfig Secret, Node Get, Node Patch           *)

NodeNotFoundGivesUp ==
  /\ pc = "node" /\ node[cur] = {}
  /\ EndReconcile(after, FALSE)
  /\ UNCHANGED <<api, caches, wakeups, used>>

\* No kubeconfig Secret yet, or no Node of that name: retried later.
NodeNotFound ==
  /\ pc = "node" /\ node[cur] = {}
  /\ EndReconcile(after, TRUE)
  /\ UNCHANGED <<api, caches, wakeups, used>>

\* The Node has a providerID, this one or another: nothing to do.
NodeHasID ==
  /\ pc = "node" /\ node[cur] \notin {{}, {NoID}}
  /\ EndReconcile(after, FALSE)
  /\ UNCHANGED <<api, caches, wakeups, used>>

NodeHasNoID ==
  /\ pc = "node" /\ node[cur] = {NoID}
  /\ GoTo("nodePatch")
  /\ UNCHANGED <<api, caches, wakeups, used>>

PatchNode ==
  /\ pc = "nodePatch" /\ node[cur] = {NoID}
  /\ node' = [node EXCEPT ![cur] = {ProviderID(cur)}]
  /\ EndReconcile(after, FALSE)
  /\ UNCHANGED <<ksm, machine, cluster, ksc, seed, guest, caches, wakeups, used>>

\* The Node was deleted, or given an ID (immutable), since it was read.
PatchNodeRefused ==
  /\ pc = "nodePatch" /\ node[cur] # {NoID}
  /\ EndReconcile(after, TRUE)
  /\ UNCHANGED <<api, caches, wakeups, used>>

\* Unreachable endpoint (retried quietly), unusable kubeconfig, failed patch.
NodeFails == CallFails("node", after) \/ CallFails("nodePatch", after)

-----------------------------------------------------------------------------
(* The deferred patch: a write is sent even if the one before it failed.   *)

StatusDiffers == \/ before.addresses # after.addresses
                 \/ before.provisioned # after.provisioned

\* The value a write leaves in a field: untouched unless the reconcile changed it.
Patched(field) == IF before[field] # after[field] THEN after[field] ELSE ksm[cur][field]

\* Conditions are merged three ways: refused if Ready changed underneath.
ConditionsAccepted ==
  ksm[cur].state # "absent" /\ ksm[cur].ready \in {before.ready, after.ready}

PatchConditions ==
  /\ pc = "conditions" /\ ConditionsAccepted
  /\ ksm' = [ksm EXCEPT ![cur].ready = after.ready]
  /\ GoTo(AfterConditions(before, after))
  /\ UNCHANGED <<machine, cluster, ksc, seed, guest, node, caches, wakeups, used>>

\* The API server removes a deleting object with its last finalizer.
Settle(k) == IF k.state = "deleting" /\ ~ k.finalizer THEN AbsentKSM ELSE k

PatchSpec ==
  /\ pc = "spec" /\ ksm[cur].state # "absent"
  /\ ksm' = [ksm EXCEPT ![cur] = Settle([@ EXCEPT !.finalizer = Patched("finalizer"),
                                                  !.providerID = Patched("providerID")])]
  /\ GoTo("status")
  /\ UNCHANGED <<machine, cluster, ksc, seed, guest, node, caches, wakeups, used>>

AfterWrite == IF pc = "conditions" THEN AfterConditions(before, after) ELSE "status"

\* The object is gone, or Ready was changed by someone else. A NotFound for an
\* object whose finalizer this reconcile dropped is not an error.
PatchRefused ==
  /\ \/ pc = "conditions" /\ ~ ConditionsAccepted
     \/ pc = "spec" /\ ksm[cur].state = "absent"
  /\ pc' = AfterWrite
  /\ requeue' = (requeue \/ after.state # "deleting" \/ after.finalizer)
  /\ UNCHANGED <<api, caches, wakeups, cur, before, after, exposure, used>>

PatchFails ==
  /\ pc \in {"conditions", "spec"}
  /\ Spend("fault")
  /\ pc' = AfterWrite
  /\ requeue' = TRUE
  /\ UNCHANGED <<api, caches, wakeups, cur, before, after, exposure>>

\* The worker is done: an error or RequeueAfter puts the machine on a timer.
Finish(again) ==
  /\ pc' = "idle" /\ before' = AbsentKSM /\ after' = AbsentKSM
  /\ exposure' = {} /\ requeue' = FALSE
  /\ delayed' = IF again THEN delayed \cup {cur} ELSE delayed
  /\ UNCHANGED <<cur, queue, guestEvents>>

PatchStatus ==
  /\ pc = "status"
  /\ StatusDiffers => ksm[cur].state # "absent"
  /\ ksm' = IF StatusDiffers
            THEN [ksm EXCEPT ![cur].addresses = Patched("addresses"),
                             ![cur].provisioned = Patched("provisioned")]
            ELSE ksm
  /\ Finish(requeue)
  /\ UNCHANGED <<machine, cluster, ksc, seed, guest, node, caches, used>>

PatchStatusRefused ==
  /\ pc = "status" /\ StatusDiffers /\ ksm[cur].state = "absent"
  /\ Finish(TRUE)
  /\ UNCHANGED <<api, caches, used>>

PatchStatusFails ==
  /\ pc = "status" /\ StatusDiffers
  /\ Spend("fault")
  /\ Finish(TRUE)
  /\ UNCHANGED <<api, caches>>

ReconcileStep ==
  \/ EnsureSeedProfile \/ FindSwiftGuest \/ CreateSwiftGuest \/ BackendFails
  \/ DeleteSwiftGuest \/ SwiftGuestGone \/ DeleteSeedProfile \/ DeleteFails
  \/ NodeNotFound \/ NodeHasID \/ NodeHasNoID \/ PatchNode \/ PatchNodeRefused
  \/ NodeFails
  \/ PatchConditions \/ PatchSpec \/ PatchRefused \/ PatchFails
  \/ PatchStatus \/ PatchStatusRefused \/ PatchStatusFails

-----------------------------------------------------------------------------
(* controller-runtime: informers, work queue, restart                      *)

\* For(KubeSwiftMachine)
SyncKSM(m) ==
  /\ cKsm[m] # ksm[m]
  /\ cKsm' = [cKsm EXCEPT ![m] = ksm[m]]
  /\ queue' = queue \cup {m}
  /\ UNCHANGED <<api, cMachine, cCluster, cKsc, delayed, guestEvents, worker, used>>

\* Watches(Machine, MachineToInfrastructureMapFunc); the Secret may lag.
SyncMachine(m) ==
  /\ cMachine[m] # machine[m] /\ cMachine[m] # "named"
  /\ \E v \in {machine[m]} \cup (IF machine[m] = "ready" THEN {"named"} ELSE {}) :
       cMachine' = [cMachine EXCEPT ![m] = v]
  /\ queue' = queue \cup {m}
  /\ UNCHANGED <<api, cKsm, cCluster, cKsc, delayed, guestEvents, worker, used>>

\* Secrets, Clusters and KubeSwiftClusters are cached but not watched: their
\* changes enqueue nothing.
SyncSecret(m) ==
  /\ cMachine[m] = "named"
  /\ cMachine' = [cMachine EXCEPT ![m] = "ready"]
  /\ UNCHANGED <<api, cKsm, cCluster, cKsc, wakeups, worker, used>>

SyncCluster ==
  /\ cCluster # cluster
  /\ cCluster' = cluster
  /\ UNCHANGED <<api, cKsm, cMachine, cKsc, wakeups, worker, used>>

SyncKSC ==
  /\ cKsc # ksc
  /\ cKsc' = ksc
  /\ UNCHANGED <<api, cKsm, cMachine, cCluster, wakeups, worker, used>>

\* Watches(SwiftGuest, swiftGuestToKubeSwiftMachine), by the machine label.
GuestEventDropped(m) ==
  /\ m \in guestEvents
  /\ guestEvents' = guestEvents \ {m}
  /\ UNCHANGED <<api, caches, queue, delayed, worker, used>>

DeliverGuestEvent(m) ==
  /\ m \in guestEvents
  /\ guestEvents' = guestEvents \ {m}
  /\ queue' = queue \cup {m}
  /\ UNCHANGED <<api, caches, delayed, worker, used>>

\* RequeueAfter or the rate limiter's back-off elapses.
TimerFires(m) ==
  /\ m \in delayed
  /\ delayed' = delayed \ {m}
  /\ queue' = queue \cup {m}
  /\ UNCHANGED <<api, caches, guestEvents, worker, used>>

\* The manager stops between any two steps; the next one lists everything.
Crash ==
  /\ Spend("fault")
  /\ cKsm' = ksm /\ cMachine' = machine /\ cCluster' = cluster /\ cKsc' = ksc
  /\ queue' = {m \in Machines : \/ ksm[m].state # "absent" \/ machine[m] # "absent"
                                \/ guest[m].state # "absent"}
  /\ delayed' = {} /\ guestEvents' = {}
  /\ pc' = "idle" /\ before' = AbsentKSM /\ after' = AbsentKSM
  /\ exposure' = {} /\ requeue' = FALSE
  /\ UNCHANGED <<api, cur>>

\* The informers' periodic resync (10 hours by default).
Resync(m) ==
  /\ cKsm[m].state # "absent" /\ m \notin queue
  /\ queue' = queue \cup {m}
  /\ UNCHANGED <<api, caches, delayed, guestEvents, worker, used>>

Runtime == \/ \E m \in Machines : \/ SyncKSM(m) \/ SyncMachine(m) \/ SyncSecret(m)
                                  \/ DeliverGuestEvent(m) \/ TimerFires(m)
           \/ SyncCluster \/ SyncKSC \/ Crash

-----------------------------------------------------------------------------
(* The environment: users, Cluster API, KubeSwift, the workload cluster    *)

CreateKSM(m) ==
  /\ ksm[m].state = "absent"
  /\ Spend("create")
  /\ \E b \in Backends :
       ksm' = [ksm EXCEPT ![m] = [AbsentKSM EXCEPT !.state = "live", !.backend = b]]
  /\ UNCHANGED <<machine, cluster, ksc, seed, guest, node, caches, wakeups, worker>>

CreateMachine(m) ==
  /\ machine[m] = "absent"
  /\ machine' = [machine EXCEPT ![m] = "noData"]
  /\ UNCHANGED <<ksm, cluster, ksc, seed, guest, node, caches, wakeups, worker, used>>

\* The Machine controller sets the owner reference and the cluster label.
AdoptKSM(m) ==
  /\ ksm[m].state = "live" /\ ~ ksm[m].owned /\ machine[m] # "absent"
  /\ ksm' = [ksm EXCEPT ![m].owned = TRUE]
  /\ UNCHANGED <<machine, cluster, ksc, seed, guest, node, caches, wakeups, worker, used>>

\* The bootstrap provider writes the Secret, then names it.
PublishBootstrap(m) ==
  /\ machine[m] = "noData" /\ cluster.infra
  /\ machine' = [machine EXCEPT ![m] = "ready"]
  /\ UNCHANGED <<ksm, cluster, ksc, seed, guest, node, caches, wakeups, worker, used>>

DeleteKSM(m) ==
  /\ ksm[m].state = "live"
  /\ ksm' = [ksm EXCEPT ![m] = Settle([@ EXCEPT !.state = "deleting"])]
  /\ UNCHANGED <<machine, cluster, ksc, seed, guest, node, caches, wakeups, worker, used>>

\* KubeSwift reports a status for the guest.
ReportStatus(m) ==
  /\ guest[m].state # "absent"
  /\ Spend("report")
  /\ \E s \in Statuses \ {guest[m].status} :
       guest' = [guest EXCEPT ![m].status = s]
  /\ guestEvents' = guestEvents \cup {m}
  /\ UNCHANGED <<ksm, machine, cluster, ksc, seed, node, caches, queue, delayed, worker>>

\* KubeSwift finishes tearing the VM down.
FinalizeGuest(m) ==
  /\ guest[m].state = "deleting"
  /\ guest' = [guest EXCEPT ![m] = AbsentGuest]
  /\ guestEvents' = guestEvents \cup {m}
  /\ UNCHANGED <<ksm, machine, cluster, ksc, seed, node, caches, queue, delayed, worker,
                 used>>

\* An operator deletes the VM behind the provider's back.
OperatorDeletesGuest(m) ==
  /\ guest[m].state = "live"
  /\ Spend("fault")
  /\ guest' = [guest EXCEPT ![m].state = "deleting"]
  /\ guestEvents' = guestEvents \cup {m}
  /\ UNCHANGED <<ksm, machine, cluster, ksc, seed, node, caches, queue, delayed, worker>>

\* The kubelet registers the Node, with no providerID or one set elsewhere.
NodeRegisters(m) ==
  /\ node[m] = {} /\ guest[m].state # "absent" /\ Provisioned(guest[m].status)
  /\ Spend("node")
  /\ \E id \in {NoID, ForeignID} : node' = [node EXCEPT ![m] = {id}]
  /\ UNCHANGED <<ksm, machine, cluster, ksc, seed, guest, caches, wakeups, worker>>

\* The Node is removed from the workload cluster, or given an ID by another.
NodeChanges(m) ==
  /\ Spend("node")
  /\ \/ node[m] # {} /\ node' = [node EXCEPT ![m] = {}]
     \/ node[m] = {NoID} /\ node' = [node EXCEPT ![m] = {ForeignID}]
  /\ UNCHANGED <<ksm, machine, cluster, ksc, seed, guest, caches, wakeups, worker>>

\* The Cluster appears, its infrastructure becomes provisioned (latched by core
\* Cluster API), it is paused and unpaused; the KubeSwiftCluster's endpoint
\* block is written and edited.
ClusterChanges ==
  /\ ClusterMayChange
  /\ \/ /\ ~ cluster.exists
        /\ cluster' = [cluster EXCEPT !.exists = TRUE] /\ UNCHANGED <<ksc, used>>
     \/ /\ cluster.exists /\ ~ cluster.infra
        /\ cluster' = [cluster EXCEPT !.infra = TRUE] /\ UNCHANGED <<ksc, used>>
     \/ /\ cluster.exists /\ ~ cluster.paused /\ Spend("cluster")
        /\ cluster' = [cluster EXCEPT !.paused = TRUE] /\ UNCHANGED ksc
     \/ /\ cluster.paused
        /\ cluster' = [cluster EXCEPT !.paused = FALSE] /\ UNCHANGED <<ksc, used>>
     \/ /\ \E e \in Endpoints : ksc # {e} /\ ksc' = {e}
        /\ IF ksc = {} THEN UNCHANGED used ELSE Spend("cluster")
        /\ UNCHANGED cluster
  /\ UNCHANGED <<ksm, machine, seed, guest, node, caches, wakeups, worker>>

Environment ==
  \/ \E m \in Machines :
       \/ CreateKSM(m) \/ CreateMachine(m) \/ AdoptKSM(m) \/ PublishBootstrap(m)
       \/ DeleteKSM(m) \/ ReportStatus(m) \/ FinalizeGuest(m)
       \/ OperatorDeletesGuest(m) \/ NodeRegisters(m) \/ NodeChanges(m)
  \/ ClusterChanges

-----------------------------------------------------------------------------
(* The specification                                                       *)

\* A machine provisioned by a release that wrote the cloud-init inline.
LegacyKSM(m, b, s) ==
  [AbsentKSM EXCEPT !.state = "live", !.owned = TRUE, !.finalizer = TRUE,
     !.providerID = ProviderID(m), !.addresses = GuestAddresses(s),
     !.provisioned = "true", !.ready = "VMProvisioned", !.backend = b]

Init ==
  /\ \E b \in Backends, s \in {t \in Statuses : Provisioned(t)} :
       /\ Legacy # {} => Accepts(b, {})
       /\ ksm = [m \in Machines |-> IF m \in Legacy THEN LegacyKSM(m, b, s) ELSE AbsentKSM]
       /\ guest = [m \in Machines |->
            IF m \in Legacy
            THEN [state |-> "live", status |-> s,
                  spec |-> {RenderSwiftGuest(m, c, {}) : c \in b}]
            ELSE AbsentGuest]
  /\ seed = [m \in Machines |-> IF m \in Legacy THEN "inline" ELSE "absent"]
  /\ machine = [m \in Machines |-> IF m \in Legacy THEN "ready" ELSE "absent"]
  /\ node = [m \in Machines |-> IF m \in Legacy THEN {ProviderID(m)} ELSE {}]
  /\ cluster = [exists |-> ~ ClusterMayChange, infra |-> ~ ClusterMayChange,
                paused |-> FALSE]
  /\ ksc \in IF ClusterMayChange THEN {{}} ELSE KSCs \ {{}}
  /\ cKsm = ksm /\ cMachine = machine /\ cCluster = cluster /\ cKsc = ksc
  /\ queue = Legacy /\ delayed = {} /\ guestEvents = {}
  /\ pc = "idle" /\ cur \in Machines
  /\ before = AbsentKSM /\ after = AbsentKSM /\ exposure = {} /\ requeue = FALSE
  /\ used = [k \in Kinds |-> 0]

Next == \/ \E m \in Machines : Reconcile(m)
        \/ ReconcileStep
        \/ Runtime
        \/ Environment

Spec == Init /\ [][Next]_vars

\* With the informers' resync, and the fairness of a running manager: its worker
\* never stops between two steps, its queue is first-in first-out, watch events
\* and timers are delivered. Of the environment, only that KubeSwift finishes
\* deleting a guest.
FairSpec ==
  /\ Init /\ [][Next \/ \E m \in Machines : Resync(m)]_vars
  /\ WF_vars(ReconcileStep)
  /\ WF_vars(SyncCluster) /\ WF_vars(SyncKSC)
  /\ \A m \in Machines :
       /\ SF_vars(Reconcile(m))
       /\ WF_vars(SyncKSM(m)) /\ WF_vars(SyncMachine(m)) /\ WF_vars(SyncSecret(m))
       /\ WF_vars(DeliverGuestEvent(m)) /\ WF_vars(TimerFires(m)) /\ WF_vars(Resync(m))
       /\ WF_vars(FinalizeGuest(m))

-----------------------------------------------------------------------------
(* Properties                                                              *)

PCs == {"idle", "seed", "guest", "node", "nodePatch", "deleteGuest", "deleteSeed",
        "conditions", "spec", "status"}

\* Every variable keeps its type: the objects are well formed, caches and the
\* worker's copies hold objects, the queue holds machine names.
TypeOK ==
  /\ ksm \in [Machines -> KSMs] /\ cKsm \in [Machines -> KSMs]
  /\ machine \in [Machines -> MachineStates] /\ cMachine \in [Machines -> MachineStates]
  /\ cluster \in Clusters /\ cCluster \in Clusters
  /\ ksc \in KSCs /\ cKsc \in KSCs
  /\ seed \in [Machines -> {"absent", "inline", "ref"}]
  /\ guest \in [Machines -> Guests]
  /\ node \in [Machines -> SUBSET ({NoID, ForeignID} \cup {ProviderID(m) : m \in Machines})]
  /\ queue \in SUBSET Machines /\ delayed \in SUBSET Machines
  /\ guestEvents \in SUBSET Machines
  /\ pc \in PCs /\ cur \in Machines
  /\ before \in KSMs /\ after \in KSMs
  /\ exposure \in Exposures /\ requeue \in BOOLEAN
  /\ used \in [Kinds -> Nat]

\* A SwiftGuest never exists without the SwiftSeedProfile its spec refers to:
\* ensureSeedProfile runs before ensureSwiftGuest, and Delete removes the
\* profile only once a live read found the guest gone, through crashes, failed
\* calls and stale caches at every step.
SeedOutlivesGuest ==
  \A m \in Machines : guest[m].state # "absent" => seed[m] # "absent"

\* No VM is created before its bootstrap data: a SwiftGuest exists only for a
\* Machine whose bootstrap secret is published and a Cluster whose
\* infrastructure is provisioned. reconcileNormal checks cached copies, several
\* calls before ensureSwiftGuest creates the guest.
GuestHasBootstrapData ==
  \A m \in Machines :
    guest[m].state # "absent" => machine[m] = "ready" /\ cluster.infra

\* The provider's finalizer leaves a KubeSwiftMachine only when its guest and
\* its seed profile are gone (reconcileDelete), although it is removed by a
\* merge patch computed from a cached copy several API calls earlier.
FinalizerReleasedClean ==
  [][\A m \in Machines :
       ksm[m].finalizer /\ ~ ksm'[m].finalizer =>
         /\ ksm[m].state = "deleting"
         /\ guest'[m].state = "absent" /\ seed'[m] = "absent"]_vars

\* The controller tears a VM down only on behalf of a KubeSwiftMachine that is
\* being deleted: a cached, since recreated object never costs its successor
\* the guest (SwiftGuestBackend.Delete addresses the guest by name).
TeardownOnlyWhenDeleting ==
  [][\A m \in Machines :
       DeleteSwiftGuest /\ m = cur /\ guest[m].state = "live"
         => ksm[m].state = "deleting"]_vars

\* A providerID is never taken from a Node that has one, nor from a machine
\* (ensureNodeProviderID leaves a different ID alone; reconcileNormal only ever
\* writes the one it computed).
ProviderIDsStick ==
  [][\A m \in Machines :
       /\ node[m] \notin {{}, {NoID}} => node'[m] \in {node[m], {}}
       /\ ksm[m].providerID # NoID /\ ksm'[m].state # "absent" =>
            ksm'[m].providerID = ksm[m].providerID]_vars

\* Nothing is going on or pending for m, and the caches have caught up.
Settled(m) ==
  /\ pc = "idle" \/ cur # m
  /\ m \notin queue \cup delayed \cup guestEvents
  /\ cKsm[m] = ksm[m] /\ cMachine[m] = machine[m]
  /\ cCluster = cluster /\ cKsc = ksc

\* The machine's object reports its guest: its providerID, and the address it is
\* reachable at now.
ReportsGuest(m) ==
  /\ ksm[m].finalizer /\ ksm[m].provisioned = "true" /\ ksm[m].ready = "VMProvisioned"
  /\ ksm[m].providerID = ProviderID(m)
  /\ guest[m].state # "absent" /\ Provisioned(guest[m].status)
  /\ ksm[m].addresses = GuestAddresses(guest[m].status)
  /\ seed[m] = "ref"

\* ... and so does its Node, which is not left without a providerID.
Reflects(m) == ReportsGuest(m) /\ node[m] # {NoID}

WaitsFor(m, reason) ==
  ksm[m].ready = reason /\ ksm[m].provisioned = "false" /\ ksm[m].finalizer

\* No lost wake-up ("Addresses and readiness now follow the guest",
\* CHANGELOG.md): once nothing is pending, an owned machine of an unpaused
\* cluster reports its guest as it is now, or waits for bootstrap data; one
\* that is being deleted is never left alone; and no seed profile keeps the
\* bootstrap data inline. Holds although the status is read several calls
\* before it is written, writes are diffs against a stale copy, and any of them
\* may fail.
SettledReflectsGuest ==
  \A m \in Machines :
    Settled(m) /\ Attended(m) =>
      /\ ksm[m].state = "live"
      /\ \/ machine[m] = "noData" /\ WaitsFor(m, "WaitingForBootstrapData")
         \/ machine[m] = "ready" /\ ReportsGuest(m)

\* Nor is the Node forgotten: one that registers without a providerID, however
\* late, has one by the time its machine has settled (ensureNodeProviderID asks
\* for a requeue until it finds the Node). Stated where its registration is all
\* that has happened to Nodes: they are not watched, so one that leaves and
\* registers anew waits for the machine's next event or resync (Converges).
SettledNodeHasID ==
  \A m \in Machines :
    used["node"] = 1 /\ Settled(m) /\ Attended(m) /\ ReportsGuest(m) => node[m] # {NoID}

\* What a deletion needs of Cluster API: the Cluster is there and not paused.
ClusterOpen == cluster.exists /\ ~ cluster.paused

\* A KubeSwiftMachine that is being deleted goes away, with its guest, if the
\* Cluster is eventually neither missing nor paused (reconcileDelete requeues
\* until the guest is gone).
DeletionCompletes ==
  \A m \in Machines :
    <>[]ClusterOpen => (ksm[m].state = "deleting" ~> ksm[m].state = "absent")

\* The machine's guest is up and everything reconcileNormal waits for is there.
GuestUp(m) ==
  /\ ksm[m].state = "live" /\ ksm[m].owned /\ machine[m] = "ready"
  /\ ClusterOpen /\ cluster.infra
  /\ m \in ControlPlane => ksc # {}
  /\ guest[m].state = "live" /\ Provisioned(guest[m].status) /\ seed[m] # "absent"

\* Once a guest stays up, its machine comes to report it and keeps doing so, and
\* its Node gets a providerID: also after faults, restarts, a Node registered
\* late or twice, and an object patched in three parts.
Converges ==
  \A m \in Machines :
    <>[](GuestUp(m) /\ \A e \in Exposures : Accepts(ksm[m].backend, e))
      => <>[]Reflects(m)

-----------------------------------------------------------------------------
(* The abstract machine provider this implements                           *)

Lifecycle == INSTANCE MachineLifecycle WITH
  object     <- [m \in Machines |-> ksm[m].state],
  held       <- [m \in Machines |-> ksm[m].finalizer],
  identified <- [m \in Machines |-> ksm[m].providerID # NoID],
  vm         <- [m \in Machines |-> guest[m].state],
  seed       <- [m \in Machines |-> seed[m] # "absent"],
  mishaps    <- used["fault"]

\* Seen from outside, the controller with its caches, its queue, its three-part
\* patches and its restarts is the provider of MachineLifecycle: bootstrap data
\* before the VM and after it, VMs torn down only for objects under deletion,
\* the object last, a finalizer or providerID never taken back.
ImplementsLifecycle == Lifecycle!Spec

-----------------------------------------------------------------------------
(* What the repository says of the program, and the program does not do    *)

\* "MachineFinalizer lets the controller delete the backing SwiftGuest VM before
\* the KubeSwiftMachine is removed from the API server" (common_types.go:20):
\* once a KubeSwiftMachine is gone and nothing is pending, its guest is gone.
GuestGoneWithMachine ==
  \A m \in Machines :
    ksm[m].state = "absent" /\ Settled(m) => guest[m].state = "absent"
=============================================================================
