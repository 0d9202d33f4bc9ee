# TLA+ models of the KubeSwift infrastructure provider

The provider (`cluster-api-provider-kubeswift`) turns Cluster API machines into
KubeSwift virtual machines. It is two controllers and a backend, driven by
informer caches and work queues, talking to two API servers it does not control.
What is hard about it is not any one function: it is what happens between two
API calls, with a cache that lags, when a call fails, when the manager restarts,
and when an object is deleted or recreated underneath a reconcile. That is what
these modules model.

## The system

| Part | State it keeps | Operations | Talks to |
|---|---|---|---|
| `KubeSwiftMachine` controller (`internal/controller/kubeswiftmachine_controller.go`) | none of its own; writes the KubeSwiftMachine's finalizer, `providerID`, addresses, `provisioned`, Ready | `Reconcile`, `reconcileNormal`, `reconcileDelete`, two extra watches (Machine, SwiftGuest) | caches of KubeSwiftMachine, Machine, Secret, Cluster, KubeSwiftCluster; the backend; the workload cluster |
| SwiftGuest backend (`internal/backend/swiftguest.go`) | none; owns a SwiftSeedProfile and a SwiftGuest per machine | `Reconcile` (validate, ensure seed profile, ensure guest, read status), `Delete` (guest, then seed profile) | management API, live reads and writes (unstructured objects are not cached) |
| Workload node binding (`workload_node.go`) | none; writes `Node.spec.providerID` | `ensureNodeProviderID` | workload API, live |
| `KubeSwiftCluster` controller (`kubeswiftcluster_controller.go`) | writes the KubeSwiftCluster's finalizer, `controlPlaneEndpoint`, `provisioned`, Ready | `Reconcile`, `reconcileNormal` (External or Service), `reconcileDelete` | caches of KubeSwiftCluster, Cluster, Service |
| Endpoint Service (`endpoint_service.go`) | the Service `<name>-cp` | create, update, adopt its address, delete | management API: cached reads, live writes |
| Template webhook (`internal/webhook/v1alpha1`) | none | `ValidateUpdate`: a template's spec is immutable, except for the topology controller's dry runs | the API server, at admission |
| Manager (`cmd/main.go`) | informer caches, shared by the two controllers | starts controllers and webhook | |
| API types (`api/v1alpha1`) | schema, CEL rules, condition reasons | | |

The two controllers share no memory but the caches. They meet at the API server:
the machine controller reads the KubeSwiftCluster's endpoint block to decide how
a control-plane guest is exposed; the cluster controller's Service selects those
guests' pods. Core Cluster API sits between them (owner references, the
cluster's `infrastructureProvisioned` latch, pausing, cloning of templates),
KubeSwift below them.

Hard behaviours, each listed at its line under "hazards" in `PROJECT.json`:
state read from one cache and used several live calls later; an object written
back in three independent writes, each a diff against a stale copy; a finalizer
persisted after the thing it protects was created; wake-ups that exist only for
some of the inputs; deletions ordered over several reconciles; objects addressed
by name across incarnations.

## Modules

| Module | Models |
|---|---|
| `SwiftGuest` | the CRD's rules on interfaces and the backend's pure part: `validate*`, `primaryOnNAD`, `renderSwiftGuest`, `guestAddresses`, the reading of a guest's status |
| `KubeSwiftMachineTemplate` | a template, its webhook, the machines cloned from it and what the backend makes of them. Extends `SwiftGuest` |
| `KubeSwiftMachine` | the machine controller, the backend's calls and the node binding, against a lagging and failing environment. Extends `SwiftGuest` |
| `MachineLifecycle` | what a machine provider promises, abstractly; `KubeSwiftMachine` implements it |
| `KubeSwiftCluster` | the cluster controller and its endpoint Service |
| `ControlPlane` | both controllers in one manager, for one cluster. Extends `KubeSwiftMachine`, instantiates `KubeSwiftCluster` |
| `KubeSwiftMachineProofs` | proves types, seed profile, finalizer, teardown and bootstrap data of `KubeSwiftMachine` |
| `KubeSwiftMachineRefinement` | proves that providerIDs stick and that `KubeSwiftMachine` implements `MachineLifecycle` |
| `KubeSwiftMachineSettles` | proves that the machine controller loses no wake-up |
| `KubeSwiftMachineTemplateProofs` | proves the template's invariants for every configuration |
| `KubeSwiftClusterProofs` | proves types, foreign fields and the order of deletion of `KubeSwiftCluster` |
| `KubeSwiftClusterSettles` | proves that the cluster controller loses no wake-up |
| `ControlPlaneProofs` | proves that the endpoint is served, and carries machine theorems over to the composed system |
| `MCKubeSwiftMachineTemplate`, `MCKubeSwiftMachine`, `MCKubeSwiftCluster`, `MCControlPlane` | instances for TLC |

Definitions named as forms ("A form that ...") are what the code does not do: a
plausible slip in the definition that follows, kept to see that the properties
notice it.

### Conventions

A pointer that may be nil is a set of at most one element; `""` and `0` are Go's
zero values. An object is a record with a `state`: absent, live or deleting (its
deletionTimestamp is set). Ready is modelled by its reason; messages are left out.

In both controllers a reconcile is: take the object off the queue and read the
caches (one step, up to the first live call, one action per outcome); then one
step per live call; then the deferred patch. Reads of several caches are merged
into the first step because each cache lags on its own: any value a later read
could return was, or will be, what an earlier or later start would see. The
deferred patch leaves out the condition write and the metadata-and-spec write
where the reconcile changed nothing in them, as the helper does. A Get
followed by a write of an object only this worker creates is one step; where
someone else may act in between (the workload Node) it is two. A failed call has
no effect; a call that takes effect and whose answer is lost is that step
followed by a restart.

### `KubeSwiftMachine`

Variables: the API objects (`ksm`, `machine`, `cluster`, `ksc`, `seed`, `guest`,
`node`), the caches of the first four (`cKsm` ...), the work queue with its timers
and undelivered SwiftGuest events, the worker (`pc`, the machine `cur` it works
on, the patch helper's snapshot `before`, the reconciled object `after`, the
exposure it computed, whether it will be requeued), and `used`, the spent part of
the environment's bounds.

`Reconcile(m)` covers lines 54-147 up to the first call; `EnsureSeedProfile`,
`FindSwiftGuest`, `CreateSwiftGuest` are the backend's `Reconcile`;
`DeleteSwiftGuest`, `SwiftGuestGone`, `DeleteSeedProfile` its `Delete`;
`NodeNotFound` ... `PatchNodeRefused` are `ensureNodeProviderID`;
`PatchConditions`, `PatchSpec`, `PatchStatus` the three writes of Cluster API's
patch helper (external). The helper retries a refused condition patch a few
times against a fresh read and then returns an error; the model goes to the
error at once. `Sync*`, `DeliverGuestEvent` and `TimerFires` follow
`SetupWithManager`: a change of a KubeSwiftMachine, of a Machine or of a guest
enqueues; a change of a Cluster, a KubeSwiftCluster or a Secret only reaches the
cache. `Crash` is a restart: fresh caches, everything listed is enqueued.

Left out: `failureDomain`; the pause annotation on the object itself; edits of
`spec.backend`; foreign objects that use the names of a machine's guest, profile
or Node; an unset `infrastructureRef`. A Machine is never deleted before its
infrastructure object (Cluster API's own finalizer sees to that).

### `MachineLifecycle` and the refinement

The abstract provider knows a machine's object, whether a finalizer holds it,
whether it has its providerID, its VM and the VM's bootstrap data. It says in
which order these come and go (data before the VM and after it; a VM torn down
only for an object under deletion; the object last; finalizer and providerID
never taken back while the object is there) and that a failure changes nothing.
`ImplementsLifecycle` maps the API objects of `KubeSwiftMachine` to it; caches,
queues, worker and patches are hidden, so most steps stutter. The abstract `Boot`
has no guard on the object, because the controller has none when it creates the
guest; `finding_orphan` shows what follows.

### `KubeSwiftMachineTemplate`

`UpdateTemplate` is any update the webhook admits: spec unchanged, or a dry run
carrying the topology annotation. A dry run changes nothing. The template is older
than the CRDs' rules on interfaces; `UpgradeCRDs` installs them at any time, and from
then on a machine is created only if the API server admits it
(`AdmittedInterfaces`: the three CEL rules, and what the schema asks of the list, at
most 16 interfaces with distinct names of 1 to 63 characters). Machines are cloned
at any time, and the backend rejects or renders each one. The module covers every
small backend configuration, so that the pure validation and rendering
properties are checked on clones, not on functions called by hand.

### `KubeSwiftCluster`

One name, told apart by `uid` when it is used again (the instances create it
once). The Service is a cached read followed by at most one live write: used as it
is, created, updated under the cached resourceVersion, or refused because the
cache was stale (a Service with an undelivered change has another resourceVersion,
even one changed back). `Updated` is what `ensureControlPlaneService` sets (type,
selector, port with the node port carried over by name, class for a LoadBalancer,
annotations added and none removed); `Stored` what the API server makes of it.
The API server refuses another class for a LoadBalancer, at every retry: after
such an edit, or over a foreign LoadBalancer of another class, no change reaches
the Service any more. A Service is told by the address it got; addresses come from
a finite pool and are used again only after all the others. `EditSpec` changes the
endpoint block; an operator who turns to External also writes the endpoint.
`RemoveService` ends a terminating Service and is the garbage collector, which
goes by uid, while `Owns` maps events by name. The Service field `by` records for
which incarnation the provider created it; no action reads it.

`events` holds what the watches of `SetupWithManager` have yet to deliver: `Watch`,
part of every action that writes the KubeSwiftCluster or the Service, adds to it
(`"owned"` where the Service's change will also enqueue). It
is not read off the difference between object and cache, because there may be none:
an edit taken back, or a Service deleted and made again at the same address, leaves
the object as the cache has it, while each change still has its resourceVersion and
is delivered. A reconcile in between may have written what no longer holds, so the
wake-up matters. (`KubeSwiftMachine` does compare, except for the guest, whose events
it counts the same way; it delivers less than the watches do, and its theorems
hold nevertheless.)

### `ControlPlane`

The two controllers share the Cluster, the KubeSwiftCluster and the manager's one
cache of each. `cluster` of `KubeSwiftCluster` is a function of the machine
module's (`Seen`), and the machine module's `ksc`, which holds only mode and port,
a function of the KubeSwiftCluster (`Read`). A step is a step of one side, or one
of the shared ones: a shared informer's delivery, the resync, and core Cluster API
latching the infrastructure once the KubeSwiftCluster says provisioned.

The two workers take turns: a reconcile of one begins only while the other is
idle. That loses nothing here. After its first step a reconcile of the machine
controller reads and writes guest, seed profile, Node and KubeSwiftMachine, and one
of the cluster controller the Service and the KubeSwiftCluster's metadata,
endpoint and status, none of which the other reads in a reconcile: the machine
controller takes only mode and port from the KubeSwiftCluster, which no reconcile
writes. So overlapping reconciles can be reordered to follow each other. Core
Cluster API may act on `provisioned` in between, and it is the last thing the
cluster controller writes. With edits of the endpoint block (`EditedSpec`) taking
turns leaves behaviours out; that specification serves a counterexample only.

## Properties and runs

Passing runs (distinct states):

| Run | Checks | Instance and bounds |
|---|---|---|
| `template_rollout` (1.8 million) | `ClonesAgree`, `AdmissionMatchesBackstop`, `ExactlyOnePrimary`, `EndpointPrimaryIsNodeLocal`, `GPUOneAllocator` | two clones, with updates, dry runs and the CRDs' new rules before, between and after; lists of 16 and 17, with a repeated name, with names of 0, 63 and 64 characters; up to 3 interfaces (two primaries plus a secondary is the largest case the rules tell apart); every combination of references, GPU allocators and tiers |
| `machine_teardown` (1.5 million) | `TypeOK`, `SeedOutlivesGuest`, `FinalizerReleasedClean`, `TeardownOnlyWhenDeleting`, `ImplementsLifecycle` | the machine is created twice, so that a cached deletion can meet its successor; one status change among running on one pod or another, running without a pod address, failed, unresolved; one fault (failed call, restart or VM deleted by an operator) at any point |
| `machine_follow` (1.5 million, up to exchanging the two pods) | `SettledReflectsGuest`, `SettledNodeHasID`, `ProviderIDsStick` | two status changes, two Node events (register, leave, get a foreign ID), one fault; the two pods are model values no definition tells apart, hence `SYMMETRY EitherPod` |
| `machine_upgrade` (160 000) | `Converges`, `DeletionCompletes` | a machine of an earlier release, one fault, one status change, two Node events |
| `machine_cluster` (200 000) | `GuestHasBootstrapData`, `Converges`, `DeletionCompletes` | a control-plane machine; Cluster, infrastructure, endpoint configuration and data appear in any order, the Cluster is paused and unpaused |
| `cluster_endpoint` (3.2 million) | `TypeOK`, `SettledReportsEndpoint`, `ServiceDeletedFirst`, `ForeignFieldsKept` | External or one of two LoadBalancer configurations, one edit, one Service deleted or created (either type) by an operator, one fault |
| `cluster_pause` (320 000) | `ServiceNeverLeaks`, `Converges`, `DeletionCompletes` | ClusterIP or LoadBalancer, one pause, one Service deleted or foreign |
| `control_plane` (235 000) | `EndpointServed`, `ControlPlaneComesUp` | one control-plane machine, External or Service endpoint, from applied objects to a guest that reports its address |

One machine per instance: machines meet only at the single worker, which finishes
one before it takes the next, and no object is shared. (The theorems hold for any
set of machines.) Every bound counts environment events, never the controller's
own steps, so a reconcile always runs to its end. The single-controller models come
to rest when nothing changes, hence `CHECK_DEADLOCK FALSE`; template and composed
model never stop and are checked for deadlock.

The central question for a controller is whether it can come to rest in a wrong
state. `SettledReflectsGuest` and `SettledReportsEndpoint` ask it as invariants:
whenever nothing is queued, timed, undelivered or uncached, the object must say
what is true now. They are checked without the resync, so a lost wake-up is not
masked by it. `SettledNodeHasID` asks the same of the Node, which nobody watches:
the only thing that brings the controller back to a Node that registers late is
the requeue of the reconcile that did not find it. It speaks of Nodes that only
registered; one that leaves and registers anew waits for the machine's next event.

For the cluster controller the answer depends on the environment, and the bounds
of `cluster_endpoint` matter: nobody is woken when a foreign Service in the way
disappears, nor when a pause ends. The run has one Service event and no pause, so
that a foreign Service can turn up and be used but not go away again;
`cluster_pause` has the pause, with the resync. The theorem names the two
exceptions as its hypothesis and needs no bounds.

`ControlPlaneComesUp` asks for a circular wait between the controllers: guests wait
for the infrastructure, the infrastructure for the endpoint, the endpoint for a
Service that is to front the guests. `EndpointServed` asks whether two controllers
that each work out mode, label and port for themselves come to the same answer.

### Fairness

`FairSpec` adds the informers' resync (10 hours by default) and assumes of a
running manager that its worker does not stop between two steps, that watch
events and timers are delivered, and that a queued machine is eventually taken
(strong fairness per machine: the queue is first-in first-out). Of the
environment only that KubeSwift finishes deleting a guest, and, for the cluster,
that a terminating or ownerless Service goes. No fairness on users, on Cluster
API, on bounded faults or on restarts. The premises of `Converges` and
`DeletionCompletes` (`<>[]` of the Cluster being there and unpaused, of the guest
staying up) are conditions on the environment, reached in many behaviours of the
instances.

`SystemSpec` has the same fairness for both controllers, strong for the two that
take turns, one resync for the whole manager when it has nothing to do (resyncs
are hours apart), and assumes that core Cluster API latches the infrastructure, the
bootstrap provider publishes its data, and KubeSwift reports the guest: what
`ControlPlaneComesUp` is about is whether this provider, given its part of each,
does its own.

### Where the code and its documentation disagree

Four runs are expected to fail; each states a sentence of the repository.

| Run | Sentence | What happens |
|---|---|---|
| `finding_orphan` | `common_types.go:20`, the finalizer lets the controller delete the VM first | the finalizer is persisted only by the deferred patch, after the guest was created; a machine deleted in between leaves its VM running for good |
| `finding_in_step` | `kubeswiftcluster_types.go:36`, the Service fronts the control-plane guests | an existing guest is used as it is: after an edit from External to Service, Service and cluster report an endpoint no guest answers at |
| `finding_operator_endpoint` | `kubeswiftcluster_types.go:11` | a stale Service-mode reconcile overwrites an operator's External endpoint |
| `finding_provisioned_early` | `kubeswiftcluster_types.go:13` | spec write fails, status write succeeds: provisioned without an endpoint |

One more takes several steps and is in the models without a run of its own: the
architecture document says at line 111 "If absent or `paused`, requeue", and the
comment at `kubeswiftmachine_controller.go:76` that a Cluster event re-triggers;
Reconcile returns without a requeue and nothing watches Clusters, so that only the
resync (hours) or an unrelated event resumes what a pause stopped. `Converges` and
`DeletionCompletes` hold in `machine_cluster` because of the resync.

Five more disagreements are visible in a single function, and no run is spent on
them: any failed API call is reported as `VMFailed`, which `conditions.go:36`
keeps for a VM that reported a failure; deletion leaves Ready as it was, although
`conditions.go:6` says Ready covers deletion; a `nodeNetworkRef` beside a
`networkRef` is accepted and dropped (`kubeswiftmachine_types.go:69`); a Service
named `<name>-cp` is deleted with a cluster that never used Service mode
(`endpoint_service.go:135` says no-op); and of the rules CHANGELOG.md:16-22 says are
enforced at admission with "The reconcile-time check stays as a backstop",
`validateInterfaces` checks neither the cap of 16 nor the names, so that a list stored
before the rules is rendered with 17 interfaces or two of a name. The models contain
all five behaviours.

## Proofs

Every theorem is proved for all values of the constants that satisfy the named
assumptions, whatever the number of machines, faults, restarts and events. Each
proof has one step per action; a frame lemma takes the actions that leave its
variables alone. Every inductive invariant was checked by TLC before it was
proved.

### `KubeSwiftMachine`

Assumed: machines exist; a backend is nil or one configuration; machines of an
earlier release imply an established Cluster; the bounds are natural numbers.

* `TypeCorrect`: `TypeOK` is itself inductive.
* `SeedOutlivesGuestAlways`. The invariant is not inductive alone: `SeedInv` adds
  what the worker has learned, that before the guest call the profile exists and
  before the profile's deletion the guest is gone.
* `FinalizerReleasedCleanAlways` and `TeardownOnlyWhenDeletingAlways` rest on
  `TeardownInv`, which relates the three copies of a machine (API server, cache,
  worker). A cached deletion of an object that is no longer deleting means it went
  away cleanly: its successor has no guest and no finalizer yet. The cache must
  see the successor before the worker can provision it, which is why a stale
  deletion never finds a live guest. And an in-memory object without finalizer
  means guest and profile are gone and stay gone until the patch is over.
* `GuestHasBootstrapDataAlways` rests on `BootstrapInv`: published data and
  provisioned infrastructure are never taken back, so what a cache shows, however
  old, is still true when the guest is created.
* `ProviderIDsStickAlways` rests on `IDInv`: in every copy of a machine the
  providerID is empty or the one computed for its name, and the worker's copy never
  lacks one its snapshot had. So a patch that writes a difference to a newer object
  can add the ID and cannot take it away.
* `ImplementsLifecycleAlways`: every step is a step of `MachineLifecycle` under the
  mapping or leaves the mapped state alone. It needs all of the above and
  `UnseedInv`: whoever is still seen as deleting either is deleting or has lost its
  profile already, so that a late deletion of the profile does nothing.
* `SettledReflectsGuestAlways` and `SettledNodeHasIDAlways`, for a Cluster that is
  provisioned and stays open (`~ ClusterMayChange`: nothing wakes a machine when its
  Cluster changes, so without this they are false). `SettleInv` says of
  a machine the worker has left (`RestInv`) that if nothing is pending and the
  cached copy is current, then it waits for its data or reports its guest as it is,
  and its Node is not left unbound. That is not inductive by itself: a reconcile may
  work from an old copy and write to a new object. `WorkInv` follows the worker: as
  long as nothing will bring it back, the cached copy is the snapshot it works from,
  and each write of the patch was made, unless the object it was made to has been
  replaced by one without the finalizer, which the cache must then still deliver.

### `KubeSwiftMachineTemplate`

Assumed (`ConfigurationsAssumption`): a configuration's interfaces are a sequence,
its GPU block is at most one; nothing about length or names. All five invariants
follow from `CloneInv`: every clone has the template's present configuration,
whenever it was made, because no admitted update changes it; and every guest is
what the renderer makes of that configuration, once the backend has accepted it.
The rest is about the pure functions: the backend accepts the interface lists the
CEL rules accept, so that it fails no machine for interfaces it was admitted with,
and lets none created before the rules become a guest against them
(`AdmissionMatchesBackstopAlways`, with `AdmissionInv`: what was admitted stays as
it was). The schema's own limits are admission's alone and the theorem claims no
backstop for them; what it renders has one primary NIC (`ExactlyOnePrimaryAlways`),
a node-local one behind an endpoint Service (`EndpointPrimaryIsNodeLocalAlways`),
and one GPU allocator (`GPUOneAllocatorAlways`); two clones' guests differ in their
names only (`ClonesAgreeAlways`).

### `KubeSwiftCluster`

Assumed: endpoint blocks have the schema's fields, there is an address to give out,
the bounds are natural numbers.

* `TypeCorrect` needs that an incarnation is counted when it is created (`TypeInv`),
  so that uids stay in bounds.
* `ForeignFieldsKeptAlways`: an update never takes away what others wrote to the
  Service, nor the node port of a LoadBalancer that stays one. `OneService` and
  `VersionInv` (a Service without undelivered changes is the cached one) say that the
  Service updated is the Service there is.
* `ServiceDeletedFirstAlways` rests on `FinalizerInv`: the finalizer is dropped by a
  patch worked out from a cached copy, calls after the Service was deleted. While
  the worker holds a copy without the finalizer, no Service the provider made is
  left but terminating ones; and an object still seen as deleting either is, or has
  no finalizer any more, so that a stale deletion releases nobody.
* `SettledReportsEndpointAlways`: with the Cluster never paused and every Service of
  the name the provider's own (`[]Watched`), whatever else happens. Both conditions
  are needed: `Reconcile` returns on a pause without a requeue and nothing watches
  Clusters, and `Owns` passes over a Service without the controller reference. They
  restrict the environment only, and leave it edits in both directions, Services
  deleted or terminating, incarnations, failed calls and restarts, without bound.
  `SettleInv` says that a cache lags only while an event is due (`CacheInv`), that an
  object the worker has left with nothing pending is as it should be (`RestInv`), and
  of a worker that nothing will bring back (`WorkInv`) that nobody has written to
  the object it works on, that the result it is about to write is right for the
  Service there is now, and that no write that was due has been left out. It holds
  because every write of the patch that changes anything is itself an event: a
  reconcile that ends with nothing pending has changed nothing, hence found the
  object as it should be. `RetryInv` says a retry is asked for in the patch only.

### `ControlPlane`

Assumed besides: the machine module's endpoint configurations include those read
from the endpoint blocks.

* `EndpointServedAlways`: for any number of control-plane machines, each guest has
  the label the Service selects and listens on its port. `EndpointInv` says that all
  copies of the endpoint block agree (`ServiceInv` for the cluster controller's cache
  and worker and the Services it made or cached, `GuestInv` for the machine
  controller's cache, the exposure it computed and the guests), although the two
  controllers read it in different code and at different times.
* `MachineSafetyInSystem`: `GuestHasBootstrapData` and `SeedOutlivesGuest` hold in the
  composed system too. A step of the system is, for the machine controller, a step
  of `KubeSwiftMachine` or a resync that only fills its queue (`MachineSide`).

### Only model-checked

* `Converges`, `DeletionCompletes`, `ServiceNeverLeaks`, `ControlPlaneComesUp`:
  liveness under fairness is out of the prover's reach.
* The four properties of the runs that are expected to fail: they do not hold.
* The cluster controller's theorems in `ControlPlane`. The prover cannot cite the
  theorems of an instantiated module, so they would have to be proved again there.
  Those about deletion would say nothing, since the composed model takes no cluster
  down; the one about wake-ups holds of the cluster controller's steps, which the
  composition only schedules.

## Not modelled

* Deep copies (generated), manifests, cluster templates, end-to-end tests.
* `KubeSwiftClusterTemplate`: data that Cluster API clones and no code here reads.
* Of `cmd/main.go`: flags, TLS, probes, leader election (which keeps one manager
  active), and `ENABLE_WEBHOOKS=false`, with which every template update is
  admitted.
* The Service's labels, which are constants. Names other than the objects' own.
* `guestNamespace` and the RoutableIP mode, which the types mention and no code uses.
* More than one worker per controller (the code asks for none).

## What could follow

Deletion in `ControlPlane`, which brings a cluster up and never takes it down: core
Cluster API deletes the machines, then the KubeSwiftCluster, and only then the
Cluster that both controllers wait for. `DeletionCompletes` of both controllers
depends on that order, which the single models assume (`<>[]` of a Cluster that is
there). It roughly multiplies the states of the composed run by those of a
teardown, for a run that takes two minutes today.
