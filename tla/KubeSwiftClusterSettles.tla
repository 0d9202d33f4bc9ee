---------------------- MODULE KubeSwiftClusterSettles ----------------------
(***************************************************************************)
(* No lost wake-up of the KubeSwiftCluster controller, for any endpoint    *)
(* configurations, any pool of addresses and any bounds, as long as all it *)
(* depends on is watched: the Cluster is not paused (the end of a pause    *)
(* wakes nobody), and the Services of the name are the provider's own (a   *)
(* foreign one wakes nobody).                                              *)
(***************************************************************************)
EXTENDS KubeSwiftClusterProofs

-----------------------------------------------------------------------------
(* The inductive invariant                                                 *)

\* Whatever happens is followed by a watch event or a retry.
Watched == cluster # "paused" /\ \A s \in svc : Owned(s)

\* Something will bring the worker back.
Pending == queued \/ delayed \/ events # {}

\* The caches lag only as long as an event is due, which will enqueue.
CacheInv ==
  /\ "ksc" \notin events => cKsc = ksc
  /\ "svc" \notin events => cSvc = svc
  /\ "svc" \in events => "owned" \in events
  /\ cCluster # "paused" /\ (cCluster = "active" => cluster = "active")

\* An object the worker has left is as it should be.
RestInv ==
  pc = "idle" /\ ~ Pending /\ ksc.state # "absent" /\ ksc.owned /\ ~ ksc.external =>
    cCluster = "active" /\ ksc.state = "live" /\ ksc.finalizer /\ Reports(ksc, svc)

\* The worker on an object under deletion: it will drop the finalizer.
DeletingInv == (pc = "delete" /\ after = before) \/ (pc = "spec" /\ ~ after.finalizer)

\* The worker on a live object: what it will have written is as it should be, and
\* no write that was due has been left out.
LiveInv ==
  /\ pc = "service" => /\ after = [before EXCEPT !.finalizer = TRUE]
                       /\ EndpointMode(before) = "Service"
  /\ pc # "service" =>
       /\ InPatch /\ after.finalizer /\ after.spec = before.spec /\ Reports(after, svc)
       /\ pc = "conditions" <=> before.ready # after.ready
       /\ pc = "spec" => SpecDiffers(before, after)
       /\ pc = "status" => ~ SpecDiffers(before, after)

\* The worker, unless something will bring it back anyway: nobody has written to
\* the object it works on.
WorkInv ==
  pc # "idle" /\ ~ requeue /\ ~ Pending =>
    /\ before = ksc /\ cCluster = "active"
    /\ before.state = "deleting" => DeletingInv
    /\ before.state = "live" => LiveInv

SettleInv == CacheInv /\ RestInv /\ WorkInv

\* A retry is asked for by a call on the Service or a write.
RetryInv == requeue => InPatch

\* Initially there is nothing to wake up for.
LEMMA SettleInit == Init => SettleInv
BY DEF Init, SettleInv, CacheInv, RestInv, WorkInv, AbsentKSC

-----------------------------------------------------------------------------
(* The environment                                                         *)

\* While all is watched, no object changes without notice.
LEMMA Notified ==
  ASSUME Watched, Watched', Watch
  PROVE  /\ events \subseteq events'
         /\ "ksc" \notin events' => ksc' = ksc
         /\ "svc" \notin events' => svc' = svc
         /\ "svc" \in events' \ events => "owned" \in events'
BY DEF Watched, Watch

\* Whatever others do is noticed.
LEMMA SettleFrame ==
  ASSUME SettleInv, UNCHANGED <<caches, queued, delayed, worker>>,
         events \subseteq events', "ksc" \notin events' => ksc' = ksc,
         "svc" \notin events' => svc' = svc, "svc" \in events' \ events => "owned" \in events',
         cluster = "active" => cluster' = "active"
  PROVE  SettleInv'
<1>1. CacheInv'
  BY DEF SettleInv, CacheInv, caches
<1>2. CASE Pending
  <2>1. Pending'
    BY <1>2 DEF Pending
  <2> QED BY <1>1, <2>1 DEF SettleInv, RestInv, WorkInv
<1>3. CASE ~ Pending /\ events' # {}
  <2>1. Pending'
    BY <1>3 DEF Pending
  <2> QED BY <1>1, <2>1 DEF SettleInv, RestInv, WorkInv
<1>4. CASE ~ Pending /\ events' = {}
  <2>1. ksc' = ksc /\ svc' = svc /\ ~ Pending'
    BY <1>4 DEF Pending
  <2>2. RestInv'
    BY <1>4, <2>1 DEF SettleInv, RestInv, caches, worker
  <2>3. WorkInv'
    BY <1>4, <2>1 DEF SettleInv, WorkInv, DeletingInv, LiveInv, InPatch, caches, worker
  <2> QED BY <1>1, <2>2, <2>3 DEF SettleInv
<1> QED BY <1>2, <1>3, <1>4

\* Operators, core Cluster API and Kubernetes' controllers.
LEMMA SettleEnvironment ==
  ASSUME SettleInv, Watched, Watched', Environment
  PROVE  SettleInv'
<1>1. CASE CreateKSC \/ AdoptKSC \/ EditSpec \/ SetEndpoint \/ DeleteKSC \/ AssignIngress
             \/ OperatorDeletesService \/ OperatorCreatesService \/ RemoveService
  <2>1. Watch /\ cluster' = cluster /\ UNCHANGED <<caches, queued, delayed, worker>>
    BY <1>1 DEF CreateKSC, AdoptKSC, EditSpec, SetEndpoint, DeleteKSC, AssignIngress,
                OperatorDeletesService, OperatorCreatesService, RemoveService
  <2> QED BY <2>1, Notified, SettleFrame
<1>2. CASE CreateCluster \/ PauseCluster
  <2>1. /\ ksc' = ksc /\ svc' = svc /\ events' = events /\ cluster' = "active"
        /\ UNCHANGED <<caches, queued, delayed, worker>>
    BY <1>2 DEF CreateCluster, PauseCluster, Watched
  <2> QED BY <2>1, SettleFrame
<1> QED BY <1>1, <1>2 DEF Environment

\* Informers, timers and restarts: a delivery enqueues.
LEMMA SettleRuntime ==
  ASSUME SettleInv, Watched, Runtime
  PROVE  SettleInv'
<1>1. CASE SyncKSC \/ TimerFires
  <2>1. queued' /\ UNCHANGED <<ksc, svc, cluster, cCluster, cSvc>>
    BY <1>1 DEF SyncKSC, TimerFires, api, objects, caches
  <2>2. CacheInv'
    BY <1>1, <2>1 DEF SettleInv, CacheInv, SyncKSC, TimerFires, api, objects, caches
  <2> QED BY <2>1, <2>2 DEF SettleInv, RestInv, WorkInv, Pending
<1>2. CASE SyncService
  <2>1. UNCHANGED <<ksc, svc, cluster, cKsc, cCluster, delayed, worker>>
    BY <1>2 DEF SyncService, objects
  <2>2. CacheInv'
    BY <1>2, <2>1 DEF SettleInv, CacheInv, SyncService
  <2>3. queued'
    BY <1>2 DEF SyncService, SettleInv, CacheInv
  <2> QED BY <2>2, <2>3 DEF SettleInv, RestInv, WorkInv, Pending
<1>3. CASE SyncCluster
  <2>1. UNCHANGED <<ksc, svc, cluster, events, cKsc, cSvc, queued, delayed, worker>>
    BY <1>3 DEF SyncCluster, api, objects
  <2>2. /\ cCluster' = cluster /\ cluster # "paused"
        /\ cCluster = "active" => cCluster' = "active"
    BY <1>3 DEF SyncCluster, Watched, SettleInv, CacheInv
  <2>3. CacheInv'
    BY <2>1, <2>2 DEF SettleInv, CacheInv
  <2>4. RestInv'
    BY <2>1, <2>2 DEF SettleInv, RestInv, Pending, worker
  <2>5. WorkInv'
    BY <2>1, <2>2 DEF SettleInv, WorkInv, Pending, DeletingInv, LiveInv, InPatch, worker
  <2> QED BY <2>3, <2>4, <2>5 DEF SettleInv
<1>4. CASE Crash
  <2>1. /\ ksc' = ksc /\ svc' = svc /\ cluster' = cluster /\ pc' = "idle"
        /\ cKsc' = ksc /\ cSvc' = svc /\ cCluster' = cluster /\ events' = {}
        /\ ksc.state # "absent" => queued'
    BY <1>4 DEF Crash, objects
  <2> QED BY <2>1 DEF SettleInv, CacheInv, RestInv, WorkInv, Pending, Watched
<1> QED BY <1>1, <1>2, <1>3, <1>4 DEF Runtime

-----------------------------------------------------------------------------
(* The worker                                                              *)

\* Every step keeps RetryInv.
LEMMA RetryNext == RetryInv /\ [Next]_vars => RetryInv'
<1> SUFFICES ASSUME RetryInv, [Next]_vars PROVE RetryInv'
  OBVIOUS
<1>1. CASE UNCHANGED worker
  BY <1>1 DEF RetryInv, InPatch, worker
<1>2. CASE requeue' = FALSE
  BY <1>2 DEF RetryInv
<1>3. ASSUME NEW k, NEW again, EndReconcile(k, again) PROVE RetryInv'
  BY <1>3, WriteOrder DEF EndReconcile, RetryInv, InPatch
<1>4. ASSUME NEW failed, AfterWrite(failed) PROVE RetryInv'
  BY <1>4, WriteOrder DEF AfterWrite, RetryInv, InPatch
<1>5. CASE Reconcile
  BY <1>1, <1>2, <1>5
  DEF Reconcile, ReconcileReturns, ReconcileErrs, ReconcileExternal, ReconcileService,
      ReconcileDelete, Begin
<1>6. CASE ReconcileStep
  BY <1>3, <1>4, <1>6
  DEF ReconcileStep, UseService, CreateService, Create, UpdateService, Update,
      WriteServiceRefused, DeleteControlPlaneService, ServiceCallFails, Patch, PatchRefused,
      PatchFails
<1>7. CASE Runtime
  BY <1>1, <1>2, <1>7 DEF Runtime, SyncKSC, SyncService, SyncCluster, TimerFires, Crash
<1>8. CASE Environment
  BY <1>1, <1>8
  DEF Environment, CreateKSC, CreateCluster, AdoptKSC, PauseCluster, EditSpec, SetEndpoint,
      DeleteKSC, AssignIngress, OperatorDeletesService, OperatorCreatesService, RemoveService
<1> QED BY <1>1, <1>5, <1>6, <1>7, <1>8 DEF Next, vars

\* Reconcile goes on, or returns an error, for whatever it is to look after.
LEMMA SettleReconcileReturns ==
  ASSUME SettleInv, ReconcileReturns \/ ReconcileErrs
  PROVE  SettleInv'
<1>1. UNCHANGED <<ksc, svc, cluster, events, caches, worker>> /\ pc = "idle"
  BY DEF ReconcileReturns, ReconcileErrs, Take, api, objects
<1>2. CacheInv'
  BY <1>1 DEF SettleInv, CacheInv, caches
<1>3. WorkInv'
  BY <1>1 DEF WorkInv, worker
<1>4. ASSUME ~ Pending', ksc.state # "absent", ksc.owned, ~ ksc.external
      PROVE  FALSE
  <2>1. cKsc = ksc /\ cCluster # "paused" /\ ~ delayed'
    BY <1>1, <1>4 DEF SettleInv, CacheInv, Pending
  <2> QED BY <1>4, <2>1 DEF ReconcileReturns, ReconcileErrs, Attended, OwnerMissing
<1> QED BY <1>1, <1>2, <1>3, <1>4 DEF SettleInv, RestInv

\* What reconcileNormal reports of an operator's endpoint is so.
LEMMA ExternalReports ==
  ASSUME NEW k \in KSCs, EndpointMode(k) # "Service", NEW services
  PROVE  /\ Reports(MarkExternal(k), services)
         /\ MarkExternal(k).finalizer = k.finalizer /\ MarkExternal(k).spec = k.spec
<1>1. \A reason : LET m == MarkNotProvisioned(k, reason)
                  IN  /\ m.provisioned = "false" /\ m.ready = reason
                      /\ m.spec = k.spec /\ m.endpoint = k.endpoint /\ m.finalizer = k.finalizer
  BY DEF MarkNotProvisioned, KSCs
<1>2. LET m == MarkProvisioned(k)
      IN  /\ m.provisioned = "true" /\ m.ready = "Provisioned"
          /\ m.spec = k.spec /\ m.endpoint = k.endpoint /\ m.finalizer = k.finalizer
  BY DEF MarkProvisioned, KSCs
<1> QED BY <1>1, <1>2 DEF MarkExternal, Reports, Says, EndpointMode

\* What a Service should be depends on the endpoint block alone.
LEMMA SpecDecides ==
  ASSUME NEW k, NEW a, a.spec = k.spec, NEW s
  PROVE  UpToDate(s, a) = UpToDate(s, k) /\ EndpointMode(a) = EndpointMode(k)
<1>1. /\ ControlPlaneServiceType(a) = ControlPlaneServiceType(k)
      /\ ControlPlaneServicePort(a) = ControlPlaneServicePort(k)
      /\ EndpointMode(a) = EndpointMode(k)
  BY DEF ControlPlaneServiceType, ControlPlaneServicePort, EndpointMode
<1>2. Updated(s, a) = Updated(s, k)
  BY <1>1, Zenon DEF Updated
<1> QED BY <1>1, <1>2, Zenon DEF UpToDate

\* What reconcileServiceEndpoint reports of a Service that is as configured is so.
LEMMA ServiceReports ==
  ASSUME NEW k \in KSCs, EndpointMode(k) = "Service",
         NEW services, NEW s \in services, s \in Services, UpToDate(s, k)
  PROVE  /\ Reports(AdoptAddress(s, k), services)
         /\ AdoptAddress(s, k).spec = k.spec
<1> DEFINE E == {[host |-> h, port |-> ControlPlaneServicePort(k)] :
                   h \in ControlPlaneServiceAddress(s)}
           a == AdoptAddress(s, k)
<1>1. s.port = ControlPlaneServicePort(k)
  BY DEF UpToDate, Updated, Services
<1>2. CASE ControlPlaneServiceAddress(s) = {}
  <2>1. a = MarkNotProvisioned(k, "WaitingForEndpointService")
    BY <1>2 DEF AdoptAddress
  <2>2. a.provisioned = "false" /\ a.ready = "WaitingForEndpointService" /\ a.spec = k.spec
    BY <2>1 DEF MarkNotProvisioned, KSCs
  <2> HIDE DEF a
  <2>3. UpToDate(s, a) /\ EndpointMode(a) = "Service"
    BY <2>2, SpecDecides
  <2> QED BY <1>2, <2>2, <2>3 DEF Reports, Says, a
<1>3. CASE ControlPlaneServiceAddress(s) # {}
  <2>1. a = MarkProvisioned([k EXCEPT !.endpoint = E])
    BY <1>3 DEF AdoptAddress
  <2>2. ASSUME NEW e
        PROVE  LET m == MarkProvisioned([k EXCEPT !.endpoint = e])
               IN  /\ m.provisioned = "true" /\ m.ready = "Provisioned"
                   /\ m.spec = k.spec /\ m.endpoint = e
    BY DEF MarkProvisioned, KSCs
  <2>3. /\ a.provisioned = "true" /\ a.ready = "Provisioned"
        /\ a.spec = k.spec /\ a.endpoint = E
    BY <2>1, <2>2
  <2>4. \E e \in E : e.host \in ControlPlaneServiceAddress(s) /\ e.port = s.port
    <3>1. PICK h \in ControlPlaneServiceAddress(s) : TRUE
      BY <1>3
    <3> WITNESS [host |-> h, port |-> ControlPlaneServicePort(k)] \in E
    <3> QED BY <1>1, <3>1
  <2> HIDE DEF a, E
  <2>5. UpToDate(s, a) /\ EndpointMode(a) = "Service"
    BY <2>3, SpecDecides
  <2> QED BY <1>3, <2>3, <2>4, <2>5 DEF Reports, Says, a
<1> QED BY <1>2, <1>3

\* The patch that follows starts with the first write that is due.
LEMMA FirstWriteDue ==
  ASSUME NEW b, NEW a
  PROVE  /\ FirstWrite(b, a) = "conditions" <=> b.ready # a.ready
         /\ FirstWrite(b, a) = "spec" => SpecDiffers(b, a)
         /\ FirstWrite(b, a) = "status" => ~ SpecDiffers(b, a)
BY DEF FirstWrite, AfterConditions

\* A reconcile that starts works on what is cached, which is current unless an
\* event is due.
LEMMA SettleReconcile ==
  ASSUME TypeOK, SettleInv, Reconcile
  PROVE  SettleInv'
<1>1. CASE ReconcileReturns \/ ReconcileErrs
  BY <1>1, SettleReconcileReturns
<1>2. cKsc \in KSCs /\ WithFinalizer \in KSCs
  BY DEF TypeOK, WithFinalizer, KSCs
<1>3. /\ WithFinalizer.finalizer /\ WithFinalizer.spec = cKsc.spec
      /\ EndpointMode(WithFinalizer) = EndpointMode(cKsc)
  BY <1>2 DEF WithFinalizer, KSCs, EndpointMode
<1>4. ASSUME NEW k, NEW next, Begin(k, next)
      PROVE  /\ CacheInv' /\ before' = cKsc /\ after' = k /\ pc' = next
             /\ UNCHANGED <<ksc, svc, cSvc, cCluster, events>>
             /\ ~ Pending' => cKsc = ksc /\ cSvc = svc /\ cCluster = "active"
  <2>1. /\ UNCHANGED <<ksc, svc, cluster, events, caches>>
        /\ cCluster # "absent" /\ cCluster # "paused"
    BY <1>4 DEF Begin, Attended, api, objects
  <2>2. cCluster = "active"
    BY <2>1 DEF TypeOK
  <2> QED BY <1>4, <2>1, <2>2 DEF Begin, SettleInv, CacheInv, Pending, caches
<1>5. CASE ReconcileExternal
  <2> DEFINE a == MarkExternal(WithFinalizer)
  <2>1. /\ Begin(a, FirstWrite(cKsc, a)) /\ cKsc.state = "live"
        /\ EndpointMode(cKsc) # "Service"
    BY <1>5 DEF ReconcileExternal
  <2>2. Reports(a, svc) /\ a.finalizer /\ a.spec = cKsc.spec
    BY <1>2, <1>3, <2>1, ExternalReports
  <2> HIDE DEF a
  <2>3. /\ CacheInv' /\ before' = cKsc /\ after' = a /\ pc' = FirstWrite(cKsc, a)
        /\ UNCHANGED <<ksc, svc, cSvc, cCluster, events>>
        /\ ~ Pending' => cKsc = ksc /\ cSvc = svc /\ cCluster = "active"
    BY <1>4, <2>1
  <2>4. pc' \in {"conditions", "spec", "status"}
    BY <2>3, WriteOrder
  <2>5. LiveInv'
    BY <2>2, <2>3, <2>4, FirstWriteDue DEF LiveInv, InPatch
  <2> QED BY <2>1, <2>3, <2>4, <2>5 DEF SettleInv, RestInv, WorkInv
<1>6. CASE ReconcileService
  <2>1. Begin(WithFinalizer, "service") /\ cKsc.state = "live" /\ EndpointMode(cKsc) = "Service"
    BY <1>6 DEF ReconcileService
  <2>2. /\ CacheInv' /\ before' = cKsc /\ after' = WithFinalizer /\ pc' = "service"
        /\ UNCHANGED <<ksc, svc, cSvc, cCluster, events>>
        /\ ~ Pending' => cKsc = ksc /\ cSvc = svc /\ cCluster = "active"
    BY <1>4, <2>1
  <2>3. LiveInv'
    BY <2>1, <2>2 DEF LiveInv, WithFinalizer
  <2> QED BY <2>1, <2>2, <2>3 DEF SettleInv, RestInv, WorkInv
<1>7. CASE ReconcileDelete
  <2>1. Begin(cKsc, "delete") /\ cKsc.state = "deleting"
    BY <1>7 DEF ReconcileDelete
  <2>2. /\ CacheInv' /\ before' = cKsc /\ after' = cKsc /\ pc' = "delete"
        /\ UNCHANGED <<ksc, svc, cSvc, cCluster, events>>
        /\ ~ Pending' => cKsc = ksc /\ cSvc = svc /\ cCluster = "active"
    BY <1>4, <2>1
  <2> QED BY <2>1, <2>2 DEF SettleInv, RestInv, WorkInv, DeletingInv
<1> QED BY <1>1, <1>5, <1>6, <1>7 DEF Reconcile

\* An update that is due changes the Service, whatever the API server makes of it.
LEMMA UpdateChanges ==
  ASSUME NEW s \in Services, NEW k \in KSCs, Updated(s, k) # s
  PROVE  Stored(s, Updated(s, k)) # s
<1> DEFINE t == Updated(s, k)
           u == Stored(s, t)
<1> SUFFICES ASSUME u = s PROVE FALSE
  OBVIOUS
<1>1. t \in Services
  BY UpdatedType
<1>2. /\ t.id = s.id /\ t.owner = s.owner /\ t.by = s.by /\ t.foreign = s.foreign
      /\ t.ingress = s.ingress /\ t.deleting = s.deleting
      /\ t.ours = TRUE /\ t.nodePort = MergeServicePorts(s)
      /\ t.class = s.class \/ t.type = "LoadBalancer"
  BY DEF Updated, Services
<1> HIDE DEF t
<1>3. /\ u.type = t.type /\ u.port = t.port /\ u.ours = t.ours /\ u.annotation = t.annotation
      /\ t.type = "LoadBalancer" => u.class = t.class
  BY <1>1 DEF Stored, Services
<1> HIDE DEF u
<1>4. t.nodePort = s.nodePort
  BY <1>2, <1>3 DEF MergeServicePorts
<1>5. t = s
  BY <1>1, <1>2, <1>3, <1>4 DEF Services
<1> QED BY <1>5 DEF t

\* The calls on the Service: what they change is noticed.
LEMMA SettleServiceStep ==
  ASSUME TypeOK, FinalizerInv, RetryInv, SettleInv, Watched, Watched',
         \/ UseService \/ CreateService \/ UpdateService \/ WriteServiceRefused
         \/ DeleteControlPlaneService \/ ServiceCallFails
  PROVE  SettleInv'
<1>1. /\ cKsc \in KSCs /\ ksc \in KSCs /\ before \in KSCs /\ after \in KSCs
      /\ svc \in SUBSET Services /\ cSvc \in SUBSET Services
  BY DEF TypeOK
<1>2. /\ UNCHANGED <<ksc, cluster, caches, queued, delayed, before>>
      /\ pc \in {"service", "delete"} /\ pc' = FirstWrite(before, after')
      /\ Watch \/ (svc' = svc /\ events' = events)
  <2>1. CASE CreateService \/ UpdateService
    BY <2>1 DEF CreateService, Create, UpdateService, Update, EndReconcile
  <2>2. CASE DeleteControlPlaneService
    BY <2>2 DEF DeleteControlPlaneService, EndReconcile
  <2>3. CASE UseService \/ WriteServiceRefused \/ ServiceCallFails
    BY <2>3 DEF UseService, WriteServiceRefused, ServiceCallFails, EndReconcile, api, objects
  <2> QED BY <2>1, <2>2, <2>3
<1>3. pc' \in {"conditions", "spec", "status"}
  BY <1>2, WriteOrder
<1>4. /\ events \subseteq events' /\ CacheInv'
      /\ "svc" \notin events' => svc' = svc
  BY <1>2, Notified DEF SettleInv, CacheInv, caches
<1>5. SUFFICES ASSUME ~ requeue', ~ Pending'
               PROVE  /\ before.state = "deleting" => DeletingInv'
                      /\ before.state = "live" => LiveInv'
                      /\ before = ksc /\ cCluster = "active"
  <2>1. RestInv'
    BY <1>3 DEF RestInv
  <2>2. WorkInv'
    BY <1>2, <1>5 DEF WorkInv, caches
  <2> QED BY <1>4, <2>1, <2>2 DEF SettleInv
<1>6. svc' = svc /\ ~ Pending /\ svc = cSvc
  BY <1>2, <1>4, <1>5 DEF Pending, SettleInv, CacheInv
<1>7. /\ ~ requeue /\ before = ksc /\ cCluster = "active"
      /\ before.state = "deleting" => DeletingInv
      /\ before.state = "live" => LiveInv
  BY <1>2, <1>6 DEF SettleInv, WorkInv, RetryInv, InPatch
<1>8. /\ before.state \in {"live", "deleting"}
      /\ before.state = "deleting" <=> pc = "delete"
      /\ before.state = "deleting" => before.finalizer
  BY <1>2 DEF FinalizerInv
<1>9. CASE UseService
  <2>1. PICK s \in cSvc : UpToDate(s, after) /\ after' = AdoptAddress(s, after)
    BY <1>9 DEF UseService, EndReconcile
  <2>2. pc = "service" /\ before.state = "live"
    BY <1>8, <1>9 DEF UseService
  <2>3. /\ after = [before EXCEPT !.finalizer = TRUE] /\ EndpointMode(before) = "Service"
    BY <1>7, <2>2 DEF LiveInv
  <2>4. after.spec = before.spec /\ after.finalizer
    BY <1>1, <2>3 DEF KSCs
  <2>5. EndpointMode(after) = "Service"
    BY <2>3, <2>4, SpecDecides
  <2>6. Reports(after', svc') /\ after'.spec = before.spec /\ after'.finalizer
    BY <1>1, <1>6, <2>1, <2>4, <2>5, ServiceReports, AdoptAddressKeeps
  <2>7. LiveInv'
    BY <1>2, <1>3, <2>6, FirstWriteDue DEF LiveInv, InPatch
  <2> QED BY <1>7, <2>2, <2>7
<1>10. ~ CreateService
  BY <1>6 DEF CreateService, Create
<1>11. ~ UpdateService
  <2> SUFFICES ASSUME NEW s \in cSvc, Update(s) PROVE FALSE
    BY DEF UpdateService
  <2>1. svc' = {Stored(s, Updated(s, after))} /\ Updated(s, after) # s
    BY DEF Update
  <2>2. Stored(s, Updated(s, after)) # s
    BY <1>1, <2>1, UpdateChanges
  <2> QED BY <1>6, <2>1, <2>2
<1>12. ~ WriteServiceRefused /\ ~ ServiceCallFails
  BY <1>5 DEF WriteServiceRefused, ServiceCallFails, EndReconcile
<1>13. CASE DeleteControlPlaneService
  <2>1. pc = "delete" /\ after' = [after EXCEPT !.finalizer = FALSE]
    BY <1>13 DEF DeleteControlPlaneService, EndReconcile
  <2>2. after = before /\ before.finalizer /\ before.state = "deleting"
    BY <1>7, <1>8, <2>1 DEF DeletingInv
  <2>3. ~ after'.finalizer /\ after'.ready = before.ready
    BY <1>1, <2>1, <2>2 DEF KSCs
  <2>4. pc' = "spec"
    BY <1>2, <2>2, <2>3 DEF FirstWrite, AfterConditions, SpecDiffers
  <2> QED BY <1>7, <2>2, <2>3, <2>4 DEF DeletingInv
<1> QED BY <1>9, <1>10, <1>11, <1>12, <1>13

\* What is reported depends on these fields alone.
LEMMA ReportsFields ==
  ASSUME NEW k, NEW a, NEW services, a.spec = k.spec, a.endpoint = k.endpoint,
         a.provisioned = k.provisioned, a.ready = k.ready, Reports(a, services)
  PROVE  Reports(k, services)
<1>1. EndpointMode(a) = EndpointMode(k) /\ \A s : UpToDate(s, a) = UpToDate(s, k)
  BY SpecDecides
<1> QED BY <1>1 DEF Reports, Says

\* A write that is due to an object nobody else has written to changes it.
LEMMA PatchChanges ==
  ASSUME TypeOK, FinalizerInv, SettleInv, Patch, ~ requeue, ~ Pending, ksc' = ksc
  PROVE  pc = "status" /\ before.state = "live" /\ before.provisioned = after.provisioned
<1>1. ksc \in KSCs /\ before \in KSCs /\ after \in KSCs /\ InPatch
  BY DEF TypeOK, Patch
<1>2. /\ before = ksc /\ before.state \in {"live", "deleting"}
      /\ before.state = "deleting" => DeletingInv /\ before.finalizer
      /\ before.state = "live" => LiveInv
  BY <1>1 DEF SettleInv, WorkInv, FinalizerInv, InPatch
<1>3. pc # "conditions"
  <2> SUFFICES ASSUME pc = "conditions" PROVE FALSE
    OBVIOUS
  <2>1. ksc' = [ksc EXCEPT !.ready = after.ready] /\ before.ready # after.ready
    BY <1>2 DEF Patch, Writing, InPatch, Write, LiveInv, DeletingInv
  <2> QED BY <1>1, <1>2, <2>1 DEF KSCs
<1>4. pc # "spec"
  <2> SUFFICES ASSUME pc = "spec" PROVE FALSE
    OBVIOUS
  <2>1. SpecDiffers(before, after)
    BY <1>2 DEF LiveInv, DeletingInv, SpecDiffers
  <2>2. \/ ksc' = AbsentKSC /\ ksc.state = "deleting"
        \/ ksc'.finalizer = Patched("finalizer") /\ ksc'.endpoint = Patched("endpoint")
    BY PatchWrites
  <2> QED BY <1>2, <2>1, <2>2 DEF AbsentKSC, Patched, SpecDiffers
<1>5. pc = "status" /\ before.state = "live"
  BY <1>1, <1>2, <1>3, <1>4 DEF InPatch, DeletingInv
<1>6. before.provisioned = after.provisioned
  <2> SUFFICES ASSUME before.provisioned # after.provisioned PROVE FALSE
    OBVIOUS
  <2>1. ksc' = [ksc EXCEPT !.provisioned = after.provisioned]
    BY <1>5 DEF Patch, Writing, InPatch, Write
  <2> QED BY <1>1, <1>2, <2>1 DEF KSCs
<1> QED BY <1>5, <1>6

\* The deferred patch: what it writes comes back as an event, what fails is tried
\* again, and when nothing was due the object was as it should be.
LEMMA SettlePatch ==
  ASSUME TypeOK, FinalizerInv, SettleInv, Watched, Watched', Patch \/ PatchRefused \/ PatchFails
  PROVE  SettleInv'
<1>1. /\ UNCHANGED <<svc, cluster, caches, queued>> /\ InPatch
      /\ Watch \/ (ksc' = ksc /\ events' = events)
      /\ \E failed : AfterWrite(failed)
  <2>1. CASE Patch
    BY <2>1 DEF Patch
  <2>2. CASE PatchRefused \/ PatchFails
    BY <2>2 DEF PatchRefused, PatchFails, Writing, api, objects
  <2> QED BY <2>1, <2>2
<1>2. /\ events \subseteq events' /\ CacheInv'
      /\ "ksc" \notin events' => ksc' = ksc
  BY <1>1, Notified DEF SettleInv, CacheInv, caches
<1>3. /\ pc = "status" => pc' = "idle" /\ (delayed \/ requeue => delayed')
      /\ pc # "status" => /\ pc' \in {"spec", "status"} /\ before' = before /\ after' = after
                          /\ delayed' = delayed /\ (requeue => requeue')
  BY <1>1, WriteOrder DEF AfterWrite, InPatch
<1>4. SUFFICES ASSUME ~ Pending', pc' # "idle" => ~ requeue'
               PROVE  /\ pc' = "idle" /\ cCluster = "active"
                      /\ ksc.state = "live" /\ ksc.finalizer /\ Reports(ksc, svc)
  BY <1>1, <1>2 DEF SettleInv, RestInv, WorkInv, Pending, caches
<1>5. ksc' = ksc /\ ~ Pending /\ ~ requeue
  BY <1>1, <1>2, <1>3, <1>4 DEF Pending
<1>6. /\ before = ksc /\ cCluster = "active" /\ before.state \in {"live", "deleting"}
      /\ before.state = "live" => LiveInv
  BY <1>1, <1>5 DEF SettleInv, WorkInv, FinalizerInv, InPatch
<1>7. CASE Patch
  <2>1. pc = "status" /\ before.state = "live" /\ before.provisioned = after.provisioned
    BY <1>5, <1>7, PatchChanges
  <2>2. /\ after.finalizer /\ after.spec = before.spec /\ Reports(after, svc)
        /\ before.ready = after.ready /\ ~ SpecDiffers(before, after)
    BY <1>6, <2>1 DEF LiveInv
  <2>3. Reports(before, svc)
    BY <2>1, <2>2, ReportsFields DEF SpecDiffers
  <2> QED BY <1>3, <1>6, <2>1, <2>2, <2>3 DEF SpecDiffers
<1>8. ~ PatchRefused
  <2>1. ASSUME PatchRefused PROVE pc = "conditions" /\ ksc.ready \notin {before.ready, after.ready}
    BY <1>6, <2>1 DEF PatchRefused, Refused
  <2> QED BY <1>6, <2>1
<1>9. ~ PatchFails
  <2>1. ASSUME AfterWrite(TRUE) PROVE FALSE
    BY <1>3, <1>4, <2>1 DEF AfterWrite, Pending
  <2> QED BY <2>1 DEF PatchFails
<1> QED BY <1>7, <1>8, <1>9

\* Every step keeps SettleInv, as long as all is watched.
LEMMA SettleNext ==
  /\ TypeOK /\ FinalizerInv /\ RetryInv /\ SettleInv /\ Watched /\ Watched' /\ [Next]_vars
  => SettleInv'
<1> SUFFICES ASSUME TypeOK, FinalizerInv, RetryInv, SettleInv, Watched, Watched', [Next]_vars
             PROVE  SettleInv'
  OBVIOUS
<1>1. CASE UNCHANGED vars
  BY <1>1, SettleFrame DEF vars, api, objects
<1>2. CASE ReconcileStep
  BY <1>2, SettleServiceStep, SettlePatch DEF ReconcileStep
<1> QED
  BY <1>1, <1>2, SettleReconcile, SettleRuntime, SettleEnvironment DEF Next

-----------------------------------------------------------------------------
(* No lost wake-up                                                         *)

\* As long as the Cluster is not paused and every Service of the name is the
\* provider's own, a KubeSwiftCluster for which nothing is pending is live, holds
\* its finalizer and reports its endpoint as it is: after any number of edits back
\* and forth, Services deleted and made again at the same address, incarnations of
\* the object, failed calls and restarts, and however the caches lag.
THEOREM SettledReportsEndpointAlways ==
  Spec /\ []Watched => []SettledReportsEndpoint
<1>1. SettleInv => SettledReportsEndpoint
  BY DEF SettleInv, RestInv, SettledReportsEndpoint, Settled, Attended, Pending
<1>2. Init => RetryInv
  BY DEF Init, RetryInv
<1>3. TypeInv => TypeOK
  BY DEF TypeInv
<1> QED
  BY <1>1, <1>2, <1>3, TypeInit, TypeNext, FinalizerInit, FinalizerNext, RetryNext,
     SettleInit, SettleNext, PTL
  DEF Spec
=============================================================================
