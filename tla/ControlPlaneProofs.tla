------------------------- MODULE ControlPlaneProofs -------------------------
(***************************************************************************)
(* Proof, for any number of machines, any endpoint block, any bounds, that *)
(* the endpoint Service the one controller mints leads to the guests the   *)
(* other one creates (EndpointServed), while the endpoint block is left as *)
(* it was applied. Nothing is assumed of the instantiated KubeSwiftCluster,*)
(* not even its types: only the fields the two controllers have in common  *)
(* matter.                                                                 *)
(***************************************************************************)
EXTENDS ControlPlane, KubeSwiftMachineProofs

\* What the endpoint block asks for, as the KubeSwiftCluster controller reads it.
ServiceMode == K!EndpointMode(infra) = "Service"
Port == K!ControlPlaneServicePort(infra)

\* k is the KubeSwiftCluster as far as the endpoint block goes.
Agrees(k) == {"state", "spec"} \subseteq DOMAIN k /\ k.state = "live" /\ k.spec = infra.spec

\* The KubeSwiftCluster controller's side: cache and worker hold the endpoint
\* block that was applied, and every Service, stored or cached, has its port.
ServiceInv ==
  /\ Agrees(infra) /\ Agrees(cInfra) /\ (clPc # "idle" => Agrees(clAfter))
  /\ clPc # "delete" /\ (clPc = "service" => ServiceMode)
  /\ \A s \in svc \cup cSvc : "port" \in DOMAIN s /\ s.port = Port
  /\ svc # {} => ServiceMode

\* The machine controller's side: it has read the same block, and a reconcile
\* that may still create a guest, like every guest, exposes its port.
GuestInv ==
  /\ ksc = Read(infra) /\ cKsc = Read(infra)
  /\ ServiceMode /\ pc \in {"seed", "guest"} /\ cur \in ControlPlane =>
       exposure = {[poolLabel |-> "cp", port |-> Port]}
  /\ ServiceMode => \A m \in ControlPlane : \A g \in guest[m].spec :
       g.poolLabel = {"cp"} /\ \E n \in g.network : n.port = Port

EndpointInv == TypeOK /\ ServiceInv /\ GuestInv

-----------------------------------------------------------------------------
(* The two readings of the endpoint block                                  *)

\* The block is all that the two readings depend on.
LEMMA SameReading ==
  ASSUME Agrees(infra), Agrees(infra)', infra'.spec = infra.spec
  PROVE  /\ ServiceMode' = ServiceMode /\ Port' = Port /\ Read(infra)' = Read(infra)
         /\ \A k : Agrees(k) => {"state", "spec"} \subseteq DOMAIN k /\ k.state = "live"
                                /\ k.spec = infra'.spec
BY DEF ServiceMode, Port, Read, Agrees, K!EndpointMode, K!ControlPlaneServicePort

\* The same where the object does not change at all.
LEMMA SameObject ==
  ASSUME infra' = infra
  PROVE  ServiceMode' = ServiceMode /\ Port' = Port /\ Read(infra)' = Read(infra)
BY DEF ServiceMode, Port, Read, K!EndpointMode, K!ControlPlaneServicePort

\* controlPlaneExposure, for a control-plane machine of a cluster in Service mode,
\* exposes the port controlPlaneServicePort gives the Service.
LEMMA SamePort ==
  ASSUME NEW m \in ControlPlane, cKsc = Read(infra), Agrees(infra), ServiceMode
  PROVE  ControlPlaneExposure(m) = {[poolLabel |-> "cp", port |-> Port]}
<1> DEFINE e == [mode |-> K!EndpointMode(infra), port |-> infra.spec.port]
<1>1. cKsc = {e}
  BY DEF Read, Agrees
<1>2. e.mode = "Service" /\ e.port = infra.spec.port
  BY DEF ServiceMode
<1> HIDE DEF e
<1>3. {x \in cKsc : x.mode = "Service"} = {e}
  BY <1>1, <1>2
<1>4. Port = IF e.port = 0 THEN 6443 ELSE e.port
  BY <1>2 DEF Port, K!ControlPlaneServicePort
<1> QED BY <1>3, <1>4 DEF ControlPlaneExposure

-----------------------------------------------------------------------------
(* The KubeSwiftCluster controller's steps                                 *)

\* What becomes of the object in memory keeps the endpoint block.
LEMMA AgreesKept ==
  ASSUME NEW k, Agrees(k)
  PROVE  /\ \A f : Agrees([k EXCEPT !.finalizer = f])
         /\ \A r : Agrees(K!MarkNotProvisioned(k, r))
         /\ Agrees(K!MarkProvisioned(k)) /\ Agrees(K!MarkExternal(k))
         /\ \A s : Agrees(K!AdoptAddress(s, k))
BY DEF Agrees, K!MarkNotProvisioned, K!MarkProvisioned, K!MarkExternal, K!AdoptAddress

\* The Service asked for has the port asked for.
LEMMA PortKept ==
  ASSUME NEW k, Agrees(k)
  PROVE  /\ K!ControlPlaneServicePort(k) = Port
         /\ \A o : LET t == K!NewService(o, k) IN "port" \in DOMAIN t /\ t.port = Port
         /\ \A s : "port" \in DOMAIN s =>
              LET t == K!Stored(s, K!Updated(s, k)) IN "port" \in DOMAIN t /\ t.port = Port
<1>1. K!ControlPlaneServicePort(k) = Port
  BY DEF Agrees, Port, K!ControlPlaneServicePort
<1>2. ASSUME NEW o
      PROVE  "port" \in DOMAIN K!NewService(o, k) /\ K!NewService(o, k).port = Port
  BY <1>1 DEF K!NewService
<1>3. ASSUME NEW s, "port" \in DOMAIN s
      PROVE  /\ "port" \in DOMAIN K!Stored(s, K!Updated(s, k))
             /\ K!Stored(s, K!Updated(s, k)).port = Port
  <2>1. "port" \in DOMAIN K!Updated(s, k) /\ K!Updated(s, k).port = Port
    BY <1>1, <1>3 DEF K!Updated
  <2> QED BY <2>1 DEF K!Stored
<1> QED BY <1>1, <1>2, <1>3

\* ServiceInv reads these variables and no other.
LEMMA ServiceFrame ==
  ASSUME ServiceInv, UNCHANGED <<infra, svc, cInfra, cSvc, clPc, clAfter>>
  PROVE  ServiceInv'
<1>1. ServiceMode' = ServiceMode /\ Port' = Port
  BY SameObject
<1>2. /\ Agrees(infra)' = Agrees(infra) /\ Agrees(cInfra)' = Agrees(cInfra)
      /\ Agrees(clAfter)' = Agrees(clAfter)
  BY DEF Agrees
<1> QED BY <1>1, <1>2 DEF ServiceInv

\* The deferred patch has its own program counters, and the status comes last.
LEMMA ClusterWriteOrder ==
  \A b, a : /\ K!FirstWrite(b, a) \in {"conditions", "spec", "status"}
            /\ K!AfterConditions(b, a) \in {"spec", "status"}
BY DEF K!FirstWrite, K!AfterConditions

\* A reconcile that begins, or one of whose Service calls returned, holds the
\* endpoint block, and asks for a Service only in Service mode.
LEMMA ServiceWorker ==
  ASSUME ServiceInv, UNCHANGED <<infra, svc, cInfra, cSvc>>,
         Agrees(clAfter'), clPc' \in {"service", "conditions", "spec", "status"},
         clPc' = "service" => ServiceMode
  PROVE  ServiceInv'
<1>1. ServiceMode' = ServiceMode /\ Port' = Port
  BY SameObject
<1>2. Agrees(infra)' = Agrees(infra) /\ Agrees(cInfra)' = Agrees(cInfra)
  BY DEF Agrees
<1>3. Agrees(clAfter)'
  BY DEF Agrees
<1> QED BY <1>1, <1>2, <1>3 DEF ServiceInv

\* A reconcile begins.
LEMMA ServiceReconcile ==
  ASSUME ServiceInv, K!Reconcile
  PROVE  ServiceInv' /\ infra' = infra
<1>1. CASE K!ReconcileReturns \/ K!ReconcileErrs
  BY <1>1, ServiceFrame
  DEF K!ReconcileReturns, K!ReconcileErrs, K!api, K!objects, K!caches, K!worker
<1>2. Agrees(cInfra) /\ Agrees(K!WithFinalizer) /\ Agrees(K!MarkExternal(K!WithFinalizer))
  <2>1. Agrees(cInfra)
    BY DEF ServiceInv
  <2>2. Agrees(K!WithFinalizer)
    BY <2>1, AgreesKept DEF K!WithFinalizer
  <2> QED BY <2>1, <2>2, AgreesKept
<1>3. CASE K!ReconcileExternal
  <2>1. /\ UNCHANGED <<infra, svc, cInfra, cSvc>>
        /\ clAfter' = K!MarkExternal(K!WithFinalizer)
        /\ clPc' = K!FirstWrite(cInfra, K!MarkExternal(K!WithFinalizer))
    BY <1>3 DEF K!ReconcileExternal, K!Begin, K!api, K!objects, K!caches
  <2>2. clPc' \in {"conditions", "spec", "status"}
    BY <2>1, ClusterWriteOrder
  <2> QED BY <1>2, <2>1, <2>2, ServiceWorker
<1>4. CASE K!ReconcileService
  <2>1. /\ UNCHANGED <<infra, svc, cInfra, cSvc>>
        /\ clAfter' = K!WithFinalizer /\ clPc' = "service"
        /\ K!EndpointMode(cInfra) = "Service"
    BY <1>4 DEF K!ReconcileService, K!Begin, K!api, K!objects, K!caches
  <2>2. ServiceMode
    BY <1>2, <2>1 DEF ServiceMode, Agrees, K!EndpointMode
  <2> QED BY <1>2, <2>1, <2>2, ServiceWorker
<1>5. ~ K!ReconcileDelete
  BY <1>2 DEF K!ReconcileDelete, Agrees
<1> QED BY <1>1, <1>3, <1>4, <1>5 DEF K!Reconcile

\* A reconcile calls the API server about the Service.
LEMMA ServiceCalls ==
  ASSUME ServiceInv,
         \/ K!UseService \/ K!CreateService \/ K!UpdateService \/ K!WriteServiceRefused
         \/ K!DeleteControlPlaneService \/ K!ServiceCallFails
  PROVE  ServiceInv' /\ infra' = infra
<1>1. clPc = "service" /\ Agrees(clAfter) /\ ServiceMode
  BY DEF ServiceInv, K!UseService, K!CreateService, K!Create, K!UpdateService, K!Update,
         K!WriteServiceRefused, K!DeleteControlPlaneService, K!ServiceCallFails
<1>2. ASSUME NEW k, NEW again, Agrees(k), K!EndReconcile(k, again)
      PROVE  Agrees(clAfter') /\ clPc' \in {"conditions", "spec", "status"}
  BY <1>2, ClusterWriteOrder DEF K!EndReconcile, Agrees
<1>3. \A s : Agrees(K!AdoptAddress(s, clAfter))
  BY <1>1, AgreesKept
<1>4. CASE K!UseService \/ K!WriteServiceRefused \/ K!ServiceCallFails
  <2>1. UNCHANGED <<infra, svc, cInfra, cSvc>>
    BY <1>4
    DEF K!UseService, K!WriteServiceRefused, K!ServiceCallFails, K!api, K!objects, K!caches
  <2>2. Agrees(clAfter') /\ clPc' \in {"conditions", "spec", "status"}
    BY <1>1, <1>2, <1>3, <1>4
       DEF K!UseService, K!WriteServiceRefused, K!ServiceCallFails
  <2> QED BY <2>1, <2>2, ServiceWorker
<1>5. ASSUME NEW t, "port" \in DOMAIN t, t.port = Port, svc' = {t},
             Agrees(clAfter'), clPc' \in {"conditions", "spec", "status"},
             UNCHANGED <<infra, cInfra, cSvc>>
      PROVE  ServiceInv'
  <2>1. ServiceMode' = ServiceMode /\ Port' = Port
    BY <1>5, SameObject
  <2>2. /\ Agrees(infra)' = Agrees(infra) /\ Agrees(cInfra)' = Agrees(cInfra)
        /\ Agrees(clAfter)'
    BY <1>5 DEF Agrees
  <2> QED BY <1>1, <1>5, <2>1, <2>2 DEF ServiceInv
<1>6. CASE K!CreateService
  <2> DEFINE t == K!NewService(clAfter.uid, clAfter)
  <2>1. "port" \in DOMAIN t /\ t.port = Port
    BY <1>1, PortKept
  <2>2. K!Create(t)
    BY <1>6 DEF K!CreateService
  <2> HIDE DEF t
  <2>3. svc' = {t} /\ UNCHANGED <<infra, cInfra, cSvc>>
    BY <2>2 DEF K!Create, K!caches
  <2>4. Agrees(clAfter') /\ clPc' \in {"conditions", "spec", "status"}
    BY <1>2, <1>3, <2>2 DEF K!Create
  <2> QED BY <1>5, <2>1, <2>3, <2>4
<1>7. CASE K!UpdateService
  <2>1. PICK s \in cSvc : K!Update(s)
    BY <1>7 DEF K!UpdateService
  <2> DEFINE t == K!Stored(s, K!Updated(s, clAfter))
  <2>2. "port" \in DOMAIN t /\ t.port = Port
    BY <1>1, PortKept DEF ServiceInv
  <2>3. /\ svc' = {t} /\ UNCHANGED <<infra, cInfra, cSvc>>
        /\ K!EndReconcile(K!AdoptAddress(t, clAfter), FALSE)
    BY <2>1 DEF K!Update, K!caches
  <2> HIDE DEF t
  <2>4. Agrees(clAfter') /\ clPc' \in {"conditions", "spec", "status"}
    BY <1>2, <1>3, <2>3
  <2> QED BY <1>5, <2>2, <2>3, <2>4
<1> QED BY <1>1, <1>4, <1>6, <1>7
        DEF K!DeleteControlPlaneService

\* A write of the deferred patch leaves the endpoint block alone.
LEMMA ServicePatch ==
  ASSUME ServiceInv, K!Patch \/ K!PatchRefused \/ K!PatchFails
  PROVE  ServiceInv' /\ Agrees(infra)' /\ infra'.spec = infra.spec
<1>1. Agrees(infra) /\ Agrees(cInfra)
  BY DEF ServiceInv
<1>2. UNCHANGED <<svc, cInfra, cSvc>>
  BY DEF K!Patch, K!PatchRefused, K!PatchFails, K!api, K!objects, K!caches
<1>3. Agrees(clAfter)
  BY DEF ServiceInv, K!Patch, K!PatchRefused, K!PatchFails, K!Writing, K!InPatch
<1>4. Agrees(K!Write)
  <2>1. Agrees([infra EXCEPT !.ready = clAfter.ready])
    BY <1>1 DEF Agrees
  <2>2. Agrees([infra EXCEPT !.provisioned = clAfter.provisioned])
    BY <1>1 DEF Agrees
  <2>3. Agrees(K!Settle([infra EXCEPT !.finalizer = K!Patched("finalizer"),
                                      !.endpoint = K!Patched("endpoint")]))
    BY <1>1 DEF Agrees, K!Settle
  <2> QED BY <2>1, <2>2, <2>3 DEF K!Write
<1>5. Agrees(infra')
  BY <1>1, <1>4 DEF K!Patch, K!PatchRefused, K!PatchFails, K!api, K!objects
<1>6. /\ clPc' \in {"idle", "spec", "status"}
      /\ clPc' # "idle" => clAfter' = clAfter
  BY ClusterWriteOrder DEF K!Patch, K!PatchRefused, K!PatchFails, K!AfterWrite
<1>7. infra'.spec = infra.spec /\ Agrees(infra)'
  BY <1>5 DEF Agrees
<1>8. ServiceMode' = ServiceMode /\ Port' = Port
  BY <1>1, <1>7, SameReading
<1>9. Agrees(cInfra)' /\ (clPc' # "idle" => Agrees(clAfter)')
  BY <1>1, <1>2, <1>3, <1>6, <1>7 DEF Agrees
<1> QED BY <1>2, <1>6, <1>7, <1>8, <1>9 DEF ServiceInv

\* Informers and timers bring the same objects again.
LEMMA ServiceRuntime ==
  ASSUME ServiceInv, K!SyncKSC \/ K!SyncService \/ K!TimerFires \/ K!Resync
  PROVE  ServiceInv' /\ infra' = infra
<1>1. UNCHANGED <<infra, svc, clPc, clAfter>>
  BY DEF K!SyncKSC, K!SyncService, K!TimerFires, K!Resync, K!api, K!objects, K!worker
<1>2. cInfra' \in {infra, cInfra} /\ cSvc' \in {svc, cSvc}
  BY DEF K!SyncKSC, K!SyncService, K!TimerFires, K!Resync, K!caches
<1>3. ServiceMode' = ServiceMode /\ Port' = Port
  BY <1>1, SameObject
<1>4. Agrees(infra)' = Agrees(infra) /\ Agrees(clAfter)' = Agrees(clAfter)
  BY <1>1 DEF Agrees
<1>5. Agrees(cInfra)'
  BY <1>1, <1>2 DEF ServiceInv, Agrees
<1> QED BY <1>1, <1>2, <1>3, <1>4, <1>5 DEF ServiceInv

-----------------------------------------------------------------------------
(* The machine controller's steps                                          *)

\* The endpoint block being as it was, GuestInv reads these variables only.
LEMMA GuestFrame ==
  ASSUME GuestInv, Agrees(infra), Agrees(infra)', infra'.spec = infra.spec,
         UNCHANGED <<ksc, cKsc, pc, cur, exposure, guest>>
  PROVE  GuestInv'
<1>1. ServiceMode' = ServiceMode /\ Port' = Port /\ Read(infra)' = Read(infra)
  BY SameReading
<1> QED BY <1>1 DEF GuestInv

\* A reconcile that may create a guest has worked out the exposure.
LEMMA GuestReconcile ==
  ASSUME GuestInv, Agrees(infra), infra' = infra, NEW m \in Machines, Reconcile(m)
  PROVE  GuestInv'
<1>1. ServiceMode' = ServiceMode /\ Port' = Port /\ Read(infra)' = Read(infra)
  BY SameObject
<1>2. UNCHANGED <<ksc, cKsc, guest>>
  BY DEF Reconcile, ReconcileReturns, ReconcileErrs, WaitForInfrastructure,
         WaitForBootstrapData, InputsMissing, BackendRejects, BackendReconciles,
         ReconcileDelete, BeginPatch, Begin, api, caches
<1>3. \/ UNCHANGED <<pc, cur, exposure>>
      \/ cur' = m /\ exposure' = ControlPlaneExposure(m)
  BY DEF Reconcile, ReconcileReturns, ReconcileErrs, WaitForInfrastructure,
         WaitForBootstrapData, InputsMissing, BackendRejects, BackendReconciles,
         ReconcileDelete, BeginPatch, Begin, worker
<1>4. ServiceMode /\ m \in ControlPlane =>
        ControlPlaneExposure(m) = {[poolLabel |-> "cp", port |-> Port]}
  BY SamePort DEF GuestInv
<1> QED BY <1>1, <1>2, <1>3, <1>4 DEF GuestInv

\* The guest rendered for the port exposes it.
LEMMA RenderedGuest ==
  ASSUME NEW m, NEW c, NEW x, x = {[poolLabel |-> "cp", port |-> Port]}
  PROVE  LET g == RenderSwiftGuest(m, c, x)
         IN  g.poolLabel = {"cp"} /\ \E n \in g.network : n.port = Port
<1>1. {e.poolLabel : e \in x} = {"cp"}
  OBVIOUS
<1> DEFINE n == [binding |-> "nat", name |-> "apiserver", port |-> Port,
                 targetPort |-> Port]
<1>2. n \in {[binding |-> "nat", name |-> "apiserver",
              port |-> e.port, targetPort |-> e.port] : e \in x}
  OBVIOUS
<1>3. n.port = Port
  OBVIOUS
<1> QED BY <1>1, <1>2, <1>3 DEF RenderSwiftGuest

\* ensureSwiftGuest creates a guest with the exposure the reconcile worked out; no
\* other step changes what a guest exposes, and no step changes the exposure of a
\* reconcile that has yet to create one.
LEMMA GuestReconcileStep ==
  ASSUME TypeOK, GuestInv, infra' = infra, ReconcileStep
  PROVE  GuestInv'
<1>1. ServiceMode' = ServiceMode /\ Port' = Port /\ Read(infra)' = Read(infra)
  BY SameObject
<1>2. UNCHANGED <<ksc, cKsc>>
  BY DEF ReconcileStep, EnsureSeedProfile, FindSwiftGuest, CreateSwiftGuest,
         BackendFails, DeleteSwiftGuest, SwiftGuestGone, DeleteSeedProfile, DeleteFails,
         NodeNotFound, NodeHasID, NodeHasNoID, PatchNode, PatchNodeRefused, NodeFails,
         PatchConditions, PatchSpec, PatchRefused, PatchFails, PatchStatus,
         PatchStatusRefused, PatchStatusFails, CallFails, api, caches
<1>3. pc' \in {"seed", "guest"} => pc \in {"seed", "guest"} /\ UNCHANGED <<cur, exposure>>
  BY WriteOrder
     DEF ReconcileStep, EnsureSeedProfile, FindSwiftGuest, CreateSwiftGuest,
         BackendFails, DeleteSwiftGuest, SwiftGuestGone, DeleteSeedProfile, DeleteFails,
         NodeNotFound, NodeHasID, NodeHasNoID, PatchNode, PatchNodeRefused, NodeFails,
         PatchConditions, PatchSpec, PatchRefused, PatchFails, PatchStatus,
         PatchStatusRefused, PatchStatusFails, CallFails, GoTo, EndReconcile, UseStatus,
         AfterWrite, Finish
<1>4. ASSUME ServiceMode, NEW m \in ControlPlane, NEW g \in guest'[m].spec
      PROVE  g.poolLabel = {"cp"} /\ \E n \in g.network : n.port = Port
  <2>1. m \in Machines /\ cur \in Machines /\ guest[m] \in Guests
    BY MachinesAssumption DEF TypeOK
  <2>2. CASE g \in guest[m].spec
    BY <1>4, <2>2 DEF GuestInv
  <2>3. CASE CreateSwiftGuest
    <3>1. CASE m = cur
      <4>1. guest'[m].spec = {RenderSwiftGuest(cur, c, exposure) : c \in after.backend}
        BY <2>1, <2>3, <3>1 DEF CreateSwiftGuest, TypeOK
      <4>2. PICK c \in after.backend : g = RenderSwiftGuest(cur, c, exposure)
        BY <1>4, <4>1
      <4>3. exposure = {[poolLabel |-> "cp", port |-> Port]}
        BY <1>4, <2>3, <3>1 DEF GuestInv, CreateSwiftGuest
      <4> QED BY <4>2, <4>3, RenderedGuest
    <3>2. CASE m # cur
      <4>1. guest'[m] = guest[m]
        BY <2>1, <2>3, <3>2 DEF CreateSwiftGuest, TypeOK
      <4> QED BY <1>4, <2>2, <4>1
    <3> QED BY <3>1, <3>2
  <2>4. CASE ~ CreateSwiftGuest
    <3>1. CASE DeleteSwiftGuest
      <4>1. guest'[m].spec = guest[m].spec
        BY <2>1, <3>1 DEF DeleteSwiftGuest, TypeOK, Guests
      <4> QED BY <1>4, <2>2, <4>1
    <3>2. CASE ~ DeleteSwiftGuest
      <4>1. guest' = guest
        BY <2>4, <3>2
           DEF ReconcileStep, EnsureSeedProfile, FindSwiftGuest,
               BackendFails, SwiftGuestGone, DeleteSeedProfile, DeleteFails,
               NodeNotFound, NodeHasID, NodeHasNoID, PatchNode, PatchNodeRefused,
               NodeFails, PatchConditions, PatchSpec, PatchRefused, PatchFails,
               PatchStatus, PatchStatusRefused, PatchStatusFails, CallFails, api
      <4> QED BY <1>4, <2>2, <4>1
    <3> QED BY <3>1, <3>2
  <2> QED BY <2>3, <2>4
<1> QED BY <1>1, <1>2, <1>3, <1>4 DEF GuestInv

-----------------------------------------------------------------------------
(* The composition                                                         *)

\* The objects as they are applied, before either controller has run.
LEMMA EndpointInit == SystemInit => EndpointInv
<1> SUFFICES ASSUME SystemInit PROVE EndpointInv
  OBVIOUS
<1>1. PICK spec \in Specs :
        infra = [K!AbsentKSC EXCEPT
                   !.state = "live", !.uid = 1, !.owned = TRUE, !.spec = spec,
                   !.endpoint = IF spec.mode = "Service" THEN {} ELSE {K!OperatorEndpoint}]
  BY DEF SystemInit
<1>2. {"state", "spec"} \subseteq DOMAIN infra /\ infra.state = "live" /\ infra.spec = spec
  BY <1>1 DEF K!AbsentKSC
<1>3. ServiceInv
  BY <1>2 DEF SystemInit, ServiceInv, Agrees
<1>4. GuestInv
  <2>1. ksc = Read(infra) /\ cKsc = Read(infra) /\ pc = "idle"
    BY DEF SystemInit
  <2>2. \A m \in Machines : guest[m].spec = {}
    BY DEF SystemInit, AbsentGuest
  <2> QED BY <2>1, <2>2, MachinesAssumption DEF GuestInv
<1>5. Read(infra) \in KSCs
  <2> DEFINE e == [mode |-> IF spec.mode = "" THEN "External" ELSE spec.mode,
                   port |-> spec.port]
  <2>1. Read(infra) = {e}
    BY <1>2 DEF Read, K!EndpointMode
  <2>2. e \in Endpoints
    BY EndpointsAssumption
  <2> HIDE DEF e
  <2> QED BY <2>1, <2>2 DEF KSCs
<1>6. ksm \in [Machines -> KSMs]
  <2>1. PICK b \in Backends : ksm = [m \in Machines |-> Applied(m, b)]
    BY DEF SystemInit
  <2>2. \A m \in Machines : Applied(m, b) \in KSMs
    BY <2>1 DEF Applied, AbsentKSM, KSMs, NoID, Reasons
  <2> QED BY <2>1, <2>2
<1>7. guest \in [Machines -> Guests]
  BY DEF SystemInit, AbsentGuest, Guests
<1>8. used \in [Kinds -> Nat]
  BY DEF SystemInit
<1>9. TypeOK
  BY <1>5, <1>6, <1>7, <1>8, AbsentType, NoExposure
     DEF SystemInit, TypeOK, PCs, MachineStates, Clusters
<1> QED BY <1>3, <1>4, <1>9 DEF EndpointInv

\* A step of either controller, of an informer or of the environment.
LEMMA EndpointNext == EndpointInv /\ [SystemNext]_systemVars => EndpointInv'
<1> SUFFICES ASSUME EndpointInv, [SystemNext]_systemVars PROVE EndpointInv'
  OBVIOUS
<1> USE DEF EndpointInv
<1>1. Agrees(infra)
  BY DEF ServiceInv
<1>2. ASSUME UNCHANGED clusterSide
      PROVE  ServiceInv' /\ infra' = infra /\ Agrees(infra)' /\ infra'.spec = infra.spec
  <2>1. ServiceInv' /\ infra' = infra
    BY <1>2, ServiceFrame DEF clusterSide
  <2> QED BY <2>1 DEF ServiceInv
<1>3. ASSUME UNCHANGED vars, ServiceInv', infra'.spec = infra.spec
      PROVE  EndpointInv'
  <2>1. TypeOK'
    BY <1>3, TypeNext
  <2>2. GuestInv'
    BY <1>1, <1>3, GuestFrame DEF ServiceInv, vars, api, caches, worker
  <2> QED BY <1>3, <2>1, <2>2
<1>4. ASSUME NEW m \in Machines, MachineReconcile(m)
      PROVE  EndpointInv'
  <2>1. TypeOK'
    BY <1>4, TypeNext DEF MachineReconcile, Next
  <2> QED BY <1>1, <1>2, <1>4, <2>1, GuestReconcile DEF MachineReconcile
<1>5. CASE MachineReconcileStep
  <2>1. TypeOK'
    BY <1>5, TypeNext DEF MachineReconcileStep, Next
  <2> QED BY <1>2, <1>5, <2>1, GuestReconcileStep DEF MachineReconcileStep
<1>6. ASSUME NEW m \in Machines,
             MachineSyncs(m) \/ OwnerSyncs(m) \/ SecretSyncs(m) \/ MachineWakes(m)
      PROVE  EndpointInv'
  <2>1. TypeOK'
    BY <1>6, TypeNext
       DEF MachineSyncs, OwnerSyncs, SecretSyncs, MachineWakes, Next, Runtime
  <2>2. UNCHANGED <<ksc, cKsc, pc, cur, exposure, guest>> /\ UNCHANGED clusterSide
    BY <1>6 DEF MachineSyncs, OwnerSyncs, SecretSyncs, MachineWakes, SyncKSM, SyncMachine,
                SyncSecret, DeliverGuestEvent, TimerFires, api, caches, worker
  <2> QED BY <1>1, <1>2, <2>1, <2>2, GuestFrame
<1>7. ASSUME NEW m \in Machines, BootstrapMachine(m)
      PROVE  EndpointInv'
  <2>1. TypeOK'
    BY <1>7, TypeNext DEF BootstrapMachine, Next, Environment
  <2>2. UNCHANGED <<ksc, cKsc, pc, cur, exposure, guest>> /\ UNCHANGED clusterSide
    BY <1>7 DEF BootstrapMachine, PublishBootstrap, caches, worker
  <2> QED BY <1>1, <1>2, <2>1, <2>2, GuestFrame
<1>8. ASSUME NEW m \in Machines, GuestReports(m)
      PROVE  EndpointInv'
  <2>1. TypeOK'
    BY <1>8, TypeNext DEF GuestReports, Next, Environment
  <2>2. UNCHANGED <<ksc, cKsc, pc, cur, exposure>> /\ UNCHANGED clusterSide
    BY <1>8 DEF GuestReports, ReportStatus, caches, worker
  <2>3. \A n \in Machines : guest'[n].spec = guest[n].spec
    BY <1>8 DEF GuestReports, ReportStatus, TypeOK, Guests
  <2>4. GuestInv'
    BY <1>2, <2>2, <2>3, MachinesAssumption, SameObject DEF GuestInv
  <2> QED BY <1>2, <2>1, <2>2, <2>4
<1>9. CASE ClusterReconcile
  BY <1>3, <1>9, ServiceReconcile DEF ClusterReconcile
<1>10. CASE ClusterReconcileStep
  BY <1>3, <1>10, ServiceCalls, ServicePatch DEF ClusterReconcileStep, K!ReconcileStep
<1>11. CASE ServiceSyncs \/ ClusterWakes
  BY <1>3, <1>11, ServiceRuntime DEF ServiceSyncs, ClusterWakes
<1>12. CASE SyncSharedKSC
  <2>1. ServiceInv' /\ infra' = infra
    BY <1>12, ServiceRuntime DEF SyncSharedKSC
  <2>2. cKsc' = cKsc /\ UNCHANGED vars
    BY <1>12 DEF SyncSharedKSC, GuestInv, vars, caches
  <2> QED BY <1>3, <2>1, <2>2
<1>13. CASE SyncSharedCluster
  <2>1. TypeOK'
    BY <1>13, TypeNext DEF SyncSharedCluster, Next, Runtime
  <2>2. UNCHANGED <<ksc, cKsc, pc, cur, exposure, guest>> /\ UNCHANGED clusterSide
    BY <1>13 DEF SyncSharedCluster, SyncCluster, api, worker
  <2> QED BY <1>1, <1>2, <2>1, <2>2, GuestFrame
<1>14. CASE ResyncManager
  <2>1. ServiceInv' /\ infra' = infra
    BY <1>14, ServiceRuntime DEF ResyncManager
  <2>2. /\ UNCHANGED <<api, caches, delayed, guestEvents, worker, used>>
        /\ queue' \in SUBSET Machines
    BY <1>14 DEF ResyncManager
  <2>3. TypeOK'
    BY <2>2 DEF TypeOK, api, caches, worker
  <2>4. GuestInv'
    BY <1>1, <2>1, <2>2, GuestFrame DEF ServiceInv, api, caches, worker
  <2> QED BY <2>1, <2>3, <2>4
<1>15. CASE InfrastructureProvisioned
  <2>1. TypeOK'
    BY <1>15, TypeNext DEF InfrastructureProvisioned, Next, Environment
  <2>2. ClusterChanges /\ ~ cluster.infra /\ cluster'.infra /\ UNCHANGED clusterSide
    BY <1>15 DEF InfrastructureProvisioned
  <2>3. ksc' = ksc
    BY <2>2 DEF ClusterChanges
  <2>4. UNCHANGED <<cKsc, pc, cur, exposure, guest>>
    BY <2>2 DEF ClusterChanges, caches, worker
  <2> QED BY <1>1, <1>2, <2>1, <2>2, <2>3, <2>4, GuestFrame
<1>16. CASE UNCHANGED systemVars
  BY <1>2, <1>3, <1>16 DEF systemVars
<1> QED BY <1>4, <1>5, <1>6, <1>7, <1>8, <1>9, <1>10, <1>11, <1>12, <1>13, <1>14, <1>15,
           <1>16 DEF SystemNext

\* The endpoint Service leads to every control-plane guest: the two controllers,
\* reconciling from their own stale caches in any order, work out one mode and
\* one port from the endpoint block.
THEOREM EndpointServedAlways == SystemSpec => []EndpointServed
<1>1. EndpointInv => EndpointServed
  <2> SUFFICES ASSUME EndpointInv, NEW m \in ControlPlane, NEW s \in svc,
                      NEW g \in guest[m].spec
               PROVE  Fronts(s, g)
    BY DEF EndpointServed, InStep
  <2>1. ServiceMode /\ s.port = Port
    BY DEF EndpointInv, ServiceInv
  <2> QED BY <2>1 DEF EndpointInv, GuestInv, Fronts
<1> QED BY EndpointInit, EndpointNext, <1>1, PTL DEF SystemSpec

-----------------------------------------------------------------------------
(* The machine controller's theorems in the composition                    *)

\* A step of the composition is, for the machine controller, a step of its own
\* module, or the resync, which only fills its queue.
LEMMA MachineSide ==
  ASSUME EndpointInv, [SystemNext]_systemVars
  PROVE  [Next]_vars \/ UNCHANGED <<api, caches, delayed, guestEvents, worker, used>>
<1>1. ASSUME NEW m \in Machines,
             \/ MachineReconcile(m) \/ MachineSyncs(m) \/ OwnerSyncs(m) \/ SecretSyncs(m)
             \/ MachineWakes(m) \/ BootstrapMachine(m) \/ GuestReports(m)
      PROVE  Next
  BY <1>1
     DEF MachineReconcile, MachineSyncs, OwnerSyncs, SecretSyncs, MachineWakes,
         BootstrapMachine, GuestReports, Next, Runtime, Environment
<1>2. CASE MachineReconcileStep \/ SyncSharedCluster \/ InfrastructureProvisioned
  BY <1>2 DEF MachineReconcileStep, SyncSharedCluster, InfrastructureProvisioned, Next,
              Runtime, Environment
<1>3. CASE ClusterReconcile \/ ClusterReconcileStep \/ ServiceSyncs \/ ClusterWakes
  BY <1>3 DEF ClusterReconcile, ClusterReconcileStep, ServiceSyncs, ClusterWakes
<1>4. CASE SyncSharedKSC
  BY <1>4 DEF SyncSharedKSC, EndpointInv, GuestInv, vars, caches
<1>5. CASE ResyncManager
  BY <1>5 DEF ResyncManager
<1>6. CASE UNCHANGED systemVars
  BY <1>6 DEF systemVars
<1> QED BY <1>1, <1>2, <1>3, <1>4, <1>5, <1>6 DEF SystemNext

\* What the machine controller's proofs need of a step, they have here too.
LEMMA MachineInvNext ==
  EndpointInv /\ SeedInv /\ BootstrapInv /\ [SystemNext]_systemVars
    => SeedInv' /\ BootstrapInv'
<1> SUFFICES ASSUME EndpointInv, SeedInv, BootstrapInv, [SystemNext]_systemVars
             PROVE  SeedInv' /\ BootstrapInv'
  OBVIOUS
<1>1. CASE [Next]_vars
  BY <1>1, SeedNext, BootstrapNext DEF EndpointInv
<1>2. CASE UNCHANGED <<api, caches, delayed, guestEvents, worker, used>>
  BY <1>2 DEF SeedInv, SeedOutlivesGuest, BootstrapInv, GuestHasBootstrapData, api, caches,
              worker
<1> QED BY <1>1, <1>2, MachineSide

\* The objects as they are applied: no guest, and no data yet.
LEMMA MachineInvInit == SystemInit => SeedInv /\ BootstrapInv
<1> SUFFICES ASSUME SystemInit PROVE SeedInv /\ BootstrapInv
  OBVIOUS
<1>1. /\ \A m \in Machines : guest[m].state = "absent" /\ machine[m] = "noData"
      /\ cMachine = machine /\ cCluster = cluster /\ pc = "idle"
  BY DEF SystemInit, AbsentGuest
<1> QED
  BY <1>1 DEF SeedInv, SeedOutlivesGuest, BootstrapInv, GuestHasBootstrapData

\* With both controllers running, no guest exists before its bootstrap data and the
\* infrastructure, and none without its seed profile.
THEOREM MachineSafetyInSystem == SystemSpec => [](GuestHasBootstrapData /\ SeedOutlivesGuest)
<1>1. SeedInv /\ BootstrapInv => GuestHasBootstrapData /\ SeedOutlivesGuest
  BY DEF SeedInv, BootstrapInv
<1> QED
  BY <1>1, EndpointInit, EndpointNext, MachineInvInit, MachineInvNext, PTL DEF SystemSpec
=============================================================================
