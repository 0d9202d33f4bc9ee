----------------------- MODULE KubeSwiftClusterProofs -----------------------
(***************************************************************************)
(* Theorems about KubeSwiftCluster, for any endpoint configurations, any   *)
(* pool of addresses and any bounds.                                       *)
(***************************************************************************)
EXTENDS KubeSwiftCluster, TLAPS

-----------------------------------------------------------------------------
(* The operators keep objects well formed                                  *)

\* The placeholder object is a KubeSwiftCluster.
LEMMA AbsentType == AbsentKSC \in KSCs
BY ClusterLimitAssumption DEF AbsentKSC, KSCs, UIDs, Reasons, Kinds

\* Every address given out is one of the pool.
LEMMA NextIDType ==
  ASSUME NEW i \in ServiceIDs
  PROVE  NextID(i) \in ServiceIDs
BY PoolAssumption DEF NextID, ServiceIDs

\* A KubeSwiftCluster's endpoint block is one of the configurations, or not set.
LEMMA SpecIsSet ==
  ASSUME NEW k \in KSCs
  PROVE  k.spec \in Specs \/ k.spec = Unset
BY DEF KSCs

\* The type asked for, ClusterIP by default.
LEMMA TypeAsked ==
  ASSUME NEW k \in KSCs
  PROVE  ControlPlaneServiceType(k) \in {"ClusterIP", "LoadBalancer"}
<1>1. k.spec.type \in {"", "ClusterIP", "LoadBalancer"}
  <2>1. Unset.type = ""
    BY DEF Unset
  <2> QED BY <2>1, SpecIsSet, SpecsAssumption
<1> QED BY <1>1 DEF ControlPlaneServiceType

\* The port asked for, 6443 by default.
LEMMA PortAsked ==
  ASSUME NEW k \in KSCs
  PROVE  ControlPlaneServicePort(k) \in Nat
<1>1. k.spec.port \in Nat
  <2>1. Unset.port \in Nat
    BY DEF Unset
  <2>2. \A e \in Specs : e.port \in Nat
    BY SpecsAssumption
  <2> QED BY <2>1, <2>2, SpecIsSet, Zenon
<1> QED BY <1>1 DEF ControlPlaneServicePort

\* The class and the annotation asked for.
LEMMA ClassAsked ==
  ASSUME NEW k \in KSCs
  PROVE  k.spec.class \in Classes /\ k.spec.annotation \in Annotations
<1>1. Unset.class = "" /\ Unset.annotation = ""
  BY DEF Unset
<1> QED BY <1>1, SpecIsSet, Zenon DEF Classes, Annotations

\* A Service with other fields is a Service.
LEMMA ServiceWith ==
  ASSUME NEW s \in Services, NEW type \in {"ClusterIP", "LoadBalancer"}, NEW port \in Nat,
         NEW nodePort \in 0..2, NEW class \in Classes, NEW annotation \in Annotations
  PROVE  [s EXCEPT !.type = type, !.port = port, !.ours = TRUE, !.nodePort = nodePort,
                   !.class = class, !.annotation = annotation] \in Services
BY DEF Services

\* With a node port.
LEMMA ServiceAllocated ==
  ASSUME NEW t \in Services, NEW nodePort \in 0..2
  PROVE  [t EXCEPT !.nodePort = nodePort] \in Services
BY DEF Services

\* Without what only a LoadBalancer has.
LEMMA ServiceCleared ==
  ASSUME NEW t \in Services, NEW none \in Classes, NEW nodePort \in 0..2
  PROVE  [t EXCEPT !.nodePort = nodePort, !.class = none, !.ingress = FALSE] \in Services
BY DEF Services

\* A terminating Service is one.
LEMMA ServiceDeleted ==
  ASSUME NEW s \in Services
  PROVE  Terminating(s) \in Services
BY DEF Terminating, Services

\* ensureControlPlaneService makes a Service of the Service it found.
LEMMA UpdatedType ==
  ASSUME NEW s \in Services, NEW k \in KSCs
  PROVE  Updated(s, k) \in Services
<1>1. MergeServicePorts(s) \in 0..2
  BY DEF MergeServicePorts, Services
<1>2. (IF ControlPlaneServiceType(k) = "LoadBalancer" THEN k.spec.class ELSE s.class)
        \in Classes
  BY ClassAsked DEF Services
<1>3. (IF k.spec.annotation = "" THEN s.annotation ELSE k.spec.annotation) \in Annotations
  BY ClassAsked DEF Services
<1> QED BY <1>1, <1>2, <1>3, TypeAsked, PortAsked, ServiceWith DEF Updated

\* The API server stores a Service.
LEMMA StoredType ==
  ASSUME NEW s \in Services, NEW t \in Services
  PROVE  Stored(s, t) \in Services
<1>1. "" \in Classes
  BY Zenon DEF Classes
<1>2. (IF t.nodePort = 0 THEN (s.nodePort % 2) + 1 ELSE t.nodePort) \in 0..2 /\ 0 \in 0..2
  BY DEF Services
<1> QED BY <1>1, <1>2, ServiceAllocated, ServiceCleared DEF Stored

\* buildControlPlaneService makes a Service.
LEMMA NewServiceType ==
  ASSUME NEW k \in KSCs, ids \in ServiceIDs
  PROVE  NewService(k.uid, k) \in Services
<1> DEFINE lb == ControlPlaneServiceType(k) = "LoadBalancer"
           nodePort == IF lb THEN 1 ELSE 0
           class == IF lb THEN k.spec.class ELSE ""
<1>1. k.uid \in UIDs
  BY DEF KSCs
<1>2. class \in Classes
  <2>1. "" \in Classes
    BY Zenon DEF Classes
  <2> QED BY <2>1, ClassAsked
<1>3. nodePort \in 0..2
  OBVIOUS
<1>4. /\ NextID(ids) \in ServiceIDs /\ ControlPlaneServiceType(k) \in {"ClusterIP", "LoadBalancer"}
      /\ ControlPlaneServicePort(k) \in Nat /\ k.spec.annotation \in Annotations
  BY NextIDType, TypeAsked, PortAsked, ClassAsked
<1>5. NewService(k.uid, k) =
        [id |-> NextID(ids), owner |-> k.uid, by |-> k.uid,
         type |-> ControlPlaneServiceType(k), port |-> ControlPlaneServicePort(k),
         ours |-> TRUE, nodePort |-> nodePort, class |-> class,
         annotation |-> k.spec.annotation,
         foreign |-> FALSE, ingress |-> FALSE, deleting |-> FALSE]
  BY DEF NewService
<1> HIDE DEF lb, nodePort, class
<1> QED BY <1>1, <1>2, <1>3, <1>4, <1>5 DEF Services

\* A Service's address is an address.
LEMMA AddressType ==
  ASSUME NEW s \in Services
  PROVE  ControlPlaneServiceAddress(s) \in SUBSET Hosts
BY DEF ControlPlaneServiceAddress, Hosts, Services

\* The tail of reconcileServiceEndpoint changes the endpoint, and what is reported
\* of it.
LEMMA AdoptAddressType ==
  ASSUME NEW s \in Services, NEW k \in KSCs
  PROVE  AdoptAddress(s, k) \in KSCs
<1> DEFINE E == {[host |-> h, port |-> ControlPlaneServicePort(k)] :
                   h \in ControlPlaneServiceAddress(s)}
<1>1. E \in SUBSET APIEndpoints
  BY AddressType, PortAsked DEF APIEndpoints
<1>2. [k EXCEPT !.endpoint = E] \in KSCs
  BY <1>1 DEF KSCs
<1> HIDE DEF E
<1>3. MarkProvisioned([k EXCEPT !.endpoint = E]) \in KSCs
  BY <1>2 DEF MarkProvisioned, KSCs, Reasons
<1>4. MarkNotProvisioned(k, "WaitingForEndpointService") \in KSCs
  BY DEF MarkNotProvisioned, KSCs, Reasons
<1> QED BY <1>3, <1>4 DEF AdoptAddress, E

\* So does the reconcile of an External endpoint.
LEMMA MarkExternalType ==
  ASSUME NEW k \in KSCs
  PROVE  MarkExternal(k) \in KSCs
BY DEF MarkExternal, MarkNotProvisioned, MarkProvisioned, KSCs, Reasons

\* The API server's cleanup of a deleting object.
LEMMA SettleType ==
  ASSUME NEW k \in KSCs
  PROVE  Settle(k) \in KSCs
BY AbsentType DEF Settle

\* Every write of the deferred patch leaves a KubeSwiftCluster.
LEMMA WriteType ==
  ASSUME TypeOK, InPatch
  PROVE  Write \in KSCs
<1>1. ksc \in KSCs /\ before \in KSCs /\ after \in KSCs
  BY DEF TypeOK
<1>2. CASE pc = "conditions"
  BY <1>1, <1>2 DEF Write, KSCs
<1>3. CASE pc = "spec"
  <2>1. Patched("finalizer") \in BOOLEAN /\ Patched("endpoint") \in SUBSET APIEndpoints
    BY <1>1 DEF Patched, KSCs
  <2>2. [ksc EXCEPT !.finalizer = Patched("finalizer"), !.endpoint = Patched("endpoint")]
          \in KSCs
    BY <1>1, <2>1 DEF KSCs
  <2> QED BY <1>3, <2>2, SettleType DEF Write
<1>4. CASE pc = "status"
  BY <1>1, <1>4 DEF Write, KSCs
<1> QED BY <1>2, <1>3, <1>4 DEF InPatch

\* The write a patch begins with, and the one that follows the first.
LEMMA WriteOrder ==
  \A b, a : /\ FirstWrite(b, a) \in {"conditions", "spec", "status"}
            /\ AfterConditions(b, a) \in {"spec", "status"}
BY DEF FirstWrite, AfterConditions

-----------------------------------------------------------------------------
(* Type correctness                                                        *)

\* An incarnation is counted when it is created, so that uids stay in bounds.
TypeInv == TypeOK /\ uids = used["create"] /\ uids <= Limit["create"]

\* Initially nothing is there.
LEMMA TypeInit == Init => TypeInv
<1> SUFFICES ASSUME Init PROVE TypeInv
  OBVIOUS
<1>1. uids = 0 /\ used["create"] = 0 /\ used \in [Kinds -> Nat]
  BY DEF Init, Kinds
<1>2. 0 \in UIDs /\ 0 \in ServiceIDs /\ 0 <= Limit["create"]
  BY ClusterLimitAssumption, PoolAssumption DEF UIDs, ServiceIDs, Kinds
<1> QED BY <1>1, <1>2, AbsentType DEF Init, TypeInv, TypeOK

\* What a step notifies of.
LEMMA WatchType ==
  ASSUME events \subseteq {"ksc", "svc", "owned"}, Watch
  PROVE  events' \subseteq {"ksc", "svc", "owned"}
BY DEF Watch

\* Spending another kind of event leaves the incarnations as they are.
LEMMA SpendType ==
  ASSUME TypeInv, NEW kind \in Kinds \ {"create"}, Spend(kind)
  PROVE  used' \in [Kinds -> Nat] /\ used'["create"] = used["create"]
BY DEF Spend, TypeInv, TypeOK, Kinds

\* The worker's part of the state.
LEMMA TypeReconcile == ASSUME TypeInv, Reconcile PROVE TypeInv'
<1>1. cKsc \in KSCs /\ WithFinalizer \in KSCs
  BY DEF TypeInv, TypeOK, WithFinalizer, KSCs
<1>2. ASSUME NEW k \in KSCs, NEW next \in {"service", "delete", "conditions", "spec", "status"},
             Begin(k, next)
      PROVE  TypeInv'
  BY <1>1, <1>2 DEF Begin, Take, TypeInv, TypeOK, api, objects, caches
<1>3. CASE ReconcileReturns \/ ReconcileErrs
  BY <1>3 DEF ReconcileReturns, ReconcileErrs, Take, TypeInv, TypeOK, api, objects, caches, worker
<1>4. CASE ReconcileExternal
  BY <1>1, <1>2, <1>4, MarkExternalType, WriteOrder DEF ReconcileExternal
<1>5. CASE ReconcileService \/ ReconcileDelete
  BY <1>1, <1>2, <1>5 DEF ReconcileService, ReconcileDelete
<1> QED BY <1>3, <1>4, <1>5 DEF Reconcile

\* The calls on the Service and the writes of the patch.
LEMMA TypeReconcileStep == ASSUME TypeInv, ReconcileStep PROVE TypeInv'
<1> USE DEF TypeInv, TypeOK
<1>1. ASSUME NEW k \in KSCs, NEW again \in BOOLEAN, EndReconcile(k, again)
      PROVE  /\ after' \in KSCs /\ before' \in KSCs /\ requeue' \in BOOLEAN
             /\ pc' \in {"conditions", "spec", "status"}
  BY <1>1, WriteOrder DEF EndReconcile
<1>2. ASSUME NEW s \in Services PROVE AdoptAddress(s, after) \in KSCs
  BY <1>2, AdoptAddressType
<1>3. CASE UseService
  <2>1. PICK s \in cSvc : EndReconcile(AdoptAddress(s, after), FALSE)
    BY <1>3 DEF UseService
  <2>2. s \in Services
    BY <2>1
  <2> QED BY <1>1, <1>2, <1>3, <2>1, <2>2 DEF UseService, api, objects, caches
<1>4. CASE CreateService
  <2> DEFINE s == NewService(after.uid, after)
  <2>1. s \in Services
    BY NewServiceType
  <2>2. /\ svc' = {s} /\ ids' = s.id /\ EndReconcile(AdoptAddress(s, after), FALSE)
        /\ UNCHANGED <<ksc, cluster, uids, caches, queued, delayed, used>> /\ Watch
    BY <1>4 DEF CreateService, Create
  <2>3. s.id \in ServiceIDs
    BY <2>1 DEF Services
  <2> HIDE DEF s
  <2> QED BY <1>1, <1>2, <2>1, <2>2, <2>3, WatchType DEF caches
<1>5. CASE UpdateService
  <2>1. PICK s \in cSvc : Update(s)
    BY <1>5 DEF UpdateService
  <2> DEFINE t == Stored(s, Updated(s, after))
  <2>2. t \in Services
    BY <2>1, UpdatedType, StoredType
  <2>3. /\ svc' = {t} /\ EndReconcile(AdoptAddress(t, after), FALSE)
        /\ UNCHANGED <<ksc, cluster, uids, ids, caches, queued, delayed, used>> /\ Watch
    BY <2>1 DEF Update
  <2> HIDE DEF t
  <2> QED BY <1>1, <1>2, <2>2, <2>3, WatchType DEF caches
<1>6. CASE WriteServiceRefused
  BY <1>1, <1>6 DEF WriteServiceRefused, api, objects, caches
<1>7. CASE DeleteControlPlaneService
  <2>1. [after EXCEPT !.finalizer = FALSE] \in KSCs
    BY DEF KSCs
  <2>2. svc' \in SUBSET Services
    BY <1>7, ServiceDeleted DEF DeleteControlPlaneService
  <2> QED BY <1>1, <1>7, <2>1, <2>2, WatchType DEF DeleteControlPlaneService, caches
<1>8. CASE ServiceCallFails
  <2>1. used' \in [Kinds -> Nat] /\ used'["create"] = used["create"]
    BY <1>8, SpendType DEF ServiceCallFails, Kinds
  <2> QED BY <1>1, <1>8, <2>1 DEF ServiceCallFails, api, objects, caches
<1>9. ASSUME NEW failed \in BOOLEAN, InPatch, AfterWrite(failed)
      PROVE  /\ after' \in KSCs /\ before' \in KSCs /\ requeue' \in BOOLEAN
             /\ delayed' \in BOOLEAN /\ pc' \in {"idle", "spec", "status"}
  BY <1>9, AbsentType, WriteOrder DEF AfterWrite, InPatch
<1>10. CASE Patch
  <2>1. ksc' \in KSCs
    BY <1>10, WriteType DEF Patch
  <2> QED BY <1>9, <1>10, <2>1, WatchType DEF Patch, caches
<1>11. CASE PatchRefused
  <2>1. (after.state # "deleting" \/ after.finalizer) \in BOOLEAN
    OBVIOUS
  <2> QED BY <1>9, <1>11, <2>1 DEF PatchRefused, Writing, api, objects, caches
<1>12. CASE PatchFails
  <2>1. used' \in [Kinds -> Nat] /\ used'["create"] = used["create"]
    BY <1>12, SpendType DEF PatchFails, Kinds
  <2> QED BY <1>9, <1>12, <2>1 DEF PatchFails, Writing, api, objects, caches
<1> QED
  BY <1>3, <1>4, <1>5, <1>6, <1>7, <1>8, <1>10, <1>11, <1>12 DEF ReconcileStep

\* Informers, timers and restarts.
LEMMA TypeRuntime == ASSUME TypeInv, Runtime PROVE TypeInv'
<1> USE DEF TypeInv, TypeOK
<1>1. CASE SyncKSC \/ SyncService \/ SyncCluster \/ TimerFires
  BY <1>1 DEF SyncKSC, SyncService, SyncCluster, TimerFires, api, objects, caches, worker
<1>2. CASE Crash
  <2>1. used' \in [Kinds -> Nat] /\ used'["create"] = used["create"]
    BY <1>2, SpendType DEF Crash, Kinds
  <2> QED BY <1>2, <2>1, AbsentType DEF Crash, api, objects
<1> QED BY <1>1, <1>2 DEF Runtime

\* A KubeSwiftCluster with other fields is one.
LEMMA ObjectWith ==
  ASSUME NEW k \in KSCs
  PROVE  /\ [k EXCEPT !.owned = TRUE] \in KSCs
         /\ [k EXCEPT !.state = "deleting"] \in KSCs
         /\ \A e \in SUBSET APIEndpoints : [k EXCEPT !.endpoint = e] \in KSCs
         /\ \A spec \in Specs, e \in SUBSET APIEndpoints :
              [k EXCEPT !.spec = spec, !.endpoint = e] \in KSCs
         /\ \A u \in UIDs, spec \in Specs, x \in BOOLEAN :
              [k EXCEPT !.state = "live", !.uid = u, !.spec = spec, !.external = x] \in KSCs
BY DEF KSCs

\* The endpoint an operator writes down is one.
LEMMA OperatorEndpointType == {OperatorEndpoint} \in SUBSET APIEndpoints
BY DEF OperatorEndpoint, APIEndpoints, Hosts

\* A foreign Service is one.
LEMMA ForeignServiceType ==
  ASSUME NEW id \in ServiceIDs, NEW u \in UIDs, NEW type \in {"ClusterIP", "LoadBalancer"},
         NEW port \in Nat, NEW nodePort \in 0..2, NEW class \in Classes,
         NEW annotation \in Annotations
  PROVE  [id |-> id, owner |-> u, by |-> u, type |-> type, port |-> port, ours |-> FALSE,
          nodePort |-> nodePort, class |-> class, annotation |-> annotation,
          foreign |-> FALSE, ingress |-> FALSE, deleting |-> FALSE] \in Services
BY DEF Services

\* An operator's Service is one, and nobody's.
LEMMA ForeignServiceMade ==
  ASSUME ids \in ServiceIDs, OperatorCreatesService
  PROVE  \E s \in Services : svc' = {s} /\ s.by = 0 /\ s.owner = 0
<1>1. NextID(ids) \in ServiceIDs /\ 0 \in UIDs /\ "" \in Classes /\ "" \in Annotations
  <2>1. "" \in Classes /\ "" \in Annotations
    BY Zenon DEF Classes, Annotations
  <2>2. 0 \in UIDs
    BY ClusterLimitAssumption DEF UIDs, Kinds
  <2> QED BY <2>1, <2>2, NextIDType
<1>2. PICK type \in {"ClusterIP", "LoadBalancer"} :
        svc' = {[id |-> NextID(ids), owner |-> 0, by |-> 0, type |-> type, port |-> 443,
                 ours |-> FALSE, nodePort |-> IF type = "LoadBalancer" THEN 1 ELSE 0,
                 class |-> "", annotation |-> "", foreign |-> FALSE, ingress |-> FALSE,
                 deleting |-> FALSE]}
  BY DEF OperatorCreatesService
<1> DEFINE nodePort == IF type = "LoadBalancer" THEN 1 ELSE 0
           none == ""
           port == 443
           nobody == 0
           s == [id |-> NextID(ids), owner |-> nobody, by |-> nobody, type |-> type,
                 port |-> port, ours |-> FALSE, nodePort |-> nodePort,
                 class |-> none, annotation |-> none, foreign |-> FALSE,
                 ingress |-> FALSE, deleting |-> FALSE]
<1>3. nodePort \in 0..2 /\ port \in Nat
  OBVIOUS
<1>4. /\ none \in Classes /\ none \in Annotations /\ NextID(ids) \in ServiceIDs
      /\ nobody \in UIDs /\ type \in {"ClusterIP", "LoadBalancer"}
  BY <1>1, Zenon
<1>5. svc' = {s}
  BY <1>2
<1> HIDE DEF nodePort, none, port, nobody
<1>6. s \in Services
  BY <1>3, <1>4, ForeignServiceType
<1> HIDE DEF s
<1>7. s.by = nobody /\ s.owner = nobody
  BY DEF s
<1> QED BY <1>5, <1>6, <1>7 DEF nobody

\* Operators, core Cluster API and Kubernetes' controllers.
LEMMA TypeEnvironment == ASSUME TypeInv, Environment PROVE TypeInv'
<1> USE DEF TypeInv, TypeOK
<1>1. CASE CreateKSC
  <2>1. uids + 1 \in UIDs /\ used' \in [Kinds -> Nat] /\ used'["create"] = uids + 1
    BY <1>1, ClusterLimitAssumption DEF CreateKSC, Spend, UIDs, Kinds
  <2>2. PICK spec \in Specs, external \in BOOLEAN :
          ksc' = [AbsentKSC EXCEPT !.state = "live", !.uid = uids + 1, !.spec = spec,
                                   !.external = external]
    BY <1>1 DEF CreateKSC
  <2>3. ksc' \in KSCs
    BY <2>1, <2>2, AbsentType, ObjectWith
  <2>4. uids' = uids + 1 /\ uids + 1 <= Limit["create"]
    BY <1>1, <2>1 DEF CreateKSC, UIDs
  <2> QED BY <1>1, <2>1, <2>3, <2>4, WatchType DEF CreateKSC, caches, worker
<1>2. CASE CreateCluster
  BY <1>2 DEF CreateCluster, caches, worker
<1>3. CASE AdoptKSC
  BY <1>3, ObjectWith, WatchType DEF AdoptKSC, caches, worker
<1>4. CASE PauseCluster
  <2>1. used' \in [Kinds -> Nat] /\ used'["create"] = used["create"]
    BY <1>4, SpendType DEF PauseCluster, Kinds
  <2> QED BY <1>4, <2>1 DEF PauseCluster, caches, worker
<1>5. CASE EditSpec
  <2>1. used' \in [Kinds -> Nat] /\ used'["create"] = used["create"]
    BY <1>5, SpendType DEF EditSpec, Kinds
  <2>2. PICK spec \in Specs :
          ksc' = [ksc EXCEPT !.spec = spec,
                    !.endpoint = IF spec.mode = "Service" THEN ksc.endpoint
                                 ELSE {OperatorEndpoint}]
    BY <1>5 DEF EditSpec
  <2>3. (IF spec.mode = "Service" THEN ksc.endpoint ELSE {OperatorEndpoint})
          \in SUBSET APIEndpoints
    <3>1. ksc.endpoint \in SUBSET APIEndpoints
      BY DEF KSCs
    <3> QED BY <3>1, OperatorEndpointType
  <2>4. ksc' \in KSCs
    BY <2>2, <2>3, ObjectWith
  <2> QED BY <1>5, <2>1, <2>4, WatchType DEF EditSpec, caches, worker
<1>6. CASE SetEndpoint
  BY <1>6, ObjectWith, OperatorEndpointType, WatchType DEF SetEndpoint, caches, worker
<1>7. CASE DeleteKSC
  BY <1>7, ObjectWith, SettleType, WatchType DEF DeleteKSC, caches, worker
<1>8. CASE AssignIngress
  <2>1. \A s \in Services : [s EXCEPT !.ingress = TRUE, !.foreign = TRUE] \in Services
    BY DEF Services
  <2>2. svc' \in SUBSET Services
    BY <1>8, <2>1 DEF AssignIngress
  <2> QED BY <1>8, <2>2, WatchType DEF AssignIngress, caches, worker
<1>9. CASE OperatorDeletesService
  <2>1. used' \in [Kinds -> Nat] /\ used'["create"] = used["create"]
    BY <1>9, SpendType DEF OperatorDeletesService, Kinds
  <2>2. svc' \in SUBSET Services
    BY <1>9, ServiceDeleted DEF OperatorDeletesService
  <2> QED BY <1>9, <2>1, <2>2, WatchType DEF OperatorDeletesService, caches, worker
<1>10. CASE OperatorCreatesService
  <2>1. used' \in [Kinds -> Nat] /\ used'["create"] = used["create"]
    BY <1>10, SpendType DEF OperatorCreatesService, Kinds
  <2>2. svc' \in SUBSET Services /\ NextID(ids) \in ServiceIDs
    BY <1>10, ForeignServiceMade, NextIDType
  <2> QED BY <1>10, <2>1, <2>2, WatchType DEF OperatorCreatesService, caches, worker
<1>11. CASE RemoveService
  BY <1>11, WatchType DEF RemoveService, caches, worker
<1> QED
  BY <1>1, <1>2, <1>3, <1>4, <1>5, <1>6, <1>7, <1>8, <1>9, <1>10, <1>11 DEF Environment

\* Every step keeps TypeInv.
LEMMA TypeNext == TypeInv /\ [Next]_vars => TypeInv'
<1> SUFFICES ASSUME TypeInv, [Next]_vars PROVE TypeInv'
  OBVIOUS
<1>1. CASE UNCHANGED vars
  BY <1>1 DEF TypeInv, TypeOK, vars, api, objects, caches, worker
<1> QED
  BY <1>1, TypeReconcile, TypeReconcileStep, TypeRuntime, TypeEnvironment DEF Next

\* The KubeSwiftCluster controller keeps every object, cache and copy well formed:
\* what it writes to the Service and to the KubeSwiftCluster is a Service and a
\* KubeSwiftCluster, for every configuration, pool of addresses and bound.
THEOREM TypeCorrect == Spec => []TypeOK
<1>1. TypeInv => TypeOK
  BY DEF TypeInv
<1> QED BY <1>1, TypeInit, TypeNext, PTL DEF Spec

-----------------------------------------------------------------------------
(* Foreign fields                                                          *)

\* One object has the Service's name at a time.
OneService == \A s, t \in svc : s = t

\* Initially there is none.
LEMMA OneServiceInit == Init => OneService
BY DEF Init, OneService

\* Every step that writes the Service writes one.
LEMMA OneServiceNext == OneService /\ [Next]_vars => OneService'
<1> SUFFICES ASSUME OneService, [Next]_vars PROVE OneService'
  OBVIOUS
<1>1. CASE svc' = svc
  BY <1>1 DEF OneService
<1>2. CASE \E s : svc' = {s}
  BY <1>2 DEF OneService
<1>3. CASE svc' = {}
  BY <1>3 DEF OneService
<1>4. CASE Reconcile
  BY <1>1, <1>4
  DEF Reconcile, ReconcileReturns, ReconcileErrs, ReconcileExternal, ReconcileService,
      ReconcileDelete, Begin, api, objects
<1>5. CASE ReconcileStep
  <2>1. CASE DeleteControlPlaneService
    BY <1>3, <2>1 DEF DeleteControlPlaneService, OneService
  <2>2. CASE CreateService \/ UpdateService
    BY <1>2, <2>2 DEF CreateService, Create, UpdateService, Update
  <2> QED
    BY <1>1, <1>5, <2>1, <2>2
    DEF ReconcileStep, UseService, WriteServiceRefused, ServiceCallFails, Patch, PatchRefused,
        PatchFails, api, objects
<1>6. CASE Runtime
  BY <1>1, <1>6 DEF Runtime, SyncKSC, SyncService, SyncCluster, TimerFires, Crash, api, objects
<1>7. CASE Environment
  <2>1. CASE AssignIngress \/ OperatorDeletesService \/ OperatorCreatesService
    BY <1>2, <2>1 DEF AssignIngress, OperatorDeletesService, OperatorCreatesService
  <2> QED
    BY <1>1, <1>3, <1>7, <2>1
    DEF Environment, CreateKSC, CreateCluster, AdoptKSC, PauseCluster, EditSpec, SetEndpoint,
        DeleteKSC, RemoveService
<1>8. CASE UNCHANGED vars
  BY <1>1, <1>8 DEF vars, api, objects
<1> QED BY <1>4, <1>5, <1>6, <1>7, <1>8 DEF Next

\* The cached Service has the API server's resourceVersion once every change of it
\* has been delivered.
VersionInv == "svc" \notin events => cSvc = svc

\* Every step that writes the Service is watched.
LEMMA VersionNext == VersionInv /\ [Next]_vars => VersionInv'
<1> SUFFICES ASSUME VersionInv, [Next]_vars PROVE VersionInv'
  OBVIOUS
<1>1. CASE Watch /\ cSvc' = cSvc
  BY <1>1 DEF Watch, VersionInv
<1>2. CASE UNCHANGED <<svc, cSvc, events>>
  BY <1>2 DEF VersionInv
<1>3. CASE Reconcile
  BY <1>2, <1>3
  DEF Reconcile, ReconcileReturns, ReconcileErrs, ReconcileExternal, ReconcileService,
      ReconcileDelete, Begin, api, objects, caches
<1>4. CASE ReconcileStep
  <2>1. CASE CreateService \/ UpdateService \/ DeleteControlPlaneService \/ Patch
    BY <1>1, <2>1
    DEF CreateService, Create, UpdateService, Update, DeleteControlPlaneService, Patch, caches
  <2> QED
    BY <1>2, <1>4, <2>1
    DEF ReconcileStep, UseService, WriteServiceRefused, ServiceCallFails, PatchRefused,
        PatchFails, api, objects, caches
<1>5. CASE Runtime
  BY <1>5
  DEF Runtime, SyncKSC, SyncService, SyncCluster, TimerFires, Crash, VersionInv, api, objects,
      caches
<1>6. CASE Environment
  <2>1. CASE CreateCluster \/ PauseCluster
    BY <1>2, <2>1 DEF CreateCluster, PauseCluster, caches
  <2> QED
    BY <1>1, <1>6, <2>1
    DEF Environment, CreateKSC, AdoptKSC, EditSpec, SetEndpoint, DeleteKSC, AssignIngress,
        OperatorDeletesService, OperatorCreatesService, RemoveService, caches
<1>7. CASE UNCHANGED vars
  BY <1>2, <1>7 DEF vars, api, objects, caches
<1> QED BY <1>3, <1>4, <1>5, <1>6, <1>7 DEF Next

\* The part of ForeignFieldsKept that one update of `s` to `t` has to keep.
Keeps(s, t) ==
  /\ s.foreign => t.foreign
  /\ s.ours /\ s.nodePort # 0 /\ t.type = "LoadBalancer" => t.nodePort = s.nodePort

\* ensureControlPlaneService and the API server keep them through an update.
LEMMA UpdateKeeps ==
  ASSUME NEW s \in Services, NEW k \in KSCs
  PROVE  Keeps(s, Stored(s, Updated(s, k)))
<1> DEFINE u == Updated(s, k)
           t == Stored(s, u)
<1>1. u \in Services
  BY UpdatedType
<1>2. u.foreign = s.foreign
  BY DEF Updated, Services
<1>3. s.ours => u.nodePort = s.nodePort
  BY DEF Updated, MergeServicePorts, Services
<1> HIDE DEF u
<1>4. t.foreign = u.foreign
  BY <1>1 DEF Stored, Services
<1>5. u.type = "LoadBalancer" => u.nodePort = 0 \/ t.nodePort = u.nodePort
  BY <1>1 DEF Stored, Services
<1>6. u.type # "LoadBalancer" => t.type = u.type
  BY <1>1 DEF Stored, Services
<1> HIDE DEF t
<1>7. Keeps(s, t)
  BY <1>2, <1>3, <1>4, <1>5, <1>6, Zenon DEF Keeps
<1> QED BY <1>7 DEF u, t

\* An annotation a load-balancer controller wrote back, and a LoadBalancer's node
\* port, survive every step that leaves the Service there, for every configuration
\* and every edit of it: a step that writes the Service writes it from the version
\* the API server has.
THEOREM ForeignFieldsKeptAlways == Spec => ForeignFieldsKept
<1>1. ASSUME TypeOK, OneService, VersionInv, [Next]_vars, NEW s \in svc, NEW t \in svc'
      PROVE  s.id = t.id => Keeps(s, t)
  <2>1. s \in Services
    BY <1>1 DEF TypeOK
  <2>2. CASE t = s
    BY <2>2 DEF Keeps
  <2>3. CASE svc' = svc
    BY <1>1, <2>2, <2>3 DEF OneService
  <2>4. CASE t = Terminating(s)
    BY <2>1, <2>4 DEF Terminating, Keeps, Services
  <2>5. CASE Reconcile \/ Runtime \/ UNCHANGED vars
    BY <2>3, <2>5
    DEF Reconcile, ReconcileReturns, ReconcileErrs, ReconcileExternal, ReconcileService,
        ReconcileDelete, Begin, Runtime, SyncKSC, SyncService, SyncCluster, TimerFires,
        Crash, vars, api, objects
  <2>6. CASE ReconcileStep
    <3>1. CASE UpdateService
      <4>1. svc' = {Stored(s, Updated(s, after))}
        BY <1>1, <3>1 DEF UpdateService, Update, OneService, VersionInv
      <4> QED BY <1>1, <2>1, <4>1, UpdateKeeps DEF TypeOK
    <3>2. CASE DeleteControlPlaneService
      <4>1. \E x \in svc : t = Terminating(x)
        BY <1>1, <3>2 DEF DeleteControlPlaneService
      <4> QED BY <1>1, <2>4, <4>1 DEF OneService
    <3>3. ~ CreateService
      BY <1>1 DEF CreateService, Create
    <3> QED
      BY <2>3, <2>6, <3>1, <3>2, <3>3
      DEF ReconcileStep, UseService, WriteServiceRefused, ServiceCallFails, Patch, PatchRefused,
          PatchFails, api, objects
  <2>7. CASE Environment
    <3>1. CASE AssignIngress
      <4>1. t = [s EXCEPT !.ingress = TRUE, !.foreign = TRUE]
        BY <1>1, <3>1 DEF AssignIngress, OneService
      <4> QED BY <2>1, <4>1 DEF Keeps, Services
    <3>2. CASE OperatorDeletesService
      BY <1>1, <2>4, <3>2 DEF OperatorDeletesService, OneService
    <3>3. ~ OperatorCreatesService /\ ~ RemoveService
      BY <1>1 DEF OperatorCreatesService, RemoveService
    <3> QED
      BY <2>3, <2>7, <3>1, <3>2, <3>3
      DEF Environment, CreateKSC, CreateCluster, AdoptKSC, PauseCluster, EditSpec, SetEndpoint,
          DeleteKSC
  <2> QED BY <1>1, <2>5, <2>6, <2>7 DEF Next
<1>2. ASSUME TypeOK, OneService, VersionInv, [Next]_vars
      PROVE  [\A s \in svc, t \in svc' :
                s.id = t.id =>
                  /\ s.foreign => t.foreign
                  /\ s.ours /\ s.nodePort # 0 /\ t.type = "LoadBalancer" =>
                       t.nodePort = s.nodePort]_vars
  BY <1>1, <1>2 DEF Keeps
<1>3. Init => VersionInv
  BY DEF Init, VersionInv
<1> QED
  BY <1>2, <1>3, TypeCorrect, OneServiceInit, OneServiceNext, VersionNext, PTL
  DEF Spec, ForeignFieldsKept

-----------------------------------------------------------------------------
(* The finalizer and the Service                                           *)

\* ServiceDeletedFirst is not inductive: the finalizer is dropped by a patch worked
\* out from a cached copy, calls after the Service was deleted. Whoever is still
\* seen as deleting either is, or has no finalizer any more; and while the worker
\* holds a copy without the finalizer, no Service the provider made is left but
\* terminating ones.
FinalizerInv ==
  /\ ksc.state = "deleting" => ksc.finalizer
  /\ ksc.state = "absent" => ~ ksc.finalizer
  /\ ksc.state # "absent" => ksc.uid # 0
  /\ cKsc.state = "deleting" => cKsc.finalizer
  /\ cKsc.state = "deleting" /\ ksc.state # "deleting" => ~ ksc.finalizer
  /\ pc # "idle" =>
       /\ before.state \in {"live", "deleting"}
       /\ before.state = "live" =>
            /\ after.finalizer /\ pc # "delete"
            /\ cKsc.state = "deleting" => ksc.state = "deleting"
       /\ before.state = "deleting" =>
            /\ before.finalizer /\ pc # "service"
            /\ ksc.state # "deleting" => ~ ksc.finalizer
       /\ ~ after.finalizer =>
            InPatch /\ \A s \in svc : s.by # 0 => s.deleting

\* Initially there is no object.
LEMMA FinalizerInit == Init => FinalizerInv
BY DEF Init, FinalizerInv, AbsentKSC

\* Nothing the invariant speaks of changes, but perhaps for Services the provider
\* did not make.
LEMMA FinalizerFrame ==
  ASSUME FinalizerInv, cKsc' = cKsc, UNCHANGED worker,
         ksc'.state = ksc.state, ksc'.finalizer = ksc.finalizer, ksc'.uid = ksc.uid,
         \A s \in svc' : s.by # 0 /\ ~ s.deleting => \E t \in svc : t.by # 0 /\ ~ t.deleting
  PROVE  FinalizerInv'
BY DEF FinalizerInv, worker, InPatch

\* The worker's step leaves its copy's finalizer, the object and the cache alone.
LEMMA FinalizerStepFrame ==
  ASSUME FinalizerInv, cKsc' = cKsc, ksc' = ksc, before' = before, pc # "idle",
         pc' \in {"conditions", "spec", "status"}, after'.finalizer = after.finalizer,
         svc' = svc \/ pc = "service"
  PROVE  FinalizerInv'
BY DEF FinalizerInv, InPatch

\* reconcileServiceEndpoint leaves the finalizer alone.
LEMMA AdoptAddressKeeps ==
  ASSUME NEW s, NEW k \in KSCs
  PROVE  AdoptAddress(s, k).finalizer = k.finalizer /\ AdoptAddress(s, k).state = k.state
<1> DEFINE E == {[host |-> h, port |-> ControlPlaneServicePort(k)] :
                   h \in ControlPlaneServiceAddress(s)}
<1>1. MarkNotProvisioned(k, "WaitingForEndpointService").finalizer = k.finalizer
      /\ MarkNotProvisioned(k, "WaitingForEndpointService").state = k.state
  BY DEF MarkNotProvisioned, KSCs
<1>2. ASSUME NEW e
      PROVE  /\ MarkProvisioned([k EXCEPT !.endpoint = e]).finalizer = k.finalizer
             /\ MarkProvisioned([k EXCEPT !.endpoint = e]).state = k.state
  BY DEF MarkProvisioned, KSCs
<1> QED BY <1>1, <1>2 DEF AdoptAddress

\* What the deferred patch leaves in the object.
LEMMA PatchWrites ==
  ASSUME TypeOK, Patch
  PROVE  \/ /\ ksc'.state = ksc.state /\ ksc'.uid = ksc.uid
            /\ ksc'.finalizer = ksc.finalizer /\ ksc'.endpoint = ksc.endpoint
            /\ pc # "spec"
         \/ /\ pc = "spec" /\ ksc.state = "deleting" /\ ~ Patched("finalizer")
            /\ ksc' = AbsentKSC
         \/ /\ pc = "spec" /\ ksc.state # "absent"
            /\ ksc.state # "deleting" \/ Patched("finalizer")
            /\ ksc'.state = ksc.state /\ ksc'.uid = ksc.uid
            /\ ksc'.finalizer = Patched("finalizer") /\ ksc'.endpoint = Patched("endpoint")
<1>1. ksc \in KSCs /\ before \in KSCs /\ after \in KSCs
  BY DEF TypeOK
<1>2. CASE pc = "conditions"
  <2>1. ksc' = [ksc EXCEPT !.ready = after.ready]
    BY <1>2 DEF Patch, Writing, InPatch, Write
  <2> QED BY <1>1, <1>2, <2>1 DEF KSCs
<1>3. CASE pc = "status"
  <2>1. ksc' = ksc \/ ksc' = [ksc EXCEPT !.provisioned = after.provisioned]
    BY <1>3 DEF Patch, Write
  <2> QED BY <1>1, <1>3, <2>1 DEF KSCs
<1>4. CASE pc = "spec"
  <2> DEFINE new == [ksc EXCEPT !.finalizer = Patched("finalizer"),
                                !.endpoint = Patched("endpoint")]
  <2>1. ksc' = Settle(new) /\ ksc.state # "absent"
    BY <1>4 DEF Patch, Writing, InPatch, Write, Refused
  <2>2. /\ new.state = ksc.state /\ new.uid = ksc.uid /\ new.finalizer = Patched("finalizer")
        /\ new.endpoint = Patched("endpoint")
    BY <1>1 DEF KSCs
  <2> HIDE DEF new
  <2> QED BY <1>4, <2>1, <2>2 DEF Settle
<1> QED BY <1>2, <1>3, <1>4 DEF Patch, InPatch

\* A reconcile that starts keeps FinalizerInv.
LEMMA FinalizerReconcile ==
  ASSUME TypeOK, FinalizerInv, Reconcile
  PROVE  FinalizerInv'
<1>1. CASE ReconcileReturns \/ ReconcileErrs
  BY <1>1, FinalizerFrame DEF ReconcileReturns, ReconcileErrs, api, objects, caches
<1>2. WithFinalizer \in KSCs /\ WithFinalizer.finalizer
  BY DEF WithFinalizer, TypeOK, KSCs
<1>3. MarkExternal(WithFinalizer).finalizer
  BY <1>2 DEF MarkExternal, MarkProvisioned, MarkNotProvisioned, KSCs
<1>4. ASSUME NEW k, k.finalizer, NEW next \in {"service", "conditions", "spec", "status"},
             Begin(k, next), cKsc.state = "live"
      PROVE  FinalizerInv'
  BY <1>4 DEF FinalizerInv, Begin, api, objects, caches
<1>5. CASE ReconcileExternal
  BY <1>3, <1>4, <1>5, WriteOrder DEF ReconcileExternal
<1>6. CASE ReconcileService
  BY <1>2, <1>4, <1>6 DEF ReconcileService
<1>7. CASE ReconcileDelete
  BY <1>7 DEF ReconcileDelete, Begin, FinalizerInv, api, objects, caches
<1> QED BY <1>1, <1>5, <1>6, <1>7 DEF Reconcile

\* The worker's calls and writes keep FinalizerInv.
LEMMA FinalizerReconcileStep ==
  ASSUME TypeOK, FinalizerInv, ReconcileStep
  PROVE  FinalizerInv'
<1>1. after \in KSCs /\ before \in KSCs /\ ksc \in KSCs
  BY DEF TypeOK
<1>2. CASE UseService \/ CreateService \/ UpdateService \/ WriteServiceRefused
  <2>1. /\ pc = "service" /\ before' = before /\ ksc' = ksc /\ cKsc' = cKsc
        /\ pc' = FirstWrite(before, after')
        /\ after' = after \/ \E s : after' = AdoptAddress(s, after)
    BY <1>2
    DEF UseService, CreateService, Create, UpdateService, Update, WriteServiceRefused,
        EndReconcile, api, objects, caches
  <2>2. after'.finalizer = after.finalizer
    BY <1>1, <2>1, AdoptAddressKeeps
  <2> QED BY <2>1, <2>2, WriteOrder, FinalizerStepFrame
<1>3. CASE ServiceCallFails
  BY <1>3, WriteOrder, FinalizerStepFrame DEF ServiceCallFails, EndReconcile, api, objects, caches
<1>4. CASE DeleteControlPlaneService
  <2>1. /\ pc = "delete" /\ pc' \in {"conditions", "spec", "status"}
        /\ before' = before /\ ksc' = ksc /\ cKsc' = cKsc
    BY <1>4, WriteOrder DEF DeleteControlPlaneService, EndReconcile, caches
  <2>2. \A s \in svc' : s.deleting
    BY <1>4 DEF DeleteControlPlaneService, Terminating, TypeOK, Services
  <2>3. before.state = "deleting"
    BY <2>1 DEF FinalizerInv
  <2> QED BY <2>1, <2>2, <2>3 DEF FinalizerInv, InPatch
<1>5. ASSUME NEW failed, InPatch, AfterWrite(failed), ksc' = ksc, cKsc' = cKsc, svc' = svc
      PROVE  FinalizerInv'
  BY <1>5, WriteOrder DEF AfterWrite, FinalizerInv, InPatch
<1>6. CASE PatchRefused \/ PatchFails
  BY <1>5, <1>6 DEF PatchRefused, PatchFails, Writing, api, objects, caches
<1>7. CASE Patch
  <2>1. /\ svc' = svc /\ cKsc' = cKsc /\ InPatch
        /\ pc' # "idle" => /\ before' = before /\ after' = after
                           /\ pc' \in {"conditions", "spec", "status"}
    BY <1>7, WriteOrder DEF Patch, AfterWrite, InPatch, caches
  <2>2. /\ before.state \in {"live", "deleting"}
        /\ before.state = "live" => after.finalizer
        /\ before.state = "deleting" => before.finalizer
    BY <2>1 DEF FinalizerInv, InPatch
  <2>3. CASE ksc'.state = ksc.state /\ ksc'.uid = ksc.uid /\ ksc'.finalizer = ksc.finalizer
    BY <2>1, <2>3 DEF FinalizerInv, InPatch
  <2>4. Patched("finalizer") = IF before.finalizer # after.finalizer THEN after.finalizer
                               ELSE ksc.finalizer
    BY DEF Patched
  <2>5. CASE pc = "spec" /\ ksc.state = "deleting" /\ ~ Patched("finalizer")
             /\ ksc' = AbsentKSC
    <3>1. before.state = "deleting"
      BY <1>1, <2>2, <2>4, <2>5 DEF FinalizerInv, KSCs
    <3>2. ksc'.state = "absent" /\ ~ ksc'.finalizer
      BY <2>5 DEF AbsentKSC
    <3> QED BY <2>1, <2>5, <3>1, <3>2 DEF FinalizerInv, InPatch
  <2>6. CASE /\ pc = "spec" /\ ksc.state # "absent"
             /\ ksc.state # "deleting" \/ Patched("finalizer")
             /\ ksc'.state = ksc.state /\ ksc'.uid = ksc.uid
             /\ ksc'.finalizer = Patched("finalizer")
    <3>1. before.finalizer \in BOOLEAN /\ after.finalizer \in BOOLEAN /\ ksc.finalizer \in BOOLEAN
      BY <1>1 DEF KSCs
    <3>2. /\ ksc'.state = "deleting" => ksc'.finalizer
          /\ cKsc.state = "deleting" /\ ksc.state # "deleting" => ~ ksc'.finalizer
          /\ before.state = "deleting" /\ ksc.state # "deleting" => ~ ksc'.finalizer
      BY <2>2, <2>4, <2>6, <3>1 DEF FinalizerInv
    <3> QED BY <2>1, <2>6, <3>2 DEF FinalizerInv, InPatch
  <2> QED BY <1>7, <2>3, <2>5, <2>6, PatchWrites
<1> QED BY <1>2, <1>3, <1>4, <1>6, <1>7 DEF ReconcileStep

\* Informers, timers and restarts keep FinalizerInv.
LEMMA FinalizerRuntime ==
  ASSUME FinalizerInv, Runtime
  PROVE  FinalizerInv'
<1>1. CASE SyncKSC
  BY <1>1 DEF SyncKSC, FinalizerInv, InPatch, api, objects, worker
<1>2. CASE SyncService \/ SyncCluster \/ TimerFires
  BY <1>2, FinalizerFrame DEF SyncService, SyncCluster, TimerFires, api, objects, caches
<1>3. CASE Crash
  BY <1>3 DEF Crash, FinalizerInv, api, objects
<1> QED BY <1>1, <1>2, <1>3 DEF Runtime

\* The deletion of the object: it stays as it is, but for its state, or goes.
LEMMA DeletionWrites ==
  ASSUME TypeOK, DeleteKSC
  PROVE  /\ ksc.state = "live"
         /\ \/ ~ ksc.finalizer /\ ksc' = AbsentKSC
            \/ /\ ksc.finalizer /\ ksc'.finalizer /\ ksc'.state = "deleting"
               /\ ksc'.uid = ksc.uid /\ ksc'.endpoint = ksc.endpoint
               /\ ksc'.ready = ksc.ready /\ ksc'.provisioned = ksc.provisioned
<1>1. ksc \in KSCs
  BY DEF TypeOK
<1>2. ksc.state = "live" /\ ksc' = Settle([ksc EXCEPT !.state = "deleting"])
  BY DEF DeleteKSC
<1> QED BY <1>1, <1>2 DEF Settle, KSCs

\* Operators, core Cluster API and Kubernetes' controllers keep FinalizerInv.
LEMMA FinalizerEnvironment ==
  ASSUME TypeOK, FinalizerInv, Environment
  PROVE  FinalizerInv'
<1>1. ksc \in KSCs /\ svc \subseteq Services /\ uids \in Nat
  BY DEF TypeOK, UIDs
<1>2. CASE CreateKSC
  <2>1. ksc'.state = "live" /\ ~ ksc'.finalizer /\ ksc'.uid # 0 /\ ksc.state = "absent"
    <3>1. uids + 1 # 0
      BY <1>1
    <3> QED BY <1>2, <3>1 DEF CreateKSC, AbsentKSC
  <2> QED BY <1>2, <2>1 DEF CreateKSC, FinalizerInv, InPatch, caches, worker
<1>3. CASE CreateCluster \/ PauseCluster
  BY <1>3, FinalizerFrame DEF CreateCluster, PauseCluster, caches
<1>4. CASE AdoptKSC \/ EditSpec \/ SetEndpoint
  <2>1. ksc'.state = ksc.state /\ ksc'.finalizer = ksc.finalizer /\ ksc'.uid = ksc.uid
    BY <1>1, <1>4 DEF AdoptKSC, EditSpec, SetEndpoint, KSCs
  <2>2. svc' = svc /\ cKsc' = cKsc /\ UNCHANGED worker
    BY <1>4 DEF AdoptKSC, EditSpec, SetEndpoint, caches
  <2> QED BY <2>1, <2>2, FinalizerFrame
<1>5. CASE DeleteKSC
  <2>1. /\ ksc.state = "live"
        /\ \/ ~ ksc.finalizer /\ ksc'.state = "absent" /\ ~ ksc'.finalizer
           \/ /\ ksc.finalizer /\ ksc'.finalizer /\ ksc'.state = "deleting"
              /\ ksc'.uid = ksc.uid
    BY <1>5, DeletionWrites DEF AbsentKSC
  <2> QED BY <1>5, <2>1 DEF DeleteKSC, FinalizerInv, InPatch, caches, worker
<1>6. CASE AssignIngress
  <2>1. \A s \in svc' : \E t \in svc : s.by = t.by /\ s.deleting = t.deleting
    BY <1>1, <1>6 DEF AssignIngress, Services
  <2> QED BY <1>6, <2>1, FinalizerFrame DEF AssignIngress, caches
<1>7. CASE OperatorDeletesService
  <2>1. \A s \in svc' : s.deleting
    BY <1>1, <1>7 DEF OperatorDeletesService, Terminating, Services
  <2> QED BY <1>7, <2>1, FinalizerFrame DEF OperatorDeletesService, caches
<1>8. CASE OperatorCreatesService
  <2>1. \A s \in svc' : s.by = 0
    BY <1>8, ForeignServiceMade DEF TypeOK
  <2> QED BY <1>8, <2>1, FinalizerFrame DEF OperatorCreatesService, caches
<1>9. CASE RemoveService
  BY <1>9, FinalizerFrame DEF RemoveService, caches
<1> QED BY <1>2, <1>3, <1>4, <1>5, <1>6, <1>7, <1>8, <1>9 DEF Environment

\* Every step keeps FinalizerInv.
LEMMA FinalizerNext == TypeOK /\ FinalizerInv /\ [Next]_vars => FinalizerInv'
<1> SUFFICES ASSUME TypeOK, FinalizerInv, [Next]_vars PROVE FinalizerInv'
  OBVIOUS
<1>1. CASE UNCHANGED vars
  BY <1>1, FinalizerFrame DEF vars, api, objects, caches
<1> QED
  BY <1>1, FinalizerReconcile, FinalizerReconcileStep, FinalizerRuntime,
     FinalizerEnvironment
  DEF Next

\* A step that takes the finalizer away is the metadata write of a reconcile that
\* dropped it.
LEMMA FinalizerStep ==
  ASSUME TypeOK, FinalizerInv, [Next]_vars, ksc.finalizer, ~ ksc'.finalizer
  PROVE  Patch /\ ~ after.finalizer /\ before.finalizer
<1>1. ksc \in KSCs
  BY DEF TypeOK
<1>2. ksc.state # "absent" /\ ksc' # ksc
  BY DEF FinalizerInv
<1>3. ~ Reconcile /\ ~ Runtime /\ ~ UNCHANGED vars
  BY <1>2
  DEF Reconcile, ReconcileReturns, ReconcileErrs, ReconcileExternal, ReconcileService,
      ReconcileDelete, Begin, Runtime, SyncKSC, SyncService, SyncCluster, TimerFires, Crash,
      vars, api, objects
<1>4. ~ Environment
  <2>1. ~ CreateKSC
    BY <1>2 DEF CreateKSC
  <2>2. ~ (AdoptKSC \/ EditSpec \/ SetEndpoint)
    BY <1>1 DEF AdoptKSC, EditSpec, SetEndpoint, KSCs
  <2>3. ~ DeleteKSC
    BY DeletionWrites
  <2> QED
    BY <1>2, <2>1, <2>2, <2>3
    DEF Environment, CreateCluster, PauseCluster, AssignIngress, OperatorDeletesService,
        OperatorCreatesService, RemoveService
<1>5. Patch
  BY <1>2, <1>3, <1>4
  DEF Next, ReconcileStep, UseService, CreateService, Create, UpdateService, Update,
      WriteServiceRefused, DeleteControlPlaneService, ServiceCallFails, PatchRefused,
      PatchFails, api, objects
<1>6. ~ Patched("finalizer")
  BY <1>5, PatchWrites
<1> QED BY <1>5, <1>6 DEF Patched, TypeOK, KSCs

\* The finalizer leaves a KubeSwiftCluster only when it is being deleted and its
\* Service is gone or terminating, however stale the copy the patch came from, and
\* through failed calls, restarts and namesakes created anew.
THEOREM ServiceDeletedFirstAlways == Spec => ServiceDeletedFirst
<1>1. ASSUME TypeOK, FinalizerInv, [Next]_vars
      PROVE  [ksc.finalizer /\ ~ ksc'.finalizer =>
                /\ ksc.state = "deleting"
                /\ \A s \in svc' : s.by = ksc.uid => s.deleting]_vars
  <2> SUFFICES ASSUME ksc.finalizer, ~ ksc'.finalizer
               PROVE  /\ ksc.state = "deleting"
                      /\ \A s \in svc' : s.by = ksc.uid => s.deleting
    OBVIOUS
  <2>1. Patch /\ ~ after.finalizer /\ before.finalizer
    BY <1>1, FinalizerStep
  <2>2. pc # "idle" /\ svc' = svc
    BY <2>1 DEF Patch, InPatch
  <2>3. before.state = "deleting"
    BY <1>1, <2>1, <2>2 DEF FinalizerInv
  <2> QED BY <1>1, <2>1, <2>2, <2>3 DEF FinalizerInv
<1> QED
  BY <1>1, TypeCorrect, FinalizerInit, FinalizerNext, PTL DEF Spec, ServiceDeletedFirst
=============================================================================
