----------------------- MODULE KubeSwiftMachineProofs -----------------------
(***************************************************************************)
(* Proofs, for any number of machines, any configurations, statuses and    *)
(* bounds, of the safety properties of KubeSwiftMachine.                   *)
(***************************************************************************)
EXTENDS KubeSwiftMachine, TLAPS

-----------------------------------------------------------------------------
(* Facts about the operators                                               *)

\* What Settle (the API server's finalizer rule) returns is a KubeSwiftMachine.
LEMMA SettleType ==
  ASSUME NEW k \in KSMs
  PROVE  Settle(k) \in KSMs
BY DEF Settle, KSMs, AbsentKSM, Reasons, NoID

\* The placeholder object is a KubeSwiftMachine.
LEMMA AbsentType == AbsentKSM \in KSMs
BY DEF KSMs, AbsentKSM, Reasons, NoID

\* notReady keeps an object well formed.
LEMMA NotReadyType ==
  ASSUME NEW k \in KSMs, NEW r \in Reasons
  PROVE  NotReady(k, r) \in KSMs
BY DEF NotReady, KSMs

\* guestAddresses returns reported addresses, and a status some Ready reason.
LEMMA StatusType ==
  ASSUME NEW s \in Statuses \cup {NoStatus}
  PROVE  GuestAddresses(s) \in SUBSET IPs /\ BackendReason(s) \in Reasons
<1>1. CASE s \in Statuses
  BY <1>1 DEF GuestAddresses, IPs, BackendReason, Reasons
<1>2. CASE s = NoStatus
  BY <1>2 DEF GuestAddresses, NoStatus, BackendReason, Reasons
<1> QED BY <1>1, <1>2

\* Exposing one of the ports an endpoint may name, or the default, is an exposure.
LEMMA OneExposure ==
  ASSUME NEW port \in {6443} \cup {e.port : e \in Endpoints}
  PROVE  {[poolLabel |-> "cp", port |-> port]} \in Exposures
<1>1. {[poolLabel |-> "cp", port |-> port]}
        \in {{[poolLabel |-> "cp", port |-> p]} :
               p \in {6443} \cup {e.port : e \in Endpoints}}
  OBVIOUS
<1> QED BY <1>1 DEF Exposures

\* controlPlaneExposure returns nil or one exposure.
LEMMA ExposureType ==
  ASSUME NEW m \in Machines, cKsc \in KSCs
  PROVE  ControlPlaneExposure(m) \in Exposures
<1>1. CASE m \notin ControlPlane
  BY <1>1 DEF ControlPlaneExposure, Exposures
<1>2. CASE cKsc = {} /\ m \in ControlPlane
  BY <1>2 DEF ControlPlaneExposure, Exposures
<1>3. ASSUME NEW e \in Endpoints, cKsc = {e}, m \in ControlPlane
      PROVE  ControlPlaneExposure(m) \in Exposures
  <2>1. CASE e.mode # "Service"
    <3>1. {x \in cKsc : x.mode = "Service"} = {}
      BY <1>3, <2>1
    <3> QED BY <1>3, <3>1 DEF ControlPlaneExposure, Exposures
  <2>2. CASE e.mode = "Service"
    <3>1. {x \in cKsc : x.mode = "Service"} = {e}
      BY <1>3, <2>2
    <3> DEFINE p == IF e.port = 0 THEN 6443 ELSE e.port
    <3>2. ControlPlaneExposure(m) = {[poolLabel |-> "cp", port |-> p]}
      BY <1>3, <3>1 DEF ControlPlaneExposure
    <3>3. p \in {6443} \cup {x.port : x \in Endpoints}
      BY <1>3
    <3> HIDE DEF p
    <3> QED BY <3>2, <3>3, OneExposure
  <2> QED BY <2>1, <2>2
<1> QED BY <1>1, <1>2, <1>3 DEF KSCs

\* Spending from a bound keeps the counters natural numbers.
LEMMA SpendType ==
  ASSUME used \in [Kinds -> Nat], NEW kind \in Kinds, Spend(kind)
  PROVE  used' \in [Kinds -> Nat]
BY DEF Spend

\* No exposure is an exposure.
LEMMA NoExposure == {} \in Exposures
BY DEF Exposures

\* The guest ensureSwiftGuest renders is one of the well-formed guest specs.
LEMMA GuestSpecType ==
  ASSUME TypeOK
  PROVE  {RenderSwiftGuest(cur, c, exposure) : c \in after.backend} \in SUBSET GuestSpecs
<1>1. cur \in Machines /\ exposure \in Exposures /\ after.backend \in Backends \cup {{}}
  BY DEF TypeOK, KSMs
<1>2. \A c \in after.backend : c \in UNION Backends
  BY <1>1
<1> QED BY <1>1, <1>2 DEF GuestSpecs

\* The order of the deferred patch's writes: whatever differs, the first is one of
\* the three, and the conditions are not written twice.
LEMMA WriteOrder ==
  \A b, a : /\ FirstWrite(b, a) \in {"conditions", "spec", "status"}
            /\ AfterConditions(b, a) \in {"spec", "status"}
BY DEF FirstWrite, AfterConditions

-----------------------------------------------------------------------------
(* Type correctness                                                        *)

\* The initial states are well typed, the ones with legacy machines included.
LEMMA TypeInit == Init => TypeOK
<1> SUFFICES ASSUME Init PROVE TypeOK
  OBVIOUS
<1>1. PICK b \in Backends, s \in {t \in Statuses : Provisioned(t)} :
        /\ Legacy # {} => Accepts(b, {})
        /\ ksm = [m \in Machines |-> IF m \in Legacy THEN LegacyKSM(m, b, s) ELSE AbsentKSM]
        /\ guest = [m \in Machines |->
             IF m \in Legacy
             THEN [state |-> "live", status |-> s,
                   spec |-> {RenderSwiftGuest(m, c, {}) : c \in b}]
             ELSE AbsentGuest]
  BY DEF Init
<1>2. ksm \in [Machines -> KSMs]
  <2>1. ASSUME NEW m \in Machines PROVE LegacyKSM(m, b, s) \in KSMs
    BY StatusType DEF LegacyKSM, AbsentKSM, KSMs, Reasons
  <2> QED BY <1>1, <2>1, AbsentType
<1>3. guest \in [Machines -> Guests]
  <2>2. ASSUME NEW m \in Machines
        PROVE  {RenderSwiftGuest(m, c, {}) : c \in b} \in SUBSET GuestSpecs
    BY NoExposure DEF GuestSpecs
  <2>3. AbsentGuest \in Guests
    BY DEF AbsentGuest, Guests
  <2> QED BY <1>1, <2>2, <2>3 DEF Guests
<1>4. ksc \in KSCs
  BY DEF Init, KSCs
<1>5. cluster \in Clusters
  BY LimitAssumption DEF Init, Clusters
<1>6. exposure \in Exposures
  BY NoExposure DEF Init
<1>7. /\ machine \in [Machines -> MachineStates]
      /\ seed \in [Machines -> {"absent", "inline", "ref"}]
      /\ used \in [Kinds -> Nat]
  BY DEF Init, MachineStates
<1>8. node \in [Machines -> SUBSET ({NoID, ForeignID} \cup {ProviderID(m) : m \in Machines})]
  BY DEF Init
<1> QED
  BY <1>2, <1>3, <1>4, <1>5, <1>6, <1>7, <1>8, AbsentType, LegacyAssumption
  DEF Init, TypeOK, PCs

\* The worker takes a machine: the first half of Reconcile.
LEMMA TypeReconcile ==
  ASSUME TypeOK, NEW m \in Machines, Reconcile(m)
  PROVE  TypeOK'
<1>1. cKsm[m] \in KSMs /\ WithFinalizer(m) \in KSMs
  BY DEF TypeOK, KSMs, WithFinalizer
<1>2. ControlPlaneExposure(m) \in Exposures
  BY ExposureType DEF TypeOK
<1>3. ASSUME NEW k \in KSMs, NEW next \in PCs, NEW again \in BOOLEAN,
             Begin(m, k, next, again)
      PROVE  TypeOK'
  BY <1>1, <1>2, <1>3 DEF TypeOK, Begin, Take, api, caches
<1>4. /\ NotReady(WithFinalizer(m), "WaitingForClusterInfrastructure") \in KSMs
      /\ NotReady(WithFinalizer(m), "WaitingForBootstrapData") \in KSMs
      /\ NotReady(WithFinalizer(m), "VMFailed") \in KSMs
  BY <1>1, NotReadyType DEF Reasons
<1>5. CASE ReconcileReturns(m) \/ ReconcileErrs(m)
  BY <1>5 DEF TypeOK, ReconcileReturns, ReconcileErrs, Take, api, caches, worker
<1>6. CASE WaitForInfrastructure(m)
  BY WriteOrder, <1>6, <1>3, <1>4 DEF BeginPatch, WaitForInfrastructure, PCs
<1>7. CASE WaitForBootstrapData(m)
  BY WriteOrder, <1>7, <1>3, <1>4 DEF BeginPatch, WaitForBootstrapData, PCs
<1>8. CASE InputsMissing(m)
  BY WriteOrder, <1>8, <1>1, <1>3 DEF BeginPatch, InputsMissing, PCs
<1>9. CASE BackendRejects(m)
  BY WriteOrder, <1>9, <1>3, <1>4 DEF BeginPatch, BackendRejects, PCs
<1>10. CASE BackendReconciles(m)
  BY <1>10, <1>1, <1>3 DEF BackendReconciles, PCs
<1>11. CASE ReconcileDelete(m)
  BY <1>11, <1>1, <1>3 DEF ReconcileDelete, PCs
<1> QED
  BY <1>5, <1>6, <1>7, <1>8, <1>9, <1>10, <1>11 DEF Reconcile

\* The worker's steps: live calls and the deferred patch.
LEMMA TypeReconcileStep ==
  ASSUME TypeOK, ReconcileStep
  PROVE  TypeOK'
<1>1. cur \in Machines /\ after \in KSMs /\ before \in KSMs /\ ksm[cur] \in KSMs
  BY DEF TypeOK
<1>2. ASSUME NEW at \in PCs, NEW k \in KSMs, CallFails(at, k) PROVE TypeOK'
  <2>1. used' \in [Kinds -> Nat]
    BY <1>2, SpendType DEF TypeOK, CallFails, Kinds
  <2> QED
    BY WriteOrder, <1>2, <2>1 DEF TypeOK, CallFails, EndReconcile, PCs, api, caches, wakeups
<1>3. NotReady(after, "VMFailed") \in KSMs
  BY <1>1, NotReadyType DEF Reasons
<1>4. [after EXCEPT !.finalizer = FALSE] \in KSMs
  BY <1>1 DEF KSMs
<1>5. ASSUME NEW s \in Statuses \cup {NoStatus} PROVE Observe(s) \in KSMs
  <2>1. NotReady(after, BackendReason(s)) \in KSMs
    BY <1>1, StatusType, NotReadyType
  <2>2. [after EXCEPT !.providerID = ProviderID(cur), !.addresses = GuestAddresses(s),
                      !.provisioned = "true", !.ready = "VMProvisioned"] \in KSMs
    BY <1>1, StatusType DEF KSMs, Reasons
  <2> QED BY <2>1, <2>2 DEF Observe
<1>6. CASE EnsureSeedProfile
  BY <1>6 DEF TypeOK, EnsureSeedProfile, GoTo, PCs, caches, wakeups
<1>7. CASE FindSwiftGuest
  <2>1. guest[cur].status \in Statuses \cup {NoStatus}
    BY <1>1 DEF TypeOK, Guests
  <2> QED
    BY WriteOrder, <1>7, <1>5, <2>1
    DEF TypeOK, FindSwiftGuest, UseStatus, Provisioned, PCs, api, caches, wakeups
<1>8. CASE CreateSwiftGuest
  <2>1. guest' \in [Machines -> Guests]
    BY <1>8, GuestSpecType DEF TypeOK, CreateSwiftGuest, Guests
  <2> QED
    BY WriteOrder, <1>8, <1>5, <1>1, <2>1
    DEF TypeOK, CreateSwiftGuest, UseStatus, Provisioned, PCs, caches
<1>9. CASE BackendFails
  BY <1>9, <1>2, <1>3 DEF BackendFails, PCs
<1>10. CASE DeleteSwiftGuest
  <2>1. guest' \in [Machines -> Guests]
    BY <1>10 DEF TypeOK, DeleteSwiftGuest, Guests
  <2> QED
    BY WriteOrder, <1>10, <1>1, <2>1 DEF TypeOK, DeleteSwiftGuest, EndReconcile, PCs, caches
<1>11. CASE SwiftGuestGone
  BY <1>11 DEF TypeOK, SwiftGuestGone, GoTo, PCs, api, caches, wakeups
<1>12. CASE DeleteSeedProfile
  BY WriteOrder, <1>12, <1>4 DEF TypeOK, DeleteSeedProfile, EndReconcile, PCs, caches, wakeups
<1>13. CASE DeleteFails \/ NodeFails
  BY <1>13, <1>1, <1>2 DEF DeleteFails, NodeFails, PCs
<1>14. CASE NodeNotFound \/ NodeHasID \/ PatchNodeRefused
  BY WriteOrder, <1>14, <1>1
  DEF TypeOK, NodeNotFound, NodeHasID, PatchNodeRefused, EndReconcile, PCs, api, caches,
      wakeups
<1>15. CASE NodeHasNoID
  BY <1>15 DEF TypeOK, NodeHasNoID, GoTo, PCs, api, caches, wakeups
<1>16. CASE PatchNode
  BY WriteOrder, <1>16, <1>1 DEF TypeOK, PatchNode, EndReconcile, PCs, caches, wakeups
<1>17. CASE PatchConditions
  <2>1. ksm' \in [Machines -> KSMs]
    BY <1>17, <1>1 DEF TypeOK, PatchConditions, KSMs
  <2> QED
    BY WriteOrder, <1>17, <2>1 DEF TypeOK, PatchConditions, GoTo, PCs, caches, wakeups
<1>18. CASE PatchSpec
  <2>1. [ksm[cur] EXCEPT !.finalizer = Patched("finalizer"),
                         !.providerID = Patched("providerID")] \in KSMs
    BY <1>1 DEF Patched, KSMs
  <2>2. ksm' \in [Machines -> KSMs]
    BY <1>18, <2>1, SettleType DEF TypeOK, PatchSpec
  <2> QED
    BY <1>18, <2>2 DEF TypeOK, PatchSpec, GoTo, PCs, caches, wakeups
<1>19. CASE PatchRefused \/ PatchFails
  <2>1. used' \in [Kinds -> Nat]
    BY <1>19, SpendType DEF TypeOK, PatchRefused, PatchFails, Kinds
  <2>2. requeue' \in BOOLEAN
    BY <1>19 DEF TypeOK, PatchRefused, PatchFails
  <2> QED
    BY WriteOrder, <1>19, <2>1, <2>2
    DEF TypeOK, PatchRefused, PatchFails, AfterWrite, PCs, api, caches, wakeups
<1>20. CASE PatchStatus
  <2>1. ksm' \in [Machines -> KSMs]
    BY <1>20, <1>1 DEF TypeOK, PatchStatus, Patched, KSMs
  <2> QED
    BY <1>20, <2>1, AbsentType, NoExposure
    DEF TypeOK, PatchStatus, Finish, PCs, caches
<1>21. CASE PatchStatusRefused \/ PatchStatusFails
  <2>1. used' \in [Kinds -> Nat]
    BY <1>21, SpendType DEF TypeOK, PatchStatusRefused, PatchStatusFails, Kinds
  <2> QED
    BY <1>21, <2>1, AbsentType, NoExposure
    DEF TypeOK, PatchStatusRefused, PatchStatusFails, Finish, PCs, api, caches
<1> QED
  BY <1>6, <1>7, <1>8, <1>9, <1>10, <1>11, <1>12, <1>13, <1>14, <1>15, <1>16, <1>17,
     <1>18, <1>19, <1>20, <1>21 DEF ReconcileStep

\* Informers, timers and restarts.
LEMMA TypeRuntime ==
  ASSUME TypeOK, Runtime
  PROVE  TypeOK'
<1>1. ASSUME NEW m \in Machines,
             SyncKSM(m) \/ DeliverGuestEvent(m) \/ TimerFires(m)
      PROVE  TypeOK'
  BY <1>1 DEF TypeOK, SyncKSM, DeliverGuestEvent, TimerFires, api, caches, worker
<1>2. ASSUME NEW m \in Machines, SyncMachine(m) \/ SyncSecret(m)
      PROVE  TypeOK'
  BY <1>2 DEF TypeOK, SyncMachine, SyncSecret, MachineStates, api, wakeups, worker
<1>3. CASE SyncCluster \/ SyncKSC
  BY <1>3 DEF TypeOK, SyncCluster, SyncKSC, api, wakeups, worker
<1>4. CASE Crash
  <2>1. used' \in [Kinds -> Nat]
    BY <1>4, SpendType DEF TypeOK, Crash, Kinds
  <2> QED
    BY <1>4, <2>1, AbsentType, NoExposure DEF TypeOK, Crash, PCs, api
<1> QED BY <1>1, <1>2, <1>3, <1>4 DEF Runtime

\* Users, Cluster API, KubeSwift and the workload cluster.
LEMMA TypeEnvironment ==
  ASSUME TypeOK, Environment
  PROVE  TypeOK'
<1>1. ASSUME NEW m \in Machines, CreateKSM(m) PROVE TypeOK'
  <2>1. ksm' \in [Machines -> KSMs]
    <3>1. ASSUME NEW b \in Backends
          PROVE  [AbsentKSM EXCEPT !.state = "live", !.backend = b] \in KSMs
      BY DEF AbsentKSM, KSMs, Reasons
    <3> QED BY <1>1, <3>1 DEF TypeOK, CreateKSM
  <2>2. used' \in [Kinds -> Nat]
    BY <1>1, SpendType DEF TypeOK, CreateKSM, Kinds
  <2> QED
    BY <1>1, <2>1, <2>2 DEF TypeOK, CreateKSM, caches, wakeups, worker
<1>2. ASSUME NEW m \in Machines, CreateMachine(m) \/ PublishBootstrap(m) PROVE TypeOK'
  BY <1>2
  DEF TypeOK, CreateMachine, PublishBootstrap, MachineStates, caches, wakeups, worker
<1>3. ASSUME NEW m \in Machines, AdoptKSM(m) PROVE TypeOK'
  <2>1. [ksm[m] EXCEPT !.owned = TRUE] \in KSMs
    BY <1>3 DEF TypeOK, KSMs
  <2>2. ksm' = [ksm EXCEPT ![m] = [ksm[m] EXCEPT !.owned = TRUE]]
    BY <1>3 DEF TypeOK, AdoptKSM
  <2>3. ksm' \in [Machines -> KSMs]
    BY <2>1, <2>2 DEF TypeOK
  <2> QED
    BY <1>3, <2>3 DEF TypeOK, AdoptKSM, caches, wakeups, worker
<1>4. ASSUME NEW m \in Machines, DeleteKSM(m) PROVE TypeOK'
  <2>1. [ksm[m] EXCEPT !.state = "deleting"] \in KSMs
    BY DEF TypeOK, KSMs
  <2>2. ksm' \in [Machines -> KSMs]
    BY <1>4, <2>1, SettleType DEF TypeOK, DeleteKSM
  <2> QED
    BY <1>4, <2>2 DEF TypeOK, DeleteKSM, caches, wakeups, worker
<1>5. ASSUME NEW m \in Machines, ReportStatus(m) PROVE TypeOK'
  <2>1. guest' \in [Machines -> Guests]
    BY <1>5 DEF TypeOK, ReportStatus, Guests
  <2>2. used' \in [Kinds -> Nat]
    BY <1>5, SpendType DEF TypeOK, ReportStatus, Kinds
  <2> QED
    BY <1>5, <2>1, <2>2 DEF TypeOK, ReportStatus, caches, worker
<1>6. ASSUME NEW m \in Machines, FinalizeGuest(m) PROVE TypeOK'
  <2>1. AbsentGuest \in Guests
    BY DEF AbsentGuest, Guests
  <2> QED
    BY <1>6, <2>1 DEF TypeOK, FinalizeGuest, caches, worker
<1>7. ASSUME NEW m \in Machines, OperatorDeletesGuest(m) PROVE TypeOK'
  <2>1. guest' \in [Machines -> Guests]
    BY <1>7 DEF TypeOK, OperatorDeletesGuest, Guests
  <2>2. used' \in [Kinds -> Nat]
    BY <1>7, SpendType DEF TypeOK, OperatorDeletesGuest, Kinds
  <2> QED
    BY <1>7, <2>1, <2>2 DEF TypeOK, OperatorDeletesGuest, caches, worker
<1>8. ASSUME NEW m \in Machines, NodeRegisters(m) \/ NodeChanges(m) PROVE TypeOK'
  <2>1. used' \in [Kinds -> Nat]
    BY <1>8, SpendType DEF TypeOK, NodeRegisters, NodeChanges, Kinds
  <2> QED
    BY <1>8, <2>1 DEF TypeOK, NodeRegisters, NodeChanges, caches, wakeups, worker
<1>9. CASE ClusterChanges
  <2>1. used' \in [Kinds -> Nat]
    BY <1>9, SpendType DEF TypeOK, ClusterChanges, Kinds
  <2>2. cluster' \in Clusters /\ ksc' \in KSCs
    BY <1>9 DEF TypeOK, ClusterChanges, Clusters, KSCs
  <2> QED
    BY <1>9, <2>1, <2>2 DEF TypeOK, ClusterChanges, caches, wakeups, worker
<1> QED
  BY <1>1, <1>2, <1>3, <1>4, <1>5, <1>6, <1>7, <1>8, <1>9 DEF Environment

\* Every step keeps the types.
LEMMA TypeNext == TypeOK /\ [Next]_vars => TypeOK'
<1> SUFFICES ASSUME TypeOK, [Next]_vars PROVE TypeOK'
  OBVIOUS
<1>1. CASE Next
  BY <1>1, TypeReconcile, TypeReconcileStep, TypeRuntime, TypeEnvironment DEF Next
<1>2. CASE UNCHANGED vars
  BY <1>2 DEF TypeOK, vars, api, caches, wakeups, worker
<1> QED BY <1>1, <1>2

\* Type correctness of the machine controller's model.
THEOREM TypeCorrect == Spec => []TypeOK
<1> QED BY TypeInit, TypeNext, PTL DEF Spec

-----------------------------------------------------------------------------
(* The seed profile outlives the guest                                     *)

\* SeedOutlivesGuest is not inductive: it needs to know what the worker learned
\* from the calls it has already made.
SeedInv ==
  /\ SeedOutlivesGuest
  /\ pc = "guest" => seed[cur] # "absent"
  /\ pc = "deleteSeed" => guest[cur].state = "absent"

\* Initially every guest is a legacy one, and has its profile.
LEMMA SeedInit == Init => SeedInv
BY DEF Init, SeedInv, SeedOutlivesGuest, AbsentGuest

\* A step that creates no guest and drops no profile, and does not move the
\* worker to one of the two calls the invariant speaks of.
LEMMA SeedFrame ==
  ASSUME SeedInv, seed' = seed, pc' \notin {"guest", "deleteSeed"},
         \A m \in Machines : guest[m].state = "absent" => guest'[m].state = "absent"
  PROVE  SeedInv'
BY DEF SeedInv, SeedOutlivesGuest

\* Every step keeps SeedInv: the profile precedes the guest, and outlives it.
LEMMA SeedNext == TypeOK /\ SeedInv /\ [Next]_vars => SeedInv'
<1> SUFFICES ASSUME TypeOK, SeedInv, [Next]_vars PROVE SeedInv'
  OBVIOUS
<1>1. ASSUME NEW m \in Machines, Reconcile(m) PROVE SeedInv'
  <2>1. CASE ReconcileReturns(m) \/ ReconcileErrs(m)
    BY <2>1, SeedFrame DEF ReconcileReturns, ReconcileErrs, Take, worker, api
  <2>2. CASE ~ (ReconcileReturns(m) \/ ReconcileErrs(m))
    BY WriteOrder, <1>1, <2>2, SeedFrame
    DEF BeginPatch, Reconcile, WaitForInfrastructure, WaitForBootstrapData, InputsMissing,
        BackendRejects, BackendReconciles, ReconcileDelete, Begin, api
  <2> QED BY <2>1, <2>2
<1>2. ASSUME ReconcileStep PROVE SeedInv'
  <2>1. CASE EnsureSeedProfile
    BY <2>1 DEF EnsureSeedProfile, GoTo, SeedInv, SeedOutlivesGuest, TypeOK
  <2>2. CASE FindSwiftGuest
    BY WriteOrder, <2>2, SeedFrame DEF FindSwiftGuest, UseStatus, api
  <2>3. CASE CreateSwiftGuest
    BY WriteOrder, <2>3 DEF CreateSwiftGuest, UseStatus, SeedInv, SeedOutlivesGuest, TypeOK
  <2>4. CASE DeleteSwiftGuest
    BY WriteOrder, <2>4, SeedFrame DEF DeleteSwiftGuest, EndReconcile, TypeOK, Guests
  <2>5. CASE SwiftGuestGone
    BY <2>5 DEF SwiftGuestGone, GoTo, SeedInv, SeedOutlivesGuest, api
  <2>6. CASE DeleteSeedProfile
    BY WriteOrder, <2>6 DEF DeleteSeedProfile, EndReconcile, SeedInv, SeedOutlivesGuest, TypeOK
  <2>7. CASE BackendFails \/ DeleteFails \/ NodeFails
    BY WriteOrder, <2>7, SeedFrame
    DEF BackendFails, DeleteFails, NodeFails, CallFails, EndReconcile, api
  <2>8. CASE NodeNotFound \/ NodeHasID \/ NodeHasNoID \/ PatchNode \/ PatchNodeRefused
    BY WriteOrder, <2>8, SeedFrame
    DEF NodeNotFound, NodeHasID, NodeHasNoID, PatchNode, PatchNodeRefused, EndReconcile,
        GoTo, api
  <2>9. CASE PatchConditions \/ PatchSpec \/ PatchRefused \/ PatchFails
    BY WriteOrder, <2>9, SeedFrame
    DEF PatchConditions, PatchSpec, PatchRefused, PatchFails, AfterWrite, GoTo, api
  <2>10. CASE PatchStatus \/ PatchStatusRefused \/ PatchStatusFails
    BY <2>10, SeedFrame DEF PatchStatus, PatchStatusRefused, PatchStatusFails, Finish, api
  <2> QED
    BY <1>2, <2>1, <2>2, <2>3, <2>4, <2>5, <2>6, <2>7, <2>8, <2>9, <2>10 DEF ReconcileStep
<1>3. ASSUME Runtime PROVE SeedInv'
  <2>1. CASE Crash
    BY <2>1, SeedFrame DEF Crash, api
  <2>2. CASE ~ Crash
    BY <1>3, <2>2
    DEF Runtime, SyncKSM, SyncMachine, SyncSecret, DeliverGuestEvent, TimerFires,
        SyncCluster, SyncKSC, api, worker, SeedInv, SeedOutlivesGuest
  <2> QED BY <2>1, <2>2
<1>4. ASSUME Environment PROVE SeedInv'
  <2>1. ASSUME NEW m \in Machines, ReportStatus(m) \/ FinalizeGuest(m) \/ OperatorDeletesGuest(m)
        PROVE  SeedInv'
    BY <2>1
    DEF ReportStatus, FinalizeGuest, OperatorDeletesGuest, AbsentGuest, worker, SeedInv,
        SeedOutlivesGuest, TypeOK, Guests
  <2>2. ASSUME NEW m \in Machines,
               \/ CreateKSM(m) \/ CreateMachine(m) \/ AdoptKSM(m) \/ PublishBootstrap(m)
               \/ DeleteKSM(m) \/ NodeRegisters(m) \/ NodeChanges(m)
        PROVE  SeedInv'
    BY <2>2
    DEF CreateKSM, CreateMachine, AdoptKSM, PublishBootstrap, DeleteKSM, NodeRegisters,
        NodeChanges, worker, SeedInv, SeedOutlivesGuest
  <2>3. CASE ClusterChanges
    BY <2>3 DEF ClusterChanges, worker, SeedInv, SeedOutlivesGuest
  <2> QED BY <1>4, <2>1, <2>2, <2>3 DEF Environment
<1>5. CASE UNCHANGED vars
  BY <1>5 DEF vars, api, worker, SeedInv, SeedOutlivesGuest
<1> QED BY <1>1, <1>2, <1>3, <1>4, <1>5 DEF Next

\* A SwiftGuest never exists without the seed profile it refers to.
THEOREM SeedOutlivesGuestAlways == Spec => []SeedOutlivesGuest
<1>1. SeedInv => SeedOutlivesGuest
  BY DEF SeedInv
<1> QED BY <1>1, TypeCorrect, SeedInit, SeedNext, PTL DEF Spec

-----------------------------------------------------------------------------
(* Teardown: the finalizer and the guest                                   *)

\* The worker's copy and the caches of a machine under deletion, against what
\* the API server holds now: whoever is still seen as deleting either is, or has
\* no guest and no finalizer any more (it is gone, or was created anew).
TeardownInv ==
  /\ \A m \in Machines :
       /\ ksm[m].state = "deleting" => ksm[m].finalizer
       /\ ksm[m].state = "absent" => ~ ksm[m].finalizer
       /\ cKsm[m].state = "deleting" => cKsm[m].finalizer
       /\ cKsm[m].state = "deleting" /\ ksm[m].state # "deleting" =>
            guest[m].state = "absent" /\ ~ ksm[m].finalizer
  /\ pc # "idle" =>
       /\ before.state \in {"live", "deleting"}
       /\ before.state = "live" =>
            /\ after.finalizer /\ pc \notin {"deleteGuest", "deleteSeed"}
            /\ cKsm[cur].state = "deleting" => ksm[cur].state = "deleting"
       /\ before.state = "deleting" =>
            /\ before.finalizer /\ pc \notin {"seed", "guest", "node", "nodePatch"}
            /\ ksm[cur].state # "deleting" =>
                 guest[cur].state = "absent" /\ ~ ksm[cur].finalizer
       /\ ~ after.finalizer =>
            /\ pc \in {"conditions", "spec", "status"}
            /\ guest[cur].state = "absent" /\ seed[cur] = "absent"

\* Initially no deletion is cached or in progress.
LEMMA TeardownInit == Init => TeardownInv
<1> SUFFICES ASSUME Init PROVE TeardownInv
  OBVIOUS
<1>1. \A m \in Machines : /\ ksm[m].state # "deleting"
                          /\ ksm[m].state = "absent" => ~ ksm[m].finalizer
  <2>1. PICK b \in Backends, s \in {t \in Statuses : Provisioned(t)} :
          ksm = [m \in Machines |-> IF m \in Legacy THEN LegacyKSM(m, b, s) ELSE AbsentKSM]
    BY DEF Init
  <2>2. \A m \in Machines : LegacyKSM(m, b, s).state = "live"
    BY DEF LegacyKSM, AbsentKSM
  <2>3. AbsentKSM.state = "absent" /\ ~ AbsentKSM.finalizer
    BY DEF AbsentKSM
  <2> QED BY <2>1, <2>2, <2>3
<1>2. cKsm = ksm /\ pc = "idle"
  BY DEF Init
<1>3. \A m \in Machines : cKsm[m].state # "deleting"
  BY <1>1, <1>2
<1> QED BY <1>1, <1>2, <1>3, Zenon DEF TeardownInv

\* A step that leaves the machines, their cached copies and the worker alone and
\* creates no guest.
LEMMA TeardownIdleFrame ==
  ASSUME TeardownInv, ksm' = ksm, cKsm' = cKsm, seed' = seed, UNCHANGED worker,
         cur \in Machines,
         \A m \in Machines : guest[m].state = "absent" => guest'[m].state = "absent"
  PROVE  TeardownInv'
BY DEF TeardownInv, worker

\* A step of the worker that ends in the deferred patch, writes no machine,
\* creates no guest and keeps the finalizer it has in memory.
LEMMA TeardownStepFrame ==
  ASSUME TeardownInv, ksm' = ksm, cKsm' = cKsm, seed' = seed, cur' = cur,
         before' = before, after'.finalizer = after.finalizer, cur \in Machines,
         pc # "idle", pc' \in {"conditions", "spec", "status"},
         \A m \in Machines : guest[m].state = "absent" => guest'[m].state = "absent"
  PROVE  TeardownInv'
BY DEF TeardownInv

\* Taking a machine off the queue keeps TeardownInv.
LEMMA TeardownReconcile ==
  ASSUME TypeOK, TeardownInv, NEW m \in Machines, Reconcile(m)
  PROVE  TeardownInv'
<1>1. CASE ReconcileReturns(m) \/ ReconcileErrs(m)
  BY <1>1, TeardownIdleFrame DEF ReconcileReturns, ReconcileErrs, api, caches, TypeOK
<1>2. ASSUME cKsm[m].state = "live", NEW k \in KSMs, k.finalizer,
             NEW next \in {"conditions", "spec", "status", "seed"}, NEW again,
             Begin(m, k, next, again)
      PROVE  TeardownInv'
  BY <1>2 DEF TeardownInv, Begin, api, caches
<1>3. WithFinalizer(m) \in KSMs /\ WithFinalizer(m).finalizer
  BY DEF WithFinalizer, TypeOK, KSMs
<1>4. ASSUME NEW r \in Reasons
      PROVE  /\ NotReady(WithFinalizer(m), r) \in KSMs
             /\ NotReady(WithFinalizer(m), r).finalizer
  BY <1>3, NotReadyType DEF NotReady, KSMs
<1>5. CASE WaitForInfrastructure(m)
  BY WriteOrder, <1>5, <1>2, <1>4 DEF BeginPatch, WaitForInfrastructure, Reasons
<1>6. CASE WaitForBootstrapData(m)
  BY WriteOrder, <1>6, <1>2, <1>4 DEF BeginPatch, WaitForBootstrapData, Reasons
<1>7. CASE InputsMissing(m)
  BY WriteOrder, <1>7, <1>2, <1>3 DEF BeginPatch, InputsMissing
<1>8. CASE BackendRejects(m)
  BY WriteOrder, <1>8, <1>2, <1>4 DEF BeginPatch, BackendRejects, InputsReady, Reasons
<1>9. CASE BackendReconciles(m)
  BY <1>9, <1>2, <1>3 DEF BackendReconciles, InputsReady
<1>10. CASE ReconcileDelete(m)
  BY <1>10 DEF ReconcileDelete, Begin, TeardownInv, api, caches
<1> QED
  BY <1>1, <1>5, <1>6, <1>7, <1>8, <1>9, <1>10 DEF Reconcile

\* The worker's live calls and the deferred patch keep TeardownInv.
LEMMA TeardownReconcileStep ==
  ASSUME TypeOK, SeedInv, TeardownInv, ReconcileStep
  PROVE  TeardownInv'
<1> USE DEF TypeOK
<1>1. CASE EnsureSeedProfile
  BY <1>1 DEF EnsureSeedProfile, GoTo, TeardownInv, caches
<1>2. ASSUME NEW s PROVE Observe(s).finalizer = after.finalizer
  BY DEF Observe, NotReady, KSMs
<1>3. CASE FindSwiftGuest
  BY WriteOrder, <1>3, <1>2 DEF FindSwiftGuest, UseStatus, TeardownInv, api, caches
<1>4. CASE CreateSwiftGuest
  BY WriteOrder, <1>4, <1>2 DEF CreateSwiftGuest, UseStatus, TeardownInv, caches
<1>5. CASE BackendFails \/ DeleteFails \/ NodeFails
  <2>1. NotReady(after, "VMFailed").finalizer = after.finalizer
    BY DEF NotReady, KSMs
  <2> QED
    BY WriteOrder, <1>5, <2>1, TeardownStepFrame
    DEF BackendFails, DeleteFails, NodeFails, CallFails, EndReconcile, api, caches
<1>6. CASE DeleteSwiftGuest
  BY WriteOrder, <1>6, TeardownStepFrame DEF DeleteSwiftGuest, EndReconcile, Guests, caches
<1>7. CASE SwiftGuestGone
  BY <1>7 DEF SwiftGuestGone, GoTo, TeardownInv, api, caches
<1>8. CASE NodeNotFound \/ NodeHasID \/ PatchNode \/ PatchNodeRefused
  BY WriteOrder, <1>8, TeardownStepFrame
  DEF NodeNotFound, NodeHasID, PatchNode, PatchNodeRefused, EndReconcile, api, caches
<1>9. CASE NodeHasNoID
  BY <1>9 DEF NodeHasNoID, GoTo, TeardownInv, api, caches
<1>10. CASE PatchConditions
  <2>1. \A m \in Machines : /\ ksm'[m].state = ksm[m].state
                            /\ ksm'[m].finalizer = ksm[m].finalizer
    BY <1>10 DEF PatchConditions, KSMs
  <2> QED
    BY WriteOrder, <1>10, <2>1 DEF PatchConditions, GoTo, TeardownInv, caches
<1>11. CASE PatchRefused \/ PatchFails
  BY WriteOrder, <1>11, TeardownStepFrame DEF PatchRefused, PatchFails, AfterWrite, api, caches
<1>12. CASE PatchStatus \/ PatchStatusRefused \/ PatchStatusFails
  <2>1. \A m \in Machines : /\ ksm'[m].state = ksm[m].state
                            /\ ksm'[m].finalizer = ksm[m].finalizer
    <3>1. CASE ksm' = ksm
      BY <3>1
    <3>2. CASE ksm' = [ksm EXCEPT ![cur].addresses = Patched("addresses"),
                                  ![cur].provisioned = Patched("provisioned")]
      <4>1. \A m \in Machines \ {cur} : ksm'[m] = ksm[m]
        BY <3>2
      <4>2. ksm'[cur] = [[ksm[cur] EXCEPT !.addresses = Patched("addresses")]
                           EXCEPT !.provisioned = Patched("provisioned")]
        BY <3>2
      <4>3. ksm[cur] \in KSMs
        OBVIOUS
      <4> QED BY <4>1, <4>2, <4>3 DEF KSMs
    <3> QED
      BY <1>12, <3>1, <3>2 DEF PatchStatus, PatchStatusRefused, PatchStatusFails, api
  <2> QED
    BY <1>12, <2>1
    DEF PatchStatus, PatchStatusRefused, PatchStatusFails, Finish, TeardownInv, api, caches
<1>13. CASE PatchSpec
  <2> DEFINE new == [ksm[cur] EXCEPT !.finalizer = Patched("finalizer"),
                                     !.providerID = Patched("providerID")]
  <2>1. ksm' = [ksm EXCEPT ![cur] = Settle(new)] /\ ksm[cur].state # "absent"
    BY <1>13 DEF PatchSpec
  <2>2. new.state = ksm[cur].state /\ new.finalizer = Patched("finalizer")
    BY DEF KSMs
  <2>3. Patched("finalizer") = IF before.finalizer # after.finalizer THEN after.finalizer
                               ELSE ksm[cur].finalizer
    BY DEF Patched
  <2>4. /\ ksm'[cur].state \in {ksm[cur].state, "absent"}
        /\ ksm'[cur].state = "absent" => ~ ksm'[cur].finalizer
        /\ ksm'[cur].state # "absent" => ksm'[cur].finalizer = Patched("finalizer")
        /\ ksm'[cur].state = "absent" <=>
             ksm[cur].state = "deleting" /\ ~ Patched("finalizer")
    BY <2>1, <2>2 DEF Settle, AbsentKSM
  <2>5. \A m \in Machines \ {cur} : ksm'[m] = ksm[m]
    BY <2>1
  <2>6. /\ cKsm' = cKsm /\ guest' = guest /\ seed' = seed /\ cur' = cur
        /\ before' = before /\ after' = after /\ pc = "spec" /\ pc' = "status"
    BY <1>13 DEF PatchSpec, GoTo, caches
  <2>7. cur \in Machines /\ before \in KSMs /\ after \in KSMs /\ ksm[cur] \in KSMs
    OBVIOUS
  <2> HIDE DEF new
  <2>8. \/ before.state = "live" /\ after.finalizer
        \/ before.state = "deleting" /\ before.finalizer
    BY <2>6 DEF TeardownInv
  <2>9. /\ ksm'[cur].state = "deleting" => ksm'[cur].finalizer
        /\ ksm'[cur].state = "absent" => ~ ksm'[cur].finalizer
        /\ cKsm[cur].state = "deleting" /\ ksm'[cur].state # "deleting" =>
             guest[cur].state = "absent" /\ ~ ksm'[cur].finalizer
    BY <2>3, <2>4, <2>6, <2>7, <2>8 DEF TeardownInv, KSMs
  <2>10. /\ before.state = "live" /\ cKsm[cur].state = "deleting" =>
              ksm'[cur].state = "deleting"
         /\ before.state = "deleting" /\ ksm'[cur].state # "deleting" =>
              guest[cur].state = "absent" /\ ~ ksm'[cur].finalizer
    BY <2>3, <2>4, <2>6, <2>7, <2>8 DEF TeardownInv, KSMs
  <2>11. \A m \in Machines :
           /\ ksm'[m].state = "deleting" => ksm'[m].finalizer
           /\ ksm'[m].state = "absent" => ~ ksm'[m].finalizer
           /\ cKsm'[m].state = "deleting" => cKsm'[m].finalizer
           /\ cKsm'[m].state = "deleting" /\ ksm'[m].state # "deleting" =>
                guest'[m].state = "absent" /\ ~ ksm'[m].finalizer
    BY <2>5, <2>6, <2>9 DEF TeardownInv
  <2> QED BY <2>6, <2>8, <2>10, <2>11 DEF TeardownInv
<1>14. CASE DeleteSeedProfile
  <2>1. /\ pc = "deleteSeed" /\ pc' \in {"conditions", "spec", "status"}
        /\ cur' = cur /\ before' = before
        /\ ksm' = ksm /\ cKsm' = cKsm /\ guest' = guest
    BY WriteOrder, <1>14 DEF DeleteSeedProfile, EndReconcile, caches
  <2>2. guest[cur].state = "absent" /\ seed'[cur] = "absent"
    BY <1>14, <2>1 DEF DeleteSeedProfile, SeedInv
  <2>3. before.state = "deleting"
    BY <2>1 DEF TeardownInv
  <2> QED BY <2>1, <2>2, <2>3 DEF TeardownInv
<1> QED
  BY <1>1, <1>3, <1>4, <1>5, <1>6, <1>7, <1>8, <1>9, <1>10, <1>11, <1>12, <1>13, <1>14
  DEF ReconcileStep

\* Informers, timers and restarts keep TeardownInv.
LEMMA TeardownRuntime ==
  ASSUME TypeOK, TeardownInv, Runtime
  PROVE  TeardownInv'
<1> USE DEF TypeOK
<1>1. ASSUME NEW m \in Machines, SyncKSM(m) PROVE TeardownInv'
  BY <1>1 DEF SyncKSM, TeardownInv, api, worker
<1>2. ASSUME NEW m \in Machines,
             SyncMachine(m) \/ SyncSecret(m) \/ DeliverGuestEvent(m) \/ TimerFires(m)
      PROVE  TeardownInv'
  BY <1>2, TeardownIdleFrame
  DEF SyncMachine, SyncSecret, DeliverGuestEvent, TimerFires, api, caches
<1>3. CASE SyncCluster \/ SyncKSC
  BY <1>3, TeardownIdleFrame DEF SyncCluster, SyncKSC, api
<1>4. CASE Crash
  BY <1>4 DEF Crash, TeardownInv, api
<1> QED BY <1>1, <1>2, <1>3, <1>4 DEF Runtime

\* Users, Cluster API and KubeSwift keep TeardownInv.
LEMMA TeardownEnvironment ==
  ASSUME TypeOK, TeardownInv, Environment
  PROVE  TeardownInv'
<1> USE DEF TypeOK
<1>1. ASSUME NEW m \in Machines, CreateKSM(m) PROVE TeardownInv'
  <2>1. ksm'[m].state = "live" /\ ~ ksm'[m].finalizer /\ ksm[m].state = "absent"
    BY <1>1 DEF CreateKSM, AbsentKSM
  <2>2. \A n \in Machines \ {m} : ksm'[n] = ksm[n]
    BY <1>1 DEF CreateKSM
  <2> QED BY <1>1, <2>1, <2>2 DEF CreateKSM, TeardownInv, caches, worker
<1>2. ASSUME NEW m \in Machines, AdoptKSM(m) PROVE TeardownInv'
  <2>1. \A n \in Machines : /\ ksm'[n].state = ksm[n].state
                            /\ ksm'[n].finalizer = ksm[n].finalizer
    BY <1>2 DEF AdoptKSM, KSMs
  <2> QED BY <1>2, <2>1 DEF AdoptKSM, TeardownInv, caches, worker
<1>3. ASSUME NEW m \in Machines, DeleteKSM(m) PROVE TeardownInv'
  <2>1. /\ ksm[m].state = "live"
        /\ \/ ksm'[m].state = "deleting" /\ ksm'[m].finalizer
           \/ ksm'[m].state = "absent" /\ ~ ksm'[m].finalizer
    BY <1>3 DEF DeleteKSM, Settle, AbsentKSM, KSMs
  <2>2. \A n \in Machines \ {m} : ksm'[n] = ksm[n]
    BY <1>3 DEF DeleteKSM
  <2> QED BY <1>3, <2>1, <2>2 DEF DeleteKSM, TeardownInv, caches, worker
<1>4. ASSUME NEW m \in Machines,
             ReportStatus(m) \/ FinalizeGuest(m) \/ OperatorDeletesGuest(m)
      PROVE  TeardownInv'
  BY <1>4, TeardownIdleFrame
  DEF ReportStatus, FinalizeGuest, OperatorDeletesGuest, AbsentGuest, Guests, caches
<1>5. ASSUME NEW m \in Machines,
             CreateMachine(m) \/ PublishBootstrap(m) \/ NodeRegisters(m) \/ NodeChanges(m)
      PROVE  TeardownInv'
  BY <1>5, TeardownIdleFrame
  DEF CreateMachine, PublishBootstrap, NodeRegisters, NodeChanges, caches
<1>6. CASE ClusterChanges
  BY <1>6, TeardownIdleFrame DEF ClusterChanges, caches
<1> QED BY <1>1, <1>2, <1>3, <1>4, <1>5, <1>6 DEF Environment

\* Every step keeps TeardownInv.
LEMMA TeardownNext == TypeOK /\ SeedInv /\ TeardownInv /\ [Next]_vars => TeardownInv'
<1> SUFFICES ASSUME TypeOK, SeedInv, TeardownInv, [Next]_vars PROVE TeardownInv'
  OBVIOUS
<1>1. CASE Next
  BY <1>1, TeardownReconcile, TeardownReconcileStep, TeardownRuntime, TeardownEnvironment
  DEF Next
<1>2. CASE UNCHANGED vars
  BY <1>2 DEF vars, api, caches, worker, TeardownInv
<1> QED BY <1>1, <1>2

\* Only the spec patch takes a finalizer away.
LEMMA FinalizerStep ==
  ASSUME TypeOK, TeardownInv, Next, NEW m \in Machines,
         ksm[m].finalizer, ~ ksm'[m].finalizer
  PROVE  PatchSpec /\ m = cur /\ ~ after.finalizer /\ before.finalizer
<1> USE DEF TypeOK
<1>1. CASE ksm' = ksm
  BY <1>1
<1>2. ASSUME NEW n \in Machines, CreateKSM(n) PROVE FALSE
  BY <1>2 DEF CreateKSM, TeardownInv
<1>3. ASSUME NEW n \in Machines, AdoptKSM(n) PROVE FALSE
  BY <1>3 DEF AdoptKSM, KSMs
<1>4. ASSUME NEW n \in Machines, DeleteKSM(n) PROVE FALSE
  BY <1>4 DEF DeleteKSM, Settle, KSMs
<1>5. ASSUME PatchConditions PROVE FALSE
  BY <1>5 DEF PatchConditions, KSMs
<1>6. ASSUME PatchStatus PROVE FALSE
  <2>1. ksm'[m] = ksm[m] \/ (m = cur /\ ksm'[m] =
          [[ksm[m] EXCEPT !.addresses = Patched("addresses")]
              EXCEPT !.provisioned = Patched("provisioned")])
    BY <1>6 DEF PatchStatus
  <2> QED BY <2>1 DEF KSMs
<1>7. CASE PatchSpec
  <2>1. m = cur
    BY <1>7 DEF PatchSpec
  <2>2. ksm'[cur] = Settle([ksm[cur] EXCEPT !.finalizer = Patched("finalizer"),
                                            !.providerID = Patched("providerID")])
    BY <1>7, <2>1 DEF PatchSpec
  <2>3. ~ Patched("finalizer")
    BY <2>1, <2>2 DEF Settle, KSMs
  <2> QED BY <1>7, <2>1, <2>3 DEF Patched, KSMs
<1>8. CASE Reconcile(m) \/ \E n \in Machines : Reconcile(n)
  BY <1>1, <1>8
  DEF BeginPatch, Reconcile, ReconcileReturns, ReconcileErrs, WaitForInfrastructure,
      WaitForBootstrapData, InputsMissing, BackendRejects, BackendReconciles,
      ReconcileDelete, Begin, api
<1>9. CASE Runtime
  BY <1>1, <1>9
  DEF Runtime, SyncKSM, SyncMachine, SyncSecret, DeliverGuestEvent, TimerFires,
      SyncCluster, SyncKSC, Crash, api
<1>10. CASE Environment
  BY <1>1, <1>2, <1>3, <1>4, <1>10
  DEF Environment, CreateMachine, PublishBootstrap, ReportStatus, FinalizeGuest,
      OperatorDeletesGuest, NodeRegisters, NodeChanges, ClusterChanges
<1>11. CASE ReconcileStep
  BY <1>1, <1>5, <1>6, <1>7, <1>11
  DEF ReconcileStep, EnsureSeedProfile, FindSwiftGuest, CreateSwiftGuest, BackendFails,
      DeleteSwiftGuest, SwiftGuestGone, DeleteSeedProfile, DeleteFails, NodeNotFound,
      NodeHasID, NodeHasNoID, PatchNode, PatchNodeRefused, NodeFails, CallFails,
      PatchRefused, PatchFails, PatchStatusRefused, PatchStatusFails, api
<1> QED BY <1>8, <1>9, <1>10, <1>11 DEF Next

\* The finalizer leaves a machine only when it is being deleted and its guest and
\* seed profile are gone.
THEOREM FinalizerReleasedCleanAlways == Spec => FinalizerReleasedClean
<1>1. ASSUME TypeOK, TeardownInv, [Next]_vars
      PROVE  [\A m \in Machines :
                ksm[m].finalizer /\ ~ ksm'[m].finalizer =>
                  /\ ksm[m].state = "deleting"
                  /\ guest'[m].state = "absent" /\ seed'[m] = "absent"]_vars
  <2>1. CASE Next
    <3> SUFFICES ASSUME NEW m \in Machines, ksm[m].finalizer, ~ ksm'[m].finalizer
                 PROVE  /\ ksm[m].state = "deleting"
                        /\ guest'[m].state = "absent" /\ seed'[m] = "absent"
      OBVIOUS
    <3>1. PatchSpec /\ m = cur /\ ~ after.finalizer /\ before.finalizer
      BY <1>1, <2>1, FinalizerStep
    <3>2. guest' = guest /\ seed' = seed /\ pc = "spec"
      BY <3>1 DEF PatchSpec
    <3> QED BY <1>1, <3>1, <3>2 DEF TeardownInv
  <2> QED BY <1>1, <2>1
<1> QED
  BY <1>1, TypeCorrect, SeedInit, SeedNext, TeardownInit, TeardownNext, PTL
  DEF Spec, FinalizerReleasedClean

\* The controller deletes a guest only for a machine that is being deleted now,
\* whatever its cache says.
THEOREM TeardownOnlyWhenDeletingAlways == Spec => TeardownOnlyWhenDeleting
<1>1. ASSUME TypeOK, TeardownInv
      PROVE  \A m \in Machines :
               DeleteSwiftGuest /\ m = cur /\ guest[m].state = "live"
                 => ksm[m].state = "deleting"
  BY <1>1 DEF DeleteSwiftGuest, TeardownInv
<1>2. ASSUME TypeOK, TeardownInv
      PROVE  [\A m \in Machines :
               DeleteSwiftGuest /\ m = cur /\ guest[m].state = "live"
                 => ksm[m].state = "deleting"]_vars
  BY <1>1, <1>2
<1> QED
  BY <1>2, TypeCorrect, SeedInit, SeedNext, TeardownInit, TeardownNext, PTL
  DEF Spec, TeardownOnlyWhenDeleting

-----------------------------------------------------------------------------
(* No guest before its bootstrap data                                      *)

\* The caches only ever show bootstrap data and infrastructure that exist, and
\* once shown they stay: a reconcile that got as far as the seed profile may
\* rely on them without reading them again.
BootstrapInv ==
  /\ GuestHasBootstrapData
  /\ \A m \in Machines :
       /\ machine[m] # "named"
       /\ cMachine[m] \in {"named", "ready"} => machine[m] = "ready"
  /\ cCluster.infra => cluster.infra
  /\ pc \in {"seed", "guest"} => machine[cur] = "ready" /\ cluster.infra

\* Initially only legacy machines have a guest, and they have their data.
LEMMA BootstrapInit == Init => BootstrapInv
<1> SUFFICES ASSUME Init PROVE BootstrapInv
  OBVIOUS
<1>1. \A m \in Machines : guest[m].state # "absent" => m \in Legacy
  BY DEF Init, AbsentGuest
<1>2. \A m \in Legacy : machine[m] = "ready" /\ cluster.infra
  BY LegacyAssumption DEF Init
<1>3. /\ cMachine = machine /\ cCluster = cluster /\ pc = "idle"
      /\ \A m \in Machines : machine[m] # "named"
  BY DEF Init
<1> QED BY <1>1, <1>2, <1>3 DEF BootstrapInv, GuestHasBootstrapData

\* A step that touches neither Machines, Clusters nor their caches, creates no
\* guest and does not start a reconcile of the backend.
LEMMA BootstrapFrame ==
  ASSUME BootstrapInv, UNCHANGED <<machine, cluster, cMachine, cCluster>>,
         \/ pc' \notin {"seed", "guest"}
         \/ cur' = cur /\ pc \in {"seed", "guest"},
         \A m \in Machines : guest[m].state = "absent" => guest'[m].state = "absent"
  PROVE  BootstrapInv'
BY DEF BootstrapInv, GuestHasBootstrapData

\* Every step keeps BootstrapInv.
LEMMA BootstrapNext == TypeOK /\ BootstrapInv /\ [Next]_vars => BootstrapInv'
<1> SUFFICES ASSUME TypeOK, BootstrapInv, [Next]_vars PROVE BootstrapInv'
  OBVIOUS
<1>1. ASSUME NEW m \in Machines, Reconcile(m) PROVE BootstrapInv'
  <2>1. CASE ReconcileReturns(m) \/ ReconcileErrs(m)
    BY <2>1, BootstrapFrame DEF ReconcileReturns, ReconcileErrs, Take, worker, api, caches
  <2>2. CASE BackendReconciles(m)
    <3>1. /\ cMachine[m] = "ready" /\ cCluster.infra /\ cur' = m
          /\ UNCHANGED <<machine, cluster, cMachine, cCluster, guest>>
      BY <2>2 DEF BackendReconciles, InputsReady, Begin, api, caches
    <3>2. machine[m] = "ready"
      BY <3>1 DEF BootstrapInv
    <3>3. cluster.infra
      BY <3>1 DEF BootstrapInv, TypeOK, Clusters
    <3> QED BY <3>1, <3>2, <3>3 DEF BootstrapInv, GuestHasBootstrapData
  <2>3. CASE \/ WaitForInfrastructure(m) \/ WaitForBootstrapData(m) \/ InputsMissing(m)
             \/ BackendRejects(m) \/ ReconcileDelete(m)
    BY WriteOrder, <2>3, BootstrapFrame
    DEF BeginPatch, WaitForInfrastructure, WaitForBootstrapData, InputsMissing, BackendRejects,
        ReconcileDelete, Begin, api, caches
  <2> QED BY <1>1, <2>1, <2>2, <2>3 DEF Reconcile
<1>2. ASSUME ReconcileStep PROVE BootstrapInv'
  <2>1. CASE EnsureSeedProfile
    BY <2>1, BootstrapFrame DEF EnsureSeedProfile, GoTo, caches
  <2>2. CASE FindSwiftGuest
    BY <2>2, BootstrapFrame DEF FindSwiftGuest, UseStatus, api, caches
  <2>3. CASE CreateSwiftGuest
    BY <2>3
    DEF CreateSwiftGuest, UseStatus, BootstrapInv, GuestHasBootstrapData, TypeOK, caches
  <2>4. CASE DeleteSwiftGuest
    BY WriteOrder, <2>4, BootstrapFrame
    DEF DeleteSwiftGuest, EndReconcile, TypeOK, Guests, caches
  <2>5. CASE SwiftGuestGone \/ DeleteSeedProfile
    BY WriteOrder, <2>5, BootstrapFrame
    DEF SwiftGuestGone, DeleteSeedProfile, EndReconcile, GoTo, api, caches
  <2>6. CASE BackendFails \/ DeleteFails \/ NodeFails
    BY WriteOrder, <2>6, BootstrapFrame
    DEF BackendFails, DeleteFails, NodeFails, CallFails, EndReconcile, api, caches
  <2>7. CASE NodeNotFound \/ NodeHasID \/ NodeHasNoID \/ PatchNode \/ PatchNodeRefused
    BY WriteOrder, <2>7, BootstrapFrame
    DEF NodeNotFound, NodeHasID, NodeHasNoID, PatchNode, PatchNodeRefused, EndReconcile,
        GoTo, api, caches
  <2>8. CASE PatchConditions \/ PatchSpec \/ PatchRefused \/ PatchFails
    BY WriteOrder, <2>8, BootstrapFrame
    DEF PatchConditions, PatchSpec, PatchRefused, PatchFails, AfterWrite, GoTo, api, caches
  <2>9. CASE PatchStatus \/ PatchStatusRefused \/ PatchStatusFails
    BY <2>9, BootstrapFrame
    DEF PatchStatus, PatchStatusRefused, PatchStatusFails, Finish, api, caches
  <2> QED
    BY <1>2, <2>1, <2>2, <2>3, <2>4, <2>5, <2>6, <2>7, <2>8, <2>9 DEF ReconcileStep
<1>3. ASSUME Runtime PROVE BootstrapInv'
  <2>1. CASE Crash
    BY <2>1 DEF Crash, BootstrapInv, GuestHasBootstrapData, api
  <2>2. ASSUME NEW m \in Machines, SyncMachine(m) \/ SyncSecret(m) PROVE BootstrapInv'
    BY <2>2
    DEF SyncMachine, SyncSecret, BootstrapInv, GuestHasBootstrapData, TypeOK, api, worker
  <2>3. ASSUME NEW m \in Machines, SyncKSM(m) \/ DeliverGuestEvent(m) \/ TimerFires(m)
        PROVE  BootstrapInv'
    BY <2>3
    DEF SyncKSM, DeliverGuestEvent, TimerFires, BootstrapInv, GuestHasBootstrapData, api,
        caches, worker
  <2>4. CASE SyncCluster \/ SyncKSC
    BY <2>4
    DEF SyncCluster, SyncKSC, BootstrapInv, GuestHasBootstrapData, api, worker
  <2> QED BY <1>3, <2>1, <2>2, <2>3, <2>4 DEF Runtime
<1>4. ASSUME Environment PROVE BootstrapInv'
  <2>1. ASSUME NEW m \in Machines,
               ReportStatus(m) \/ FinalizeGuest(m) \/ OperatorDeletesGuest(m)
        PROVE  BootstrapInv'
    BY <2>1
    DEF ReportStatus, FinalizeGuest, OperatorDeletesGuest, AbsentGuest, worker, caches,
        BootstrapInv, GuestHasBootstrapData, TypeOK, Guests
  <2>2. ASSUME NEW m \in Machines, CreateMachine(m) \/ PublishBootstrap(m)
        PROVE  BootstrapInv'
    BY <2>2
    DEF CreateMachine, PublishBootstrap, worker, caches, BootstrapInv,
        GuestHasBootstrapData, TypeOK
  <2>3. ASSUME NEW m \in Machines,
               \/ CreateKSM(m) \/ AdoptKSM(m) \/ DeleteKSM(m)
               \/ NodeRegisters(m) \/ NodeChanges(m)
        PROVE  BootstrapInv'
    BY <2>3
    DEF CreateKSM, AdoptKSM, DeleteKSM, NodeRegisters, NodeChanges, worker, caches,
        BootstrapInv, GuestHasBootstrapData
  <2>4. CASE ClusterChanges
    <3>1. cluster.infra => cluster'.infra
      BY <2>4 DEF ClusterChanges, TypeOK, Clusters
    <3> QED
      BY <2>4, <3>1 DEF ClusterChanges, worker, caches, BootstrapInv, GuestHasBootstrapData
  <2> QED BY <1>4, <2>1, <2>2, <2>3, <2>4 DEF Environment
<1>5. CASE UNCHANGED vars
  BY <1>5 DEF vars, api, caches, worker, BootstrapInv, GuestHasBootstrapData
<1> QED BY <1>1, <1>2, <1>3, <1>4, <1>5 DEF Next

\* No SwiftGuest exists before its bootstrap data and its cluster's
\* infrastructure.
THEOREM GuestHasBootstrapDataAlways == Spec => []GuestHasBootstrapData
<1>1. BootstrapInv => GuestHasBootstrapData
  BY DEF BootstrapInv
<1> QED BY <1>1, TypeCorrect, BootstrapInit, BootstrapNext, PTL DEF Spec
=============================================================================
