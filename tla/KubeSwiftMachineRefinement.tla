--------------------- MODULE KubeSwiftMachineRefinement ---------------------
(***************************************************************************)
(* KubeSwiftMachine implements MachineLifecycle, and takes no providerID   *)
(* back, for any number of machines, any configurations and bounds.        *)
(***************************************************************************)
EXTENDS KubeSwiftMachineProofs

-----------------------------------------------------------------------------
(* providerIDs                                                             *)

\* Every copy of a machine carries no providerID or the one computed for its
\* name, and a reconcile only ever adds it.
IDInv ==
  /\ \A m \in Machines :
       /\ ksm[m].providerID \in {NoID, ProviderID(m)}
       /\ cKsm[m].providerID \in {NoID, ProviderID(m)}
       /\ ksm[m].state = "absent" => ksm[m].providerID = NoID
  /\ pc # "idle" => /\ before.providerID \in {NoID, ProviderID(cur)}
                    /\ after.providerID \in {before.providerID, ProviderID(cur)}

\* A providerID is not the empty one.
LEMMA ProviderIDSet == \A m : ProviderID(m) # NoID
BY DEF ProviderID, NoID

\* Initially only legacy machines have one.
LEMMA IDInit == Init => IDInv
<1> SUFFICES ASSUME Init PROVE IDInv
  OBVIOUS
<1>1. PICK b \in Backends, s \in {t \in Statuses : Provisioned(t)} :
        ksm = [m \in Machines |-> IF m \in Legacy THEN LegacyKSM(m, b, s) ELSE AbsentKSM]
  BY DEF Init
<1>2. \A m \in Machines : /\ LegacyKSM(m, b, s).providerID = ProviderID(m)
                          /\ LegacyKSM(m, b, s).state = "live"
  BY DEF LegacyKSM, AbsentKSM
<1>3. AbsentKSM.providerID = NoID
  BY DEF AbsentKSM
<1>4. \A m \in Machines : /\ ksm[m].providerID \in {NoID, ProviderID(m)}
                          /\ ksm[m].state = "absent" => ksm[m].providerID = NoID
  BY <1>1, <1>2, <1>3
<1>5. cKsm = ksm /\ pc = "idle"
  BY DEF Init
<1> QED BY <1>4, <1>5 DEF IDInv

-----------------------------------------------------------------------------
(* What the steps write into a KubeSwiftMachine                            *)

\* The spec patch: `cur` is removed if that leaves it deleting without a
\* finalizer, and otherwise gets the finalizer and providerID that were changed.
LEMMA SpecWrite ==
  ASSUME TypeOK, PatchSpec
  PROVE  /\ \A m \in Machines \ {cur} : ksm'[m] = ksm[m]
         /\ ksm[cur].state # "absent"
         /\ \/ /\ ksm[cur].state = "deleting" /\ ~ Patched("finalizer")
               /\ ksm'[cur] = AbsentKSM
            \/ /\ ksm[cur].state # "deleting" \/ Patched("finalizer")
               /\ \A f \in {"state", "owned", "addresses", "provisioned", "ready", "backend"} :
                    ksm'[cur][f] = ksm[cur][f]
               /\ ksm'[cur].finalizer = Patched("finalizer")
               /\ ksm'[cur].providerID = Patched("providerID")
<1> DEFINE new == [ksm[cur] EXCEPT !.finalizer = Patched("finalizer"),
                                   !.providerID = Patched("providerID")]
<1>1. ksm' = [ksm EXCEPT ![cur] = Settle(new)] /\ ksm[cur].state # "absent"
  BY DEF PatchSpec
<1>2. cur \in Machines /\ ksm[cur] \in KSMs /\ ksm \in [Machines -> KSMs]
  BY DEF TypeOK
<1>3. /\ new.state = ksm[cur].state /\ new.finalizer = Patched("finalizer")
      /\ new.providerID = Patched("providerID")
  BY <1>2 DEF KSMs
<1>4. ksm'[cur] = Settle(new)
  BY <1>1, <1>2
<1>5. \A m \in Machines \ {cur} : ksm'[m] = ksm[m]
  BY <1>1, <1>2
<1> HIDE DEF new
<1>6. CASE ksm[cur].state = "deleting" /\ ~ Patched("finalizer")
  BY <1>1, <1>3, <1>4, <1>5, <1>6 DEF Settle
<1>7. CASE ~ (ksm[cur].state = "deleting" /\ ~ Patched("finalizer"))
  <2>1. ksm'[cur] = new
    BY <1>3, <1>4, <1>7 DEF Settle
  <2>2. \A f \in {"state", "owned", "addresses", "provisioned", "ready", "backend"} :
          new[f] = ksm[cur][f]
    BY <1>2 DEF new, KSMs
  <2> QED BY <1>1, <1>3, <1>5, <1>7, <2>1, <2>2
<1> QED BY <1>6, <1>7

\* The conditions and status patches, and the Machine controller's adoption,
\* touch neither the finalizer nor the providerID.
LEMMA OtherWrite ==
  ASSUME TypeOK, PatchConditions \/ PatchStatus \/ \E n \in Machines : AdoptKSM(n),
         NEW m \in Machines
  PROVE  /\ ksm'[m].state = ksm[m].state /\ ksm'[m].finalizer = ksm[m].finalizer
         /\ ksm'[m].providerID = ksm[m].providerID /\ ksm'[m].backend = ksm[m].backend
<1>1. ksm \in [Machines -> KSMs] /\ cur \in Machines /\ ksm[m] \in KSMs
  BY DEF TypeOK
<1>2. CASE PatchConditions
  BY <1>1, <1>2 DEF PatchConditions, KSMs
<1>3. CASE \E n \in Machines : AdoptKSM(n)
  BY <1>1, <1>3 DEF AdoptKSM, KSMs
<1>4. CASE PatchStatus
  <2>1. ksm'[m] = ksm[m] \/ (m = cur /\ ksm'[m] =
          [[ksm[m] EXCEPT !.addresses = Patched("addresses")]
              EXCEPT !.provisioned = Patched("provisioned")])
    BY <1>1, <1>4 DEF PatchStatus
  <2> QED BY <1>1, <2>1 DEF KSMs
<1> QED BY <1>2, <1>3, <1>4

\* Everything else leaves every machine's identity alone.
LEMMA KeepsMachines ==
  ASSUME TypeOK, Next, ~ PatchSpec,
         \A n \in Machines : ~ CreateKSM(n) /\ ~ DeleteKSM(n),
         NEW m \in Machines
  PROVE  /\ ksm'[m].state = ksm[m].state /\ ksm'[m].finalizer = ksm[m].finalizer
         /\ ksm'[m].providerID = ksm[m].providerID /\ ksm'[m].backend = ksm[m].backend
<1>1. CASE ksm' = ksm
  BY <1>1
<1>2. CASE \E n \in Machines : Reconcile(n)
  BY <1>1, <1>2
  DEF BeginPatch, Reconcile, ReconcileReturns, ReconcileErrs, WaitForInfrastructure,
      WaitForBootstrapData, InputsMissing, BackendRejects, BackendReconciles,
      ReconcileDelete, Begin, api
<1>3. CASE Runtime
  BY <1>1, <1>3
  DEF Runtime, SyncKSM, SyncMachine, SyncSecret, DeliverGuestEvent, TimerFires,
      SyncCluster, SyncKSC, Crash, api
<1>4. CASE Environment
  BY <1>1, <1>4, OtherWrite
  DEF Environment, CreateMachine, PublishBootstrap, ReportStatus, FinalizeGuest,
      OperatorDeletesGuest, NodeRegisters, NodeChanges, ClusterChanges
<1>5. CASE ReconcileStep
  BY <1>1, <1>5, OtherWrite
  DEF ReconcileStep, EnsureSeedProfile, FindSwiftGuest, CreateSwiftGuest, BackendFails,
      DeleteSwiftGuest, SwiftGuestGone, DeleteSeedProfile, DeleteFails, NodeNotFound,
      NodeHasID, NodeHasNoID, PatchNode, PatchNodeRefused, NodeFails, CallFails,
      PatchRefused, PatchFails, PatchStatusRefused, PatchStatusFails, api
<1> QED BY <1>2, <1>3, <1>4, <1>5 DEF Next

\* A user's deletion: the object goes at once where no finalizer holds it.
LEMMA DeletionWrite ==
  ASSUME TypeOK, NEW m \in Machines, DeleteKSM(m)
  PROVE  /\ ksm[m].state = "live"
         /\ \A n \in Machines \ {m} : ksm'[n] = ksm[n]
         /\ \/ ~ ksm[m].finalizer /\ ksm'[m] = AbsentKSM
            \/ /\ ksm[m].finalizer
               /\ ksm'[m].state = "deleting" /\ ksm'[m].finalizer
               /\ ksm'[m].providerID = ksm[m].providerID
<1>1. ksm \in [Machines -> KSMs] /\ ksm[m] \in KSMs
  BY DEF TypeOK
<1>2. ksm[m].state = "live" /\ ksm' = [ksm EXCEPT ![m] = Settle([ksm[m] EXCEPT !.state = "deleting"])]
  BY <1>1 DEF DeleteKSM
<1> QED BY <1>1, <1>2 DEF Settle, KSMs

-----------------------------------------------------------------------------
(* providerIDs stick                                                       *)

\* A step that writes no providerID, anywhere.
LEMMA IDFrame ==
  ASSUME IDInv, cur \in Machines, cKsm' = cKsm, UNCHANGED worker,
         \A m \in Machines : /\ ksm'[m].providerID = ksm[m].providerID
                             /\ ksm'[m].state = "absent" => ksm[m].state = "absent"
  PROVE  IDInv'
BY DEF IDInv, worker

\* A step of the worker that writes no machine, and leaves the providerID in its
\* copy alone or sets the one of the machine it works on.
LEMMA IDStepFrame ==
  ASSUME IDInv, pc # "idle", cKsm' = cKsm, cur' = cur, before' = before, ksm' = ksm,
         after'.providerID \in {after.providerID, ProviderID(cur)}
  PROVE  IDInv'
BY DEF IDInv

\* A reconcile starts from the cached providerID.
LEMMA IDBegin ==
  ASSUME TypeOK, IDInv, NEW m \in Machines, NEW k, NEW next, NEW again,
         Begin(m, k, next, again), k.providerID = cKsm[m].providerID
  PROVE  IDInv'
BY DEF Begin, IDInv, api, caches

\* Every step keeps IDInv.
LEMMA IDNext == TypeOK /\ IDInv /\ [Next]_vars => IDInv'
<1> SUFFICES ASSUME TypeOK, IDInv, [Next]_vars PROVE IDInv'
  OBVIOUS
<1>1. ksm \in [Machines -> KSMs] /\ cKsm \in [Machines -> KSMs] /\ cur \in Machines
      /\ after \in KSMs
  BY DEF TypeOK
<1>2. ASSUME NEW m \in Machines, Reconcile(m) PROVE IDInv'
  <2>1. CASE ReconcileReturns(m) \/ ReconcileErrs(m)
    BY <1>1, <2>1, IDFrame DEF ReconcileReturns, ReconcileErrs, api, caches
  <2>2. /\ WithFinalizer(m).providerID = cKsm[m].providerID
        /\ \A r : NotReady(WithFinalizer(m), r).providerID = cKsm[m].providerID
    BY <1>1 DEF WithFinalizer, NotReady, KSMs
  <2>3. CASE \/ WaitForInfrastructure(m) \/ WaitForBootstrapData(m) \/ InputsMissing(m)
             \/ BackendRejects(m) \/ BackendReconciles(m) \/ ReconcileDelete(m)
    BY <2>2, <2>3, IDBegin
    DEF WaitForInfrastructure, WaitForBootstrapData, InputsMissing, BackendRejects,
        BackendReconciles, ReconcileDelete, BeginPatch
  <2> QED BY <1>2, <2>1, <2>3 DEF Reconcile
<1>3. ASSUME ReconcileStep PROVE IDInv'
  <2>1. /\ \A s : Observe(s).providerID \in {after.providerID, ProviderID(cur)}
        /\ NotReady(after, "VMFailed").providerID = after.providerID
        /\ [after EXCEPT !.finalizer = FALSE].providerID = after.providerID
    BY <1>1 DEF Observe, NotReady, KSMs
  <2>2. CASE \/ EnsureSeedProfile \/ FindSwiftGuest \/ CreateSwiftGuest \/ BackendFails
             \/ DeleteSwiftGuest \/ SwiftGuestGone \/ DeleteSeedProfile \/ DeleteFails
    BY <2>1, <2>2, IDStepFrame
    DEF EnsureSeedProfile, FindSwiftGuest, CreateSwiftGuest, BackendFails, UseStatus,
        DeleteSwiftGuest, SwiftGuestGone, DeleteSeedProfile, DeleteFails, CallFails,
        EndReconcile, GoTo, api, caches
  <2>3. CASE \/ NodeNotFound \/ NodeHasID \/ NodeHasNoID \/ PatchNode \/ PatchNodeRefused
             \/ NodeFails \/ PatchRefused \/ PatchFails
    BY <2>3, IDStepFrame
    DEF NodeNotFound, NodeHasID, NodeHasNoID, PatchNode, PatchNodeRefused, NodeFails,
        PatchRefused, PatchFails, CallFails, EndReconcile, GoTo, api, caches
  <2>4. CASE PatchConditions
    BY <1>1, <2>4, OtherWrite DEF PatchConditions, GoTo, IDInv, caches
  <2>5. CASE PatchStatus
    BY <1>1, <2>5, OtherWrite DEF PatchStatus, Finish, IDInv, caches
  <2>6. CASE PatchStatusRefused \/ PatchStatusFails
    BY <1>1, <2>6 DEF PatchStatusRefused, PatchStatusFails, Finish, IDInv, api, caches
  <2>7. CASE PatchSpec
    <3>1. /\ pc = "spec" /\ cur' = cur /\ before' = before /\ after' = after /\ cKsm' = cKsm
      BY <2>7 DEF PatchSpec, GoTo, caches
    <3>2. Patched("providerID") \in {NoID, ProviderID(cur)}
      BY <1>1, <3>1 DEF Patched, IDInv
    <3>3. AbsentKSM.providerID = NoID
      BY DEF AbsentKSM
    <3>4. \A m \in Machines : /\ ksm'[m].providerID \in {NoID, ProviderID(m)}
                              /\ ksm'[m].state = "absent" => ksm'[m].providerID = NoID
      BY <1>1, <2>7, <3>2, <3>3, SpecWrite DEF IDInv
    <3> QED BY <3>1, <3>4 DEF IDInv
  <2> QED BY <1>3, <2>2, <2>3, <2>4, <2>5, <2>6, <2>7 DEF ReconcileStep
<1>4. ASSUME Runtime PROVE IDInv'
  <2>1. CASE Crash
    BY <2>1 DEF Crash, IDInv, api
  <2>2. ASSUME NEW m \in Machines, SyncKSM(m) PROVE IDInv'
    BY <1>1, <2>2 DEF SyncKSM, IDInv, api, worker
  <2>3. CASE ~ Crash /\ \A m \in Machines : ~ SyncKSM(m)
    BY <1>1, <1>4, <2>3, IDFrame
    DEF Runtime, SyncMachine, SyncSecret, DeliverGuestEvent, TimerFires, SyncCluster,
        SyncKSC, api, caches
  <2> QED BY <2>1, <2>2, <2>3
<1>5. ASSUME Environment PROVE IDInv'
  <2>1. cKsm' = cKsm /\ UNCHANGED worker
    BY <1>5
    DEF Environment, CreateKSM, CreateMachine, AdoptKSM, PublishBootstrap, DeleteKSM,
        ReportStatus, FinalizeGuest, OperatorDeletesGuest, NodeRegisters, NodeChanges,
        ClusterChanges, caches
  <2>2. ASSUME NEW m \in Machines, CreateKSM(m) PROVE IDInv'
    <3>1. ksm'[m].state = "live" /\ ksm'[m].providerID = NoID
      BY <1>1, <2>2 DEF CreateKSM, AbsentKSM
    <3>2. \A n \in Machines \ {m} : ksm'[n] = ksm[n]
      BY <1>1, <2>2 DEF CreateKSM
    <3> QED BY <2>1, <3>1, <3>2 DEF IDInv, worker
  <2>3. ASSUME NEW m \in Machines, DeleteKSM(m) PROVE IDInv'
    <3>1. AbsentKSM.providerID = NoID
      BY DEF AbsentKSM
    <3> QED BY <2>1, <2>3, <3>1, DeletionWrite DEF IDInv, worker
  <2>4. CASE \A m \in Machines : ~ CreateKSM(m) /\ ~ DeleteKSM(m)
    <3>1. ~ PatchSpec
      BY <1>1, <2>1, <2>4 DEF PatchSpec, GoTo, worker
    <3> QED BY <1>1, <1>5, <2>1, <2>4, <3>1, IDFrame, KeepsMachines DEF Next
  <2> QED BY <2>2, <2>3, <2>4
<1>6. CASE UNCHANGED vars
  BY <1>1, <1>6, IDFrame DEF vars, api, caches
<1> QED BY <1>2, <1>3, <1>4, <1>5, <1>6 DEF Next

\* A Node's or a machine's providerID, once there, is never replaced.
THEOREM ProviderIDsStickAlways == Spec => ProviderIDsStick
<1> DEFINE Stick == \A m \in Machines :
                      /\ node[m] \notin {{}, {NoID}} => node'[m] \in {node[m], {}}
                      /\ ksm[m].providerID # NoID /\ ksm'[m].state # "absent" =>
                           ksm'[m].providerID = ksm[m].providerID
<1>1. ASSUME TypeOK, IDInv, [Next]_vars PROVE [Stick]_vars
  <2> SUFFICES ASSUME Next, NEW m \in Machines
               PROVE  /\ node[m] \notin {{}, {NoID}} => node'[m] \in {node[m], {}}
                      /\ ksm[m].providerID # NoID /\ ksm'[m].state # "absent" =>
                           ksm'[m].providerID = ksm[m].providerID
    BY <1>1
  <2>1. /\ ksm \in [Machines -> KSMs] /\ cur \in Machines
        /\ node \in [Machines -> SUBSET ({NoID, ForeignID} \cup {ProviderID(n) : n \in Machines})]
    BY <1>1 DEF TypeOK
  <2>2. node[m] \notin {{}, {NoID}} => node'[m] \in {node[m], {}}
    <3>1. CASE node' = node
      BY <3>1
    <3>2. CASE PatchNode
      BY <2>1, <3>2 DEF PatchNode
    <3>3. ASSUME NEW n \in Machines, NodeRegisters(n) \/ NodeChanges(n)
          PROVE  node[m] \notin {{}, {NoID}} => node'[m] \in {node[m], {}}
      BY <2>1, <3>3 DEF NodeRegisters, NodeChanges
    <3>4. CASE \E n \in Machines : Reconcile(n)
      BY <3>1, <3>4
      DEF BeginPatch, Reconcile, ReconcileReturns, ReconcileErrs, WaitForInfrastructure,
          WaitForBootstrapData, InputsMissing, BackendRejects, BackendReconciles,
          ReconcileDelete, Begin, api
    <3>5. CASE Runtime
      BY <3>1, <3>5
      DEF Runtime, SyncKSM, SyncMachine, SyncSecret, DeliverGuestEvent, TimerFires,
          SyncCluster, SyncKSC, Crash, api
    <3>6. CASE Environment
      BY <3>1, <3>3, <3>6
      DEF Environment, CreateKSM, DeleteKSM, AdoptKSM, CreateMachine, PublishBootstrap,
          ReportStatus, FinalizeGuest, OperatorDeletesGuest, ClusterChanges
    <3>7. CASE ReconcileStep
      BY <3>1, <3>2, <3>7
      DEF ReconcileStep, EnsureSeedProfile, FindSwiftGuest, CreateSwiftGuest, BackendFails,
          DeleteSwiftGuest, SwiftGuestGone, DeleteSeedProfile, DeleteFails, NodeNotFound,
          NodeHasID, NodeHasNoID, PatchNodeRefused, NodeFails, CallFails, PatchConditions,
          PatchSpec, PatchRefused, PatchFails, PatchStatus, PatchStatusRefused,
          PatchStatusFails, api
    <3> QED BY <3>4, <3>5, <3>6, <3>7 DEF Next
  <2>3. ksm[m].providerID # NoID /\ ksm'[m].state # "absent" =>
          ksm'[m].providerID = ksm[m].providerID
    <3>1. ASSUME NEW n \in Machines, CreateKSM(n), ksm[m].providerID # NoID
          PROVE  ksm'[m] = ksm[m]
      BY <1>1, <2>1, <3>1 DEF CreateKSM, IDInv
    <3>2. ASSUME NEW n \in Machines, DeleteKSM(n), ksm'[m].state # "absent"
          PROVE  ksm'[m].providerID = ksm[m].providerID
      BY <1>1, <3>2, DeletionWrite DEF AbsentKSM
    <3>3. CASE PatchSpec
      <4>1. Patched("providerID") \in {ksm[cur].providerID, ProviderID(cur)}
        BY <1>1, <2>1, <3>3 DEF PatchSpec, Patched, IDInv
      <4>2. ksm[cur].providerID \in {NoID, ProviderID(cur)}
        BY <1>1, <2>1 DEF IDInv
      <4> QED BY <1>1, <3>3, <4>1, <4>2, SpecWrite DEF AbsentKSM
    <3> QED BY <1>1, <3>1, <3>2, <3>3, KeepsMachines
  <2> QED BY <2>2, <2>3
<1> QED
  BY <1>1, TypeCorrect, IDInit, IDNext, PTL DEF Spec, ProviderIDsStick

-----------------------------------------------------------------------------
(* KubeSwiftMachine implements MachineLifecycle                            *)

\* What makes a late deletion of the seed profile harmless: whoever is seen as
\* deleting either is, or has lost its profile already.
UnseedInv ==
  /\ \A m \in Machines :
       cKsm[m].state = "deleting" /\ ksm[m].state # "deleting" => seed[m] = "absent"
  /\ pc # "idle" /\ before.state = "deleting" /\ ksm[cur].state # "deleting" =>
       seed[cur] = "absent"

\* Initially no deletion is cached or in progress.
LEMMA UnseedInit == Init => UnseedInv
BY DEF Init, UnseedInv

\* A step that puts no machine into or out of deletion and creates no profile.
LEMMA UnseedFrame ==
  ASSUME TypeOK, UnseedInv, cKsm' = cKsm, pc' # "idle" => cur' = cur /\ before' = before /\ pc # "idle",
         \A m \in Machines : /\ ksm'[m].state = "deleting" <=> ksm[m].state = "deleting"
                             /\ seed[m] = "absent" => seed'[m] = "absent"
  PROVE  UnseedInv'
BY DEF UnseedInv, TypeOK

\* Every step keeps UnseedInv.
LEMMA UnseedNext ==
  TypeOK /\ TeardownInv /\ UnseedInv /\ [Next]_vars => UnseedInv'
<1> SUFFICES ASSUME TypeOK, TeardownInv, UnseedInv, [Next]_vars PROVE UnseedInv'
  OBVIOUS
<1>1. /\ ksm \in [Machines -> KSMs] /\ cKsm \in [Machines -> KSMs] /\ cur \in Machines
      /\ seed \in [Machines -> {"absent", "inline", "ref"}]
      /\ before \in KSMs /\ after \in KSMs
  BY DEF TypeOK
<1>2. ASSUME NEW m \in Machines, Reconcile(m) PROVE UnseedInv'
  <2>1. CASE ReconcileReturns(m) \/ ReconcileErrs(m)
    BY <2>1, UnseedFrame DEF ReconcileReturns, ReconcileErrs, api, caches, worker
  <2>2. CASE ~ (ReconcileReturns(m) \/ ReconcileErrs(m))
    BY <1>2, <2>2
    DEF BeginPatch, Reconcile, WaitForInfrastructure, WaitForBootstrapData, InputsMissing,
        BackendRejects, BackendReconciles, ReconcileDelete, Begin, UnseedInv, api, caches
  <2> QED BY <2>1, <2>2
<1>3. ASSUME ReconcileStep PROVE UnseedInv'
  <2>1. CASE EnsureSeedProfile
    <3>1. before.state = "live" /\ (cKsm[cur].state = "deleting" => ksm[cur].state = "deleting")
      BY <2>1 DEF EnsureSeedProfile, TeardownInv
    <3>2. /\ cKsm' = cKsm /\ ksm' = ksm /\ before' = before /\ cur' = cur
          /\ \A m \in Machines \ {cur} : seed'[m] = seed[m]
      BY <1>1, <2>1 DEF EnsureSeedProfile, GoTo, caches
    <3> QED BY <1>1, <3>1, <3>2 DEF UnseedInv
  <2>2. CASE PatchSpec
    <3>1. /\ pc = "spec" /\ cur' = cur /\ before' = before /\ cKsm' = cKsm /\ seed' = seed
      BY <2>2 DEF PatchSpec, GoTo, caches
    <3>2. \A m \in Machines \ {cur} : ksm'[m] = ksm[m]
      BY <2>2, SpecWrite
    <3>3. \/ ksm'[cur].state = ksm[cur].state
          \/ ksm[cur].state = "deleting" /\ ~ Patched("finalizer")
      BY <2>2, SpecWrite
    <3>4. ksm[cur].state = "deleting" /\ ~ Patched("finalizer") => seed[cur] = "absent"
      BY <1>1, <3>1 DEF Patched, TeardownInv, KSMs
    <3> QED BY <1>1, <3>1, <3>2, <3>3, <3>4 DEF UnseedInv
  <2>3. CASE PatchConditions
    BY <2>3, OtherWrite, UnseedFrame DEF PatchConditions, GoTo, caches
  <2>4. CASE PatchStatus
    BY <2>4, OtherWrite, UnseedFrame DEF PatchStatus, Finish, caches
  <2>5. CASE DeleteSeedProfile
    BY <1>1, <2>5, UnseedFrame DEF DeleteSeedProfile, EndReconcile, caches
  <2>6. CASE \/ FindSwiftGuest \/ CreateSwiftGuest \/ BackendFails
             \/ DeleteSwiftGuest \/ SwiftGuestGone \/ DeleteFails
    BY <2>6, UnseedFrame
    DEF FindSwiftGuest, CreateSwiftGuest, BackendFails, UseStatus, DeleteSwiftGuest,
        SwiftGuestGone, DeleteFails, CallFails, EndReconcile, GoTo, api, caches
  <2>7. CASE \/ NodeNotFound \/ NodeHasID \/ NodeHasNoID \/ PatchNode \/ PatchNodeRefused
             \/ NodeFails
    BY <2>7, UnseedFrame
    DEF NodeNotFound, NodeHasID, NodeHasNoID, PatchNode, PatchNodeRefused, NodeFails,
        CallFails, EndReconcile, GoTo, api, caches
  <2>8. CASE PatchRefused \/ PatchFails \/ PatchStatusRefused \/ PatchStatusFails
    BY <2>8, UnseedFrame
    DEF PatchRefused, PatchFails, PatchStatusRefused, PatchStatusFails, Finish, api, caches
  <2> QED
    BY <1>3, <2>1, <2>2, <2>3, <2>4, <2>5, <2>6, <2>7, <2>8 DEF ReconcileStep
<1>4. ASSUME Runtime PROVE UnseedInv'
  <2>1. CASE Crash
    BY <2>1 DEF Crash, UnseedInv, api
  <2>2. ASSUME NEW m \in Machines, SyncKSM(m) PROVE UnseedInv'
    BY <1>1, <2>2 DEF SyncKSM, UnseedInv, api, worker
  <2>3. CASE ~ Crash /\ \A m \in Machines : ~ SyncKSM(m)
    BY <1>4, <2>3, UnseedFrame
    DEF Runtime, SyncMachine, SyncSecret, DeliverGuestEvent, TimerFires, SyncCluster,
        SyncKSC, api, caches, worker
  <2> QED BY <2>1, <2>2, <2>3
<1>5. ASSUME Environment PROVE UnseedInv'
  <2>1. cKsm' = cKsm /\ UNCHANGED worker /\ seed' = seed
    BY <1>5
    DEF Environment, CreateKSM, CreateMachine, AdoptKSM, PublishBootstrap, DeleteKSM,
        ReportStatus, FinalizeGuest, OperatorDeletesGuest, NodeRegisters, NodeChanges,
        ClusterChanges, caches
  <2>2. ASSUME NEW m \in Machines, CreateKSM(m) \/ DeleteKSM(m) PROVE UnseedInv'
    <3>1. ksm[m].state # "deleting" /\ \A n \in Machines \ {m} : ksm'[n] = ksm[n]
      BY <1>1, <2>2 DEF CreateKSM, DeleteKSM
    <3> QED BY <1>1, <2>1, <3>1 DEF UnseedInv, worker
  <2>4. CASE \A m \in Machines : ~ CreateKSM(m) /\ ~ DeleteKSM(m)
    <3>1. ~ PatchSpec
      BY <1>1, <2>1 DEF PatchSpec, GoTo, worker
    <3> QED BY <1>1, <1>5, <2>1, <2>4, <3>1, UnseedFrame, KeepsMachines DEF Next, worker
  <2> QED BY <2>2, <2>4
<1>6. CASE UNCHANGED vars
  BY <1>6, UnseedFrame DEF vars, api, caches, worker
<1> QED BY <1>2, <1>3, <1>4, <1>5, <1>6 DEF Next

\* The initial states, with and without legacy machines, are initial states of
\* the lifecycle.
LEMMA LifecycleInit == Init => Lifecycle!Init
<1> SUFFICES ASSUME Init PROVE Lifecycle!Init
  OBVIOUS
<1>1. PICK b \in Backends, s \in {t \in Statuses : Provisioned(t)} :
        /\ ksm = [m \in Machines |-> IF m \in Legacy THEN LegacyKSM(m, b, s) ELSE AbsentKSM]
        /\ guest = [m \in Machines |->
             IF m \in Legacy
             THEN [state |-> "live", status |-> s,
                   spec |-> {RenderSwiftGuest(m, c, {}) : c \in b}]
             ELSE AbsentGuest]
  BY DEF Init
<1>2. \A m \in Machines : /\ LegacyKSM(m, b, s).state = "live"
                          /\ LegacyKSM(m, b, s).finalizer = TRUE
                          /\ LegacyKSM(m, b, s).providerID # NoID
  BY ProviderIDSet DEF LegacyKSM, AbsentKSM
<1>3. /\ AbsentKSM.state = "absent" /\ AbsentKSM.finalizer = FALSE
      /\ AbsentKSM.providerID = NoID /\ AbsentGuest.state = "absent"
  BY DEF AbsentKSM, AbsentGuest
<1>4. \A m \in Machines :
        \/ /\ ksm[m].state = "live" /\ ksm[m].finalizer = TRUE /\ ksm[m].providerID # NoID
           /\ guest[m].state = "live" /\ seed[m] # "absent"
        \/ /\ ksm[m].state = "absent" /\ ksm[m].finalizer = FALSE
           /\ ksm[m].providerID = NoID /\ guest[m].state = "absent" /\ seed[m] = "absent"
  <2>1. ASSUME NEW m \in Legacy, m \in Machines
        PROVE  /\ ksm[m].state = "live" /\ ksm[m].finalizer = TRUE /\ ksm[m].providerID # NoID
               /\ guest[m].state = "live" /\ seed[m] # "absent"
    <3>1. ksm[m] = LegacyKSM(m, b, s) /\ guest[m].state = "live"
      BY <1>1, <2>1
    <3> QED BY <1>2, <2>1, <3>1 DEF Init
  <2>2. ASSUME NEW m \in Machines \ Legacy
        PROVE  /\ ksm[m].state = "absent" /\ ksm[m].finalizer = FALSE
               /\ ksm[m].providerID = NoID /\ guest[m].state = "absent" /\ seed[m] = "absent"
    <3>1. ksm[m] = AbsentKSM /\ guest[m] = AbsentGuest
      BY <1>1, <2>2
    <3> QED BY <1>3, <2>2, <3>1 DEF Init
  <2> QED BY <2>1, <2>2
<1>5. used["fault"] = 0
  BY DEF Init, Kinds
<1>6. \A m \in Machines : Lifecycle!Nothing(m) \/ Lifecycle!Running(m)
  BY <1>4 DEF Lifecycle!Nothing, Lifecycle!Running
<1> QED BY <1>4, <1>5, <1>6 DEF Lifecycle!Init

\* Only the counter of the kind that is spent moves.
LEMMA SpendCounts ==
  ASSUME TypeOK, NEW kind \in Kinds, Spend(kind)
  PROVE  used'["fault"] = IF kind = "fault" THEN used["fault"] + 1 ELSE used["fault"]
BY DEF Spend, TypeOK, Kinds

\* What the lifecycle sees of a machine's object.
SameObject(m) ==
  /\ ksm'[m].state = ksm[m].state /\ ksm'[m].finalizer = ksm[m].finalizer
  /\ ksm'[m].providerID = ksm[m].providerID

\* A step that changes nothing the lifecycle sees.
LEMMA Stutter ==
  ASSUME used'["fault"] = used["fault"],
         \A m \in Machines : /\ SameObject(m) /\ guest'[m].state = guest[m].state
                             /\ seed'[m] = "absent" <=> seed[m] = "absent"
  PROVE  UNCHANGED Lifecycle!vars
BY DEF Lifecycle!vars, SameObject

\* A failed call, a restart or a VM deleted by somebody else is a mishap.
LEMMA FaultIsMishap ==
  ASSUME TypeOK, Spend("fault"), seed' = seed, \A m \in Machines : SameObject(m),
         \/ guest' = guest
         \/ \E m \in Machines : /\ guest[m].state = "live" /\ guest'[m].state = "deleting"
                                /\ \A n \in Machines \ {m} : guest'[n] = guest[n]
  PROVE  Lifecycle!Mishap
<1>1. used'["fault"] = used["fault"] + 1
  BY SpendCounts DEF Kinds
<1> QED BY <1>1 DEF Lifecycle!Mishap, SameObject

\* A user creates or deletes a KubeSwiftMachine.
LEMMA UserRefines ==
  ASSUME TypeOK, TeardownInv, IDInv, NEW m \in Machines, CreateKSM(m) \/ DeleteKSM(m)
  PROVE  Lifecycle!Create(m) \/ Lifecycle!Delete(m)
<1>1. ksm \in [Machines -> KSMs] /\ guest' = guest /\ seed' = seed
  BY DEF TypeOK, CreateKSM, DeleteKSM
<1>2. used'["fault"] = used["fault"]
  BY SpendCounts DEF CreateKSM, DeleteKSM, Kinds
<1>3. /\ AbsentKSM.state = "absent" /\ AbsentKSM.finalizer = FALSE
      /\ AbsentKSM.providerID = NoID
  BY DEF AbsentKSM
<1>4. CASE CreateKSM(m)
  <2>1. /\ ksm[m].state = "absent" /\ ~ ksm[m].finalizer /\ ksm[m].providerID = NoID
        /\ ksm[m].finalizer \in BOOLEAN
    BY <1>1, <1>4 DEF CreateKSM, TeardownInv, IDInv, KSMs
  <2>2. /\ ksm'[m].state = "live" /\ ksm'[m].finalizer = FALSE /\ ksm'[m].providerID = NoID
        /\ \A n \in Machines \ {m} : ksm'[n] = ksm[n]
    BY <1>1, <1>4 DEF CreateKSM, AbsentKSM
  <2> QED BY <1>1, <1>2, <2>1, <2>2 DEF Lifecycle!Create
<1>5. CASE DeleteKSM(m)
  <2>1. /\ ksm[m].state = "live"
        /\ \A n \in Machines \ {m} : ksm'[n] = ksm[n]
        /\ \/ ~ ksm[m].finalizer /\ ksm'[m] = AbsentKSM
           \/ /\ ksm[m].finalizer
              /\ ksm'[m].state = "deleting" /\ ksm'[m].finalizer
              /\ ksm'[m].providerID = ksm[m].providerID
    BY <1>5, DeletionWrite
  <2>2. CASE ~ ksm[m].finalizer /\ ksm'[m] = AbsentKSM
    BY <1>1, <1>2, <1>3, <2>1, <2>2 DEF Lifecycle!Delete, Lifecycle!Removed
  <2>3. CASE /\ ksm[m].finalizer /\ ksm'[m].state = "deleting" /\ ksm'[m].finalizer
             /\ ksm'[m].providerID = ksm[m].providerID
    <3>1. ksm'[m].finalizer = ksm[m].finalizer
      BY <1>1, <2>3, TypeNext DEF TypeOK, KSMs, Next, Environment
    <3> QED BY <1>1, <1>2, <2>1, <2>3, <3>1 DEF Lifecycle!Delete
  <2> QED BY <2>1, <2>2, <2>3
<1> QED BY <1>4, <1>5

\* The spec patch records the finalizer or the providerID, or releases the object.
LEMMA PatchSpecRefines ==
  ASSUME TypeOK, TeardownInv, IDInv, PatchSpec, NEW m \in Machines, m = cur
  PROVE  Lifecycle!Record(m) \/ Lifecycle!Release(m)
<1>1. /\ ksm \in [Machines -> KSMs] /\ cur \in Machines /\ ksm[cur] \in KSMs
      /\ before \in KSMs /\ after \in KSMs
  BY DEF TypeOK
<1>2. pc = "spec" /\ guest' = guest /\ seed' = seed /\ used' = used
  BY DEF PatchSpec
<1>3. /\ \A n \in Machines \ {cur} : ksm'[n] = ksm[n]
      /\ ksm[cur].state # "absent"
      /\ \/ /\ ksm[cur].state = "deleting" /\ ~ Patched("finalizer")
            /\ ksm'[cur] = AbsentKSM
         \/ /\ ksm[cur].state # "deleting" \/ Patched("finalizer")
            /\ ksm'[cur].state = ksm[cur].state
            /\ ksm'[cur].finalizer = Patched("finalizer")
            /\ ksm'[cur].providerID = Patched("providerID")
  BY SpecWrite
<1>4. CASE ksm[cur].state = "deleting" /\ ~ Patched("finalizer") /\ ksm'[cur] = AbsentKSM
  <2>1. guest[cur].state = "absent" /\ seed[cur] = "absent" /\ ksm[cur].finalizer
    BY <1>1, <1>2, <1>4 DEF Patched, TeardownInv, KSMs
  <2>2. /\ ksm'[cur].state = "absent" /\ ksm'[cur].finalizer = FALSE
        /\ ksm'[cur].providerID = NoID
    BY <1>4 DEF AbsentKSM
  <2> QED
    BY <1>1, <1>2, <1>3, <1>4, <2>1, <2>2 DEF Lifecycle!Release, Lifecycle!Removed
<1>5. CASE /\ ksm[cur].state # "deleting" \/ Patched("finalizer")
           /\ ksm'[cur].state = ksm[cur].state
           /\ ksm'[cur].finalizer = Patched("finalizer")
           /\ ksm'[cur].providerID = Patched("providerID")
  <2>1. Patched("finalizer") \in {ksm[cur].finalizer, TRUE}
    BY <1>1, <1>2, <1>5 DEF Patched, TeardownInv, KSMs
  <2>2. Patched("providerID") # NoID \/ (Patched("providerID") = NoID /\ ksm[cur].providerID = NoID)
    BY <1>1, <1>2, ProviderIDSet DEF Patched, IDInv
  <2>3. (ksm'[cur].providerID # NoID) \in {ksm[cur].providerID # NoID, TRUE}
    BY <1>5, <2>2
  <2> QED BY <1>1, <1>2, <1>3, <1>5, <2>1, <2>3 DEF Lifecycle!Record
<1> QED BY <1>3, <1>4, <1>5

\* The worker's live calls on the seed profile and the guest.
LEMMA BackendRefines ==
  ASSUME TypeOK, SeedInv, TeardownInv, UnseedInv,
         EnsureSeedProfile \/ CreateSwiftGuest \/ DeleteSwiftGuest \/ DeleteSeedProfile,
         NEW m \in Machines, m = cur
  PROVE  \/ Lifecycle!Seed(m) \/ Lifecycle!Boot(m) \/ Lifecycle!Teardown(m)
         \/ Lifecycle!Unseed(m) \/ UNCHANGED Lifecycle!vars
<1>1. /\ ksm' = ksm /\ used' = used /\ cur \in Machines
      /\ guest \in [Machines -> Guests] /\ seed \in [Machines -> {"absent", "inline", "ref"}]
  BY DEF TypeOK, EnsureSeedProfile, CreateSwiftGuest, DeleteSwiftGuest, DeleteSeedProfile
<1>2. CASE EnsureSeedProfile
  BY <1>1, <1>2 DEF EnsureSeedProfile, Lifecycle!Seed
<1>3. CASE CreateSwiftGuest
  <2>1. guest[cur].state = "absent" /\ seed[cur] # "absent" /\ seed' = seed
    BY <1>3 DEF CreateSwiftGuest, SeedInv
  <2>2. guest'[cur].state = "live" /\ \A n \in Machines \ {cur} : guest'[n] = guest[n]
    BY <1>1, <1>3 DEF CreateSwiftGuest
  <2> QED BY <1>1, <2>1, <2>2 DEF Lifecycle!Boot
<1>4. CASE DeleteSwiftGuest
  <2>1. seed' = seed /\ pc = "deleteGuest" /\ guest[cur].state # "absent"
    BY <1>4 DEF DeleteSwiftGuest
  <2>2. ksm[cur].state = "deleting"
    BY <2>1 DEF TeardownInv
  <2>3. guest'[cur].state = "deleting" /\ \A n \in Machines \ {cur} : guest'[n] = guest[n]
    BY <1>1, <1>4 DEF DeleteSwiftGuest, Guests
  <2>4. CASE guest[cur].state = "live"
    BY <1>1, <2>1, <2>2, <2>3, <2>4 DEF Lifecycle!Teardown
  <2>5. CASE guest[cur].state = "deleting"
    BY <1>1, <2>1, <2>3, <2>5, Stutter DEF SameObject
  <2> QED BY <1>1, <2>1, <2>4, <2>5 DEF Guests
<1>5. CASE DeleteSeedProfile
  <2>1. /\ pc = "deleteSeed" /\ guest' = guest /\ guest[cur].state = "absent"
        /\ seed' = [seed EXCEPT ![cur] = "absent"]
    BY <1>5 DEF DeleteSeedProfile, SeedInv
  <2>2. ksm[cur].state = "deleting" \/ seed[cur] = "absent"
    BY <2>1 DEF UnseedInv, TeardownInv
  <2>3. CASE ksm[cur].state = "deleting"
    BY <1>1, <2>1, <2>3 DEF Lifecycle!Unseed
  <2>4. CASE seed[cur] = "absent"
    BY <1>1, <2>1, <2>4, Stutter DEF SameObject
  <2> QED BY <2>2, <2>3, <2>4
<1> QED BY <1>2, <1>3, <1>4, <1>5

\* KubeSwift finishes deleting a guest.
LEMMA FinalizeRefines ==
  ASSUME TypeOK, NEW m \in Machines, FinalizeGuest(m)
  PROVE  Lifecycle!Gone(m)
<1>1. /\ ksm' = ksm /\ used' = used /\ seed' = seed /\ guest \in [Machines -> Guests]
  BY DEF TypeOK, FinalizeGuest
<1>2. /\ guest[m].state = "deleting" /\ guest'[m].state = "absent"
      /\ \A n \in Machines \ {m} : guest'[n] = guest[n]
  BY <1>1 DEF FinalizeGuest, AbsentGuest
<1> QED BY <1>1, <1>2 DEF Lifecycle!Gone

\* Every step of the worker is a step of the lifecycle, or none.
LEMMA ReconcileStepRefines ==
  ASSUME TypeOK, SeedInv, TeardownInv, IDInv, UnseedInv, ReconcileStep
  PROVE  [Lifecycle!Next]_Lifecycle!vars
<1>1. PICK m \in Machines : m = cur
  BY DEF TypeOK
<1>3. CASE EnsureSeedProfile \/ CreateSwiftGuest \/ DeleteSwiftGuest \/ DeleteSeedProfile
  BY <1>1, <1>3, BackendRefines DEF Lifecycle!Next
<1>4. CASE PatchSpec
  BY <1>1, <1>4, PatchSpecRefines DEF Lifecycle!Next
<1>5. CASE \/ BackendFails \/ DeleteFails \/ NodeFails \/ PatchFails \/ PatchStatusFails
  <2>1. ksm' = ksm /\ guest' = guest /\ seed' = seed /\ Spend("fault")
    BY <1>5
    DEF BackendFails, DeleteFails, NodeFails, CallFails, PatchFails, PatchStatusFails, api
  <2> QED BY <2>1, FaultIsMishap DEF Lifecycle!Next, SameObject
<1>6. CASE PatchConditions \/ PatchStatus
  <2>1. guest' = guest /\ seed' = seed /\ used' = used
    BY <1>6 DEF PatchConditions, PatchStatus
  <2> QED BY <1>6, <2>1, OtherWrite, Stutter DEF SameObject
<1>7. CASE \/ FindSwiftGuest \/ SwiftGuestGone \/ NodeNotFound \/ NodeHasID \/ NodeHasNoID
           \/ PatchNode \/ PatchNodeRefused \/ PatchRefused \/ PatchStatusRefused
  <2>1. ksm' = ksm /\ guest' = guest /\ seed' = seed /\ used' = used
    BY <1>7
    DEF FindSwiftGuest, SwiftGuestGone, NodeNotFound, NodeHasID, NodeHasNoID, PatchNode,
        PatchNodeRefused, PatchRefused, PatchStatusRefused, api
  <2> QED BY <2>1, Stutter DEF SameObject
<1> QED BY <1>3, <1>4, <1>5, <1>6, <1>7 DEF ReconcileStep

\* So is everything around the worker.
LEMMA SurroundingsRefine ==
  ASSUME TypeOK, TeardownInv, IDInv,
         (\E m \in Machines : Reconcile(m)) \/ Runtime \/ Environment
  PROVE  [Lifecycle!Next]_Lifecycle!vars
<1>1. CASE ksm' = ksm /\ guest' = guest /\ seed' = seed /\ used' = used
  BY <1>1, Stutter DEF SameObject
<1>2. CASE \E m \in Machines : Reconcile(m)
  BY <1>1, <1>2
  DEF BeginPatch, Reconcile, ReconcileReturns, ReconcileErrs, WaitForInfrastructure,
      WaitForBootstrapData, InputsMissing, BackendRejects, BackendReconciles,
      ReconcileDelete, Begin, api
<1>3. CASE Runtime
  <2>1. CASE Crash
    BY <2>1, FaultIsMishap DEF Crash, api, Lifecycle!Next, SameObject
  <2>2. CASE ~ Crash
    BY <1>1, <1>3, <2>2
    DEF Runtime, SyncKSM, SyncMachine, SyncSecret, DeliverGuestEvent, TimerFires,
        SyncCluster, SyncKSC, api
  <2> QED BY <2>1, <2>2
<1>4. CASE Environment
  <2>1. ASSUME NEW m \in Machines, CreateKSM(m) \/ DeleteKSM(m)
        PROVE  [Lifecycle!Next]_Lifecycle!vars
    BY <2>1, UserRefines DEF Lifecycle!Next
  <2>2. ASSUME NEW m \in Machines, FinalizeGuest(m)
        PROVE  [Lifecycle!Next]_Lifecycle!vars
    BY <2>2, FinalizeRefines DEF Lifecycle!Next
  <2>3. ASSUME NEW m \in Machines, OperatorDeletesGuest(m)
        PROVE  [Lifecycle!Next]_Lifecycle!vars
    <3>1. /\ guest[m].state = "live" /\ guest'[m].state = "deleting"
          /\ \A n \in Machines \ {m} : guest'[n] = guest[n]
      BY <2>3 DEF OperatorDeletesGuest, TypeOK, Guests
    <3>2. ksm' = ksm /\ seed' = seed /\ Spend("fault")
      BY <2>3 DEF OperatorDeletesGuest
    <3> QED BY <3>1, <3>2, FaultIsMishap DEF Lifecycle!Next, SameObject
  <2>4. ASSUME NEW m \in Machines, ReportStatus(m)
        PROVE  [Lifecycle!Next]_Lifecycle!vars
    <3>1. \A n \in Machines : guest'[n].state = guest[n].state
      BY <2>4 DEF ReportStatus, TypeOK, Guests
    <3>2. ksm' = ksm /\ seed' = seed /\ used'["fault"] = used["fault"]
      BY <2>4, SpendCounts DEF ReportStatus, Kinds
    <3> QED BY <3>1, <3>2, Stutter DEF SameObject
  <2>5. ASSUME NEW m \in Machines, NodeRegisters(m) \/ NodeChanges(m)
        PROVE  [Lifecycle!Next]_Lifecycle!vars
    <3>1. ksm' = ksm /\ guest' = guest /\ seed' = seed /\ used'["fault"] = used["fault"]
      BY <2>5, SpendCounts DEF NodeRegisters, NodeChanges, Kinds
    <3> QED BY <3>1, Stutter DEF SameObject
  <2>6. ASSUME NEW m \in Machines, AdoptKSM(m)
        PROVE  [Lifecycle!Next]_Lifecycle!vars
    <3>1. guest' = guest /\ seed' = seed /\ used' = used
      BY <2>6 DEF AdoptKSM
    <3> QED BY <2>6, <3>1, OtherWrite, Stutter DEF SameObject
  <2>7. ASSUME NEW m \in Machines, CreateMachine(m) \/ PublishBootstrap(m)
        PROVE  [Lifecycle!Next]_Lifecycle!vars
    BY <1>1, <2>7 DEF CreateMachine, PublishBootstrap
  <2>8. CASE ClusterChanges
    <3>1. ksm' = ksm /\ guest' = guest /\ seed' = seed /\ used'["fault"] = used["fault"]
      BY <2>8, SpendCounts DEF ClusterChanges, Kinds
    <3> QED BY <3>1, Stutter DEF SameObject
  <2> QED
    BY <1>4, <2>1, <2>2, <2>3, <2>4, <2>5, <2>6, <2>7, <2>8 DEF Environment
<1> QED BY <1>2, <1>3, <1>4

\* The controller, with its caches, its queue, its three-part patches and its
\* restarts, is the machine provider of MachineLifecycle.
THEOREM ImplementsLifecycleAlways == Spec => ImplementsLifecycle
<1>1. TypeOK /\ SeedInv /\ TeardownInv /\ IDInv /\ UnseedInv /\ [Next]_vars
        => [Lifecycle!Next]_Lifecycle!vars
  <2> SUFFICES ASSUME TypeOK, SeedInv, TeardownInv, IDInv, UnseedInv, [Next]_vars
               PROVE  [Lifecycle!Next]_Lifecycle!vars
    OBVIOUS
  <2>1. CASE Next
    BY <2>1, ReconcileStepRefines, SurroundingsRefine DEF Next
  <2>2. CASE UNCHANGED vars
    BY <2>2, Stutter DEF vars, api, SameObject
  <2> QED BY <2>1, <2>2
<1> QED
  BY <1>1, LifecycleInit, TypeCorrect, SeedInit, SeedNext, TeardownInit, TeardownNext,
     IDInit, IDNext, UnseedInit, UnseedNext, PTL
  DEF Spec, ImplementsLifecycle, Lifecycle!Spec
=============================================================================
