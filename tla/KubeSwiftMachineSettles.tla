---------------------- MODULE KubeSwiftMachineSettles ----------------------
(***************************************************************************)
(* No lost wake-up, for any number of machines, any configurations,        *)
(* statuses and bounds, and a Cluster that is there and stays as it is:    *)
(* once nothing is pending for a machine, it reports its guest as it is    *)
(* now, or waits for bootstrap data.                                       *)
(***************************************************************************)
EXTENDS KubeSwiftMachineRefinement

-----------------------------------------------------------------------------
(* The inductive invariant                                                 *)

\* Something will bring the worker back to m.
Pending(m) == m \in queue \cup delayed \cup guestEvents

\* Reconcile would get past its early returns, the Cluster being open.
Owned(m) == cKsm[m].state # "absent" /\ cKsm[m].owned /\ cMachine[m] # "absent"

\* The object k of machine m is what the last reconcile should leave.
Waits(m, k) == /\ cMachine[m] = "noData"
               /\ k.ready = "WaitingForBootstrapData" /\ k.provisioned = "false"

Reports(m, k) ==
  /\ cMachine[m] = "ready"
  /\ k.provisioned = "true" /\ k.ready = "VMProvisioned" /\ k.providerID = ProviderID(m)
  /\ guest[m].state # "absent" /\ Provisioned(guest[m].status)
  /\ k.addresses = GuestAddresses(guest[m].status)
  /\ seed[m] = "ref"

\* The Node of m has yet to register, or to be given an ID, and nothing else has
\* happened to any Node.
Unbound(m) == \/ used["node"] = 0 /\ node[m] = {}
              \/ used["node"] \in {0, 1} /\ node[m] = {NoID}

\* No step brings that about.
StaysBound == \A m \in Machines : Unbound(m)' => Unbound(m)

\* The cached copy of m is current, but perhaps for its owner.
SameAsCached(m) ==
  /\ ksm[m].state = cKsm[m].state /\ ksm[m].finalizer = cKsm[m].finalizer
  /\ ksm[m].providerID = cKsm[m].providerID /\ ksm[m].addresses = cKsm[m].addresses
  /\ ksm[m].provisioned = cKsm[m].provisioned /\ ksm[m].ready = cKsm[m].ready

\* A machine the worker has left: if the cached copy it worked from is current,
\* the machine is as it should be. The two other conjuncts say why the copy cannot
\* become current again behind the cache's back.
RestInv(m) ==
  ~ Pending(m) /\ Owned(m) =>
    /\ cKsm[m].state = "deleting" => ksm[m].state # "deleting"
    /\ cKsm[m].state = "live" =>
         /\ cMachine[m] # "named"
         /\ ksm[m].finalizer \/ cKsm[m].finalizer
    /\ SameAsCached(m) =>
         /\ ksm[m].finalizer
         /\ Waits(m, ksm[m]) \/ (Reports(m, ksm[m]) /\ ~ Unbound(m))

Patching == pc \in {"conditions", "spec", "status"}

\* The worker on an object under deletion: it will drop the finalizer.
DeletingInv ==
  Patching => /\ ~ after.finalizer
              /\ pc = "status" => ksm[cur].state # "deleting"

\* The worker on a live object, by the calls it has made and the writes it has
\* done: a write that was due has been made, unless the object it was made to has
\* been replaced since, by one without the finalizer.
LiveInv ==
  /\ cMachine[cur] # "named"
  /\ pc \in {"seed", "guest", "node", "nodePatch"} => cMachine[cur] = "ready"
  /\ pc = "guest" => seed[cur] = "ref"
  /\ pc \in {"node", "nodePatch"} => Reports(cur, after)
  /\ Patching => Waits(cur, after) \/ (Reports(cur, after) /\ ~ Unbound(cur))
  /\ pc \in {"spec", "status"} /\ ksm[cur].finalizer /\ before.finalizer
       /\ ksm[cur].ready = before.ready => before.ready = after.ready
  /\ pc = "status" =>
       /\ ksm[cur].finalizer \/ before.finalizer
       /\ ksm[cur].finalizer /\ before.finalizer /\ ksm[cur].providerID = before.providerID
            => before.providerID = after.providerID

\* The worker, unless something will bring it back anyway.
WorkInv ==
  ~ requeue /\ ~ Pending(cur) =>
    /\ cKsm[cur] = before
    /\ before.state = "deleting" => DeletingInv
    /\ before.state = "live" => LiveInv

SettleInv ==
  /\ cCluster.exists /\ ~ cCluster.paused /\ cCluster.infra /\ cluster = cCluster
  /\ \A m \in Machines : pc = "idle" \/ cur # m => RestInv(m)
  /\ pc # "idle" => after.state = before.state /\ WorkInv
  /\ requeue => Patching

\* Initially the worker is idle, and every machine is absent or queued.
LEMMA SettleInit == ~ ClusterMayChange /\ Init => SettleInv
<1> SUFFICES ASSUME ~ ClusterMayChange, Init PROVE SettleInv
  OBVIOUS
<1>1. /\ cCluster.exists /\ ~ cCluster.paused /\ cCluster.infra /\ cluster = cCluster
      /\ pc = "idle" /\ ~ requeue
  BY DEF Init
<1>2. \A m \in Machines : m \in queue \/ cKsm[m].state = "absent"
  BY DEF Init, AbsentKSM
<1>3. \A m \in Machines : RestInv(m)
  BY <1>2 DEF RestInv, Pending, Owned
<1> QED BY <1>1, <1>3 DEF SettleInv

-----------------------------------------------------------------------------
(* Steps that leave the worker alone                                       *)

\* The step leaves of m's object what the invariant speaks of.
Kept(m) ==
  /\ ksm'[m].state = ksm[m].state /\ ksm'[m].finalizer = ksm[m].finalizer
  /\ ksm'[m].providerID = ksm[m].providerID /\ ksm'[m].addresses = ksm[m].addresses
  /\ ksm'[m].provisioned = ksm[m].provisioned /\ ksm'[m].ready = ksm[m].ready

\* Either the step wakes the worker for m, or it leaves m alone.
WokenOrKept(m) ==
  /\ Pending(m) => Pending(m)'
  /\ \/ Pending(m)'
     \/ /\ Kept(m) /\ guest'[m] = guest[m] /\ seed'[m] = seed[m]
        /\ cKsm'[m] = cKsm[m] /\ cMachine'[m] = cMachine[m]

\* A machine the worker has left stays as it should be.
LEMMA RestKept ==
  ASSUME StaysBound, NEW m \in Machines, RestInv(m), WokenOrKept(m)
  PROVE  RestInv(m)'
BY DEF RestInv, WokenOrKept, Kept, SameAsCached, Waits, Reports, Owned, StaysBound

\* So does what the worker has done for its machine.
LEMMA WorkKept ==
  ASSUME StaysBound, WorkInv, cur \in Machines, UNCHANGED worker, WokenOrKept(cur)
  PROVE  WorkInv'
BY DEF WorkInv, WokenOrKept, Kept, DeletingInv, LiveInv, Patching, Waits, Reports, worker,
       StaysBound, Unbound

\* The invariant survives every step that wakes the worker for what it changes.
LEMMA SettleFrame ==
  ASSUME StaysBound, TypeOK, SettleInv, UNCHANGED worker, UNCHANGED <<cluster, cCluster>>,
         \A m \in Machines : WokenOrKept(m)
  PROVE  SettleInv'
<1>1. cur \in Machines
  BY DEF TypeOK
<1>2. ASSUME NEW m \in Machines, pc = "idle" \/ cur # m PROVE RestInv(m)'
  BY <1>2, RestKept DEF SettleInv
<1>3. pc # "idle" => WorkInv'
  BY <1>1, WorkKept DEF SettleInv
<1> QED BY <1>2, <1>3 DEF SettleInv, worker, Patching

\* A machine is created only where there is none, so the copy in the cache, which
\* has the finalizer, is not current.
LEMMA SettleCreate ==
  ASSUME StaysBound, TypeOK, TeardownInv, SettleInv, NEW m \in Machines, CreateKSM(m)
  PROVE  SettleInv'
<1>1. /\ UNCHANGED worker /\ UNCHANGED <<cluster, cCluster>>
      /\ guest' = guest /\ seed' = seed /\ cKsm' = cKsm /\ cMachine' = cMachine
      /\ \A n : Pending(n)' = Pending(n)
  BY DEF CreateKSM, caches, wakeups, Pending
<1>2. /\ ksm[m].state = "absent" /\ ~ ksm[m].finalizer
      /\ ksm'[m].state = "live" /\ ~ ksm'[m].finalizer
  BY DEF CreateKSM, AbsentKSM, TypeOK, TeardownInv
<1>3. \A n \in Machines \ {m} : ksm'[n] = ksm[n]
  BY DEF CreateKSM, TypeOK
<1>4. \A n \in Machines \ {m} : WokenOrKept(n)
  BY <1>1, <1>3 DEF WokenOrKept, Kept
<1>5. cur \in Machines
  BY DEF TypeOK
<1>6. RestInv(m) => RestInv(m)'
  BY <1>1, <1>2 DEF RestInv, Owned, SameAsCached
<1>7. ASSUME NEW n \in Machines, pc = "idle" \/ cur # n PROVE RestInv(n)'
  BY <1>4, <1>6, <1>7, RestKept DEF SettleInv
<1>8. CASE cur = m
  <2>1. WorkInv => WorkInv'
    BY <1>1, <1>2, <1>5, <1>8
    DEF WorkInv, DeletingInv, LiveInv, Patching, Waits, Reports, worker, StaysBound, Unbound
  <2> QED BY <1>1, <1>7, <2>1 DEF SettleInv, worker, Patching
<1>9. CASE cur # m
  <2>1. pc # "idle" => WorkInv'
    BY <1>1, <1>4, <1>5, <1>9, WorkKept DEF SettleInv
  <2> QED BY <1>1, <1>7, <2>1 DEF SettleInv, worker, Patching
<1> QED BY <1>8, <1>9

\* The deletion of a machine changes its state and nothing else the invariant
\* speaks of, or removes it.
LEMMA DeletionKeeps ==
  ASSUME TypeOK, NEW m \in Machines, DeleteKSM(m)
  PROVE  \/ ~ ksm[m].finalizer /\ ksm'[m].state = "absent" /\ ~ ksm'[m].finalizer
         \/ /\ ksm[m].finalizer
            /\ ksm'[m].state = "deleting" /\ ksm'[m].finalizer
            /\ ksm'[m].providerID = ksm[m].providerID /\ ksm'[m].ready = ksm[m].ready
<1>1. ksm \in [Machines -> KSMs] /\ ksm[m] \in KSMs
  BY DEF TypeOK
<1>2. ksm' = [ksm EXCEPT ![m] = Settle([ksm[m] EXCEPT !.state = "deleting"])]
  BY <1>1 DEF DeleteKSM
<1> QED BY <1>1, <1>2 DEF Settle, KSMs, AbsentKSM

\* A deletion is news to a cache that has the machine live.
LEMMA SettleDelete ==
  ASSUME StaysBound, TypeOK, TeardownInv, SettleInv, NEW m \in Machines, DeleteKSM(m)
  PROVE  SettleInv'
<1>1. /\ UNCHANGED worker /\ UNCHANGED <<cluster, cCluster>>
      /\ guest' = guest /\ seed' = seed /\ cKsm' = cKsm /\ cMachine' = cMachine
      /\ \A n : Pending(n)' = Pending(n)
  BY DEF DeleteKSM, caches, wakeups, Pending
<1>2. /\ ksm[m].state = "live"
      /\ \/ ~ ksm[m].finalizer /\ ksm'[m].state = "absent" /\ ~ ksm'[m].finalizer
         \/ /\ ksm[m].finalizer
            /\ ksm'[m].state = "deleting" /\ ksm'[m].finalizer
            /\ ksm'[m].providerID = ksm[m].providerID /\ ksm'[m].ready = ksm[m].ready
  BY DeletionKeeps, DeletionWrite
<1>3. \A n \in Machines \ {m} : ksm'[n] = ksm[n]
  BY DeletionWrite
<1>4. \A n \in Machines \ {m} : WokenOrKept(n)
  BY <1>1, <1>3 DEF WokenOrKept, Kept
<1>5. cur \in Machines
  BY DEF TypeOK
<1>6. RestInv(m) => RestInv(m)'
  BY <1>1, <1>2 DEF RestInv, Owned, SameAsCached, TeardownInv
<1>7. ASSUME NEW n \in Machines, pc = "idle" \/ cur # n PROVE RestInv(n)'
  BY <1>4, <1>6, <1>7, RestKept DEF SettleInv
<1>8. CASE cur = m
  <2>1. pc # "idle" /\ WorkInv => WorkInv'
    BY <1>1, <1>2, <1>5, <1>8
    DEF WorkInv, DeletingInv, LiveInv, Patching, Waits, Reports, worker, TeardownInv,
        StaysBound, Unbound
  <2> QED BY <1>1, <1>7, <2>1 DEF SettleInv, worker, Patching
<1>9. CASE cur # m
  <2>1. pc # "idle" => WorkInv'
    BY <1>1, <1>4, <1>5, <1>9, WorkKept DEF SettleInv
  <2> QED BY <1>1, <1>7, <2>1 DEF SettleInv, worker, Patching
<1> QED BY <1>8, <1>9

\* A Secret that arrives unannounced matters only to a machine under deletion, and
\* nothing there depends on it: a live one was put on a timer.
LEMMA SettleSecret ==
  ASSUME StaysBound, TypeOK, TeardownInv, SettleInv, NEW m \in Machines, SyncSecret(m)
  PROVE  SettleInv'
<1>1. /\ UNCHANGED worker /\ UNCHANGED <<cluster, cCluster>>
      /\ ksm' = ksm /\ guest' = guest /\ seed' = seed /\ cKsm' = cKsm
      /\ \A n : Pending(n)' = Pending(n)
  BY DEF SyncSecret, api, wakeups, Pending
<1>2. /\ cMachine[m] = "named" /\ cMachine'[m] = "ready"
      /\ \A n \in Machines \ {m} : cMachine'[n] = cMachine[n]
  BY DEF SyncSecret, TypeOK
<1>3. \A n \in Machines \ {m} : WokenOrKept(n)
  BY <1>1, <1>2 DEF WokenOrKept, Kept
<1>4. cur \in Machines /\ ksm[m] \in KSMs /\ cKsm[m] \in KSMs
  BY DEF TypeOK
<1>5. RestInv(m) => RestInv(m)'
  BY <1>1, <1>2, <1>4 DEF RestInv, Owned, SameAsCached, KSMs
<1>6. ASSUME NEW n \in Machines, pc = "idle" \/ cur # n PROVE RestInv(n)'
  BY <1>3, <1>5, <1>6, RestKept DEF SettleInv
<1>7. CASE cur = m
  <2>1. pc # "idle" /\ WorkInv => WorkInv'
    BY <1>1, <1>2, <1>7 DEF WorkInv, DeletingInv, LiveInv, Patching, worker, TeardownInv
  <2> QED BY <1>1, <1>6, <2>1 DEF SettleInv, worker, Patching
<1>8. CASE cur # m
  <2>1. pc # "idle" => WorkInv'
    BY <1>1, <1>3, <1>4, <1>8, WorkKept DEF SettleInv
  <2> QED BY <1>1, <1>6, <2>1 DEF SettleInv, worker, Patching
<1> QED BY <1>7, <1>8

\* Informers, timers and restarts keep SettleInv: what a cache takes in, and what a
\* restart forgets, goes through the queue.
LEMMA SettleRuntime ==
  ASSUME StaysBound, TypeOK, TeardownInv, SettleInv, Runtime
  PROVE  SettleInv'
<1>1. ASSUME NEW m \in Machines, SyncKSM(m) PROVE SettleInv'
  <2>1. \A n \in Machines : WokenOrKept(n)
    BY <1>1 DEF SyncKSM, WokenOrKept, Pending, Kept, api, TypeOK
  <2> QED BY <1>1, <2>1, SettleFrame DEF SyncKSM, api
<1>2. ASSUME NEW m \in Machines, SyncMachine(m) PROVE SettleInv'
  <2>1. \A n \in Machines : WokenOrKept(n)
    BY <1>2 DEF SyncMachine, WokenOrKept, Pending, Kept, api, TypeOK
  <2> QED BY <1>2, <2>1, SettleFrame DEF SyncMachine, api
<1>3. ASSUME NEW m \in Machines, DeliverGuestEvent(m) \/ TimerFires(m) PROVE SettleInv'
  <2>1. \A n \in Machines : WokenOrKept(n)
    BY <1>3 DEF DeliverGuestEvent, TimerFires, WokenOrKept, Pending, Kept, api, caches
  <2> QED BY <1>3, <2>1, SettleFrame DEF DeliverGuestEvent, TimerFires, api, caches
<1>4. ~ SyncCluster
  BY DEF SyncCluster, SettleInv
<1>5. CASE SyncKSC
  <2>1. \A n \in Machines : WokenOrKept(n)
    BY <1>5 DEF SyncKSC, WokenOrKept, Pending, Kept, api, wakeups
  <2> QED BY <1>5, <2>1, SettleFrame DEF SyncKSC, api
<1>6. CASE Crash
  <2>1. \A m \in Machines : Owned(m)' => Pending(m)'
    BY <1>6 DEF Crash, Owned, Pending
  <2>2. \A m \in Machines : RestInv(m)'
    BY <2>1 DEF RestInv
  <2> QED BY <1>6, <2>2 DEF Crash, SettleInv, api
<1> QED BY <1>1, <1>2, <1>3, <1>4, <1>5, <1>6, SettleSecret DEF Runtime

\* Users, Cluster API and KubeSwift keep SettleInv: a guest that changes announces
\* itself, and so will, through the caches, an object.
LEMMA SettleEnvironment ==
  ASSUME StaysBound, ~ ClusterMayChange, TypeOK, TeardownInv, SettleInv, Environment
  PROVE  SettleInv'
<1>1. ASSUME NEW m \in Machines, AdoptKSM(m) PROVE SettleInv'
  <2>1. ksm \in [Machines -> KSMs]
    BY DEF TypeOK
  <2>2. \A n \in Machines : Kept(n)
    BY <1>1, <2>1 DEF AdoptKSM, Kept, KSMs
  <2>3. \A n \in Machines : WokenOrKept(n)
    BY <1>1, <2>2 DEF AdoptKSM, WokenOrKept, Pending, caches, wakeups
  <2> QED BY <1>1, <2>3, SettleFrame DEF AdoptKSM, caches
<1>2. ASSUME NEW m \in Machines,
             CreateMachine(m) \/ PublishBootstrap(m) \/ NodeRegisters(m) \/ NodeChanges(m)
      PROVE  SettleInv'
  <2>1. \A n \in Machines : WokenOrKept(n)
    BY <1>2 DEF CreateMachine, PublishBootstrap, NodeRegisters, NodeChanges, WokenOrKept,
                Kept, Pending, caches, wakeups
  <2> QED
    BY <1>2, <2>1, SettleFrame
    DEF CreateMachine, PublishBootstrap, NodeRegisters, NodeChanges, caches
<1>3. ASSUME NEW m \in Machines,
             ReportStatus(m) \/ FinalizeGuest(m) \/ OperatorDeletesGuest(m)
      PROVE  SettleInv'
  <2>1. /\ guestEvents' = guestEvents \cup {m} /\ UNCHANGED <<queue, delayed>>
        /\ \A n \in Machines \ {m} : guest'[n] = guest[n]
        /\ UNCHANGED <<ksm, seed, cluster>> /\ UNCHANGED caches /\ UNCHANGED worker
    BY <1>3 DEF ReportStatus, FinalizeGuest, OperatorDeletesGuest, TypeOK
  <2>2. \A n \in Machines : WokenOrKept(n)
    BY <2>1 DEF WokenOrKept, Kept, Pending, caches
  <2> QED BY <2>1, <2>2, SettleFrame DEF caches
<1>4. ~ ClusterChanges
  BY DEF ClusterChanges
<1> QED BY <1>1, <1>2, <1>3, <1>4, SettleCreate, SettleDelete DEF Environment

-----------------------------------------------------------------------------
(* The worker's steps                                                      *)

\* A write the deferred patch leaves out has nothing to write.
LEMMA WritesLeftOut ==
  \A b, a :
    /\ FirstWrite(b, a) # "conditions" => b.ready = a.ready
    /\ FirstWrite(b, a) = "status" => b.finalizer = a.finalizer /\ b.providerID = a.providerID
    /\ AfterConditions(b, a) = "status" =>
         b.finalizer = a.finalizer /\ b.providerID = a.providerID
BY DEF FirstWrite, AfterConditions, SpecDiffers

\* The start of a reconcile concerns its own machine only.
LEMMA SettleBegin ==
  ASSUME StaysBound, TypeOK, SettleInv, NEW m \in Machines, NEW k, NEW next, NEW again,
         Begin(m, k, next, again), k.state = cKsm[m].state,
         next # "idle", again => next \in {"conditions", "spec", "status"},
         WorkInv'
  PROVE  SettleInv'
<1>1. \A n \in Machines \ {m} : WokenOrKept(n)
  BY DEF Begin, Take, WokenOrKept, Pending, Kept, api, caches
<1>2. ASSUME NEW n \in Machines \ {m} PROVE RestInv(n)'
  BY <1>1, <1>2, RestKept DEF SettleInv, Begin, Take
<1> QED BY <1>2 DEF SettleInv, Begin, Patching, api, caches

\* Every reconcile that starts keeps SettleInv: it ends there with nothing to do,
\* is put on a timer, or goes on from the cached copy.
LEMMA SettleReconcile ==
  ASSUME StaysBound, TypeOK, TeardownInv, SettleInv, NEW m \in Machines, Reconcile(m)
  PROVE  SettleInv'
<1>1. ASSUME ReconcileReturns(m) \/ ReconcileErrs(m) PROVE SettleInv'
  <2>1. \A n \in Machines \ {m} : WokenOrKept(n)
    BY <1>1 DEF ReconcileReturns, ReconcileErrs, Take, WokenOrKept, Pending, Kept, api, caches
  <2>2. Owned(m)' => Pending(m)'
    BY <1>1 DEF ReconcileReturns, ReconcileErrs, Attended, OwnerMissing, SettleInv, Owned,
                Pending, api, caches
  <2>3. \A n \in Machines : RestInv(n)'
    <3>1. ASSUME NEW n \in Machines \ {m} PROVE RestInv(n)'
      BY <1>1, <2>1, <3>1, RestKept DEF SettleInv, ReconcileReturns, ReconcileErrs, Take
    <3>2. RestInv(m)'
      BY <2>2 DEF RestInv
    <3> QED BY <3>1, <3>2
  <2> QED
    BY <1>1, <2>3
    DEF SettleInv, ReconcileReturns, ReconcileErrs, Take, Patching, api, caches, worker
<1>2. ~ WaitForInfrastructure(m)
  BY DEF WaitForInfrastructure, SettleInv
<1>3. cKsm[m] \in KSMs /\ WithFinalizer(m) \in KSMs
  BY DEF TypeOK, KSMs, WithFinalizer
<1>4. WithFinalizer(m).state = cKsm[m].state /\ WithFinalizer(m).finalizer
  BY <1>3 DEF WithFinalizer, KSMs
<1>5. ASSUME NEW r \in Reasons
      PROVE  LET k == NotReady(WithFinalizer(m), r)
             IN  /\ k.state = cKsm[m].state /\ k.finalizer
                 /\ k.ready = r /\ k.provisioned = "false"
  BY <1>3, <1>4 DEF NotReady, KSMs
<1>6. ASSUME NEW k, NEW next, Begin(m, k, next, TRUE) PROVE WorkInv'
  BY <1>6 DEF Begin, WorkInv
<1>7. CASE WaitForBootstrapData(m)
  <2> DEFINE k == NotReady(WithFinalizer(m), "WaitingForBootstrapData")
             next == FirstWrite(cKsm[m], k)
  <2>1. Begin(m, k, next, FALSE) /\ cKsm[m].state = "live" /\ cMachine[m] = "noData"
    BY <1>7 DEF WaitForBootstrapData, BeginPatch
  <2>2. /\ k.state = cKsm[m].state /\ k.finalizer
        /\ k.ready = "WaitingForBootstrapData" /\ k.provisioned = "false"
    BY <1>5 DEF Reasons
  <2>3. /\ next \in {"conditions", "spec", "status"}
        /\ next # "conditions" => cKsm[m].ready = k.ready
        /\ next = "status" => cKsm[m].finalizer /\ cKsm[m].providerID = k.providerID
    BY <2>2, WriteOrder, WritesLeftOut
  <2> HIDE DEF k, next
  <2>4. WorkInv'
    BY <2>1, <2>2, <2>3
    DEF Begin, WorkInv, DeletingInv, LiveInv, Patching, Waits, api, caches
  <2> QED BY <2>1, <2>2, <2>3, <2>4, SettleBegin
<1>8. CASE InputsMissing(m)
  <2>1. Begin(m, WithFinalizer(m), FirstWrite(cKsm[m], WithFinalizer(m)), TRUE)
    BY <1>8 DEF InputsMissing, BeginPatch
  <2>2. FirstWrite(cKsm[m], WithFinalizer(m)) \in {"conditions", "spec", "status"}
    BY WriteOrder
  <2> QED BY <1>4, <1>6, <2>1, <2>2, SettleBegin
<1>9. CASE BackendRejects(m)
  <2> DEFINE k == NotReady(WithFinalizer(m), "VMFailed")
  <2>1. Begin(m, k, FirstWrite(cKsm[m], k), TRUE)
    BY <1>9 DEF BackendRejects, BeginPatch
  <2>2. FirstWrite(cKsm[m], k) \in {"conditions", "spec", "status"}
    BY WriteOrder
  <2>3. k.state = cKsm[m].state
    BY <1>5 DEF Reasons
  <2> HIDE DEF k
  <2> QED BY <1>6, <2>1, <2>2, <2>3, SettleBegin
<1>10. CASE BackendReconciles(m)
  <2>1. /\ Begin(m, WithFinalizer(m), "seed", FALSE)
        /\ cKsm[m].state = "live" /\ cMachine[m] = "ready"
    BY <1>10 DEF BackendReconciles, InputsReady
  <2>2. WorkInv'
    BY <2>1 DEF Begin, WorkInv, DeletingInv, LiveInv, Patching, api, caches
  <2> QED BY <1>4, <2>1, <2>2, SettleBegin
<1>11. CASE ReconcileDelete(m)
  <2>1. Begin(m, cKsm[m], "deleteGuest", FALSE) /\ cKsm[m].state = "deleting"
    BY <1>11 DEF ReconcileDelete
  <2>2. WorkInv'
    BY <2>1 DEF Begin, WorkInv, DeletingInv, LiveInv, Patching, api, caches
  <2> QED BY <2>1, <2>2, SettleBegin
<1> QED BY <1>1, <1>2, <1>7, <1>8, <1>9, <1>10, <1>11 DEF Reconcile

\* A step of the worker that is not its last concerns its own machine only.
LEMMA SettleWork ==
  ASSUME StaysBound, TypeOK, SettleInv, pc # "idle", pc' # "idle", cur' = cur,
         UNCHANGED <<cluster, cCluster>>, after'.state = before'.state,
         requeue' => pc' \in {"conditions", "spec", "status"},
         \A n \in Machines \ {cur} : WokenOrKept(n), WorkInv'
  PROVE  SettleInv'
<1>1. ASSUME NEW n \in Machines \ {cur} PROVE RestInv(n)'
  BY <1>1, RestKept DEF SettleInv
<1> QED BY <1>1 DEF SettleInv, Patching

\* A reconcile that ends in an error or asks to be repeated is done with its
\* machine for now.
LEMMA SettleAgain ==
  ASSUME StaysBound, TypeOK, SettleInv, pc # "idle", requeue', EndReconcile(after', TRUE),
         after'.state = after.state, UNCHANGED <<cluster, cCluster>>,
         \A n \in Machines \ {cur} : WokenOrKept(n)
  PROVE  SettleInv'
<1>1. pc' \in {"conditions", "spec", "status"}
  BY WriteOrder DEF EndReconcile
<1>2. WorkInv'
  BY DEF WorkInv
<1> QED BY <1>1, <1>2, SettleWork DEF EndReconcile, SettleInv

\* The backend's calls on a live machine keep SettleInv: what is read of the guest
\* is current until an event says otherwise.
LEMMA SettleBackend ==
  ASSUME StaysBound, TypeOK, TeardownInv, SettleInv,
         EnsureSeedProfile \/ FindSwiftGuest \/ CreateSwiftGuest \/ BackendFails
  PROVE  SettleInv'
<1>1. cur \in Machines /\ after \in KSMs /\ after.state = after.state
  BY DEF TypeOK
<1>2. ASSUME NEW r PROVE NotReady(after, r).state = after.state
  BY <1>1 DEF NotReady, KSMs
<1>3. CASE EnsureSeedProfile
  <2>1. \A n \in Machines \ {cur} : WokenOrKept(n)
    BY <1>3 DEF EnsureSeedProfile, WokenOrKept, Pending, Kept, caches, wakeups, TypeOK
  <2>2. pc = "seed" /\ pc' = "guest" /\ seed'[cur] = "ref"
    BY <1>1, <1>3 DEF EnsureSeedProfile, GoTo, TypeOK
  <2>3. WorkInv'
    <3>1. WorkInv
      BY <2>2 DEF SettleInv
    <3> QED
      BY <1>3, <2>2, <3>1
      DEF EnsureSeedProfile, GoTo, WorkInv, DeletingInv, LiveInv, Patching, Pending, wakeups,
          caches
  <2> QED BY <1>3, <2>1, <2>2, <2>3, SettleWork
        DEF EnsureSeedProfile, GoTo, caches, SettleInv, Patching
<1>4. CASE FindSwiftGuest
  <2>1. \A n \in Machines : WokenOrKept(n)
    BY <1>4 DEF FindSwiftGuest, WokenOrKept, Pending, Kept, caches, wakeups, api
  <2> DEFINE s == guest[cur].status
  <2>2. pc = "guest" /\ guest[cur].state # "absent" /\ UseStatus(s)
    BY <1>4 DEF FindSwiftGuest
  <2>3. /\ cur' = cur /\ before' = before /\ after' = Observe(s)
        /\ cluster' = cluster /\ cCluster' = cCluster
    BY <1>4 DEF FindSwiftGuest, UseStatus, api, caches
  <2>4. CASE ~ Provisioned(s)
    <3>1. after' = NotReady(after, BackendReason(s)) /\ EndReconcile(after', TRUE)
      BY <2>2, <2>4 DEF UseStatus, Observe, EndReconcile
    <3> QED BY <1>2, <2>1, <2>2, <2>3, <3>1, SettleAgain DEF EndReconcile
  <2>5. CASE Provisioned(s)
    <3>1. after' = [after EXCEPT !.providerID = ProviderID(cur),
                                 !.addresses = GuestAddresses(s),
                                 !.provisioned = "true", !.ready = "VMProvisioned"]
      BY <2>3, <2>5 DEF Observe
    <3>2. /\ after'.providerID = ProviderID(cur) /\ after'.addresses = GuestAddresses(s)
          /\ after'.provisioned = "true" /\ after'.ready = "VMProvisioned"
          /\ after'.state = after.state
      BY <1>1, <3>1 DEF KSMs
    <3>3. pc' = "node" /\ ~ requeue'
      BY <2>2, <2>5 DEF UseStatus
    <3>4. WorkInv'
      <4>1. WorkInv /\ ~ requeue
        BY <2>2 DEF SettleInv, Patching
      <4>2. before.state = "live" \/ before.state = "deleting"
        BY <2>2 DEF TeardownInv
      <4>3. UNCHANGED <<guest, seed, ksm>> /\ UNCHANGED caches /\ UNCHANGED wakeups
        BY <1>4 DEF FindSwiftGuest, api
      <4> HIDE DEF s
      <4>4. s = guest[cur].status
        BY DEF s
      <4> QED
        BY <2>2, <2>3, <2>5, <3>2, <3>3, <4>1, <4>2, <4>3, <4>4
        DEF WorkInv, DeletingInv, LiveInv, Reports, Patching, Pending, wakeups, caches
    <3> QED BY <2>1, <2>2, <2>3, <3>2, <3>3, <3>4, SettleWork DEF SettleInv
  <2> QED BY <2>4, <2>5
<1>5. CASE CreateSwiftGuest
  <2>1. /\ pc = "guest" /\ cur' = cur /\ before' = before
        /\ UNCHANGED <<cluster, cCluster>>
        /\ guestEvents' = guestEvents \cup {cur} /\ UseStatus(NoStatus)
    BY <1>5 DEF CreateSwiftGuest, UseStatus, caches
  <2>2. \A n \in Machines \ {cur} : WokenOrKept(n)
    BY <1>5 DEF CreateSwiftGuest, WokenOrKept, Pending, Kept, caches, TypeOK
  <2>3. ~ Provisioned(NoStatus)
    BY DEF Provisioned, BackendReason, NoStatus, UnresolvedMessage
  <2>4. after' = NotReady(after, BackendReason(NoStatus)) /\ EndReconcile(after', TRUE)
    BY <2>1, <2>3 DEF UseStatus, Observe, EndReconcile
  <2> QED BY <1>2, <2>1, <2>2, <2>4, SettleAgain DEF EndReconcile
<1>6. CASE BackendFails
  <2>1. \A n \in Machines : WokenOrKept(n)
    BY <1>6 DEF BackendFails, CallFails, WokenOrKept, Pending, Kept, caches, wakeups, api
  <2>2. /\ pc # "idle" /\ EndReconcile(after', TRUE) /\ after' = NotReady(after, "VMFailed")
        /\ UNCHANGED <<cluster, cCluster>>
    BY <1>6 DEF BackendFails, CallFails, EndReconcile, api, caches
  <2> QED BY <1>2, <2>1, <2>2, SettleAgain DEF EndReconcile
<1> QED BY <1>3, <1>4, <1>5, <1>6

\* The calls on a machine under deletion keep SettleInv.
LEMMA SettleTeardown ==
  ASSUME StaysBound, TypeOK, TeardownInv, SettleInv,
         DeleteSwiftGuest \/ SwiftGuestGone \/ DeleteSeedProfile \/ DeleteFails
  PROVE  SettleInv'
<1>1. cur \in Machines /\ after \in KSMs
  BY DEF TypeOK
<1>2. CASE DeleteSwiftGuest
  <2>1. \A n \in Machines \ {cur} : WokenOrKept(n)
    BY <1>2 DEF DeleteSwiftGuest, WokenOrKept, Pending, Kept, caches, TypeOK
  <2>2. /\ pc # "idle" /\ EndReconcile(after', TRUE) /\ after' = after
        /\ UNCHANGED <<cluster, cCluster>>
    BY <1>2 DEF DeleteSwiftGuest, EndReconcile, caches
  <2> QED BY <2>1, <2>2, SettleAgain DEF EndReconcile
<1>3. CASE SwiftGuestGone
  <2>1. \A n \in Machines : WokenOrKept(n)
    BY <1>3 DEF SwiftGuestGone, WokenOrKept, Pending, Kept, caches, wakeups, api
  <2>2. pc = "deleteGuest" /\ pc' = "deleteSeed" /\ before.state = "deleting"
    BY <1>3 DEF SwiftGuestGone, GoTo, TeardownInv
  <2>3. WorkInv'
    BY <1>3, <2>2
    DEF SwiftGuestGone, GoTo, SettleInv, WorkInv, DeletingInv, Patching, Pending, wakeups,
        caches
  <2> QED BY <1>3, <2>1, <2>2, <2>3, SettleWork
      DEF SwiftGuestGone, GoTo, api, caches, SettleInv, Patching
<1>4. CASE DeleteSeedProfile
  <2>1. \A n \in Machines \ {cur} : WokenOrKept(n)
    BY <1>4 DEF DeleteSeedProfile, WokenOrKept, Pending, Kept, caches, wakeups, TypeOK
  <2>2. pc = "deleteSeed" /\ before.state = "deleting" /\ before.finalizer
    BY <1>4 DEF DeleteSeedProfile, TeardownInv
  <2>3. /\ ~ after'.finalizer /\ after'.state = after.state
        /\ pc' = FirstWrite(before, after') /\ ~ requeue'
        /\ cur' = cur /\ before' = before /\ UNCHANGED caches /\ UNCHANGED wakeups
        /\ UNCHANGED cluster
    BY <1>1, <1>4 DEF DeleteSeedProfile, EndReconcile, KSMs
  <2>4. pc' \in {"conditions", "spec"}
    BY <2>2, <2>3, WriteOrder, WritesLeftOut
  <2>5. WorkInv'
    BY <2>2, <2>3, <2>4
    DEF SettleInv, WorkInv, DeletingInv, Patching, Pending, wakeups, caches
  <2> QED BY <2>1, <2>2, <2>3, <2>4, <2>5, SettleWork DEF caches, SettleInv
<1>5. CASE DeleteFails
  <2>1. \A n \in Machines : WokenOrKept(n)
    BY <1>5 DEF DeleteFails, CallFails, WokenOrKept, Pending, Kept, caches, wakeups, api
  <2>2. /\ pc # "idle" /\ EndReconcile(after', TRUE) /\ after' = after
        /\ UNCHANGED <<cluster, cCluster>>
    BY <1>5 DEF DeleteFails, CallFails, EndReconcile, api, caches
  <2> QED BY <2>1, <2>2, SettleAgain DEF EndReconcile
<1> QED BY <1>2, <1>3, <1>4, <1>5

\* The calls to the workload cluster keep SettleInv: they change the Node only.
LEMMA SettleNode ==
  ASSUME StaysBound, TypeOK, TeardownInv, SettleInv,
         \/ NodeNotFound \/ NodeHasID \/ NodeHasNoID \/ PatchNode \/ PatchNodeRefused
         \/ NodeFails
  PROVE  SettleInv'
<1>1. /\ UNCHANGED <<ksm, guest, seed, cluster>> /\ UNCHANGED caches /\ UNCHANGED wakeups
      /\ pc \in {"node", "nodePatch"} /\ cur' = cur /\ before' = before /\ after' = after
  BY DEF NodeNotFound, NodeHasID, NodeHasNoID, PatchNode, PatchNodeRefused, NodeFails,
         CallFails, EndReconcile, GoTo, api
<1>2. \A n \in Machines : WokenOrKept(n)
  BY <1>1 DEF WokenOrKept, Pending, Kept, caches, wakeups
<1>3. CASE NodeNotFound \/ PatchNodeRefused \/ NodeFails
  <2>1. EndReconcile(after', TRUE)
    BY <1>3 DEF NodeNotFound, PatchNodeRefused, NodeFails, CallFails, EndReconcile
  <2> QED BY <1>1, <1>2, <2>1, SettleAgain DEF EndReconcile, caches
<1>4. before.state = "live" /\ after.finalizer
  BY <1>1 DEF TeardownInv
<1>5. CASE NodeHasNoID
  <2>1. pc' = "nodePatch" /\ requeue' = requeue
    BY <1>5 DEF NodeHasNoID, GoTo
  <2>2. WorkInv'
    BY <1>1, <1>4, <2>1
    DEF SettleInv, WorkInv, LiveInv, Reports, Patching, Pending, wakeups, caches
  <2> QED BY <1>1, <1>2, <2>1, <2>2, SettleWork DEF caches, SettleInv, Patching
<1>6. CASE NodeHasID \/ PatchNode
  <2>1. pc' = FirstWrite(before, after) /\ ~ requeue'
    BY <1>6 DEF NodeHasID, PatchNode, EndReconcile
  <2>2. /\ pc' \in {"conditions", "spec", "status"}
        /\ pc' # "conditions" => before.ready = after.ready
        /\ pc' = "status" => before.finalizer /\ before.providerID = after.providerID
    BY <1>4, <2>1, WriteOrder, WritesLeftOut
  <2>3. ~ requeue
    BY <1>1 DEF SettleInv, Patching
  <2>4. ~ Unbound(cur)'
    <3>1. cur' = cur /\ cur \in Machines /\ node \in [Machines -> SUBSET
                     ({NoID, ForeignID} \cup {ProviderID(m) : m \in Machines})]
      BY <1>1 DEF TypeOK
    <3>2. node'[cur] \notin {{}, {NoID}}
      BY <1>6, <3>1, ProviderIDSet DEF NodeHasID, PatchNode, api
    <3> QED BY <3>1, <3>2 DEF Unbound
  <2>5. WorkInv'
    BY <1>1, <1>4, <2>1, <2>2, <2>3, <2>4
    DEF SettleInv, WorkInv, LiveInv, Reports, Patching, Pending, wakeups, caches
  <2> QED BY <1>1, <1>2, <2>1, <2>2, <2>5, SettleWork DEF caches, SettleInv
<1> QED BY <1>3, <1>5, <1>6

\* The status write, on its own machine and on the others.
LEMMA StatusWrite ==
  ASSUME TypeOK, PatchStatus
  PROVE  /\ \A m \in Machines \ {cur} : ksm'[m] = ksm[m]
         /\ ksm'[cur].addresses = Patched("addresses")
         /\ ksm'[cur].provisioned = Patched("provisioned")
         /\ ksm'[cur].ready = ksm[cur].ready
<1>1. ksm \in [Machines -> KSMs] /\ cur \in Machines /\ ksm[cur] \in KSMs
  BY DEF TypeOK
<1>2. CASE StatusDiffers
  <2>1. ksm' = [ksm EXCEPT ![cur].addresses = Patched("addresses"),
                           ![cur].provisioned = Patched("provisioned")]
    BY <1>2 DEF PatchStatus
  <2>2. ksm'[cur] = [[ksm[cur] EXCEPT !.addresses = Patched("addresses")]
                        EXCEPT !.provisioned = Patched("provisioned")]
    BY <1>1, <2>1
  <2>3. \A m \in Machines \ {cur} : ksm'[m] = ksm[m]
    BY <1>1, <2>1
  <2> QED BY <1>1, <2>2, <2>3 DEF KSMs
<1>3. CASE ~ StatusDiffers
  <2>1. ksm' = ksm
    BY <1>3 DEF PatchStatus
  <2>2. Patched("addresses") = ksm[cur].addresses /\ Patched("provisioned") = ksm[cur].provisioned
    BY <1>3 DEF Patched, StatusDiffers
  <2> QED BY <2>1, <2>2
<1> QED BY <1>2, <1>3

\* The writes of the deferred patch but the last keep SettleInv: a write that is
\* made is seen in the object, one that is refused or fails is repeated.
LEMMA SettlePatch ==
  ASSUME StaysBound, TypeOK, TeardownInv, SettleInv,
         PatchConditions \/ PatchSpec \/ PatchRefused \/ PatchFails
  PROVE  SettleInv'
<1>1. cur \in Machines /\ after \in KSMs /\ before \in KSMs /\ ksm[cur] \in KSMs
      /\ ksm \in [Machines -> KSMs]
  BY DEF TypeOK
<1>2. /\ UNCHANGED <<guest, seed, cluster>> /\ UNCHANGED caches /\ UNCHANGED wakeups
      /\ pc \in {"conditions", "spec"} /\ pc' \in {"spec", "status"}
      /\ cur' = cur /\ before' = before /\ after' = after
  BY WriteOrder
  DEF PatchConditions, PatchSpec, PatchRefused, PatchFails, AfterWrite, GoTo, api
<1>3. /\ before.state = "live" => after.finalizer
      /\ before.state = "deleting" => before.finalizer
      /\ before.state \in {"live", "deleting"}
  BY <1>2 DEF TeardownInv
<1>4. WorkInv /\ after.state = before.state
  BY <1>2 DEF SettleInv
<1>5. ASSUME WorkInv', \A n \in Machines \ {cur} : WokenOrKept(n) PROVE SettleInv'
  BY <1>2, <1>4, <1>5, SettleWork DEF caches
<1>6. ASSUME \A n \in Machines \ {cur} : ksm'[n] = ksm[n]
      PROVE  \A n \in Machines \ {cur} : WokenOrKept(n)
  BY <1>2, <1>6 DEF WokenOrKept, Kept, Pending, caches, wakeups
<1>7. CASE PatchConditions
  <2>1. /\ \A n \in Machines \ {cur} : ksm'[n] = ksm[n]
        /\ ksm'[cur].ready = after.ready /\ ksm'[cur].finalizer = ksm[cur].finalizer
        /\ ksm'[cur].state = ksm[cur].state /\ ksm'[cur].providerID = ksm[cur].providerID
    BY <1>1, <1>7 DEF PatchConditions, KSMs
  <2>2. /\ requeue' = requeue
        /\ pc' = "status" => before.finalizer = after.finalizer
                             /\ before.providerID = after.providerID
    BY <1>7, WritesLeftOut DEF PatchConditions, GoTo
  <2>3. ASSUME before.state = "deleting", ~ requeue, ~ Pending(cur) PROVE DeletingInv'
    BY <1>2, <1>3, <1>4, <2>2, <2>3 DEF WorkInv, DeletingInv, Patching
  <2>4. ASSUME before.state = "live", ~ requeue, ~ Pending(cur) PROVE LiveInv'
    BY <1>1, <1>2, <1>3, <1>4, <2>1, <2>2, <2>4
    DEF WorkInv, LiveInv, Patching, Waits, Reports, caches, StaysBound, Unbound
  <2>5. WorkInv'
    BY <1>2, <1>4, <2>2, <2>3, <2>4 DEF WorkInv, Pending, wakeups, caches
  <2> QED BY <1>5, <1>6, <2>1, <2>5
<1>8. CASE PatchSpec
  <2>1. /\ \A n \in Machines \ {cur} : ksm'[n] = ksm[n]
        /\ \/ ksm[cur].state = "deleting" /\ ~ Patched("finalizer") /\ ksm'[cur] = AbsentKSM
           \/ /\ ksm[cur].state # "deleting" \/ Patched("finalizer")
              /\ ksm'[cur].state = ksm[cur].state /\ ksm'[cur].ready = ksm[cur].ready
              /\ ksm'[cur].finalizer = Patched("finalizer")
              /\ ksm'[cur].providerID = Patched("providerID")
    BY <1>8, SpecWrite
  <2>2. /\ pc = "spec" /\ pc' = "status" /\ requeue' = requeue
    BY <1>8 DEF PatchSpec, GoTo
  <2>3. /\ Patched("finalizer") = IF before.finalizer # after.finalizer THEN after.finalizer
                                  ELSE ksm[cur].finalizer
        /\ Patched("providerID") = IF before.providerID # after.providerID
                                   THEN after.providerID ELSE ksm[cur].providerID
    BY DEF Patched
  <2>4. ASSUME before.state = "deleting", ~ requeue, ~ Pending(cur) PROVE DeletingInv'
    BY <1>2, <1>3, <1>4, <2>1, <2>2, <2>3, <2>4
    DEF WorkInv, DeletingInv, Patching, AbsentKSM
  <2>5. ASSUME before.state = "live", ~ requeue, ~ Pending(cur) PROVE LiveInv'
    <3>1. ksm[cur].state = "deleting" => ksm[cur].finalizer
      BY <1>1 DEF TeardownInv
    <3>2. /\ ksm'[cur].ready = ksm[cur].ready
          /\ ksm'[cur].finalizer = Patched("finalizer")
          /\ ksm'[cur].providerID = Patched("providerID")
      BY <1>3, <2>1, <2>3, <2>5, <3>1
    <3>3. before.finalizer \in BOOLEAN /\ after.finalizer \in BOOLEAN
      BY <1>1 DEF KSMs
    <3> QED
      BY <1>1, <1>2, <1>3, <1>4, <2>2, <2>3, <2>5, <3>2, <3>3
      DEF WorkInv, LiveInv, Patching, Waits, Reports, caches, StaysBound, Unbound
  <2>6. WorkInv'
    BY <1>2, <1>4, <2>2, <2>4, <2>5 DEF WorkInv, Pending, wakeups, caches
  <2> QED BY <1>5, <1>6, <2>1, <2>6
<1>9. CASE PatchRefused
  <2>1. /\ ksm' = ksm
        /\ requeue' = (requeue \/ after.state # "deleting" \/ after.finalizer)
        /\ pc = "spec" => ksm[cur].state = "absent"
        /\ pc = "conditions" => pc' = AfterConditions(before, after)
    BY <1>9 DEF PatchRefused, AfterWrite, api
  <2>2. ASSUME ~ requeue' PROVE before.state = "deleting" /\ ~ after.finalizer /\ ~ requeue
    BY <1>3, <1>4, <2>1, <2>2
  <2>3. ASSUME before.state = "deleting", ~ requeue' PROVE DeletingInv'
    BY <1>2, <1>3, <2>1, <2>2, <2>3, WritesLeftOut DEF DeletingInv
  <2>4. WorkInv'
    BY <1>2, <1>4, <2>2, <2>3 DEF WorkInv, Pending, wakeups, caches
  <2> QED BY <1>5, <1>6, <2>1, <2>4
<1>10. CASE PatchFails
  <2>1. ksm' = ksm /\ requeue'
    BY <1>10 DEF PatchFails, api
  <2>2. WorkInv'
    BY <2>1 DEF WorkInv
  <2> QED BY <1>5, <1>6, <2>1, <2>2
<1> QED BY <1>7, <1>8, <1>9, <1>10

\* The last write keeps SettleInv: if the copy the reconcile began with is still
\* current after it, the reconcile changed nothing, so its result is what the
\* object holds.
LEMMA SettleFinish ==
  ASSUME StaysBound, TypeOK, TeardownInv, SettleInv,
         PatchStatus \/ PatchStatusRefused \/ PatchStatusFails
  PROVE  SettleInv'
<1>1. cur \in Machines /\ ksm \in [Machines -> KSMs]
  BY DEF TypeOK
<1>2. /\ UNCHANGED <<guest, seed, cluster>> /\ UNCHANGED caches
      /\ UNCHANGED <<queue, guestEvents, cur>>
      /\ pc = "status" /\ pc' = "idle" /\ ~ requeue'
      /\ delayed' = delayed \/ delayed' = delayed \cup {cur}
  BY DEF PatchStatus, PatchStatusRefused, PatchStatusFails, Finish, api
<1>3. \A n \in Machines \ {cur} : ksm'[n] = ksm[n]
  BY StatusWrite DEF PatchStatusRefused, PatchStatusFails, api
<1>4. \A n \in Machines \ {cur} : WokenOrKept(n)
  BY <1>2, <1>3 DEF WokenOrKept, Kept, Pending, caches
<1>5. ASSUME NEW n \in Machines \ {cur} PROVE RestInv(n)'
  BY <1>4, <1>5, RestKept DEF SettleInv
<1>6. RestInv(cur)'
  <2>1. CASE PatchStatusRefused \/ PatchStatusFails \/ requeue
    <3>1. Pending(cur)'
      BY <1>2, <2>1 DEF PatchStatus, PatchStatusRefused, PatchStatusFails, Finish, Pending
    <3> QED BY <1>2, <3>1 DEF RestInv
  <2>2. CASE Pending(cur)
    BY <1>2, <2>2 DEF RestInv, Pending
  <2>3. CASE PatchStatus /\ ~ requeue /\ ~ Pending(cur)
    <3>1. WorkInv /\ before.state \in {"live", "deleting"}
      BY <1>2 DEF SettleInv, TeardownInv
    <3>2. /\ cKsm[cur] = before
          /\ before.state = "deleting" => DeletingInv
          /\ before.state = "live" => LiveInv
      BY <2>3, <3>1 DEF WorkInv
    <3>3. /\ ksm'[cur].state = ksm[cur].state /\ ksm'[cur].finalizer = ksm[cur].finalizer
          /\ ksm'[cur].providerID = ksm[cur].providerID
          /\ ksm'[cur].ready = ksm[cur].ready
          /\ ksm'[cur].addresses = Patched("addresses")
          /\ ksm'[cur].provisioned = Patched("provisioned")
      BY <1>1, <2>3, StatusWrite, OtherWrite
    <3>4. CASE before.state = "deleting"
      BY <1>2, <3>2, <3>3, <3>4 DEF RestInv, DeletingInv, Patching, SameAsCached, caches
    <3>5. CASE before.state = "live"
      <4>1. LiveInv /\ cKsm'[cur] = before /\ cMachine' = cMachine
        BY <1>2, <3>2, <3>5 DEF caches
      <4>2. cMachine[cur] # "named" /\ (ksm[cur].finalizer \/ before.finalizer)
        BY <1>2, <4>1 DEF LiveInv
      <4>3. ASSUME SameAsCached(cur)'
            PROVE  /\ ksm'[cur].finalizer
                   /\ Waits(cur, ksm[cur])' \/ (Reports(cur, ksm[cur])' /\ ~ Unbound(cur)')
        <5>1. /\ ksm'[cur].finalizer = before.finalizer
              /\ ksm'[cur].providerID = before.providerID
              /\ ksm'[cur].addresses = before.addresses
              /\ ksm'[cur].provisioned = before.provisioned
              /\ ksm'[cur].ready = before.ready
          BY <1>2, <4>1, <4>3 DEF SameAsCached
        <5>2. ksm'[cur].finalizer /\ before.finalizer
          BY <3>3, <4>2, <5>1
        <5>3. before.ready = after.ready /\ before.providerID = after.providerID
          BY <1>2, <3>3, <4>1, <5>1, <5>2 DEF LiveInv
        <5>4. before.addresses = after.addresses /\ before.provisioned = after.provisioned
          BY <3>3, <5>1 DEF Patched
        <5>5. Waits(cur, after) \/ (Reports(cur, after) /\ ~ Unbound(cur))
          BY <1>2, <4>1 DEF LiveInv, Patching
        <5>6. ~ Unbound(cur) => ~ Unbound(cur)'
          BY <1>1, <1>2 DEF StaysBound, Unbound
        <5> QED
          BY <1>2, <5>1, <5>2, <5>3, <5>4, <5>5, <5>6 DEF Waits, Reports, caches
      <4> QED
        BY <1>2, <3>3, <3>5, <4>1, <4>2, <4>3 DEF RestInv
    <3> QED BY <3>1, <3>4, <3>5
  <2> QED BY <2>1, <2>2, <2>3
<1>7. ASSUME NEW n \in Machines PROVE RestInv(n)'
  <2>1. CASE n = cur
    BY <1>2, <1>6, <2>1 DEF RestInv, Pending, Owned, Waits, Reports, SameAsCached, Unbound
  <2> QED BY <1>5, <2>1
<1> QED BY <1>2, <1>7 DEF SettleInv, caches

\* A Node that has registered costs one of the node events, and one that is given
\* an ID keeps it or costs another.
LEMMA BoundKept == TypeOK /\ [Next]_vars => StaysBound
<1> SUFFICES ASSUME TypeOK, [Next]_vars, NEW m \in Machines, Unbound(m)' PROVE Unbound(m)
  BY DEF StaysBound
<1>1. used["node"] \in Nat /\ node \in [Machines -> SUBSET ({NoID, ForeignID} \cup
                                             {ProviderID(n) : n \in Machines})]
  BY DEF TypeOK, Kinds
<1>2. CASE UNCHANGED <<node, used>>
  BY <1>2 DEF Unbound
<1>3. ASSUME node' = node, NEW k \in Kinds \ {"node"}, Spend(k) PROVE Unbound(m)
  <2>1. used'["node"] = used["node"]
    BY <1>3 DEF Spend, TypeOK
  <2> QED BY <1>3, <2>1 DEF Unbound
<1>4. ASSUME Spend("node") PROVE used'["node"] = used["node"] + 1
  BY <1>4 DEF Spend, TypeOK, Kinds
<1>5. ASSUME NEW n \in Machines, NodeRegisters(n) \/ NodeChanges(n) PROVE Unbound(m)
  <2>1. used'["node"] = used["node"] + 1
    BY <1>4, <1>5 DEF NodeRegisters, NodeChanges
  <2>2. used["node"] = 0 /\ node'[m] = {NoID}
    BY <1>1, <2>1 DEF Unbound
  <2>3. CASE m = n
    <3>1. ForeignID # NoID
      BY DEF ForeignID, NoID
    <3>2. ~ NodeChanges(n)
      BY <1>1, <2>2, <2>3, <3>1 DEF NodeChanges
    <3>3. node[m] = {}
      BY <1>5, <2>3, <3>2 DEF NodeRegisters
    <3> QED BY <2>2, <3>3 DEF Unbound
  <2>4. CASE m # n
    <3>1. node'[m] = node[m]
      BY <1>1, <1>5, <2>4 DEF NodeRegisters, NodeChanges
    <3> QED BY <2>2, <3>1 DEF Unbound
  <2> QED BY <2>3, <2>4
<1>6. CASE PatchNode
  <2>1. used' = used /\ node' = [node EXCEPT ![cur] = {ProviderID(cur)}] /\ cur \in Machines
    BY <1>6 DEF PatchNode, TypeOK
  <2>2. node'[m] \in {node[m], {ProviderID(m)}}
    BY <1>1, <2>1
  <2>3. {ProviderID(m)} \notin {{}, {NoID}}
    BY ProviderIDSet
  <2>4. node'[m] = node[m]
    BY <2>2, <2>3 DEF Unbound
  <2> QED BY <2>1, <2>4 DEF Unbound
<1>7. ASSUME NEW n \in Machines, Reconcile(n) PROVE UNCHANGED <<node, used>>
  BY <1>7
  DEF Reconcile, ReconcileReturns, ReconcileErrs, WaitForInfrastructure,
      WaitForBootstrapData, InputsMissing, BackendRejects, BackendReconciles,
      ReconcileDelete, BeginPatch, Begin, api
<1>8. ASSUME ReconcileStep, ~ PatchNode
      PROVE  UNCHANGED <<node, used>> \/ (node' = node /\ Spend("fault"))
  BY <1>8
  DEF ReconcileStep, EnsureSeedProfile, FindSwiftGuest, CreateSwiftGuest,
      BackendFails, DeleteSwiftGuest, SwiftGuestGone, DeleteSeedProfile, DeleteFails,
      NodeNotFound, NodeHasID, NodeHasNoID, PatchNodeRefused, NodeFails,
      PatchConditions, PatchSpec, PatchRefused, PatchFails, PatchStatus,
      PatchStatusRefused, PatchStatusFails, CallFails, api
<1>9. ASSUME Runtime PROVE UNCHANGED <<node, used>> \/ (node' = node /\ Spend("fault"))
  BY <1>9
  DEF Runtime, SyncKSM, SyncMachine, SyncSecret, DeliverGuestEvent, TimerFires,
      SyncCluster, SyncKSC, Crash, api
<1>10. ASSUME Environment, ~ \E n \in Machines : NodeRegisters(n) \/ NodeChanges(n)
       PROVE  UNCHANGED <<node, used>> \/ \E k \in Kinds \ {"node"} : node' = node /\ Spend(k)
  BY <1>10
  DEF Environment, CreateKSM, CreateMachine, AdoptKSM, PublishBootstrap, DeleteKSM,
      ReportStatus, FinalizeGuest, OperatorDeletesGuest, ClusterChanges, Kinds
<1>11. CASE UNCHANGED vars
  BY <1>2, <1>11 DEF vars, api
<1>12. "fault" \in Kinds \ {"node"}
  BY DEF Kinds
<1> QED
  BY <1>2, <1>3, <1>5, <1>6, <1>7, <1>8, <1>9, <1>10, <1>11, <1>12 DEF Next

\* Every step keeps SettleInv.
LEMMA SettleNext ==
  ~ ClusterMayChange /\ TypeOK /\ TeardownInv /\ SettleInv /\ [Next]_vars => SettleInv'
<1> SUFFICES ASSUME ~ ClusterMayChange, TypeOK, TeardownInv, SettleInv, [Next]_vars
             PROVE  SettleInv'
  OBVIOUS
<1> StaysBound
  BY BoundKept
<1>1. CASE ReconcileStep
  BY <1>1, SettleBackend, SettleTeardown, SettleNode, SettlePatch, SettleFinish
  DEF ReconcileStep
<1>2. CASE UNCHANGED vars
  <2>1. \A m \in Machines : WokenOrKept(m)
    BY <1>2 DEF vars, api, caches, wakeups, WokenOrKept, Kept, Pending
  <2> QED BY <1>2, <2>1, SettleFrame DEF vars, api, caches
<1> QED
  BY <1>1, <1>2, SettleReconcile, SettleRuntime, SettleEnvironment DEF Next

-----------------------------------------------------------------------------
(* No lost wake-up                                                         *)

\* With a Cluster that is provisioned and stays open, an owned machine for which
\* nothing is pending reports its guest as it is now or waits for bootstrap data,
\* and none under deletion is left alone: for every number of machines, of faults,
\* crashes and guest events, and every way the caches may lag.
THEOREM SettledReflectsGuestAlways ==
  ~ ClusterMayChange /\ Spec => []SettledReflectsGuest
<1> DEFINE Inv == ~ ClusterMayChange /\ SettleInv
<1>1. ASSUME TypeOK, SettleInv PROVE SettledReflectsGuest
  <2> SUFFICES ASSUME NEW m \in Machines, Settled(m), Attended(m)
               PROVE  /\ ksm[m].state = "live"
                      /\ \/ machine[m] = "noData" /\ WaitsFor(m, "WaitingForBootstrapData")
                         \/ machine[m] = "ready" /\ ReportsGuest(m)
    BY DEF SettledReflectsGuest
  <2>1. cKsm[m] = ksm[m] /\ cMachine[m] = machine[m] /\ ~ Pending(m) /\ Owned(m)
    BY DEF Settled, Attended, Pending, Owned
  <2>2. RestInv(m)
    BY <1>1 DEF Settled, SettleInv
  <2>3. ksm[m].state # "deleting"
    BY <2>1, <2>2 DEF RestInv
  <2>4. ksm[m].state = "live"
    BY <1>1, <2>1, <2>3 DEF TypeOK, KSMs, Attended
  <2>5. ksm[m].finalizer /\ (Waits(m, ksm[m]) \/ Reports(m, ksm[m]))
    BY <2>1, <2>2 DEF RestInv, SameAsCached
  <2> QED BY <2>1, <2>4, <2>5 DEF Waits, Reports, WaitsFor, ReportsGuest
<1>2. ~ ClusterMayChange /\ Init => Inv
  BY SettleInit
<1>3. TypeOK /\ TeardownInv /\ Inv /\ [Next]_vars => Inv'
  BY SettleNext
<1>4. Inv /\ TypeOK => SettledReflectsGuest
  BY <1>1
<1> HIDE DEF Inv
<1> QED
  BY <1>4, <1>2, <1>3, TypeCorrect, SeedInit, SeedNext, TeardownInit, TeardownNext, PTL
  DEF Spec

\* Under the same hypothesis, a Node whose registration is all that has happened to
\* Nodes has an ID once its machine has settled: the requeue of an unpatched Node
\* survives every failed write, stale copy and restart.
THEOREM SettledNodeHasIDAlways ==
  ~ ClusterMayChange /\ Spec => []SettledNodeHasID
<1> DEFINE Inv == ~ ClusterMayChange /\ SettleInv
<1>1. ASSUME SettleInv PROVE SettledNodeHasID
  <2> SUFFICES ASSUME NEW m \in Machines, used["node"] = 1, Settled(m), Attended(m),
                      ReportsGuest(m), node[m] = {NoID}
               PROVE  FALSE
    BY DEF SettledNodeHasID
  <2>1. cKsm[m] = ksm[m] /\ ~ Pending(m) /\ Owned(m)
    BY DEF Settled, Attended, Pending, Owned
  <2>2. RestInv(m)
    BY <1>1 DEF Settled, SettleInv
  <2>3. Waits(m, ksm[m])
    BY <2>1, <2>2 DEF RestInv, SameAsCached, Unbound
  <2> QED BY <2>3 DEF Waits, ReportsGuest
<1>2. ~ ClusterMayChange /\ Init => Inv
  BY SettleInit
<1>3. TypeOK /\ TeardownInv /\ Inv /\ [Next]_vars => Inv'
  BY SettleNext
<1>4. Inv => SettledNodeHasID
  BY <1>1
<1> HIDE DEF Inv
<1> QED
  BY <1>4, <1>2, <1>3, TypeCorrect, SeedInit, SeedNext, TeardownInit, TeardownNext, PTL
  DEF Spec
=============================================================================
