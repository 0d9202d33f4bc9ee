-------------------------- MODULE MachineLifecycle --------------------------
(***************************************************************************)
(* What a machine provider promises, without caches, queues, workers or    *)
(* partial writes: a machine's object, the VM that backs it and the        *)
(* bootstrap data the VM was started from, and in which order they come and*)
(* go. KubeSwiftMachine implements it.                                     *)
(*                                                                         *)
(* It does not promise that a VM is only ever started for an object that is*)
(* still there: Boot has no such guard, because the controller has none    *)
(* (see GuestGoneWithMachine in KubeSwiftMachine).                         *)
(***************************************************************************)
EXTENDS Naturals

CONSTANT Machines

VARIABLES
  object,      \* "absent", "live" or "deleting"
  held,        \* the provider's finalizer keeps the object
  identified,  \* the object has its providerID
  vm,          \* "absent", "live" or "deleting"
  seed,        \* the VM's bootstrap data is there
  mishaps      \* failed calls, restarts, VMs deleted by others
vars == <<object, held, identified, vm, seed, mishaps>>

Nothing(m) == /\ object[m] = "absent" /\ ~ held[m] /\ ~ identified[m]
              /\ vm[m] = "absent" /\ ~ seed[m]
Running(m) == /\ object[m] = "live" /\ held[m] /\ identified[m]
              /\ vm[m] = "live" /\ seed[m]

Init == /\ object \in [Machines -> {"absent", "live"}]
        /\ held \in [Machines -> BOOLEAN] /\ identified \in [Machines -> BOOLEAN]
        /\ vm \in [Machines -> {"absent", "live"}] /\ seed \in [Machines -> BOOLEAN]
        /\ \A m \in Machines : Nothing(m) \/ Running(m)
        /\ mishaps = 0

Create(m) ==
  /\ object[m] = "absent"
  /\ object' = [object EXCEPT ![m] = "live"]
  /\ UNCHANGED <<held, identified, vm, seed, mishaps>>

\* The object is removed: at once where no finalizer holds it.
Removed(m) ==
  /\ object' = [object EXCEPT ![m] = "absent"]
  /\ held' = [held EXCEPT ![m] = FALSE]
  /\ identified' = [identified EXCEPT ![m] = FALSE]

Delete(m) ==
  /\ object[m] = "live"
  /\ IF held[m] THEN /\ object' = [object EXCEPT ![m] = "deleting"]
                     /\ UNCHANGED <<held, identified>>
     ELSE Removed(m)
  /\ UNCHANGED <<vm, seed, mishaps>>

\* The provider writes its finalizer or the providerID; neither is taken back.
Record(m) ==
  /\ object[m] # "absent"
  /\ \E h \in {held[m], TRUE}, i \in {identified[m], TRUE} :
       /\ held' = [held EXCEPT ![m] = h]
       /\ identified' = [identified EXCEPT ![m] = i]
  /\ UNCHANGED <<object, vm, seed, mishaps>>

\* The bootstrap data comes before the VM and goes after it.
Seed(m) ==
  /\ seed' = [seed EXCEPT ![m] = TRUE]
  /\ UNCHANGED <<object, held, identified, vm, mishaps>>

Boot(m) ==
  /\ vm[m] = "absent" /\ seed[m]
  /\ vm' = [vm EXCEPT ![m] = "live"]
  /\ UNCHANGED <<object, held, identified, seed, mishaps>>

\* A VM is torn down for an object that is being deleted, and for no other.
Teardown(m) ==
  /\ object[m] = "deleting" /\ vm[m] = "live"
  /\ vm' = [vm EXCEPT ![m] = "deleting"]
  /\ UNCHANGED <<object, held, identified, seed, mishaps>>

Gone(m) ==
  /\ vm[m] = "deleting"
  /\ vm' = [vm EXCEPT ![m] = "absent"]
  /\ UNCHANGED <<object, held, identified, seed, mishaps>>

Unseed(m) ==
  /\ object[m] = "deleting" /\ vm[m] = "absent"
  /\ seed' = [seed EXCEPT ![m] = FALSE]
  /\ UNCHANGED <<object, held, identified, vm, mishaps>>

\* The last thing to go is the object.
Release(m) ==
  /\ object[m] = "deleting" /\ held[m]
  /\ vm[m] = "absent" /\ ~ seed[m]
  /\ Removed(m)
  /\ UNCHANGED <<vm, seed, mishaps>>

\* A failure changes nothing, but for a VM somebody else deletes.
Mishap ==
  /\ mishaps' = mishaps + 1
  /\ \/ UNCHANGED vm
     \/ \E m \in Machines : vm[m] = "live" /\ vm' = [vm EXCEPT ![m] = "deleting"]
  /\ UNCHANGED <<object, held, identified, seed>>

Next == \/ \E m \in Machines :
             \/ Create(m) \/ Delete(m) \/ Record(m) \/ Seed(m) \/ Boot(m)
             \/ Teardown(m) \/ Gone(m) \/ Unseed(m) \/ Release(m)
        \/ Mishap

Spec == Init /\ [][Next]_vars
=============================================================================
