----------------------------- MODULE SwiftGuest -----------------------------
(***************************************************************************)
(* The pure part of the SwiftGuest backend (internal/backend/swiftguest.go)*)
(* and of the KubeSwiftMachine schema: what configuration is accepted, what*)
(* SwiftGuest it is rendered to, and how a SwiftGuest's status is read.    *)
(*                                                                         *)
(* Data conventions, used by every module of the project:                  *)
(*   - "" is an unset string (Go's zero value; the field is omitted);      *)
(*   - a pointer that may be nil is a set of at most one element;          *)
(*   - a reference (localRef) is the name it holds.                        *)
(* A backend configuration is a record                                     *)
(*   [imageRef, guestClassRef, networkRef, nodeNetworkRef, nodeName,       *)
(*    storageClassName : strings, gpu : nil or a GPU record,               *)
(*    interfaces : sequence of [name, primary, networkRef]]                *)
(* and a guest status is the record                                        *)
(*   [phase, primaryIP, scope, podIP, resolved : strings].                 *)
(***************************************************************************)
EXTENDS Naturals, Sequences, FiniteSets

-----------------------------------------------------------------------------
(* Validation: the CRD's rules, and the backend's own checks.              *)

Primaries(ifaces) == {i \in DOMAIN ifaces : ifaces[i].primary}

\* The three CEL rules on SwiftGuestBackend, .interfaces and SwiftGuestInterface.
CELRules(cfg) ==
  \/ cfg.interfaces = <<>>
  \/ /\ cfg.networkRef = "" /\ cfg.nodeNetworkRef = ""
     /\ Cardinality(Primaries(cfg.interfaces)) = 1
     /\ \A i \in DOMAIN cfg.interfaces :
          cfg.interfaces[i].primary \/ cfg.interfaces[i].networkRef # ""

\* What the schema itself asks of the list: MaxItems, a map keyed by name, the
\* length of a name.
ListSchema(ifaces) ==
  /\ Len(ifaces) <= 16
  /\ \A i, j \in DOMAIN ifaces : ifaces[i].name = ifaces[j].name => i = j
  /\ \A i \in DOMAIN ifaces : Len(ifaces[i].name) \in 1..63

\* The interface lists the API server stores.
AdmittedInterfaces(cfg) == CELRules(cfg) /\ ListSchema(cfg.interfaces)

ValidateInterfacesNoPrimaryCount(cfg) ==
  \/ cfg.interfaces = <<>>
  \/ /\ cfg.networkRef = "" /\ cfg.nodeNetworkRef = ""
     /\ \A i \in DOMAIN cfg.interfaces :
          ~ cfg.interfaces[i].primary => cfg.interfaces[i].networkRef # ""

\* validateInterfaces: the loop counts primaries and checks the others. Neither
\* names nor the number of interfaces are looked at.
ValidateInterfaces(cfg) ==
  cfg.interfaces # <<>> =>
     /\ ~ (cfg.networkRef # "" \/ cfg.nodeNetworkRef # "")
     /\ \A i \in DOMAIN cfg.interfaces \ Primaries(cfg.interfaces) :
          cfg.interfaces[i].networkRef # ""
     /\ Cardinality(Primaries(cfg.interfaces)) = 1

ValidatePlacement(cfg) == ~ (cfg.nodeName # "" /\ cfg.gpu # {})

ValidateGPUAtLeastOne(gpu) ==
  \A g \in gpu :
     /\ {f \in {"template", "claim", "profile"} : g[f] # ""} # {}
     /\ g.tier \in {"", "pcie"}

\* validateGPU: exactly one allocation backend, and only the pcie tier.
ValidateGPU(gpu) ==
  \A g \in gpu :
     /\ Cardinality({f \in {"template", "claim", "profile"} : g[f] # ""}) = 1
     /\ g.tier \in {"", "pcie"}

PrimaryOnNADRefOnly(cfg) == cfg.networkRef # ""

\* primaryOnNAD: networkRef, or the FIRST explicit interface marked primary.
PrimaryOnNAD(cfg) ==
  \/ cfg.networkRef # ""
  \/ \E i \in Primaries(cfg.interfaces) :
       /\ \A j \in Primaries(cfg.interfaces) : i <= j
       /\ cfg.interfaces[i].networkRef # ""

\* The checks of SwiftGuestBackend.Reconcile, before it touches the API. The
\* machine's swiftGuest block is nil-or-a-configuration.
Accepts(backend, exposure) ==
  /\ backend # {}
  /\ \A cfg \in backend :
       /\ cfg.imageRef # "" /\ cfg.guestClassRef # ""
       /\ ValidateGPU(cfg.gpu)
       /\ ValidatePlacement(cfg)
       /\ ValidateInterfaces(cfg)
       /\ ~ (exposure # {} /\ PrimaryOnNAD(cfg))

-----------------------------------------------------------------------------
(* Rendering                                                               *)

SeedName(m) == <<m, "seed">>

Interface(name, primary, ref) ==
  [name |-> name, primary |-> primary, networkRef |-> ref]

RenderInterfaces(ifaces) ==
  [i \in DOMAIN ifaces |->
     Interface(ifaces[i].name, ifaces[i].primary, ifaces[i].networkRef)]

\* The release before v0.4.1: the networkRef NIC was not marked primary.
GuestInterfacesUnmarked(cfg) ==
  CASE cfg.interfaces # <<>>     -> RenderInterfaces(cfg.interfaces)
    [] cfg.networkRef # ""       -> <<Interface("primary", FALSE, cfg.networkRef)>>
    [] cfg.nodeNetworkRef # ""   -> <<Interface("mgmt", TRUE, ""),
                                      Interface("node", FALSE, cfg.nodeNetworkRef)>>
    [] OTHER                     -> <<>>

\* renderSwiftGuest's switch. The branches are tried in order.
GuestInterfaces(cfg) ==
  IF cfg.interfaces # <<>> THEN RenderInterfaces(cfg.interfaces)
  ELSE IF cfg.networkRef # "" THEN <<Interface("primary", TRUE, cfg.networkRef)>>
  ELSE IF cfg.nodeNetworkRef # ""
       THEN <<Interface("mgmt", TRUE, ""), Interface("node", FALSE, cfg.nodeNetworkRef)>>
  ELSE <<>>

\* gpuProfileRef wins; otherwise a claim by template, else by name.
GuestGPUClaim(gpu) ==
  {[template    |-> g.template,
    claim       |-> IF g.template # "" THEN "" ELSE g.claim,
    requestName |-> g.requestName,
    tier        |-> g.tier,
    hugepages   |-> g.hugepages] : g \in {h \in gpu : h.profile = ""}}

\* The rendered SwiftGuest of machine m: the metadata labels this provider
\* stamps and the spec. exposure is nil or [poolLabel, port].
RenderSwiftGuest(m, cfg, exposure) ==
  [machineLabel  |-> m,
   poolLabel     |-> {e.poolLabel : e \in exposure},
   imageRef      |-> cfg.imageRef,
   guestClassRef |-> cfg.guestClassRef,
   seedProfile   |-> SeedName(m),
   interfaces    |-> GuestInterfaces(cfg),
   storage       |-> {[storageClassName |-> c, accessMode |-> "ReadWriteOnce"] :
                        c \in {cfg.storageClassName} \ {""}},
   nodeName      |-> cfg.nodeName,
   gpuProfileRef |-> {g.profile : g \in cfg.gpu} \ {""},
   gpuClaim      |-> GuestGPUClaim(cfg.gpu),
   network       |-> {[binding |-> "nat", name |-> "apiserver",
                       port |-> e.port, targetPort |-> e.port] : e \in exposure}]

-----------------------------------------------------------------------------
(* Reading a SwiftGuest's status                                           *)

\* A freshly created guest: KubeSwift has not reported anything yet.
NoStatus == [phase |-> "", primaryIP |-> "", scope |-> "", podIP |-> "",
             resolved |-> ""]

\* guestAddresses: the launcher pod's IP stands in for a pod-private address.
GuestAddresses(s) ==
  IF s.primaryIP = "" THEN {}
  ELSE {IF s.scope = "Pod" THEN s.podIP ELSE s.primaryIP} \ {""}

UnresolvedMessage(s) == s.resolved = "False"

\* The tail of SwiftGuestBackend.Reconcile as the Ready reason the caller sets
\* for it, and the two tests the caller branches on.
BackendReason(s) ==
  IF s.phase = "Failed" THEN "VMFailed"
  ELSE IF s.phase = "Running" /\ GuestAddresses(s) # {} THEN "VMProvisioned"
  ELSE IF UnresolvedMessage(s) THEN "VMWaitingForReferences"
  ELSE "VMProvisioning"

Provisioned(s) == BackendReason(s) = "VMProvisioned"
=============================================================================
