---------------------- MODULE KubeSwiftMachineTemplate ----------------------
(***************************************************************************)
(* A KubeSwiftMachineTemplate, its validating webhook                      *)
(* (internal/webhook/v1alpha1/kubeswiftmachinetemplate_webhook.go), and the*)
(* machines Cluster API clones from it at any time, each of which the      *)
(* SwiftGuest backend rejects or renders to a guest. Template and machines *)
(* may be older than the CRDs' rules on interfaces.                        *)
(***************************************************************************)
EXTENDS SwiftGuest

CONSTANTS
  Machines,   \* names of the KubeSwiftMachines cloned from the template
  Specs,      \* backend configurations a template may be created with
  Proposals,  \* backend configurations a later request may carry
  Exposures,  \* nil, and the exposures of a control-plane machine
  Versions    \* values of spec.template.metadata

\* The schema: a list of NICs, and one GPU block or none.
ASSUME ConfigurationsAssumption ==
  \A cfg \in Specs \cup Proposals :
    /\ cfg.interfaces \in Seq([name : STRING, primary : BOOLEAN, networkRef : STRING])
    /\ cfg.gpu # {} => \E g \in cfg.gpu : cfg.gpu = {g}

VARIABLES
  rules,      \* the CRDs with the rules on interfaces are installed
  template,   \* the object: spec.template.spec.backend.swiftGuest, metadata
  exposure,   \* what controlPlaneExposure answers for these machines
  machine,    \* the clones: nil, or the configuration and the Ready reason;
              \* admitted: created under the rules (no code reads it)
  guest       \* nil or the rendered SwiftGuest
vars == <<rules, template, exposure, machine, guest>>

Templates == [spec : Specs \cup Proposals, metadata : Versions]
Clones == [backend : Specs \cup Proposals, ready : {"unset", "VMFailed", "VMProvisioning"},
           admitted : BOOLEAN]

Init == /\ rules = FALSE
        /\ template \in [spec : Specs, metadata : Versions]
        /\ exposure \in Exposures
        /\ machine = [m \in Machines |-> {}]
        /\ guest = [m \in Machines |-> {}]

-----------------------------------------------------------------------------
(* The webhook                                                             *)

\* topology.IsDryRunRequest: a dry-run request whose object carries the topology
\* controller's annotation.
IsDryRunRequest(req) == req.dryRun /\ req.annotated

\* A form that believes the annotation, which any writer may set.
ValidateUpdateAnnotated(old, new, req) == req.annotated \/ old.spec = new.spec

ValidateUpdate(old, new, req) == IsDryRunRequest(req) \/ old.spec = new.spec

\* An update the webhook admits; a dry run changes nothing. A refused one
\* changes nothing either. (So no update brings in a configuration for the CRD's
\* rules to look at; what is stored already they leave alone.)
UpdateTemplate ==
  /\ \E spec \in Proposals \cup {template.spec}, metadata \in Versions,
        req \in [dryRun : BOOLEAN, annotated : BOOLEAN] :
       LET new == [spec |-> spec, metadata |-> metadata]
       IN  /\ ValidateUpdate(template, new, req)
           /\ template' = IF req.dryRun THEN template ELSE new
  /\ UNCHANGED <<rules, exposure, machine, guest>>

-----------------------------------------------------------------------------
(* Cluster API and the backend                                             *)

\* The provider is upgraded to the release with the rules.
UpgradeCRDs ==
  /\ ~ rules /\ rules' = TRUE
  /\ UNCHANGED <<template, exposure, machine, guest>>

NewClone == [backend |-> template.spec, ready |-> "unset", admitted |-> rules]

\* A KubeSwiftMachine is created, if the API server admits it.
CloneTemplate(m) ==
  /\ machine[m] = {} /\ (rules => AdmittedInterfaces(template.spec))
  /\ machine' = [machine EXCEPT ![m] = {NewClone}]
  /\ UNCHANGED <<rules, template, exposure, guest>>

\* SwiftGuestBackend.Reconcile returns a validation error.
Reject(m) ==
  /\ \E k \in machine[m] :
       /\ k.ready = "unset" /\ ~ Accepts({k.backend}, exposure)
       /\ machine' = [machine EXCEPT ![m] = {[k EXCEPT !.ready = "VMFailed"]}]
  /\ UNCHANGED <<rules, template, exposure, guest>>

\* ... or goes on to create the rendered SwiftGuest.
Render(m) ==
  /\ \E k \in machine[m] :
       /\ k.ready = "unset" /\ Accepts({k.backend}, exposure)
       /\ machine' = [machine EXCEPT ![m] = {[k EXCEPT !.ready = "VMProvisioning"]}]
       /\ guest' = [guest EXCEPT ![m] = {RenderSwiftGuest(m, k.backend, exposure)}]
  /\ UNCHANGED <<rules, template, exposure>>

Next == \/ UpdateTemplate \/ UpgradeCRDs
        \/ \E m \in Machines : CloneTemplate(m) \/ Reject(m) \/ Render(m)

Spec == Init /\ [][Next]_vars

-----------------------------------------------------------------------------
(* Properties                                                              *)

Configured(m) == {k.backend : k \in machine[m]}

\* The guest g, had it been rendered for machine n.
Relabelled(g, n) == [g EXCEPT !.machineLabel = n, !.seedProfile = SeedName(n)]

\* A template is never changed under the machines that are already running
\* ("a template change forces a rollout rather than mutating in place",
\* kubeswiftmachinetemplate_webhook.go:28-29): two machines cloned from one
\* template at different times, with admitted updates and dry runs in between,
\* are both rejected or have the same guest but for its own name.
ClonesAgree ==
  \A m, n \in Machines :
    machine[m] # {} /\ machine[n] # {} =>
      /\ Configured(m) = Configured(n)
      /\ \A g \in guest[m], h \in guest[n] : h = Relabelled(g, n)

PrimaryNICs(g) == {i \in DOMAIN g.interfaces : g.interfaces[i].primary}

\* A machine the CRD's rules admitted is not turned away for its interfaces later
\* ("reject a bad `interfaces` list when it is applied, instead of the machine
\* failing later as `VMFailed`", CHANGELOG.md:19-21); and one that was created before
\* the rules, from whatever template, becomes a guest only if it keeps the three CEL
\* rules ("this is the backstop for objects stored before those rules existed",
\* swiftguest.go:97-98). The CEL rules are three separate expressions, the backstop
\* is a counting loop. The limits of ListSchema have no backstop.
AdmissionMatchesBackstop ==
  \A m \in Machines : \A k \in machine[m] :
    /\ k.admitted => ValidateInterfaces(k.backend)
    /\ guest[m] # {} => CELRules(k.backend)

\* KubeSwift hands the guest its address and gateway only on an interface
\* marked primary: a guest rendered with an interface list has exactly one, and
\* it rides the NAD the configuration asked for. (v0.4.0 rendered none for
\* networkRef.)
ExactlyOnePrimary ==
  \A m \in Machines : \A g \in guest[m], cfg \in Configured(m) :
    /\ g.interfaces # <<>> => Cardinality(PrimaryNICs(g)) = 1
    /\ cfg.networkRef # "" =>
         \E i \in PrimaryNICs(g) : g.interfaces[i].networkRef = cfg.networkRef

\* A guest whose API-server port is exposed by in-pod DNAT (Service endpoint
\* mode) keeps its primary interface on the node-local network, whichever of
\* the three ways its interfaces were configured.
EndpointPrimaryIsNodeLocal ==
  \A m \in Machines : \A g \in guest[m] :
    g.network # {} => \A i \in PrimaryNICs(g) : g.interfaces[i].networkRef = ""

\* The references of r that are set.
SetRefs(r, fields) == {<<f, r[f]>> : f \in {x \in fields : r[x] # ""}}

\* A guest draws its GPU from exactly the allocators its machine named (native
\* profile, claim template or claim), of which there is one: the renderer, which
\* takes the first it finds, never drops another. Such a guest is not also pinned
\* to a host, which would bypass the scheduler that allocates the claim.
GPUOneAllocator ==
  \A m \in Machines : \A g \in guest[m], cfg \in Configured(m) :
    LET named == UNION {SetRefs(d, {"profile", "template", "claim"}) : d \in cfg.gpu}
        drawn == {<<"profile", p>> : p \in g.gpuProfileRef}
                   \cup UNION {SetRefs(c, {"template", "claim"}) : c \in g.gpuClaim}
    IN  /\ drawn = named
        /\ Cardinality(drawn) = Cardinality(cfg.gpu)
        /\ cfg.gpu # {} => g.nodeName = ""
=============================================================================
