------------------- MODULE KubeSwiftMachineTemplateProofs -------------------
(***************************************************************************)
(* Proofs of the properties of KubeSwiftMachineTemplate for any number of  *)
(* clones, any configurations the schema allows and any exposure: interface*)
(* lists of any length, any names and references.                          *)
(***************************************************************************)
EXTENDS KubeSwiftMachineTemplate, FiniteSetTheorems, TLAPS

-----------------------------------------------------------------------------
(* Facts about the operators                                               *)

\* A sequence has finitely many positions, so finitely many primaries, which are
\* numbers.
LEMMA PrimariesFinite ==
  ASSUME NEW R, NEW ifaces \in Seq(R)
  PROVE  IsFiniteSet(Primaries(ifaces)) /\ Primaries(ifaces) \subseteq Nat
<1>1. DOMAIN ifaces = 1 .. Len(ifaces) /\ Len(ifaces) \in Nat
  OBVIOUS
<1>2. IsFiniteSet(1 .. Len(ifaces))
  BY <1>1, FS_Interval
<1>3. Primaries(ifaces) \subseteq 1 .. Len(ifaces)
  BY <1>1 DEF Primaries
<1> QED BY <1>1, <1>2, <1>3, FS_Subset

\* The two formulations of the interface rules agree.
LEMMA InterfaceRules ==
  ASSUME NEW cfg
  PROVE  CELRules(cfg) <=> ValidateInterfaces(cfg)
BY DEF CELRules, ValidateInterfaces, Primaries

\* Rendering an explicit list keeps positions, primaries and references.
LEMMA RenderKeeps ==
  ASSUME NEW ifaces
  PROVE  /\ DOMAIN RenderInterfaces(ifaces) = DOMAIN ifaces
         /\ \A i \in DOMAIN ifaces :
              /\ RenderInterfaces(ifaces)[i].primary = ifaces[i].primary
              /\ RenderInterfaces(ifaces)[i].networkRef = ifaces[i].networkRef
BY DEF RenderInterfaces, Interface

\* The positions and elements of lists of one and of two.
LEMMA ListOfOne == ASSUME NEW x PROVE <<x>>[1] = x /\ DOMAIN <<x>> = {1}
OBVIOUS

LEMMA ListOfTwo ==
  ASSUME NEW x, NEW y
  PROVE  <<x, y>>[1] = x /\ <<x, y>>[2] = y /\ DOMAIN <<x, y>> = {1, 2}
OBVIOUS

\* The only primary of the shapes the renderer makes up is the first NIC.
LEMMA MadeUpPrimaries ==
  ASSUME NEW ref
  PROVE  LET one == <<Interface("primary", TRUE, ref)>>
             two == <<Interface("mgmt", TRUE, ""), Interface("node", FALSE, ref)>>
         IN  /\ {i \in DOMAIN one : one[i].primary} = {1} /\ one[1].networkRef = ref
             /\ {i \in DOMAIN two : two[i].primary} = {1} /\ two[1].networkRef = ""
<1> DEFINE one == <<Interface("primary", TRUE, ref)>>
<1> DEFINE two == <<Interface("mgmt", TRUE, ""), Interface("node", FALSE, ref)>>
<1>1. DOMAIN one = {1} /\ one[1] = Interface("primary", TRUE, ref)
  BY ListOfOne, Zenon
<1>2. /\ DOMAIN two = {1, 2} /\ two[1] = Interface("mgmt", TRUE, "")
      /\ two[2] = Interface("node", FALSE, ref)
  BY ListOfTwo, Zenon
<1>3. /\ Interface("primary", TRUE, ref).primary = TRUE
      /\ Interface("primary", TRUE, ref).networkRef = ref
      /\ Interface("mgmt", TRUE, "").primary = TRUE
      /\ Interface("mgmt", TRUE, "").networkRef = ""
      /\ Interface("node", FALSE, ref).primary = FALSE
  BY DEF Interface
<1> HIDE DEF one, two
<1>4. /\ one[1].primary = TRUE /\ one[1].networkRef = ref
      /\ two[1].primary = TRUE /\ two[1].networkRef = "" /\ two[2].primary = FALSE
  BY <1>1, <1>2, <1>3, Zenon
<1>5. {i \in DOMAIN one : one[i].primary} = {1}
  BY <1>1, <1>4
<1>6. {i \in DOMAIN two : two[i].primary} = {1}
  BY <1>2, <1>4
<1> QED BY <1>4, <1>5, <1>6 DEF one, two

\* If one field of r is set, r refers to one thing.
LEMMA OneRef ==
  ASSUME NEW r, NEW fields, NEW f \in fields, \A x \in fields : r[x] # "" <=> x = f
  PROVE  SetRefs(r, fields) = {<<f, r[f]>>}
<1>1. {x \in fields : r[x] # ""} = {f}
  OBVIOUS
<1> QED BY <1>1 DEF SetRefs

\* The allocator a claim rendered for a GPU block d refers to.
ClaimRefs(gpu) == UNION {SetRefs(c, {"template", "claim"}) : c \in GuestGPUClaim(gpu)}

\* A validated GPU block names one allocator, and the renderer draws on that one.
LEMMA OneAllocator ==
  ASSUME NEW d, ValidateGPU({d})
  PROVE  LET named == SetRefs(d, {"profile", "template", "claim"})
             drawn == {<<"profile", p>> : p \in {d.profile} \ {""}} \cup ClaimRefs({d})
         IN  drawn = named /\ Cardinality(named) = 1
<1> DEFINE named == SetRefs(d, {"profile", "template", "claim"})
           F == {f \in {"template", "claim", "profile"} : d[f] # ""}
<1>1. Cardinality(F) = 1
  BY DEF ValidateGPU
<1>2. IsFiniteSet({"template", "claim", "profile"})
  <2>1. {"template", "claim", "profile"} = ({"template"} \cup {"claim"}) \cup {"profile"}
    OBVIOUS
  <2>2. IsFiniteSet({"template"} \cup {"claim"})
    BY FS_Singleton, FS_Union
  <2>3. IsFiniteSet(({"template"} \cup {"claim"}) \cup {"profile"})
    BY <2>2, FS_Singleton, FS_Union
  <2> QED BY <2>1, <2>3, Zenon
<1>3. IsFiniteSet(F)
  BY <1>2, FS_Subset
<1>4. PICK f : F = {f}
  BY <1>1, <1>3, FS_Singleton
<1>5. f \in {"template", "claim", "profile"} /\ \A x \in {"template", "claim", "profile"} : d[x] # "" <=> x = f
  BY <1>4
<1> HIDE DEF F
<1>6. named = {<<f, d[f]>>}
  BY <1>5, OneRef
<1>7. Cardinality(named) = 1
  BY <1>6, FS_Singleton
<1>8. CASE f = "profile"
  <2>1. d.profile # ""
    BY <1>5, <1>8
  <2>2. GuestGPUClaim({d}) = {}
    BY <2>1 DEF GuestGPUClaim
  <2>3. ClaimRefs({d}) = {}
    BY <2>2 DEF ClaimRefs
  <2> QED BY <1>6, <1>7, <1>8, <2>1, <2>3
<1>9. CASE f \in {"template", "claim"}
  <2>1. /\ d.profile = ""
        /\ d.template # "" <=> f = "template"
        /\ d.claim # "" <=> f = "claim"
    BY <1>5, <1>9
  <2> DEFINE c == [template |-> d.template, claim |-> IF d.template # "" THEN "" ELSE d.claim,
                   requestName |-> d.requestName, tier |-> d.tier, hugepages |-> d.hugepages]
  <2>2. GuestGPUClaim({d}) = {c}
    BY <2>1 DEF GuestGPUClaim
  <2>3. c["template"] = d.template /\ c["claim"] = IF d.template # "" THEN "" ELSE d.claim
    OBVIOUS
  <2> HIDE DEF c
  <2>4. \A x \in {"template", "claim"} : c[x] # "" <=> x = f
    BY <1>9, <2>1, <2>3
  <2>5. c[f] = d[f]
    BY <1>9, <2>1, <2>3
  <2>6. SetRefs(c, {"template", "claim"}) = {<<f, d[f]>>}
    <3>1. {x \in {"template", "claim"} : c[x] # ""} = {f}
      BY <1>9, <2>4
    <3>2. SetRefs(c, {"template", "claim"}) = {<<x, c[x]>> : x \in {f}}
      BY <3>1, Zenon DEF SetRefs
    <3> QED BY <2>5, <3>2
  <2>7. ClaimRefs({d}) = {<<f, d[f]>>}
    <3>1. {SetRefs(x, {"template", "claim"}) : x \in {c}} = {SetRefs(c, {"template", "claim"})}
      OBVIOUS
    <3>2. UNION {SetRefs(c, {"template", "claim"})} = SetRefs(c, {"template", "claim"})
      OBVIOUS
    <3> QED BY <2>2, <2>6, <3>1, <3>2, Zenon DEF ClaimRefs
  <2>8. {<<"profile", p>> : p \in {d.profile} \ {""}} = {}
    BY <2>1
  <2> QED BY <1>6, <1>7, <2>7, <2>8
<1> QED BY <1>5, <1>8, <1>9

\* The guests rendered for two machines from one configuration differ in the name
\* of the machine only.
LEMMA RenderRelabels ==
  ASSUME NEW m, NEW n, NEW cfg, NEW x
  PROVE  RenderSwiftGuest(n, cfg, x) = Relabelled(RenderSwiftGuest(m, cfg, x), n)
<1> DEFINE pool == {e.poolLabel : e \in x}
           image == cfg.imageRef
           class == cfg.guestClassRef
           ifaces == GuestInterfaces(cfg)
           storage == {[storageClassName |-> c, accessMode |-> "ReadWriteOnce"] :
                         c \in {cfg.storageClassName} \ {""}}
           host == cfg.nodeName
           profile == {d.profile : d \in cfg.gpu} \ {""}
           claim == GuestGPUClaim(cfg.gpu)
           network == {[binding |-> "nat", name |-> "apiserver",
                        port |-> e.port, targetPort |-> e.port] : e \in x}
           Guest(l, s) == [machineLabel |-> l, poolLabel |-> pool, imageRef |-> image,
                           guestClassRef |-> class, seedProfile |-> s,
                           interfaces |-> ifaces, storage |-> storage, nodeName |-> host,
                           gpuProfileRef |-> profile, gpuClaim |-> claim,
                           network |-> network]
           L == {m, n}
           S == {SeedName(m), SeedName(n)}
           All == [machineLabel : L, poolLabel : {pool}, imageRef : {image},
                   guestClassRef : {class}, seedProfile : S, interfaces : {ifaces},
                   storage : {storage}, nodeName : {host}, gpuProfileRef : {profile},
                   gpuClaim : {claim}, network : {network}]
           old == Guest(m, SeedName(m))
           mid == [old EXCEPT !.machineLabel = n]
<1>1. RenderSwiftGuest(m, cfg, x) = old /\ RenderSwiftGuest(n, cfg, x) = Guest(n, SeedName(n))
  BY Zenon DEF RenderSwiftGuest
<1> HIDE DEF pool, image, class, ifaces, storage, host, profile, claim, network
<1>2. old \in All /\ n \in L /\ SeedName(n) \in S
  OBVIOUS
<1> HIDE DEF L, S, old
<1>3. mid \in All /\ mid.machineLabel = n
  BY <1>2
<1> HIDE DEF mid
<1>4. [mid EXCEPT !.seedProfile = SeedName(n)] = Guest(n, SeedName(n))
  BY <1>2, <1>3
<1> QED BY <1>1, <1>4, Zenon DEF mid, Relabelled

-----------------------------------------------------------------------------
(* The clones                                                              *)

\* Every clone has the template's present configuration, whenever it was made,
\* and every guest is what that configuration renders to, once accepted.
CloneInv ==
  /\ rules \in BOOLEAN
  /\ template.spec \in Specs \cup Proposals
  /\ machine \in [Machines -> SUBSET Clones]
  /\ DOMAIN guest = Machines
  /\ \A m \in Machines :
       /\ \A k \in machine[m] : k.backend = template.spec
       /\ \A g \in guest[m] : /\ g = RenderSwiftGuest(m, template.spec, exposure)
                              /\ Accepts({template.spec}, exposure)

\* Initially there are no clones.
LEMMA CloneInit == Init => CloneInv
BY DEF Init, CloneInv

\* Every step keeps CloneInv: no admitted update changes the configuration.
LEMMA CloneNext == CloneInv /\ [Next]_vars => CloneInv'
<1> SUFFICES ASSUME CloneInv, [Next]_vars PROVE CloneInv'
  OBVIOUS
<1>1. CASE UpdateTemplate
  <2>1. template'.spec = template.spec
    BY <1>1 DEF UpdateTemplate, ValidateUpdate, IsDryRunRequest
  <2>2. UNCHANGED <<rules, exposure, machine, guest>>
    BY <1>1 DEF UpdateTemplate
  <2> QED BY <2>1, <2>2 DEF CloneInv
<1>2. ASSUME NEW m \in Machines, CloneTemplate(m) PROVE CloneInv'
  <2>1. NewClone \in Clones /\ NewClone.backend = template.spec /\ NewClone.admitted = rules
    BY DEF CloneInv, Clones, NewClone
  <2>2. /\ UNCHANGED <<rules, template, exposure, guest>>
        /\ rules => AdmittedInterfaces(template.spec)
        /\ machine' = [machine EXCEPT ![m] = {NewClone}]
    BY <1>2 DEF CloneTemplate
  <2>3. machine' \in [Machines -> SUBSET Clones]
    BY <2>1, <2>2 DEF CloneInv
  <2>4. \A n \in Machines : \A k \in machine'[n] : k.backend = template.spec
    BY <2>1, <2>2 DEF CloneInv
  <2> QED BY <2>2, <2>3, <2>4 DEF CloneInv
<1>3. ASSUME NEW m \in Machines, Reject(m) PROVE CloneInv'
  <2>1. PICK k \in machine[m] : machine' = [machine EXCEPT ![m] = {[k EXCEPT !.ready = "VMFailed"]}]
    BY <1>3 DEF Reject
  <2>2. /\ [k EXCEPT !.ready = "VMFailed"] \in Clones
        /\ [k EXCEPT !.ready = "VMFailed"].backend = template.spec
    BY <2>1 DEF CloneInv, Clones
  <2> QED BY <1>3, <2>1, <2>2 DEF Reject, CloneInv
<1>4. ASSUME NEW m \in Machines, Render(m) PROVE CloneInv'
  <2>1. PICK k \in machine[m] :
          /\ Accepts({k.backend}, exposure)
          /\ machine' = [machine EXCEPT ![m] = {[k EXCEPT !.ready = "VMProvisioning"]}]
          /\ guest' = [guest EXCEPT ![m] = {RenderSwiftGuest(m, k.backend, exposure)}]
    BY <1>4 DEF Render
  <2>2. k.backend = template.spec /\ k \in Clones
    BY DEF CloneInv
  <2>3. /\ [k EXCEPT !.ready = "VMProvisioning"] \in Clones
        /\ [k EXCEPT !.ready = "VMProvisioning"].backend = template.spec
    BY <2>2 DEF Clones
  <2>4. UNCHANGED <<rules, template, exposure>>
    BY <1>4 DEF Render
  <2>5. machine' \in [Machines -> SUBSET Clones] /\ DOMAIN guest' = Machines
    BY <2>1, <2>3 DEF CloneInv
  <2>6. \A n \in Machines : \A j \in machine'[n] : j.backend = template.spec
    BY <2>1, <2>3 DEF CloneInv
  <2>7. \A n \in Machines : \A g \in guest'[n] :
          /\ g = RenderSwiftGuest(n, template.spec, exposure)
          /\ Accepts({template.spec}, exposure)
    BY <2>1, <2>2 DEF CloneInv
  <2> QED BY <2>4, <2>5, <2>6, <2>7 DEF CloneInv
<1>5. CASE UpgradeCRDs
  BY <1>5 DEF UpgradeCRDs, CloneInv
<1>6. CASE UNCHANGED vars
  BY <1>6 DEF vars, CloneInv
<1> QED BY <1>1, <1>2, <1>3, <1>4, <1>5, <1>6 DEF Next

\* CloneInv holds throughout.
LEMMA ClonesFollow == Spec => []CloneInv
<1> QED BY CloneInit, CloneNext, PTL DEF Spec

\* A clone's configuration is the template's.
LEMMA CloneConfigured ==
  ASSUME CloneInv, NEW m \in Machines
  PROVE  /\ \A cfg \in Configured(m) : cfg = template.spec
         /\ machine[m] # {} => Configured(m) = {template.spec}
BY DEF CloneInv, Configured

\* Machines cloned from one template at different times agree.
THEOREM ClonesAgreeAlways == Spec => []ClonesAgree
<1>1. CloneInv => ClonesAgree
  <2> SUFFICES ASSUME CloneInv, NEW m \in Machines, NEW n \in Machines,
                      machine[m] # {}, machine[n] # {}
               PROVE  /\ Configured(m) = Configured(n)
                      /\ \A g \in guest[m], h \in guest[n] : h = Relabelled(g, n)
    BY DEF ClonesAgree
  <2>1. Configured(m) = Configured(n)
    BY CloneConfigured
  <2>2. ASSUME NEW g \in guest[m], NEW h \in guest[n]
        PROVE  h = Relabelled(g, n)
    <3>1. /\ g = RenderSwiftGuest(m, template.spec, exposure)
          /\ h = RenderSwiftGuest(n, template.spec, exposure)
      BY DEF CloneInv
    <3> QED BY <3>1, RenderRelabels, Zenon
  <2> QED BY <2>1, <2>2
<1> QED BY <1>1, ClonesFollow, PTL

-----------------------------------------------------------------------------
(* Admission                                                               *)

\* A machine created under the CRD's rules keeps them: its configuration is not
\* changed by anyone.
AdmissionInv ==
  \A m \in Machines : \A k \in machine[m] : k.admitted => AdmittedInterfaces(k.backend)

\* Every step keeps AdmissionInv.
LEMMA AdmissionNext == CloneInv /\ AdmissionInv /\ [Next]_vars => AdmissionInv'
<1> SUFFICES ASSUME CloneInv, AdmissionInv, [Next]_vars PROVE AdmissionInv'
  OBVIOUS
<1>1. CASE UpdateTemplate \/ UpgradeCRDs \/ UNCHANGED vars
  BY <1>1 DEF UpdateTemplate, UpgradeCRDs, vars, AdmissionInv
<1>2. ASSUME NEW m \in Machines, CloneTemplate(m) PROVE AdmissionInv'
  <2>1. NewClone.admitted => AdmittedInterfaces(NewClone.backend)
    BY <1>2 DEF CloneTemplate, NewClone
  <2>2. \A n \in Machines : \A k \in machine'[n] : k = NewClone \/ k \in machine[n]
    BY <1>2 DEF CloneTemplate, CloneInv
  <2> QED BY <2>1, <2>2 DEF AdmissionInv
<1>3. ASSUME NEW m \in Machines, Reject(m) \/ Render(m) PROVE AdmissionInv'
  <2>1. PICK k \in machine[m] :
          \/ machine' = [machine EXCEPT ![m] = {[k EXCEPT !.ready = "VMFailed"]}]
          \/ machine' = [machine EXCEPT ![m] = {[k EXCEPT !.ready = "VMProvisioning"]}]
    BY <1>3 DEF Reject, Render
  <2> DEFINE Answers == {[k EXCEPT !.ready = "VMFailed"], [k EXCEPT !.ready = "VMProvisioning"]}
  <2>2. \A j \in Answers : j.admitted = k.admitted /\ j.backend = k.backend
    BY DEF CloneInv, Clones
  <2>3. \A n \in Machines : \A j \in machine'[n] : j \in Answers \/ j \in machine[n]
    BY <2>1 DEF CloneInv
  <2> HIDE DEF Answers
  <2> QED BY <2>2, <2>3 DEF AdmissionInv
<1> QED BY <1>1, <1>2, <1>3 DEF Next

\* The backend never fails a machine for interfaces the CRD's rules admitted, and
\* makes a guest of one created before the rules only if it keeps the CEL rules,
\* whatever the length of its list and the names in it.
THEOREM AdmissionMatchesBackstopAlways == Spec => []AdmissionMatchesBackstop
<1>1. Init => AdmissionInv
  BY DEF Init, AdmissionInv
<1>2. CloneInv /\ AdmissionInv => AdmissionMatchesBackstop
  <2> SUFFICES ASSUME CloneInv, AdmissionInv, NEW m \in Machines, NEW k \in machine[m]
               PROVE  /\ k.admitted => ValidateInterfaces(k.backend)
                      /\ guest[m] # {} => CELRules(k.backend)
    BY DEF AdmissionMatchesBackstop
  <2>1. k.admitted => ValidateInterfaces(k.backend)
    BY InterfaceRules DEF AdmissionInv, AdmittedInterfaces
  <2>2. ASSUME guest[m] # {} PROVE CELRules(k.backend)
    <3>1. k.backend = template.spec /\ Accepts({template.spec}, exposure)
      BY <2>2 DEF CloneInv
    <3> QED BY <3>1, InterfaceRules DEF Accepts
  <2> QED BY <2>1, <2>2
<1> QED BY <1>1, <1>2, CloneInit, CloneNext, AdmissionNext, PTL DEF Spec

-----------------------------------------------------------------------------
(* The guests                                                              *)

\* The guest's NICs come from its configuration, its open port from the exposure.
LEMMA RenderedParts ==
  ASSUME NEW m, NEW cfg, NEW x
  PROVE  LET g == RenderSwiftGuest(m, cfg, x)
         IN  /\ g.interfaces = GuestInterfaces(cfg)
             /\ x = {} => g.network = {}
BY DEF RenderSwiftGuest

\* The primaries of an accepted configuration's NICs: one where there are NICs at
\* all, on the networkRef if that is set, and never on another network when the
\* API-server port is exposed.
LEMMA RenderedPrimaries ==
  ASSUME NEW cfg \in Specs \cup Proposals, NEW x, Accepts({cfg}, x)
  PROVE  /\ GuestInterfaces(cfg) # <<>> => Cardinality(Primaries(GuestInterfaces(cfg))) = 1
         /\ cfg.networkRef # "" =>
              \E i \in Primaries(GuestInterfaces(cfg)) :
                GuestInterfaces(cfg)[i].networkRef = cfg.networkRef
         /\ x # {} => \A i \in Primaries(GuestInterfaces(cfg)) :
                        GuestInterfaces(cfg)[i].networkRef = ""
<1> DEFINE ifaces == GuestInterfaces(cfg)
           primaries == Primaries(ifaces)
<1>1. ValidateInterfaces(cfg) /\ (x # {} => ~ PrimaryOnNAD(cfg))
  BY DEF Accepts
<1>2. CASE cfg.interfaces # <<>>
  <2>1. ifaces = RenderInterfaces(cfg.interfaces)
    BY <1>2 DEF GuestInterfaces
  <2>2. cfg.networkRef = "" /\ Cardinality(Primaries(cfg.interfaces)) = 1
    BY <1>1, <1>2 DEF ValidateInterfaces
  <2>3. /\ DOMAIN ifaces = DOMAIN cfg.interfaces
        /\ \A i \in DOMAIN cfg.interfaces :
             /\ ifaces[i].primary = cfg.interfaces[i].primary
             /\ ifaces[i].networkRef = cfg.interfaces[i].networkRef
    BY <2>1, RenderKeeps, Zenon
  <2>4. primaries = Primaries(cfg.interfaces)
    BY <2>3, Zenon DEF Primaries
  <2>5. /\ IsFiniteSet(Primaries(cfg.interfaces)) /\ Primaries(cfg.interfaces) \subseteq Nat
    BY PrimariesFinite, ConfigurationsAssumption
  <2>6. PICK p : Primaries(cfg.interfaces) = {p}
    BY <2>2, <2>5, FS_Singleton
  <2>7. x # {} => cfg.interfaces[p].networkRef = ""
    <3>1. p \in Nat /\ p <= p
      BY <2>5, <2>6
    <3> QED BY <1>1, <2>6, <3>1 DEF PrimaryOnNAD
  <2>8. p \in DOMAIN cfg.interfaces
    BY <2>6 DEF Primaries
  <2>9. x # {} => \A i \in primaries : ifaces[i].networkRef = ""
    BY <2>3, <2>4, <2>6, <2>7, <2>8, Zenon
  <2> QED BY <2>2, <2>4, <2>9, Zenon
<1>3. CASE cfg.interfaces = <<>> /\ cfg.networkRef # ""
  <2>1. ifaces = <<Interface("primary", TRUE, cfg.networkRef)>>
    BY <1>3 DEF GuestInterfaces
  <2>2. primaries = {1} /\ ifaces[1].networkRef = cfg.networkRef
    BY <2>1, MadeUpPrimaries, Zenon DEF Primaries
  <2>3. Cardinality(primaries) = 1
    BY <2>2, FS_Singleton
  <2>4. x = {}
    BY <1>1, <1>3 DEF PrimaryOnNAD
  <2> QED BY <2>2, <2>3, <2>4, Zenon
<1>4. CASE cfg.interfaces = <<>> /\ cfg.networkRef = "" /\ cfg.nodeNetworkRef # ""
  <2>1. ifaces = <<Interface("mgmt", TRUE, ""), Interface("node", FALSE, cfg.nodeNetworkRef)>>
    BY <1>4 DEF GuestInterfaces
  <2>2. primaries = {1} /\ ifaces[1].networkRef = ""
    BY <2>1, MadeUpPrimaries, Zenon DEF Primaries
  <2>3. Cardinality(primaries) = 1
    BY <2>2, FS_Singleton
  <2> QED BY <1>4, <2>2, <2>3, Zenon
<1>5. CASE cfg.interfaces = <<>> /\ cfg.networkRef = "" /\ cfg.nodeNetworkRef = ""
  <2>1. ifaces = <<>>
    BY <1>5 DEF GuestInterfaces
  <2>2. DOMAIN ifaces = {}
    BY <2>1
  <2> HIDE DEF ifaces
  <2>3. primaries = {}
    BY <2>2 DEF Primaries
  <2> HIDE DEF primaries
  <2>4. /\ ifaces # <<>> => Cardinality(primaries) = 1
        /\ cfg.networkRef # "" => \E i \in primaries : ifaces[i].networkRef = cfg.networkRef
        /\ x # {} => \A i \in primaries : ifaces[i].networkRef = ""
    BY <1>5, <2>1, <2>3
  <2> QED BY <2>4 DEF primaries, ifaces
<1> QED BY <1>2, <1>3, <1>4, <1>5

\* A guest of a clone, and the configuration it comes from.
LEMMA GuestOfClone ==
  ASSUME CloneInv, NEW m \in Machines, NEW g \in guest[m]
  PROVE  /\ template.spec \in Specs \cup Proposals
         /\ g = RenderSwiftGuest(m, template.spec, exposure)
         /\ Accepts({template.spec}, exposure)
BY DEF CloneInv

\* A guest with NICs has one primary, on the network its configuration names.
THEOREM ExactlyOnePrimaryAlways == Spec => []ExactlyOnePrimary
<1>1. CloneInv => ExactlyOnePrimary
  <2> SUFFICES ASSUME CloneInv, NEW m \in Machines, NEW g \in guest[m],
                      NEW cfg \in Configured(m)
               PROVE  /\ g.interfaces # <<>> => Cardinality(PrimaryNICs(g)) = 1
                      /\ cfg.networkRef # "" =>
                           \E i \in PrimaryNICs(g) : g.interfaces[i].networkRef = cfg.networkRef
    BY DEF ExactlyOnePrimary
  <2>1. cfg = template.spec
    BY CloneConfigured
  <2>2. /\ g = RenderSwiftGuest(m, cfg, exposure) /\ Accepts({cfg}, exposure)
        /\ cfg \in Specs \cup Proposals
    BY <2>1, GuestOfClone
  <2>3. g.interfaces = GuestInterfaces(cfg)
    BY <2>2, RenderedParts, Zenon
  <2>4. PrimaryNICs(g) = Primaries(GuestInterfaces(cfg))
    BY <2>3, Zenon DEF PrimaryNICs, Primaries
  <2> DEFINE ifaces == GuestInterfaces(cfg)
  <2>5. /\ ifaces # <<>> => Cardinality(Primaries(ifaces)) = 1
        /\ cfg.networkRef # "" =>
             \E i \in Primaries(ifaces) : ifaces[i].networkRef = cfg.networkRef
    BY <2>2, RenderedPrimaries
  <2> HIDE DEF ifaces
  <2>6. g.interfaces = ifaces /\ PrimaryNICs(g) = Primaries(ifaces)
    BY <2>3, <2>4 DEF ifaces
  <2> QED BY <2>5, <2>6, Zenon
<1> QED BY <1>1, ClonesFollow, PTL

\* With the API-server port exposed, the primary NIC is on the node-local network.
THEOREM EndpointPrimaryIsNodeLocalAlways == Spec => []EndpointPrimaryIsNodeLocal
<1>1. CloneInv => EndpointPrimaryIsNodeLocal
  <2> SUFFICES ASSUME CloneInv, NEW m \in Machines, NEW g \in guest[m], g.network # {},
                      NEW i \in PrimaryNICs(g)
               PROVE  g.interfaces[i].networkRef = ""
    BY DEF EndpointPrimaryIsNodeLocal
  <2>1. /\ g = RenderSwiftGuest(m, template.spec, exposure)
        /\ Accepts({template.spec}, exposure) /\ template.spec \in Specs \cup Proposals
    BY GuestOfClone
  <2>2. g.interfaces = GuestInterfaces(template.spec) /\ exposure # {}
    BY <2>1, RenderedParts, Zenon
  <2>3. PrimaryNICs(g) = Primaries(GuestInterfaces(template.spec))
    BY <2>2, Zenon DEF PrimaryNICs, Primaries
  <2> DEFINE ifaces == GuestInterfaces(template.spec)
  <2>4. \A j \in Primaries(ifaces) : ifaces[j].networkRef = ""
    BY <2>1, <2>2, RenderedPrimaries
  <2> HIDE DEF ifaces
  <2>5. g.interfaces = ifaces /\ i \in Primaries(ifaces)
    BY <2>2, <2>3 DEF ifaces
  <2> QED BY <2>4, <2>5, Zenon
<1> QED BY <1>1, ClonesFollow, PTL

\* A guest's GPU comes from the one allocator its machine named, and such a guest
\* is not pinned to a host.
THEOREM GPUOneAllocatorAlways == Spec => []GPUOneAllocator
<1>1. CloneInv => GPUOneAllocator
  <2> SUFFICES ASSUME CloneInv, NEW m \in Machines, NEW g \in guest[m],
                      NEW cfg \in Configured(m)
               PROVE  LET named == UNION {SetRefs(d, {"profile", "template", "claim"}) : d \in cfg.gpu}
                          drawn == {<<"profile", p>> : p \in g.gpuProfileRef}
                                     \cup UNION {SetRefs(c, {"template", "claim"}) : c \in g.gpuClaim}
                      IN  /\ drawn = named
                          /\ Cardinality(drawn) = Cardinality(cfg.gpu)
                          /\ cfg.gpu # {} => g.nodeName = ""
    BY DEF GPUOneAllocator
  <2> DEFINE named == UNION {SetRefs(d, {"profile", "template", "claim"}) : d \in cfg.gpu}
             profiles == {<<"profile", p>> : p \in g.gpuProfileRef}
             claims == UNION {SetRefs(c, {"template", "claim"}) : c \in g.gpuClaim}
  <2>1. cfg = template.spec
    BY CloneConfigured
  <2>2. /\ g = RenderSwiftGuest(m, cfg, exposure) /\ Accepts({cfg}, exposure)
        /\ cfg \in Specs \cup Proposals
    BY <2>1, GuestOfClone
  <2>3. /\ g.nodeName = cfg.nodeName
        /\ g.gpuProfileRef = {d.profile : d \in cfg.gpu} \ {""}
        /\ g.gpuClaim = GuestGPUClaim(cfg.gpu)
    BY <2>2 DEF RenderSwiftGuest
  <2>4. ValidateGPU(cfg.gpu) /\ (cfg.gpu # {} => g.nodeName = "")
    <3>1. ValidateGPU(cfg.gpu) /\ ValidatePlacement(cfg)
      BY <2>2, Zenon DEF Accepts
    <3> QED BY <2>3, <3>1, Zenon DEF ValidatePlacement
  <2>5. claims = ClaimRefs(cfg.gpu)
    BY <2>3, Zenon DEF ClaimRefs
  <2>6. CASE cfg.gpu = {}
    <3>1. g.gpuProfileRef = {} /\ g.gpuClaim = {}
      BY <2>3, <2>6 DEF GuestGPUClaim
    <3>2. named = {} /\ profiles = {} /\ claims = {}
      BY <2>6, <3>1
    <3>3. profiles \cup claims = {}
      BY <3>2
    <3> QED BY <2>6, <3>2, <3>3, Zenon
  <2>7. CASE cfg.gpu # {}
    <3>1. PICK d \in cfg.gpu : cfg.gpu = {d}
      BY <2>2, <2>7, ConfigurationsAssumption
    <3>2. named = SetRefs(d, {"profile", "template", "claim"})
      BY <3>1
    <3>3. g.gpuProfileRef = {d.profile} \ {""}
      BY <2>3, <3>1
    <3>4. profiles = {<<"profile", p>> : p \in {d.profile} \ {""}}
      BY <3>3, Zenon
    <3>5. profiles \cup claims = named /\ Cardinality(named) = 1
      BY <2>4, <2>5, <3>1, <3>2, <3>4, OneAllocator, Zenon
    <3>6. Cardinality(cfg.gpu) = 1
      BY <3>1, FS_Singleton
    <3> QED BY <2>4, <3>5, <3>6, Zenon
  <2> QED BY <2>6, <2>7
<1> QED BY <1>1, ClonesFollow, PTL
=============================================================================
