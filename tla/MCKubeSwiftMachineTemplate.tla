--------------------- MODULE MCKubeSwiftMachineTemplate ---------------------
(* Templates with every small configuration, two clones each. *)
EXTENDS KubeSwiftMachineTemplate, TLC

CONSTANT MaxInterfaces  \* bound on the length of spec.interfaces
ASSUME MaxInterfacesAssumption == MaxInterfaces \in 0..3

Names == <<"a", "b", "c", "d", "e", "f", "g", "h", "i", "j", "k", "l", "m", "n", "o",
           "p", "q">>

\* Every short list, the names all different.
ShortLists ==
  UNION {{[i \in 1..n |-> Interface(Names[i], p[i], r[i])] :
            p \in [1..n -> BOOLEAN], r \in [1..n -> {"", "nad"}]} :
           n \in 0..MaxInterfaces}

\* One primary and n - 1 others; two of a name; a name of 0, 63 or 64 characters.
Trunk(n) == [i \in 1..n |-> Interface(Names[i], i = 1, "nad")]
Named(name) == <<Interface(name, TRUE, "")>>
SchemaCases ==
  {Trunk(16), Trunk(17), [Trunk(2) EXCEPT ![2].name = Names[1]], Named(""),
   Named("abcdefghijklmnopqrstuvwxyzabcdefghijklmnopqrstuvwxyzabcdefghijk"),
   Named("abcdefghijklmnopqrstuvwxyzabcdefghijklmnopqrstuvwxyzabcdefghijkl")}

InterfaceLists == ShortLists \cup SchemaCases

GPUs == [template : {"", "t"}, claim : {"", "c"}, profile : {"", "p"},
         requestName : {""}, tier : {"", "pcie", "hgx"}, hugepages : {""}]

MCSpecs ==
  [imageRef : {"", "img"}, guestClassRef : {"class"},
   networkRef : {"", "nad"}, nodeNetworkRef : {"", "sec"}, nodeName : {"", "host"},
   storageClassName : {""}, gpu : {{}} \cup {{g} : g \in GPUs},
   interfaces : InterfaceLists]

\* Another image: what an upgrade would ask for.
MCProposals ==
  {[imageRef |-> "img2", guestClassRef |-> "class", networkRef |-> "",
    nodeNetworkRef |-> "", nodeName |-> "", storageClassName |-> "", gpu |-> {},
    interfaces |-> <<>>]}

MCExposures == {{}, {[poolLabel |-> "c-cp", port |-> 6443]}}

AnyMachine == Permutations(Machines)
=============================================================================
