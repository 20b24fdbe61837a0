---------------------------- MODULE DesignProofs ----------------------------
(***************************************************************************)
(* Theorems about what is generated from a design, whatever the designs,   *)
(* the edits and the rounds a configuration makes.  The record holds only  *)
(* what POST /instances has let pass, and the variables of terraform are   *)
(* those of the record: that much is inductive, and the properties follow  *)
(* from what the generation makes of one such record.  The second half is  *)
(* about the canvas: what is drawn on it can be drawn, after every edit    *)
(* and however often it was filled from the form.                          *)
(***************************************************************************)
EXTENDS Connections, DesignCanvas, SequenceFacts

-----------------------------------------------------------------------------
(* Places.                                                                 *)

\* Of some places one is the last.
LEMMA LastPlace ==
  ASSUME NEW n \in Nat, NEW S, S \subseteq 1 .. n, S # {}
  PROVE  \E i \in S : \A j \in S : j <= i
<1> DEFINE T == {n - i : i \in S}
<1>1. T \subseteq Nat /\ T # {}
  <2>1. T \subseteq Nat
    OBVIOUS
  <2>2. PICK i \in S : TRUE
    OBVIOUS
  <2>3. n - i \in T
    OBVIOUS
  <2> QED
    BY <2>1, <2>3
<1> HIDE DEF T
<1>2. PICK m \in T : \A k \in T : m <= k
  BY <1>1, LeastNumber
<1>3. PICK i \in S : m = n - i
  BY <1>2 DEF T
<1>4. ASSUME NEW j \in S PROVE j <= i
  <2>1. n - j \in T
    BY DEF T
  <2>2. n - i <= n - j
    BY <1>2, <1>3, <2>1
  <2>3. i \in Int /\ j \in Int
    OBVIOUS
  <2> QED
    BY <2>2, <2>3
<1> QED
  BY <1>4

\* And one the first.
LEMMA FirstPlace ==
  ASSUME NEW n \in Nat, NEW S, S \subseteq 1 .. n, S # {}
  PROVE  \E i \in S : \A j \in S : i <= j
<1>1. S \subseteq Nat
  OBVIOUS
<1> QED
  BY <1>1, LeastNumber

LEMMA Places ==
  ASSUME NEW d \in Designs
  PROVE  /\ Len(d.clusters) \in Nat /\ DOMAIN d.clusters = 1 .. Len(d.clusters)
         /\ \A i \in DOMAIN d.clusters : d.clusters[i] \in DesignClusters
         /\ Len(d.operators) \in Nat \ {0} /\ DOMAIN d.operators = 1 .. Len(d.operators)
<1>1. d.clusters \in Seq(DesignClusters) /\ d.operators \in Seq(NamesInUse) /\ d.operators # <<>>
  BY DEF Designs
<1> DEFINE cs == d.clusters
           os == d.operators
<1>2. cs \in Seq(DesignClusters) /\ os \in Seq(NamesInUse) /\ os # <<>>
  BY <1>1
<1> HIDE DEF cs, os
<1>3. Len(cs) \in Nat /\ DOMAIN cs = 1 .. Len(cs) /\ \A i \in DOMAIN cs : cs[i] \in DesignClusters
  BY <1>2, LenProperties, ElementOfSeq
<1>4. Len(os) \in Nat \ {0} /\ DOMAIN os = 1 .. Len(os)
  BY <1>2, LenProperties, EmptySeq
<1> QED
  BY <1>3, <1>4 DEF cs, os

\* What is looked up is a place of the design that has the name.
LEMMA FoundPlaces ==
  ASSUME NEW d \in Designs, NEW name
  PROVE  /\ ClustersNamed(d, name) # {} =>
              /\ ClusterHost(d, name) \in DOMAIN d.clusters
              /\ ClusterHost(d, name) \in ClustersNamed(d, name)
         /\ HostsOf(d, name) # {} =>
              /\ DatabaseEndpoint(d, name) \in HostsOf(d, name)
              /\ FindDb(d, name) \in HostsOf(d, name)
         /\ HostsOf(d, name) \subseteq DOMAIN d.clusters
<1> DEFINE n == Len(d.clusters)
           C == ClustersNamed(d, name)
           H == HostsOf(d, name)
<1>1. n \in Nat /\ DOMAIN d.clusters = 1 .. n
  BY Places
<1>2. C \subseteq DOMAIN d.clusters /\ H \subseteq DOMAIN d.clusters
  BY DEF ClustersNamed, HostsOf
<1>3. C \subseteq 1 .. n /\ H \subseteq 1 .. n
  BY <1>1, <1>2
<1> HIDE DEF n, C, H
<1>4. ASSUME C # {} PROVE ClusterHost(d, name) \in C
  <2>1. \E i \in C : \A j \in C : j <= i
    BY <1>1, <1>3, <1>4, LastPlace
  <2> QED
    BY <2>1 DEF ClusterHost, C
<1>5. ASSUME H # {} PROVE DatabaseEndpoint(d, name) \in H /\ FindDb(d, name) \in H
  <2>1. \E i \in H : \A j \in H : j <= i
    BY <1>1, <1>3, <1>5, LastPlace
  <2>2. \E i \in H : \A j \in H : i <= j
    BY <1>1, <1>3, <1>5, FirstPlace
  <2> QED
    BY <2>1, <2>2 DEF DatabaseEndpoint, FindDb, H
<1> QED
  BY <1>2, <1>4, <1>5 DEF C, H

\* A database that only one cluster has is in the same cluster for everyone.
LEMMA OneHost ==
  ASSUME NEW d \in Designs, NEW name, Cardinality(HostsOf(d, name)) = 1
  PROVE  HostsOf(d, name) # {} /\ DatabaseEndpoint(d, name) = FindDb(d, name)
<1> DEFINE H == HostsOf(d, name)
<1>1. IsFiniteSet(H)
  <2>1. IsFiniteSet(DOMAIN d.clusters)
    BY Places, FS_Interval
  <2> QED
    BY <2>1, FoundPlaces, FS_Subset
<1> HIDE DEF H
<1>2. PICK x : H = {x}
  BY <1>1, FS_Singleton DEF H
<1>3. DatabaseEndpoint(d, name) \in H /\ FindDb(d, name) \in H
  BY <1>2, FoundPlaces DEF H
<1> QED
  BY <1>2, <1>3 DEF H

-----------------------------------------------------------------------------
(* Consumers.                                                              *)

\* What a consumer with these wires is told, in VM mode and in Kubernetes.
Told(c, d, wires) ==
  /\ c.resources = wires \cap d.resources
  /\ c.hosts = c.admins
  /\ c.hosts = {<<w, ClusterHost(d, w)>> : w \in {w \in wires : ClustersNamed(d, w) # {}}}
  /\ c.endpoints = {<<w, DatabaseEndpoint(d, w)>> : w \in {w \in wires : HostsOf(d, w) # {}}}

Placed(c, d) ==
  c.namespaces = {<<p[2], OperatorForCluster(d.clusters[p[2]], d.operators)>> : p \in c.hosts \cup c.endpoints}

LEMMA WhatIsTold ==
  ASSUME NEW d, NEW wires, NEW c,
         c = ResolveConnections(d, wires) \/ c = ResolveGkeConnections(d, wires)
  PROVE  /\ Told(c, d, wires)
         /\ c = ResolveGkeConnections(d, wires) => Placed(c, d)
<1> DEFINE b == ResolveConnections(d, wires)
           hosts == {<<w, ClusterHost(d, w)>> : w \in {w \in wires : ClustersNamed(d, w) # {}}}
           admins == {<<w, ClusterIndex(d, w)>> : w \in {w \in wires : ClustersNamed(d, w) # {}}}
           ends == {<<w, DatabaseEndpoint(d, w)>> : w \in {w \in wires : HostsOf(d, w) # {}}}
           spaces(h, e) == {<<p[2], OperatorForCluster(d.clusters[p[2]], d.operators)>> : p \in h \cup e}
<1>1. hosts = admins
  BY DEF ClusterHost, ClusterIndex
<1>2. b = [hosts |-> hosts, admins |-> admins, endpoints |-> ends, resources |-> wires \cap d.resources, namespaces |-> {}]
  BY DEF ResolveConnections
<1>3. ResolveGkeConnections(d, wires) = [b EXCEPT !.namespaces = spaces(b.hosts, b.endpoints)]
  BY DEF ResolveGkeConnections
<1> HIDE DEF b, hosts, admins, ends, spaces
<1>4. /\ c.resources = wires \cap d.resources /\ c.hosts = hosts /\ c.admins = admins /\ c.endpoints = ends
      /\ c = ResolveGkeConnections(d, wires) => c.namespaces = spaces(c.hosts, c.endpoints)
  BY <1>2, <1>3 DEF b
<1> QED
  BY <1>1, <1>4 DEF hosts, ends, spaces, Told, Placed

ConsumersOf(t) == {t.apps[a] : a \in DOMAIN t.apps} \cup {t.vms}

\* The variables of terraform, field by field.
LEMMA WhatIsWritten ==
  ASSUME NEW d, NEW t, t = WriteTfvars(d)
  PROVE  /\ t.mode = d.mode
         /\ t.granted = ConnectedNames(d) \cap d.resources
         /\ t.rdi = BuildRdi(d)
         /\ d.mode = "gke" => t.operators = BuildGkeOperators(d)
         /\ d.mode = "gke" => t.apps = BuildGkeApplications(d) /\ t.vms = ResolveConnections(d, {})
         /\ d.mode = "vm" => t.apps = BuildVmApplications(d) /\ t.vms = ResolveConnections(d, d.vmWires)
BY DEF WriteTfvars, GrantedResources

LEMMA WhoConsumes ==
  ASSUME NEW d \in Designs, NEW t, t = WriteTfvars(d), NEW c \in ConsumersOf(t)
  PROVE  \E wires : /\ wires \subseteq ConnectedNames(d)
                    /\ c = ResolveConnections(d, wires) \/ c = ResolveGkeConnections(d, wires)
                    /\ d.mode = "gke" => wires = {} \/ c = ResolveGkeConnections(d, wires)
<1>1. d.mode \in {"vm", "gke"}
  BY DEF Designs
<1>2. \A a \in DOMAIN d.apps : d.apps[a].wires \subseteq ConnectedNames(d)
  BY DEF ConnectedNames
<1>3. d.vmWires \subseteq ConnectedNames(d)
  BY DEF ConnectedNames
<1>4. CASE d.mode = "vm"
  <2>1. t.vms = ResolveConnections(d, d.vmWires) /\ t.apps = [a \in DOMAIN d.apps |-> ResolveConnections(d, d.apps[a].wires)]
    BY <1>4, WhatIsWritten DEF BuildVmApplications
  <2>2. CASE c = t.vms
    BY <1>3, <1>4, <2>1, <2>2
  <2>3. CASE c # t.vms
    <3>1. PICK a \in DOMAIN t.apps : c = t.apps[a]
      BY <2>3 DEF ConsumersOf
    <3> QED
      BY <1>2, <1>4, <2>1, <3>1
  <2> QED
    BY <2>2, <2>3
<1>5. CASE d.mode = "gke"
  <2>1. t.vms = ResolveConnections(d, {}) /\ t.apps = [a \in DOMAIN d.apps |-> ResolveGkeConnections(d, d.apps[a].wires)]
    BY <1>5, WhatIsWritten DEF BuildGkeApplications
  <2>2. CASE c = t.vms
    BY <2>1, <2>2
  <2>3. CASE c # t.vms
    <3>1. PICK a \in DOMAIN t.apps : c = t.apps[a]
      BY <2>3 DEF ConsumersOf
    <3> QED
      BY <1>2, <2>1, <3>1
  <2> QED
    BY <2>2, <2>3
<1> QED
  BY <1>1, <1>4, <1>5

\* What the environment of a consumer and the grants make of its wires.
LEMMA WiresWritten ==
  ASSUME NEW d \in Designs, NEW t, t = WriteTfvars(d), NEW c \in ConsumersOf(t)
  PROVE  /\ c.resources \subseteq t.granted
         /\ c.hosts = c.admins
         /\ d.rdi # Blank /\ Cardinality(HostsOf(d, d.rdi)) = 1 =>
              \A e \in c.endpoints : e[1] = d.rdi => t.rdi.target = {e[2]}
<1>1. PICK wires : /\ wires \subseteq ConnectedNames(d)
                   /\ c = ResolveConnections(d, wires) \/ c = ResolveGkeConnections(d, wires)
  BY WhoConsumes
<1>2. Told(c, d, wires)
  BY <1>1, WhatIsTold
<1>3. t.granted = ConnectedNames(d) \cap d.resources /\ t.rdi = BuildRdi(d)
  BY WhatIsWritten
<1>4. ASSUME d.rdi # Blank, Cardinality(HostsOf(d, d.rdi)) = 1, NEW e \in c.endpoints, e[1] = d.rdi
      PROVE  t.rdi.target = {e[2]}
  <2>1. HostsOf(d, d.rdi) # {} /\ DatabaseEndpoint(d, d.rdi) = FindDb(d, d.rdi)
    BY <1>4, OneHost
  <2>2. t.rdi.target = {FindDb(d, d.rdi)}
    BY <1>3, <1>4, <2>1 DEF BuildRdi
  <2>3. e[2] = DatabaseEndpoint(d, d.rdi)
    BY <1>2, <1>4 DEF Told
  <2> QED
    BY <2>1, <2>2, <2>3
<1> QED
  BY <1>1, <1>2, <1>3, <1>4 DEF Told

-----------------------------------------------------------------------------
(* Operators.                                                              *)

LEMMA OperatorIsThere ==
  ASSUME NEW d \in Designs, NEW c
  PROVE  OperatorForCluster(c, d.operators) \in DOMAIN d.operators
<1>1. 1 \in DOMAIN d.operators
  BY Places
<1>2. OperatorsNamed(c.operator, d.operators) \subseteq DOMAIN d.operators
  BY DEF OperatorsNamed
<1> DEFINE O == OperatorsNamed(c.operator, d.operators)
<1>3. O # {} => (CHOOSE o \in O : TRUE) \in O
  OBVIOUS
<1> QED
  BY <1>1, <1>2, <1>3 DEF OperatorForCluster

LEMMA OperatorItNames ==
  ASSUME NEW d \in Designs, NEW c, OperatorsDistinct(d),
         NEW o \in DOMAIN d.operators, Cut(d.operators[o]) = c.operator
  PROVE  OperatorForCluster(c, d.operators) = o
<1> DEFINE O == OperatorsNamed(c.operator, d.operators)
<1>1. o \in O
  BY DEF OperatorsNamed
<1>2. \A p \in DOMAIN d.operators : Cut(d.operators[p]) = Cut(d.operators[o]) => p = o
  <2> DEFINE f == [p \in DOMAIN d.operators |-> Cut(d.operators[p])]
  <2>1. \A a, b \in DOMAIN f : f[a] = f[b] => a = b
    BY DEF OperatorsDistinct, IsInjective
  <2> QED
    BY <2>1
<1>3. O = {o}
  BY <1>1, <1>2 DEF OperatorsNamed
<1> QED
  BY <1>3 DEF OperatorForCluster

LEMMA NamespacesOf ==
  ASSUME NEW d \in Designs, NEW t, t = WriteTfvars(d), d.mode = "gke", OperatorsDistinct(d)
  PROVE  /\ \A i \in DOMAIN d.clusters :
              /\ Cardinality({o \in DOMAIN t.operators : i \in t.operators[o]}) = 1
              /\ \A o \in DOMAIN t.operators :
                    d.operators[o] = d.clusters[i].operator /\ Cut(d.operators[o]) = d.operators[o]
                       => i \in t.operators[o]
         /\ \A c \in ConsumersOf(t) : \A n \in c.namespaces : n[1] \in t.operators[n[2]]
<1> DEFINE Of(i) == OperatorForCluster(d.clusters[i], d.operators)
<1>1. \A i : Of(i) \in DOMAIN d.operators
  BY OperatorIsThere
<1>2. t.operators = [o \in DOMAIN d.operators |-> {i \in DOMAIN d.clusters : Of(i) = o}]
  BY WhatIsWritten DEF BuildGkeOperators
<1>3. DOMAIN t.operators = DOMAIN d.operators
  BY <1>2
<1> HIDE DEF Of
<1>4. \A i \in DOMAIN d.clusters, o \in DOMAIN t.operators : i \in t.operators[o] <=> Of(i) = o
  BY <1>2
<1>5. ASSUME NEW i \in DOMAIN d.clusters
      PROVE  Cardinality({o \in DOMAIN t.operators : i \in t.operators[o]}) = 1
  <2>1. {o \in DOMAIN t.operators : i \in t.operators[o]} = {Of(i)}
    BY <1>1, <1>3, <1>4
  <2> QED
    BY <2>1, FS_Singleton
<1>6. ASSUME NEW i \in DOMAIN d.clusters, NEW o \in DOMAIN t.operators,
             d.operators[o] = d.clusters[i].operator, Cut(d.operators[o]) = d.operators[o]
      PROVE  i \in t.operators[o]
  <2>1. Of(i) = o
    BY <1>3, <1>6, OperatorItNames DEF Of
  <2> QED
    BY <1>4, <2>1
<1>7. ASSUME NEW c \in ConsumersOf(t), NEW n \in c.namespaces PROVE n[1] \in t.operators[n[2]]
  <2>1. PICK wires : /\ c = ResolveConnections(d, wires) \/ c = ResolveGkeConnections(d, wires)
                     /\ wires = {} \/ c = ResolveGkeConnections(d, wires)
    BY WhoConsumes
  <2>2. CASE c # ResolveGkeConnections(d, wires)
    <3>1. c.namespaces = {}
      BY <2>1, <2>2 DEF ResolveConnections
    <3> QED
      BY <3>1
  <2>3. CASE c = ResolveGkeConnections(d, wires)
    <3>1. Told(c, d, wires) /\ Placed(c, d)
      BY <2>3, WhatIsTold
    <3>2. PICK p \in c.hosts \cup c.endpoints : n = <<p[2], Of(p[2])>>
      BY <3>1 DEF Of, Placed
    <3>3. p[2] \in DOMAIN d.clusters
      <4>1. CASE p \in c.hosts
        <5>1. PICK w \in wires : ClustersNamed(d, w) # {} /\ p = <<w, ClusterHost(d, w)>>
          BY <3>1, <4>1 DEF Told
        <5> QED
          BY <5>1, FoundPlaces
      <4>2. CASE p \in c.endpoints
        <5>1. PICK w \in wires : HostsOf(d, w) # {} /\ p = <<w, DatabaseEndpoint(d, w)>>
          BY <3>1, <4>2 DEF Told
        <5>2. DatabaseEndpoint(d, w) \in DOMAIN d.clusters
          BY <5>1, FoundPlaces
        <5> QED
          BY <5>1, <5>2
      <4> QED
        BY <4>1, <4>2
    <3> QED
      BY <1>1, <1>3, <1>4, <3>2, <3>3
  <2> QED
    BY <2>2, <2>3
<1> QED
  BY <1>5, <1>6, <1>7

-----------------------------------------------------------------------------
(* DNS names.                                                              *)

\* What POST /instances sees to, as far as clusters and applications go.
NamesDistinct(d) == ClustersDistinct(d) /\ AppsDistinct(d) /\ AppsNamed(d)

\* A cluster has the name that an unnamed one is given.
SoundsUnnamed(d) ==
  \E i, j \in DOMAIN d.clusters :
    j # 1 /\ d.clusters[j].name = Blank /\ d.clusters[i].name = <<"c", j>>

\* An application is named as a node of the first cluster or as RDI.
SoundsTaken(d) ==
  \E a \in DOMAIN d.apps :
    \/ d.apps[a].name \in {<<"node", 1>>, <<"node", 2>>}
          /\ d.clusters # <<>> /\ d.clusters[1].name = Blank
    \/ d.apps[a].name = <<"rdi">> /\ d.rdi # Blank

LEMMA NumberedDiffer ==
  /\ \A i, j : <<"c", i>> = <<"c", j>> => i = j
  /\ \A i : <<"c", i>> # Blank
  /\ <<"cluster">> # <<"app">> /\ <<"cluster">> # <<"rdi">> /\ <<"app">> # <<"rdi">>
  /\ \A i : <<"node", i>> # <<"app">> /\ <<"node", i>> # <<"rdi">>
BY DEF Blank

\* Two clusters begin their names alike only if one of them sounds unnamed.
LEMMA PrefixesDiffer ==
  ASSUME NEW d \in Designs, ClustersDistinct(d), NEW i \in DOMAIN d.clusters, NEW j \in DOMAIN d.clusters,
         ClusterNamePrefix(i, d.clusters[i].name) = ClusterNamePrefix(j, d.clusters[j].name)
  PROVE  i = j \/ SoundsUnnamed(d)
<1> DEFINE a == d.clusters[i].name
           b == d.clusters[j].name
<1>1. a # Blank /\ a = b => i = j
  BY DEF ClustersDistinct
<1>2. ASSUME a # Blank, b = Blank PROVE SoundsUnnamed(d)
  <2>1. j # 1 /\ a = <<"c", j>>
    BY <1>2 DEF ClusterNamePrefix
  <2> QED
    BY <1>2, <2>1 DEF SoundsUnnamed
<1>3. ASSUME a = Blank, b # Blank PROVE SoundsUnnamed(d)
  <2>1. i # 1 /\ b = <<"c", i>>
    BY <1>3 DEF ClusterNamePrefix
  <2> QED
    BY <1>3, <2>1 DEF SoundsUnnamed
<1> HIDE DEF a, b
<1>4. ClusterNamePrefix(i, a) = ClusterNamePrefix(j, b)
  BY DEF a, b
<1>5. a # Blank /\ b # Blank => a = b
  BY <1>4 DEF ClusterNamePrefix
<1>6. a = Blank /\ b = Blank => i = j
  BY <1>4, NumberedDiffer DEF ClusterNamePrefix
<1> QED
  BY <1>1, <1>2, <1>3, <1>5, <1>6

\* Whose a name of the zone may be.
OfCluster(n, d, i) ==
  /\ n.label \in ClusterLabels /\ n.of = <<"cluster", i>>
  /\ n.prefix = ClusterNamePrefix(i, d.clusters[i].name)

OfOther(n, d) ==
  /\ n.prefix = Blank
  /\ \/ n.label = <<"app">> /\ n.of = <<"vms">>
     \/ \E a \in DOMAIN d.apps : n.label = d.apps[a].name /\ n.of = <<"app", a>>
     \/ n.label = <<"rdi">> /\ n.of = <<"rdi">> /\ d.rdi # Blank

LEMMA WhoseName ==
  ASSUME NEW d, NEW t, t = WriteTfvars(d), NEW n \in t.names
  PROVE  (\E i \in DOMAIN d.clusters : OfCluster(n, d, i)) \/ OfOther(n, d)
<1>1. n \in PlannedDnsNames(d) \cup AppDnsNames(d) \cup RdiDnsNames(d)
  BY DEF WriteTfvars
<1>2. CASE n \in PlannedDnsNames(d)
  BY <1>2 DEF PlannedDnsNames, OfCluster, OfOther
<1>3. CASE n \in AppDnsNames(d)
  BY <1>3 DEF AppDnsNames, OfOther
<1>4. CASE n \in RdiDnsNames(d)
  BY <1>4 DEF RdiDnsNames, OfOther
<1> QED
  BY <1>1, <1>2, <1>3, <1>4

\* A cluster and something else have no name in common.
LEMMA ClusterBesideOther ==
  ASSUME NEW d \in Designs, AppsNamed(d), NEW i \in DOMAIN d.clusters, NEW n, NEW m,
         OfCluster(n, d, i), OfOther(m, d), n.label = m.label, n.prefix = m.prefix
  PROVE  SoundsTaken(d)
<1>1. ClusterNamePrefix(i, d.clusters[i].name) = Blank /\ n.label \in ClusterLabels
  BY DEF OfCluster, OfOther
<1>2. i = 1 /\ d.clusters[i].name = Blank
  BY <1>1, NumberedDiffer DEF ClusterNamePrefix
<1>3. d.clusters # <<>>
  BY Places
<1>4. n.label # <<"app">> /\ n.label # <<"rdi">>
  BY <1>1, NumberedDiffer DEF ClusterLabels
<1>5. PICK a \in DOMAIN d.apps : n.label = d.apps[a].name
  BY <1>4 DEF OfOther
<1>6. d.apps[a].name \in {<<"node", 1>>, <<"node", 2>>}
  BY <1>1, <1>5 DEF AppsNamed, ReservedAppNames, ClusterLabels
<1> QED
  BY <1>2, <1>3, <1>6 DEF SoundsTaken

\* Neither have two other things.
LEMMA OtherBesideOther ==
  ASSUME NEW d \in Designs, AppsNamed(d), AppsDistinct(d), NEW n, NEW m,
         OfOther(n, d), OfOther(m, d), n.label = m.label
  PROVE  n.of = m.of \/ SoundsTaken(d)
<1>1. \A a \in DOMAIN d.apps : d.apps[a].name # <<"app">>
  BY DEF AppsNamed, ReservedAppNames
<1>2. \A a, b \in DOMAIN d.apps : d.apps[a].name = d.apps[b].name => a = b
  BY DEF AppsDistinct, IsInjective
<1>3. (\E a \in DOMAIN d.apps : d.apps[a].name = <<"rdi">>) /\ d.rdi # Blank => SoundsTaken(d)
  BY DEF SoundsTaken
<1> QED
  BY <1>1, <1>2, <1>3, NumberedDiffer DEF OfOther

\* Two names of the zone are one only if they are of one part.
LEMMA NamesApart ==
  ASSUME NEW d \in Designs, NamesDistinct(d), NEW t, t = WriteTfvars(d), NEW n \in t.names, NEW m \in t.names,
         n.label = m.label, n.prefix = m.prefix
  PROVE  n.of = m.of \/ SoundsUnnamed(d) \/ SoundsTaken(d)
<1>1. CASE \E i, j \in DOMAIN d.clusters : OfCluster(n, d, i) /\ OfCluster(m, d, j)
  <2>1. PICK i, j \in DOMAIN d.clusters : OfCluster(n, d, i) /\ OfCluster(m, d, j)
    BY <1>1
  <2>2. i = j \/ SoundsUnnamed(d)
    BY <2>1, PrefixesDiffer DEF OfCluster, NamesDistinct
  <2> QED
    BY <2>1, <2>2 DEF OfCluster
<1>2. CASE \E i \in DOMAIN d.clusters : OfCluster(n, d, i) /\ OfOther(m, d)
  BY <1>2, ClusterBesideOther DEF NamesDistinct
<1>3. CASE \E i \in DOMAIN d.clusters : OfCluster(m, d, i) /\ OfOther(n, d)
  BY <1>3, ClusterBesideOther DEF NamesDistinct
<1>4. CASE OfOther(n, d) /\ OfOther(m, d)
  BY <1>4, OtherBesideOther DEF NamesDistinct
<1> QED
  BY <1>1, <1>2, <1>3, <1>4, WhoseName

-----------------------------------------------------------------------------
(* The database of RDI.                                                    *)

\* The clusters are replaced, the rest of the design stays.
LEMMA OtherClusters ==
  ASSUME NEW d \in Designs, NEW cs \in Seq(DesignClusters)
  PROVE  LET r == [d EXCEPT !.clusters = cs]
         IN  /\ r \in Designs /\ r.clusters = cs
             /\ r.mode = d.mode /\ r.operators = d.operators /\ r.rdi = d.rdi /\ r.apps = d.apps
BY DEF Designs

\* As many clusters, none of another kind.
LEMMA ClustersMapped ==
  ASSUME NEW cs \in Seq(DesignClusters), NEW f \in [DOMAIN cs -> DesignClusters]
  PROVE  f \in Seq(DesignClusters) /\ DOMAIN f = DOMAIN cs
<1>1. Len(cs) \in Nat /\ DOMAIN cs = 1 .. Len(cs)
  BY LenProperties
<1>2. f \in [1 .. Len(cs) -> DesignClusters]
  BY <1>1
<1> QED
  BY <1>1, <1>2, SeqDef

LEMMA OtherDatabases ==
  ASSUME NEW c \in DesignClusters, NEW D, D \subseteq DesignDatabases
  PROVE  LET r == [c EXCEPT !.databases = D] IN r \in DesignClusters /\ r.databases = D /\ r.name = c.name
BY DEF DesignClusters

\* The databases the user asked for, in the clusters that had them.
IsClean(r, e) ==
  /\ r \in Designs
  /\ r.mode = e.mode /\ r.operators = e.operators /\ r.rdi = e.rdi /\ r.apps = e.apps
  /\ DOMAIN r.clusters = DOMAIN e.clusters
  /\ \A i \in DOMAIN r.clusters : r.clusters[i].name = e.clusters[i].name
  /\ \A i \in DOMAIN r.clusters : r.clusters[i].databases = {b \in e.clusters[i].databases : ~ b.internal}

LEMMA Cleaned == \A e \in Designs : IsClean(WithoutInternal(e), e)
<1> SUFFICES ASSUME NEW e \in Designs PROVE IsClean(WithoutInternal(e), e)
  OBVIOUS
<1> DEFINE Asked(i) == {b \in e.clusters[i].databases : ~ b.internal}
           f == [i \in DOMAIN e.clusters |-> [e.clusters[i] EXCEPT !.databases = Asked(i)]]
<1>1. e.clusters \in Seq(DesignClusters)
  BY DEF Designs
<1>2. ASSUME NEW i \in DOMAIN e.clusters
      PROVE  f[i] \in DesignClusters /\ f[i].databases = Asked(i) /\ f[i].name = e.clusters[i].name
  <2> DEFINE c == e.clusters[i]
             D == Asked(i)
  <2>1. c \in DesignClusters
    BY Places
  <2>2. D \subseteq DesignDatabases
    BY <2>1 DEF DesignClusters
  <2>3. f[i] = [c EXCEPT !.databases = D]
    OBVIOUS
  <2> HIDE DEF c, D, f
  <2> QED
    BY <2>1, <2>2, <2>3, OtherDatabases DEF c, D
<1>3. f \in [DOMAIN e.clusters -> DesignClusters]
  BY <1>2
<1>4. WithoutInternal(e) = [e EXCEPT !.clusters = f]
  BY DEF WithoutInternal
<1> HIDE DEF f
<1>5. f \in Seq(DesignClusters) /\ DOMAIN f = DOMAIN e.clusters
  BY <1>1, <1>3, ClustersMapped
<1> QED
  BY <1>2, <1>4, <1>5, OtherClusters DEF IsClean

\* A database of RDI's more, in one of the clusters.
IsWithState(r, e, s, k) ==
  /\ r \in Designs
  /\ r.mode = e.mode /\ r.operators = e.operators /\ r.rdi = e.rdi /\ r.apps = e.apps
  /\ DOMAIN r.clusters = DOMAIN e.clusters
  /\ \A i \in DOMAIN r.clusters : r.clusters[i].name = e.clusters[i].name
  /\ \A i \in DOMAIN r.clusters :
       r.clusters[i].databases =
         IF i = k THEN e.clusters[i].databases \cup {NewStateDatabase(s)} ELSE e.clusters[i].databases

LEMMA StateAdded ==
  ASSUME NEW e \in Designs, NEW s \in Nat, NEW k \in DOMAIN e.clusters
  PROVE  IsWithState([e EXCEPT !.clusters[k].databases = @ \cup {NewStateDatabase(s)}], e, s, k)
<1> DEFINE new == NewStateDatabase(s)
           c == e.clusters[k]
           D == c.databases \cup {new}
           r == [c EXCEPT !.databases = D]
           f == [e.clusters EXCEPT ![k] = r]
<1>1. e.clusters \in Seq(DesignClusters) /\ c \in DesignClusters
  BY Places DEF Designs
<1>2. new \in DesignDatabases
  BY DEF NewStateDatabase, DesignDatabases
<1>3. D \subseteq DesignDatabases
  BY <1>1, <1>2 DEF DesignClusters
<1>4. [e EXCEPT !.clusters[k].databases = @ \cup {new}] = [e EXCEPT !.clusters = f]
  BY <1>1 DEF Designs, DesignClusters
<1>5. r \in DesignClusters /\ r.databases = D /\ r.name = c.name
  <2> HIDE DEF c, D
  <2> QED
    BY <1>1, <1>3, OtherDatabases
<1>6. f \in [DOMAIN e.clusters -> DesignClusters] /\ \A i \in DOMAIN e.clusters : f[i] = IF i = k THEN r ELSE e.clusters[i]
  <2> HIDE DEF r
  <2>1. e.clusters \in [DOMAIN e.clusters -> DesignClusters]
    BY <1>1, Places
  <2> QED
    BY <1>5, <2>1
<1> HIDE DEF f
<1>7. f \in Seq(DesignClusters) /\ DOMAIN f = DOMAIN e.clusters
  BY <1>1, <1>6, ClustersMapped
<1> HIDE DEF new, r
<1>8. \A i \in DOMAIN f :
        /\ f[i].databases = IF i = k THEN e.clusters[i].databases \cup {new} ELSE e.clusters[i].databases
        /\ f[i].name = e.clusters[i].name
  BY <1>5, <1>6, <1>7
<1> DEFINE R == [e EXCEPT !.clusters = f]
<1>9. /\ R \in Designs /\ R.clusters = f
      /\ R.mode = e.mode /\ R.operators = e.operators /\ R.rdi = e.rdi /\ R.apps = e.apps
  BY <1>7, OtherClusters
<1> HIDE DEF R
<1>10. IsWithState(R, e, s, k)
  BY <1>7, <1>8, <1>9 DEF IsWithState, new
<1> QED
  BY <1>4, <1>10 DEF R, new

\* What the server makes of a design with RDI: the design without the state
\* databases of earlier calls, and with a new one if the target is there.
LEMMA Prepared ==
  ASSUME NEW e \in Designs, NEW s \in Nat, e.rdi # Blank
  PROVE  LET clean == WithoutInternal(e)
             r == WithRdiInternalDatabases(e, s)
         IN  /\ HostsOf(clean, clean.rdi) = {} => r = clean
             /\ HostsOf(clean, clean.rdi) # {} =>
                  /\ FindDb(clean, clean.rdi) \in DOMAIN clean.clusters
                  /\ IsWithState(r, clean, s, FindDb(clean, clean.rdi))
<1> DEFINE clean == WithoutInternal(e)
           r == WithRdiInternalDatabases(e, s)
           k == FindDb(clean, clean.rdi)
<1>1. clean \in Designs /\ clean.rdi = e.rdi
  BY Cleaned DEF IsClean
<1>2. r = IF HostsOf(clean, clean.rdi) = {} THEN clean
          ELSE [clean EXCEPT !.clusters[k].databases = @ \cup {NewStateDatabase(s)}]
  BY <1>1 DEF WithRdiInternalDatabases
<1> HIDE DEF clean, r
<1>3. ASSUME HostsOf(clean, clean.rdi) # {}
      PROVE  k \in DOMAIN clean.clusters /\ IsWithState(r, clean, s, k)
  <2>1. k \in DOMAIN clean.clusters
    BY <1>1, <1>3, FoundPlaces
  <2> HIDE DEF k
  <2> QED
    BY <1>1, <1>2, <1>3, <2>1, StateAdded
<1> QED
  BY <1>2, <1>3 DEF clean, r

StatesOf(d) ==
  UNION {{<<i, b>> : b \in {b \in d.clusters[i].databases : b.name = StateName}} : i \in DOMAIN d.clusters}

\* No database is called as that of RDI's state.
StateFree(d) == \A i \in DOMAIN d.clusters : \A b \in d.clusters[i].databases : b.name # StateName

\* What the record of an instance with RDI holds when nothing has come back.
Provided(d) ==
  d.rdi # Blank =>
    \E e \in Designs, s \in Nat : e.rdi # Blank /\ StateFree(e) /\ d = WithRdiInternalDatabases(e, s)

\* One state database in all, beside the target.
LEMMA OneState ==
  ASSUME NEW d \in Designs, Provided(d), d.rdi # Blank, HostsOf(d, d.rdi) # {}
  PROVE  \E s \in Nat : StatesOf(d) = {<<FindDb(d, d.rdi), NewStateDatabase(s)>>}
<1>1. PICK e \in Designs, s \in Nat :
        e.rdi # Blank /\ StateFree(e) /\ d = WithRdiInternalDatabases(e, s)
  BY DEF Provided
<1> DEFINE clean == WithoutInternal(e)
           new == NewStateDatabase(s)
<1>2. IsClean(clean, e)
  BY Cleaned
<1>3. clean \in Designs /\ \A i \in DOMAIN clean.clusters : \A b \in clean.clusters[i].databases : b.name # StateName
  BY <1>1, <1>2 DEF IsClean, StateFree
<1>4. /\ HostsOf(clean, clean.rdi) = {} => d = clean
      /\ HostsOf(clean, clean.rdi) # {} =>
           /\ FindDb(clean, clean.rdi) \in DOMAIN clean.clusters
           /\ IsWithState(d, clean, s, FindDb(clean, clean.rdi))
  BY <1>1, Prepared
<1> HIDE DEF clean
<1>5. HostsOf(clean, clean.rdi) # {}
  BY <1>4
<1> DEFINE k == FindDb(clean, clean.rdi)
<1>6. k \in DOMAIN clean.clusters /\ IsWithState(d, clean, s, k)
  BY <1>4, <1>5
<1> HIDE DEF k
<1>7. new.name = StateName /\ new.internal /\ new.secret = s
  BY DEF NewStateDatabase
<1> HIDE DEF new
<1>8. /\ DOMAIN d.clusters = DOMAIN clean.clusters
      /\ \A i \in DOMAIN d.clusters : d.clusters[i].databases =
           IF i = k THEN clean.clusters[i].databases \cup {new} ELSE clean.clusters[i].databases
      /\ d.rdi = clean.rdi
  BY <1>6 DEF IsWithState, new
<1>9. d.rdi # StateName
  BY ConnectionsAssumption DEF Designs, Blank
<1>10. HostsOf(d, d.rdi) = HostsOf(clean, d.rdi)
  <2> DEFINE name == d.rdi
             Has(c) == \E b \in c.databases : b.name = name
  <2>1. ASSUME NEW i \in DOMAIN d.clusters PROVE Has(d.clusters[i]) <=> Has(clean.clusters[i])
    <3>1. CASE i = k
      <4>1. d.clusters[i].databases = clean.clusters[i].databases \cup {new} /\ new.name # name
        BY <1>7, <1>8, <1>9, <3>1
      <4> HIDE DEF name
      <4> QED
        BY <4>1
    <3>2. CASE i # k
      BY <1>8, <3>2
    <3> QED
      BY <3>1, <3>2
  <2> HIDE DEF name
  <2>2. HostsOf(d, name) = HostsOf(clean, name)
    BY <1>8, <2>1 DEF HostsOf
  <2> QED
    BY <2>2 DEF name
<1>11. ASSUME NEW x \in StatesOf(d) PROVE x = <<k, new>>
  <2>1. PICK i \in DOMAIN d.clusters : \E b \in d.clusters[i].databases : x = <<i, b>> /\ b.name = StateName
    BY DEF StatesOf
  <2>2. PICK b \in d.clusters[i].databases : x = <<i, b>> /\ b.name = StateName
    BY <2>1
  <2>3. i = k /\ b = new
    BY <1>3, <1>8, <2>2
  <2> QED
    BY <2>2, <2>3
<1>12. <<k, new>> \in StatesOf(d)
  <2>1. k \in DOMAIN d.clusters /\ new \in d.clusters[k].databases
    BY <1>6, <1>8
  <2> QED
    BY <1>7, <2>1 DEF StatesOf
<1>13. StatesOf(d) = {<<k, new>>}
  BY <1>11, <1>12
<1>14. k = FindDb(d, d.rdi)
  BY <1>8, <1>10 DEF FindDb, k
<1> QED
  BY <1>13, <1>14 DEF new

\* What RDI is told of it.
LEMMA StateOf ==
  ASSUME NEW d \in Designs, NEW t, t = WriteTfvars(d), Provided(d), t.rdi.target # {}
  PROVE  /\ t.rdi.state = {<<s[1], s[2].secret>> : s \in StatesOf(d)}
         /\ {s[1] : s \in StatesOf(d)} = t.rdi.target
         /\ Cardinality(StatesOf(d)) = 1
<1> DEFINE k == FindDb(d, d.rdi)
<1>1. t.rdi = BuildRdi(d)
  BY WhatIsWritten
<1>2. d.rdi # Blank /\ HostsOf(d, d.rdi) # {} /\ t.rdi.target = {k}
  BY <1>1 DEF BuildRdi
<1>3. PICK s \in Nat : StatesOf(d) = {<<k, NewStateDatabase(s)>>}
  BY <1>2, OneState
<1> DEFINE new == NewStateDatabase(s)
<1>4. new.name = StateName /\ new.internal /\ new.secret = s
  BY DEF NewStateDatabase
<1> HIDE DEF new, k
<1>5. ASSUME NEW i \in DOMAIN d.clusters
      PROVE  {b \in d.clusters[i].databases : b.name = StateName} = IF i = k THEN {new} ELSE {}
  <2>1. \A b \in d.clusters[i].databases : b.name = StateName => <<i, b>> \in StatesOf(d)
    BY DEF StatesOf
  <2>2. \A b \in d.clusters[i].databases : b.name = StateName => i = k /\ b = new
    BY <1>3, <2>1 DEF new
  <2>3. i = k => new \in d.clusters[i].databases
    <3>1. <<k, new>> \in StatesOf(d)
      BY <1>3 DEF new
    <3>2. PICK j \in DOMAIN d.clusters : <<k, new>> \in {<<j, b>> : b \in {b \in d.clusters[j].databases : b.name = StateName}}
      BY <3>1 DEF StatesOf
    <3> QED
      BY <3>2
  <2> QED
    BY <1>4, <2>2, <2>3
<1>6. HostsOf(d, StateName) = {k}
  <2>1. k \in DOMAIN d.clusters
    BY <1>2, FoundPlaces DEF k
  <2> QED
    BY <1>5, <2>1 DEF HostsOf
<1>7. FindDb(d, StateName) = k
  <2>1. FindDb(d, StateName) \in HostsOf(d, StateName)
    BY <1>6, FoundPlaces
  <2> QED
    BY <1>6, <2>1
<1>8. {b \in d.clusters[k].databases : b.name = StateName} = {new}
  <2>1. k \in DOMAIN d.clusters
    BY <1>6 DEF HostsOf
  <2> QED
    BY <1>5, <2>1
<1>9. (CHOOSE b \in {new} : \A c \in {new} : b.internal => c.internal) = new
  OBVIOUS
<1>10. t.rdi.state = {<<k, s>>}
  <2> DEFINE named == {b \in d.clusters[FindDb(d, StateName)].databases : b.name = StateName}
  <2>1. t.rdi.state = {<<FindDb(d, StateName), (CHOOSE b \in named : \A c \in named : b.internal => c.internal).secret>>}
    BY <1>1, <1>2, <1>6 DEF BuildRdi
  <2>2. named = {new}
    BY <1>7, <1>8
  <2> HIDE DEF named
  <2> QED
    BY <1>4, <1>7, <1>9, <2>1, <2>2
<1>11. StatesOf(d) = {<<k, new>>}
  BY <1>3 DEF new
<1>12. Cardinality(StatesOf(d)) = 1
  BY <1>11, FS_Singleton
<1>13. t.rdi.target = {k}
  BY <1>2 DEF k
<1> QED
  BY <1>4, <1>10, <1>11, <1>12, <1>13

-----------------------------------------------------------------------------
(* The invariant.                                                          *)

\* A configuration that POST /instances has let pass.
Recorded(d) ==
  /\ d \in Designs
  /\ d.mode = "gke" => OperatorsDistinct(d)
  /\ NamesDistinct(d)

\* As long as no record has come back that the server did not tell from a
\* design: the user's databases are called otherwise.
Apart ==
  /\ StateFree(design)
  /\ deployed # <<>> => StateFree(WithoutInternal(deployed)) /\ Provided(deployed)

DesignInv ==
  /\ design \in Designs
  /\ secrets \in Nat
  /\ returned \in BOOLEAN
  /\ deployed # <<>> => Recorded(deployed)
  /\ tfvars # <<>> => deployed # <<>> /\ Recorded(deployed) /\ tfvars = WriteTfvars(deployed)
  /\ ~ returned => Apart

LEMMA DesignInvInit == ConnectionsInit => DesignInv
<1> SUFFICES ASSUME ConnectionsInit PROVE DesignInv
  OBVIOUS
<1>1. design \in Drafts /\ design \in Designs /\ deployed = <<>> /\ tfvars = <<>> /\ secrets = 0 /\ returned = FALSE
  BY ConnectionsAssumption DEF ConnectionsInit
<1>2. StateFree(design)
  <2>1. \A c \in Range(design.clusters) : \A b \in c.databases : b.name \in DatabaseNames
    BY <1>1, ConnectionsAssumption
  <2>2. \A i \in DOMAIN design.clusters : design.clusters[i] \in Range(design.clusters)
    BY DEF Range
  <2> QED
    BY <2>1, <2>2, ConnectionsAssumption DEF StateFree
<1> QED
  BY <1>1, <1>2 DEF DesignInv, Apart

\* The record is valid when the design is.
LEMMA CreationRecords ==
  ASSUME NEW d \in Designs, NEW s \in Nat, d.mode = "gke" => OperatorsDistinct(d), NamesDistinct(d)
  PROVE  Recorded(IF d.rdi = Blank THEN d ELSE WithRdiInternalDatabases(d, s))
<1>1. CASE d.rdi = Blank
  BY <1>1 DEF Recorded
<1>2. CASE d.rdi # Blank
  <2> DEFINE clean == WithoutInternal(d)
             r == WithRdiInternalDatabases(d, s)
  <2>1. IsClean(clean, d)
    BY Cleaned
  <2>2. \/ r = clean
        \/ IsWithState(r, clean, s, FindDb(clean, clean.rdi))
    BY <1>2, Prepared
  <2> HIDE DEF clean, r
  <2>4. /\ r \in Designs /\ r.mode = d.mode /\ r.operators = d.operators /\ r.apps = d.apps
        /\ DOMAIN r.clusters = DOMAIN d.clusters
        /\ \A i \in DOMAIN r.clusters : r.clusters[i].name = d.clusters[i].name
    BY <2>1, <2>2 DEF IsClean, IsWithState
  <2>5. OperatorsDistinct(d) => OperatorsDistinct(r)
    BY <2>4 DEF OperatorsDistinct
  <2>6. NamesDistinct(r)
    BY <2>4 DEF NamesDistinct, ClustersDistinct, AppsDistinct, AppsNamed
  <2>7. Recorded(r)
    BY <2>4, <2>5, <2>6 DEF Recorded
  <2> QED
    BY <1>2, <2>7 DEF r
<1> QED
  BY <1>1, <1>2

\* Of a design without a database of that name the record has the server's
\* own alone, and the server tells it.
LEMMA CreationKeepsApart ==
  ASSUME NEW d \in Designs, NEW s \in Nat, StateFree(d),
         NEW r, r = IF d.rdi = Blank THEN d ELSE WithRdiInternalDatabases(d, s)
  PROVE  StateFree(WithoutInternal(r)) /\ Provided(r)
<1> DEFINE clean == WithoutInternal(d)
<1>1. IsClean(clean, d)
  BY Cleaned
<1>2. StateFree(clean)
  BY <1>1 DEF IsClean, StateFree
<1>3. CASE d.rdi = Blank
  BY <1>2, <1>3 DEF Provided
<1>4. CASE d.rdi # Blank
  <2>1. \/ r = clean
        \/ \E k \in DOMAIN clean.clusters : IsWithState(r, clean, s, k)
    BY <1>4, Prepared
  <2>2. Provided(r)
    BY <1>4 DEF Provided
  <2> HIDE DEF clean
  <2>3. clean \in Designs
    BY <1>1 DEF IsClean
  <2>4. r \in Designs
    BY <2>1, <2>3 DEF IsWithState
  <2>5. IsClean(WithoutInternal(r), r)
    BY <2>4, Cleaned
  <2>6. \A i \in DOMAIN r.clusters : \A b \in r.clusters[i].databases : b.name = StateName => b.internal
    <3>1. CASE r = clean
      BY <1>2, <3>1 DEF StateFree
    <3>2. ASSUME NEW k \in DOMAIN clean.clusters, IsWithState(r, clean, s, k)
          PROVE  \A i \in DOMAIN r.clusters : \A b \in r.clusters[i].databases : b.name = StateName => b.internal
      <4> DEFINE new == NewStateDatabase(s)
      <4>1. new.internal
        BY DEF NewStateDatabase
      <4> HIDE DEF new
      <4>2. \A i \in DOMAIN r.clusters :
              i \in DOMAIN clean.clusters /\ \A b \in r.clusters[i].databases : b \in clean.clusters[i].databases \/ b = new
        BY <3>2 DEF IsWithState, new
      <4> QED
        BY <1>2, <4>1, <4>2 DEF StateFree
    <3> QED
      BY <2>1, <3>1, <3>2
  <2>7. StateFree(WithoutInternal(r))
    BY <2>5, <2>6 DEF IsClean, StateFree
  <2> QED
    BY <2>2, <2>7
<1> QED
  BY <1>3, <1>4

\* What an edit draws is a design.
LEMMA EditsDrawDesigns ==
  ASSUME NEW d \in Designs
  PROVE  /\ \A name \in NamesInUse, operator \in NamesInUse :
              [d EXCEPT !.clusters = Append(@, [name |-> name, operator |-> operator, databases |-> {}])] \in Designs
         /\ \A i \in DOMAIN d.clusters :
              /\ [d EXCEPT !.clusters = RemoveAt(@, i)] \in Designs
              /\ \A name \in NamesInUse : [d EXCEPT !.clusters[i].name = name] \in Designs
              /\ \A db \in DatabaseNames :
                   [d EXCEPT !.clusters[i].databases = @ \cup {[name |-> db, secret |-> 0, internal |-> FALSE]}] \in Designs
<1>1. d.clusters \in Seq(DesignClusters)
  BY DEF Designs
<1> DEFINE cs == d.clusters
<1>2. ASSUME NEW name \in NamesInUse, NEW operator \in NamesInUse
      PROVE  [d EXCEPT !.clusters = Append(@, [name |-> name, operator |-> operator, databases |-> {}])] \in Designs
  <2> DEFINE c == [name |-> name, operator |-> operator, databases |-> {}]
  <2>1. c \in DesignClusters
    BY DEF DesignClusters
  <2> HIDE DEF c
  <2>2. Append(cs, c) \in Seq(DesignClusters)
    BY <1>1, <2>1
  <2>3. [d EXCEPT !.clusters = Append(cs, c)] \in Designs
    BY <2>2, OtherClusters
  <2> QED
    BY <2>3 DEF c
<1>3. ASSUME NEW i \in DOMAIN cs PROVE [d EXCEPT !.clusters = RemoveAt(@, i)] \in Designs
  <2> DEFINE s == RemoveAt(cs, i)
  <2>1. s \in Seq(DesignClusters)
    <3> HIDE DEF cs
    <3>1. Len(cs) \in Nat /\ i \in 1 .. Len(cs) /\ cs \in Seq(DesignClusters)
      BY <1>1, LenProperties DEF cs
    <3>2. SubSeq(cs, 1, i - 1) \in Seq(DesignClusters) /\ SubSeq(cs, i + 1, Len(cs)) \in Seq(DesignClusters)
      <4>1. \A k \in 1 .. Len(cs) : cs[k] \in DesignClusters
        BY <3>1, ElementOfSeq
      <4>2. \A k \in 1 .. (i - 1) : cs[k] \in DesignClusters
        BY <3>1, <4>1
      <4>3. \A k \in (i + 1) .. Len(cs) : cs[k] \in DesignClusters
        BY <3>1, <4>1
      <4> QED
        BY <3>1, <4>2, <4>3, SubSeqProperties
    <3> QED
      BY <3>2, ConcatProperties DEF RemoveAt
  <2> HIDE DEF s
  <2>2. [d EXCEPT !.clusters = s] \in Designs
    BY <2>1, OtherClusters
  <2> QED
    BY <2>2 DEF s
<1>4. ASSUME NEW i \in DOMAIN cs, NEW c \in DesignClusters
      PROVE  [d EXCEPT !.clusters = [cs EXCEPT ![i] = c]] \in Designs
  <2> DEFINE f == [cs EXCEPT ![i] = c]
  <2>1. cs \in [DOMAIN cs -> DesignClusters]
    BY <1>1, Places
  <2>2. f \in [DOMAIN cs -> DesignClusters]
    BY <2>1
  <2> HIDE DEF f
  <2>3. f \in Seq(DesignClusters)
    BY <1>1, <2>2, ClustersMapped
  <2>4. [d EXCEPT !.clusters = f] \in Designs
    BY <2>3, OtherClusters
  <2> QED
    BY <2>4 DEF f
<1>5. ASSUME NEW i \in DOMAIN cs, NEW name \in NamesInUse PROVE [d EXCEPT !.clusters[i].name = name] \in Designs
  <2> DEFINE c == [cs[i] EXCEPT !.name = name]
  <2>1. cs[i] \in DesignClusters
    BY Places
  <2>2. c \in DesignClusters
    BY <2>1 DEF DesignClusters
  <2>3. [d EXCEPT !.clusters[i].name = name] = [d EXCEPT !.clusters = [cs EXCEPT ![i] = c]]
    OBVIOUS
  <2> HIDE DEF c
  <2> QED
    BY <1>4, <2>2, <2>3
<1>6. ASSUME NEW i \in DOMAIN cs, NEW db \in DatabaseNames
      PROVE  [d EXCEPT !.clusters[i].databases = @ \cup {[name |-> db, secret |-> 0, internal |-> FALSE]}] \in Designs
  <2> DEFINE b == [name |-> db, secret |-> 0, internal |-> FALSE]
             D == cs[i].databases \cup {b}
             c == [cs[i] EXCEPT !.databases = D]
  <2>1. cs[i] \in DesignClusters
    BY Places
  <2>2. b \in DesignDatabases
    BY DEF DesignDatabases
  <2>3. D \subseteq DesignDatabases
    BY <2>1, <2>2 DEF DesignClusters
  <2>4. c \in DesignClusters
    <3> HIDE DEF D
    <3> QED
      BY <2>1, <2>3, OtherDatabases
  <2>5. [d EXCEPT !.clusters[i].databases = @ \cup {b}] = [d EXCEPT !.clusters = [cs EXCEPT ![i] = c]]
    OBVIOUS
  <2> HIDE DEF b, D, c
  <2>6. [d EXCEPT !.clusters[i].databases = @ \cup {b}] \in Designs
    BY <1>4, <2>4, <2>5
  <2> QED
    BY <2>6 DEF b
<1> QED
  BY <1>2, <1>3, <1>5, <1>6

LEMMA OtherEditsDrawDesigns ==
  ASSUME NEW d \in Designs
  PROVE  /\ \A r \in Resources : [d EXCEPT !.resources = IF r \in @ THEN @ \ {r} ELSE @ \cup {r}] \in Designs
         /\ \A name \in AppNames : [d EXCEPT !.apps = Append(@, [name |-> name, wires |-> {}])] \in Designs
         /\ \A name \in OperatorNames : [d EXCEPT !.operators = Append(@, name)] \in Designs
         /\ \A a \in DOMAIN d.apps, w \in Wireable : [d EXCEPT !.apps[a].wires = @ \cup {w}] \in Designs
         /\ \A w \in Wireable : [d EXCEPT !.vmWires = @ \cup {w}, !.vms = TRUE] \in Designs
         /\ \A db \in DatabaseNames : [d EXCEPT !.rdi = db] \in Designs
<1>1. ASSUME NEW r \in Resources PROVE [d EXCEPT !.resources = IF r \in @ THEN @ \ {r} ELSE @ \cup {r}] \in Designs
  BY DEF Designs
<1>2. ASSUME NEW name \in AppNames PROVE [d EXCEPT !.apps = Append(@, [name |-> name, wires |-> {}])] \in Designs
  <2> DEFINE a == [name |-> name, wires |-> {}]
             s == Append(d.apps, a)
  <2>1. a \in DesignApps
    BY DEF DesignApps, NamesInUse
  <2> HIDE DEF a
  <2>2. s \in Seq(DesignApps)
    BY <2>1 DEF Designs
  <2> HIDE DEF s
  <2>3. [d EXCEPT !.apps = s] \in Designs
    BY <2>2 DEF Designs
  <2> QED
    BY <2>3 DEF s, a
<1>3. ASSUME NEW name \in OperatorNames PROVE [d EXCEPT !.operators = Append(@, name)] \in Designs
  <2> DEFINE s == Append(d.operators, name)
  <2>1. d.operators \in Seq(NamesInUse) /\ name \in NamesInUse
    BY DEF Designs, NamesInUse
  <2>2. s \in Seq(NamesInUse) /\ s # <<>>
    BY <2>1, AppendProperties
  <2> HIDE DEF s
  <2>3. [d EXCEPT !.operators = s] \in Designs
    BY <2>2 DEF Designs
  <2> QED
    BY <2>3 DEF s
<1>4. ASSUME NEW a \in DOMAIN d.apps, NEW w \in Wireable PROVE [d EXCEPT !.apps[a].wires = @ \cup {w}] \in Designs
  <2> DEFINE as == d.apps
             c == [as[a] EXCEPT !.wires = @ \cup {w}]
             f == [as EXCEPT ![a] = c]
  <2>1. as \in Seq(DesignApps)
    BY DEF Designs
  <2>2. Len(as) \in Nat /\ DOMAIN as = 1 .. Len(as) /\ as \in [1 .. Len(as) -> DesignApps]
    BY <2>1, LenProperties, ElementOfSeq
  <2>3. c \in DesignApps
    <3>1. as[a] \in DesignApps
      BY <2>2
    <3> QED
      BY <3>1 DEF DesignApps
  <2>4. [d EXCEPT !.apps[a].wires = @ \cup {w}] = [d EXCEPT !.apps = f]
    OBVIOUS
  <2> HIDE DEF c
  <2>5. f \in [1 .. Len(as) -> DesignApps]
    BY <2>2, <2>3
  <2> HIDE DEF f
  <2>6. f \in Seq(DesignApps)
    BY <2>2, <2>5, SeqDef
  <2>7. [d EXCEPT !.apps = f] \in Designs
    BY <2>6 DEF Designs
  <2> QED
    BY <2>4, <2>7
<1>5. ASSUME NEW w \in Wireable PROVE [d EXCEPT !.vmWires = @ \cup {w}, !.vms = TRUE] \in Designs
  <2> DEFINE r == [d EXCEPT !.vmWires = @ \cup {w}]
  <2>1. r \in Designs
    BY DEF Designs
  <2>2. [d EXCEPT !.vmWires = @ \cup {w}, !.vms = TRUE] = [r EXCEPT !.vms = TRUE]
    BY DEF Designs
  <2> HIDE DEF r
  <2>3. [r EXCEPT !.vms = TRUE] \in Designs
    BY <2>1 DEF Designs
  <2> QED
    BY <2>2, <2>3
<1>6. ASSUME NEW db \in DatabaseNames PROVE [d EXCEPT !.rdi = db] \in Designs
  BY DEF Designs
<1> QED
  BY <1>1, <1>2, <1>3, <1>4, <1>5, <1>6

\* And without a database of RDI's name, if it had none.
LEMMA EditsKeepStateFree ==
  ASSUME NEW d \in Designs, StateFree(d)
  PROVE  /\ \A name \in NamesInUse, operator \in NamesInUse :
              StateFree([d EXCEPT !.clusters = Append(@, [name |-> name, operator |-> operator, databases |-> {}])])
         /\ \A i \in DOMAIN d.clusters :
              /\ StateFree([d EXCEPT !.clusters = RemoveAt(@, i)])
              /\ \A name \in NamesInUse : StateFree([d EXCEPT !.clusters[i].name = name])
              /\ \A db \in DatabaseNames :
                   StateFree([d EXCEPT !.clusters[i].databases = @ \cup {[name |-> db, secret |-> 0, internal |-> FALSE]}])
<1> DEFINE cs == d.clusters
           Free(c) == \A b \in c.databases : b.name # StateName
<1>1. cs \in Seq(DesignClusters) /\ \A i \in DOMAIN cs : cs[i] \in DesignClusters /\ Free(cs[i])
  <2>1. cs \in Seq(DesignClusters)
    BY DEF Designs
  <2>2. \A i \in DOMAIN cs : cs[i] \in DesignClusters
    <3> HIDE DEF cs
    <3> QED
      BY <2>1, Places
  <2> QED
    BY <2>1, <2>2 DEF StateFree
<1>2. ASSUME NEW t, \A j \in DOMAIN t : Free(t[j]) PROVE StateFree([d EXCEPT !.clusters = t])
  BY <1>2 DEF StateFree, Designs
<1>3. ASSUME NEW name \in NamesInUse, NEW operator \in NamesInUse
      PROVE  StateFree([d EXCEPT !.clusters = Append(@, [name |-> name, operator |-> operator, databases |-> {}])])
  <2> DEFINE c == [name |-> name, operator |-> operator, databases |-> {}]
  <2>1. c \in DesignClusters /\ Free(c)
    BY DEF DesignClusters
  <2> HIDE DEF c, cs, Free
  <2>2. \A j \in DOMAIN Append(cs, c) : Free(Append(cs, c)[j])
    BY <1>1, <2>1, AppendProperties
  <2>3. StateFree([d EXCEPT !.clusters = Append(cs, c)])
    BY <1>2, <2>2
  <2> QED
    BY <2>3 DEF c, cs
<1>4. ASSUME NEW i \in DOMAIN cs PROVE StateFree([d EXCEPT !.clusters = RemoveAt(@, i)])
  <2> HIDE DEF cs, Free
  <2>1. Len(cs) \in Nat /\ i \in 1 .. Len(cs) /\ DOMAIN cs = 1 .. Len(cs)
    BY <1>1, LenProperties
  <2>2. \A j \in DOMAIN RemoveAt(cs, i) : \E k \in DOMAIN cs : RemoveAt(cs, i)[j] = cs[k]
    <3> DEFINE a == SubSeq(cs, 1, i - 1)
               b == SubSeq(cs, i + 1, Len(cs))
    <3>1. \A k \in 1 .. Len(cs) : cs[k] \in DesignClusters
      BY <1>1, <2>1
    <3>2. /\ a \in Seq(DesignClusters) /\ Len(a) = i - 1
          /\ \A j \in 1 .. (i - 1) : a[j] = cs[j]
      BY <2>1, <3>1, SubSeqProperties
    <3>3. /\ b \in Seq(DesignClusters) /\ Len(b) = Len(cs) - i
          /\ \A j \in 1 .. Len(b) : b[j] = cs[i + j]
      BY <2>1, <3>1, SubSeqProperties
    <3> HIDE DEF a, b
    <3>4. \A j \in DOMAIN (a \o b) : (a \o b)[j] = IF j <= Len(a) THEN a[j] ELSE b[j - Len(a)]
      BY <3>2, <3>3, ConcatProperties
    <3>5. DOMAIN (a \o b) = 1 .. (Len(a) + Len(b))
      BY <3>2, <3>3, ConcatProperties, LenProperties
    <3>6. ASSUME NEW j \in DOMAIN (a \o b) PROVE \E k \in DOMAIN cs : (a \o b)[j] = cs[k]
      <4>1. CASE j <= Len(a)
        BY <2>1, <3>2, <3>4, <3>5, <4>1
      <4>2. CASE ~ j <= Len(a)
        <5>1. j - Len(a) \in 1 .. Len(b) /\ (a \o b)[j] = b[j - Len(a)]
          BY <2>1, <3>2, <3>3, <3>4, <3>5, <4>2
        <5>2. (a \o b)[j] = cs[i + (j - Len(a))]
          BY <3>3, <5>1
        <5>3. i + (j - Len(a)) \in 1 .. Len(cs)
          BY <2>1, <3>2, <3>3, <5>1
        <5> QED
          BY <2>1, <5>2, <5>3
      <4> QED
        BY <4>1, <4>2
    <3> QED
      BY <3>6 DEF RemoveAt, a, b
  <2>3. \A j \in DOMAIN RemoveAt(cs, i) : Free(RemoveAt(cs, i)[j])
    BY <1>1, <2>2
  <2>4. StateFree([d EXCEPT !.clusters = RemoveAt(cs, i)])
    <3> DEFINE t == RemoveAt(cs, i)
    <3> HIDE DEF t
    <3>1. StateFree([d EXCEPT !.clusters = t])
      BY <1>2, <2>3 DEF t
    <3> QED
      BY <3>1 DEF t
  <2> QED
    BY <2>4 DEF cs
<1>5. ASSUME NEW i \in DOMAIN cs, NEW c, Free(c) PROVE StateFree([d EXCEPT !.clusters = [cs EXCEPT ![i] = c]])
  <2> DEFINE f == [cs EXCEPT ![i] = c]
  <2>1. \A j \in DOMAIN f : Free(f[j])
    <3>1. cs \in [DOMAIN cs -> DesignClusters]
      BY <1>1, Places
    <3> HIDE DEF cs, Free
    <3> QED
      BY <1>1, <1>5, <3>1
  <2> HIDE DEF f, Free
  <2> QED
    BY <1>2, <2>1 DEF f
<1>6. ASSUME NEW i \in DOMAIN cs, NEW name \in NamesInUse PROVE StateFree([d EXCEPT !.clusters[i].name = name])
  <2> DEFINE c == [cs[i] EXCEPT !.name = name]
  <2>1. Free(c)
    BY <1>1 DEF DesignClusters
  <2>2. [d EXCEPT !.clusters[i].name = name] = [d EXCEPT !.clusters = [cs EXCEPT ![i] = c]]
    OBVIOUS
  <2> HIDE DEF c, Free
  <2> QED
    BY <1>5, <2>1, <2>2
<1>7. ASSUME NEW i \in DOMAIN cs, NEW db \in DatabaseNames
      PROVE  StateFree([d EXCEPT !.clusters[i].databases = @ \cup {[name |-> db, secret |-> 0, internal |-> FALSE]}])
  <2> DEFINE b == [name |-> db, secret |-> 0, internal |-> FALSE]
             D == cs[i].databases \cup {b}
             c == [cs[i] EXCEPT !.databases = D]
  <2>1. \A a \in D : a.name # StateName
    BY <1>1, ConnectionsAssumption
  <2>2. Free(c)
    <3> HIDE DEF D
    <3>1. c.databases = D
      BY <1>1 DEF DesignClusters
    <3> QED
      BY <2>1, <3>1
  <2>3. [d EXCEPT !.clusters[i].databases = @ \cup {b}] = [d EXCEPT !.clusters = [cs EXCEPT ![i] = c]]
    OBVIOUS
  <2> HIDE DEF b, D, c, Free
  <2>4. StateFree([d EXCEPT !.clusters[i].databases = @ \cup {b}])
    BY <1>5, <2>2, <2>3
  <2> QED
    BY <2>4 DEF b
<1> QED
  BY <1>3, <1>4, <1>6, <1>7

\* An edit elsewhere leaves the clusters.
LEMMA OtherEditsKeepClusters ==
  ASSUME NEW d \in Designs
  PROVE  /\ \A r \in Resources : [d EXCEPT !.resources = IF r \in @ THEN @ \ {r} ELSE @ \cup {r}].clusters = d.clusters
         /\ \A name \in AppNames : [d EXCEPT !.apps = Append(@, [name |-> name, wires |-> {}])].clusters = d.clusters
         /\ \A name \in OperatorNames : [d EXCEPT !.operators = Append(@, name)].clusters = d.clusters
         /\ \A a \in DOMAIN d.apps, w \in Wireable : [d EXCEPT !.apps[a].wires = @ \cup {w}].clusters = d.clusters
         /\ \A w \in Wireable : [d EXCEPT !.vmWires = @ \cup {w}, !.vms = TRUE].clusters = d.clusters
         /\ \A db \in DatabaseNames : [d EXCEPT !.rdi = db].clusters = d.clusters
<1>1. ASSUME NEW v PROVE /\ [d EXCEPT !.resources = v].clusters = d.clusters
                         /\ [d EXCEPT !.apps = v].clusters = d.clusters
                         /\ [d EXCEPT !.operators = v].clusters = d.clusters
                         /\ [d EXCEPT !.rdi = v].clusters = d.clusters
                         /\ [d EXCEPT !.vmWires = v, !.vms = TRUE].clusters = d.clusters
  BY DEF Designs
<1> QED
  BY <1>1

\* So is what the canvas and the wizard make of a record.
LEMMA ReopeningDrawsDesigns ==
  ASSUME NEW d \in Designs
  PROVE  /\ WithoutInternal(d) \in Designs
         /\ AllOrdinary(d) \in Designs
         /\ StateFree(d) => StateFree(AllOrdinary(d))
<1>1. WithoutInternal(d) \in Designs
  BY Cleaned DEF IsClean
<1> DEFINE D(i) == {[b EXCEPT !.internal = FALSE] : b \in d.clusters[i].databases}
           f == [i \in DOMAIN d.clusters |-> [d.clusters[i] EXCEPT !.databases = D(i)]]
<1>2. ASSUME NEW i \in DOMAIN d.clusters PROVE f[i] \in DesignClusters
  <2> DEFINE c == d.clusters[i]
             E == D(i)
  <2>1. c \in DesignClusters
    BY Places
  <2>2. E \subseteq DesignDatabases
    <3>1. ASSUME NEW b \in DesignDatabases PROVE [b EXCEPT !.internal = FALSE] \in DesignDatabases
      BY DEF DesignDatabases
    <3>2. \A b \in c.databases : b \in DesignDatabases
      BY <2>1 DEF DesignClusters
    <3> QED
      BY <3>1, <3>2
  <2>3. f[i] = [c EXCEPT !.databases = E]
    OBVIOUS
  <2> HIDE DEF c, E, f
  <2> QED
    BY <2>1, <2>2, <2>3, OtherDatabases
<1>3. AllOrdinary(d) = [d EXCEPT !.clusters = f]
  BY DEF AllOrdinary
<1>8. ASSUME NEW i \in DOMAIN d.clusters, NEW b \in f[i].databases
      PROVE  \E a \in d.clusters[i].databases : b.name = a.name
  <2> DEFINE c == d.clusters[i]
  <2>1. c \in DesignClusters
    BY Places DEF Designs
  <2>2. f[i].databases = {[a EXCEPT !.internal = FALSE] : a \in c.databases}
    <3>1. f[i] = [c EXCEPT !.databases = D(i)]
      OBVIOUS
    <3> HIDE DEF f
    <3> QED
      BY <2>1, <3>1 DEF DesignClusters
  <2>3. PICK a \in c.databases : b = [a EXCEPT !.internal = FALSE]
    BY <2>2
  <2>4. a \in DesignDatabases
    BY <2>1 DEF DesignClusters
  <2> QED
    BY <2>3, <2>4 DEF DesignDatabases
<1>4. f \in [DOMAIN d.clusters -> DesignClusters] /\ d.clusters \in Seq(DesignClusters)
  BY <1>2 DEF Designs
<1> HIDE DEF f
<1>5. f \in Seq(DesignClusters) /\ DOMAIN f = DOMAIN d.clusters
  BY <1>4, ClustersMapped
<1>6. AllOrdinary(d) \in Designs /\ AllOrdinary(d).clusters = f
  BY <1>3, <1>5, OtherClusters
<1>7. ASSUME StateFree(d) PROVE StateFree(AllOrdinary(d))
  <2>1. \A i \in DOMAIN f : \A b \in f[i].databases : b.name # StateName
    BY <1>5, <1>7, <1>8 DEF StateFree
  <2> QED
    BY <1>6, <2>1 DEF StateFree
<1> QED
  BY <1>1, <1>6, <1>7

LEMMA DesignInvNext == DesignInv /\ [ConnectionsNext]_connectionVars => DesignInv'
<1> SUFFICES ASSUME DesignInv, [ConnectionsNext]_connectionVars PROVE DesignInv'
  OBVIOUS
<1>1. /\ design \in Designs
      /\ deployed # <<>> => Recorded(deployed) /\ deployed \in Designs
      /\ ~ returned => Apart
      /\ returned \in BOOLEAN
  BY DEF DesignInv, Recorded
<1>2. ASSUME NEW d \in Designs, Draw(d), returned' \in BOOLEAN,
             ~ returned' => ~ returned /\ (Apart => StateFree(d))
      PROVE  DesignInv'
  <2>1. design' = d /\ UNCHANGED <<deployed, tfvars, secrets>>
    BY <1>2 DEF Draw
  <2> QED
    BY <1>1, <1>2, <2>1 DEF DesignInv, Apart
<1>3. CASE EditDesign
  <2>1. ClusterNames \cup {Blank} \subseteq NamesInUse /\ OperatorNames \cup {Blank} \subseteq NamesInUse
    BY DEF NamesInUse
  <2>2. \E d \in Designs : DrawInstead(d) /\ (StateFree(design) => StateFree(d))
    <3>1. ASSUME NEW name \in NamesInUse, NEW operator \in NamesInUse, AddCluster(name, operator)
          PROVE  \E d \in Designs : DrawInstead(d) /\ (StateFree(design) => StateFree(d))
      BY <1>1, <3>1, EditsDrawDesigns, EditsKeepStateFree DEF AddCluster
    <3>2. ASSUME NEW i \in DOMAIN design.clusters, RemoveCluster(i)
          PROVE  \E d \in Designs : DrawInstead(d) /\ (StateFree(design) => StateFree(d))
      BY <1>1, <3>2, EditsDrawDesigns, EditsKeepStateFree DEF RemoveCluster
    <3>3. ASSUME NEW i \in DOMAIN design.clusters, NEW name \in NamesInUse, RenameCluster(i, name)
          PROVE  \E d \in Designs : DrawInstead(d) /\ (StateFree(design) => StateFree(d))
      BY <1>1, <3>3, EditsDrawDesigns, EditsKeepStateFree DEF RenameCluster
    <3>4. ASSUME NEW i \in DOMAIN design.clusters, NEW db \in DatabaseNames, AddDatabase(i, db)
          PROVE  \E d \in Designs : DrawInstead(d) /\ (StateFree(design) => StateFree(d))
      BY <1>1, <3>4, EditsDrawDesigns, EditsKeepStateFree DEF AddDatabase
    <3>5. ASSUME NEW d \in Designs, DrawInstead(d), d.clusters = design.clusters
          PROVE  \E e \in Designs : DrawInstead(e) /\ (StateFree(design) => StateFree(e))
      BY <3>5 DEF StateFree
    <3>6. ASSUME NEW r \in Resources, ToggleResource(r) PROVE \E d \in Designs : DrawInstead(d) /\ d.clusters = design.clusters
      <4> DEFINE e == [design EXCEPT !.resources = IF r \in @ THEN @ \ {r} ELSE @ \cup {r}]
      <4>1. e \in Designs
        BY <1>1, OtherEditsDrawDesigns
      <4>2. e.clusters = design.clusters
        BY <1>1, OtherEditsKeepClusters
      <4>3. DrawInstead(e)
        BY <3>6 DEF ToggleResource
      <4> HIDE DEF e
      <4> QED
        BY <4>1, <4>2, <4>3
    <3>7. ASSUME NEW name \in AppNames, AddApp(name) PROVE \E d \in Designs : DrawInstead(d) /\ d.clusters = design.clusters
      <4> DEFINE e == [design EXCEPT !.apps = Append(@, [name |-> name, wires |-> {}])]
      <4>1. e \in Designs
        BY <1>1, OtherEditsDrawDesigns
      <4>2. e.clusters = design.clusters
        BY <1>1, OtherEditsKeepClusters
      <4>3. DrawInstead(e)
        BY <3>7 DEF AddApp
      <4> HIDE DEF e
      <4> QED
        BY <4>1, <4>2, <4>3
    <3>8. ASSUME NEW name \in OperatorNames, AddOperator(name)
          PROVE  \E d \in Designs : DrawInstead(d) /\ d.clusters = design.clusters
      BY <1>1, <3>8, OtherEditsDrawDesigns, OtherEditsKeepClusters DEF AddOperator
    <3>9. ASSUME NEW a \in DOMAIN design.apps, NEW w \in Wireable, WireApp(a, w)
          PROVE  \E d \in Designs : DrawInstead(d) /\ d.clusters = design.clusters
      <4> DEFINE e == [design EXCEPT !.apps[a].wires = @ \cup {w}]
      <4>1. e \in Designs
        BY <1>1, OtherEditsDrawDesigns
      <4>2. e.clusters = design.clusters
        BY <1>1, OtherEditsKeepClusters
      <4>3. DrawInstead(e)
        BY <3>9 DEF WireApp
      <4> HIDE DEF e
      <4> QED
        BY <4>1, <4>2, <4>3
    <3>10. ASSUME NEW w \in Wireable, WireVms(w) PROVE \E d \in Designs : DrawInstead(d) /\ d.clusters = design.clusters
      <4> DEFINE e == [design EXCEPT !.vmWires = @ \cup {w}, !.vms = TRUE]
      <4>1. e \in Designs
        BY <1>1, OtherEditsDrawDesigns
      <4>2. e.clusters = design.clusters
        BY <1>1, OtherEditsKeepClusters
      <4>3. DrawInstead(e)
        BY <3>10 DEF WireVms
      <4> HIDE DEF e
      <4> QED
        BY <4>1, <4>2, <4>3
    <3>11. ASSUME NEW db \in DatabaseNames, AimRdi(db) PROVE \E d \in Designs : DrawInstead(d) /\ d.clusters = design.clusters
      BY <1>1, <3>11, OtherEditsDrawDesigns, OtherEditsKeepClusters DEF AimRdi
    <3> QED
      BY <1>3, <2>1, <3>1, <3>2, <3>3, <3>4, <3>5, <3>6, <3>7, <3>8, <3>9, <3>10, <3>11 DEF EditDesign
  <2>3. PICK d \in Designs : DrawInstead(d) /\ (StateFree(design) => StateFree(d))
    BY <2>2
  <2>4. Draw(d) /\ returned' = returned
    BY <2>3 DEF DrawInstead
  <2> QED
    BY <1>1, <1>2, <2>3, <2>4 DEF Apart
<1>4. ASSUME NEW d \in Designs, NEW force \in BOOLEAN, CreateFrom(d, force), returned' \in BOOLEAN,
             ~ returned' => ~ returned /\ (Apart => StateFree(d))
      PROVE  DesignInv'
  <2> DEFINE sent == CreateSchema(d)
             s == secrets + 1
  <2>1. sent \in Designs /\ (StateFree(d) => StateFree(sent))
    BY ReopeningDrawsDesigns DEF CreateSchema
  <2>2. (sent.mode = "gke" => OperatorsDistinct(sent)) /\ NamesDistinct(sent)
    BY <1>4 DEF CreateFrom, ValidDesign, NamesDistinct
  <2>3. /\ secrets' = s /\ s \in Nat /\ design' = design
        /\ deployed' = IF sent.rdi = Blank THEN sent ELSE WithRdiInternalDatabases(sent, s)
        /\ tfvars' = WriteTfvars(deployed')
    BY <1>4 DEF CreateFrom, DesignInv
  <2> HIDE DEF s, sent
  <2>4. Recorded(deployed')
    BY <2>1, <2>2, <2>3, CreationRecords
  <2>5. deployed' # <<>>
    <3>1. ASSUME NEW e \in Designs PROVE e # <<>>
      <4>1. "mode" \in DOMAIN e
        BY DEF Designs
      <4>2. \A x : x \notin DOMAIN <<>>
        OBVIOUS
      <4> QED
        BY <4>1, <4>2
    <3> QED
      BY <2>4, <3>1 DEF Recorded
  <2>6. ~ returned' => Apart'
    <3> SUFFICES ASSUME ~ returned' PROVE Apart'
      OBVIOUS
    <3>1. ~ returned /\ Apart
      BY <1>1, <1>4
    <3>2. StateFree(d)
      BY <1>4, <3>1
    <3>3. StateFree(sent)
      BY <2>1, <3>2
    <3> DEFINE r == deployed'
    <3>4. r = IF sent.rdi = Blank THEN sent ELSE WithRdiInternalDatabases(sent, s)
      BY <2>3
    <3> HIDE DEF r
    <3>5. StateFree(WithoutInternal(r)) /\ Provided(r)
      BY <2>1, <2>3, <3>3, <3>4, CreationKeepsApart
    <3> QED
      BY <2>3, <3>1, <3>5 DEF Apart, r
  <2> QED
    BY <1>1, <1>4, <2>3, <2>4, <2>5, <2>6 DEF DesignInv
<1>5. \A d \in Designs : ~ HasState(d) => StateFree(d)
  BY DEF HasState, HostsOf, StateFree
<1>6. ASSUME NEW force \in BOOLEAN, PostDesign(force) PROVE DesignInv'
  <2>1. design \in Designs /\ CreateFrom(design, force) /\ returned' = returned
    BY <1>1, <1>6 DEF PostDesign
  <2>2. Apart => StateFree(design)
    BY DEF Apart
  <2> QED
    BY <1>1, <1>4, <2>1, <2>2
<1>7. ASSUME NEW force \in BOOLEAN, PostRecord(force) PROVE DesignInv'
  <2>1. /\ deployed \in Designs /\ CreateFrom(deployed, force)
        /\ returned' = (returned \/ HasState(deployed))
    BY <1>1, <1>7 DEF PostRecord
  <2> QED
    BY <1>1, <1>4, <1>5, <2>1
<1>8. CASE ReopenOnCanvas
  <2>1. /\ deployed # <<>>
        /\ WithoutInternal(deployed) \in Designs /\ Draw(WithoutInternal(deployed)) /\ returned' = returned
    BY <1>1, <1>8, ReopeningDrawsDesigns DEF ReopenOnCanvas, DrawInstead
  <2>2. Apart => StateFree(WithoutInternal(deployed))
    BY <2>1 DEF Apart
  <2> QED
    BY <1>1, <1>2, <2>1, <2>2
<1>9. CASE ReopenInWizard
  <2>1. /\ deployed \in Designs
        /\ AllOrdinary(deployed) \in Designs /\ Draw(AllOrdinary(deployed))
        /\ returned' = (returned \/ HasState(deployed))
    BY <1>1, <1>9, ReopeningDrawsDesigns DEF ReopenInWizard
  <2>2. ~ HasState(deployed) => StateFree(AllOrdinary(deployed))
    <3>1. ~ HasState(deployed) => StateFree(deployed)
      BY <1>5, <2>1
    <3> QED
      BY <2>1, <3>1, ReopeningDrawsDesigns
  <2> QED
    BY <1>1, <1>2, <2>1, <2>2
<1>10. CASE Regenerate
  BY <1>1, <1>10 DEF Regenerate, DesignInv, Apart
<1>11. CASE UNCHANGED connectionVars
  BY <1>11 DEF connectionVars, DesignInv, Apart
<1> QED
  BY <1>3, <1>6, <1>7, <1>8, <1>9, <1>10, <1>11 DEF ConnectionsNext

\* The consumers a property speaks of are those of the variables written.
LEMMA ConsumersAre == Consumers = ConsumersOf(tfvars)
BY DEF Consumers, ConsumersOf

\* Every behaviour keeps it: what the rounds and the edits leave is a design
\* POST /instances has let pass, and its variables.
THEOREM DesignInvariant == ConnectionsSpec => []DesignInv
BY DesignInvInit, DesignInvNext, PTL DEF ConnectionsSpec

\* A name is one part of the deployment for the consumer, for the grants, for
\* the passwords and for RDI, for any number of clusters, databases and wires.
THEOREM WiresAgreeCorrect == ConnectionsSpec => []WiresAgree
<1>1. DesignInv => WiresAgree
  <2> SUFFICES ASSUME DesignInv, Generated PROVE WiresAgree
    BY DEF WiresAgree
  <2>1. deployed \in Designs /\ tfvars = WriteTfvars(deployed)
    BY DEF DesignInv, Generated, Recorded
  <2> QED
    BY <2>1, WiresWritten, ConsumersAre DEF WiresAgree
<1> QED
  BY <1>1, DesignInvariant, PTL

\* Every REC has one operator, the one its cluster names if it can, and its
\* address is of the namespace where it is made, whatever the operators.
THEOREM NamespacesAgreeCorrect == ConnectionsSpec => []NamespacesAgree
<1>1. DesignInv => NamespacesAgree
  <2> SUFFICES ASSUME DesignInv, Generated, tfvars.mode = "gke" PROVE NamespacesAgree
    BY DEF NamespacesAgree
  <2>1. deployed \in Designs /\ tfvars = WriteTfvars(deployed)
    BY DEF DesignInv, Generated, Recorded
  <2>2. deployed.mode = "gke" /\ OperatorsDistinct(deployed)
    BY <2>1, WhatIsWritten DEF DesignInv, Generated, Recorded
  <2> QED
    BY <2>1, <2>2, NamespacesOf, ConsumersAre DEF NamespacesAgree
<1> QED
  BY <1>1, DesignInvariant, PTL

\* Terraform makes no DNS name for two parts, whatever they are called, but
\* for a cluster called as an unnamed one and an application called as a node
\* of the first, or as RDI.
THEOREM DnsNamesDistinctCorrect == ConnectionsSpec => []DnsNamesDistinct
<1>1. DesignInv => DnsNamesDistinct
  <2> SUFFICES ASSUME DesignInv, Generated PROVE DnsNamesDistinct
    BY DEF DnsNamesDistinct
  <2>1. deployed \in Designs /\ NamesDistinct(deployed) /\ tfvars = WriteTfvars(deployed)
    BY DEF DesignInv, Generated, Recorded
  <2>2. \/ \A n, m \in tfvars.names : n.label = m.label /\ n.prefix = m.prefix => n.of = m.of
        \/ SoundsUnnamed(deployed) \/ SoundsTaken(deployed)
    BY <2>1, NamesApart
  <2> QED
    BY <2>2 DEF DnsNamesDistinct, SoundsUnnamed, SoundsTaken
<1> QED
  BY <1>1, DesignInvariant, PTL

\* RDI has one state database, beside its target, and its password, however
\* often the record goes through the canvas and is posted again.
THEOREM OneStateDatabaseCorrect == ConnectionsSpec => []OneStateDatabase
<1>1. DesignInv => OneStateDatabase
  <2> SUFFICES ASSUME DesignInv, Generated, ~ returned, tfvars.rdi.target # {}
               PROVE  OneStateDatabase
    BY DEF OneStateDatabase
  <2>1. deployed \in Designs /\ tfvars = WriteTfvars(deployed) /\ Provided(deployed)
    BY DEF DesignInv, Generated, Recorded, Apart
  <2>2. StateDatabases = StatesOf(deployed)
    BY DEF StateDatabases, StatesOf
  <2> QED
    BY <2>1, <2>2, StateOf DEF OneStateDatabase
<1> QED
  BY <1>1, DesignInvariant, PTL

-----------------------------------------------------------------------------
(* The canvas.  Sequences of its nodes and edges, of the entries of lists. *)

IdsUnique(ns) == \A i, j \in DOMAIN ns : ns[i].id = ns[j].id => i = j

\* A list of nodes has unique ids when it repeats no node and no two of its
\* nodes share an id.
LEMMA UniqueById ==
    ASSUME NEW ns
    PROVE  IdsUnique(ns) <=> IsInjective(ns) /\ \A m, n \in ToSet(ns) : m.id = n.id => m = n
<1>1. ASSUME IdsUnique(ns) PROVE IsInjective(ns) /\ \A m, n \in ToSet(ns) : m.id = n.id => m = n
  BY <1>1 DEF IdsUnique, IsInjective, ToSet
<1>2. ASSUME IsInjective(ns), \A m, n \in ToSet(ns) : m.id = n.id => m = n PROVE IdsUnique(ns)
  <2> SUFFICES ASSUME NEW i \in DOMAIN ns, NEW j \in DOMAIN ns, ns[i].id = ns[j].id PROVE i = j
    BY DEF IdsUnique
  <2>1. ns[i] \in ToSet(ns) /\ ns[j] \in ToSet(ns)
    BY DEF ToSet
  <2>2. ns[i] = ns[j]
    BY <1>2, <2>1
  <2> QED
    BY <1>2, <2>2 DEF IsInjective
<1> QED
  BY <1>1, <1>2

\* Two sequences, of whatever, one after the other.
LEMMA Together ==
    ASSUME NEW s, IsSeq(s), NEW t, IsSeq(t)
    PROVE  s \in Seq(ToSet(s) \cup ToSet(t)) /\ t \in Seq(ToSet(s) \cup ToSet(t))
<1> DEFINE S == ToSet(s) \cup ToSet(t)
<1>1. ToSet(s) \subseteq S /\ ToSet(t) \subseteq S
  OBVIOUS
<1> HIDE DEF S
<1>2. s \in Seq(S)
  BY <1>1, SeqMonotonic DEF IsSeq
<1>3. t \in Seq(S)
  BY <1>1, SeqMonotonic DEF IsSeq
<1> QED
  BY <1>2, <1>3 DEF S

\* What joining two lists does to their elements, their length, and what is
\* kept of them.
LEMMA ConcatIs ==
    ASSUME NEW s, IsSeq(s), NEW t, IsSeq(t)
    PROVE  /\ IsSeq(s \o t) /\ ToSet(s \o t) = ToSet(s) \cup ToSet(t) /\ Len(s \o t) = Len(s) + Len(t)
           /\ \A T : Kept(s \o t, T) = Kept(s, T) \o Kept(t, T)
<1> DEFINE S == ToSet(s) \cup ToSet(t)
<1>1. s \in Seq(S) /\ t \in Seq(S)
  BY Together
<1> HIDE DEF S
<1>2. s \o t \in Seq(S) /\ Len(s \o t) = Len(s) + Len(t)
  BY <1>1, ConcatProperties
<1>3. s \o t \in Seq(ToSet(s \o t))
  BY <1>2, OfItsElements
<1>4. ToSet(s \o t) = ToSet(s) \cup ToSet(t)
  BY <1>1, ElementsOfConcat
<1>5. \A T : Kept(s \o t, T) = Kept(s, T) \o Kept(t, T)
  BY <1>1, KeptConcat
<1> QED
  BY <1>2, <1>3, <1>4, <1>5 DEF IsSeq

\* Part of a sequence.
LEMMA KeptIsSeq ==
    ASSUME NEW s, IsSeq(s), NEW T
    PROVE  /\ IsSeq(Kept(s, T)) /\ ToSet(Kept(s, T)) = ToSet(s) \cap T
           /\ IdsUnique(s) => IdsUnique(Kept(s, T))
<1> DEFINE k == Kept(s, T)
<1>1. k \in Seq(ToSet(s)) /\ ToSet(k) = ToSet(s) \cap T /\ (IsInjective(s) => IsInjective(k))
  BY KeptElements DEF IsSeq
<1> HIDE DEF k
<1>2. k \in Seq(ToSet(k))
  BY <1>1, OfItsElements
<1>3. ASSUME IdsUnique(s) PROVE IdsUnique(k)
  <2>1. IsInjective(s) /\ \A m, n \in ToSet(s) : m.id = n.id => m = n
    BY <1>3, UniqueById
  <2>2. \A m, n \in ToSet(k) : m.id = n.id => m = n
    BY <1>1, <2>1
  <2> QED
    BY <1>1, <2>1, <2>2, UniqueById
<1> QED
  BY <1>1, <1>2, <1>3 DEF IsSeq, k

\* The places of a list.
LEMMA PlacesOf ==
    ASSUME NEW s, IsSeq(s)
    PROVE  /\ Len(s) \in Nat /\ DOMAIN s = 1..Len(s) /\ \A i \in DOMAIN s : s[i] \in ToSet(s)
           /\ Len(s) = 0 => s = <<>>
           /\ s # <<>> => 1 \in DOMAIN s
<1>1. Len(s) \in Nat /\ DOMAIN s = 1..Len(s)
  BY LenProperties DEF IsSeq
<1>2. Len(s) = 0 => s = <<>>
  BY EmptySeq DEF IsSeq
<1> QED
  BY <1>1, <1>2 DEF ToSet

\* What has the places of a list is a list of the same length.
LEMMA SeqOfPlaces ==
    ASSUME NEW s, IsSeq(s), NEW t, DOMAIN t = DOMAIN s, t = [i \in DOMAIN t |-> t[i]]
    PROVE  IsSeq(t) /\ Len(t) = Len(s)
<1>1. Len(s) \in Nat /\ DOMAIN t = 1..Len(s)
  BY PlacesOf
<1>2. \A i \in 1..Len(s) : t[i] \in ToSet(t)
  BY <1>1 DEF ToSet
<1>3. t \in [1..Len(s) -> ToSet(t)]
  BY <1>1, <1>2
<1>4. t \in Seq(ToSet(t))
  BY <1>1, <1>3, SeqDef
<1>5. Len(t) = Len(s)
  BY <1>1, <1>4, LenProperties
<1> QED
  BY <1>4, <1>5 DEF IsSeq

\* A list of one.
LEMMA OneElement ==
    ASSUME NEW x
    PROVE  IsSeq(<<x>>) /\ ToSet(<<x>>) = {x} /\ Len(<<x>>) = 1 /\ <<x>>[1] = x
<1>1. <<x>> \in Seq({x}) /\ Len(<<x>>) = 1 /\ <<x>>[1] = x
  BY SingletonSeq
<1>2. ToSet(<<x>>) = {x}
  <2>1. DOMAIN <<x>> = 1..1
    BY <1>1, LenProperties
  <2> QED
    BY <1>1, <2>1 DEF ToSet
<1> QED
  BY <1>1, <1>2 DEF IsSeq

\* The empty list.
LEMMA NoPlaces == IsSeq(<<>>) /\ ToSet(<<>>) = {} /\ Len(<<>>) = 0
BY EmptySeq, NoElements DEF IsSeq

\* The places of the first of two sequences stay.
LEMMA FirstStay ==
    ASSUME NEW s, IsSeq(s), NEW t, IsSeq(t)
    PROVE  /\ \A i \in DOMAIN s : i \in DOMAIN (s \o t) /\ (s \o t)[i] = s[i]
           /\ \A j \in DOMAIN t : Len(s) + j \in DOMAIN (s \o t) /\ (s \o t)[Len(s) + j] = t[j]
<1>1. s \in Seq(ToSet(s) \cup ToSet(t)) /\ t \in Seq(ToSet(s) \cup ToSet(t))
  BY Together
<1>2. /\ Len(s \o t) = Len(s) + Len(t)
      /\ \A i \in 1..(Len(s) + Len(t)) : (s \o t)[i] = IF i <= Len(s) THEN s[i] ELSE t[i - Len(s)]
  BY <1>1, ConcatProperties
<1>3. Len(s) \in Nat /\ Len(t) \in Nat /\ DOMAIN s = 1..Len(s) /\ DOMAIN t = 1..Len(t)
  BY PlacesOf
<1>4. DOMAIN (s \o t) = 1..(Len(s) + Len(t))
  BY <1>2, ConcatIs, PlacesOf
<1>5. ASSUME NEW i \in DOMAIN s PROVE i \in DOMAIN (s \o t) /\ (s \o t)[i] = s[i]
  <2>1. i \in 1..(Len(s) + Len(t)) /\ i <= Len(s)
    BY <1>3
  <2> QED
    BY <1>2, <1>4, <2>1
<1>6. ASSUME NEW j \in DOMAIN t PROVE Len(s) + j \in DOMAIN (s \o t) /\ (s \o t)[Len(s) + j] = t[j]
  <2>1. Len(s) + j \in 1..(Len(s) + Len(t)) /\ ~(Len(s) + j <= Len(s)) /\ (Len(s) + j) - Len(s) = j
    BY <1>3
  <2> QED
    BY <1>2, <1>4, <2>1
<1> QED
  BY <1>5, <1>6

\* As many are kept of two sequences that are alike.
LEMMA AlikeKept ==
    ASSUME NEW s, IsSeq(s), NEW t, IsSeq(t), Len(t) = Len(s), NEW T, NEW U,
           \A i \in 1..Len(s) : s[i] \in T <=> t[i] \in U
    PROVE  Len(Kept(s, T)) = Len(Kept(t, U))
<1>1. Len(s) \in Nat /\ DOMAIN s = 1..Len(s) /\ DOMAIN t = 1..Len(s)
      /\ \A i \in 1..Len(s) : s[i] \in ToSet(s) /\ t[i] \in ToSet(t)
  BY PlacesOf
<1>2. PICK n \in Nat : n = Len(s)
  BY <1>1
<1>3. PICK f : Keeping(f, s, T, n) /\ Kept(s, T) = f[n]
  BY <1>1, <1>2, KeptIs
<1>4. PICK g : Keeping(g, t, U, n) /\ Kept(t, U) = g[n]
  BY <1>1, <1>2, KeptIs
<1> DEFINE N == {i \in Nat : i <= n => f[i] \in Seq(ToSet(s)) /\ g[i] \in Seq(ToSet(t)) /\ Len(f[i]) = Len(g[i])}
<1>5. 0 \in N
  <2>1. f[0] = <<>> /\ g[0] = <<>>
    BY <1>3, <1>4 DEF Keeping
  <2> QED
    BY <2>1, EmptySeq
<1>6. ASSUME NEW i \in Nat, i \in N PROVE i + 1 \in N
  <2> SUFFICES ASSUME i + 1 <= n
               PROVE  f[i + 1] \in Seq(ToSet(s)) /\ g[i + 1] \in Seq(ToSet(t)) /\ Len(f[i + 1]) = Len(g[i + 1])
    OBVIOUS
  <2>1. i + 1 \in 1..n /\ i + 1 \in 0..n /\ i + 1 # 0 /\ (i + 1) - 1 = i /\ i <= n
    OBVIOUS
  <2>2. f[i + 1] = IF s[i + 1] \in T THEN Append(f[i], s[i + 1]) ELSE f[i]
    BY <1>3, <2>1 DEF Keeping
  <2>3. g[i + 1] = IF t[i + 1] \in U THEN Append(g[i], t[i + 1]) ELSE g[i]
    BY <1>4, <2>1 DEF Keeping
  <2>4. f[i] \in Seq(ToSet(s)) /\ g[i] \in Seq(ToSet(t)) /\ Len(f[i]) = Len(g[i])
    BY <1>6, <2>1
  <2>5. s[i + 1] \in ToSet(s) /\ t[i + 1] \in ToSet(t) /\ (s[i + 1] \in T <=> t[i + 1] \in U)
    BY <1>1, <1>2, <2>1
  <2>6. /\ Append(f[i], s[i + 1]) \in Seq(ToSet(s)) /\ Len(Append(f[i], s[i + 1])) = Len(f[i]) + 1
        /\ Append(g[i], t[i + 1]) \in Seq(ToSet(t)) /\ Len(Append(g[i], t[i + 1])) = Len(g[i]) + 1
    BY <2>4, <2>5, AppendProperties
  <2>7. CASE s[i + 1] \in T
    <3>1. f[i + 1] = Append(f[i], s[i + 1]) /\ g[i + 1] = Append(g[i], t[i + 1])
      BY <2>2, <2>3, <2>5, <2>7
    <3> QED
      BY <2>4, <2>6, <3>1
  <2>8. CASE s[i + 1] \notin T
    <3>1. f[i + 1] = f[i] /\ g[i + 1] = g[i]
      BY <2>2, <2>3, <2>5, <2>8
    <3> QED
      BY <2>4, <3>1
  <2> QED
    BY <2>7, <2>8
<1>7. n \in N
  <2> HIDE DEF N
  <2> QED
    BY <1>5, <1>6, InductionOnSets
<1> QED
  BY <1>2, <1>3, <1>4, <1>7

\* Keeping none of a second list keeps what is kept of the first,
LEMMA KeptBefore ==
    ASSUME NEW s, IsSeq(s), NEW t, IsSeq(t), NEW T, ToSet(t) \cap T = {}
    PROVE  Kept(s \o t, T) = Kept(s, T)
<1>1. Kept(s \o t, T) = Kept(s, T) \o Kept(t, T)
  BY ConcatIs
<1>2. Kept(t, T) = <<>>
  <2>1. t \in Seq(ToSet(t))
    BY DEF IsSeq
  <2> QED
    BY <2>1, KeptNone
<1>3. Kept(s, T) \in Seq(ToSet(Kept(s, T)))
  BY KeptIsSeq DEF IsSeq
<1> QED
  BY <1>1, <1>2, <1>3, ConcatEmptySeq

\* and keeping all of the second and none of the first leaves the second.
LEMMA KeptAfter ==
    ASSUME NEW s, IsSeq(s), NEW t, IsSeq(t), NEW T, ToSet(s) \cap T = {}, ToSet(t) \subseteq T
    PROVE  Kept(s \o t, T) = t
<1>1. Kept(s \o t, T) = Kept(s, T) \o Kept(t, T)
  BY ConcatIs
<1>2. s \in Seq(ToSet(s)) /\ t \in Seq(ToSet(t))
  BY DEF IsSeq
<1>3. Kept(s, T) = <<>>
  BY <1>2, KeptNone
<1>4. Kept(t, T) = t
  BY <1>2, KeptAll
<1> QED
  BY <1>1, <1>2, <1>3, <1>4, ConcatEmptySeq

\* A sequence of what is made of the elements of another.
LEMMA MadeOf ==
    ASSUME NEW s, IsSeq(s), NEW t, DOMAIN t = DOMAIN s, t = [i \in DOMAIN t |-> t[i]]
    PROVE  /\ IsSeq(t)
           /\ \A x \in ToSet(t) : \E i \in DOMAIN s : x = t[i] /\ s[i] \in ToSet(s)
<1>1. IsSeq(t)
  BY SeqOfPlaces
<1>2. \A i \in DOMAIN s : s[i] \in ToSet(s)
  BY PlacesOf
<1> QED
  BY <1>1, <1>2 DEF ToSet

\* A sequence with one more element, with one fewer, and with one changed.
LEMMA OneMore ==
    ASSUME NEW s, IsSeq(s), NEW e
    PROVE  IsSeq(Append(s, e)) /\ ToSet(Append(s, e)) = ToSet(s) \cup {e}
<1>1. s \in Seq(ToSet(s)) /\ ToSet(s) \subseteq ToSet(s) \cup {e}
  BY DEF IsSeq
<1>2. s \in Seq(ToSet(s) \cup {e})
  BY <1>1, SeqMonotonic
<1>3. Append(s, e) \in Seq(ToSet(s) \cup {e})
  BY <1>2, AppendProperties
<1>4. ToSet(Append(s, e)) = ToSet(s) \cup {e}
  BY <1>2, ElementsOfAppend
<1> QED
  BY <1>3, <1>4 DEF IsSeq

\* Removing an element adds none.
LEMMA OneFewer ==
    ASSUME NEW s, IsSeq(s), NEW a \in DOMAIN s
    PROVE  IsSeq(RemoveAt(s, a)) /\ ToSet(RemoveAt(s, a)) \subseteq ToSet(s)
<1>1. Len(s) \in Nat /\ DOMAIN s = 1..Len(s) /\ s \in Seq(ToSet(s))
  BY PlacesOf DEF IsSeq
<1>2. SubSeq(s, 1, a - 1) \in Seq(ToSet(s)) /\ SubSeq(s, a + 1, Len(s)) \in Seq(ToSet(s))
  <2>1. a \in 1..Len(s)
    BY <1>1
  <2>2. \A i \in 1..(a - 1) : i \in 1..Len(s)
    BY <1>1, <2>1
  <2>3. \A i \in (a + 1)..Len(s) : i \in 1..Len(s)
    BY <1>1, <2>1
  <2>4. 1 \in Int /\ a - 1 \in Int /\ a + 1 \in Int /\ Len(s) \in Int
    BY <1>1, <2>1
  <2> QED
    BY <1>1, <2>2, <2>3, <2>4, SubSeqProperties
<1>3. RemoveAt(s, a) \in Seq(ToSet(s))
  BY <1>2, ConcatProperties DEF RemoveAt
<1>4. IsSeq(RemoveAt(s, a))
  BY <1>3, OfItsElements DEF IsSeq
<1>5. ToSet(RemoveAt(s, a)) \subseteq ToSet(s)
  <2>1. Len(RemoveAt(s, a)) \in Nat /\ DOMAIN RemoveAt(s, a) = 1..Len(RemoveAt(s, a))
    BY <1>4, PlacesOf
  <2>2. \A i \in 1..Len(RemoveAt(s, a)) : RemoveAt(s, a)[i] \in ToSet(s)
    BY <1>3, ElementOfSeq
  <2> QED
    BY <2>1, <2>2 DEF ToSet
<1> QED
  BY <1>4, <1>5

\* Replacing an element adds only the one it is replaced by.
LEMMA OneChanged ==
    ASSUME NEW s, IsSeq(s), NEW i \in DOMAIN s, NEW e
    PROVE  IsSeq([s EXCEPT ![i] = e]) /\ ToSet([s EXCEPT ![i] = e]) \subseteq ToSet(s) \cup {e}
<1> DEFINE t == [s EXCEPT ![i] = e]
<1>1. DOMAIN t = DOMAIN s /\ t = [j \in DOMAIN t |-> t[j]] /\ \A j \in DOMAIN s : t[j] = s[j] \/ t[j] = e
  OBVIOUS
<1> HIDE DEF t
<1>2. IsSeq(t) /\ \A x \in ToSet(t) : \E j \in DOMAIN s : x = t[j] /\ s[j] \in ToSet(s)
  BY <1>1, MadeOf
<1> QED
  BY <1>1, <1>2 DEF t

FlatUpTo(f, n) == FlattenSeq([i \in 1..n |-> f[i]])

\* Flattening appends one list after another.
LEMMA FlatStep ==
    ASSUME NEW f, NEW n \in Nat, \A i \in 1..n : IsSeq(f[i])
    PROVE  /\ IsSeq(FlatUpTo(f, n))
           /\ n = 0 => FlatUpTo(f, n) = <<>>
           /\ n > 0 => FlatUpTo(f, n) = FlatUpTo(f, n - 1) \o f[n]
<1> DEFINE S == UNION {ToSet(f[i]) : i \in 1..n}
           s == [i \in 1..n |-> f[i]]
<1>1. \A i \in 1..n : f[i] \in Seq(S)
  <2> SUFFICES ASSUME NEW i \in 1..n PROVE f[i] \in Seq(S)
    OBVIOUS
  <2>1. ToSet(f[i]) \subseteq S /\ f[i] \in Seq(ToSet(f[i]))
    BY DEF IsSeq
  <2> HIDE DEF S
  <2> QED
    BY <2>1, SeqMonotonic
<1> HIDE DEF S
<1>2. s \in [1..n -> Seq(S)]
  BY <1>1
<1>3. s \in Seq(Seq(S))
  BY <1>2, SeqDef
<1>4. FlattenSeq(s) \in Seq(S)
  <2> HIDE DEF s
  <2> QED
    BY <1>3, FlattenType
<1>5. IsSeq(FlatUpTo(f, n))
  BY <1>4, OfItsElements DEF IsSeq, FlatUpTo
<1>6. ASSUME n = 0 PROVE FlatUpTo(f, n) = <<>>
  <2>1. s = <<>>
    <3>1. Len(s) = 0
      BY <1>6
    <3> HIDE DEF s
    <3> QED
      BY <1>3, <3>1, EmptySeq
  <2> QED
    BY <2>1, FlattenEmpty DEF FlatUpTo
<1>7. ASSUME n > 0 PROVE FlatUpTo(f, n) = FlatUpTo(f, n - 1) \o f[n]
  <2> DEFINE t == [i \in 1..(n - 1) |-> f[i]]
  <2>1. n - 1 \in Nat /\ t \in [1..(n - 1) -> Seq(S)]
    BY <1>1, <1>7
  <2>2. t \in Seq(Seq(S)) /\ Len(t) = n - 1
    BY <2>1, SeqDef
  <2>3. f[n] \in Seq(S)
    BY <1>1, <1>7
  <2>4. \A i \in 1..(n - 1) : t[i] = f[i]
    OBVIOUS
  <2>5. Len(s) = n /\ \A i \in 1..n : s[i] = f[i]
    OBVIOUS
  <2> HIDE DEF s, t
  <2>6. /\ Append(t, f[n]) \in Seq(Seq(S)) /\ Len(Append(t, f[n])) = n
        /\ \A i \in 1..(n - 1) : Append(t, f[n])[i] = t[i]
        /\ Append(t, f[n])[n] = f[n]
    <3>1. (n - 1) + 1 = n
      BY <1>7
    <3> QED
      BY <2>2, <2>3, <3>1, AppendProperties
  <2>7. \A i \in 1..n : s[i] = Append(t, f[n])[i]
    <3> SUFFICES ASSUME NEW i \in 1..n PROVE s[i] = Append(t, f[n])[i]
      OBVIOUS
    <3>1. i = n \/ i \in 1..(n - 1)
      BY <1>7
    <3> QED
      BY <2>4, <2>5, <2>6, <3>1
  <2>8. s = Append(t, f[n])
    BY <1>3, <2>5, <2>6, <2>7, SeqEqual
  <2>9. FlattenSeq(s) = FlattenSeq(t) \o f[n]
    BY <2>2, <2>3, <2>8, FlattenAppend
  <2> QED
    BY <2>9 DEF FlatUpTo, s, t
<1> QED
  BY <1>5, <1>6, <1>7

-----------------------------------------------------------------------------
(* What is filtered out of them.                                           *)

\* Filtering by the test of being of a kind.
LEMMA OfKindKept ==
    ASSUME NEW ns, Len(ns) \in Nat, NEW kind, NEW T, \A i \in 1..Len(ns) : ns[i] \in T <=> ns[i].kind = kind
    PROVE  OfKind(ns, kind) = Kept(ns, T)
<1> DEFINE Body(f) == [i \in 0..Len(ns) |-> IF i = 0 THEN <<>> ELSE IF ns[i].kind = kind THEN Append(f[i - 1], ns[i]) ELSE f[i - 1]]
           F == CHOOSE f : f = Body(f)
<1>1. \A f : Keeping(f, ns, T, Len(ns)) <=> f = Body(f)
  BY DEF Keeping
<1>2. OfKind(ns, kind) = F[Len(ns)]
  BY DEF OfKind, Keep
<1>3. F = Body(F)
  <2>1. PICK f : f = Body(f)
    BY <1>1, KeptIs
  <2> HIDE DEF Body
  <2> QED
    BY <2>1
<1> HIDE DEF F, Body
<1> QED
  BY <1>1, <1>2, <1>3, KeptByFilter

\* The nodes of one kind.
LEMMA KindElements ==
    ASSUME NEW ns, IsSeq(ns), NEW kind
    PROVE  /\ IsSeq(OfKind(ns, kind)) /\ ToSet(OfKind(ns, kind)) = {n \in ToSet(ns) : n.kind = kind}
<1> DEFINE T == {n \in ToSet(ns) : n.kind = kind}
<1>1. Len(ns) \in Nat /\ DOMAIN ns = 1..Len(ns)
  BY LenProperties DEF IsSeq
<1>2. \A i \in 1..Len(ns) : ns[i] \in T <=> ns[i].kind = kind
  BY <1>1 DEF ToSet
<1>3. OfKind(ns, kind) = Kept(ns, T)
  BY <1>1, <1>2, OfKindKept
<1>4. ToSet(ns) \cap T = T
  OBVIOUS
<1> QED
  BY <1>3, <1>4, KeptIsSeq

\* The parts that are the user's own.
LEMMA OwnNodes ==
    ASSUME NEW ns, IsSeq(ns)
    PROVE  Keep(ns, LAMBDA n : ~n.internal) = Kept(ns, ToSet(ns) \ Internals(ns))
<1> DEFINE T == ToSet(ns) \ Internals(ns)
           Body(f) == [i \in 0..Len(ns) |-> IF i = 0 THEN <<>> ELSE IF ~ns[i].internal THEN Append(f[i - 1], ns[i]) ELSE f[i - 1]]
           F == CHOOSE f : f = Body(f)
<1>1. Len(ns) \in Nat /\ DOMAIN ns = 1..Len(ns)
  BY LenProperties DEF IsSeq
<1>2. \A i \in 1..Len(ns) : ns[i] \in T <=> ~ns[i].internal
  BY <1>1 DEF ToSet, Internals
<1>3. Keep(ns, LAMBDA n : ~n.internal) = F[Len(ns)]
  BY DEF Keep
<1>4. \A f : Keeping(f, ns, T, Len(ns)) <=> f = Body(f)
  BY <1>2 DEF Keeping
<1>5. F = Body(F)
  <2>1. PICK f : f = Body(f)
    BY <1>1, <1>4, KeptIs
  <2> HIDE DEF Body
  <2> QED
    BY <2>1
<1> HIDE DEF F, Body
<1> QED
  BY <1>1, <1>3, <1>4, <1>5, KeptByFilter

\* The edges the user drew, those that lead elsewhere than one of them, and
\* those that touch nothing dropped, as what is kept of the edges.
LEMMA OwnEdges ==
    ASSUME NEW es, IsSeq(es)
    PROVE  Keep(es, LAMBDA e : ~e.state) = Kept(es, ToSet(es) \ StateEdges(es))
<1> DEFINE T == ToSet(es) \ StateEdges(es)
           Body(f) == [i \in 0..Len(es) |-> IF i = 0 THEN <<>> ELSE IF ~es[i].state THEN Append(f[i - 1], es[i]) ELSE f[i - 1]]
           F == CHOOSE f : f = Body(f)
<1>1. Len(es) \in Nat /\ DOMAIN es = 1..Len(es)
  BY LenProperties DEF IsSeq
<1>2. \A i \in 1..Len(es) : es[i] \in T <=> ~es[i].state
  BY <1>1 DEF ToSet, StateEdges
<1>3. Keep(es, LAMBDA e : ~e.state) = F[Len(es)]
  BY DEF Keep
<1>4. \A f : Keeping(f, es, T, Len(es)) <=> f = Body(f)
  BY <1>2 DEF Keeping
<1>5. F = Body(F)
  <2>1. PICK f : f = Body(f)
    BY <1>1, <1>4, KeptIs
  <2> HIDE DEF Body
  <2> QED
    BY <2>1
<1> HIDE DEF F, Body
<1> QED
  BY <1>1, <1>3, <1>4, <1>5, KeptByFilter

\* All edges but one.
LEMMA OtherEdges ==
    ASSUME NEW es, IsSeq(es), NEW d
    PROVE  Keep(es, LAMBDA e : e # d) = Kept(es, ToSet(es) \ {d})
<1> DEFINE T == ToSet(es) \ {d}
           Body(f) == [i \in 0..Len(es) |-> IF i = 0 THEN <<>> ELSE IF es[i] # d THEN Append(f[i - 1], es[i]) ELSE f[i - 1]]
           F == CHOOSE f : f = Body(f)
<1>1. Len(es) \in Nat /\ DOMAIN es = 1..Len(es)
  BY LenProperties DEF IsSeq
<1>2. \A i \in 1..Len(es) : es[i] \in T <=> es[i] # d
  BY <1>1 DEF ToSet
<1>3. Keep(es, LAMBDA e : e # d) = F[Len(es)]
  BY DEF Keep
<1>4. \A f : Keeping(f, es, T, Len(es)) <=> f = Body(f)
  BY <1>2 DEF Keeping
<1>5. F = Body(F)
  <2>1. PICK f : f = Body(f)
    BY <1>1, <1>4, KeptIs
  <2> HIDE DEF Body
  <2> QED
    BY <2>1
<1> HIDE DEF F, Body
<1> QED
  BY <1>1, <1>3, <1>4, <1>5, KeptByFilter

\* The test a node must pass to stay, and an edge.
LEMMA StayingNodes ==
    ASSUME NEW ns, IsSeq(ns), NEW D
    PROVE  Keep(ns, LAMBDA n : n.id \notin D) = Kept(ns, {n \in ToSet(ns) : n.id \notin D})
<1> DEFINE T == {n \in ToSet(ns) : n.id \notin D}
           Body(f) == [i \in 0..Len(ns) |-> IF i = 0 THEN <<>> ELSE IF ns[i].id \notin D THEN Append(f[i - 1], ns[i]) ELSE f[i - 1]]
           F == CHOOSE f : f = Body(f)
<1>1. Len(ns) \in Nat /\ DOMAIN ns = 1..Len(ns)
  BY LenProperties DEF IsSeq
<1>2. \A i \in 1..Len(ns) : ns[i] \in T <=> ns[i].id \notin D
  BY <1>1 DEF ToSet
<1>3. Keep(ns, LAMBDA n : n.id \notin D) = F[Len(ns)]
  BY DEF Keep
<1>4. \A f : Keeping(f, ns, T, Len(ns)) <=> f = Body(f)
  BY <1>2 DEF Keeping
<1>5. F = Body(F)
  <2>1. PICK f : f = Body(f)
    BY <1>1, <1>4, KeptIs
  <2> HIDE DEF Body
  <2> QED
    BY <2>1
<1> HIDE DEF F, Body
<1> QED
  BY <1>1, <1>3, <1>4, <1>5, KeptByFilter

\* The edges that do not touch what is dropped.
LEMMA StayingEdges ==
    ASSUME NEW es, IsSeq(es), NEW D
    PROVE  Keep(es, LAMBDA e : {e.source, e.target} \cap D = {}) = Kept(es, {e \in ToSet(es) : e.source \notin D /\ e.target \notin D})
<1> DEFINE T == {e \in ToSet(es) : e.source \notin D /\ e.target \notin D}
           Body(f) == [i \in 0..Len(es) |-> IF i = 0 THEN <<>> ELSE IF {es[i].source, es[i].target} \cap D = {} THEN Append(f[i - 1], es[i]) ELSE f[i - 1]]
           F == CHOOSE f : f = Body(f)
<1>1. Len(es) \in Nat /\ DOMAIN es = 1..Len(es)
  BY LenProperties DEF IsSeq
<1>2. \A i \in 1..Len(es) : es[i] \in T <=> {es[i].source, es[i].target} \cap D = {}
  BY <1>1 DEF ToSet
<1>3. Keep(es, LAMBDA e : {e.source, e.target} \cap D = {}) = F[Len(es)]
  BY DEF Keep
<1>4. \A f : Keeping(f, es, T, Len(es)) <=> f = Body(f)
  BY <1>2 DEF Keeping
<1>5. F = Body(F)
  <2>1. PICK f : f = Body(f)
    BY <1>1, <1>4, KeptIs
  <2> HIDE DEF Body
  <2> QED
    BY <2>1
<1> HIDE DEF F, Body
<1> QED
  BY <1>1, <1>3, <1>4, <1>5, KeptByFilter

\* Wires that found something.
LEMMA FoundEdges ==
    ASSUME NEW es, IsSeq(es)
    PROVE  Keep(es, LAMBDA e : e.target \notin {Root, e.source}) = Kept(es, {e \in ToSet(es) : e.target \notin {Root, e.source}})
<1> DEFINE T == {e \in ToSet(es) : e.target \notin {Root, e.source}}
           Body(f) == [i \in 0..Len(es) |-> IF i = 0 THEN <<>>
                                            ELSE IF es[i].target \notin {Root, es[i].source} THEN Append(f[i - 1], es[i]) ELSE f[i - 1]]
           F == CHOOSE f : f = Body(f)
<1>1. Len(es) \in Nat /\ DOMAIN es = 1..Len(es)
  BY LenProperties DEF IsSeq
<1>2. \A i \in 1..Len(es) : es[i] \in T <=> es[i].target \notin {Root, es[i].source}
  BY <1>1 DEF ToSet
<1>3. Keep(es, LAMBDA e : e.target \notin {Root, e.source}) = F[Len(es)]
  BY DEF Keep
<1>4. \A f : Keeping(f, es, T, Len(es)) <=> f = Body(f)
  BY <1>2 DEF Keeping
<1>5. F = Body(F)
  <2>1. PICK f : f = Body(f)
    BY <1>1, <1>4, KeptIs
  <2> HIDE DEF Body
  <2> QED
    BY <2>1
<1> HIDE DEF F, Body
<1> QED
  BY <1>1, <1>3, <1>4, <1>5, KeptByFilter

\* The databases of a cluster, and the load balancers that front something.
LEMMA DatabasesKept ==
    ASSUME NEW ns, IsSeq(ns), NEW c
    PROVE  Keep(ns, LAMBDA n : n.kind = "database" /\ n.parent = c.id /\ ~n.internal)
           = Kept(ns, {n \in ToSet(ns) : n.kind = "database" /\ n.parent = c.id /\ ~n.internal})
<1> DEFINE T == {n \in ToSet(ns) : n.kind = "database" /\ n.parent = c.id /\ ~n.internal}
           Body(f) == [i \in 0..Len(ns) |-> IF i = 0 THEN <<>>
                          ELSE IF ns[i].kind = "database" /\ ns[i].parent = c.id /\ ~ns[i].internal THEN Append(f[i - 1], ns[i]) ELSE f[i - 1]]
           F == CHOOSE f : f = Body(f)
           all == Keep(ns, LAMBDA n : n.kind = "database" /\ n.parent = c.id /\ ~n.internal)
<1>1. Len(ns) \in Nat /\ DOMAIN ns = 1..Len(ns)
  BY LenProperties DEF IsSeq
<1>2. \A i \in 1..Len(ns) : ns[i] \in T <=> ns[i].kind = "database" /\ ns[i].parent = c.id /\ ~ns[i].internal
  BY <1>1 DEF ToSet
<1>3. all = F[Len(ns)]
  BY DEF Keep
<1>4. \A f : Keeping(f, ns, T, Len(ns)) <=> f = Body(f)
  BY <1>2 DEF Keeping
<1>5. F = Body(F)
  <2>1. PICK f : f = Body(f)
    BY <1>1, <1>4, KeptIs
  <2> HIDE DEF Body
  <2> QED
    BY <2>1
<1> HIDE DEF F, Body, all, T
<1>6. all = Kept(ns, T)
  BY <1>1, <1>3, <1>4, <1>5, KeptByFilter
<1> QED
  BY <1>6 DEF all, T

\* The load balancers that front something.
LEMMA BalancersKept ==
    ASSUME NEW ns, IsSeq(ns), NEW es
    PROVE  Keep(ns, LAMBDA n : n.kind = "loadbalancer" /\ IsFronting(ns, es, n))
           = Kept(ns, {n \in ToSet(ns) : n.kind = "loadbalancer" /\ IsFronting(ns, es, n)})
<1> DEFINE T == {n \in ToSet(ns) : n.kind = "loadbalancer" /\ IsFronting(ns, es, n)}
           Body(f) == [i \in 0..Len(ns) |-> IF i = 0 THEN <<>>
                          ELSE IF ns[i].kind = "loadbalancer" /\ IsFronting(ns, es, ns[i]) THEN Append(f[i - 1], ns[i]) ELSE f[i - 1]]
           F == CHOOSE f : f = Body(f)
           all == Keep(ns, LAMBDA n : n.kind = "loadbalancer" /\ IsFronting(ns, es, n))
<1>1. Len(ns) \in Nat /\ DOMAIN ns = 1..Len(ns)
  BY LenProperties DEF IsSeq
<1>2. \A i \in 1..Len(ns) : ns[i] \in T <=> ns[i].kind = "loadbalancer" /\ IsFronting(ns, es, ns[i])
  BY <1>1 DEF ToSet
<1>3. all = F[Len(ns)]
  BY DEF Keep
<1>4. \A f : Keeping(f, ns, T, Len(ns)) <=> f = Body(f)
  BY <1>2 DEF Keeping
<1>5. F = Body(F)
  <2>1. PICK f : f = Body(f)
    BY <1>1, <1>4, KeptIs
  <2> HIDE DEF Body
  <2> QED
    BY <2>1
<1> HIDE DEF F, Body, all, T
<1>6. all = Kept(ns, T)
  BY <1>1, <1>3, <1>4, <1>5, KeptByFilter
<1> QED
  BY <1>6 DEF all, T

-----------------------------------------------------------------------------
(* Nodes have ids.                                                         *)

\* A node is found by its id, and nothing by another.
LEMMA Found ==
    ASSUME NEW ns, IdsUnique(ns)
    PROVE  /\ \A n \in ToSet(ns) : NodeOf(ns, n.id) = n /\ KindOf(ns, n.id) = n.kind
           /\ \A id : id \notin NodeIds(ns) => KindOf(ns, id) = "none"
<1>1. ASSUME NEW n \in ToSet(ns) PROVE NodeOf(ns, n.id) = n /\ KindOf(ns, n.id) = n.kind
  <2>1. PICK i \in DOMAIN ns : ns[i] = n
    BY DEF ToSet
  <2> DEFINE c == CHOOSE j \in DOMAIN ns : ns[j].id = n.id
  <2>2. c \in DOMAIN ns /\ ns[c].id = n.id
    BY <2>1
  <2>3. c = i
    BY <2>1, <2>2 DEF IdsUnique
  <2>4. NodeOf(ns, n.id) = ns[c] /\ KindOf(ns, n.id) = ns[c].kind
    BY <2>2 DEF NodeOf, KindOf
  <2> QED
    BY <2>1, <2>3, <2>4
<1>2. ASSUME NEW id, id \notin NodeIds(ns) PROVE KindOf(ns, id) = "none"
  BY <1>2 DEF NodeIds, ToSet, KindOf
<1> QED
  BY <1>1, <1>2

\* Lists with unique ids, and none in common, joined.
LEMMA UniqueConcat ==
    ASSUME NEW s, IsSeq(s), NEW t, IsSeq(t), IdsUnique(s), IdsUnique(t),
           \A m \in ToSet(s), n \in ToSet(t) : m.id # n.id
    PROVE  IdsUnique(s \o t)
<1> DEFINE S == ToSet(s) \cup ToSet(t)
<1>1. s \in Seq(S) /\ t \in Seq(S)
  BY Together
<1> HIDE DEF S
<1>2. IsInjective(s) /\ IsInjective(t) /\ ToSet(s) \cap ToSet(t) = {}
  BY UniqueById
<1>3. IsInjective(s \o t)
  BY <1>1, <1>2, InjectiveConcat
<1>4. \A m, n \in ToSet(s) \cup ToSet(t) : m.id = n.id => m = n
  BY UniqueById
<1>5. ToSet(s \o t) = ToSet(s) \cup ToSet(t)
  BY <1>1, ElementsOfConcat
<1>6. \A m, n \in ToSet(s \o t) : m.id = n.id => m = n
  BY <1>4, <1>5
<1> QED
  BY <1>3, <1>6, UniqueById

\* The edges that may aim RDI at a database, and where they do.
Aims(ns, es, rdi) ==
    {e \in ToSet(es) : e.source = rdi /\ \E n \in ToSet(ns) : n.id = e.target /\ n.kind = "database" /\ ~n.internal}
FirstTarget(s) == IF s = <<>> THEN Root ELSE s[1].target

\* The target of an RDI is where the first of the edges that count leads.
LEMMA TargetOfIs ==
    ASSUME NEW ns, IdsUnique(ns), NEW es, IsSeq(es), NEW rdi
    PROVE  TargetOf(ns, es, rdi) = FirstTarget(Kept(es, Aims(ns, es, rdi)))
<1> DEFINE Test(e) == e.source = rdi /\ KindOf(ns, e.target) = "database" /\ ~NodeOf(ns, e.target).internal
           T == Aims(ns, es, rdi)
           Body(f) == [i \in 0..Len(es) |-> IF i = 0 THEN <<>> ELSE IF Test(es[i]) THEN Append(f[i - 1], es[i]) ELSE f[i - 1]]
           F == CHOOSE f : f = Body(f)
<1>1. Len(es) \in Nat /\ DOMAIN es = 1..Len(es)
  BY LenProperties DEF IsSeq
<1>2. ASSUME NEW e PROVE Test(e) <=> e.source = rdi /\ \E n \in ToSet(ns) : n.id = e.target /\ n.kind = "database" /\ ~n.internal
  <2>1. CASE e.target \in NodeIds(ns)
    <3>1. PICK n \in ToSet(ns) : n.id = e.target
      BY <2>1 DEF NodeIds
    <3>2. NodeOf(ns, e.target) = n /\ KindOf(ns, e.target) = n.kind
      BY <3>1, Found
    <3>3. \A m \in ToSet(ns) : m.id = e.target => m = n
      BY <3>1, UniqueById
    <3> QED
      BY <3>1, <3>2, <3>3
  <2>2. CASE e.target \notin NodeIds(ns)
    <3>1. KindOf(ns, e.target) = "none" /\ \A n \in ToSet(ns) : n.id # e.target
      BY <2>2, Found DEF NodeIds
    <3> QED
      BY <3>1
  <2> QED
    BY <2>1, <2>2
<1>3. \A i \in 1..Len(es) : es[i] \in T <=> Test(es[i])
  BY <1>1, <1>2 DEF Aims, ToSet
<1>4. TargetOf(ns, es, rdi) = FirstTarget(F[Len(es)])
  BY DEF TargetOf, Keep, FirstTarget
<1> HIDE DEF Test
<1>5. \A f : Keeping(f, es, T, Len(es)) <=> f = Body(f)
  BY <1>3 DEF Keeping
<1>6. F = Body(F)
  <2>1. PICK f : f = Body(f)
    BY <1>1, <1>5, KeptIs
  <2> HIDE DEF Body
  <2> QED
    BY <2>1
<1> HIDE DEF F, Body
<1> QED
  BY <1>1, <1>4, <1>5, <1>6, KeptByFilter

-----------------------------------------------------------------------------
(* A canvas that can be drawn.                                             *)

Kinds == {"operator", "cluster", "database", "vms", "application", "loadbalancer", "rdi", "storage"}
Fields == {"id", "kind", "parent", "name", "machines", "open", "internal"}

\* What is right about a node by itself: the ids of the user's parts are
\* numbers below that of the next one.
NodeFits(n, next) ==
    /\ DOMAIN n = Fields
    /\ n.kind \in Kinds
    /\ n.id \in Int \ {Root} /\ n.id < next
    /\ n.internal \in BOOLEAN
    /\ IF n.internal THEN n.kind = "database" ELSE n.id > 0

\* A database lies in a cluster, a cluster perhaps in an operator.
Lies(n, ns) ==
    IF n.kind = "database" THEN \E p \in ToSet(ns) : p.id = n.parent /\ p.kind = "cluster"
    ELSE n.parent = Root \/ (n.kind = "cluster" /\ \E p \in ToSet(ns) : p.id = n.parent /\ p.kind = "operator")

\* An edge leads from a part of the user's to a node, or to one dropped.
EdgeFits(e, ns, gone) ==
    /\ e.state \in BOOLEAN
    /\ \E n \in ToSet(ns) : n.id = e.source /\ ~n.internal
    /\ e.target \in NodeIds(ns) \cup gone
    /\ e.state => \A n \in ToSet(ns) : n.id = e.target => n.internal
IdsBelow(gone, next) == \A i \in gone : i \in Int /\ i < next
Drawable(ns, es, next, gone) ==
    /\ IsSeq(ns) /\ IsSeq(es) /\ IdsUnique(ns)
    /\ next \in Nat \ {0} /\ IdsBelow(gone, next)
    /\ \A n \in ToSet(ns) : NodeFits(n, next) /\ Lies(n, ns)
    /\ \A e \in ToSet(es) : EdgeFits(e, ns, gone)

\* The end of an edge that aims RDI at a database.
LEMMA AimedAt ==
    ASSUME NEW ns, NEW es, IdsUnique(ns), IsSeq(es), NEW rdi, TargetOf(ns, es, rdi) # Root
    PROVE  \E n \in ToSet(ns) : n.id = TargetOf(ns, es, rdi) /\ n.kind = "database" /\ ~n.internal
<1> DEFINE A == Aims(ns, es, rdi)
           k == Kept(es, A)
<1>1. TargetOf(ns, es, rdi) = FirstTarget(k)
  BY TargetOfIs
<1>2. k \in Seq(ToSet(es)) /\ ToSet(k) = ToSet(es) \cap A
  BY KeptElements DEF IsSeq
<1>3. k # <<>> /\ FirstTarget(k) = k[1].target
  BY <1>1 DEF FirstTarget
<1>4. k[1] \in ToSet(k)
  <2>1. Len(k) \in Nat \ {0} /\ DOMAIN k = 1..Len(k)
    BY <1>2, <1>3, EmptySeq, LenProperties
  <2> HIDE DEF k
  <2>2. 1 \in DOMAIN k
    BY <2>1
  <2> QED
    BY <2>2 DEF ToSet
<1>5. k[1] \in A
  BY <1>2, <1>4
<1> QED
  BY <1>1, <1>3, <1>5 DEF Aims

\* The state databases that are wanted: one for an RDI, in a cluster.
LEMMA Desired ==
    ASSUME NEW ns, NEW es, NEW next, NEW gone, Drawable(ns, es, next, gone)
    PROVE  /\ IsFiniteSet(DesiredStates(ns, es))
           /\ \A d \in DesiredStates(ns, es) :
                 /\ d = <<d[1], d[2]>> /\ d[1] \in Int /\ d[1] > 0
                 /\ \E r \in ToSet(ns) : r.id = d[1] /\ r.kind = "rdi" /\ ~r.internal
                 /\ \E p \in ToSet(ns) : p.id = d[2] /\ p.kind = "cluster"
           /\ \A d, e \in DesiredStates(ns, es) : d[1] = e[1] => d = e
<1> DEFINE R == {r \in ToSet(ns) : r.kind = "rdi" /\ TargetOf(ns, es, r.id) # Root}
           f == [r \in R |-> <<r.id, NodeOf(ns, TargetOf(ns, es, r.id)).parent>>]
           D == DesiredStates(ns, es)
<1>0. IsSeq(ns) /\ IsSeq(es) /\ IdsUnique(ns)
  BY DEF Drawable
<1>1. D = {f[r] : r \in R}
  BY DEF DesiredStates
<1>2. IsFiniteSet(D)
  <2>1. IsFiniteSet(ToSet(ns))
    BY <1>0, FiniteToSet DEF IsSeq
  <2>2. IsFiniteSet(R)
    BY <2>1, FS_Subset
  <2> HIDE DEF R, f, D
  <2>3. IsFiniteSet({f[r] : r \in R})
    BY <2>2, FiniteImage
  <2> QED
    BY <1>1, <2>3
<1>3. ASSUME NEW r \in R
      PROVE  /\ r.id \in Int /\ r.id > 0 /\ r.kind = "rdi" /\ ~r.internal
             /\ \E p \in ToSet(ns) : p.id = NodeOf(ns, TargetOf(ns, es, r.id)).parent /\ p.kind = "cluster"
  <2>1. r.kind = "rdi" /\ NodeFits(r, next)
    BY DEF Drawable
  <2>2. r.id \in Int /\ r.id > 0 /\ ~r.internal
    BY <2>1 DEF NodeFits
  <2>3. PICK n \in ToSet(ns) : n.id = TargetOf(ns, es, r.id) /\ n.kind = "database"
    BY <1>0, AimedAt
  <2>4. NodeOf(ns, TargetOf(ns, es, r.id)) = n
    BY <1>0, <2>3, Found
  <2>5. Lies(n, ns)
    BY DEF Drawable
  <2>6. \E p \in ToSet(ns) : p.id = n.parent /\ p.kind = "cluster"
    BY <2>3, <2>5 DEF Lies
  <2> QED
    BY <2>1, <2>2, <2>4, <2>6
<1>4. ASSUME NEW d \in D PROVE \E r \in R : d = <<r.id, NodeOf(ns, TargetOf(ns, es, r.id)).parent>>
  BY <1>1
<1>5. \A r \in R : r \in ToSet(ns)
  OBVIOUS
<1> HIDE DEF D, R
<1>6. ASSUME NEW d \in D
      PROVE  /\ d = <<d[1], d[2]>> /\ d[1] \in Int /\ d[1] > 0
             /\ \E r \in ToSet(ns) : r.id = d[1] /\ r.kind = "rdi" /\ ~r.internal
             /\ \E p \in ToSet(ns) : p.id = d[2] /\ p.kind = "cluster"
  <2>1. PICK r \in R : d = <<r.id, NodeOf(ns, TargetOf(ns, es, r.id)).parent>>
    BY <1>4
  <2>2. d[1] = r.id /\ d[2] = NodeOf(ns, TargetOf(ns, es, r.id)).parent
    BY <2>1
  <2> QED
    BY <1>3, <1>5, <2>1, <2>2
<1>7. ASSUME NEW d \in D, NEW e \in D, d[1] = e[1] PROVE d = e
  <2>1. PICK r \in R : d = <<r.id, NodeOf(ns, TargetOf(ns, es, r.id)).parent>>
    BY <1>4
  <2>2. PICK s \in R : e = <<s.id, NodeOf(ns, TargetOf(ns, es, s.id)).parent>>
    BY <1>4
  <2>3. r.id = s.id
    BY <1>7, <2>1, <2>2
  <2> QED
    BY <2>1, <2>2, <2>3
<1> QED
  BY <1>2, <1>6, <1>7 DEF D

SameAims(ns, es, ms, fs) == \A rdi : Kept(es, Aims(ns, es, rdi)) = Kept(fs, Aims(ms, fs, rdi))

\* It depends on the user's nodes and on the edges that aim RDI.
LEMMA SameDesire ==
    ASSUME NEW ns, NEW es, NEW ms, NEW fs, IsSeq(ns), IsSeq(es), IsSeq(ms), IsSeq(fs),
           IdsUnique(ns), IdsUnique(ms),
           ToSet(ns) \ Internals(ns) = ToSet(ms) \ Internals(ms),
           \A n \in ToSet(ns) \cup ToSet(ms) : n.internal => n.kind # "rdi",
           SameAims(ns, es, ms, fs)
    PROVE  DesiredStates(ms, fs) = DesiredStates(ns, es)
<1>1. ASSUME NEW rdi PROVE TargetOf(ms, fs, rdi) = TargetOf(ns, es, rdi)
  BY TargetOfIs DEF SameAims
<1>2. ASSUME NEW r \in ToSet(ns) \cup ToSet(ms), r.kind = "rdi" PROVE r \in ToSet(ns) /\ r \in ToSet(ms)
  <2>1. ~r.internal
    BY <1>2
  <2> QED
    BY <2>1 DEF Internals
<1>3. ASSUME NEW rdi, TargetOf(ns, es, rdi) # Root
      PROVE  NodeOf(ms, TargetOf(ns, es, rdi)).parent = NodeOf(ns, TargetOf(ns, es, rdi)).parent
  <2>1. PICK n \in ToSet(ns) : n.id = TargetOf(ns, es, rdi) /\ n.kind = "database" /\ ~n.internal
    BY <1>3, AimedAt
  <2>2. n \in ToSet(ms)
    BY <2>1 DEF Internals
  <2> QED
    BY <2>1, <2>2, Found
<1> QED
  BY <1>1, <1>2, <1>3 DEF DesiredStates

-----------------------------------------------------------------------------
(* The effect leaves one, and the state databases that are wanted.         *)

\* The state databases made anew, and their edges.
StateNode(d) == [id |-> StateId(d[1]), kind |-> "database", parent |-> d[2], name |-> "rdi-state",
                 machines |-> <<>>, open |-> FALSE, internal |-> TRUE]
StateEdge(d) == [source |-> d[1], target |-> StateId(d[1]), state |-> TRUE]
StateNodes(q) == [i \in DOMAIN q |-> StateNode(q[i])]
StateLinks(q) == [i \in DOMAIN q |-> StateEdge(q[i])]

\* What the effect makes of a canvas whose state databases are not those it
\* wants: the user's parts, and the state databases anew.
LEMMA RebuiltIs ==
    ASSUME NEW ns, NEW es, IsSeq(ns), IsSeq(es), ~StatesMatch(ns, es)
    PROVE  ReconcileRdi(ns, es) =
               [nodes |-> Kept(ns, ToSet(ns) \ Internals(ns)) \o StateNodes(SetToSeq(DesiredStates(ns, es))),
                edges |-> Kept(es, ToSet(es) \ StateEdges(es)) \o StateLinks(SetToSeq(DesiredStates(ns, es)))]
<1> DEFINE q == SetToSeq(DesiredStates(ns, es))
<1>1. MapSeq(q, LAMBDA d : [Node("database", "rdi-state") EXCEPT !.id = StateId(d[1]), !.parent = d[2], !.internal = TRUE]) = StateNodes(q)
  <2>1. ASSUME NEW d PROVE [Node("database", "rdi-state") EXCEPT !.id = StateId(d[1]), !.parent = d[2], !.internal = TRUE] = StateNode(d)
    <3> DEFINE a == [id |-> Root, kind |-> "database", parent |-> Root, name |-> "rdi-state", machines |-> <<>>, open |-> FALSE, internal |-> FALSE]
               b == StateNode(d)
               c == [a EXCEPT !.id = StateId(d[1]), !.parent = d[2], !.internal = TRUE]
    <3>1. c = [x \in Fields |-> c[x]] /\ b = [x \in Fields |-> b[x]]
      BY DEF StateNode, Fields
    <3>2. \A x \in Fields : c[x] = b[x]
      <4>1. c.id = b.id /\ c.kind = b.kind /\ c.parent = b.parent /\ c.name = b.name /\ c.machines = b.machines
        BY DEF StateNode
      <4>2. c.open = b.open
        BY DEF StateNode
      <4>3. c.internal = b.internal
        BY DEF StateNode
      <4> QED
        BY <4>1, <4>2, <4>3 DEF Fields
    <3> HIDE DEF b, c
    <3>3. c = b
      BY <3>1, <3>2
    <3> QED
      BY <3>3, Zenon DEF Node, b, c
  <2> HIDE DEF q
  <2> QED
    BY <2>1 DEF MapSeq, StateNodes
<1>2. MapSeq(q, LAMBDA d : [Edge(d[1], StateId(d[1])) EXCEPT !.state = TRUE]) = StateLinks(q)
  <2>1. ASSUME NEW d PROVE [Edge(d[1], StateId(d[1])) EXCEPT !.state = TRUE] = StateEdge(d)
    <3> DEFINE a == [source |-> d[1], target |-> StateId(d[1]), state |-> FALSE]
               b == StateEdge(d)
               c == [a EXCEPT !.state = TRUE]
    <3>1. c = [x \in {"source", "target", "state"} |-> c[x]] /\ b = [x \in {"source", "target", "state"} |-> b[x]]
      BY DEF StateEdge
    <3>2. \A x \in {"source", "target", "state"} : c[x] = b[x]
      <4>1. c.source = b.source /\ c.target = b.target
        BY DEF StateEdge
      <4>2. c.state = b.state
        BY DEF StateEdge
      <4> QED
        BY <4>1, <4>2
    <3> HIDE DEF b, c
    <3>3. c = b
      BY <3>1, <3>2
    <3> QED
      BY <3>3, Zenon DEF Edge, b, c
  <2> HIDE DEF q
  <2> QED
    BY <2>1 DEF MapSeq, StateLinks
<1>3. ReconcileRdi(ns, es) =
          [nodes |-> Keep(ns, LAMBDA n : ~n.internal)
                     \o MapSeq(q, LAMBDA d : [Node("database", "rdi-state") EXCEPT !.id = StateId(d[1]), !.parent = d[2], !.internal = TRUE]),
           edges |-> Keep(es, LAMBDA e : ~e.state)
                     \o MapSeq(q, LAMBDA d : [Edge(d[1], StateId(d[1])) EXCEPT !.state = TRUE])]
  BY Zenon DEF ReconcileRdi
<1> QED
  BY <1>1, <1>2, <1>3, OwnNodes, OwnEdges

\* The state databases and their edges, one of each for every one desired.
LEMMA StatesMade ==
    ASSUME NEW D, IsFiniteSet(D), NEW q, q = SetToSeq(D),
           \A d \in D : d = <<d[1], d[2]>> /\ d[1] \in Int /\ d[1] > 0,
           \A d, e \in D : d[1] = e[1] => d = e
    PROVE  /\ StateNodes(q) \in Seq(ToSet(StateNodes(q))) /\ ToSet(StateNodes(q)) = {StateNode(d) : d \in D}
           /\ StateLinks(q) \in Seq(ToSet(StateLinks(q))) /\ ToSet(StateLinks(q)) = {StateEdge(d) : d \in D}
           /\ IdsUnique(StateNodes(q))
           /\ Cardinality({StateEdge(d) : d \in D}) = Cardinality(D)
<1>1. q \in Seq(D) /\ ToSet(q) = D /\ IsInjective(q)
  BY SequenceOfSet
<1> DEFINE f == [d \in D |-> StateNode(d)]
           g == [d \in D |-> StateEdge(d)]
<1>2. \A d \in D : f[d] = StateNode(d) /\ g[d] = StateEdge(d)
  OBVIOUS
<1>3. \A i \in DOMAIN q : q[i] \in D
  BY <1>1, LenProperties, ElementOfSeq
<1> HIDE DEF f, g
<1>4. StateNodes(q) = Mapped(f, q) /\ StateLinks(q) = Mapped(g, q)
  BY <1>2, <1>3 DEF StateNodes, StateLinks, Mapped
<1>5. /\ StateNodes(q) \in Seq(ToSet(StateNodes(q))) /\ ToSet(StateNodes(q)) = {f[d] : d \in D}
      /\ StateLinks(q) \in Seq(ToSet(StateLinks(q))) /\ ToSet(StateLinks(q)) = {g[d] : d \in D}
  <2> DEFINE u == StateNodes(q)
             v == StateLinks(q)
  <2>1. u = Mapped(f, q) /\ v = Mapped(g, q)
    BY <1>4
  <2> HIDE DEF u, v
  <2>2. u \in Seq(ToSet(u)) /\ ToSet(u) = {f[x] : x \in ToSet(q)}
    BY <1>1, <2>1, MappedElements
  <2>3. v \in Seq(ToSet(v)) /\ ToSet(v) = {g[x] : x \in ToSet(q)}
    BY <1>1, <2>1, MappedElements
  <2> QED
    BY <1>1, <2>2, <2>3, Zenon DEF u, v
<1>6. {f[d] : d \in D} = {StateNode(d) : d \in D} /\ {g[d] : d \in D} = {StateEdge(d) : d \in D}
  BY <1>2
<1>7. IdsUnique(StateNodes(q))
  <2> SUFFICES ASSUME NEW i \in DOMAIN q, NEW j \in DOMAIN q, StateNodes(q)[i].id = StateNodes(q)[j].id PROVE i = j
    BY DEF IdsUnique, StateNodes
  <2>1. q[i] \in D /\ q[j] \in D /\ -(q[i][1]) = -(q[j][1])
    BY <1>3 DEF StateNodes, StateNode, StateId
  <2>2. q[i][1] = q[j][1]
    BY <2>1
  <2>3. q[i] = q[j]
    BY <2>1, <2>2
  <2> QED
    BY <1>1, <2>3 DEF IsInjective
<1>8. Cardinality({StateEdge(d) : d \in D}) = Cardinality(D)
  <2> DEFINE E == {StateEdge(d) : d \in D}
             h == [d \in D |-> StateEdge(d)]
  <2>1. \A d \in D : StateEdge(d).source = d[1]
    BY DEF StateEdge
  <2>2. \A d, e \in D : StateEdge(d) = StateEdge(e) => d = e
    BY <2>1
  <2>3. h \in Bijection(D, E)
    BY <2>2 DEF Bijection, Injection, Surjection, IsInjective
  <2>4. ExistsBijection(D, E)
    BY <2>3 DEF ExistsBijection
  <2> QED
    BY <2>4, FS_Bijection
<1> QED
  BY <1>5, <1>6, <1>7, <1>8

\* With the state databases made anew.
NodesWith(ns, D) == Kept(ns, ToSet(ns) \ Internals(ns)) \o StateNodes(SetToSeq(D))
EdgesWith(es, D) == Kept(es, ToSet(es) \ StateEdges(es)) \o StateLinks(SetToSeq(D))

\* What the effect makes of the nodes when it makes the state databases anew.
LEMMA RebuiltNodes ==
    ASSUME NEW ns, NEW es, NEW next, NEW gone, Drawable(ns, es, next, gone),
           NEW D, D = DesiredStates(ns, es), NEW ms, ms = NodesWith(ns, D)
    PROVE  /\ IsSeq(ms) /\ IdsUnique(ms)
           /\ ToSet(ms) = (ToSet(ns) \ Internals(ns)) \cup {StateNode(d) : d \in D}
           /\ Internals(ms) = {StateNode(d) : d \in D}
           /\ ToSet(ns) \ Internals(ns) = ToSet(ms) \ Internals(ms)
           /\ \A n \in ToSet(ms) : NodeFits(n, next) /\ Lies(n, ms)
<1> DEFINE U == ToSet(ns) \ Internals(ns)
           k == Kept(ns, U)
           q == SetToSeq(D)
           N == {StateNode(d) : d \in D}
<1>1. IsSeq(ns) /\ IdsUnique(ns) /\ next \in Nat \ {0} /\ \A n \in ToSet(ns) : NodeFits(n, next) /\ Lies(n, ns)
  BY DEF Drawable
<1>2. /\ IsFiniteSet(D)
      /\ \A d \in D : /\ d = <<d[1], d[2]>> /\ d[1] \in Int /\ d[1] > 0
                      /\ \E p \in ToSet(ns) : p.id = d[2] /\ p.kind = "cluster"
      /\ \A d, e \in D : d[1] = e[1] => d = e
  BY Desired
<1>3. StateNodes(q) \in Seq(ToSet(StateNodes(q))) /\ ToSet(StateNodes(q)) = N /\ IdsUnique(StateNodes(q))
  BY <1>2, StatesMade
<1>4. IsSeq(k) /\ ToSet(k) = U /\ IdsUnique(k)
  BY <1>1, KeptIsSeq
<1>5. \A n \in U : n.id > 0 /\ n.internal = FALSE
  BY <1>1 DEF NodeFits, Internals
<1>6. \A n \in N : /\ n.id \in Int /\ n.id < 0 /\ n.internal = TRUE /\ n.kind = "database"
                   /\ \E p \in ToSet(ns) : p.id = n.parent /\ p.kind = "cluster"
  <2> SUFFICES ASSUME NEW d \in D
               PROVE  /\ StateNode(d).id \in Int /\ StateNode(d).id < 0 /\ StateNode(d).internal = TRUE /\ StateNode(d).kind = "database"
                      /\ \E p \in ToSet(ns) : p.id = StateNode(d).parent /\ p.kind = "cluster"
    OBVIOUS
  <2> QED
    BY <1>2 DEF StateNode, StateId
<1>7. \A n \in N : DOMAIN n = Fields
  BY DEF StateNode, Fields
<1> HIDE DEF U, k, q, N
<1>8. IsSeq(ms) /\ ToSet(ms) = U \cup N /\ IdsUnique(ms)
  <2>1. ms = k \o StateNodes(q)
    BY DEF k, U, q, NodesWith
  <2>2. \A m \in ToSet(k), n \in ToSet(StateNodes(q)) : m.id # n.id
    <3>1. \A m \in U : m.id \in Int
      BY <1>1 DEF U, NodeFits
    <3> QED
      BY <1>3, <1>4, <1>5, <1>6, <3>1
  <2>3. IsSeq(StateNodes(q))
    BY <1>3 DEF IsSeq
  <2>4. IsSeq(ms) /\ ToSet(ms) = ToSet(k) \cup ToSet(StateNodes(q))
    BY <1>4, <2>1, <2>3, ConcatIs
  <2>5. IdsUnique(ms)
    BY <1>3, <1>4, <2>1, <2>2, <2>3, UniqueConcat
  <2> QED
    BY <1>3, <1>4, <2>4, <2>5
<1>9. Internals(ms) = N
  BY <1>5, <1>6, <1>8 DEF Internals
<1>10. U = ToSet(ms) \ Internals(ms)
  BY <1>5, <1>6, <1>8, <1>9
<1>11. ASSUME NEW p \in ToSet(ns), p.kind # "database" PROVE p \in ToSet(ms)
  <2>1. p \in U
    BY <1>1, <1>11 DEF NodeFits, U, Internals
  <2> QED
    BY <1>8, <2>1
<1>12. ASSUME NEW n \in ToSet(ms) PROVE NodeFits(n, next) /\ Lies(n, ms)
  <2>1. CASE n \in U
    <3>1. NodeFits(n, next) /\ Lies(n, ns)
      BY <1>1, <2>1 DEF U
    <3> QED
      BY <1>11, <3>1 DEF Lies
  <2>2. CASE n \in N
    <3>1. NodeFits(n, next)
      <4>1. n.id \in Int \ {Root} /\ n.id < next
        BY <1>1, <1>6, <2>2 DEF Root
      <4>2. n.internal \in BOOLEAN /\ IF n.internal THEN n.kind = "database" ELSE n.id > 0
        BY <1>6, <2>2
      <4>3. n.kind \in Kinds /\ DOMAIN n = Fields
        BY <1>6, <1>7, <2>2 DEF Kinds
      <4> QED
        BY <4>1, <4>2, <4>3 DEF NodeFits
    <3>2. Lies(n, ms)
      BY <1>6, <1>11, <2>2 DEF Lies
    <3> QED
      BY <3>1, <3>2
  <2> QED
    BY <1>8, <2>1, <2>2
<1> QED
  BY <1>8, <1>9, <1>10, <1>12 DEF U, N

\* And of the edges.
LEMMA RebuiltEdges ==
    ASSUME NEW ns, NEW es, NEW next, NEW gone, Drawable(ns, es, next, gone),
           NEW D, D = DesiredStates(ns, es), NEW fs, fs = EdgesWith(es, D)
    PROVE  /\ IsSeq(fs)
           /\ ToSet(fs) = (ToSet(es) \ StateEdges(es)) \cup {StateEdge(d) : d \in D}
           /\ StateEdges(fs) = {StateEdge(d) : d \in D}
           /\ Cardinality(StateEdges(fs)) = Cardinality(D)
           /\ \A A : A \subseteq ToSet(es) \ StateEdges(es) => Kept(fs, A) = Kept(es, A)
<1> DEFINE W == ToSet(es) \ StateEdges(es)
           k == Kept(es, W)
           q == SetToSeq(D)
           N == {StateEdge(d) : d \in D}
<1>1. IsSeq(es) /\ \A e \in ToSet(es) : EdgeFits(e, ns, gone)
  BY DEF Drawable
<1>2. /\ IsFiniteSet(D)
      /\ \A d \in D : d = <<d[1], d[2]>> /\ d[1] \in Int /\ d[1] > 0
      /\ \A d, e \in D : d[1] = e[1] => d = e
  BY Desired
<1>3. StateLinks(q) \in Seq(ToSet(StateLinks(q))) /\ ToSet(StateLinks(q)) = N /\ Cardinality(N) = Cardinality(D)
  BY <1>2, StatesMade
<1>4. IsSeq(k) /\ ToSet(k) = W
  BY <1>1, KeptIsSeq
<1>5. \A e \in W : e.state = FALSE
  BY <1>1 DEF EdgeFits, StateEdges
<1>6. \A e \in N : e.state = TRUE
  BY DEF StateEdge
<1> HIDE DEF W, k, q, N
<1>7. IsSeq(fs) /\ ToSet(fs) = W \cup N
  <2>1. fs = k \o StateLinks(q)
    BY DEF k, W, q, EdgesWith
  <2>2. IsSeq(StateLinks(q))
    BY <1>3 DEF IsSeq
  <2> QED
    BY <1>3, <1>4, <2>1, <2>2, ConcatIs
<1>8. StateEdges(fs) = N
  BY <1>5, <1>6, <1>7 DEF StateEdges
<1>9. ASSUME NEW A, A \subseteq W PROVE Kept(fs, A) = Kept(es, A)
  <2>1. fs = k \o StateLinks(q) /\ IsSeq(StateLinks(q))
    BY <1>3 DEF k, W, q, IsSeq, EdgesWith
  <2>2. Kept(fs, A) = Kept(k, A) \o Kept(StateLinks(q), A)
    <3>1. \A T : Kept(k \o StateLinks(q), T) = Kept(k, T) \o Kept(StateLinks(q), T)
      BY <1>4, <2>1, ConcatIs
    <3> QED
      BY <2>1, <3>1
  <2>3. ToSet(StateLinks(q)) \cap A = {}
    BY <1>3, <1>5, <1>6, <1>9
  <2>4. Kept(StateLinks(q), A) = <<>>
    BY <2>1, <2>3, KeptNone DEF IsSeq
  <2>5. Kept(k, A) = Kept(es, A)
    <3>1. W \cap A \cap ToSet(es) = A \cap ToSet(es)
      BY <1>9 DEF W
    <3> QED
      BY <1>1, <3>1, KeptTwice DEF IsSeq, k
  <2>6. Kept(es, A) \o <<>> = Kept(es, A)
    <3>1. Kept(es, A) \in Seq(ToSet(es))
      BY <1>1, KeptElements DEF IsSeq
    <3> QED
      BY <3>1, ConcatEmptySeq
  <2> QED
    BY <2>2, <2>4, <2>5, <2>6
<1> QED
  BY <1>3, <1>7, <1>8, <1>9 DEF W, N

\* The nodes and edges the effect leaves when it makes the states anew.
LEMMA RebuiltDrawable ==
    ASSUME NEW ns, NEW es, NEW next, NEW gone, Drawable(ns, es, next, gone),
           NEW more, gone \subseteq more, IdsBelow(more, next),
           NEW ms, ms = NodesWith(ns, DesiredStates(ns, es)),
           NEW fs, fs = EdgesWith(es, DesiredStates(ns, es)),
           DroppedFrom(ns, ms) \subseteq more
    PROVE  Drawable(ms, fs, next, more) /\ StatesMatch(ms, fs)
<1> DEFINE D == DesiredStates(ns, es)
           U == ToSet(ns) \ Internals(ns)
           W == ToSet(es) \ StateEdges(es)
<1>0. /\ IsSeq(ns) /\ IsSeq(es) /\ IdsUnique(ns) /\ next \in Nat \ {0}
      /\ \A n \in ToSet(ns) : NodeFits(n, next)
      /\ \A e \in ToSet(es) : EdgeFits(e, ns, gone)
  BY DEF Drawable
<1>1. /\ \A d \in D : /\ d = <<d[1], d[2]>> /\ d[1] \in Int /\ d[1] > 0
                      /\ \E r \in ToSet(ns) : r.id = d[1] /\ ~r.internal
      /\ \A d, e \in D : d[1] = e[1] => d = e
  BY Desired
<1>2. /\ IsSeq(ms) /\ IdsUnique(ms) /\ ToSet(ms) = U \cup {StateNode(d) : d \in D}
      /\ Internals(ms) = {StateNode(d) : d \in D} /\ U = ToSet(ms) \ Internals(ms)
      /\ \A n \in ToSet(ms) : NodeFits(n, next) /\ Lies(n, ms)
  BY RebuiltNodes
<1>3. /\ IsSeq(fs) /\ ToSet(fs) = W \cup {StateEdge(d) : d \in D}
      /\ StateEdges(fs) = {StateEdge(d) : d \in D} /\ Cardinality(StateEdges(fs)) = Cardinality(D)
      /\ \A A : A \subseteq W => Kept(fs, A) = Kept(es, A)
  BY RebuiltEdges
<1>u. \A n \in ToSet(ns) : ~n.internal <=> n \in U
  BY DEF Internals
<1>w. \A e \in W : e \in ToSet(es) /\ ~e.state
  BY DEF StateEdges
<1>v. \A e \in ToSet(es) : ~e.state => e \in W
  BY DEF StateEdges
<1>s. \A d \in D : /\ StateEdge(d).source = d[1] /\ StateEdge(d).target = StateNode(d).id /\ StateEdge(d).state = TRUE
                   /\ StateNode(d).internal = TRUE /\ StateNode(d).id = StateId(d[1]) /\ StateNode(d).parent = d[2]
                   /\ StateNode(d).id < 0
  BY <1>1 DEF StateEdge, StateNode, StateId
<1> HIDE DEF D, U, W
<1>4. ASSUME NEW e \in ToSet(fs) PROVE EdgeFits(e, ms, more)
  <2>1. CASE e \in W
    <3>1. EdgeFits(e, ns, gone) /\ ~e.state
      BY <1>0, <1>w, <2>1
    <3>2. \E n \in ToSet(ms) : n.id = e.source /\ ~n.internal
      BY <1>2, <1>u, <3>1 DEF EdgeFits
    <3>3. e.target \in NodeIds(ms) \cup more
      <4>1. CASE e.target \in gone
        BY <4>1
      <4>2. CASE e.target \in NodeIds(ns)
        <5>1. PICK n \in ToSet(ns) : n.id = e.target
          BY <4>2 DEF NodeIds
        <5>2. CASE n \in U
          BY <1>2, <5>1, <5>2 DEF NodeIds
        <5>3. CASE n \notin U
          <6>1. n \in Internals(ns)
            BY <5>3 DEF U
          <6> QED
            BY <5>1, <6>1 DEF DroppedFrom
        <5> QED
          BY <5>2, <5>3
      <4> QED
        BY <3>1, <4>1, <4>2 DEF EdgeFits
    <3> QED
      BY <3>1, <3>2, <3>3 DEF EdgeFits
  <2>2. CASE e \notin W
    <3>1. PICK d \in D : e = StateEdge(d)
      BY <1>3, <2>2
    <3>2. StateNode(d) \in ToSet(ms)
      BY <1>2
    <3>3. \E n \in ToSet(ms) : n.id = e.source /\ ~n.internal
      <4>1. PICK r \in ToSet(ns) : r.id = d[1] /\ ~r.internal
        BY <1>1
      <4> QED
        BY <1>2, <1>u, <1>s, <3>1, <4>1
    <3>4. e.target \in NodeIds(ms)
      BY <1>s, <3>1, <3>2 DEF NodeIds
    <3>5. ASSUME NEW n \in ToSet(ms), n.id = e.target PROVE n.internal
      <4>1. n = StateNode(d)
        BY <1>2, <1>s, <3>1, <3>2, <3>5, UniqueById
      <4> QED
        BY <1>s, <4>1
    <3> QED
      BY <1>s, <3>1, <3>3, <3>4, <3>5 DEF EdgeFits
  <2> QED
    BY <2>1, <2>2
<1>5. Drawable(ms, fs, next, more)
  BY <1>0, <1>2, <1>3, <1>4 DEF Drawable
<1>6. ASSUME NEW rdi PROVE Kept(es, Aims(ns, es, rdi)) = Kept(fs, Aims(ms, fs, rdi))
  <2> DEFINE A == Aims(ns, es, rdi)
             B == Aims(ms, fs, rdi)
  <2>1. A \subseteq W
    <3> SUFFICES ASSUME NEW e \in A PROVE e \in W
      OBVIOUS
    <3>1. PICK n \in ToSet(ns) : e \in ToSet(es) /\ n.id = e.target /\ ~n.internal
      BY DEF Aims
    <3>2. EdgeFits(e, ns, gone)
      BY <1>0, <3>1
    <3>3. ~e.state
      BY <3>1, <3>2 DEF EdgeFits
    <3> QED
      BY <1>v, <3>1, <3>3
  <2>2. A = B
    <3>1. ASSUME NEW e \in A PROVE e \in B
      <4>1. PICK n \in ToSet(ns) : n.id = e.target /\ n.kind = "database" /\ ~n.internal
        BY DEF Aims
      <4>2. n \in ToSet(ms) /\ e \in ToSet(fs) /\ e.source = rdi
        BY <1>2, <1>3, <1>u, <2>1, <4>1 DEF Aims
      <4> QED
        BY <4>1, <4>2 DEF Aims
    <3>2. ASSUME NEW e \in B PROVE e \in A
      <4>1. PICK n \in ToSet(ms) : n.id = e.target /\ n.kind = "database" /\ ~n.internal
        BY DEF Aims
      <4>2. n \in U /\ e \in ToSet(fs) /\ e.source = rdi
        BY <1>2, <4>1 DEF Aims, Internals
      <4>3. n \in ToSet(ns) /\ n.id > 0
        BY <1>0, <4>1, <4>2 DEF U, NodeFits
      <4>4. e \in W
        <5> SUFFICES ASSUME NEW d \in D, e = StateEdge(d) PROVE FALSE
          BY <1>3, <4>2
        <5>1. n.id = StateNode(d).id /\ StateNode(d).id < 0
          BY <1>s, <4>1
        <5>2. n.id \in Int
          BY <1>0, <4>3 DEF NodeFits
        <5> QED
          BY <4>3, <5>1, <5>2
      <4> QED
        BY <1>w, <4>1, <4>2, <4>3, <4>4 DEF Aims
    <3> QED
      BY <3>1, <3>2
  <2> QED
    BY <1>3, <2>1, <2>2
<1>7. DesiredStates(ms, fs) = D
  <2>1. \A n \in ToSet(ns) \cup ToSet(ms) : n.internal => n.kind # "rdi"
    BY <1>0, <1>2 DEF NodeFits
  <2>2. ToSet(ns) \ Internals(ns) = ToSet(ms) \ Internals(ms)
    BY <1>2 DEF U
  <2> QED
    <3>1. SameAims(ns, es, ms, fs)
      BY <1>6 DEF SameAims
    <3> QED
      BY <1>0, <1>2, <1>3, <2>1, <2>2, <3>1, SameDesire DEF D
<1>8. StatesMatch(ms, fs)
  <2>1. {<<n.id, n.parent>> : n \in Internals(ms)} = {<<StateId(d[1]), d[2]>> : d \in D}
    <3>1. \A n \in Internals(ms) : \E d \in D : n = StateNode(d)
      BY <1>2
    <3>2. \A d \in D : StateNode(d) \in Internals(ms)
      BY <1>2
    <3>3. \A n \in Internals(ms) : \E d \in D : <<n.id, n.parent>> = <<StateId(d[1]), d[2]>>
      BY <1>s, <3>1
    <3>4. \A d \in D : \E n \in Internals(ms) : <<n.id, n.parent>> = <<StateId(d[1]), d[2]>>
      BY <1>s, <3>2
    <3> QED
      BY <3>3, <3>4
  <2>2. {e.source : e \in StateEdges(fs)} = {d[1] : d \in D}
    <3>1. \A e \in StateEdges(fs) : \E d \in D : e.source = d[1]
      BY <1>3, <1>s
    <3>2. \A d \in D : \E e \in StateEdges(fs) : e.source = d[1]
      BY <1>3, <1>s
    <3> QED
      BY <3>1, <3>2
  <2> QED
    BY <1>3, <1>7, <2>1, <2>2 DEF StatesMatch
<1> QED
  BY <1>5, <1>8

\* What the effect leaves is whole, and it would do nothing more.
LEMMA Reconciled ==
    ASSUME NEW ns, NEW es, NEW next, NEW gone, Drawable(ns, es, next, gone),
           NEW more, gone \subseteq more, IdsBelow(more, next),
           NEW r, r = ReconcileRdi(ns, es), DroppedFrom(ns, r.nodes) \subseteq more
    PROVE  Drawable(r.nodes, r.edges, next, more) /\ StatesMatch(r.nodes, r.edges)
<1>1. CASE StatesMatch(ns, es)
  <2>1. r.nodes = ns /\ r.edges = es
    BY <1>1 DEF ReconcileRdi
  <2>2. Drawable(ns, es, next, more)
    BY DEF Drawable, EdgeFits
  <2> QED
    BY <1>1, <2>1, <2>2
<1>2. CASE ~StatesMatch(ns, es)
  <2> DEFINE ms == NodesWith(ns, DesiredStates(ns, es))
             fs == EdgesWith(es, DesiredStates(ns, es))
  <2>1. r = [nodes |-> ms, edges |-> fs]
    BY <1>2, RebuiltIs DEF Drawable, NodesWith, EdgesWith
  <2> HIDE DEF ms, fs
  <2>2. r.nodes = ms /\ r.edges = fs
    BY <2>1
  <2>3. DroppedFrom(ns, ms) \subseteq more
    BY <2>2
  <2>4. Drawable(ms, fs, next, more) /\ StatesMatch(ms, fs)
    BY <2>3, RebuiltDrawable DEF ms, fs
  <2> QED
    BY <2>2, <2>4
<1> QED
  BY <1>1, <1>2

-----------------------------------------------------------------------------
(* Every edit leaves one.                                                  *)

\* A node more at the end.
LEMMA OneMoreNode ==
    ASSUME NEW ns, NEW es, NEW next, NEW gone, Drawable(ns, es, next, gone),
           NEW n, NodeFits(n, next + 1), n.id = next, ~n.internal, Lies(n, ns)
    PROVE  Drawable(Append(ns, n), es, next + 1, gone) /\ Internals(Append(ns, n)) = Internals(ns)
           /\ ToSet(Append(ns, n)) = ToSet(ns) \cup {n}
<1> DEFINE ms == Append(ns, n)
<1>0. /\ IsSeq(ns) /\ IsSeq(es) /\ IdsUnique(ns) /\ next \in Nat \ {0} /\ IdsBelow(gone, next)
      /\ \A m \in ToSet(ns) : NodeFits(m, next) /\ Lies(m, ns)
      /\ \A e \in ToSet(es) : EdgeFits(e, ns, gone)
  BY DEF Drawable
<1>1. ms \in Seq(ToSet(ns) \cup {n}) /\ ToSet(ms) = ToSet(ns) \cup {n}
  <2>1. ns \in Seq(ToSet(ns) \cup {n})
    <3>1. ToSet(ns) \subseteq ToSet(ns) \cup {n}
      OBVIOUS
    <3> QED
      BY <1>0, <3>1, SeqMonotonic DEF IsSeq
  <2>2. n \in ToSet(ns) \cup {n}
    OBVIOUS
  <2> QED
    BY <2>1, <2>2, AppendProperties, ElementsOfAppend
<1>2. \A m \in ToSet(ns) : m.id \in Int /\ m.id < next
  BY <1>0 DEF NodeFits
<1>3. IdsUnique(ms)
  <2>1. IsInjective(ns) /\ \A l, m \in ToSet(ns) : l.id = m.id => l = m
    BY <1>0, UniqueById
  <2>2. \A m \in ToSet(ns) : m.id # n.id
    BY <1>0, <1>2
  <2>3. n \notin ToSet(ns)
    BY <2>2
  <2>4. IsInjective(ms)
    <3>1. ns \in Seq(ToSet(ns) \cup {n}) /\ n \in ToSet(ns) \cup {n}
      <4>1. ToSet(ns) \subseteq ToSet(ns) \cup {n}
        OBVIOUS
      <4> QED
        BY <1>0, <4>1, SeqMonotonic DEF IsSeq
    <3> QED
      BY <2>1, <2>3, <3>1, InjectiveAppend
  <2>5. \A l, m \in ToSet(ms) : l.id = m.id => l = m
    BY <1>1, <2>1, <2>2
  <2> QED
    BY <2>4, <2>5, UniqueById
<1>4. IsSeq(ms)
  BY <1>1 DEF IsSeq
<1> HIDE DEF ms
<1>5. Internals(ms) = Internals(ns)
  BY <1>1 DEF Internals
<1>6. ASSUME NEW m \in ToSet(ms) PROVE NodeFits(m, next + 1) /\ Lies(m, ms)
  <2>1. Lies(m, ns)
    BY <1>0, <1>1
  <2>2. Lies(m, ms)
    BY <1>1, <2>1 DEF Lies
  <2>3. CASE m \in ToSet(ns)
    <3>1. NodeFits(m, next) /\ next \in Nat
      BY <1>0, <2>3
    <3> QED
      BY <2>2, <3>1 DEF NodeFits
  <2>4. CASE m = n
    BY <2>2, <2>4
  <2> QED
    BY <1>1, <2>3, <2>4
<1>7. ASSUME NEW e \in ToSet(es) PROVE EdgeFits(e, ms, gone)
  <2>1. EdgeFits(e, ns, gone)
    BY <1>0
  <2>2. e.target \in NodeIds(ms) \cup gone
    BY <1>1, <2>1 DEF EdgeFits, NodeIds
  <2>3. e.target \in Int /\ e.target < next
    BY <1>0, <1>2, <2>1 DEF EdgeFits, NodeIds, IdsBelow
  <2>4. e.target # n.id
    BY <1>0, <2>3
  <2> QED
    BY <1>1, <2>1, <2>2, <2>4 DEF EdgeFits
<1>8. next + 1 \in Nat \ {0} /\ IdsBelow(gone, next + 1)
  BY <1>0 DEF IdsBelow
<1> QED
  BY <1>0, <1>1, <1>3, <1>4, <1>5, <1>6, <1>7, <1>8 DEF Drawable, ms

\* One edge more that fits.
LEMMA OneMoreEdge ==
    ASSUME NEW ns, NEW es, NEW next, NEW gone, Drawable(ns, es, next, gone),
           NEW e, EdgeFits(e, ns, gone)
    PROVE  Drawable(ns, Append(es, e), next, gone)
<1> DEFINE fs == Append(es, e)
<1>1. IsSeq(es) /\ \A d \in ToSet(es) : EdgeFits(d, ns, gone)
  BY DEF Drawable
<1>2. fs \in Seq(ToSet(es) \cup {e}) /\ ToSet(fs) = ToSet(es) \cup {e}
  <2>1. es \in Seq(ToSet(es) \cup {e})
    <3>1. ToSet(es) \subseteq ToSet(es) \cup {e}
      OBVIOUS
    <3> QED
      BY <1>1, <3>1, SeqMonotonic DEF IsSeq
  <2>2. e \in ToSet(es) \cup {e}
    OBVIOUS
  <2> QED
    BY <2>1, <2>2, AppendProperties, ElementsOfAppend
<1> HIDE DEF fs
<1>3. IsSeq(fs) /\ \A d \in ToSet(fs) : EdgeFits(d, ns, gone)
  BY <1>1, <1>2 DEF IsSeq
<1>4. Drawable(ns, fs, next, gone)
  BY <1>3 DEF Drawable
<1> QED
  BY <1>4 DEF fs

\* Fewer edges.
LEMMA FewerEdges ==
    ASSUME NEW ns, NEW es, NEW next, NEW gone, Drawable(ns, es, next, gone), NEW T
    PROVE  Drawable(ns, Kept(es, T), next, gone)
<1>1. IsSeq(Kept(es, T)) /\ ToSet(Kept(es, T)) = ToSet(es) \cap T
  BY KeptIsSeq DEF Drawable
<1> QED
  BY <1>1 DEF Drawable

\* Nodes whose other fields are changed, or clusters moved to an operator.
Retouched(ms, ns) ==
    /\ ms = [i \in DOMAIN ns |-> ms[i]]
    /\ \A i \in DOMAIN ns :
          /\ ms[i].id = ns[i].id /\ ms[i].kind = ns[i].kind /\ ms[i].internal = ns[i].internal /\ DOMAIN ms[i] = DOMAIN ns[i]
          /\ \/ ms[i].parent = ns[i].parent
             \/ ns[i].kind = "cluster" /\ \E p \in ToSet(ns) : p.id = ms[i].parent /\ p.kind = "operator"

\* Nodes that keep their ids and kinds, and lie where they may.
LEMMA RetouchedDrawable ==
    ASSUME NEW ns, NEW es, NEW next, NEW gone, Drawable(ns, es, next, gone), NEW ms, Retouched(ms, ns)
    PROVE  Drawable(ms, es, next, gone) /\ {n.id : n \in Internals(ms)} \subseteq {n.id : n \in Internals(ns)}
<1>0. /\ IsSeq(ns) /\ IsSeq(es) /\ IdsUnique(ns) /\ next \in Nat \ {0} /\ IdsBelow(gone, next)
      /\ \A m \in ToSet(ns) : NodeFits(m, next) /\ Lies(m, ns)
      /\ \A e \in ToSet(es) : EdgeFits(e, ns, gone)
  BY DEF Drawable
<1>1. Len(ns) \in Nat /\ DOMAIN ns = 1..Len(ns)
  BY <1>0, LenProperties DEF IsSeq
<1>2. DOMAIN ms = DOMAIN ns /\ ms = [i \in 1..Len(ns) |-> ms[i]]
  BY <1>1 DEF Retouched
<1>3. \A i \in DOMAIN ns : /\ ns[i] \in ToSet(ns) /\ ms[i] \in ToSet(ms)
                           /\ ms[i].id = ns[i].id /\ ms[i].kind = ns[i].kind /\ ms[i].internal = ns[i].internal /\ DOMAIN ms[i] = DOMAIN ns[i]
  BY <1>2 DEF Retouched, ToSet
<1>4. IsSeq(ms)
  <2>1. ms \in [1..Len(ns) -> ToSet(ms)]
    BY <1>1, <1>2, <1>3
  <2> QED
    BY <1>1, <2>1, SeqDef DEF IsSeq
<1>5. /\ \A m \in ToSet(ms) : \E i \in DOMAIN ns : m = ms[i]
      /\ \A n \in ToSet(ns) : \E i \in DOMAIN ns : n = ns[i]
  BY <1>2 DEF ToSet
<1>6. /\ \A m \in ToSet(ms) : \E n \in ToSet(ns) : n.id = m.id /\ n.kind = m.kind /\ n.internal = m.internal
      /\ \A n \in ToSet(ns) : \E m \in ToSet(ms) : n.id = m.id /\ n.kind = m.kind /\ n.internal = m.internal
  BY <1>3, <1>5
<1>7. IdsUnique(ms)
  BY <1>0, <1>2, <1>3 DEF IdsUnique
<1>8. ASSUME NEW m \in ToSet(ms) PROVE NodeFits(m, next) /\ Lies(m, ms)
  <2>1. PICK i \in DOMAIN ns : m = ms[i]
    BY <1>5
  <2>2. NodeFits(ns[i], next) /\ Lies(ns[i], ns)
    BY <1>0, <1>3
  <2>3. NodeFits(m, next)
    BY <1>3, <2>1, <2>2 DEF NodeFits
  <2>4. m.kind = ns[i].kind
    BY <1>3, <2>1
  <2>5. \/ m.parent = ns[i].parent
        \/ m.kind = "cluster" /\ \E p \in ToSet(ns) : p.id = m.parent /\ p.kind = "operator"
    BY <2>1, <2>4 DEF Retouched
  <2>6. Lies(m, ns)
    BY <2>2, <2>4, <2>5 DEF Lies
  <2>7. Lies(m, ms)
    BY <1>6, <2>6 DEF Lies
  <2> QED
    BY <2>3, <2>7
<1>9. ASSUME NEW e \in ToSet(es) PROVE EdgeFits(e, ms, gone)
  <2>1. EdgeFits(e, ns, gone)
    BY <1>0
  <2>2. \E n \in ToSet(ms) : n.id = e.source /\ ~n.internal
    BY <1>6, <2>1 DEF EdgeFits
  <2>3. e.target \in NodeIds(ms) \cup gone
    BY <1>6, <2>1 DEF EdgeFits, NodeIds
  <2>4. e.state => \A n \in ToSet(ms) : n.id = e.target => n.internal
    BY <1>6, <2>1 DEF EdgeFits
  <2> QED
    BY <2>1, <2>2, <2>3, <2>4 DEF EdgeFits
<1>10. {n.id : n \in Internals(ms)} \subseteq {n.id : n \in Internals(ns)}
  BY <1>6 DEF Internals
<1> QED
  BY <1>0, <1>4, <1>7, <1>8, <1>9, <1>10 DEF Drawable

\* What is in a node, and what in that.
ChildrenIn(ns, id) == {n.id : n \in {n \in ToSet(ns) : n.parent = id}}
DoomedIn(ns, id) == {id} \cup ChildrenIn(ns, id) \cup {n.id : n \in {n \in ToSet(ns) : n.parent \in ChildrenIn(ns, id)}}

\* Nothing lies three deep, so a node that stays lies in one that stays.
LEMMA DoomedIsClosed ==
    ASSUME NEW ns, NEW es, NEW next, NEW gone, Drawable(ns, es, next, gone),
           NEW top \in ToSet(ns), NEW n \in ToSet(ns), NEW p \in ToSet(ns), p.id = n.parent,
           p.id \in DoomedIn(ns, top.id), \/ n.kind = "database" /\ p.kind = "cluster"
                                          \/ n.kind = "cluster" /\ p.kind = "operator"
    PROVE  n.id \in DoomedIn(ns, top.id)
<1>0. /\ IdsUnique(ns) /\ \A m \in ToSet(ns) : NodeFits(m, next) /\ Lies(m, ns)
  BY DEF Drawable
<1>1. \A m \in ToSet(ns) : m.id # Root
  BY <1>0 DEF NodeFits
<1>2. CASE p.id = top.id
  BY <1>2 DEF DoomedIn, ChildrenIn
<1>3. CASE p.id \in ChildrenIn(ns, top.id)
  BY <1>3 DEF DoomedIn
<1>4. CASE p.id \in {m.id : m \in {m \in ToSet(ns) : m.parent \in ChildrenIn(ns, top.id)}}
  <2>1. PICK m \in ToSet(ns) : m.id = p.id /\ m.parent \in ChildrenIn(ns, top.id)
    BY <1>4
  <2>2. m = p
    BY <1>0, <2>1, UniqueById
  <2>3. PICK q \in ToSet(ns) : q.id = p.parent /\ q.parent = top.id
    BY <2>1, <2>2 DEF ChildrenIn
  <2>4. p.parent # Root /\ q.parent # Root
    BY <1>1, <2>3
  <2>5. Lies(p, ns) /\ Lies(q, ns)
    BY <1>0
  <2>6. p.kind = "cluster"
    BY <2>4, <2>5 DEF Lies
  <2>7. \E r \in ToSet(ns) : r.id = p.parent /\ r.kind = "operator"
    BY <2>4, <2>5, <2>6 DEF Lies
  <2>8. q.kind = "operator"
    BY <1>0, <2>3, <2>7, UniqueById
  <2> QED
    BY <2>4, <2>5, <2>8 DEF Lies
<1> QED
  BY <1>2, <1>3, <1>4 DEF DoomedIn

\* A node goes with what lies in it and the edges at any of them.
LEMMA NodeRemoved ==
    ASSUME NEW ns, NEW es, NEW next, NEW gone, Drawable(ns, es, next, gone), NEW top \in ToSet(ns),
           NEW T, T = {n \in ToSet(ns) : n.id \notin DoomedIn(ns, top.id)},
           NEW U, U = {e \in ToSet(es) : e.source \notin DoomedIn(ns, top.id) /\ e.target \notin DoomedIn(ns, top.id)}
    PROVE  /\ Drawable(Kept(ns, T), Kept(es, U), next, gone)
           /\ {n.id : n \in Internals(Kept(ns, T))} \subseteq {n.id : n \in Internals(ns)}
<1> DEFINE ms == Kept(ns, T)
           fs == Kept(es, U)
<1>0. /\ IsSeq(ns) /\ IsSeq(es) /\ IdsUnique(ns) /\ next \in Nat \ {0} /\ IdsBelow(gone, next)
      /\ \A m \in ToSet(ns) : NodeFits(m, next) /\ Lies(m, ns)
      /\ \A e \in ToSet(es) : EdgeFits(e, ns, gone)
  BY DEF Drawable
<1>1. IsSeq(ms) /\ IdsUnique(ms) /\ ToSet(ms) = T
  BY <1>0, KeptIsSeq
<1>2. IsSeq(fs) /\ ToSet(fs) = U
  BY <1>0, KeptIsSeq
<1> HIDE DEF ms, fs
<1>3. ASSUME NEW n \in T PROVE Lies(n, ms)
  <2>1. n \in ToSet(ns) /\ n.id \notin DoomedIn(ns, top.id)
    OBVIOUS
  <2>2. Lies(n, ns)
    BY <1>0, <2>1
  <2>3. CASE n.kind = "database"
    <3>1. PICK p \in ToSet(ns) : p.id = n.parent /\ p.kind = "cluster"
      BY <2>2, <2>3 DEF Lies
    <3>2. p.id \notin DoomedIn(ns, top.id)
      BY <2>1, <2>3, <3>1, DoomedIsClosed
    <3> QED
      BY <1>1, <2>3, <3>1, <3>2 DEF Lies
  <2>4. CASE n.kind # "database" /\ n.parent # Root
    <3>1. n.kind = "cluster" /\ \E p \in ToSet(ns) : p.id = n.parent /\ p.kind = "operator"
      BY <2>2, <2>4 DEF Lies
    <3>2. PICK p \in ToSet(ns) : p.id = n.parent /\ p.kind = "operator"
      BY <3>1
    <3>3. p.id \notin DoomedIn(ns, top.id)
      BY <2>1, <3>1, <3>2, DoomedIsClosed
    <3> QED
      BY <1>1, <2>4, <3>1, <3>2, <3>3 DEF Lies
  <2>5. CASE n.kind # "database" /\ n.parent = Root
    BY <2>5 DEF Lies
  <2> QED
    BY <2>3, <2>4, <2>5
<1>4. ASSUME NEW e \in U PROVE EdgeFits(e, ms, gone)
  <2>1. EdgeFits(e, ns, gone) /\ e.source \notin DoomedIn(ns, top.id) /\ e.target \notin DoomedIn(ns, top.id)
    BY <1>0
  <2>2. \E n \in ToSet(ms) : n.id = e.source /\ ~n.internal
    BY <1>1, <2>1 DEF EdgeFits
  <2>3. e.target \in NodeIds(ms) \cup gone
    BY <1>1, <2>1 DEF EdgeFits, NodeIds
  <2> QED
    BY <1>1, <2>1, <2>2, <2>3 DEF EdgeFits
<1>5. Drawable(ms, fs, next, gone)
  BY <1>0, <1>1, <1>2, <1>3, <1>4 DEF Drawable
<1>6. {n.id : n \in Internals(ms)} \subseteq {n.id : n \in Internals(ns)}
  BY <1>1 DEF Internals
<1> QED
  BY <1>5, <1>6 DEF ms, fs

\* A change of the canvas, with the effect.
LEMMA Redrawn ==
    ASSUME Drawable(nodes, edges, nextId, dropped), NEW ns, NEW es, NEW next, next = nextId', nextId <= next,
           Drawable(ns, es, next, dropped), {n.id : n \in Internals(ns)} \subseteq {n.id : n \in Internals(nodes)},
           Redraw(ns, es)
    PROVE  Drawable(nodes', edges', nextId', dropped') /\ StatesMatch(nodes', edges')
<1>1. PICK r : r = ReconcileRdi(ns, es)
  OBVIOUS
<1>2. PICK more : more = dropped \cup DroppedFrom(nodes, r.nodes)
  OBVIOUS
<1>3. nodes' = r.nodes /\ edges' = r.edges /\ dropped' = more
  BY <1>1, <1>2 DEF Redraw
<1>4. dropped \subseteq more /\ DroppedFrom(ns, r.nodes) \subseteq more
  BY <1>2 DEF DroppedFrom
<1>5. IdsBelow(more, next)
  <2>1. IdsBelow(dropped, next) /\ next \in Nat
    BY DEF Drawable
  <2>2. \A n \in ToSet(nodes) : NodeFits(n, nextId) /\ nextId \in Nat
    BY DEF Drawable
  <2>3. \A n \in Internals(nodes) : n.id \in Int /\ n.id < next
    BY <2>1, <2>2 DEF NodeFits, Internals
  <2> QED
    BY <1>2, <2>1, <2>3 DEF IdsBelow, DroppedFrom
<1>6. Drawable(r.nodes, r.edges, next, more) /\ StatesMatch(r.nodes, r.edges)
  BY <1>1, <1>4, <1>5, Reconciled
<1> QED
  BY <1>3, <1>6

Whole == Drawable(nodes, edges, nextId, dropped) /\ StatesMatch(nodes, edges)

\* A part dropped on the canvas.
LEMMA OnDropWhole ==
    ASSUME Whole, NEW kind \in Kinds, NEW parent, NEW front, OnDrop(kind, parent, front)
    PROVE  Whole'
<1>0. Drawable(nodes, edges, nextId, dropped)
  BY DEF Whole
<1>1. IsSeq(nodes) /\ IdsUnique(nodes) /\ nextId \in Nat \ {0}
  BY <1>0 DEF Drawable
<1> DEFINE fresh == [Node(kind, Unnamed) EXCEPT !.id = nextId, !.parent = parent,
                          !.machines = IF kind = "vms" THEN <<CHOOSE m \in Machines : TRUE>> ELSE <<>>]
<1>2. /\ fresh.id = nextId /\ fresh.kind = kind /\ fresh.parent = parent /\ fresh.internal = FALSE
      /\ DOMAIN fresh = Fields
  BY DEF Node, Fields
<1>3. PICK n : n = fresh
  <2> HIDE DEF fresh
  <2> QED
    OBVIOUS
<1>4. Redraw(Append(nodes, n), IF front = Root THEN edges ELSE Append(edges, Edge(nextId, front))) /\ nextId' = nextId + 1
  BY <1>3 DEF OnDrop
<1>5. n.id = nextId /\ n.kind = kind /\ n.parent = parent /\ n.internal = FALSE /\ DOMAIN n = Fields
  BY <1>2, <1>3
<1> HIDE DEF fresh
<1>6. Lies(n, nodes)
  <2>1. parent \in HostsFor(kind)
    BY DEF OnDrop
  <2>2. \A k, id : id \in NodeIds(OfKind(nodes, k)) => \E p \in ToSet(nodes) : p.id = id /\ p.kind = k
    BY <1>1, KindElements DEF NodeIds
  <2>3. CASE kind = "database"
    <3>1. parent \in NodeIds(OfKind(nodes, "cluster"))
      BY <2>1, <2>3 DEF HostsFor
    <3> QED
      BY <1>5, <2>2, <2>3, <3>1 DEF Lies
  <2>4. CASE kind = "cluster" /\ mode = "gke"
    <3>1. parent \in NodeIds(OfKind(nodes, "operator"))
      BY <2>1, <2>4 DEF HostsFor
    <3> QED
      BY <1>5, <2>2, <2>4, <3>1 DEF Lies
  <2>5. CASE kind # "database" /\ ~(kind = "cluster" /\ mode = "gke")
    <3>1. parent = Root
      BY <2>1, <2>5 DEF HostsFor
    <3> QED
      BY <1>5, <2>5, <3>1 DEF Lies
  <2> QED
    BY <2>3, <2>4, <2>5
<1>7. NodeFits(n, nextId + 1)
  <2>1. n.id \in Int \ {Root} /\ n.id < nextId + 1 /\ n.id > 0
    BY <1>1, <1>5 DEF Root
  <2>2. DOMAIN n = Fields /\ n.kind \in Kinds /\ n.internal \in BOOLEAN /\ ~n.internal
    BY <1>5
  <2> QED
    BY <2>1, <2>2 DEF NodeFits
<1>8. PICK next : next = nextId
  OBVIOUS
<1>9. PICK ms : ms = Append(nodes, n)
  OBVIOUS
<1>10. Drawable(ms, edges, next + 1, dropped) /\ Internals(ms) = Internals(nodes) /\ ToSet(ms) = ToSet(nodes) \cup {n}
  BY <1>0, <1>5, <1>6, <1>7, <1>8, <1>9, OneMoreNode
<1>11. CASE front = Root
  <2>1. Redraw(ms, edges)
    BY <1>4, <1>9, <1>11
  <2>2. next + 1 = nextId' /\ nextId <= next + 1
    BY <1>1, <1>4, <1>8
  <2>3. PICK es : es = edges
    OBVIOUS
  <2> QED
    BY <1>0, <1>10, <2>1, <2>2, <2>3, Redrawn DEF Whole
<1>12. CASE front # Root
  <2>1. PICK es : es = Append(edges, Edge(nextId, front))
    OBVIOUS
  <2>2. Redraw(ms, es)
    BY <1>4, <1>9, <1>12, <2>1
  <2>3. next + 1 = nextId' /\ nextId <= next + 1
    BY <1>1, <1>4, <1>8
  <2>4. front \in NodeIds(nodes)
    <3>1. KindOf(nodes, front) \in Hosts
      BY <1>12 DEF OnDrop
    <3> QED
      BY <1>1, <3>1, Found DEF Hosts
  <2>5. PICK e : e = Edge(nextId, front)
    OBVIOUS
  <2>6. EdgeFits(e, ms, dropped)
    <3>1. e.source = nextId /\ e.target = front /\ e.state = FALSE
      BY <2>5 DEF Edge
    <3>2. e.target \in NodeIds(ms)
      BY <1>10, <2>4, <3>1 DEF NodeIds
    <3>3. n \in ToSet(ms) /\ n.id = e.source /\ ~n.internal
      BY <1>5, <1>10, <3>1
    <3> QED
      BY <3>1, <3>2, <3>3 DEF EdgeFits
  <2>7. Drawable(ms, es, next + 1, dropped)
    BY <1>10, <2>1, <2>5, <2>6, OneMoreEdge
  <2> QED
    BY <1>0, <1>10, <2>2, <2>3, <2>7, Redrawn DEF Whole
<1> QED
  BY <1>11, <1>12

\* An edge drawn.
LEMMA OnConnectWhole ==
    ASSUME Whole, NEW a \in NodeIds(nodes), NEW b \in NodeIds(nodes), OnConnect(a, b)
    PROVE  Whole'
<1>0. Drawable(nodes, edges, nextId, dropped)
  BY DEF Whole
<1>1. IsSeq(nodes) /\ IdsUnique(nodes) /\ nextId \in Nat \ {0} /\ \A n \in ToSet(nodes) : NodeFits(n, nextId)
  BY <1>0 DEF Drawable
<1>2. PICK o : o = OrientConnection(a, b)
  OBVIOUS
<1>3. o # <<>> /\ Redraw(nodes, Append(edges, Edge(o[1], o[2]))) /\ nextId' = nextId
  BY <1>2 DEF OnConnect
<1>4. /\ o \in {<<a, b>>, <<b, a>>}
      /\ KindOf(nodes, o[1]) \in {"rdi", "application", "vms", "loadbalancer"}
  <2> DEFINE ka == KindOf(nodes, a)
             kb == KindOf(nodes, b)
             Allowed(k) == k \in {"rdi", "application", "vms", "loadbalancer"}
             Balance(lb, host) == IF FrontingTarget(nodes, edges, lb) = Root THEN <<lb, host>>
                                  ELSE IF FrontingTarget(nodes, edges, lb) = host THEN <<>> ELSE <<host, lb>>
  <2>1. ka \in Hosts => Allowed(ka)
    BY DEF Hosts
  <2>2. kb \in Hosts => Allowed(kb)
    BY DEF Hosts
  <2>3. \/ o = <<a, b>> /\ Allowed(ka)
        \/ o = <<b, a>> /\ Allowed(kb)
    <3>2. CASE ka = "rdi" \/ kb = "rdi"
      <4>1. (ka = "rdi" /\ kb = "database" /\ o = <<a, b>>) \/ (kb = "rdi" /\ ka = "database" /\ o = <<b, a>>)
        BY <1>2, <1>3, <3>2 DEF OrientConnection, ProvidersOnly, Hosts
      <4> QED
        BY <4>1
    <3>3. CASE ka # "rdi" /\ kb # "rdi"
      <4>1. CASE ka \in ProvidersOnly /\ kb \in Hosts
        <5>1. o = <<b, a>>
          BY <1>2, <3>3, <4>1 DEF OrientConnection, ProvidersOnly, Hosts
        <5> QED
          BY <2>2, <4>1, <5>1
      <4>2. CASE kb \in ProvidersOnly /\ ka \in Hosts
        <5>1. o = <<a, b>>
          BY <1>2, <3>3, <4>2 DEF OrientConnection, ProvidersOnly, Hosts
        <5> QED
          BY <2>1, <4>2, <5>1
      <4>3. CASE ka = "loadbalancer" /\ kb \in Hosts
        <5>1. o = Balance(a, b)
          BY <1>2, <3>3, <4>3 DEF OrientConnection, ProvidersOnly, Hosts
        <5> QED
          BY <1>3, <2>2, <4>3, <5>1
      <4>4. CASE kb = "loadbalancer" /\ ka \in Hosts
        <5>1. o = Balance(b, a)
          BY <1>2, <3>3, <4>4 DEF OrientConnection, ProvidersOnly, Hosts
        <5> QED
          BY <1>3, <2>1, <4>4, <5>1
      <4>5. CASE ka \in Hosts /\ kb \in Hosts /\ a # b
        <5>1. o = <<a, b>>
          BY <1>2, <3>3, <4>5 DEF OrientConnection, ProvidersOnly, Hosts
        <5> QED
          BY <2>1, <4>5, <5>1
      <4>6. CASE /\ ~(ka \in ProvidersOnly /\ kb \in Hosts) /\ ~(kb \in ProvidersOnly /\ ka \in Hosts)
                 /\ ~(ka = "loadbalancer" /\ kb \in Hosts) /\ ~(kb = "loadbalancer" /\ ka \in Hosts)
                 /\ ~(ka \in Hosts /\ kb \in Hosts /\ a # b)
        <5>1. o = <<>>
          BY <1>2, <3>3, <4>6 DEF OrientConnection
        <5> QED
          BY <1>3, <5>1
      <4> QED
        BY <4>1, <4>2, <4>3, <4>4, <4>5, <4>6
    <3> QED
      BY <3>2, <3>3
  <2> QED
    BY <2>3
<1>5. PICK e : e = Edge(o[1], o[2])
  OBVIOUS
<1>6. e.source = o[1] /\ e.target = o[2] /\ e.state = FALSE
  BY <1>5 DEF Edge
<1>7. o[1] \in NodeIds(nodes) /\ o[2] \in NodeIds(nodes)
  BY <1>4
<1>8. EdgeFits(e, nodes, dropped)
  <2>1. PICK n \in ToSet(nodes) : n.id = o[1]
    BY <1>7 DEF NodeIds
  <2>2. n.kind # "database"
    BY <1>1, <1>4, <2>1, Found
  <2>3. ~n.internal
    BY <1>1, <2>2 DEF NodeFits
  <2> QED
    BY <1>6, <1>7, <2>1, <2>3 DEF EdgeFits
<1>9. PICK next : next = nextId
  OBVIOUS
<1>10. PICK ms : ms = nodes
  OBVIOUS
<1>11. PICK es : es = Append(edges, e)
  OBVIOUS
<1>12. Drawable(ms, es, next, dropped)
  BY <1>0, <1>8, <1>9, <1>10, <1>11, OneMoreEdge
<1>13. Redraw(ms, es)
  BY <1>3, <1>5, <1>10, <1>11
<1>14. next = nextId' /\ nextId <= next
  BY <1>1, <1>3, <1>9
<1> QED
  BY <1>0, <1>10, <1>12, <1>13, <1>14, Redrawn DEF Whole

\* An edge removed.
LEMMA DeleteEdgeWhole ==
    ASSUME Whole, NEW e, DeleteEdge(e)
    PROVE  Whole'
<1>0. Drawable(nodes, edges, nextId, dropped)
  BY DEF Whole
<1>1. IsSeq(edges) /\ nextId \in Nat
  BY <1>0 DEF Drawable
<1>2. PICK es : es = Kept(edges, ToSet(edges) \ {e})
  OBVIOUS
<1>3. Keep(edges, LAMBDA d : d # e) = es
  BY <1>1, <1>2, OtherEdges
<1>4. PICK ms : ms = nodes
  OBVIOUS
<1>5. Redraw(nodes, Keep(edges, LAMBDA d : d # e)) /\ nextId' = nextId
  BY Zenon DEF DeleteEdge
<1>6. Redraw(ms, es)
  BY <1>3, <1>4, <1>5
<1>7. PICK next : next = nextId
  OBVIOUS
<1>8. Drawable(ms, es, next, dropped)
  BY <1>0, <1>2, <1>4, <1>7, FewerEdges
<1>9. next = nextId' /\ nextId <= next
  BY <1>1, <1>5, <1>7
<1> QED
  BY <1>0, <1>4, <1>6, <1>8, <1>9, Redrawn DEF Whole

\* Nodes that are changed in place.
LEMMA RetouchedWhole ==
    ASSUME Whole, NEW ms, Retouched(ms, nodes), Redraw(ms, edges), nextId' = nextId
    PROVE  Whole'
<1>0. Drawable(nodes, edges, nextId, dropped)
  BY DEF Whole
<1>1. nextId \in Nat
  BY <1>0 DEF Drawable
<1>2. PICK next : next = nextId
  OBVIOUS
<1>3. PICK es : es = edges
  OBVIOUS
<1>4. Drawable(ms, es, next, dropped) /\ {n.id : n \in Internals(ms)} \subseteq {n.id : n \in Internals(nodes)}
  BY <1>0, <1>2, <1>3, RetouchedDrawable
<1>5. next = nextId' /\ nextId <= next /\ Redraw(ms, es)
  BY <1>1, <1>2, <1>3
<1> QED
  BY <1>0, <1>4, <1>5, Redrawn DEF Whole

\* A cluster dragged into another operator.
LEMMA OnNodeDragStopWhole ==
    ASSUME Whole, NEW c, NEW o, OnNodeDragStop(c, o)
    PROVE  Whole'
<1>0. Drawable(nodes, edges, nextId, dropped)
  BY DEF Whole
<1>1. IdsUnique(nodes) /\ \A n \in ToSet(nodes) : NodeFits(n, nextId)
  BY <1>0 DEF Drawable
<1> DEFINE moved == MapSeq(nodes, LAMBDA n : IF n.id = c THEN [n EXCEPT !.parent = o] ELSE n)
<1>2. Redraw(moved, edges) /\ nextId' = nextId /\ KindOf(nodes, c) = "cluster" /\ KindOf(nodes, o) = "operator"
  BY Zenon DEF OnNodeDragStop
<1>3. moved = [i \in DOMAIN nodes |-> IF nodes[i].id = c THEN [nodes[i] EXCEPT !.parent = o] ELSE nodes[i]]
  BY DEF MapSeq
<1>4. \E p \in ToSet(nodes) : p.id = o /\ p.kind = "operator"
  <2>1. o \in NodeIds(nodes)
    BY <1>1, <1>2, Found
  <2>2. PICK p \in ToSet(nodes) : p.id = o
    BY <2>1 DEF NodeIds
  <2> QED
    BY <1>1, <1>2, <2>2, Found
<1> HIDE DEF moved
<1>5. Retouched(moved, nodes)
  <2>1. moved = [i \in DOMAIN nodes |-> moved[i]]
    BY <1>3
  <2>2. ASSUME NEW i \in DOMAIN nodes
        PROVE  /\ moved[i].id = nodes[i].id /\ moved[i].kind = nodes[i].kind /\ moved[i].internal = nodes[i].internal
               /\ DOMAIN moved[i] = DOMAIN nodes[i]
               /\ \/ moved[i].parent = nodes[i].parent
                  \/ nodes[i].kind = "cluster" /\ moved[i].parent = o
    <3>0. nodes[i] \in ToSet(nodes)
      BY DEF ToSet
    <3>1. DOMAIN nodes[i] = Fields /\ KindOf(nodes, nodes[i].id) = nodes[i].kind
      BY <1>1, <3>0, Found DEF NodeFits
    <3>2. CASE nodes[i].id = c
      <4>1. moved[i] = [nodes[i] EXCEPT !.parent = o]
        BY <1>3, <3>2
      <4>2. "parent" \in DOMAIN nodes[i]
        BY <3>1 DEF Fields
      <4>3. /\ moved[i].id = nodes[i].id /\ moved[i].kind = nodes[i].kind /\ moved[i].internal = nodes[i].internal
            /\ DOMAIN moved[i] = DOMAIN nodes[i] /\ moved[i].parent = o
        BY <3>1, <4>1, <4>2 DEF Fields
      <4>4. nodes[i].kind = "cluster"
        BY <1>2, <3>1, <3>2
      <4> QED
        BY <4>3, <4>4
    <3>3. CASE nodes[i].id # c
      <4>1. moved[i] = nodes[i]
        BY <1>3, <3>3
      <4> QED
        BY <4>1
    <3> QED
      BY <3>2, <3>3
  <2> QED
    BY <1>4, <2>1, <2>2 DEF Retouched
<1>6. PICK ms : ms = moved
  OBVIOUS
<1> QED
  BY <1>2, <1>5, <1>6, RetouchedWhole

\* A dialog saved: it changes no id, no kind and no place.
LEMMA SaveDialogWhole ==
    ASSUME Whole, NEW id, NEW kind, NEW data, DOMAIN data \cap {"id", "kind", "parent", "internal"} = {}, SaveDialog(id, kind, data)
    PROVE  Whole'
<1>0. Drawable(nodes, edges, nextId, dropped)
  BY DEF Whole
<1>1. \A n \in ToSet(nodes) : NodeFits(n, nextId)
  BY <1>0 DEF Drawable
<1> DEFINE saved == MapSeq(nodes, LAMBDA n : IF n.id = id THEN With(n, data) ELSE n)
<1>2. Redraw(saved, edges) /\ nextId' = nextId
  BY Zenon DEF SaveDialog
<1>3. saved = [i \in DOMAIN nodes |-> IF nodes[i].id = id THEN With(nodes[i], data) ELSE nodes[i]]
  BY DEF MapSeq
<1> HIDE DEF saved
<1>4. Retouched(saved, nodes)
  <2>1. saved = [i \in DOMAIN nodes |-> saved[i]]
    BY <1>3
  <2>2. ASSUME NEW i \in DOMAIN nodes
        PROVE  /\ saved[i].id = nodes[i].id /\ saved[i].kind = nodes[i].kind /\ saved[i].internal = nodes[i].internal
               /\ DOMAIN saved[i] = DOMAIN nodes[i] /\ saved[i].parent = nodes[i].parent
    <3>0. nodes[i] \in ToSet(nodes)
      BY DEF ToSet
    <3>1. DOMAIN nodes[i] = Fields
      BY <1>1, <3>0 DEF NodeFits
    <3>2. CASE nodes[i].id = id
      <4>1. saved[i] = With(nodes[i], data)
        BY <1>3, <3>2
      <4>2. {"id", "kind", "parent", "internal"} \subseteq DOMAIN nodes[i]
        BY <3>1 DEF Fields
      <4>3. DOMAIN saved[i] = DOMAIN nodes[i] /\ \A f \in DOMAIN nodes[i] : f \notin DOMAIN data => saved[i][f] = nodes[i][f]
        BY <4>1 DEF With
      <4> QED
        BY <4>2, <4>3
    <3>3. CASE nodes[i].id # id
      <4>1. saved[i] = nodes[i]
        BY <1>3, <3>3
      <4> QED
        BY <4>1
    <3> QED
      BY <3>2, <3>3
  <2> QED
    BY <2>1, <2>2 DEF Retouched
<1>5. PICK ms : ms = saved
  OBVIOUS
<1> QED
  BY <1>2, <1>4, <1>5, RetouchedWhole

\* A part removed, with all that lies in it.
LEMMA RemoveNodeWhole ==
    ASSUME Whole, NEW top \in ToSet(nodes), RemoveNode(top.id)
    PROVE  Whole'
<1>0. Drawable(nodes, edges, nextId, dropped)
  BY DEF Whole
<1>1. IsSeq(nodes) /\ IsSeq(edges) /\ nextId \in Nat
  BY <1>0 DEF Drawable
<1>2. PICK D : D = DoomedIn(nodes, top.id)
  OBVIOUS
<1>3. Doomed(top.id) = D
  BY <1>2, Zenon DEF Doomed, DoomedIn, ChildrenIn
<1>4. Redraw(Keep(nodes, LAMBDA n : n.id \notin Doomed(top.id)), Keep(edges, LAMBDA e : {e.source, e.target} \cap Doomed(top.id) = {}))
      /\ nextId' = nextId
  BY Zenon DEF RemoveNode
<1>5. Redraw(Keep(nodes, LAMBDA n : n.id \notin D), Keep(edges, LAMBDA e : {e.source, e.target} \cap D = {}))
  BY <1>3, <1>4
<1>6. PICK T : T = {n \in ToSet(nodes) : n.id \notin D}
  OBVIOUS
<1>7. PICK U : U = {e \in ToSet(edges) : e.source \notin D /\ e.target \notin D}
  OBVIOUS
<1>8. PICK ms : ms = Kept(nodes, T)
  OBVIOUS
<1>9. PICK es : es = Kept(edges, U)
  OBVIOUS
<1>10. Redraw(ms, es)
  <2>1. Keep(nodes, LAMBDA n : n.id \notin D) = ms
    BY <1>1, <1>6, <1>8, StayingNodes
  <2>2. Keep(edges, LAMBDA e : {e.source, e.target} \cap D = {}) = es
    BY <1>1, <1>7, <1>9, StayingEdges
  <2> QED
    BY <1>5, <2>1, <2>2
<1>11. PICK next : next = nextId
  OBVIOUS
<1>12. Drawable(ms, es, next, dropped) /\ {n.id : n \in Internals(ms)} \subseteq {n.id : n \in Internals(nodes)}
  BY <1>0, <1>2, <1>6, <1>7, <1>8, <1>9, <1>11, NodeRemoved
<1>13. next = nextId' /\ nextId <= next
  BY <1>1, <1>4, <1>11
<1> QED
  BY <1>0, <1>10, <1>12, <1>13, Redrawn DEF Whole

-----------------------------------------------------------------------------
(* The nodes of a configuration.                                           *)

\* What the proofs need of a configuration: its lists are lists, its sets of
\* wires finite.
ConfigFits(c) ==
    /\ IsSeq(c.operators) /\ IsSeq(c.clusters) /\ IsSeq(c.storage) /\ IsSeq(c.apps) /\ IsSeq(c.lbs) /\ IsSeq(c.rdi)
    /\ \A k \in ToSet(c.clusters) : IsSeq(k.databases) /\ \A b \in ToSet(k.databases) : b.internal \in BOOLEAN
    /\ \A a \in ToSet(c.apps) : IsFiniteSet(a.wires)
    /\ IsFiniteSet(c.vmsWires)
Shaped(n) == DOMAIN n = Fields /\ n.kind \in Kinds /\ n.internal \in BOOLEAN /\ (n.internal => n.kind = "database")

\* A node of the user's that lies in no other.
Topmost(n, kind) == Shaped(n) /\ n.kind = kind /\ ~n.internal /\ n.parent = Root
TopmostAll(s, kind) == IsSeq(s) /\ \A n \in ToSet(s) : Topmost(n, kind)

\* A new node lies on the canvas itself,
LEMMA NodeIsTopmost == ASSUME NEW kind \in Kinds, NEW name PROVE Topmost(Node(kind, name), kind)
BY DEF Node, Topmost, Shaped, Fields

\* and so does a list of them.
LEMMA MapOfTopmost ==
    ASSUME NEW s, IsSeq(s), NEW kind \in Kinds, NEW t, DOMAIN t = DOMAIN s, t = [i \in DOMAIN t |-> t[i]],
           \A i \in DOMAIN s : \E name : t[i] = Node(kind, name)
    PROVE  TopmostAll(t, kind) /\ Len(t) = Len(s)
<1>1. IsSeq(t) /\ Len(t) = Len(s)
  BY SeqOfPlaces
<1>2. \A n \in ToSet(t) : \E name : n = Node(kind, name)
  BY DEF ToSet
<1> QED
  BY <1>1, <1>2, NodeIsTopmost DEF TopmostAll

\* The operators drawn from a configuration.
LEMMA OperatorsTopmost ==
    ASSUME NEW c, ConfigFits(c), NEW m
    PROVE  TopmostAll(OperatorNodes(c, m), "operator")
<1> DEFINE names == IF c.operators = <<>> THEN <<"operator">> ELSE c.operators
           t == [i \in DOMAIN names |-> Node("operator", names[i])]
<1>1. IsSeq(names)
  BY OneElement DEF ConfigFits
<1> HIDE DEF names
<1>2. TopmostAll(t, "operator")
  <2>1. DOMAIN t = DOMAIN names /\ t = [i \in DOMAIN t |-> t[i]] /\ \A i \in DOMAIN names : t[i] = Node("operator", names[i])
    OBVIOUS
  <2>2. "operator" \in Kinds
    BY DEF Kinds
  <2> HIDE DEF t
  <2> QED
    BY <1>1, <2>1, <2>2, MapOfTopmost
<1>3. OperatorNodes(c, m) = IF m = "vm" \/ c.clusters = <<>> THEN <<>> ELSE t
  BY DEF OperatorNodes, MapSeq, names
<1>4. TopmostAll(<<>>, "operator")
  BY NoPlaces DEF TopmostAll
<1> QED
  BY <1>2, <1>3, <1>4

\* The operator a cluster lies in, by its place.
OperatorPlace(ops, name) ==
    LET named == {i \in DOMAIN ops : ops[i].name = name}
    IN  IF ops = <<>> THEN Root ELSE IF named = {} THEN 1 ELSE Max(named)

\* A cluster lies in an operator that was drawn, or on the canvas.
LEMMA OperatorPlaceIs ==
    ASSUME NEW ops, IsSeq(ops), NEW name
    PROVE  OperatorPlace(ops, name) = Root \/ OperatorPlace(ops, name) \in DOMAIN ops
<1> DEFINE named == {i \in DOMAIN ops : ops[i].name = name}
<1>1. Len(ops) \in Nat /\ DOMAIN ops = 1..Len(ops) /\ (ops # <<>> => 1 \in DOMAIN ops)
  BY PlacesOf
<1>2. named # {} => Max(named) \in named
  <2>1. named \subseteq Nat /\ \A i \in named : i <= Len(ops)
    BY <1>1
  <2> HIDE DEF named
  <2> QED
    BY <1>1, <2>1, GreatestIs
<1>3. named \subseteq DOMAIN ops
  OBVIOUS
<1>4. OperatorPlace(ops, name) = IF ops = <<>> THEN Root ELSE IF named = {} THEN 1 ELSE Max(named)
  BY DEF OperatorPlace
<1> HIDE DEF named
<1> QED
  BY <1>1, <1>2, <1>3, <1>4

\* The nodes of a cluster, at a place.
ClusterNode(k, ops) == [Node("cluster", k.name) EXCEPT !.parent = OperatorPlace(ops, k.operator)]
DatabaseNode(b, place) == [Node("database", b.name) EXCEPT !.parent = place, !.internal = b.internal]
DatabaseNodes(k, place) == [i \in DOMAIN k.databases |-> DatabaseNode(k.databases[i], place)]
Piece(k, ops, place) == <<ClusterNode(k, ops)>> \o DatabaseNodes(k, place)

\* One cluster and its databases: the databases lie in it.
LEMMA PieceIs ==
    ASSUME NEW k, IsSeq(k.databases), \A b \in ToSet(k.databases) : b.internal \in BOOLEAN,
           NEW ops, IsSeq(ops), NEW place
    PROVE  /\ IsSeq(Piece(k, ops, place)) /\ Len(Piece(k, ops, place)) = 1 + Len(k.databases)
           /\ Piece(k, ops, place)[1].kind = "cluster"
           /\ \A n \in ToSet(Piece(k, ops, place)) :
                 /\ Shaped(n)
                 /\ \/ n.kind = "cluster" /\ (n.parent = Root \/ n.parent \in DOMAIN ops)
                    \/ n.kind = "database" /\ n.parent = place
<1> DEFINE t == DatabaseNodes(k, place)
           h == ClusterNode(k, ops)
<1>1. IsSeq(t) /\ Len(t) = Len(k.databases)
  <2>1. DOMAIN t = DOMAIN k.databases /\ t = [i \in DOMAIN t |-> t[i]]
    BY DEF DatabaseNodes
  <2> HIDE DEF t
  <2> QED
    BY <2>1, SeqOfPlaces
<1>2. Shaped(h) /\ h.kind = "cluster" /\ h.parent = OperatorPlace(ops, k.operator)
  BY DEF ClusterNode, Node, Shaped, Fields, Kinds
<1>3. ASSUME NEW n \in ToSet(t) PROVE Shaped(n) /\ n.kind = "database" /\ n.parent = place
  <2>1. PICK i \in DOMAIN k.databases : n = DatabaseNode(k.databases[i], place)
    BY DEF ToSet, DatabaseNodes
  <2>2. PICK b : b = k.databases[i]
    OBVIOUS
  <2>3. b.internal \in BOOLEAN
    BY <2>2, PlacesOf
  <2>4. n = DatabaseNode(b, place)
    BY <2>1, <2>2
  <2>5. n.kind = "database" /\ n.parent = place /\ n.internal = b.internal /\ DOMAIN n = Fields
    BY <2>4 DEF DatabaseNode, Node, Fields
  <2> QED
    BY <2>3, <2>5 DEF Shaped, Kinds
<1>4. OperatorPlace(ops, k.operator) = Root \/ OperatorPlace(ops, k.operator) \in DOMAIN ops
  BY OperatorPlaceIs
<1>5. IsSeq(<<h>>) /\ ToSet(<<h>>) = {h} /\ Len(<<h>>) = 1 /\ <<h>>[1] = h
  BY OneElement
<1> HIDE DEF t, h
<1>6. IsSeq(<<h>> \o t) /\ ToSet(<<h>> \o t) = {h} \cup ToSet(t) /\ Len(<<h>> \o t) = 1 + Len(t)
  <2>1. PICK s : s = <<h>>
    OBVIOUS
  <2>2. IsSeq(s) /\ ToSet(s) = {h} /\ Len(s) = 1
    BY <1>5, <2>1
  <2> QED
    BY <1>1, <2>1, <2>2, ConcatIs
<1>7. (<<h>> \o t)[1] = h
  <2>1. PICK s : s = <<h>>
    OBVIOUS
  <2>2. IsSeq(s) /\ Len(s) = 1 /\ s[1] = h
    BY <1>5, <2>1
  <2>3. s \in Seq(ToSet(s) \cup ToSet(t)) /\ t \in Seq(ToSet(s) \cup ToSet(t))
    BY <1>1, <2>2, Together
  <2>4. Len(t) \in Nat
    BY <1>1, PlacesOf
  <2>5. 1 \in 1..(Len(s) + Len(t)) /\ 1 <= Len(s)
    BY <2>2, <2>4
  <2>6. (s \o t)[1] = s[1]
    BY <2>3, <2>5, ConcatProperties
  <2> QED
    BY <2>1, <2>2, <2>6
<1>8. Piece(k, ops, place) = <<h>> \o t
  BY DEF Piece, h, t
<1> QED
  BY <1>1, <1>2, <1>3, <1>4, <1>6, <1>7, <1>8

\* Where a cluster is drawn: after the operators, the clusters before it and
\* their databases.
ClusterPlace(c, ops, i) == Len(ops) + i + Len(FlattenSeq([j \in 1..(i - 1) |-> c.clusters[j].databases]))
DatabasesOf(c) == [i \in DOMAIN c.clusters |-> c.clusters[i].databases]
Pieces(c, ops) == [i \in DOMAIN c.clusters |-> Piece(c.clusters[i], ops, ClusterPlace(c, ops, i))]

\* The clusters drawn are their pieces, joined;
LEMMA ClusterNodesAre ==
    ASSUME NEW c, NEW m
    PROVE  ClusterNodes(c, m) = FlattenSeq(Pieces(c, OperatorNodes(c, m)))
<1> DEFINE ops == OperatorNodes(c, m)
<1> DEFINE drawn1 == [i \in DOMAIN c.clusters |->
              <<[Node("cluster", c.clusters[i].name) EXCEPT !.parent = OperatorPlace(ops, c.clusters[i].operator)]>>
              \o MapSeq(c.clusters[i].databases, LAMBDA b :
                   [Node("database", b.name) EXCEPT !.parent = ClusterPlace(c, ops, i), !.internal = b.internal])]
<1>2. ClusterNodes(c, m) = FlattenSeq(drawn1)
  BY Zenon DEF ClusterNodes, OperatorPlace, ClusterPlace
<1>3. drawn1 = Pieces(c, ops)
  <2>1. ASSUME NEW i \in DOMAIN c.clusters
        PROVE  <<[Node("cluster", c.clusters[i].name) EXCEPT !.parent = OperatorPlace(ops, c.clusters[i].operator)]>>
               \o MapSeq(c.clusters[i].databases, LAMBDA b :
                    [Node("database", b.name) EXCEPT !.parent = ClusterPlace(c, ops, i), !.internal = b.internal])
               = Piece(c.clusters[i], ops, ClusterPlace(c, ops, i))
    BY Zenon DEF Piece, ClusterNode, DatabaseNodes, DatabaseNode, MapSeq
  <2> QED
    BY <2>1 DEF Pieces
<1> QED
  BY <1>2, <1>3

\* A database lies in a cluster that is drawn before it.
InPlace(n, s, ops) ==
    /\ Shaped(n)
    /\ \/ n.kind = "cluster" /\ (n.parent = Root \/ n.parent \in DOMAIN ops)
       \/ n.kind = "database" /\ \E j \in DOMAIN s : n.parent = Len(ops) + j /\ s[j].kind = "cluster"

\* wherever a piece comes to stand, its databases still lie in its cluster.
LEMMA ClustersDrawn ==
    ASSUME NEW c, ConfigFits(c), NEW ops, IsSeq(ops)
    PROVE  /\ IsSeq(FlattenSeq(Pieces(c, ops)))
           /\ \A n \in ToSet(FlattenSeq(Pieces(c, ops))) : InPlace(n, FlattenSeq(Pieces(c, ops)), ops)
<1> DEFINE n == Len(c.clusters)
           p == Pieces(c, ops)
           d == DatabasesOf(c)
           Good(k) == /\ Len(FlatUpTo(p, k)) = k + Len(FlatUpTo(d, k))
                      /\ \A g \in ToSet(FlatUpTo(p, k)) : InPlace(g, FlatUpTo(p, k), ops)
           T == {k \in Nat : k <= n => Good(k)}
<1>0. IsSeq(c.clusters) /\ \A k \in ToSet(c.clusters) : IsSeq(k.databases) /\ \A b \in ToSet(k.databases) : b.internal \in BOOLEAN
  BY DEF ConfigFits
<1>1. n \in Nat /\ DOMAIN c.clusters = 1..n /\ \A i \in 1..n : c.clusters[i] \in ToSet(c.clusters)
  BY <1>0, PlacesOf
<1>2. Len(ops) \in Nat
  BY PlacesOf
<1>3. p = [i \in 1..n |-> p[i]] /\ d = [i \in 1..n |-> d[i]]
  BY <1>1 DEF Pieces, DatabasesOf
<1>4. ASSUME NEW i \in 1..n
      PROVE  d[i] = c.clusters[i].databases /\ p[i] = Piece(c.clusters[i], ops, ClusterPlace(c, ops, i)) /\ IsSeq(d[i])
  BY <1>0, <1>1 DEF Pieces, DatabasesOf
<1>5. ASSUME NEW i \in 1..n PROVE ClusterPlace(c, ops, i) = Len(ops) + i + Len(FlatUpTo(d, i - 1))
  <2>1. [j \in 1..(i - 1) |-> c.clusters[j].databases] = [j \in 1..(i - 1) |-> d[j]]
    <3>1. \A j \in 1..(i - 1) : c.clusters[j].databases = d[j]
      BY <1>1, <1>4
    <3> HIDE DEF d
    <3> QED
      BY <3>1
  <2> QED
    BY <2>1 DEF ClusterPlace, FlatUpTo
<1>6. ASSUME NEW i \in 1..n
      PROVE  /\ IsSeq(p[i]) /\ Len(p[i]) = 1 + Len(d[i]) /\ p[i][1].kind = "cluster"
             /\ \A g \in ToSet(p[i]) :
                   /\ Shaped(g)
                   /\ \/ g.kind = "cluster" /\ (g.parent = Root \/ g.parent \in DOMAIN ops)
                      \/ g.kind = "database" /\ g.parent = Len(ops) + i + Len(FlatUpTo(d, i - 1))
  <2>1. PICK k : k = c.clusters[i]
    OBVIOUS
  <2>2. PICK place : place = ClusterPlace(c, ops, i)
    OBVIOUS
  <2>3. IsSeq(k.databases) /\ \A b \in ToSet(k.databases) : b.internal \in BOOLEAN
    BY <1>0, <1>1, <2>1
  <2>4. p[i] = Piece(k, ops, place) /\ d[i] = k.databases
    BY <1>4, <2>1, <2>2
  <2>5. place = Len(ops) + i + Len(FlatUpTo(d, i - 1))
    BY <1>5, <2>2
  <2> HIDE DEF p, d
  <2>6. /\ IsSeq(Piece(k, ops, place)) /\ Len(Piece(k, ops, place)) = 1 + Len(k.databases)
        /\ Piece(k, ops, place)[1].kind = "cluster"
        /\ \A g \in ToSet(Piece(k, ops, place)) :
              /\ Shaped(g)
              /\ \/ g.kind = "cluster" /\ (g.parent = Root \/ g.parent \in DOMAIN ops)
                 \/ g.kind = "database" /\ g.parent = place
    BY <2>3, PieceIs
  <2> QED
    BY <2>4, <2>5, <2>6
<1> HIDE DEF p, d, n
<1>7. ASSUME NEW k \in Nat, k <= n
      PROVE  /\ IsSeq(FlatUpTo(p, k)) /\ (k = 0 => FlatUpTo(p, k) = <<>>)
             /\ k > 0 => FlatUpTo(p, k) = FlatUpTo(p, k - 1) \o p[k]
             /\ IsSeq(FlatUpTo(d, k)) /\ (k = 0 => FlatUpTo(d, k) = <<>>)
             /\ k > 0 => FlatUpTo(d, k) = FlatUpTo(d, k - 1) \o d[k]
  <2>1. \A i \in 1..k : IsSeq(p[i]) /\ IsSeq(d[i])
    BY <1>1, <1>4, <1>6, <1>7
  <2> QED
    BY <2>1, FlatStep
<1>8. 0 \in T
  <2>1. FlatUpTo(p, 0) = <<>> /\ FlatUpTo(d, 0) = <<>>
    <3>1. 0 \in Nat /\ 0 <= n
      BY <1>1
    <3> QED
      BY <1>7, <3>1
  <2>2. Good(0)
    BY <2>1, NoPlaces
  <2> QED
    BY <2>2
<1>9. ASSUME NEW k \in Nat, k \in T PROVE k + 1 \in T
  <2> SUFFICES ASSUME k + 1 <= n PROVE Good(k + 1)
    OBVIOUS
  <2>1. Good(k) /\ k + 1 \in 1..n /\ k <= n /\ (k + 1) - 1 = k
    BY <1>1, <1>9
  <2> DEFINE G == FlatUpTo(p, k)
             H == FlatUpTo(p, k + 1)
             q == p[k + 1]
             F == FlatUpTo(d, k)
  <2>2. IsSeq(G) /\ IsSeq(F) /\ IsSeq(q) /\ IsSeq(d[k + 1]) /\ H = G \o q /\ FlatUpTo(d, k + 1) = F \o d[k + 1]
    <3>1. IsSeq(q) /\ IsSeq(d[k + 1])
      BY <1>4, <1>6, <2>1
    <3>2. IsSeq(G) /\ IsSeq(F)
      BY <1>7, <2>1
    <3>3. k + 1 \in Nat /\ k + 1 <= n /\ k + 1 > 0
      BY <2>1
    <3>4. H = FlatUpTo(p, (k + 1) - 1) \o q /\ FlatUpTo(d, k + 1) = FlatUpTo(d, (k + 1) - 1) \o d[k + 1]
      BY <1>7, <3>3
    <3> QED
      BY <2>1, <3>1, <3>2, <3>4
  <2>3. /\ q[1].kind = "cluster" /\ Len(q) = 1 + Len(d[k + 1])
        /\ \A g \in ToSet(q) :
              /\ Shaped(g)
              /\ \/ g.kind = "cluster" /\ (g.parent = Root \/ g.parent \in DOMAIN ops)
                 \/ g.kind = "database" /\ g.parent = Len(ops) + (k + 1) + Len(F)
    BY <1>6, <2>1
  <2>4. Len(G) = k + Len(F) /\ \A g \in ToSet(G) : InPlace(g, G, ops)
    BY <2>1
  <2>5. Len(FlatUpTo(d, k + 1)) = Len(F) + Len(d[k + 1])
    BY <2>2, ConcatIs
  <2> HIDE DEF G, H, q, F
  <2>6. Len(G) \in Nat /\ Len(F) \in Nat /\ Len(q) \in Nat /\ Len(d[k + 1]) \in Nat
        /\ DOMAIN G = 1..Len(G)
    BY <2>2, PlacesOf
  <2>7. ToSet(H) = ToSet(G) \cup ToSet(q) /\ Len(H) = Len(G) + Len(q) /\ IsSeq(H)
    BY <2>2, ConcatIs
  <2>8. DOMAIN H = 1..(Len(G) + Len(q))
    BY <2>7, PlacesOf
  <2>9. /\ \A j \in 1..Len(G) : H[j] = G[j]
        /\ H[Len(G) + 1] = q[1]
    <3>1. G \in Seq(ToSet(G) \cup ToSet(q)) /\ q \in Seq(ToSet(G) \cup ToSet(q))
      BY <2>2, Together
    <3>2. \A j \in 1..(Len(G) + Len(q)) : (G \o q)[j] = IF j <= Len(G) THEN G[j] ELSE q[j - Len(G)]
      BY <3>1, ConcatProperties
    <3>3. Len(q) >= 1 /\ Len(G) + 1 \in 1..(Len(G) + Len(q)) /\ ~(Len(G) + 1 <= Len(G)) /\ (Len(G) + 1) - Len(G) = 1
      BY <2>3, <2>6
    <3>4. \A j \in 1..Len(G) : j \in 1..(Len(G) + Len(q)) /\ j <= Len(G)
      BY <2>6
    <3> QED
      BY <2>2, <3>2, <3>3, <3>4
  <2>10. Len(H) = (k + 1) + Len(FlatUpTo(d, k + 1))
    <3>1. Len(H) = Len(G) + Len(q) /\ Len(q) = 1 + Len(d[k + 1]) /\ Len(G) = k + Len(F)
      BY <2>3, <2>4, <2>7
    <3>2. PICK x : x = Len(d[k + 1])
      OBVIOUS
    <3>3. PICK y : y = Len(F)
      OBVIOUS
    <3>4. Len(H) = (k + y) + (1 + x) /\ x \in Nat /\ y \in Nat
      BY <2>6, <3>1, <3>2, <3>3
    <3>5. Len(FlatUpTo(d, k + 1)) = y + x
      BY <2>5, <3>2, <3>3
    <3>6. (k + y) + (1 + x) = (k + 1) + (y + x)
      BY <3>4
    <3> QED
      BY <3>4, <3>5, <3>6
  <2>11. ASSUME NEW g \in ToSet(H) PROVE InPlace(g, H, ops)
    <3>1. CASE g \in ToSet(G)
      <4>1. InPlace(g, G, ops)
        BY <2>4, <3>1
      <4>2. \A j \in DOMAIN G : j \in DOMAIN H /\ H[j] = G[j]
        BY <2>6, <2>8, <2>9
      <4> QED
        BY <4>1, <4>2 DEF InPlace
    <3>2. CASE g \in ToSet(q)
      <4>1. Len(G) + 1 \in DOMAIN H /\ H[Len(G) + 1].kind = "cluster"
        BY <2>3, <2>6, <2>8, <2>9
      <4>2. Len(ops) + (k + 1) + Len(F) = Len(ops) + (Len(G) + 1)
        BY <1>2, <2>4, <2>6
      <4> QED
        BY <2>3, <3>2, <4>1, <4>2 DEF InPlace
    <3> QED
      BY <2>7, <3>1, <3>2
  <2> QED
    BY <2>10, <2>11 DEF H
<1>10. n \in T
  <2> HIDE DEF T
  <2>1. Nat \subseteq T
    BY <1>8, <1>9, InductionOnSets
  <2> QED
    BY <1>1, <2>1
<1>11. FlattenSeq(p) = FlatUpTo(p, n)
  BY <1>3 DEF FlatUpTo
<1>12. Good(n) /\ IsSeq(FlatUpTo(p, n))
  <2>1. n <= n
    BY <1>1
  <2>2. Good(n)
    BY <1>10, <2>1
  <2> QED
    BY <1>1, <1>7, <2>1, <2>2
<1> QED
  BY <1>11, <1>12 DEF p

\* The virtual machines, storages, applications, load balancers and the RDI
\* drawn from a configuration lie on the canvas itself.
LEMMA VmsTopmost == ASSUME NEW c, NEW m PROVE TopmostAll(VmNodes(c, m), "vms")
<1> DEFINE v == [Node("vms", Unnamed) EXCEPT !.machines = MapSeq(c.vms, LAMBDA x : c.vms[1]), !.open = c.exposed]
<1>1. Topmost(v, "vms")
  BY DEF Node, Topmost, Shaped, Fields, Kinds
<1>2. VmNodes(c, m) = IF m = "gke" \/ c.vms = <<>> THEN <<>> ELSE <<v>>
  BY DEF VmNodes
<1> HIDE DEF v
<1>3. IsSeq(<<v>>) /\ ToSet(<<v>>) = {v}
  BY OneElement
<1> QED
  BY <1>1, <1>2, <1>3, NoPlaces DEF TopmostAll

\* The storages.
LEMMA StorageTopmost == ASSUME NEW c, ConfigFits(c) PROVE TopmostAll(StorageNodes(c), "storage")
<1> DEFINE t == StorageNodes(c)
<1>1. DOMAIN t = DOMAIN c.storage /\ t = [i \in DOMAIN t |-> t[i]] /\ \A i \in DOMAIN c.storage : \E name : t[i] = Node("storage", name)
  BY DEF StorageNodes, MapSeq
<1> HIDE DEF t
<1>2. "storage" \in Kinds /\ IsSeq(c.storage)
  BY DEF Kinds, ConfigFits
<1> QED
  BY <1>1, <1>2, MapOfTopmost DEF t

\* The applications, one for each of the configuration.
LEMMA AppsTopmost ==
    ASSUME NEW c, ConfigFits(c)
    PROVE  TopmostAll(AppNodes(c), "application") /\ Len(AppNodes(c)) = Len(c.apps)
<1> DEFINE t == AppNodes(c)
<1>1. DOMAIN t = DOMAIN c.apps /\ t = [i \in DOMAIN t |-> t[i]] /\ \A i \in DOMAIN c.apps : \E name : t[i] = Node("application", name)
  BY DEF AppNodes, MapSeq
<1> HIDE DEF t
<1>2. "application" \in Kinds /\ IsSeq(c.apps)
  BY DEF Kinds, ConfigFits
<1> QED
  BY <1>1, <1>2, MapOfTopmost DEF t

\* The load balancers.
LEMMA BalancersTopmost == ASSUME NEW c, ConfigFits(c), NEW m PROVE TopmostAll(BalancerNodes(c, m), "loadbalancer")
<1> DEFINE t == [i \in DOMAIN c.lbs |-> Node("loadbalancer", c.lbs[i].name)]
           one == <<Node("loadbalancer", Unnamed)>>
<1>1. DOMAIN t = DOMAIN c.lbs /\ t = [i \in DOMAIN t |-> t[i]] /\ \A i \in DOMAIN c.lbs : \E name : t[i] = Node("loadbalancer", name)
  OBVIOUS
<1>2. "loadbalancer" \in Kinds /\ IsSeq(c.lbs)
  BY DEF Kinds, ConfigFits
<1>3. BalancerNodes(c, m) \in {one, t}
  BY DEF BalancerNodes, MapSeq
<1>4. TopmostAll(one, "loadbalancer")
  BY <1>2, OneElement, NodeIsTopmost DEF TopmostAll
<1> HIDE DEF t, one
<1>5. TopmostAll(t, "loadbalancer")
  BY <1>1, <1>2, MapOfTopmost
<1> QED
  BY <1>3, <1>4, <1>5

RdiNodes(c) == MapSeq(c.rdi, LAMBDA r : Node("rdi", "rdi"))

\* The RDI.
LEMMA RdiTopmost == ASSUME NEW c, ConfigFits(c) PROVE TopmostAll(RdiNodes(c), "rdi")
<1> DEFINE t == RdiNodes(c)
<1>1. DOMAIN t = DOMAIN c.rdi /\ t = [i \in DOMAIN t |-> t[i]] /\ \A i \in DOMAIN c.rdi : \E name : t[i] = Node("rdi", name)
  BY DEF RdiNodes, MapSeq
<1> HIDE DEF t
<1>2. "rdi" \in Kinds /\ IsSeq(c.rdi)
  BY DEF Kinds, ConfigFits
<1> QED
  BY <1>1, <1>2, MapOfTopmost DEF t

\* Every node lies at the top, or in one of the sequence, by its place.
Rooted(n, s) ==
    IF n.kind = "database" THEN n.parent \in DOMAIN s /\ s[n.parent].kind = "cluster"
    ELSE n.parent = Root \/ (n.kind = "cluster" /\ n.parent \in DOMAIN s /\ s[n.parent].kind = "operator")
AllRooted(s) == IsSeq(s) /\ \A n \in ToSet(s) : Shaped(n) /\ Rooted(n, s)

\* Operators and clusters: every node lies in one that is there.
LEMMA RootedFirst ==
    ASSUME NEW c, ConfigFits(c), NEW m
    PROVE  /\ AllRooted(OperatorNodes(c, m) \o ClusterNodes(c, m))
           /\ \A n \in ToSet(OperatorNodes(c, m) \o ClusterNodes(c, m)) : n.kind \in {"operator", "cluster", "database"}
<1> DEFINE ops == OperatorNodes(c, m)
           cls == ClusterNodes(c, m)
           all == ops \o cls
<1>1. TopmostAll(ops, "operator")
  BY OperatorsTopmost
<1>2. IsSeq(ops)
  BY <1>1 DEF TopmostAll
<1>3. IsSeq(cls) /\ \A n \in ToSet(cls) : InPlace(n, cls, ops)
  <2>1. cls = FlattenSeq(Pieces(c, ops))
    BY ClusterNodesAre
  <2> HIDE DEF ops, cls
  <2> QED
    BY <1>2, <2>1, ClustersDrawn
<1> HIDE DEF ops, cls
<1>4. IsSeq(all) /\ ToSet(all) = ToSet(ops) \cup ToSet(cls)
  BY <1>2, <1>3, ConcatIs
<1>5. /\ \A i \in DOMAIN ops : i \in DOMAIN all /\ all[i] = ops[i] /\ ops[i] \in ToSet(ops)
      /\ \A j \in DOMAIN cls : Len(ops) + j \in DOMAIN all /\ all[Len(ops) + j] = cls[j]
  BY <1>2, <1>3, FirstStay, PlacesOf
<1> HIDE DEF all
<1>6. ASSUME NEW n \in ToSet(ops) PROVE Shaped(n) /\ Rooted(n, all)
  BY <1>1 DEF TopmostAll, Topmost, Rooted
<1>7. ASSUME NEW n \in ToSet(cls) PROVE Shaped(n) /\ Rooted(n, all)
  <2>1. InPlace(n, cls, ops)
    BY <1>3
  <2>2. CASE n.kind = "cluster" /\ n.parent = Root
    BY <2>1, <2>2 DEF InPlace, Rooted
  <2>3. CASE n.kind = "cluster" /\ n.parent \in DOMAIN ops
    <3>1. n.parent \in DOMAIN all /\ all[n.parent].kind = "operator"
      BY <1>1, <1>5, <2>3 DEF TopmostAll, Topmost
    <3> QED
      BY <2>1, <2>3, <3>1 DEF InPlace, Rooted
  <2>4. CASE n.kind = "database" /\ \E j \in DOMAIN cls : n.parent = Len(ops) + j /\ cls[j].kind = "cluster"
    BY <1>5, <2>1, <2>4 DEF InPlace, Rooted
  <2> QED
    BY <2>1, <2>2, <2>3, <2>4 DEF InPlace
<1>8. AllRooted(all)
  BY <1>4, <1>6, <1>7 DEF AllRooted
<1>9. \A n \in ToSet(all) : n.kind \in {"operator", "cluster", "database"}
  BY <1>1, <1>3, <1>4 DEF TopmostAll, Topmost, InPlace
<1> QED
  BY <1>8, <1>9 DEF all, ops, cls

\* What lies on the canvas itself can follow any list.
LEMMA RootedNext ==
    ASSUME NEW s, AllRooted(s), NEW t, NEW kind, TopmostAll(t, kind), kind # "database"
    PROVE  AllRooted(s \o t)
<1>1. IsSeq(s) /\ IsSeq(t)
  BY DEF AllRooted, TopmostAll
<1>2. IsSeq(s \o t) /\ ToSet(s \o t) = ToSet(s) \cup ToSet(t)
  BY <1>1, ConcatIs
<1>3. \A i \in DOMAIN s : i \in DOMAIN (s \o t) /\ (s \o t)[i] = s[i]
  BY <1>1, FirstStay
<1>4. ASSUME NEW n \in ToSet(s) PROVE Shaped(n) /\ Rooted(n, s \o t)
  <2>1. Shaped(n) /\ Rooted(n, s)
    BY DEF AllRooted
  <2> QED
    BY <1>3, <2>1 DEF Rooted
<1>5. ASSUME NEW n \in ToSet(t) PROVE Shaped(n) /\ Rooted(n, s \o t)
  BY DEF TopmostAll, Topmost, Rooted
<1> QED
  BY <1>2, <1>4, <1>5 DEF AllRooted

\* All nodes of a configuration.
AllOf(c, m) ==
    OperatorNodes(c, m) \o ClusterNodes(c, m) \o VmNodes(c, m) \o StorageNodes(c) \o AppNodes(c)
    \o BalancerNodes(c, m) \o RdiNodes(c)

\* All that is drawn, before it is numbered.
LEMMA AllAreRooted ==
    ASSUME NEW c, ConfigFits(c), NEW m
    PROVE  /\ AllRooted(AllOf(c, m))
           /\ \A T : (\A n \in ToSet(AllOf(c, m)) : n \in T <=> n.kind = "application")
                       => Len(Kept(AllOf(c, m), T)) = Len(c.apps)
<1> DEFINE s1 == OperatorNodes(c, m) \o ClusterNodes(c, m)
           s2 == s1 \o VmNodes(c, m)
           s3 == s2 \o StorageNodes(c)
           s4 == s3 \o AppNodes(c)
           s5 == s4 \o BalancerNodes(c, m)
           s6 == s5 \o RdiNodes(c)
<1>1. AllRooted(s1) /\ \A n \in ToSet(s1) : n.kind \in {"operator", "cluster", "database"}
  BY RootedFirst
<1>2. /\ TopmostAll(VmNodes(c, m), "vms") /\ TopmostAll(StorageNodes(c), "storage")
      /\ TopmostAll(AppNodes(c), "application") /\ Len(AppNodes(c)) = Len(c.apps)
      /\ TopmostAll(BalancerNodes(c, m), "loadbalancer") /\ TopmostAll(RdiNodes(c), "rdi")
  BY VmsTopmost, StorageTopmost, AppsTopmost, BalancersTopmost, RdiTopmost
<1> HIDE DEF s1
<1>3. AllRooted(s2)
  BY <1>1, <1>2, RootedNext
<1> HIDE DEF s2
<1>4. AllRooted(s3)
  BY <1>2, <1>3, RootedNext
<1> HIDE DEF s3
<1>5. AllRooted(s4)
  BY <1>2, <1>4, RootedNext
<1> HIDE DEF s4
<1>6. AllRooted(s5)
  BY <1>2, <1>5, RootedNext
<1> HIDE DEF s5
<1>7. AllRooted(s6)
  BY <1>2, <1>6, RootedNext
<1>8. IsSeq(s1) /\ IsSeq(s2) /\ IsSeq(s3) /\ IsSeq(s4) /\ IsSeq(s5)
  BY <1>1, <1>3, <1>4, <1>5, <1>6 DEF AllRooted
<1>9. /\ IsSeq(VmNodes(c, m)) /\ \A n \in ToSet(VmNodes(c, m)) : n.kind = "vms"
      /\ IsSeq(StorageNodes(c)) /\ \A n \in ToSet(StorageNodes(c)) : n.kind = "storage"
      /\ IsSeq(AppNodes(c)) /\ \A n \in ToSet(AppNodes(c)) : n.kind = "application"
      /\ IsSeq(BalancerNodes(c, m)) /\ \A n \in ToSet(BalancerNodes(c, m)) : n.kind = "loadbalancer"
      /\ IsSeq(RdiNodes(c)) /\ \A n \in ToSet(RdiNodes(c)) : n.kind = "rdi"
  BY <1>2 DEF TopmostAll, Topmost
<1>10. /\ ToSet(s2) = ToSet(s1) \cup ToSet(VmNodes(c, m))
       /\ ToSet(s3) = ToSet(s2) \cup ToSet(StorageNodes(c))
       /\ ToSet(s4) = ToSet(s3) \cup ToSet(AppNodes(c))
       /\ ToSet(s5) = ToSet(s4) \cup ToSet(BalancerNodes(c, m))
       /\ ToSet(s6) = ToSet(s5) \cup ToSet(RdiNodes(c))
  BY <1>8, <1>9, ConcatIs DEF s2, s3, s4, s5
<1> HIDE DEF s6
<1>11. ASSUME NEW T, \A n \in ToSet(s6) : n \in T <=> n.kind = "application"
       PROVE  Len(Kept(s6, T)) = Len(c.apps)
  <2>1. ToSet(RdiNodes(c)) \cap T = {} /\ ToSet(BalancerNodes(c, m)) \cap T = {}
    BY <1>9, <1>10, <1>11
  <2>2. ToSet(AppNodes(c)) \subseteq T /\ ToSet(s3) \cap T = {}
    <3>1. \A n \in ToSet(s3) : n.kind # "application"
      BY <1>1, <1>9, <1>10
    <3> QED
      BY <1>9, <1>10, <1>11, <3>1
  <2>3. Kept(s4, T) = AppNodes(c)
    BY <1>8, <1>9, <2>2, KeptAfter DEF s4
  <2>4. Kept(s5, T) = Kept(s4, T)
    BY <1>8, <1>9, <2>1, KeptBefore DEF s5
  <2>5. Kept(s6, T) = Kept(s5, T)
    BY <1>8, <1>9, <2>1, KeptBefore DEF s6
  <2> QED
    BY <1>2, <2>3, <2>4, <2>5
<1>12. AllOf(c, m) = s6
  BY DEF AllOf, s6, s5, s4, s3, s2, s1
<1>13. AllRooted(s6)
  BY <1>7 DEF s6
<1> QED
  BY <1>11, <1>12, <1>13

\* The nodes, numbered.
Numbered(s) == [i \in DOMAIN s |-> [s[i] EXCEPT !.id = i]]

\* The nodes drawn are all of it, numbered by place;
LEMMA NodesOfIs == ASSUME NEW c, NEW m PROVE NodesOf(c, m) = Numbered(AllOf(c, m))
BY Zenon DEF NodesOf, AllOf, Numbered, RdiNodes

\* numbering gives unique ids, and turns places into parents.
LEMMA NumberedDrawable ==
    ASSUME NEW s, AllRooted(s), NEW ns, ns = Numbered(s)
    PROVE  /\ Drawable(ns, <<>>, Len(ns) + 1, {})
           /\ NodeIds(ns) = DOMAIN s /\ Len(ns) = Len(s)
           /\ \A i \in DOMAIN s : ns[i].id = i /\ ns[i].kind = s[i].kind
<1>0. IsSeq(s) /\ \A n \in ToSet(s) : Shaped(n) /\ Rooted(n, s)
  BY DEF AllRooted
<1>1. DOMAIN ns = DOMAIN s /\ ns = [i \in DOMAIN ns |-> ns[i]]
  BY DEF Numbered
<1>2. IsSeq(ns) /\ Len(ns) = Len(s) /\ Len(s) \in Nat /\ DOMAIN s = 1..Len(s) /\ \A i \in DOMAIN s : s[i] \in ToSet(s)
  BY <1>0, <1>1, SeqOfPlaces, PlacesOf
<1>3. ASSUME NEW i \in DOMAIN s
      PROVE  /\ ns[i].id = i /\ ns[i].kind = s[i].kind /\ ns[i].parent = s[i].parent /\ ns[i].internal = s[i].internal
             /\ DOMAIN ns[i] = Fields /\ Shaped(s[i]) /\ Rooted(s[i], s)
  <2>1. Shaped(s[i]) /\ Rooted(s[i], s)
    BY <1>0, <1>2
  <2>2. ns[i] = [s[i] EXCEPT !.id = i]
    BY DEF Numbered
  <2>3. DOMAIN s[i] = Fields
    BY <2>1 DEF Shaped
  <2> QED
    BY <2>1, <2>2, <2>3 DEF Fields
<1>4. IdsUnique(ns)
  BY <1>1, <1>3 DEF IdsUnique
<1>5. \A n \in ToSet(ns) : \E i \in DOMAIN s : n = ns[i]
  BY <1>1 DEF ToSet
<1>6. \A i \in DOMAIN s : ns[i] \in ToSet(ns)
  BY <1>1 DEF ToSet
<1>7. NodeIds(ns) = DOMAIN s
  <2>1. ASSUME NEW id \in NodeIds(ns) PROVE id \in DOMAIN s
    <3>1. PICK n \in ToSet(ns) : id = n.id
      BY DEF NodeIds
    <3>2. PICK i \in DOMAIN s : n = ns[i]
      BY <1>5
    <3> QED
      BY <1>3, <3>1, <3>2
  <2>2. ASSUME NEW i \in DOMAIN s PROVE i \in NodeIds(ns)
    <3>1. ns[i] \in ToSet(ns) /\ ns[i].id = i
      BY <1>3, <1>6
    <3>2. PICK n \in ToSet(ns) : n.id = i
      BY <3>1
    <3> QED
      BY <3>2 DEF NodeIds
  <2> QED
    BY <2>1, <2>2
<1>8. ASSUME NEW n \in ToSet(ns) PROVE NodeFits(n, Len(ns) + 1) /\ Lies(n, ns)
  <2>1. PICK i \in DOMAIN s : n = ns[i]
    BY <1>5
  <2>2. /\ n.id = i /\ n.kind = s[i].kind /\ n.parent = s[i].parent /\ n.internal = s[i].internal
        /\ DOMAIN n = Fields /\ Shaped(s[i]) /\ Rooted(s[i], s)
    BY <1>3, <2>1
  <2>3. i \in 1..Len(ns) /\ Len(ns) \in Nat
    BY <1>2
  <2>4. NodeFits(n, Len(ns) + 1)
    <3>1. n.id \in Int \ {Root} /\ n.id < Len(ns) + 1 /\ n.id > 0
      BY <2>2, <2>3 DEF Root
    <3> QED
      BY <2>2, <3>1 DEF NodeFits, Shaped
  <2>5. Lies(n, ns)
    <3>1. \A j \in DOMAIN s : ns[j] \in ToSet(ns) /\ ns[j].id = j /\ ns[j].kind = s[j].kind
      BY <1>3, <1>6
    <3>2. CASE n.kind = "database"
      <4>1. n.parent \in DOMAIN s /\ s[n.parent].kind = "cluster"
        BY <2>2, <3>2 DEF Rooted
      <4> QED
        BY <3>1, <3>2, <4>1 DEF Lies
    <3>3. CASE n.kind # "database"
      <4>1. n.parent = Root \/ (n.kind = "cluster" /\ n.parent \in DOMAIN s /\ s[n.parent].kind = "operator")
        BY <2>2, <3>3 DEF Rooted
      <4> QED
        BY <3>1, <3>3, <4>1 DEF Lies
    <3> QED
      BY <3>2, <3>3
  <2> QED
    BY <2>4, <2>5
<1>9. Len(ns) + 1 \in Nat \ {0}
  BY <1>2
<1>10. IsSeq(<<>>) /\ ToSet(<<>>) = {}
  BY NoPlaces
<1>11. Drawable(ns, <<>>, Len(ns) + 1, {})
  BY <1>2, <1>4, <1>8, <1>9, <1>10 DEF Drawable, IdsBelow
<1> QED
  BY <1>2, <1>3, <1>7, <1>11

\* The nodes of any configuration can be drawn.
LEMMA NodesDrawn ==
    ASSUME NEW c, ConfigFits(c), NEW m, NEW ns, ns = NodesOf(c, m)
    PROVE  /\ Drawable(ns, <<>>, Len(ns) + 1, {})
           /\ Len(ns) \in Nat /\ NodeIds(ns) = 1..Len(ns)
           /\ Len(OfKind(ns, "application")) = Len(c.apps)
<1>1. PICK s : s = AllOf(c, m)
  OBVIOUS
<1>2. AllRooted(s) /\ \A T : (\A n \in ToSet(s) : n \in T <=> n.kind = "application") => Len(Kept(s, T)) = Len(c.apps)
  BY <1>1, AllAreRooted
<1>3. ns = Numbered(s)
  BY <1>1, NodesOfIs
<1>4. /\ Drawable(ns, <<>>, Len(ns) + 1, {}) /\ NodeIds(ns) = DOMAIN s /\ Len(ns) = Len(s)
      /\ \A i \in DOMAIN s : ns[i].id = i /\ ns[i].kind = s[i].kind
  BY <1>2, <1>3, NumberedDrawable
<1>5. IsSeq(s) /\ IsSeq(ns)
  BY <1>2, <1>4 DEF AllRooted, Drawable
<1>6. /\ Len(s) \in Nat /\ DOMAIN s = 1..Len(s) /\ \A i \in 1..Len(s) : s[i] \in ToSet(s)
      /\ DOMAIN ns = 1..Len(ns) /\ \A i \in 1..Len(ns) : ns[i] \in ToSet(ns)
  BY <1>5, PlacesOf
<1> DEFINE T == {n \in ToSet(s) : n.kind = "application"}
           U == {n \in ToSet(ns) : n.kind = "application"}
<1>7. Len(Kept(s, T)) = Len(c.apps)
  <2>1. \A n \in ToSet(s) : n \in T <=> n.kind = "application"
    OBVIOUS
  <2> HIDE DEF T
  <2> QED
    BY <1>2, <2>1
<1>8. OfKind(ns, "application") = Kept(ns, U)
  <2>1. Len(ns) \in Nat /\ \A i \in 1..Len(ns) : ns[i] \in U <=> ns[i].kind = "application"
    BY <1>4, <1>6
  <2> HIDE DEF U
  <2> QED
    BY <2>1, OfKindKept
<1>9. \A i \in 1..Len(s) : s[i] \in T <=> ns[i] \in U
  BY <1>4, <1>6
<1> HIDE DEF T, U
<1>10. Len(Kept(s, T)) = Len(Kept(ns, U))
  BY <1>4, <1>5, <1>9, AlikeKept
<1> QED
  BY <1>4, <1>6, <1>7, <1>8, <1>10

-----------------------------------------------------------------------------
(* The edges of a configuration.                                           *)

\* The nodes as they are made from a configuration.
Fresh(ns) == Drawable(ns, <<>>, Len(ns) + 1, {}) /\ Len(ns) \in Nat /\ NodeIds(ns) = 1..Len(ns)

\* The last of some ids is one of them, or none.
LEMMA LastOfIs ==
    ASSUME NEW n \in Nat, NEW ids, ids \subseteq 1..n
    PROVE  LastOf(ids) \in ids \cup {Root}
<1> DEFINE S == ids \cup {Root}
<1>1. S \subseteq Nat /\ S # {} /\ \A x \in S : x <= n
  BY DEF Root
<1> HIDE DEF S
<1>2. Max(S) \in S
  BY <1>1, GreatestIs
<1> QED
  BY <1>2 DEF LastOf, S

\* A name stands for a node or for none.
LEMMA NameFinds ==
    ASSUME NEW ns, Fresh(ns)
    PROVE  /\ \A kind, name : \/ Named(ns, kind, name) = Root
                              \/ \E n \in ToSet(ns) : n.id = Named(ns, kind, name) /\ n.kind = kind
           /\ \A name : ClusterNamed(ns, name) \in NodeIds(ns) \cup {Root}
           /\ \A name : HostNamed(ns, name) \in NodeIds(ns) \cup {Root}
           /\ \A c, name : LoadBalancerNamed(c, ns, name) \in NodeIds(ns) \cup {Root}
           /\ \A c, w : ProviderOf(c, ns, w) \in NodeIds(ns) \cup {Root}
<1>1. IsSeq(ns) /\ Len(ns) \in Nat /\ NodeIds(ns) = 1..Len(ns)
  BY DEF Fresh, Drawable
<1>2. \A n \in ToSet(ns) : n.id \in 1..Len(ns)
  BY <1>1 DEF NodeIds
<1>3. ASSUME NEW kind, NEW name
      PROVE  Named(ns, kind, name) = Root \/ \E n \in ToSet(ns) : n.id = Named(ns, kind, name) /\ n.kind = kind
  <2> DEFINE ids == {n.id : n \in {n \in ToSet(ns) : n.kind = kind /\ n.name = name}}
  <2>1. ids \subseteq 1..Len(ns)
    BY <1>2
  <2>2. Named(ns, kind, name) = LastOf(ids)
    BY DEF Named
  <2>3. ASSUME NEW i \in ids PROVE \E n \in ToSet(ns) : n.id = i /\ n.kind = kind
    OBVIOUS
  <2> HIDE DEF ids
  <2>4. LastOf(ids) \in ids \cup {Root}
    BY <1>1, <2>1, LastOfIs
  <2> QED
    BY <2>2, <2>3, <2>4
<1>4. \A kind, name : Named(ns, kind, name) \in NodeIds(ns) \cup {Root}
  BY <1>3 DEF NodeIds
<1>5. ASSUME NEW name PROVE ClusterNamed(ns, name) \in NodeIds(ns) \cup {Root}
  <2> DEFINE ids == {n.id : n \in {n \in ToSet(ns) : n.kind = "cluster" /\ ProviderName(ns, <<>>, n) = name}}
  <2>1. ids \subseteq 1..Len(ns)
    BY <1>2
  <2>2. ClusterNamed(ns, name) = LastOf(ids)
    BY DEF ClusterNamed
  <2> HIDE DEF ids
  <2>3. LastOf(ids) \in ids \cup {Root}
    BY <1>1, <2>1, LastOfIs
  <2> QED
    BY <1>1, <2>1, <2>2, <2>3
<1>6. ASSUME NEW kind
      PROVE  IsSeq(OfKind(ns, kind)) /\ \A i \in DOMAIN OfKind(ns, kind) : OfKind(ns, kind)[i].id \in 1..Len(ns)
  <2>1. IsSeq(OfKind(ns, kind)) /\ ToSet(OfKind(ns, kind)) = {n \in ToSet(ns) : n.kind = kind}
    BY <1>1, KindElements
  <2> QED
    BY <1>2, <2>1, PlacesOf
<1>7. ASSUME NEW name PROVE HostNamed(ns, name) \in NodeIds(ns) \cup {Root}
  <2>1. OfKind(ns, "vms") # <<>> => OfKind(ns, "vms")[1].id \in NodeIds(ns)
    BY <1>1, <1>6, PlacesOf
  <2> QED
    BY <1>4, <2>1 DEF HostNamed
<1>8. ASSUME NEW c, NEW name PROVE LoadBalancerNamed(c, ns, name) \in NodeIds(ns) \cup {Root}
  <2> DEFINE lbs == OfKind(ns, "loadbalancer")
             ids == {lbs[i].id : i \in {i \in DOMAIN lbs : lbs[i].name = name
                                           \/ (name = "app-lb" /\ (c.lbs = <<>> \/ c.lbs[i].onVms))}}
  <2>1. \A i \in DOMAIN lbs : lbs[i].id \in 1..Len(ns)
    BY <1>6
  <2>2. LoadBalancerNamed(c, ns, name) = LastOf(ids)
    BY Zenon DEF LoadBalancerNamed
  <2> HIDE DEF lbs
  <2>3. ids \subseteq 1..Len(ns)
    BY <2>1
  <2> HIDE DEF ids
  <2>4. LastOf(ids) \in ids \cup {Root}
    BY <1>1, <2>3, LastOfIs
  <2> QED
    BY <1>1, <2>2, <2>3, <2>4
<1>9. ASSUME NEW c, NEW w PROVE ProviderOf(c, ns, w) \in NodeIds(ns) \cup {Root}
  <2>1. CASE w[1] = "cluster"
    <3>1. ProviderOf(c, ns, w) = ClusterNamed(ns, w[2])
      BY <2>1 DEF ProviderOf
    <3> QED
      BY <1>5, <3>1
  <2>2. CASE w[1] = "host"
    <3>1. ProviderOf(c, ns, w) = HostNamed(ns, w[2])
      BY <2>2 DEF ProviderOf
    <3> QED
      BY <1>7, <3>1
  <2>3. CASE w[1] = "loadbalancer"
    <3>1. ProviderOf(c, ns, w) = LoadBalancerNamed(c, ns, w[2])
      BY <2>3 DEF ProviderOf
    <3> QED
      BY <1>8, <3>1
  <2>4. CASE w[1] \notin {"cluster", "host", "loadbalancer"}
    <3>1. ProviderOf(c, ns, w) = Named(ns, w[1], w[2])
      BY <2>4 DEF ProviderOf
    <3> QED
      BY <1>4, <3>1
  <2> QED
    BY <2>1, <2>2, <2>3, <2>4
<1> QED
  BY <1>3, <1>5, <1>7, <1>8, <1>9

\* A wire that leads to a node or nowhere, from a node of the user's.
Loose(e, ns) ==
    /\ e.state = FALSE
    /\ \E n \in ToSet(ns) : n.id = e.source /\ ~n.internal
    /\ e.target \in NodeIds(ns) \cup {Root}

\* Nodes of a kind the edges start from are the user's.
LEMMA Sources ==
    ASSUME NEW ns, NEW next, NEW es, NEW gone, Drawable(ns, es, next, gone), NEW kind, kind # "database"
    PROVE  /\ IsSeq(OfKind(ns, kind)) /\ (OfKind(ns, kind) # <<>> => 1 \in DOMAIN OfKind(ns, kind))
           /\ \A i \in DOMAIN OfKind(ns, kind) : \E n \in ToSet(ns) : n.id = OfKind(ns, kind)[i].id /\ ~n.internal
<1>1. IsSeq(ns) /\ \A n \in ToSet(ns) : NodeFits(n, next)
  BY DEF Drawable
<1>2. IsSeq(OfKind(ns, kind)) /\ ToSet(OfKind(ns, kind)) = {n \in ToSet(ns) : n.kind = kind}
  BY <1>1, KindElements
<1>3. \A n \in ToSet(ns) : n.kind = kind => ~n.internal
  BY <1>1 DEF NodeFits
<1>4. \A i \in DOMAIN OfKind(ns, kind) : OfKind(ns, kind)[i] \in ToSet(OfKind(ns, kind))
  BY <1>2, PlacesOf
<1> QED
  BY <1>2, <1>3, <1>4, PlacesOf

\* The edges of load balancers start at one of them.
LEMMA FrontingLoose ==
    ASSUME NEW ns, Fresh(ns), NEW c
    PROVE  IsSeq(FrontingEdges(c, ns)) /\ \A e \in ToSet(FrontingEdges(c, ns)) : Loose(e, ns)
<1> DEFINE lbs == OfKind(ns, "loadbalancer")
           es == FrontingEdges(c, ns)
<1>1. IsSeq(lbs) /\ \A i \in DOMAIN lbs : \E n \in ToSet(ns) : n.id = lbs[i].id /\ ~n.internal
  BY Sources DEF Fresh
<1>2. es = [i \in DOMAIN lbs |-> Edge(lbs[i].id, HostNamed(ns, IF c.lbs = <<>> \/ c.lbs[i].onVms THEN "app" ELSE c.lbs[i].target))]
  BY DEF FrontingEdges
<1> HIDE DEF lbs, es
<1>3. DOMAIN es = DOMAIN lbs /\ es = [i \in DOMAIN es |-> es[i]]
  BY <1>2
<1>4. IsSeq(es)
  BY <1>1, <1>3, SeqOfPlaces
<1>5. ASSUME NEW i \in DOMAIN lbs PROVE Loose(es[i], ns)
  <2>1. PICK name : es[i] = Edge(lbs[i].id, HostNamed(ns, name))
    BY <1>2
  <2>2. HostNamed(ns, name) \in NodeIds(ns) \cup {Root}
    BY NameFinds
  <2>3. es[i].state = FALSE /\ es[i].source = lbs[i].id /\ es[i].target = HostNamed(ns, name)
    BY <2>1 DEF Edge
  <2> QED
    BY <1>1, <2>2, <2>3 DEF Loose
<1>6. \A e \in ToSet(es) : \E i \in DOMAIN lbs : e = es[i]
  BY <1>3 DEF ToSet
<1> QED
  BY <1>4, <1>5, <1>6 DEF es

\* The wires of a host.
Wires(c, ns, source, wires) == {Edge(source, ProviderOf(c, ns, w)) : w \in wires}
AppWires(c, ns) == {Wires(c, ns, OfKind(ns, "application")[a].id, c.apps[a].wires) : a \in DOMAIN OfKind(ns, "application")}
VmWires(c, ns) == IF OfKind(ns, "vms") = <<>> THEN {} ELSE Wires(c, ns, OfKind(ns, "vms")[1].id, c.vmsWires)

\* The wires drawn are those of the applications and of the machines;
LEMMA WireEdgesAre ==
    ASSUME NEW c, NEW ns
    PROVE  WireEdges(c, ns) = SetToSeq((UNION AppWires(c, ns)) \cup VmWires(c, ns))
BY Zenon DEF WireEdges, AppWires, VmWires, Wires

\* there are finitely many,
LEMMA WiresFinite ==
    ASSUME NEW c, NEW ns, NEW source, NEW wires, IsFiniteSet(wires)
    PROVE  IsFiniteSet(Wires(c, ns, source, wires))
<1> DEFINE f == [w \in wires |-> Edge(source, ProviderOf(c, ns, w))]
<1>1. Wires(c, ns, source, wires) = {f[w] : w \in wires}
  BY DEF Wires
<1> HIDE DEF f
<1> QED
  BY <1>1, FiniteImage

\* and each starts at an application or a machine.
LEMMA WiresLoose ==
    ASSUME NEW ns, Fresh(ns), NEW c, ConfigFits(c), Len(OfKind(ns, "application")) = Len(c.apps)
    PROVE  IsSeq(WireEdges(c, ns)) /\ \A e \in ToSet(WireEdges(c, ns)) : Loose(e, ns)
<1> DEFINE apps == OfKind(ns, "application")
           vms == OfKind(ns, "vms")
           A == AppWires(c, ns)
           V == VmWires(c, ns)
           W == (UNION A) \cup V
<1>1. /\ IsSeq(apps) /\ \A i \in DOMAIN apps : \E n \in ToSet(ns) : n.id = apps[i].id /\ ~n.internal
      /\ IsSeq(vms) /\ (vms # <<>> => 1 \in DOMAIN vms) /\ \A i \in DOMAIN vms : \E n \in ToSet(ns) : n.id = vms[i].id /\ ~n.internal
  BY Sources DEF Fresh
<1>2. IsSeq(c.apps) /\ (\A a \in ToSet(c.apps) : IsFiniteSet(a.wires)) /\ IsFiniteSet(c.vmsWires)
  BY DEF ConfigFits
<1>3. DOMAIN apps = DOMAIN c.apps /\ \A a \in DOMAIN apps : IsFiniteSet(c.apps[a].wires)
  BY <1>1, <1>2, PlacesOf
<1>4. A = {Wires(c, ns, apps[a].id, c.apps[a].wires) : a \in DOMAIN apps}
  BY DEF AppWires
<1>5. V = IF vms = <<>> THEN {} ELSE Wires(c, ns, vms[1].id, c.vmsWires)
  BY DEF VmWires
<1> HIDE DEF apps, vms, A, V
<1>6. IsFiniteSet(A)
  <2> DEFINE f == [a \in DOMAIN apps |-> Wires(c, ns, apps[a].id, c.apps[a].wires)]
  <2>1. A = {f[a] : a \in DOMAIN apps}
    BY <1>4
  <2>2. IsFiniteSet(DOMAIN apps)
    BY <1>1, PlacesOf, FS_Interval
  <2> HIDE DEF f
  <2>3. IsFiniteSet({f[a] : a \in DOMAIN apps})
    BY <2>2, FiniteImage
  <2> QED
    BY <2>1, <2>3
<1>7. \A T \in A : IsFiniteSet(T)
  <2> SUFFICES ASSUME NEW T \in A PROVE IsFiniteSet(T)
    OBVIOUS
  <2>1. PICK a \in DOMAIN apps : T = Wires(c, ns, apps[a].id, c.apps[a].wires)
    BY <1>4
  <2> QED
    BY <1>3, <2>1, WiresFinite
<1>8. IsFiniteSet(V)
  BY <1>2, <1>5, WiresFinite, FS_EmptySet
<1>9. IsFiniteSet(W)
  <2>1. IsFiniteSet(UNION A)
    BY <1>6, <1>7, FS_UNION
  <2> QED
    BY <1>8, <2>1, FS_Union
<1>10. ASSUME NEW source, NEW wires, \E n \in ToSet(ns) : n.id = source /\ ~n.internal
       PROVE  \A e \in Wires(c, ns, source, wires) : Loose(e, ns)
  <2> SUFFICES ASSUME NEW e \in Wires(c, ns, source, wires) PROVE Loose(e, ns)
    OBVIOUS
  <2>1. PICK w : e = Edge(source, ProviderOf(c, ns, w))
    BY DEF Wires
  <2>2. ProviderOf(c, ns, w) \in NodeIds(ns) \cup {Root}
    BY NameFinds
  <2>3. e.state = FALSE /\ e.source = source /\ e.target = ProviderOf(c, ns, w)
    BY <2>1 DEF Edge
  <2> QED
    BY <1>10, <2>2, <2>3 DEF Loose
<1>11. ASSUME NEW e \in W PROVE Loose(e, ns)
  <2>1. CASE e \in V
    <3>1. vms # <<>> /\ e \in Wires(c, ns, vms[1].id, c.vmsWires)
      BY <1>5, <2>1
    <3> QED
      BY <1>1, <1>10, <3>1
  <2>2. CASE e \in UNION A
    <3>1. PICK a \in DOMAIN apps : e \in Wires(c, ns, apps[a].id, c.apps[a].wires)
      BY <1>4, <2>2
    <3> QED
      BY <1>1, <1>10, <3>1
  <2> QED
    BY <2>1, <2>2
<1>12. WireEdges(c, ns) = SetToSeq(W)
  BY WireEdgesAre DEF A, V
<1> HIDE DEF W
<1>13. SetToSeq(W) \in Seq(W) /\ ToSet(SetToSeq(W)) = W
  BY <1>9, SequenceOfSet
<1> QED
  BY <1>11, <1>12, <1>13 DEF IsSeq

RdiTarget(c, ns) == IF OfKind(ns, "rdi") = <<>> THEN Root ELSE Named(ns, "database", c.rdi[1])
Beside(ns, target) ==
    IF target = Root THEN {} ELSE {n.id : n \in {n \in ToSet(ns) : n.internal /\ n.parent = NodeOf(ns, target).parent}}
StateLink(source, target) == [Edge(source, target) EXCEPT !.state = TRUE]

\* The edges of the RDI: to its target, and to a state database beside it;
LEMMA RdiEdgesAre ==
    ASSUME NEW c, NEW ns, NEW target, target = RdiTarget(c, ns)
    PROVE  RdiEdges(c, ns) =
               (IF target = Root THEN <<>> ELSE <<Edge(OfKind(ns, "rdi")[1].id, target)>>)
               \o (IF Beside(ns, target) = {} THEN <<>> ELSE <<StateLink(OfKind(ns, "rdi")[1].id, Min(Beside(ns, target)))>>)
BY Zenon DEF RdiEdges, RdiTarget, Beside, StateLink

\* The wires of a new canvas that are drawn.
Drawn(e, ns) == EdgeFits(e, ns, {})

\* both can be drawn.
LEMMA RdiDrawn ==
    ASSUME NEW ns, Fresh(ns), NEW c
    PROVE  IsSeq(RdiEdges(c, ns)) /\ \A e \in ToSet(RdiEdges(c, ns)) : Drawn(e, ns)
<1> DEFINE rdis == OfKind(ns, "rdi")
           target == RdiTarget(c, ns)
           beside == Beside(ns, target)
           first == IF target = Root THEN <<>> ELSE <<Edge(rdis[1].id, target)>>
           second == IF beside = {} THEN <<>> ELSE <<StateLink(rdis[1].id, Min(beside))>>
<1>0. IsSeq(ns) /\ IdsUnique(ns) /\ Len(ns) \in Nat /\ NodeIds(ns) = 1..Len(ns)
  BY DEF Fresh, Drawable
<1>1. rdis # <<>> => \E n \in ToSet(ns) : n.id = rdis[1].id /\ ~n.internal
  BY Sources DEF Fresh
<1>2. target # Root => rdis # <<>> /\ \E n \in ToSet(ns) : n.id = target /\ n.kind = "database"
  BY NameFinds DEF RdiTarget
<1>3. target = Root => beside = {}
  BY DEF Beside
<1>4. RdiEdges(c, ns) = first \o second
  BY RdiEdgesAre
<1>5. beside \subseteq NodeIds(ns) /\ \A i \in beside : \E n \in ToSet(ns) : n.id = i /\ n.internal
  BY DEF Beside, NodeIds
<1> HIDE DEF rdis, target, beside
<1>6. beside # {} => Min(beside) \in beside
  <2>1. beside \subseteq Nat
    BY <1>0, <1>5
  <2> QED
    BY <2>1, LeastIs
<1>7. IsSeq(first) /\ \A e \in ToSet(first) : Drawn(e, ns)
  <2>1. CASE target = Root
    BY <2>1, NoPlaces
  <2>2. CASE target # Root
    <3>1. PICK e : e = Edge(rdis[1].id, target)
      OBVIOUS
    <3>2. first = <<e>> /\ IsSeq(<<e>>) /\ ToSet(<<e>>) = {e}
      BY <2>2, <3>1, OneElement
    <3>3. e.source = rdis[1].id /\ e.target = target /\ e.state = FALSE
      BY <3>1 DEF Edge
    <3>4. target \in NodeIds(ns)
      BY <1>2, <2>2 DEF NodeIds
    <3>5. Drawn(e, ns)
      BY <1>1, <1>2, <2>2, <3>3, <3>4 DEF Drawn, EdgeFits
    <3> QED
      BY <3>2, <3>5
  <2> QED
    BY <2>1, <2>2
<1>8. IsSeq(second) /\ \A e \in ToSet(second) : Drawn(e, ns)
  <2>1. CASE beside = {}
    BY <2>1, NoPlaces
  <2>2. CASE beside # {}
    <3>1. PICK e : e = StateLink(rdis[1].id, Min(beside))
      OBVIOUS
    <3>2. second = <<e>> /\ IsSeq(<<e>>) /\ ToSet(<<e>>) = {e}
      BY <2>2, <3>1, OneElement
    <3>3. e.source = rdis[1].id /\ e.target = Min(beside) /\ e.state = TRUE
      BY <3>1 DEF StateLink, Edge
    <3>4. PICK b \in ToSet(ns) : b.id = Min(beside) /\ b.internal
      BY <1>5, <1>6, <2>2
    <3>5. \A n \in ToSet(ns) : n.id = e.target => n.internal
      <4>1. \A n \in ToSet(ns) : n.id = b.id => n = b
        BY <1>0, UniqueById
      <4> QED
        BY <3>3, <3>4, <4>1
    <3>6. e.target \in NodeIds(ns)
      BY <3>3, <3>4 DEF NodeIds
    <3>7. \E n \in ToSet(ns) : n.id = e.source /\ ~n.internal
      BY <1>1, <1>2, <1>3, <2>2, <3>3
    <3>8. Drawn(e, ns)
      BY <3>3, <3>5, <3>6, <3>7 DEF Drawn, EdgeFits
    <3> QED
      BY <3>2, <3>8
  <2> QED
    BY <2>1, <2>2
<1> HIDE DEF first, second
<1>9. IsSeq(first \o second) /\ ToSet(first \o second) = ToSet(first) \cup ToSet(second)
  BY <1>7, <1>8, ConcatIs
<1> QED
  BY <1>4, <1>7, <1>8, <1>9

\* The edges drawn are those found that lead anywhere, and those of the RDI.
LEMMA EdgesOfIs ==
    ASSUME NEW c, NEW ns, NEW found, found = FrontingEdges(c, ns) \o WireEdges(c, ns)
    PROVE  EdgesOf(c, ns) = Keep(found, LAMBDA e : e.target \notin {Root, e.source}) \o RdiEdges(c, ns)
BY Zenon DEF EdgesOf

\* A canvas made from a configuration.
LEMMA CanvasDrawn ==
    ASSUME NEW c, ConfigFits(c), NEW m, NEW ns, ns = NodesOf(c, m)
    PROVE  Drawable(ns, EdgesOf(c, ns), Len(ns) + 1, {}) /\ Len(ns) \in Nat
<1>1. Fresh(ns) /\ Len(OfKind(ns, "application")) = Len(c.apps)
  BY NodesDrawn DEF Fresh
<1>2. PICK found : found = FrontingEdges(c, ns) \o WireEdges(c, ns)
  OBVIOUS
<1>3. IsSeq(found) /\ \A e \in ToSet(found) : Loose(e, ns)
  <2>1. IsSeq(FrontingEdges(c, ns)) /\ \A e \in ToSet(FrontingEdges(c, ns)) : Loose(e, ns)
    BY <1>1, FrontingLoose
  <2>2. IsSeq(WireEdges(c, ns)) /\ \A e \in ToSet(WireEdges(c, ns)) : Loose(e, ns)
    BY <1>1, WiresLoose
  <2>3. IsSeq(found) /\ ToSet(found) = ToSet(FrontingEdges(c, ns)) \cup ToSet(WireEdges(c, ns))
    BY <1>2, <2>1, <2>2, ConcatIs
  <2> QED
    BY <2>1, <2>2, <2>3
<1>4. PICK k : k = Kept(found, {e \in ToSet(found) : e.target \notin {Root, e.source}})
  OBVIOUS
<1>5. EdgesOf(c, ns) = k \o RdiEdges(c, ns)
  BY <1>2, <1>3, <1>4, EdgesOfIs, FoundEdges
<1>6. IsSeq(k) /\ \A e \in ToSet(k) : Loose(e, ns) /\ e.target # Root
  <2>1. IsSeq(k) /\ ToSet(k) = ToSet(found) \cap {e \in ToSet(found) : e.target \notin {Root, e.source}}
    BY <1>3, <1>4, KeptIsSeq
  <2> QED
    BY <1>3, <2>1
<1>7. \A e \in ToSet(k) : Drawn(e, ns)
  BY <1>6 DEF Loose, Drawn, EdgeFits
<1>8. IsSeq(RdiEdges(c, ns)) /\ \A e \in ToSet(RdiEdges(c, ns)) : Drawn(e, ns)
  BY <1>1, RdiDrawn
<1>9. IsSeq(EdgesOf(c, ns)) /\ ToSet(EdgesOf(c, ns)) = ToSet(k) \cup ToSet(RdiEdges(c, ns))
  BY <1>5, <1>6, <1>8, ConcatIs
<1>10. \A e \in ToSet(EdgesOf(c, ns)) : EdgeFits(e, ns, {})
  BY <1>7, <1>8, <1>9 DEF Drawn
<1> QED
  BY <1>1, <1>9, <1>10 DEF Drawable, Fresh

\* Opened with it, or filled from the form.
LEMMA CanvasFilled ==
    ASSUME NEW c, ConfigFits(c), NEW m, NEW ns, ns = NodesOf(c, m), NEW r, r = ReconcileRdi(ns, EdgesOf(c, ns))
    PROVE  Drawable(r.nodes, r.edges, Len(ns) + 1, DroppedFrom(ns, r.nodes)) /\ StatesMatch(r.nodes, r.edges)
<1>1. PICK es : es = EdgesOf(c, ns)
  OBVIOUS
<1>2. PICK next : next = Len(ns) + 1
  OBVIOUS
<1>3. PICK gone : gone = {}
  OBVIOUS
<1>4. PICK more : more = DroppedFrom(ns, r.nodes)
  OBVIOUS
<1>5. Drawable(ns, es, next, gone)
  BY <1>1, <1>2, <1>3, CanvasDrawn
<1>6. IdsBelow(more, next)
  <2>1. \A n \in ToSet(ns) : NodeFits(n, next)
    BY <1>5 DEF Drawable
  <2> QED
    BY <1>4, <2>1 DEF IdsBelow, DroppedFrom, Internals, NodeFits
<1>7. gone \subseteq more /\ DroppedFrom(ns, r.nodes) \subseteq more /\ r = ReconcileRdi(ns, es)
  BY <1>1, <1>3, <1>4
<1>8. Drawable(r.nodes, r.edges, next, more) /\ StatesMatch(r.nodes, r.edges)
  BY <1>5, <1>6, <1>7, Reconciled
<1> QED
  BY <1>2, <1>4, <1>8

\* An empty canvas.
LEMMA EmptyCanvas ==
    ASSUME NEW next \in Nat \ {0}
    PROVE  Drawable(<<>>, <<>>, next, {}) /\ StatesMatch(<<>>, <<>>)
<1>1. IsSeq(<<>>) /\ ToSet(<<>>) = {}
  BY NoPlaces
<1>2. DOMAIN <<>> = {}
  BY EmptySeq
<1>3. Drawable(<<>>, <<>>, next, {})
  BY <1>1, <1>2 DEF Drawable, IdsUnique, IdsBelow
<1>4. DesiredStates(<<>>, <<>>) = {}
  BY <1>1 DEF DesiredStates
<1>5. Internals(<<>>) = {} /\ StateEdges(<<>>) = {}
  BY <1>1 DEF Internals, StateEdges
<1>6. StatesMatch(<<>>, <<>>)
  BY <1>4, <1>5 DEF StatesMatch
<1> QED
  BY <1>3, <1>6

-----------------------------------------------------------------------------
(* What the views hand to each other is a configuration.                   *)

LEMMA ConfigIsFit == ASSUME NEW c, IsConfig(c) PROVE ConfigFits(c)
BY DEF IsConfig, ConfigFits, IsCluster, IsApp, IsDatabase, ListFields

\* A configuration with one of its fields set is a configuration: a list,
LEMMA ListSet ==
    ASSUME NEW c, IsConfig(c), NEW x \in {"operators", "storage", "lbs", "rdi"}, NEW v, IsSeq(v)
    PROVE  IsConfig([c EXCEPT ![x] = v])
<1> DEFINE d == [c EXCEPT ![x] = v]
<1>1. DOMAIN d = ConfigFields /\ d[x] = v /\ \A f \in ConfigFields : f # x => d[f] = c[f]
  BY DEF IsConfig, ConfigFields, ListFields
<1> HIDE DEF d
<1>2. x \in ListFields /\ x # "clusters" /\ x # "apps" /\ x # "vmsWires" /\ {"clusters", "apps", "vmsWires"} \subseteq ConfigFields
  BY DEF ListFields, ConfigFields
<1>3. d.clusters = c.clusters /\ d.apps = c.apps /\ d.vmsWires = c.vmsWires
  BY <1>1, <1>2
<1>4. \A f \in ListFields : IsSeq(d[f])
  BY <1>1, <1>2 DEF IsConfig, ConfigFields
<1> QED
  BY <1>1, <1>3, <1>4 DEF IsConfig, d

\* its clusters,
LEMMA ClustersSet ==
    ASSUME NEW c, IsConfig(c), NEW v, IsSeq(v), \A k \in ToSet(v) : IsCluster(k)
    PROVE  IsConfig([c EXCEPT !.clusters = v])
<1> DEFINE d == [c EXCEPT !.clusters = v]
<1>1. DOMAIN d = ConfigFields /\ d.clusters = v /\ \A f \in ConfigFields : f # "clusters" => d[f] = c[f]
  BY DEF IsConfig, ConfigFields, ListFields
<1> HIDE DEF d
<1>2. d.apps = c.apps /\ d.vmsWires = c.vmsWires
  BY <1>1 DEF ListFields, ConfigFields
<1>3. \A f \in ListFields : IsSeq(d[f])
  BY <1>1 DEF IsConfig, ConfigFields
<1> QED
  BY <1>1, <1>2, <1>3 DEF IsConfig, d

\* its applications,
LEMMA AppsSet ==
    ASSUME NEW c, IsConfig(c), NEW v, IsSeq(v), \A a \in ToSet(v) : IsApp(a)
    PROVE  IsConfig([c EXCEPT !.apps = v])
<1> DEFINE d == [c EXCEPT !.apps = v]
<1>1. DOMAIN d = ConfigFields /\ d.apps = v /\ \A f \in ConfigFields : f # "apps" => d[f] = c[f]
  BY DEF IsConfig, ConfigFields, ListFields
<1> HIDE DEF d
<1>2. d.clusters = c.clusters /\ d.vmsWires = c.vmsWires
  BY <1>1 DEF ListFields, ConfigFields
<1>3. \A f \in ListFields : IsSeq(d[f])
  BY <1>1 DEF IsConfig, ConfigFields
<1> QED
  BY <1>1, <1>2, <1>3 DEF IsConfig, d

\* or the rest.
LEMMA OtherSet ==
    ASSUME NEW c, IsConfig(c), NEW v, NEW w, IsFiniteSet(w)
    PROVE  /\ IsConfig([c EXCEPT !.vms = v]) /\ IsConfig([c EXCEPT !.exposed = v])
           /\ IsConfig([c EXCEPT !.vmsWires = w])
<1> DEFINE d == [c EXCEPT !.vms = v]
           e == [c EXCEPT !.exposed = v]
           g == [c EXCEPT !.vmsWires = w]
<1>1. /\ DOMAIN d = ConfigFields /\ \A f \in ConfigFields : f # "vms" => d[f] = c[f]
      /\ DOMAIN e = ConfigFields /\ \A f \in ConfigFields : f # "exposed" => e[f] = c[f]
      /\ DOMAIN g = ConfigFields /\ g.vmsWires = w /\ \A f \in ConfigFields : f # "vmsWires" => g[f] = c[f]
  BY DEF IsConfig, ConfigFields, ListFields
<1> HIDE DEF d, e, g
<1>2. /\ d.clusters = c.clusters /\ d.apps = c.apps /\ d.vmsWires = c.vmsWires
      /\ e.clusters = c.clusters /\ e.apps = c.apps /\ e.vmsWires = c.vmsWires
      /\ g.clusters = c.clusters /\ g.apps = c.apps
  BY <1>1 DEF ListFields, ConfigFields
<1>3. \A f \in ListFields : d[f] = c[f] /\ e[f] = c[f] /\ g[f] = c[f]
  BY <1>1 DEF ConfigFields, ListFields
<1> QED
  BY <1>1, <1>2, <1>3 DEF IsConfig, d, e, g

\* The applications of a payload are some.
LEMMA PayloadAppsAre ==
    ASSUME NEW f, IsConfig(f), NEW m
    PROVE  IsSeq(PayloadApps(f, m)) /\ \A a \in ToSet(PayloadApps(f, m)) : IsApp(a)
<1> DEFINE t == PayloadApps(f, m)
<1>1. IsSeq(f.apps) /\ \A a \in ToSet(f.apps) : IsApp(a)
  BY DEF IsConfig, ListFields
<1>2. /\ DOMAIN t = DOMAIN f.apps /\ t = [i \in DOMAIN t |-> t[i]]
      /\ \A i \in DOMAIN f.apps : t[i] = [name |-> OrElse(f.apps[i].name, "app"),
                                          wires |-> {w \in f.apps[i].wires : m = "vm" \/ w[1] # "loadbalancer"}]
  BY DEF PayloadApps, MapSeq
<1> HIDE DEF t
<1>3. IsSeq(t) /\ \A x \in ToSet(t) : \E i \in DOMAIN f.apps : x = t[i] /\ f.apps[i] \in ToSet(f.apps)
  BY <1>1, <1>2, MadeOf
<1>4. ASSUME NEW x \in ToSet(t) PROVE IsApp(x)
  <2>1. PICK i \in DOMAIN f.apps : x = t[i] /\ f.apps[i] \in ToSet(f.apps)
    BY <1>3
  <2>2. x.wires \subseteq f.apps[i].wires /\ DOMAIN x = {"name", "wires"}
    <3>1. PICK a : a = f.apps[i]
      OBVIOUS
    <3>2. x = [name |-> OrElse(a.name, "app"), wires |-> {w \in a.wires : m = "vm" \/ w[1] # "loadbalancer"}]
      BY <1>2, <2>1, <3>1
    <3> QED
      BY <3>1, <3>2
  <2>3. IsFiniteSet(f.apps[i].wires)
    BY <1>1, <2>1 DEF IsApp
  <2> QED
    BY <2>2, <2>3, FS_Subset DEF IsApp
<1> QED
  BY <1>3, <1>4 DEF t

\* Clusters that differ in their operator.
LEMMA Reassigned ==
    ASSUME NEW f, IsConfig(f), NEW t, DOMAIN t = DOMAIN f.clusters, t = [i \in DOMAIN t |-> t[i]],
           \A i \in DOMAIN f.clusters : \E o : t[i] = [f.clusters[i] EXCEPT !.operator = o]
    PROVE  IsSeq(t) /\ \A k \in ToSet(t) : IsCluster(k)
<1>1. IsSeq(f.clusters) /\ \A k \in ToSet(f.clusters) : IsCluster(k)
  BY DEF IsConfig, ListFields
<1>2. IsSeq(t) /\ \A x \in ToSet(t) : \E i \in DOMAIN f.clusters : x = t[i] /\ f.clusters[i] \in ToSet(f.clusters)
  BY <1>1, MadeOf
<1>3. ASSUME NEW x \in ToSet(t) PROVE IsCluster(x)
  <2>1. PICK i \in DOMAIN f.clusters : x = t[i] /\ f.clusters[i] \in ToSet(f.clusters)
    BY <1>2
  <2>2. PICK k : k = f.clusters[i]
    OBVIOUS
  <2>3. PICK o : x = [k EXCEPT !.operator = o]
    BY <2>1, <2>2
  <2>4. IsCluster(k)
    BY <1>1, <2>1, <2>2
  <2>5. DOMAIN x = DOMAIN k /\ x.databases = k.databases
    BY <2>3, <2>4 DEF IsCluster
  <2> QED
    BY <2>4, <2>5 DEF IsCluster
<1> QED
  BY <1>2, <1>3

\* What the wizard sends for virtual machines is a configuration,
LEMMA VmPayloadIs == ASSUME NEW f, IsConfig(f) PROVE IsConfig(VmPayload(f))
<1> DEFINE apps == PayloadApps(f, "vm")
           lbs == MapSeq(f.lbs, LAMBDA lb : [lb EXCEPT !.name = OrElse(lb.name, lb.target \o "-lb")])
           open == f.vms # <<>> /\ f.exposed
           wires == IF f.vms = <<>> THEN {} ELSE f.vmsWires
           clusters == MapSeq(f.clusters, LAMBDA k : [k EXCEPT !.operator = Unnamed])
           p == VmPayload(f)
<1>1. IsSeq(apps) /\ \A a \in ToSet(apps) : IsApp(a)
  BY PayloadAppsAre
<1>2. IsSeq(lbs)
  <2>1. DOMAIN lbs = DOMAIN f.lbs /\ lbs = [i \in DOMAIN lbs |-> lbs[i]]
    BY DEF MapSeq
  <2> HIDE DEF lbs
  <2>2. IsSeq(f.lbs)
    BY DEF IsConfig, ListFields
  <2> QED
    BY <2>1, <2>2, SeqOfPlaces
<1>3. IsFiniteSet(wires)
  BY FS_EmptySet DEF IsConfig
<1>4. IsSeq(clusters) /\ \A k \in ToSet(clusters) : IsCluster(k)
  <2>1. /\ DOMAIN clusters = DOMAIN f.clusters /\ clusters = [i \in DOMAIN clusters |-> clusters[i]]
        /\ \A i \in DOMAIN f.clusters : \E o : clusters[i] = [f.clusters[i] EXCEPT !.operator = o]
    BY DEF MapSeq
  <2> HIDE DEF clusters
  <2> QED
    BY <2>1, Reassigned
<1>5. IsSeq(<<>>)
  BY NoPlaces
<1>6. p = [f EXCEPT !.operators = <<>>, !.apps = apps, !.lbs = lbs, !.exposed = f.vms # <<>> /\ @,
                    !.vmsWires = IF f.vms = <<>> THEN {} ELSE @, !.clusters = clusters]
  BY Zenon DEF VmPayload
<1>7. IsSeq(f.storage) /\ IsSeq(f.rdi) /\ DOMAIN f = ConfigFields
  BY DEF IsConfig, ListFields
<1> HIDE DEF apps, lbs, clusters, p
<1>8. /\ DOMAIN p = ConfigFields /\ p.operators = <<>> /\ p.apps = apps /\ p.lbs = lbs /\ p.clusters = clusters
      /\ p.storage = f.storage /\ p.rdi = f.rdi /\ p.vmsWires = wires
  BY <1>6, <1>7 DEF ConfigFields, ListFields
<1> HIDE DEF wires
<1>9. \A x \in ListFields : IsSeq(p[x])
  BY <1>1, <1>2, <1>4, <1>5, <1>7, <1>8 DEF ListFields
<1> QED
  BY <1>1, <1>3, <1>4, <1>8, <1>9 DEF IsConfig, p

\* and what it sends for a cluster of Kubernetes.
LEMMA GkePayloadIs == ASSUME NEW f, IsConfig(f) PROVE IsConfig(GkePayload(f))
<1> DEFINE apps == PayloadApps(f, "gke")
           clusters == MapSeq(f.clusters, LAMBDA k : [k EXCEPT !.operator = OrElse(k.operator, f.operators[1])])
           p == GkePayload(f)
<1>1. IsSeq(apps) /\ \A a \in ToSet(apps) : IsApp(a)
  BY PayloadAppsAre
<1>2. IsSeq(clusters) /\ \A k \in ToSet(clusters) : IsCluster(k)
  <2>1. /\ DOMAIN clusters = DOMAIN f.clusters /\ clusters = [i \in DOMAIN clusters |-> clusters[i]]
        /\ \A i \in DOMAIN f.clusters : \E o : clusters[i] = [f.clusters[i] EXCEPT !.operator = o]
    BY DEF MapSeq
  <2> HIDE DEF clusters
  <2> QED
    BY <2>1, Reassigned
<1>3. IsSeq(<<>>) /\ IsFiniteSet({})
  BY NoPlaces, FS_EmptySet
<1>4. p = [f EXCEPT !.vms = <<>>, !.exposed = FALSE, !.vmsWires = {}, !.lbs = <<>>, !.apps = apps, !.clusters = clusters]
  BY Zenon DEF GkePayload
<1>5. IsSeq(f.storage) /\ IsSeq(f.rdi) /\ IsSeq(f.operators) /\ DOMAIN f = ConfigFields
  BY DEF IsConfig, ListFields
<1> HIDE DEF apps, clusters, p
<1>6. /\ DOMAIN p = ConfigFields /\ p.operators = f.operators /\ p.apps = apps /\ p.lbs = <<>> /\ p.clusters = clusters
      /\ p.storage = f.storage /\ p.rdi = f.rdi /\ p.vmsWires = {}
  BY <1>4, <1>5 DEF ConfigFields, ListFields
<1>7. \A x \in ListFields : IsSeq(p[x])
  BY <1>1, <1>2, <1>3, <1>5, <1>6 DEF ListFields
<1> QED
  BY <1>1, <1>2, <1>3, <1>6, <1>7 DEF IsConfig, p

\* The form read from a configuration is one.
LEMMA FormIsConfig == ASSUME NEW c, IsConfig(c), NEW m PROVE IsConfig(FormFromConfig(c, m))
<1> DEFINE clusters == FormDatabases(c.clusters)
           ops == IF m = "gke" /\ c.operators = <<>> THEN <<"operator">> ELSE c.operators
           p == FormFromConfig(c, m)
<1>1. IsSeq(ops)
  BY OneElement DEF IsConfig, ListFields
<1>2. IsSeq(c.clusters) /\ \A k \in ToSet(c.clusters) : IsCluster(k)
  BY DEF IsConfig, ListFields
<1>3. /\ DOMAIN clusters = DOMAIN c.clusters /\ clusters = [i \in DOMAIN clusters |-> clusters[i]]
      /\ \A i \in DOMAIN c.clusters :
            clusters[i] = [c.clusters[i] EXCEPT !.databases = MapSeq(c.clusters[i].databases, LAMBDA b : [b EXCEPT !.internal = FALSE])]
  BY DEF FormDatabases, MapSeq
<1> HIDE DEF clusters
<1>4. IsSeq(clusters) /\ \A x \in ToSet(clusters) : \E i \in DOMAIN c.clusters : x = clusters[i] /\ c.clusters[i] \in ToSet(c.clusters)
  BY <1>2, <1>3, MadeOf
<1>5. ASSUME NEW x \in ToSet(clusters) PROVE IsCluster(x)
  <2>1. PICK i \in DOMAIN c.clusters : x = clusters[i] /\ c.clusters[i] \in ToSet(c.clusters)
    BY <1>4
  <2>2. PICK k : k = c.clusters[i]
    OBVIOUS
  <2>3. IsCluster(k)
    BY <1>2, <2>1, <2>2
  <2> DEFINE t == MapSeq(k.databases, LAMBDA b : [b EXCEPT !.internal = FALSE])
  <2>4. x = [k EXCEPT !.databases = t]
    BY <1>3, <2>1, <2>2
  <2>5. DOMAIN t = DOMAIN k.databases /\ t = [j \in DOMAIN t |-> t[j]]
        /\ \A j \in DOMAIN k.databases : t[j] = [k.databases[j] EXCEPT !.internal = FALSE]
    BY DEF MapSeq
  <2> HIDE DEF t
  <2>6. IsSeq(t) /\ \A y \in ToSet(t) : \E j \in DOMAIN k.databases : y = t[j] /\ k.databases[j] \in ToSet(k.databases)
    BY <2>3, <2>5, MadeOf DEF IsCluster
  <2>7. ASSUME NEW y \in ToSet(t) PROVE IsDatabase(y)
    <3>1. PICK j \in DOMAIN k.databases : y = t[j] /\ k.databases[j] \in ToSet(k.databases)
      BY <2>6
    <3>2. y = [k.databases[j] EXCEPT !.internal = FALSE] /\ IsDatabase(k.databases[j])
      BY <2>3, <2>5, <3>1 DEF IsCluster
    <3> QED
      BY <3>2 DEF IsDatabase
  <2>8. DOMAIN x = {"name", "operator", "databases"} /\ x.databases = t
    BY <2>3, <2>4 DEF IsCluster
  <2> QED
    BY <2>6, <2>7, <2>8 DEF IsCluster
<1>6. p = [c EXCEPT !.operators = IF m = "gke" /\ @ = <<>> THEN <<"operator">> ELSE @, !.clusters = clusters]
  BY Zenon DEF FormFromConfig, clusters
<1>7. DOMAIN c = ConfigFields
  BY DEF IsConfig
<1> HIDE DEF p
<1>8. /\ DOMAIN p = ConfigFields /\ p.operators = ops /\ p.clusters = clusters
      /\ \A x \in ConfigFields : x \notin {"operators", "clusters"} => p[x] = c[x]
  BY <1>6, <1>7 DEF ConfigFields, ListFields
<1> HIDE DEF ops
<1>9. \A x \in ListFields : IsSeq(p[x])
  BY <1>1, <1>4, <1>8 DEF ListFields, ConfigFields, IsConfig
<1>10. p.apps = c.apps /\ p.vmsWires = c.vmsWires
  BY <1>8 DEF ListFields, ConfigFields
<1> QED
  BY <1>5, <1>8, <1>9, <1>10 DEF IsConfig, p

\* The wires of a canvas are finitely many.
LEMMA WiresAreFinite ==
    ASSUME NEW ns, NEW es, IsSeq(es), NEW ids
    PROVE  IsFiniteSet(WiresOf(ns, es, ids))
<1> DEFINE S == {e \in ToSet(es) : /\ e.source \in ids /\ e.target \notin ids
                                   /\ KindOf(ns, e.target) \in ProvidersOnly \cup Hosts \cup {"loadbalancer"}
                                   /\ ~NodeOf(ns, e.target).internal}
           f == [e \in S |-> <<WireList(KindOf(ns, e.target)), ProviderName(ns, es, NodeOf(ns, e.target))>>]
<1>1. IsFiniteSet(S)
  <2>1. IsFiniteSet(ToSet(es))
    BY FiniteToSet DEF IsSeq
  <2> QED
    BY <2>1, FS_Subset
<1>2. WiresOf(ns, es, ids) = {f[e] : e \in S}
  BY DEF WiresOf
<1> HIDE DEF S, f
<1> QED
  BY <1>1, <1>2, FiniteImage

\* The clusters of a canvas are clusters of a configuration,
LEMMA CanvasClustersAre ==
    ASSUME NEW ns, IsSeq(ns), NEW es
    PROVE  IsSeq(CanvasClusters(ns, es)) /\ \A k \in ToSet(CanvasClusters(ns, es)) : IsCluster(k)
<1> DEFINE s == OfKind(ns, "cluster")
           t == CanvasClusters(ns, es)
           Operator(c) == IF c.parent = Root THEN Unnamed ELSE ProviderName(ns, es, NodeOf(ns, c.parent))
<1>1. IsSeq(s)
  BY KindElements
<1>2. t = [i \in DOMAIN s |-> [name |-> s[i].name, operator |-> Operator(s[i]), databases |-> CanvasDatabases(ns, es, s[i])]]
  BY DEF CanvasClusters, MapSeq
<1> HIDE DEF s, t, Operator
<1>3. DOMAIN t = DOMAIN s /\ t = [i \in DOMAIN t |-> t[i]]
  BY <1>2
<1>4. IsSeq(t) /\ \A x \in ToSet(t) : \E i \in DOMAIN s : x = t[i] /\ s[i] \in ToSet(s)
  BY <1>1, <1>3, MadeOf
<1>5. ASSUME NEW c PROVE IsSeq(CanvasDatabases(ns, es, c)) /\ \A b \in ToSet(CanvasDatabases(ns, es, c)) : IsDatabase(b)
  <2> DEFINE own == Keep(ns, LAMBDA n : n.kind = "database" /\ n.parent = c.id /\ ~n.internal)
             dbs == CanvasDatabases(ns, es, c)
  <2>1. IsSeq(own)
    <3>1. PICK T : T = {n \in ToSet(ns) : n.kind = "database" /\ n.parent = c.id /\ ~n.internal}
      OBVIOUS
    <3>2. own = Kept(ns, T)
      BY <3>1, DatabasesKept
    <3> HIDE DEF own
    <3> QED
      BY <3>2, KeptIsSeq
  <2>2. dbs = MapSeq(own, LAMBDA n : [name |-> ProviderName(ns, es, n), internal |-> FALSE])
    BY Zenon DEF CanvasDatabases
  <2> HIDE DEF own, dbs
  <2>3. dbs = [i \in DOMAIN own |-> [name |-> ProviderName(ns, es, own[i]), internal |-> FALSE]]
    BY <2>2 DEF MapSeq
  <2>4. DOMAIN dbs = DOMAIN own /\ dbs = [i \in DOMAIN dbs |-> dbs[i]]
    BY <2>3
  <2>5. IsSeq(dbs) /\ \A x \in ToSet(dbs) : \E i \in DOMAIN own : x = dbs[i] /\ own[i] \in ToSet(own)
    BY <2>1, <2>4, MadeOf
  <2>6. ASSUME NEW x \in ToSet(dbs) PROVE IsDatabase(x)
    <3>1. PICK i \in DOMAIN own : x = dbs[i]
      BY <2>5
    <3>2. x = [name |-> ProviderName(ns, es, own[i]), internal |-> FALSE]
      BY <2>3, <3>1
    <3> QED
      BY <3>2 DEF IsDatabase
  <2> QED
    BY <2>5, <2>6 DEF dbs
<1>6. ASSUME NEW x \in ToSet(t) PROVE IsCluster(x)
  <2>1. PICK i \in DOMAIN s : x = t[i]
    BY <1>4
  <2>2. DOMAIN x = {"name", "operator", "databases"} /\ x.databases = CanvasDatabases(ns, es, s[i])
    BY <1>2, <2>1
  <2> QED
    BY <1>5, <2>2 DEF IsCluster
<1> QED
  BY <1>4, <1>6 DEF t

\* and its applications are.
LEMMA CanvasAppsAre ==
    ASSUME NEW ns, IsSeq(ns), NEW es, IsSeq(es)
    PROVE  IsSeq(CanvasApps(ns, es)) /\ \A a \in ToSet(CanvasApps(ns, es)) : IsApp(a)
<1> DEFINE s == OfKind(ns, "application")
           t == CanvasApps(ns, es)
<1>1. IsSeq(s)
  BY KindElements
<1>2. t = [i \in DOMAIN s |-> [name |-> ProviderName(ns, es, s[i]), wires |-> WiresOf(ns, es, {s[i].id})]]
  BY DEF CanvasApps, MapSeq
<1> HIDE DEF s, t
<1>3. DOMAIN t = DOMAIN s /\ t = [i \in DOMAIN t |-> t[i]]
  BY <1>2
<1>4. IsSeq(t) /\ \A x \in ToSet(t) : \E i \in DOMAIN s : x = t[i] /\ s[i] \in ToSet(s)
  BY <1>1, <1>3, MadeOf
<1>5. ASSUME NEW x \in ToSet(t) PROVE IsApp(x)
  <2>1. PICK i \in DOMAIN s : x = t[i]
    BY <1>4
  <2>2. DOMAIN x = {"name", "wires"} /\ x.wires = WiresOf(ns, es, {s[i].id})
    BY <1>2, <2>1
  <2> QED
    BY <2>2, WiresAreFinite DEF IsApp
<1> QED
  BY <1>4, <1>5 DEF t

\* A list with an entry for each node of a kind.
LEMMA ListOfKind ==
    ASSUME NEW ns, IsSeq(ns), NEW kind, NEW t, DOMAIN t = DOMAIN OfKind(ns, kind), t = [i \in DOMAIN t |-> t[i]]
    PROVE  IsSeq(t)
<1>1. IsSeq(OfKind(ns, kind))
  BY KindElements
<1> QED
  BY <1>1, SeqOfPlaces

\* What a canvas is read as is a configuration.
LEMMA CreateInputIs ==
    ASSUME NEW ns, IsSeq(ns), NEW es, IsSeq(es), NEW m
    PROVE  IsConfig(ToCreateInput(ns, es, m))
<1> DEFINE ops == MapSeq(OfKind(ns, "operator"), LAMBDA o : ProviderName(ns, es, o))
           machines == FlattenSeq(MapSeq(OfKind(ns, "vms"), LAMBDA v : v.machines))
           sto == CanvasStorage(ns, es)
           lbs == CanvasBalancers(ns, es, m)
           rdi == CanvasRdi(ns, es)
           clusters == CanvasClusters(ns, es)
           apps == CanvasApps(ns, es)
           wires == WiresOf(ns, es, {n.id : n \in ToSet(OfKind(ns, "vms"))})
           p == ToCreateInput(ns, es, m)
<1>1. IsSeq(ops)
  <2>1. DOMAIN ops = DOMAIN OfKind(ns, "operator") /\ ops = [i \in DOMAIN ops |-> ops[i]]
    BY DEF MapSeq
  <2> HIDE DEF ops
  <2> QED
    BY <2>1, ListOfKind
<1>2. IsSeq(sto)
  <2>1. DOMAIN sto = DOMAIN OfKind(ns, "storage") /\ sto = [i \in DOMAIN sto |-> sto[i]]
    BY DEF CanvasStorage, MapSeq
  <2> HIDE DEF sto
  <2> QED
    BY <2>1, ListOfKind
<1>3. IsSeq(rdi)
  <2>1. DOMAIN rdi = DOMAIN OfKind(ns, "rdi") /\ rdi = [i \in DOMAIN rdi |-> rdi[i]]
    BY DEF CanvasRdi, MapSeq
  <2> HIDE DEF rdi
  <2> QED
    BY <2>1, ListOfKind
<1>4. IsSeq(lbs)
  <2> DEFINE front == Keep(ns, LAMBDA n : n.kind = "loadbalancer" /\ IsFronting(ns, es, n))
             t == [i \in DOMAIN front |-> [name |-> ProviderName(ns, es, front[i]), onVms |-> OnVms(ns, es, front[i]),
                                           target |-> ProviderName(ns, es, NodeOf(ns, FrontingTarget(ns, es, front[i].id)))]]
  <2>1. IsSeq(front)
    <3>1. PICK T : T = {n \in ToSet(ns) : n.kind = "loadbalancer" /\ IsFronting(ns, es, n)}
      OBVIOUS
    <3>2. front = Kept(ns, T)
      BY <3>1, BalancersKept
    <3> HIDE DEF front
    <3> QED
      BY <3>2, KeptIsSeq
  <2>2. lbs = IF m = "gke" THEN <<>> ELSE t
    BY Zenon DEF CanvasBalancers, MapSeq
  <2> HIDE DEF front
  <2>3. DOMAIN t = DOMAIN front /\ t = [i \in DOMAIN t |-> t[i]]
    OBVIOUS
  <2> HIDE DEF t
  <2>4. IsSeq(t)
    BY <2>1, <2>3, SeqOfPlaces
  <2> QED
    BY <2>2, <2>4, NoPlaces
<1>5. IsSeq(clusters) /\ \A k \in ToSet(clusters) : IsCluster(k)
  BY CanvasClustersAre
<1>6. IsSeq(apps) /\ \A a \in ToSet(apps) : IsApp(a)
  BY CanvasAppsAre
<1>7. IsFiniteSet(wires)
  BY WiresAreFinite
<1>8. p = [clusters |-> clusters, operators |-> ops, vms |-> machines, exposed |-> CanvasExposed(ns, es), storage |-> sto,
           apps |-> apps, vmsWires |-> wires, lbs |-> lbs, rdi |-> rdi]
  BY Zenon DEF ToCreateInput
<1> HIDE DEF ops, machines, sto, lbs, rdi, clusters, apps, wires, p
<1>9. /\ DOMAIN p = ConfigFields /\ p.clusters = clusters /\ p.operators = ops /\ p.storage = sto /\ p.apps = apps
      /\ p.lbs = lbs /\ p.rdi = rdi /\ p.vmsWires = wires
  BY <1>8 DEF ConfigFields, ListFields
<1>10. \A x \in ListFields : IsSeq(p[x])
  BY <1>1, <1>2, <1>3, <1>4, <1>5, <1>6, <1>9 DEF ListFields
<1> QED
  BY <1>5, <1>6, <1>7, <1>9, <1>10 DEF IsConfig, p

-----------------------------------------------------------------------------
(* The canvas and the form of a behaviour.                                 *)

CanvasInv == Whole /\ IsConfig(form)

\* Editing the form leaves a form.
LEMMA FormEdited ==
    ASSUME IsConfig(form), FormEdit
    PROVE  IsConfig(form') /\ UNCHANGED <<nodes, edges, nextId, dropped>>
<1>0. PICK f : f = form
  OBVIOUS
<1>1. IsConfig(f)
  BY <1>0
<1>2. /\ IsSeq(f.clusters) /\ IsSeq(f.operators) /\ IsSeq(f.storage) /\ IsSeq(f.apps) /\ IsSeq(f.lbs) /\ IsSeq(f.rdi)
      /\ (\A k \in ToSet(f.clusters) : IsCluster(k)) /\ (\A a \in ToSet(f.apps) : IsApp(a)) /\ IsFiniteSet(f.vmsWires)
      /\ DOMAIN f = ConfigFields
  BY <1>1 DEF IsConfig, ListFields
<1>3. ASSUME NEW g, Fill(g), IsConfig(g) PROVE IsConfig(form') /\ UNCHANGED <<nodes, edges, nextId, dropped>>
  BY <1>3 DEF Fill
<1>4. ASSUME NEW i \in DOMAIN f.clusters, NEW k, IsCluster(k)
      PROVE  IsConfig([f EXCEPT !.clusters = [f.clusters EXCEPT ![i] = k]])
  <2>1. PICK v : v = [f.clusters EXCEPT ![i] = k]
    OBVIOUS
  <2>2. IsSeq(v) /\ ToSet(v) \subseteq ToSet(f.clusters) \cup {k}
    BY <1>2, <2>1, OneChanged
  <2>3. \A x \in ToSet(v) : IsCluster(x)
    BY <1>2, <1>4, <2>2
  <2> QED
    BY <1>1, <2>1, <2>2, <2>3, ClustersSet
<1>5. ASSUME NEW i \in DOMAIN f.clusters PROVE IsCluster(f.clusters[i])
  BY <1>2, PlacesOf
<1>6. ASSUME NEW i \in DOMAIN f.clusters, NEW name
      PROVE  IsConfig([f EXCEPT !.clusters[i].name = name])
  <2>1. PICK k : k = f.clusters[i]
    OBVIOUS
  <2>2. PICK l : l = [k EXCEPT !.name = name]
    OBVIOUS
  <2>3. IsCluster(l)
    BY <1>5, <2>1, <2>2 DEF IsCluster
  <2>4. [f EXCEPT !.clusters[i].name = name] = [f EXCEPT !.clusters = [f.clusters EXCEPT ![i] = l]]
    BY <2>1, <2>2
  <2> QED
    BY <1>4, <2>3, <2>4
<1>7. ASSUME NEW i \in DOMAIN f.clusters, NEW b, IsDatabase(b)
      PROVE  IsConfig([f EXCEPT !.clusters[i].databases = Append(@, b)])
  <2>1. PICK k : k = f.clusters[i]
    OBVIOUS
  <2>2. PICK dbs : dbs = Append(k.databases, b)
    OBVIOUS
  <2>3. PICK l : l = [k EXCEPT !.databases = dbs]
    OBVIOUS
  <2>4. IsCluster(k)
    BY <1>5, <2>1
  <2>5. IsSeq(dbs) /\ ToSet(dbs) = ToSet(k.databases) \cup {b}
    BY <2>2, <2>4, OneMore DEF IsCluster
  <2>6. IsCluster(l)
    BY <1>7, <2>3, <2>4, <2>5 DEF IsCluster
  <2>7. [f EXCEPT !.clusters[i].databases = Append(@, b)] = [f EXCEPT !.clusters = [f.clusters EXCEPT ![i] = l]]
    BY <2>1, <2>2, <2>3
  <2> QED
    BY <1>4, <2>6, <2>7
<1>8. ASSUME NEW v, IsSeq(v), \A a \in ToSet(v) : IsApp(a) PROVE IsConfig([f EXCEPT !.apps = v])
  BY <1>1, <1>8, AppsSet
<1>9. ASSUME NEW name PROVE IsConfig([f EXCEPT !.apps = Append(@, [name |-> name, wires |-> {}])])
  <2>1. PICK a : a = [name |-> name, wires |-> {}]
    OBVIOUS
  <2>2. IsApp(a)
    BY <2>1, FS_EmptySet DEF IsApp
  <2>3. PICK v : v = Append(f.apps, a)
    OBVIOUS
  <2>4. IsSeq(v) /\ ToSet(v) = ToSet(f.apps) \cup {a}
    BY <1>2, <2>3, OneMore
  <2>5. IsConfig([f EXCEPT !.apps = v])
    BY <1>2, <1>8, <2>2, <2>4
  <2> QED
    BY <2>1, <2>3, <2>5
<1>10. ASSUME NEW a \in DOMAIN f.apps PROVE IsConfig([f EXCEPT !.apps = RemoveAt(@, a)])
  <2>1. PICK v : v = RemoveAt(f.apps, a)
    OBVIOUS
  <2>2. IsSeq(v) /\ ToSet(v) \subseteq ToSet(f.apps)
    BY <1>2, <2>1, OneFewer
  <2>3. IsConfig([f EXCEPT !.apps = v])
    BY <1>2, <1>8, <2>2
  <2> QED
    BY <2>1, <2>3
<1>11. ASSUME NEW S, IsFiniteSet(S), NEW w PROVE IsFiniteSet(SymDiff(S, {w}))
  <2>1. SymDiff(S, {w}) \subseteq S \cup {w}
    BY DEF SymDiff
  <2>2. IsFiniteSet(S \cup {w})
    BY <1>11, FS_AddElement
  <2> QED
    BY <2>1, <2>2, FS_Subset
<1>12. ASSUME NEW a \in DOMAIN f.apps, NEW w PROVE IsConfig([f EXCEPT !.apps[a].wires = SymDiff(@, {w})])
  <2>1. PICK x : x = f.apps[a]
    OBVIOUS
  <2>2. IsApp(x)
    BY <1>2, <2>1, PlacesOf
  <2>3. PICK ws : ws = SymDiff(x.wires, {w})
    OBVIOUS
  <2>4. IsFiniteSet(ws)
    BY <1>11, <2>2, <2>3 DEF IsApp
  <2>5. PICK y : y = [x EXCEPT !.wires = ws]
    OBVIOUS
  <2>6. IsApp(y)
    BY <2>2, <2>4, <2>5 DEF IsApp
  <2>7. PICK v : v = [f.apps EXCEPT ![a] = y]
    OBVIOUS
  <2>8. IsSeq(v) /\ ToSet(v) \subseteq ToSet(f.apps) \cup {y}
    BY <1>2, <2>7, OneChanged
  <2>9. IsConfig([f EXCEPT !.apps = v])
    BY <1>2, <1>8, <2>6, <2>8
  <2>10. [f EXCEPT !.apps[a].wires = SymDiff(@, {w})] = [f EXCEPT !.apps = v]
    BY <2>1, <2>3, <2>5, <2>7
  <2> QED
    BY <2>9, <2>10
<1>13. ASSUME NEW w PROVE IsConfig([f EXCEPT !.vmsWires = SymDiff(@, {w})])
  <2>1. PICK v : v = SymDiff(f.vmsWires, {w})
    OBVIOUS
  <2>2. IsFiniteSet(v)
    BY <1>2, <1>11, <2>1
  <2>3. IsConfig([f EXCEPT !.vmsWires = v])
    BY <1>1, <2>2, OtherSet
  <2> QED
    BY <2>1, <2>3
<1>14. ASSUME NEW ms PROVE IsConfig([f EXCEPT !.vms = ms, !.exposed = ms # <<>> /\ @])
  <2>1. PICK g : g = [f EXCEPT !.vms = ms]
    OBVIOUS
  <2>2. IsConfig(g)
    BY <1>1, <1>2, <2>1, OtherSet
  <2>3. PICK v : v = (ms # <<>> /\ g.exposed)
    OBVIOUS
  <2>4. IsConfig([g EXCEPT !.exposed = v])
    BY <1>2, <2>2, OtherSet
  <2>5. [f EXCEPT !.vms = ms, !.exposed = ms # <<>> /\ @] = [g EXCEPT !.exposed = v]
    BY <1>2, <2>1, <2>3 DEF ConfigFields, ListFields
  <2> QED
    BY <2>4, <2>5
<1>15. IsConfig([f EXCEPT !.exposed = ~@])
  <2>1. PICK v : v = ~f.exposed
    OBVIOUS
  <2>2. IsConfig([f EXCEPT !.exposed = v])
    BY <1>1, <1>2, OtherSet
  <2> QED
    BY <2>1, <2>2
<1>16. ASSUME NEW x \in {"operators", "storage", "lbs", "rdi"}, NEW v, IsSeq(v) PROVE IsConfig([f EXCEPT ![x] = v])
  BY <1>1, <1>16, ListSet
<1>17. ASSUME NEW name PROVE IsConfig([f EXCEPT !.storage = Append(@, name)])
  <2>1. PICK v : v = Append(f.storage, name)
    OBVIOUS
  <2>2. IsSeq(v)
    BY <1>2, <2>1, OneMore
  <2>3. IsConfig([f EXCEPT !["storage"] = v])
    BY <1>16, <2>2
  <2> QED
    BY <2>1, <2>3
<1>18. ASSUME NEW name PROVE IsConfig([f EXCEPT !.operators[1] = name])
  <2>1. PICK v : v = [f.operators EXCEPT ![1] = name]
    OBVIOUS
  <2>2. IsSeq(v)
    <3>1. DOMAIN v = DOMAIN f.operators /\ v = [j \in DOMAIN v |-> v[j]]
      BY <2>1
    <3> QED
      BY <1>2, <3>1, SeqOfPlaces
  <2>3. IsConfig([f EXCEPT !["operators"] = v])
    BY <1>16, <2>2
  <2> QED
    BY <2>1, <2>3
<1>19. ASSUME NEW target PROVE IsConfig([f EXCEPT !.rdi = <<target>>])
  <2>1. IsSeq(<<target>>)
    BY OneElement
  <2>2. IsConfig([f EXCEPT !["rdi"] = <<target>>])
    BY <1>16, <2>1
  <2> QED
    BY <2>2
<1>20. ASSUME NEW lb PROVE IsConfig([f EXCEPT !.lbs = Append(@, lb)])
  <2>1. PICK v : v = Append(f.lbs, lb)
    OBVIOUS
  <2>2. IsSeq(v)
    BY <1>2, <2>1, OneMore
  <2>3. IsConfig([f EXCEPT !["lbs"] = v])
    BY <1>16, <2>2
  <2> QED
    BY <2>1, <2>3
<1>21. CASE \E i \in DOMAIN form.clusters, name \in PartNames : FillClusterName(i, name) \/ FillDatabase(i, name)
  <2>1. PICK i \in DOMAIN form.clusters, name \in PartNames : FillClusterName(i, name) \/ FillDatabase(i, name)
    BY <1>21
  <2>2. CASE FillClusterName(i, name)
    BY <1>0, <1>3, <1>6, <2>2 DEF FillClusterName
  <2>3. CASE FillDatabase(i, name)
    <3>1. PICK b : b = [name |-> OrElse(name, "db"), internal |-> FALSE]
      OBVIOUS
    <3>2. IsDatabase(b)
      BY <3>1 DEF IsDatabase
    <3>3. Fill([f EXCEPT !.clusters[i].databases = Append(@, b)])
      BY <1>0, <2>3, <3>1 DEF FillDatabase
    <3> QED
      BY <1>0, <1>3, <1>7, <3>2, <3>3
  <2> QED
    BY <2>1, <2>2, <2>3
<1>22. CASE \E name \in PartNames \cup {Unnamed} : FillApp(name)
  BY <1>0, <1>3, <1>9, <1>22 DEF FillApp
<1>23. CASE \E a \in DOMAIN form.apps : FillRemoveApp(a) \/ \E w : FillWire(a, w)
  BY <1>0, <1>3, <1>10, <1>12, <1>23 DEF FillRemoveApp, FillWire
<1>24. CASE \E w : FillVmsWire(w)
  BY <1>0, <1>3, <1>13, <1>24 DEF FillVmsWire
<1>25. CASE \E ms : FillVms(ms)
  BY <1>0, <1>3, <1>14, <1>25 DEF FillVms
<1>26. CASE FillExposed
  BY <1>0, <1>3, <1>15, <1>26 DEF FillExposed
<1>27. CASE \E name : FillStorage(name) \/ FillOperator(name)
  BY <1>0, <1>3, <1>17, <1>18, <1>27 DEF FillStorage, FillOperator
<1>28. CASE \E target : FillRdi(target)
  BY <1>0, <1>3, <1>19, <1>28 DEF FillRdi
<1>29. CASE \E target : FillLoadBalancer(target)
  BY <1>0, <1>3, <1>20, <1>29 DEF FillLoadBalancer
<1> QED
  BY <1>21, <1>22, <1>23, <1>24, <1>25, <1>26, <1>27, <1>28, <1>29 DEF FormEdit

\* What the page would send is a configuration.
LEMMA SentIsConfig == ASSUME CanvasInv PROVE IsConfig(CurrentConfig)
<1>1. IsSeq(nodes) /\ IsSeq(edges) /\ IsConfig(form)
  BY DEF CanvasInv, Whole, Drawable
<1>2. IsConfig(ToCreateInput(nodes, edges, mode))
  BY <1>1, CreateInputIs
<1>3. IsConfig(WizardPayload(form, mode))
  BY <1>1, VmPayloadIs, GkePayloadIs DEF WizardPayload
<1> QED
  BY <1>2, <1>3 DEF CurrentConfig

\* The page opens on a canvas that can be drawn, and on a form that is a
\* configuration.
LEMMA CanvasInvInit == ASSUME CanvasInit PROVE CanvasInv
<1>1. mode \in {"vm", "gke"}
  BY DEF CanvasInit
<1>2. PICK c \in Records[mode] :
        LET ns == NodesOf(c, mode)
            settled == ReconcileRdi(ns, EdgesOf(c, ns))
        IN  /\ form = FormFromConfig(c, mode)
            /\ nodes = IF view = "diagram" THEN settled.nodes ELSE <<>>
            /\ edges = IF view = "diagram" THEN settled.edges ELSE <<>>
            /\ dropped = IF view = "diagram" THEN DroppedFrom(ns, settled.nodes) ELSE {}
            /\ nextId = IF view = "diagram" THEN Len(ns) + 1 ELSE 1
  BY DEF CanvasInit
<1>3. IsConfig(c)
  BY <1>1, CanvasAssumption
<1>4. PICK m : m = mode
  OBVIOUS
<1>5. PICK ns : ns = NodesOf(c, m)
  OBVIOUS
<1>6. PICK r : r = ReconcileRdi(ns, EdgesOf(c, ns))
  OBVIOUS
<1>7. /\ form = FormFromConfig(c, m)
      /\ nodes = IF view = "diagram" THEN r.nodes ELSE <<>>
      /\ edges = IF view = "diagram" THEN r.edges ELSE <<>>
      /\ dropped = IF view = "diagram" THEN DroppedFrom(ns, r.nodes) ELSE {}
      /\ nextId = IF view = "diagram" THEN Len(ns) + 1 ELSE 1
  BY <1>2, <1>4, <1>5, <1>6
<1>8. IsConfig(form)
  BY <1>3, <1>7, FormIsConfig
<1>9. Whole
  <2>1. CASE view = "diagram"
    <3>1. Drawable(r.nodes, r.edges, Len(ns) + 1, DroppedFrom(ns, r.nodes)) /\ StatesMatch(r.nodes, r.edges)
      BY <1>3, <1>5, <1>6, CanvasFilled, ConfigIsFit
    <3>2. nodes = r.nodes /\ edges = r.edges /\ dropped = DroppedFrom(ns, r.nodes) /\ nextId = Len(ns) + 1
      BY <1>7, <2>1
    <3> QED
      BY <3>1, <3>2 DEF Whole
  <2>2. CASE view # "diagram"
    <3>1. nodes = <<>> /\ edges = <<>> /\ dropped = {} /\ nextId = 1
      BY <1>7, <2>2
    <3>2. Drawable(<<>>, <<>>, 1, {}) /\ StatesMatch(<<>>, <<>>)
      BY EmptyCanvas
    <3> QED
      BY <3>1, <3>2 DEF Whole
  <2> QED
    BY <2>1, <2>2
<1> QED
  BY <1>8, <1>9 DEF CanvasInv

\* Every edit keeps both,
LEMMA EditsWhole == ASSUME CanvasInv, CanvasEdit PROVE CanvasInv'
<1>0. Whole /\ IsConfig(form)
  BY DEF CanvasInv
<1>1. ASSUME NEW ns, NEW es, Redraw(ns, es) PROVE IsConfig(form')
  BY <1>0, <1>1 DEF Redraw
<1>2. CASE \E kind \in {"operator", "cluster", "database", "vms", "application", "loadbalancer", "rdi"} :
             \E parent \in HostsFor(kind), front \in NodeIds(nodes) \cup {Root} : OnDrop(kind, parent, front)
  <2>0. PICK kind \in Kinds : \E parent, front : OnDrop(kind, parent, front)
    BY <1>2 DEF Kinds
  <2>1. PICK parent, front : OnDrop(kind, parent, front)
    BY <2>0
  <2>2. Whole'
    BY <1>0, <2>1, OnDropWhole
  <2>3. IsConfig(form')
    BY <1>1, <2>1 DEF OnDrop
  <2> QED
    BY <2>2, <2>3 DEF CanvasInv
<1>3. CASE \E a, b \in NodeIds(nodes) : OnConnect(a, b)
  <2>1. PICK a \in NodeIds(nodes), b \in NodeIds(nodes) : OnConnect(a, b)
    BY <1>3
  <2>2. Whole'
    BY <1>0, <2>1, OnConnectWhole
  <2>3. IsConfig(form')
    BY <1>1, <2>1 DEF OnConnect
  <2> QED
    BY <2>2, <2>3 DEF CanvasInv
<1>4. CASE \E a, b \in NodeIds(nodes) : OnNodeDragStop(a, b)
  <2>1. PICK a, b : OnNodeDragStop(a, b)
    BY <1>4
  <2>2. Whole'
    BY <1>0, <2>1, OnNodeDragStopWhole
  <2>3. IsConfig(form')
    BY <1>1, <2>1, Zenon DEF OnNodeDragStop
  <2> QED
    BY <2>2, <2>3 DEF CanvasInv
<1>5. CASE \E e \in ToSet(edges) : DeleteEdge(e)
  <2>1. PICK e : DeleteEdge(e)
    BY <1>5
  <2>2. Whole'
    BY <1>0, <2>1, DeleteEdgeWhole
  <2>3. IsConfig(form')
    BY <1>1, <2>1, Zenon DEF DeleteEdge
  <2> QED
    BY <2>2, <2>3 DEF CanvasInv
<1>6. CASE \E n \in ToSet(nodes) : RemoveNode(n.id)
  <2>1. PICK n \in ToSet(nodes) : RemoveNode(n.id)
    BY <1>6
  <2>2. Whole'
    BY <1>0, <2>1, RemoveNodeWhole
  <2>3. IsConfig(form')
    BY <1>1, <2>1, Zenon DEF RemoveNode
  <2> QED
    BY <2>2, <2>3 DEF CanvasInv
<1>7. ASSUME NEW id, NEW kind, NEW data, DOMAIN data \cap {"id", "kind", "parent", "internal"} = {}, SaveDialog(id, kind, data)
      PROVE  CanvasInv'
  <2>1. Whole'
    BY <1>0, <1>7, SaveDialogWhole
  <2>2. IsConfig(form')
    BY <1>1, <1>7, Zenon DEF SaveDialog
  <2> QED
    BY <2>1, <2>2 DEF CanvasInv
<1>8. CASE \E n \in ToSet(nodes), name \in PartNames \cup {Unnamed} :
             \/ SaveOperator(n.id, name)
             \/ SaveCluster(n.id, name)
             \/ SaveDatabase(n.id, name)
             \/ SaveApplication(n.id, name)
             \/ SaveStorage(n.id, name)
  <2>1. PICK n, name, kind : SaveDialog(n.id, kind, [name |-> name])
    BY <1>8 DEF SaveOperator, SaveCluster, SaveDatabase, SaveApplication, SaveStorage
  <2>2. PICK data : data = [name |-> name]
    OBVIOUS
  <2>3. DOMAIN data \cap {"id", "kind", "parent", "internal"} = {}
    BY <2>2
  <2> QED
    BY <1>7, <2>1, <2>2, <2>3
<1>9. CASE \E n \in ToSet(nodes), machines \in SetsOfVms \ {<<>>}, open \in BOOLEAN : Alike(machines) /\ SaveVms(n.id, machines, open)
  <2>1. PICK n, machines, open : SaveDialog(n.id, "vms", [machines |-> machines, open |-> open])
    BY <1>9 DEF SaveVms
  <2>2. PICK data : data = [machines |-> machines, open |-> open]
    OBVIOUS
  <2>3. DOMAIN data \cap {"id", "kind", "parent", "internal"} = {}
    BY <2>2
  <2> QED
    BY <1>7, <2>1, <2>2, <2>3
<1> QED
  BY <1>2, <1>3, <1>4, <1>5, <1>6, <1>8, <1>9 DEF CanvasEdit

\* so does every change of the view, which draws or reads the canvas,
LEMMA SwitchViewWhole == ASSUME CanvasInv, SwitchView PROVE CanvasInv'
<1>0. PICK c : c = CurrentConfig
  OBVIOUS
<1>1. IsConfig(c)
  BY <1>0, SentIsConfig
<1>2. PICK m : m = mode
  OBVIOUS
<1>3. PICK ns : ns = NodesOf(c, m)
  OBVIOUS
<1>4. PICK r : r = ReconcileRdi(ns, EdgesOf(c, ns))
  OBVIOUS
<1>5. CASE view = "wizard"
  <2>1. /\ nodes' = r.nodes /\ edges' = r.edges /\ dropped' = DroppedFrom(ns, r.nodes) /\ nextId' = Len(ns) + 1
        /\ form' = form
    BY <1>0, <1>2, <1>3, <1>4, <1>5 DEF SwitchView
  <2>2. Drawable(r.nodes, r.edges, Len(ns) + 1, DroppedFrom(ns, r.nodes)) /\ StatesMatch(r.nodes, r.edges)
    BY <1>1, <1>3, <1>4, CanvasFilled, ConfigIsFit
  <2>3. Whole'
    BY <2>1, <2>2 DEF Whole
  <2> QED
    BY <2>1, <2>3 DEF CanvasInv
<1>6. CASE view # "wizard"
  <2>1. nodes' = <<>> /\ edges' = <<>> /\ nextId' = 1 /\ dropped' = {} /\ form' = FormFromConfig(c, m)
    BY <1>0, <1>2, <1>6 DEF SwitchView
  <2>2. Drawable(<<>>, <<>>, 1, {}) /\ StatesMatch(<<>>, <<>>)
    BY EmptyCanvas
  <2>3. Whole'
    BY <2>1, <2>2 DEF Whole
  <2>4. IsConfig(form')
    BY <1>1, <2>1, FormIsConfig
  <2> QED
    BY <2>3, <2>4 DEF CanvasInv
<1> QED
  BY <1>5, <1>6

\* every change of the platform,
LEMMA SwitchModeWhole == ASSUME CanvasInv, SwitchMode PROVE CanvasInv'
<1>1. nextId \in Nat \ {0} /\ nextId' = nextId
  BY DEF CanvasInv, Whole, Drawable, SwitchMode
<1>2. Whole'
  <2>1. CASE view = "diagram"
    <3>1. nodes' = <<>> /\ edges' = <<>> /\ dropped' = {}
      BY <2>1 DEF SwitchMode
    <3>2. PICK next : next = nextId
      OBVIOUS
    <3>3. Drawable(<<>>, <<>>, next, {}) /\ StatesMatch(<<>>, <<>>)
      BY <1>1, <3>2, EmptyCanvas
    <3> QED
      BY <1>1, <3>1, <3>2, <3>3 DEF Whole
  <2>2. CASE view # "diagram"
    BY <1>1, <2>2 DEF SwitchMode, CanvasInv, Whole
  <2> QED
    BY <2>1, <2>2
<1>3. IsConfig(form')
  <2>1. form' = form \/ form' = [form EXCEPT !.operators = <<"operator">>]
    BY DEF SwitchMode
  <2>2. IsConfig([form EXCEPT !["operators"] = <<"operator">>])
    <3>1. IsSeq(<<"operator">>)
      BY OneElement
    <3>2. PICK f : f = form
      OBVIOUS
    <3>3. IsConfig([f EXCEPT !["operators"] = <<"operator">>])
      BY <3>1, <3>2, ListSet DEF CanvasInv
    <3> QED
      BY <3>2, <3>3
  <2> QED
    BY <2>1, <2>2 DEF CanvasInv
<1> QED
  BY <1>2, <1>3 DEF CanvasInv

\* and every edit of the form.
LEMMA FormEditWhole == ASSUME CanvasInv, FormEdit PROVE CanvasInv'
<1>1. IsConfig(form') /\ UNCHANGED <<nodes, edges, nextId, dropped>>
  BY FormEdited DEF CanvasInv
<1>2. Whole'
  BY <1>1 DEF Whole, CanvasInv
<1> QED
  BY <1>1, <1>2 DEF CanvasInv

\* In every behaviour the canvas can be drawn and the form is a configuration.
LEMMA CanvasInvariant == CanvasSpec => []CanvasInv
<1>1. CanvasInit => CanvasInv
  BY CanvasInvInit
<1>2. CanvasInv /\ [CanvasNext]_canvasVars => CanvasInv'
  <2> SUFFICES ASSUME CanvasInv, [CanvasNext]_canvasVars PROVE CanvasInv'
    OBVIOUS
  <2>1. CASE CanvasEdit
    BY <2>1, EditsWhole
  <2>2. CASE FormEdit
    BY <2>2, FormEditWhole
  <2>3. CASE SwitchView
    BY <2>3, SwitchViewWhole
  <2>4. CASE SwitchMode
    BY <2>4, SwitchModeWhole
  <2>5. CASE UNCHANGED canvasVars
    BY <2>5 DEF canvasVars, CanvasInv, Whole
  <2> QED
    BY <2>1, <2>2, <2>3, <2>4, <2>5 DEF CanvasNext
<1> QED
  BY <1>1, <1>2, PTL DEF CanvasSpec

\* However parts are dropped, connected, dragged, edited and removed, and
\* however often the canvas is drawn from the form, ids are unique, a part lies
\* in an operator or a cluster that is there, and an edge starts at a part that
\* is there and ends at one, or where one was taken away.  The edits are those of DesignView.tsx, the drawing is
\* createInputToDiagram.
THEOREM CanvasWholeCorrect == CanvasSpec => []CanvasWhole
<1>1. CanvasInv => CanvasWhole
  <2> SUFFICES ASSUME CanvasInv PROVE CanvasWhole
    OBVIOUS
  <2>1. IdsUnique(nodes) /\ (\A n \in ToSet(nodes) : NodeFits(n, nextId) /\ Lies(n, nodes)) /\ \A e \in ToSet(edges) : EdgeFits(e, nodes, dropped)
    BY DEF CanvasInv, Whole, Drawable
  <2>2. ASSUME NEW n \in ToSet(nodes) PROVE n.id < nextId /\ (n.parent # Root => KindOf(nodes, n.parent) \in {"operator", "cluster"})
    <3>1. NodeFits(n, nextId) /\ Lies(n, nodes)
      BY <2>1
    <3>2. n.parent # Root => \E p \in ToSet(nodes) : p.id = n.parent /\ p.kind \in {"operator", "cluster"}
      BY <3>1 DEF Lies
    <3> QED
      BY <2>1, <3>1, <3>2, Found DEF NodeFits
  <2>3. ASSUME NEW e \in ToSet(edges) PROVE KindOf(nodes, e.source) # "none" /\ e.target \in NodeIds(nodes) \cup dropped
    <3>1. EdgeFits(e, nodes, dropped)
      BY <2>1
    <3>2. PICK n \in ToSet(nodes) : n.id = e.source
      BY <3>1 DEF EdgeFits
    <3>3. KindOf(nodes, e.source) = n.kind /\ n.kind \in Kinds
      BY <2>1, <3>2, Found DEF NodeFits
    <3> QED
      BY <3>1, <3>3 DEF EdgeFits, Kinds
  <2> QED
    BY <2>1, <2>2, <2>3 DEF CanvasWhole, IdsUnique
<1> QED
  BY <1>1, CanvasInvariant, PTL

\* The state databases on the canvas are always those reconcileRdiStateDbs
\* wants: one for each RDI that has a target, in the cluster of that target, and
\* none besides.
THEOREM StateBesideTargetCorrect == CanvasSpec => []StateBesideTarget
<1>1. CanvasInv => StateBesideTarget
  BY DEF CanvasInv, Whole, StateBesideTarget, StatesMatch
<1> QED
  BY <1>1, CanvasInvariant, PTL

=============================================================================
