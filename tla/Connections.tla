---------------------------- MODULE Connections ----------------------------
(***************************************************************************)
(* What a deployment's parts are called and how they find each other: a    *)
(* design is edited part by part, and the variables of terraform are       *)
(* generated from it.  Every wire of a design is a name, looked up         *)
(* separately by the environment of the consumer, by the grants of the     *)
(* resources, by RDI and by the operators of Kubernetes.                   *)
(***************************************************************************)
EXTENDS Integers, Sequences, FiniteSets, SequencesExt

CONSTANTS
    Drafts,         \* designs a user starts from
    ClusterNames,   \* names a cluster may be given
    DatabaseNames,
    Resources,      \* buckets, topics, datasets and SQL instances a design may have
    AppNames,
    OperatorNames,  \* names an operator may be given
    Cut(_),         \* an operator's name cut to twenty characters
    MaxEdits,       \* bound on the edits of a design
    MaxPosts        \* bound on the requests that create

\* A name is a word and, if one follows it, a number.
Blank == <<>>

\* The name of the database in which RDI keeps its state.  No user calls one
\* of his own so: that is left out.
StateName == <<"rdi-state">>

\* The name of the deployment, by which consumers on VMs may mean its first
\* cluster.
OwnName == <<"deployment">>

Wireable == Resources \cup DatabaseNames \cup ClusterNames \cup {OwnName, <<"cluster", 1>>, <<"cluster", 2>>}

\* The names in use: those of the drafts and those an edit may give.
NamesInUse ==
    {Blank} \cup ClusterNames \cup AppNames \cup OperatorNames
    \cup UNION {Range(d.operators) \cup (UNION {{c.name, c.operator} : c \in Range(d.clusters)})
                 \cup {a.name : a \in Range(d.apps)} : d \in Drafts}

\* A design; `secret` and `internal` are set by the server alone.
DesignDatabases == [name : DatabaseNames \cup {StateName}, secret : Nat, internal : BOOLEAN]
DesignClusters == [name : NamesInUse, operator : NamesInUse, databases : SUBSET DesignDatabases]
DesignApps == [name : NamesInUse, wires : SUBSET Wireable]
Designs == [mode : {"vm", "gke"}, clusters : Seq(DesignClusters), operators : Seq(NamesInUse) \ {<<>>},
            resources : SUBSET Resources, apps : Seq(DesignApps), vms : BOOLEAN, vmWires : SUBSET Wireable,
            rdi : DatabaseNames \cup {Blank}]

ASSUME ConnectionsAssumption ==
    /\ Drafts \subseteq Designs
    /\ StateName \notin DatabaseNames
    /\ \A d \in Drafts : \A c \in Range(d.clusters) : \A b \in c.databases : b.name \in DatabaseNames
    /\ Blank \notin ClusterNames \cup DatabaseNames \cup Resources \cup AppNames \cup OperatorNames
    /\ MaxEdits \in Nat /\ MaxPosts \in Nat

VARIABLES
    design,     \* what the user has drawn
    deployed,   \* the configuration in the record of the instance
    tfvars,     \* the variables of terraform
    secrets,    \* passwords generated so far for the database of RDI
    edits,
    returned    \* a record with that database has come back, but for the canvas

connectionVars == <<design, deployed, tfvars, secrets, edits, returned>>

-----------------------------------------------------------------------------
(* Names.                                                                  *)

(* Mutant: the place of an unnamed cluster is forgotten. *)
PrefixWithoutPlace(index, name) == IF name # Blank THEN name ELSE Blank

\* What the names of a cluster begin with, after the name of the deployment.
ClusterNamePrefix(index, name) ==
    IF name # Blank THEN name ELSE IF index = 1 THEN Blank ELSE <<"c", index>>

\* The name under which a cluster is connected to.
ConnectName(index, name) == IF name # Blank THEN name ELSE <<"cluster", index>>

OperatorsNamed(name, operators) == {o \in DOMAIN operators : Cut(operators[o]) = name}

(* Mutant: a cluster whose operator has gone has none. *)
OperatorOrNone(c, operators) ==
    IF OperatorsNamed(c.operator, operators) = {} THEN 0
    ELSE CHOOSE o \in OperatorsNamed(c.operator, operators) : TRUE

\* The operator of a cluster: the one of that name, else the first.  The
\* name in the cluster is not cut.
OperatorForCluster(c, operators) ==
    IF OperatorsNamed(c.operator, operators) = {} THEN 1
    ELSE CHOOSE o \in OperatorsNamed(c.operator, operators) : TRUE

\* The names of a cluster in the zone: its own and those of two nodes.
ClusterLabels == {<<"cluster">>, <<"node", 1>>, <<"node", 2>>}

\* DNS names the preflight expects in VM mode, of the clusters and the VMs,
\* each with the part that gets it.
PlannedDnsNames(d) ==
    {[label |-> h, prefix |-> ClusterNamePrefix(i, d.clusters[i].name), of |-> <<"cluster", i>>] :
        h \in ClusterLabels, i \in DOMAIN d.clusters}
    \cup (IF d.vms THEN {[label |-> <<"app">>, prefix |-> Blank, of |-> <<"vms">>]} ELSE {})

\* Terraform makes one for every application too, and one for RDI.
AppDnsNames(d) == {[label |-> d.apps[a].name, prefix |-> Blank, of |-> <<"app", a>>] : a \in DOMAIN d.apps}

RdiDnsNames(d) == IF d.rdi = Blank THEN {} ELSE {[label |-> <<"rdi">>, prefix |-> Blank, of |-> <<"rdi">>]}

\* Names that come twice.
ClustersDistinct(d) ==
    \A i, j \in DOMAIN d.clusters : d.clusters[i].name = d.clusters[j].name /\ d.clusters[i].name # Blank => i = j

AppsDistinct(d) == IsInjective([a \in DOMAIN d.apps |-> d.apps[a].name])

(* Mutant: an application may be called as anything. *)
OnlyBlankReserved == {Blank}

\* Names no application may have.
ReservedAppNames == {Blank, <<"app">>, <<"gke">>, <<"rec">>, <<"cluster">>, <<"node">>}

AppsNamed(d) == \A a \in DOMAIN d.apps : d.apps[a].name \notin ReservedAppNames

DatabasesDistinct(d) ==
    \A i \in DOMAIN d.clusters : \A b, c \in d.clusters[i].databases : b.name = c.name => b = c

OperatorsDistinct(d) == IsInjective([o \in DOMAIN d.operators |-> Cut(d.operators[o])])

\* What POST /instances lets pass, as far as names go: what the
\* normalisations throw at.
ValidDesign(d) ==
    /\ ClustersDistinct(d)
    /\ AppsDistinct(d)
    /\ AppsNamed(d)
    /\ d.mode = "gke" => d.clusters # <<>> /\ OperatorsDistinct(d)

-----------------------------------------------------------------------------
(* Generation.                                                             *)

\* The clusters that have a database of this name, by their places.
HostsOf(d, db) == {i \in DOMAIN d.clusters : \E b \in d.clusters[i].databases : b.name = db}

(* Mutant: the place is counted among the clusters that have databases. *)
EndpointAmongFilled(d, db) ==
    Cardinality({i \in DOMAIN d.clusters : d.clusters[i].databases # {} /\ \E j \in HostsOf(d, db) : i <= j})

\* In the table of endpoints a later cluster replaces an earlier one.
DatabaseEndpoint(d, db) == CHOOSE i \in HostsOf(d, db) : \A j \in HostsOf(d, db) : j <= i

\* RDI takes the first.
FindDb(d, db) == CHOOSE i \in HostsOf(d, db) : \A j \in HostsOf(d, db) : i <= j

\* The tables of hosts and of places are filled cluster by cluster: the last
\* of a name stays.
ClustersNamed(d, name) ==
    {i \in DOMAIN d.clusters :
        ConnectName(i, d.clusters[i].name) = name \/ (d.mode = "vm" /\ i = 1 /\ name = OwnName)}

ClusterHost(d, name) == CHOOSE i \in ClustersNamed(d, name) : \A j \in ClustersNamed(d, name) : j <= i

(* Mutant: the table of places keeps the first cluster of a name. *)
ClusterIndexFirst(d, name) == CHOOSE i \in ClustersNamed(d, name) : \A j \in ClustersNamed(d, name) : i <= j

ClusterIndex(d, name) == CHOOSE i \in ClustersNamed(d, name) : \A j \in ClustersNamed(d, name) : j <= i

\* What a consumer is told about its wires: names that nothing has are passed over.
ResolveConnections(d, wires) ==
    [hosts |-> {<<w, ClusterHost(d, w)>> : w \in {w \in wires : ClustersNamed(d, w) # {}}},
     admins |-> {<<w, ClusterIndex(d, w)>> : w \in {w \in wires : ClustersNamed(d, w) # {}}},
     endpoints |-> {<<w, DatabaseEndpoint(d, w)>> : w \in {w \in wires : HostsOf(d, w) # {}}},
     resources |-> wires \cap d.resources,
     namespaces |-> {}]

(* Mutant: an application looks for everything beside the first operator. *)
GkeConnectionsFirst(d, wires) ==
    LET c == ResolveConnections(d, wires)
    IN  [c EXCEPT !.namespaces = {<<p[2], 1>> : p \in c.hosts \cup c.endpoints}]

\* In Kubernetes an address has the namespace of the operator of the cluster.
ResolveGkeConnections(d, wires) ==
    LET c == ResolveConnections(d, wires)
    IN  [c EXCEPT !.namespaces = {<<p[2], OperatorForCluster(d.clusters[p[2]], d.operators)>> : p \in c.hosts \cup c.endpoints}]

BuildVmApplications(d) == [a \in DOMAIN d.apps |-> ResolveConnections(d, d.apps[a].wires)]

BuildGkeApplications(d) == [a \in DOMAIN d.apps |-> ResolveGkeConnections(d, d.apps[a].wires)]

(* Mutant: only the applications count as consumers. *)
ConnectedByApps(d) == UNION {d.apps[a].wires : a \in DOMAIN d.apps}

\* Names that at least one consumer is wired to.
ConnectedNames(d) == d.vmWires \cup UNION {d.apps[a].wires : a \in DOMAIN d.apps}

\* What is granted to the account of the consumers.
GrantedResources(d) == ConnectedNames(d) \cap d.resources

NewStateDatabase(secret) == [name |-> StateName, secret |-> secret, internal |-> TRUE]

WithoutInternal(d) ==
    [d EXCEPT !.clusters = [i \in DOMAIN d.clusters |->
        [d.clusters[i] EXCEPT !.databases = {b \in d.clusters[i].databases : ~b.internal}]]]

\* As far as the user of the wizard can see, no database is internal.
AllOrdinary(d) ==
    [d EXCEPT !.clusters = [i \in DOMAIN d.clusters |->
        [d.clusters[i] EXCEPT !.databases = {[b EXCEPT !.internal = FALSE] : b \in d.clusters[i].databases}]]]

\* The schema of a request knows no mark of the server's, and strips it.
CreateSchema(d) == AllOrdinary(d)

HasState(d) == HostsOf(d, StateName) # {}

\* The database in which RDI keeps its state, with a new password, in the
\* cluster of the target; that of an earlier call is dropped first.
WithRdiInternalDatabases(d, secret) ==
    LET clean == WithoutInternal(d)
    IN  IF d.rdi = Blank \/ HostsOf(clean, d.rdi) = {} THEN clean
        ELSE [clean EXCEPT !.clusters[FindDb(clean, d.rdi)].databases = @ \cup {NewStateDatabase(secret)}]

\* RDI finds its state by the name, the first of a cluster: one that was
\* there before the new one.
BuildRdi(d) ==
    [target |-> IF d.rdi = Blank \/ HostsOf(d, d.rdi) = {} THEN {} ELSE {FindDb(d, d.rdi)},
     state |-> IF d.rdi = Blank \/ HostsOf(d, StateName) = {} THEN {}
               ELSE LET i == FindDb(d, StateName)
                        named == {b \in d.clusters[i].databases : b.name = StateName}
                    IN  {<<i, (CHOOSE b \in named : \A c \in named : b.internal => c.internal).secret>>}]

\* The RECs of each operator, by the places of their clusters.
BuildGkeOperators(d) ==
    [o \in DOMAIN d.operators |->
        {i \in DOMAIN d.clusters : OperatorForCluster(d.clusters[i], d.operators) = o}]

WriteTfvars(d) ==
    [mode |-> d.mode,
     apps |-> IF d.mode = "gke" THEN BuildGkeApplications(d) ELSE BuildVmApplications(d),
     vms |-> IF d.mode = "vm" THEN ResolveConnections(d, d.vmWires) ELSE ResolveConnections(d, {}),
     granted |-> GrantedResources(d),
     rdi |-> BuildRdi(d),
     operators |-> IF d.mode = "gke" THEN BuildGkeOperators(d) ELSE <<>>,
     names |-> IF d.mode = "vm" THEN PlannedDnsNames(d) \cup AppDnsNames(d) \cup RdiDnsNames(d) ELSE {}]

-----------------------------------------------------------------------------
(* Edits.                                                                  *)

Draw(d) ==
    /\ edits < MaxEdits
    /\ d # design
    /\ design' = d
    /\ edits' = edits + 1
    /\ UNCHANGED <<deployed, tfvars, secrets>>

DrawInstead(d) == Draw(d) /\ UNCHANGED returned

AddCluster(name, operator) ==
    /\ Len(design.clusters) < 3
    /\ DrawInstead([design EXCEPT !.clusters = Append(@, [name |-> name, operator |-> operator,
                                                   databases |-> {}])])

RenameCluster(i, name) == DrawInstead([design EXCEPT !.clusters[i].name = name])
RemoveCluster(i) == DrawInstead([design EXCEPT !.clusters = RemoveAt(@, i)])
AddDatabase(i, db) ==
    DrawInstead([design EXCEPT !.clusters[i].databases = @ \cup {[name |-> db, secret |-> 0, internal |-> FALSE]}])
ToggleResource(r) == DrawInstead([design EXCEPT !.resources = IF r \in @ THEN @ \ {r} ELSE @ \cup {r}])
AddApp(name) == Len(design.apps) < 2 /\ DrawInstead([design EXCEPT !.apps = Append(@, [name |-> name, wires |-> {}])])
AddOperator(name) == Len(design.operators) < 3 /\ DrawInstead([design EXCEPT !.operators = Append(@, name)])
WireApp(a, w) == DrawInstead([design EXCEPT !.apps[a].wires = @ \cup {w}])
WireVms(w) == DrawInstead([design EXCEPT !.vmWires = @ \cup {w}, !.vms = TRUE])
AimRdi(db) == DrawInstead([design EXCEPT !.rdi = db])

EditDesign ==
    \/ \E name \in ClusterNames \cup {Blank}, operator \in OperatorNames \cup {Blank} : AddCluster(name, operator)
    \/ \E i \in DOMAIN design.clusters :
          \/ RemoveCluster(i)
          \/ \E name \in ClusterNames \cup {Blank} : RenameCluster(i, name)
          \/ \E db \in DatabaseNames : AddDatabase(i, db)
    \/ \E r \in Resources : ToggleResource(r)
    \/ \E name \in AppNames : AddApp(name)
    \/ \E name \in OperatorNames : AddOperator(name)
    \/ \E a \in DOMAIN design.apps, w \in Wireable : WireApp(a, w)
    \/ \E w \in Wireable : WireVms(w)
    \/ \E db \in DatabaseNames : AimRdi(db)

-----------------------------------------------------------------------------
(* The server.                                                             *)

\* POST /instances.  Refused when a normalisation throws; the preflight
\* refuses databases of one name in a cluster, unless told not to look.
CreateFrom(d, force) ==
    LET sent == CreateSchema(d)
    IN  /\ ValidDesign(sent)
        /\ force \/ DatabasesDistinct(sent)
        /\ secrets < MaxPosts
        /\ secrets' = secrets + 1
        /\ deployed' = IF sent.rdi = Blank THEN sent ELSE WithRdiInternalDatabases(sent, secrets + 1)
        /\ tfvars' = WriteTfvars(deployed')
        /\ UNCHANGED <<design, edits>>

PostDesign(force) == CreateFrom(design, force) /\ UNCHANGED returned

\* A client of the API posts the configuration of a record it has read.
PostRecord(force) ==
    /\ deployed # <<>>
    /\ CreateFrom(deployed, force)
    /\ returned' = (returned \/ HasState(deployed))

(* Mutant: the canvas sends the internal database too. *)
ReopenWithInternal ==
    /\ deployed # <<>>
    /\ DrawInstead(deployed)

\* The record is edited again.  The canvas shows the internal database and
\* does not send it; the wizard takes it for a database like any other.
ReopenOnCanvas ==
    /\ deployed # <<>>
    /\ DrawInstead(WithoutInternal(deployed))

ReopenInWizard ==
    /\ deployed # <<>>
    /\ Draw(AllOrdinary(deployed))
    /\ returned' = (returned \/ HasState(deployed))

\* Retry and recreate generate from what the record holds.
Regenerate ==
    /\ deployed # <<>>
    /\ tfvars' = WriteTfvars(deployed)
    /\ UNCHANGED <<design, deployed, secrets, edits, returned>>

ConnectionsInit ==
    /\ design \in Drafts
    /\ deployed = <<>>
    /\ tfvars = <<>>
    /\ secrets = 0
    /\ edits = 0
    /\ returned = FALSE

ConnectionsNext ==
    \/ EditDesign
    \/ \E force \in BOOLEAN : PostDesign(force) \/ PostRecord(force)
    \/ ReopenOnCanvas
    \/ ReopenInWizard
    \/ Regenerate

ConnectionsSpec == ConnectionsInit /\ [][ConnectionsNext]_connectionVars

-----------------------------------------------------------------------------

Generated == tfvars # <<>>

Consumers == {tfvars.apps[a] : a \in DOMAIN tfvars.apps} \cup {tfvars.vms}

\* A name means one thing wherever it is looked up: what a consumer is told
\* about it may use, though environment and grants are computed apart; host
\* and administrator's password are of one cluster, also when an unnamed one
\* is connected to under the name of another; RDI and the applications mean
\* the same cluster by the name of a database that only one cluster has.
WiresAgree ==
    Generated => \A c \in Consumers :
        /\ c.resources \subseteq tfvars.granted
        /\ c.hosts = c.admins
        /\ deployed.rdi # Blank /\ Cardinality(HostsOf(deployed, deployed.rdi)) = 1 =>
              \A e \in c.endpoints : e[1] = deployed.rdi => tfvars.rdi.target = {e[2]}

StateDatabases ==
    UNION {{<<i, b>> : b \in {b \in deployed.clusters[i].databases : b.name = StateName}} : i \in DOMAIN deployed.clusters}

\* RDI with a target has one database for its state, beside the target, and
\* is told its password, however often the record goes through the canvas,
\* whatever is edited in between, and with the checks of the preflight or
\* without.  Only the canvas tells that database from the user's: once a
\* record with it has come back through the wizard or from a client of the
\* API, nothing is promised.
OneStateDatabase ==
    Generated /\ ~returned /\ tfvars.rdi.target # {} =>
        /\ tfvars.rdi.state = {<<s[1], s[2].secret>> : s \in StateDatabases}
        /\ {s[1] : s \in StateDatabases} = tfvars.rdi.target
        /\ Cardinality(StateDatabases) = 1

\* The comment of withRdiInternalDatabases: running it again, on a
\* configuration that has gone round, never gives RDI a second database.
StateDatabaseNeverTwice == Generated => Cardinality(StateDatabases) <= 1

\* Every REC has one operator, and it is the one its cluster names whenever
\* that name is not too long; the address an application is given for a
\* cluster or a database lies in the namespace where its REC is made.
NamespacesAgree ==
    Generated /\ tfvars.mode = "gke" =>
        /\ \A i \in DOMAIN deployed.clusters :
              /\ Cardinality({o \in DOMAIN tfvars.operators : i \in tfvars.operators[o]}) = 1
              /\ \A o \in DOMAIN tfvars.operators :
                    deployed.operators[o] = deployed.clusters[i].operator /\ Cut(deployed.operators[o]) = deployed.operators[o]
                       => i \in tfvars.operators[o]
        /\ \A c \in Consumers : \A n \in c.namespaces : n[1] \in tfvars.operators[n[2]]

\* No two parts get the same DNS name, unless a cluster is named as an
\* unnamed one would be, or an application as a node of the unnamed first or
\* as RDI.
DnsNamesDistinct ==
    Generated =>
        \/ \A n, m \in tfvars.names : n.label = m.label /\ n.prefix = m.prefix => n.of = m.of
        \/ \E i, j \in DOMAIN deployed.clusters :
              j # 1 /\ deployed.clusters[j].name = Blank /\ deployed.clusters[i].name = <<"c", j>>
        \/ \E a \in DOMAIN deployed.apps :
              \/ deployed.apps[a].name \in {<<"node", 1>>, <<"node", 2>>}
                    /\ deployed.clusters # <<>> /\ deployed.clusters[1].name = Blank
              \/ deployed.apps[a].name = <<"rdi">> /\ deployed.rdi # Blank

=============================================================================
