---------------------------- MODULE DesignCanvas ----------------------------
(***************************************************************************)
(* The page on which a deployment is drawn.  It has two views of one       *)
(* design: the canvas holds nodes and edges between them, the wizard a     *)
(* form in which everything is wired by name.  What is sent to the server  *)
(* is computed from the view that is shown, and handed to the other one    *)
(* when the user switches.                                                 *)
(***************************************************************************)
EXTENDS Integers, Sequences, FiniteSets, SequencesExt, FiniteSetsExt, TLC

CONSTANTS
    Records,        \* configurations the page may be opened with, by mode
    PartNames,      \* names a cluster or an application may be given
    Machines,       \* machine types of VMs
    MaxNodes,       \* bound on the nodes of a canvas
    MaxCanvasEdits  \* bound on the edits of a design

\* A configuration as it is handed from one view to the other and recorded:
\* its lists are sequences, and no list of wires is endless.
IsSeq(s) == s \in Seq(ToSet(s))
ListFields == {"clusters", "operators", "storage", "apps", "lbs", "rdi"}
ConfigFields == ListFields \cup {"vms", "exposed", "vmsWires"}
IsDatabase(b) == DOMAIN b = {"name", "internal"} /\ b.internal \in BOOLEAN
IsCluster(k) ==
    /\ DOMAIN k = {"name", "operator", "databases"}
    /\ IsSeq(k.databases) /\ \A b \in ToSet(k.databases) : IsDatabase(b)
IsApp(a) == DOMAIN a = {"name", "wires"} /\ IsFiniteSet(a.wires)
IsConfig(c) ==
    /\ DOMAIN c = ConfigFields
    /\ \A f \in ListFields : IsSeq(c[f])
    /\ \A k \in ToSet(c.clusters) : IsCluster(k)
    /\ \A a \in ToSet(c.apps) : IsApp(a)
    /\ IsFiniteSet(c.vmsWires)

ASSUME CanvasAssumption ==
    /\ DOMAIN Records = {"vm", "gke"}
    /\ \A m \in {"vm", "gke"} : \A c \in Records[m] : IsConfig(c)
    /\ Machines # {}
    /\ MaxNodes \in Nat /\ MaxCanvasEdits \in Nat

VARIABLES
    view,       \* the view shown
    mode,
    nodes,      \* of the canvas, in the order drawn; the root is not among them
    edges,
    nextId,     \* number in the id of the next node
    form,       \* of the wizard
    drawn,      \* edits so far
    dropped     \* ids of the state databases the canvas has had and dropped

canvasVars == <<view, mode, nodes, edges, nextId, form, drawn, dropped>>

Root == 0
Unnamed == ""

-----------------------------------------------------------------------------
(* The canvas.                                                             *)

\* The database in which RDI keeps its state has an id made from that of RDI.
StateId(rdi) == -rdi

\* The elements of a sequence that are in a set: Array.filter.
Keep(s, Test(_)) ==
    LET kept[i \in 0..Len(s)] ==
            IF i = 0 THEN <<>> ELSE IF Test(s[i]) THEN Append(kept[i - 1], s[i]) ELSE kept[i - 1]
    IN  kept[Len(s)]

NodeIds(ns) == {n.id : n \in ToSet(ns)}
OfKind(ns, kind) == Keep(ns, LAMBDA n : n.kind = kind)
Internals(ns) == {n \in ToSet(ns) : n.internal}
KindOf(ns, id) == IF \E i \in DOMAIN ns : ns[i].id = id THEN ns[CHOOSE i \in DOMAIN ns : ns[i].id = id].kind ELSE "none"
NodeOf(ns, id) == ns[CHOOSE i \in DOMAIN ns : ns[i].id = id]
Hosts == {"application", "vms"}
ProvidersOnly == {"cluster", "database", "storage"}

\* What a load balancer fronts: the first host it has an edge to.
FrontingTarget(ns, es, lb) ==
    LET out == SelectSeq(es, LAMBDA e : e.source = lb /\ KindOf(ns, e.target) \in Hosts)
    IN  IF out = <<>> THEN Root ELSE out[1].target

OrElse(name, default) == IF name = Unnamed THEN default ELSE name

PlaceOf(ns, kind, id) == LET alike == OfKind(ns, kind) IN CHOOSE i \in DOMAIN alike : alike[i].id = id

\* The name under which a node is wired to.
ProviderName(ns, es, n) ==
    LET fronted == FrontingTarget(ns, es, n.id) IN
    CASE n.kind = "vms" -> "app"
      [] n.kind = "cluster" -> OrElse(n.name, "cluster" \o ToString(PlaceOf(ns, "cluster", n.id)))
      [] n.kind = "loadbalancer" ->
            OrElse(n.name, CASE fronted = Root -> "lb"
                             [] KindOf(ns, fronted) = "vms" -> "app-lb"
                             [] OTHER -> OrElse(NodeOf(ns, fronted).name, "app") \o "-lb")
      [] n.kind = "operator" -> OrElse(n.name, IF PlaceOf(ns, "operator", n.id) = 1 THEN "operator" ELSE "operator-" \o ToString(PlaceOf(ns, "operator", n.id)))
      [] OTHER -> OrElse(n.name, CASE n.kind = "application" -> "app" [] n.kind = "database" -> "db" [] OTHER -> "bucket")

\* In which list of names a wire to a node of this kind is kept.
WireList(kind) == IF kind \in Hosts THEN "host" ELSE kind

\* The wires of some nodes, by name.
WiresOf(ns, es, ids) ==
    {<<WireList(KindOf(ns, e.target)), ProviderName(ns, es, NodeOf(ns, e.target))>> :
        e \in {e \in ToSet(es) : /\ e.source \in ids /\ e.target \notin ids
                                 /\ KindOf(ns, e.target) \in ProvidersOnly \cup Hosts \cup {"loadbalancer"}
                                 /\ ~NodeOf(ns, e.target).internal}}

\* The database RDI replicates into.
TargetOf(ns, es, rdi) ==
    LET out == Keep(es, LAMBDA e : e.source = rdi /\ KindOf(ns, e.target) = "database" /\ ~NodeOf(ns, e.target).internal)
    IN  IF out = <<>> THEN Root ELSE out[1].target

MapSeq(s, F(_)) == [i \in DOMAIN s |-> F(s[i])]

IsFronting(ns, es, lb) == FrontingTarget(ns, es, lb.id) # Root
OnVms(ns, es, lb) == KindOf(ns, FrontingTarget(ns, es, lb.id)) = "vms"

\* A cluster is sent with the databases of the user, not with the internal one.
CanvasDatabases(ns, es, cluster) ==
    MapSeq(Keep(ns, LAMBDA n : n.kind = "database" /\ n.parent = cluster.id /\ ~n.internal),
           LAMBDA n : [name |-> ProviderName(ns, es, n), internal |-> FALSE])

CanvasClusters(ns, es) ==
    MapSeq(OfKind(ns, "cluster"), LAMBDA c :
        [name |-> c.name,
         operator |-> IF c.parent = Root THEN Unnamed ELSE ProviderName(ns, es, NodeOf(ns, c.parent)),
         databases |-> CanvasDatabases(ns, es, c)])

CanvasApps(ns, es) ==
    MapSeq(OfKind(ns, "application"), LAMBDA a : [name |-> ProviderName(ns, es, a), wires |-> WiresOf(ns, es, {a.id})])

\* VMs are open to the internet when they say so, or behind any load balancer.
CanvasExposed(ns, es) ==
    \/ \E n \in ToSet(OfKind(ns, "vms")) : n.open
    \/ \E lb \in ToSet(OfKind(ns, "loadbalancer")) : IsFronting(ns, es, lb) /\ OnVms(ns, es, lb)

\* A load balancer that fronts nothing is left out, and all of them in Kubernetes.
CanvasBalancers(ns, es, m) ==
    IF m = "gke" THEN <<>>
    ELSE MapSeq(Keep(ns, LAMBDA n : n.kind = "loadbalancer" /\ IsFronting(ns, es, n)), LAMBDA lb :
            [name |-> ProviderName(ns, es, lb), onVms |-> OnVms(ns, es, lb),
             target |-> ProviderName(ns, es, NodeOf(ns, FrontingTarget(ns, es, lb.id)))])

CanvasRdi(ns, es) ==
    MapSeq(OfKind(ns, "rdi"), LAMBDA r :
        LET t == TargetOf(ns, es, r.id) IN IF t = Root THEN Unnamed ELSE ProviderName(ns, es, NodeOf(ns, t)))

CanvasStorage(ns, es) == MapSeq(OfKind(ns, "storage"), LAMBDA s : ProviderName(ns, es, s))

\* What the canvas sends to the server.
ToCreateInput(ns, es, m) ==
    [clusters |-> CanvasClusters(ns, es),
     operators |-> MapSeq(OfKind(ns, "operator"), LAMBDA o : ProviderName(ns, es, o)),
     vms |-> FlattenSeq(MapSeq(OfKind(ns, "vms"), LAMBDA v : v.machines)),
     exposed |-> CanvasExposed(ns, es),
     storage |-> CanvasStorage(ns, es),
     apps |-> CanvasApps(ns, es),
     vmsWires |-> WiresOf(ns, es, {n.id : n \in ToSet(OfKind(ns, "vms"))}),
     lbs |-> CanvasBalancers(ns, es, m),
     rdi |-> CanvasRdi(ns, es)]

-----------------------------------------------------------------------------
(* A canvas from a configuration.                                          *)

Node(kind, name) == [id |-> Root, kind |-> kind, parent |-> Root, name |-> name, machines |-> <<>>, open |-> FALSE, internal |-> FALSE]

\* Operators are drawn when there is a cluster to put into one.
OperatorNodes(c, m) ==
    IF m = "vm" \/ c.clusters = <<>> THEN <<>>
    ELSE MapSeq(IF c.operators = <<>> THEN <<"operator">> ELSE c.operators, LAMBDA o : Node("operator", o))

\* A cluster lies in the last operator of its name, else in the first; its
\* databases follow it.
ClusterNodes(c, m) ==
    LET ops == OperatorNodes(c, m)
        Operator(name) == LET named == {i \in DOMAIN ops : ops[i].name = name}
                          IN  IF ops = <<>> THEN Root ELSE IF named = {} THEN 1 ELSE Max(named)
        Place(i) == Len(ops) + i + Len(FlattenSeq([j \in 1..(i - 1) |-> c.clusters[j].databases]))
    IN  FlattenSeq([i \in DOMAIN c.clusters |->
            <<[Node("cluster", c.clusters[i].name) EXCEPT !.parent = Operator(c.clusters[i].operator)]>>
            \o MapSeq(c.clusters[i].databases, LAMBDA b :
                 [Node("database", b.name) EXCEPT !.parent = Place(i), !.internal = b.internal])])

\* One node for all VMs, of one machine type.
VmNodes(c, m) ==
    IF m = "gke" \/ c.vms = <<>> THEN <<>>
    ELSE <<[Node("vms", Unnamed) EXCEPT !.machines = MapSeq(c.vms, LAMBDA v : c.vms[1]), !.open = c.exposed]>>

\* VMs that are open and have no load balancer get one.
BalancerNodes(c, m) ==
    IF c.lbs = <<>> /\ VmNodes(c, m) # <<>> /\ c.exposed THEN <<Node("loadbalancer", Unnamed)>>
    ELSE MapSeq(c.lbs, LAMBDA lb : Node("loadbalancer", lb.name))

\* Storage stands for buckets, topics, datasets and SQL instances: they are
\* wired alike.
StorageNodes(c) == MapSeq(c.storage, LAMBDA s : Node("storage", s))
AppNodes(c) == MapSeq(c.apps, LAMBDA a : Node("application", a.name))

\* The nodes in the order in which they are made: number i has i in its id.
NodesOf(c, m) ==
    LET all == OperatorNodes(c, m) \o ClusterNodes(c, m) \o VmNodes(c, m)
               \o StorageNodes(c) \o AppNodes(c)
               \o BalancerNodes(c, m)
               \o MapSeq(c.rdi, LAMBDA r : Node("rdi", "rdi"))
    IN  [i \in DOMAIN all |-> [all[i] EXCEPT !.id = i]]

LastOf(ids) == Max(ids \cup {Root})
Named(ns, kind, name) == LastOf({n.id : n \in {n \in ToSet(ns) : n.kind = kind /\ n.name = name}})

(* Mutant: a cluster without a name is not found again. *)
ClusterByName(ns, name) == Named(ns, "cluster", name)

\* Clusters are found under the name they are wired to by.
ClusterNamed(ns, name) ==
    LastOf({n.id : n \in {n \in ToSet(ns) : n.kind = "cluster" /\ ProviderName(ns, <<>>, n) = name}})

HostNamed(ns, name) ==
    IF name = "app" /\ OfKind(ns, "vms") # <<>> THEN OfKind(ns, "vms")[1].id ELSE Named(ns, "application", name)

\* The load balancer of the VMs is also found as "app-lb".
LoadBalancerNamed(c, ns, name) ==
    LastOf({OfKind(ns, "loadbalancer")[i].id : i \in
        {i \in DOMAIN OfKind(ns, "loadbalancer") :
            \/ OfKind(ns, "loadbalancer")[i].name = name
            \/ name = "app-lb" /\ (c.lbs = <<>> \/ c.lbs[i].onVms)}})

ProviderOf(c, ns, wire) ==
    CASE wire[1] = "cluster" -> ClusterNamed(ns, wire[2])
      [] wire[1] = "host" -> HostNamed(ns, wire[2])
      [] wire[1] = "loadbalancer" -> LoadBalancerNamed(c, ns, wire[2])
      [] OTHER -> Named(ns, wire[1], wire[2])

Edge(source, target) == [source |-> source, target |-> target, state |-> FALSE]

FrontingEdges(c, ns) ==
    LET lbs == OfKind(ns, "loadbalancer")
    IN  [i \in DOMAIN lbs |->
            Edge(lbs[i].id, HostNamed(ns, IF c.lbs = <<>> \/ c.lbs[i].onVms THEN "app" ELSE c.lbs[i].target))]

WireEdges(c, ns) ==
    LET apps == OfKind(ns, "application")
        vms == OfKind(ns, "vms")
    IN  SetToSeq((UNION {{Edge(apps[a].id, ProviderOf(c, ns, w)) : w \in c.apps[a].wires} : a \in DOMAIN apps})
                 \cup (IF vms = <<>> THEN {} ELSE {Edge(vms[1].id, ProviderOf(c, ns, w)) : w \in c.vmsWires}))

\* RDI to its target and to the internal database beside it.
RdiEdges(c, ns) ==
    LET rdis == OfKind(ns, "rdi")
        target == IF rdis = <<>> THEN Root ELSE Named(ns, "database", c.rdi[1])
        beside == IF target = Root THEN {}
                  ELSE {n.id : n \in {n \in ToSet(ns) : n.internal /\ n.parent = NodeOf(ns, target).parent}}
    IN  (IF target = Root THEN <<>> ELSE <<Edge(rdis[1].id, target)>>)
        \o (IF beside = {} THEN <<>> ELSE <<[Edge(rdis[1].id, Min(beside)) EXCEPT !.state = TRUE]>>)

\* Wires that find no node are gone.
EdgesOf(c, ns) ==
    LET found == FrontingEdges(c, ns) \o WireEdges(c, ns)
    IN  Keep(found, LAMBDA e : e.target \notin {Root, e.source}) \o RdiEdges(c, ns)

-----------------------------------------------------------------------------
(* The database for the state of RDI.                                      *)

\* RDI nodes that have a target, with the cluster of the target.
DesiredStates(ns, es) ==
    {<<r.id, NodeOf(ns, TargetOf(ns, es, r.id)).parent>> :
        r \in {r \in ToSet(ns) : r.kind = "rdi" /\ TargetOf(ns, es, r.id) # Root}}

StateEdges(es) == {e \in ToSet(es) : e.state}

(* Mutant: a state database of the right name may stand anywhere. *)
StatesMatchSomewhere(ns, es) ==
    LET desired == DesiredStates(ns, es)
    IN  /\ {n.id : n \in Internals(ns)} = {StateId(d[1]) : d \in desired}
        /\ {e.source : e \in StateEdges(es)} = {d[1] : d \in desired}

StatesMatch(ns, es) ==
    LET desired == DesiredStates(ns, es)
    IN  /\ {<<n.id, n.parent>> : n \in Internals(ns)} = {<<StateId(d[1]), d[2]>> : d \in desired}
        /\ {e.source : e \in StateEdges(es)} = {d[1] : d \in desired}
        /\ Cardinality(StateEdges(es)) = Cardinality(desired)

\* Run after every change: nothing, or all state databases made anew.
ReconcileRdi(ns, es) ==
    LET desired == SetToSeq(DesiredStates(ns, es))
    IN  IF StatesMatch(ns, es) THEN [nodes |-> ns, edges |-> es]
        ELSE [nodes |-> Keep(ns, LAMBDA n : ~n.internal)
                        \o MapSeq(desired, LAMBDA d : [Node("database", "rdi-state") EXCEPT
                                                          !.id = StateId(d[1]), !.parent = d[2], !.internal = TRUE]),
              edges |-> Keep(es, LAMBDA e : ~e.state)
                        \o MapSeq(desired, LAMBDA d : [Edge(d[1], StateId(d[1])) EXCEPT !.state = TRUE])]

-----------------------------------------------------------------------------
(* The wizard.                                                             *)

\* The form takes every database for one of the user's.
FormDatabases(clusters) ==
    MapSeq(clusters, LAMBDA k : [k EXCEPT !.databases = MapSeq(k.databases, LAMBDA b : [b EXCEPT !.internal = FALSE])])

\* In Kubernetes it has an operator.
FormFromConfig(c, m) ==
    [c EXCEPT !.operators = IF m = "gke" /\ @ = <<>> THEN <<"operator">> ELSE @,
              !.clusters = FormDatabases(c.clusters)]

\* An application without a name is called "app"; in Kubernetes it has no
\* wires to load balancers.
PayloadApps(f, m) ==
    MapSeq(f.apps, LAMBDA a : [name |-> OrElse(a.name, "app"),
                               wires |-> {w \in a.wires : m = "vm" \/ w[1] # "loadbalancer"}])

VmPayload(f) ==
    [f EXCEPT !.operators = <<>>,
              !.apps = PayloadApps(f, "vm"),
              !.lbs = MapSeq(f.lbs, LAMBDA lb : [lb EXCEPT !.name = OrElse(lb.name, lb.target \o "-lb")]),
              !.exposed = f.vms # <<>> /\ @,
              !.vmsWires = IF f.vms = <<>> THEN {} ELSE @,
              !.clusters = MapSeq(f.clusters, LAMBDA k : [k EXCEPT !.operator = Unnamed])]

GkePayload(f) ==
    [f EXCEPT !.vms = <<>>, !.exposed = FALSE, !.vmsWires = {}, !.lbs = <<>>,
              !.apps = PayloadApps(f, "gke"),
              !.clusters = MapSeq(f.clusters, LAMBDA k : [k EXCEPT !.operator = OrElse(k.operator, f.operators[1])])]

\* What the wizard sends: the form, without what the mode has no use for.
WizardPayload(f, m) == IF m = "vm" THEN VmPayload(f) ELSE GkePayload(f)

\* What the page would send now.
CurrentConfig ==
    IF view = "diagram" THEN ToCreateInput(nodes, edges, mode) ELSE WizardPayload(form, mode)

Alike(machines) == \A i \in DOMAIN machines : machines[i] = machines[1]

-----------------------------------------------------------------------------
(* Editing the canvas.                                                     *)

Draws ==
    /\ drawn < MaxCanvasEdits
    /\ drawn' = drawn + 1

\* State databases that are on the canvas before and not after.
DroppedFrom(ns, ms) == {n.id : n \in Internals(ns)} \ NodeIds(ms)

\* A change of the canvas, with what the effect makes of it.
Redraw(ns, es) ==
    /\ view = "diagram" /\ Draws
    /\ LET settled == ReconcileRdi(ns, es)
       IN  /\ nodes' = settled.nodes
           /\ edges' = settled.edges
           /\ dropped' = dropped \cup DroppedFrom(nodes, settled.nodes)
    /\ UNCHANGED <<view, mode, form>>

\* Where a part may be dropped.
HostsFor(kind) ==
    CASE kind = "database" -> NodeIds(OfKind(nodes, "cluster"))
      [] kind = "cluster" /\ mode = "gke" -> NodeIds(OfKind(nodes, "operator"))
      [] kind = "operator" -> IF mode = "gke" /\ Len(OfKind(nodes, "operator")) < 3 THEN {Root} ELSE {}
      [] kind = "vms" -> IF mode = "vm" THEN {Root} ELSE {}
      [] kind = "rdi" -> IF OfKind(nodes, "rdi") = <<>> THEN {Root} ELSE {}
      [] OTHER -> {Root}

\* A load balancer may be dropped on what it is to front.
OnDrop(kind, parent, front) ==
    /\ Len(nodes) < MaxNodes
    /\ parent \in HostsFor(kind)
    /\ front # Root => kind = "loadbalancer" /\ KindOf(nodes, front) \in Hosts
    /\ nextId' = nextId + 1
    /\ Redraw(Append(nodes, [Node(kind, Unnamed) EXCEPT !.id = nextId, !.parent = parent,
                                 !.machines = IF kind = "vms" THEN <<CHOOSE m \in Machines : TRUE>> ELSE <<>>]),
              IF front = Root THEN edges ELSE Append(edges, Edge(nextId, front)))

\* Which way an edge between two nodes points; <<>> when there may be none.
OrientConnection(a, b) ==
    LET ka == KindOf(nodes, a)
        kb == KindOf(nodes, b)
        Balance(lb, host) == IF FrontingTarget(nodes, edges, lb) = Root THEN <<lb, host>>
                             ELSE IF FrontingTarget(nodes, edges, lb) = host THEN <<>> ELSE <<host, lb>>
    IN  CASE ka = "rdi" /\ kb = "database" -> <<a, b>>
          [] kb = "rdi" /\ ka = "database" -> <<b, a>>
          [] ka \in ProvidersOnly /\ kb \in Hosts -> <<b, a>>
          [] kb \in ProvidersOnly /\ ka \in Hosts -> <<a, b>>
          [] ka = "loadbalancer" /\ kb \in Hosts -> Balance(a, b)
          [] kb = "loadbalancer" /\ ka \in Hosts -> Balance(b, a)
          [] ka \in Hosts /\ kb \in Hosts /\ a # b -> <<a, b>>
          [] OTHER -> <<>>

OnConnect(a, b) ==
    LET o == OrientConnection(a, b)
    IN  /\ o # <<>>
        /\ \A e \in ToSet(edges) : <<e.source, e.target>> # o
        /\ Redraw(nodes, Append(edges, Edge(o[1], o[2])))
        /\ UNCHANGED nextId

\* The user selects an edge and deletes it.
DeleteEdge(e) ==
    /\ Redraw(nodes, Keep(edges, LAMBDA d : d # e))
    /\ UNCHANGED nextId

\* A cluster is dragged onto another operator.
OnNodeDragStop(c, o) ==
    /\ mode = "gke" /\ KindOf(nodes, c) = "cluster" /\ KindOf(nodes, o) = "operator"
    /\ Redraw(MapSeq(nodes, LAMBDA n : IF n.id = c THEN [n EXCEPT !.parent = o] ELSE n), edges)
    /\ UNCHANGED nextId

(* Mutant: only what lies directly in a node goes with it. *)
DoomedChildren(id) == {id} \cup {n.id : n \in {n \in ToSet(nodes) : n.parent = id}}

\* What goes with a node: parts lie two deep at most.
Doomed(id) ==
    LET children == {n.id : n \in {n \in ToSet(nodes) : n.parent = id}}
    IN  {id} \cup children \cup {n.id : n \in {n \in ToSet(nodes) : n.parent \in children}}

RemoveNode(id) ==
    /\ Redraw(Keep(nodes, LAMBDA n : n.id \notin Doomed(id)),
              Keep(edges, LAMBDA e : {e.source, e.target} \cap Doomed(id) = {}))
    /\ UNCHANGED nextId

\* A node with some of its fields set anew.
With(n, data) == [f \in DOMAIN n |-> IF f \in DOMAIN data THEN data[f] ELSE n[f]]

\* The dialog of a node is saved; each kind has a form of its own.
SaveDialog(id, kind, data) ==
    /\ KindOf(nodes, id) = kind
    /\ Redraw(MapSeq(nodes, LAMBDA n : IF n.id = id THEN With(n, data) ELSE n), edges)
    /\ UNCHANGED nextId

SaveOperator(id, name) == SaveDialog(id, "operator", [name |-> name])
SaveCluster(id, name) == SaveDialog(id, "cluster", [name |-> name])
SaveDatabase(id, name) == id > Root /\ SaveDialog(id, "database", [name |-> name])
SaveVms(id, machines, open) == SaveDialog(id, "vms", [machines |-> machines, open |-> open])
SaveApplication(id, name) == SaveDialog(id, "application", [name |-> name])
SaveStorage(id, name) == SaveDialog(id, "storage", [name |-> name])

\* Names of a configuration to which something can be wired.
KnownNames(c) ==
    {<<"cluster", OrElse(c.clusters[i].name, "cluster" \o ToString(i))>> : i \in DOMAIN c.clusters}
    \cup (UNION {{<<"database", b.name>> : b \in ToSet(c.clusters[i].databases)} : i \in DOMAIN c.clusters})
    \cup {<<"host", a.name>> : a \in ToSet(c.apps)} \cup (IF c.vms = <<>> THEN {} ELSE {<<"host", "app">>})
    \cup {<<"storage", s>> : s \in ToSet(c.storage)}

-----------------------------------------------------------------------------
(* Editing the form.                                                       *)

Fill(f) ==
    /\ view = "wizard" /\ Draws
    /\ form' = f
    /\ UNCHANGED <<view, mode, nodes, edges, nextId, dropped>>

\* Wires to the old name stay as they are.
FillClusterName(i, name) == Fill([form EXCEPT !.clusters[i].name = name])
FillDatabase(i, name) ==
    Fill([form EXCEPT !.clusters[i].databases = Append(@, [name |-> OrElse(name, "db"), internal |-> FALSE])])
FillApp(name) == Fill([form EXCEPT !.apps = Append(@, [name |-> name, wires |-> {}])])
FillRemoveApp(a) == Fill([form EXCEPT !.apps = RemoveAt(@, a)])
FillWire(a, w) == Fill([form EXCEPT !.apps[a].wires = SymDiff(@, {w})])
FillVmsWire(w) == form.vms # <<>> /\ Fill([form EXCEPT !.vmsWires = SymDiff(@, {w})])
FillVms(ms) == Fill([form EXCEPT !.vms = ms, !.exposed = ms # <<>> /\ @])
FillExposed == form.vms # <<>> /\ Fill([form EXCEPT !.exposed = ~@])
FillStorage(name) == Fill([form EXCEPT !.storage = Append(@, name)])
FillOperator(name) == mode = "gke" /\ Fill([form EXCEPT !.operators[1] = name])
FillRdi(target) == Fill([form EXCEPT !.rdi = <<target>>])

\* A load balancer fronts the VMs, until an application is chosen.
FillLoadBalancer(target) ==
    /\ mode = "vm"
    /\ Fill([form EXCEPT !.lbs = Append(@, [name |-> Unnamed, onVms |-> target = "app", target |-> target])])

-----------------------------------------------------------------------------
(* The page.                                                               *)

\* The other view starts from what this one would send.
SwitchView ==
    /\ Draws
    /\ IF view = "wizard"
       THEN LET ns == NodesOf(CurrentConfig, mode)
                settled == ReconcileRdi(ns, EdgesOf(CurrentConfig, ns))
            IN  /\ view' = "diagram"
                /\ nodes' = settled.nodes
                /\ edges' = settled.edges
                /\ dropped' = DroppedFrom(ns, settled.nodes)
                /\ nextId' = Len(ns) + 1
                /\ UNCHANGED form
       ELSE /\ view' = "wizard"
            /\ form' = FormFromConfig(CurrentConfig, mode)
            /\ nodes' = <<>> /\ edges' = <<>> /\ nextId' = 1 /\ dropped' = {}
    /\ UNCHANGED mode

\* The other mode empties the canvas and leaves the form.
SwitchMode ==
    /\ Draws
    /\ mode' = IF mode = "vm" THEN "gke" ELSE "vm"
    /\ IF view = "diagram" THEN nodes' = <<>> /\ edges' = <<>> /\ dropped' = {} ELSE UNCHANGED <<nodes, edges, dropped>>
    /\ form' = IF mode' = "gke" /\ form.operators = <<>> THEN [form EXCEPT !.operators = <<"operator">>] ELSE form
    /\ UNCHANGED <<view, nextId>>

\* The page is opened, with the configuration of a record or with none.
CanvasInit ==
    /\ view \in {"wizard", "diagram"}
    /\ mode \in {"vm", "gke"}
    /\ drawn = 0
    /\ \E c \in Records[mode] :
        LET ns == NodesOf(c, mode)
            settled == ReconcileRdi(ns, EdgesOf(c, ns))
        IN  /\ form = FormFromConfig(c, mode)
            /\ nodes = IF view = "diagram" THEN settled.nodes ELSE <<>>
            /\ edges = IF view = "diagram" THEN settled.edges ELSE <<>>
            /\ dropped = IF view = "diagram" THEN DroppedFrom(ns, settled.nodes) ELSE {}
            /\ nextId = IF view = "diagram" THEN Len(ns) + 1 ELSE 1

\* Machine types of up to two VMs.
SetsOfVms == {<<>>} \cup {<<m>> : m \in Machines} \cup (Machines \X Machines)

CanvasEdit ==
    /\ view = "diagram" /\ drawn < MaxCanvasEdits
    /\ \/ \E kind \in {"operator", "cluster", "database", "vms", "application", "loadbalancer", "rdi"} :
             \E parent \in HostsFor(kind), front \in NodeIds(nodes) \cup {Root} : OnDrop(kind, parent, front)
       \/ \E a, b \in NodeIds(nodes) : OnConnect(a, b)
       \/ \E a, b \in NodeIds(nodes) : OnNodeDragStop(a, b)
       \/ \E e \in ToSet(edges) : DeleteEdge(e)
       \/ \E n \in ToSet(nodes) : RemoveNode(n.id)
       \/ \E n \in ToSet(nodes), name \in PartNames \cup {Unnamed} :
             \/ SaveOperator(n.id, name)
             \/ SaveCluster(n.id, name)
             \/ SaveDatabase(n.id, name)
             \/ SaveApplication(n.id, name)
             \/ SaveStorage(n.id, name)
       \/ \E n \in ToSet(nodes), machines \in SetsOfVms \ {<<>>}, open \in BOOLEAN :
             Alike(machines) /\ SaveVms(n.id, machines, open)

FormEdit ==
    /\ view = "wizard" /\ drawn < MaxCanvasEdits
    /\ \/ \E i \in DOMAIN form.clusters, name \in PartNames : FillClusterName(i, name) \/ FillDatabase(i, name)
       \/ \E name \in PartNames \cup {Unnamed} : FillApp(name)
       \/ \E a \in DOMAIN form.apps :
             \/ FillRemoveApp(a)
             \/ \E w \in KnownNames(form) \ {<<"host", form.apps[a].name>>} : FillWire(a, w)
       \/ \E w \in KnownNames(form) \ {<<"host", "app">>} : FillVmsWire(w)
       \/ \E ms \in SetsOfVms : FillVms(ms)
       \/ FillExposed
       \/ \E name \in PartNames : FillStorage(name) \/ FillOperator(name)
       \/ \E i \in DOMAIN form.clusters : \E b \in ToSet(form.clusters[i].databases) : FillRdi(b.name)
       \/ \E target \in ({"app"} \cup {a.name : a \in ToSet(form.apps)}) \ {Unnamed} : FillLoadBalancer(target)

CanvasNext == CanvasEdit \/ FormEdit \/ SwitchView \/ SwitchMode

CanvasSpec == CanvasInit /\ [][CanvasNext]_canvasVars

-----------------------------------------------------------------------------
(* What is built from a configuration.                                     *)

\* A load balancer without a target is built empty and serves nothing; wires
\* nothing answers to are passed over.
Deployment(c, m) ==
    LET lbs == SelectSeq(c.lbs, LAMBDA lb : IF lb.onVms THEN c.vms # <<>> ELSE lb.target \in {a.name : a \in ToSet(c.apps)})
        known == KnownNames(c) \cup (IF m = "vm" THEN {<<"loadbalancer", lb.name>> : lb \in ToSet(lbs)} ELSE {})
    IN  [c EXCEPT !.lbs = lbs, !.vmsWires = @ \cap known,
                  !.apps = MapSeq(c.apps, LAMBDA a : [a EXCEPT !.wires = a.wires \cap known]),
                  !.rdi = MapSeq(c.rdi, LAMBDA r : IF <<"database", r>> \in known THEN r ELSE Unnamed),
                  !.clusters = MapSeq(c.clusters, LAMBDA k : [k EXCEPT !.operator =
                      IF m = "vm" THEN Unnamed ELSE IF k.operator \in ToSet(c.operators) THEN k.operator ELSE c.operators[1]])]

\* What the canvas is known to change when it is filled from a
\* configuration: a set of VMs gets the machine type of the first, exposed
\* VMs get a load balancer and VMs with one are exposed, an application
\* called "app" is taken for the VMs.
SurvivesCanvas(c) ==
    /\ Alike(c.vms)
    /\ c.exposed => c.lbs # <<>>
    /\ c.vms # <<>> /\ (\E lb \in ToSet(c.lbs) : lb.onVms) => c.exposed
    /\ c.vms # <<>> \/ (\E lb \in ToSet(c.lbs) : lb.onVms) => \A a \in ToSet(c.apps) : a.name # "app"

\* The heading of the page: both views build the same deployment.  Switching
\* keeps it, however the wires were drawn and whatever was renamed before.
SwitchKeepsDeployment ==
    [][SwitchView /\ (mode = "gke" => CurrentConfig.clusters # <<>>) /\ (view = "wizard" => SurvivesCanvas(CurrentConfig))
         => Deployment(CurrentConfig', mode) = Deployment(CurrentConfig, mode)]_canvasVars

\* Ids are unique, also after a configuration was read in, and every node
\* lies in one that exists.  Edges end at nodes; one that was drawn to the
\* state database of RDI may outlive it, also one from the record, in which
\* that database had another id.
CanvasWhole ==
    /\ \A i, j \in DOMAIN nodes : nodes[i].id = nodes[j].id => i = j
    /\ \A n \in ToSet(nodes) : n.id < nextId /\ (n.parent # Root => KindOf(nodes, n.parent) \in {"operator", "cluster"})
    /\ \A e \in ToSet(edges) : KindOf(nodes, e.source) # "none" /\ e.target \in NodeIds(nodes) \cup dropped

\* RDI with a target has one state database, beside the target, and one edge
\* to it, and there are no others, wherever target and RDI were moved and
\* whatever was deleted: all the effect would look at if it ran again.
StateBesideTarget ==
    LET desired == DesiredStates(nodes, edges)
    IN  /\ {<<n.id, n.parent>> : n \in Internals(nodes)} = {<<StateId(d[1]), d[2]>> : d \in desired}
        /\ {e.source : e \in StateEdges(edges)} = {d[1] : d \in desired}
        /\ Cardinality(StateEdges(edges)) = Cardinality(desired)

=============================================================================
