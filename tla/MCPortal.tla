------------------------------ MODULE MCPortal ------------------------------
(* Instances for TLC of the parts of the portal that share no state with   *)
(* each other or with the life of an instance.  One part moves in a        *)
(* behaviour, the others stay as they began: interleaving two of them adds *)
(* nothing.                                                                *)
EXTENDS FanOut, ResourceScan, InstanceProgress, LogStream, Connections, DesignCanvas, Admission, RegistryFile

CONSTANT Parts   \* those of which one may move

VARIABLE part

MCSources == <<"vm", "dns">>
MCIds == {<<"a">>, <<"a", "b">>}
MCResources == {[source |-> "vm", name |-> <<"a", "b", "vm1">>, by |-> <<"a", "b">>],
                [source |-> "vm", name |-> <<"gke", "a", "gkep">>, by |-> <<"a">>],
                [source |-> "dns", name |-> <<"cluster.a", "b.example">>, by |-> <<"a", "b">>]}

\* A Redis cluster on VMs with a database or with everything, an empty one on
\* GKE, and applications alone.
MCPlans == {[gke |-> FALSE, redis |-> TRUE, licenses |-> 0, databases |-> 1, resources |-> 1],
            [gke |-> FALSE, redis |-> TRUE, licenses |-> 1, databases |-> 2, resources |-> 1],
            [gke |-> TRUE, redis |-> TRUE, licenses |-> 0, databases |-> 0, resources |-> 1],
            [gke |-> FALSE, redis |-> FALSE, licenses |-> 0, databases |-> 0, resources |-> 1]}
MCRequests == [p \in MCPlans |-> IF p.licenses = 1 \/ p.gke THEN 2 ELSE 3]

MCCut(name) == IF name = <<"long-name">> THEN <<"long">> ELSE name
MCCluster(name, operator, dbs) == [name |-> name, operator |-> operator,
                                 databases |-> {[name |-> db, secret |-> 0, internal |-> FALSE] : db \in dbs}]
MCDraft(kind, clusters, operators) ==
    [mode |-> kind, clusters |-> clusters, operators |-> operators, resources |-> {},
     apps |-> <<[name |-> <<"web">>, wires |-> {<<"db">>, <<"cluster", 2>>}]>>, vms |-> FALSE, vmWires |-> {}, rdi |-> Blank]
MCDrafts ==
    {MCDraft("vm", <<MCCluster(<<"a">>, Blank, {}), MCCluster(Blank, Blank, {<<"db">>})>>, <<<<"operator">>>>),
     MCDraft("vm", <<MCCluster(<<"cluster", 2>>, Blank, {<<"db">>}), MCCluster(Blank, Blank, {})>>, <<<<"operator">>>>),
     MCDraft("gke", <<MCCluster(<<"a">>, <<"ops">>, {<<"db">>}), MCCluster(Blank, <<"long-name">>, {})>>,
             <<<<"operator">>, <<"long-name">>>>)}
MCClusterNames == {<<"a">>, <<"c", 2>>}
MCDatabaseNames == {<<"db">>}
MCBuckets == {<<"bucket">>}
MCAppNames == {<<"app">>, <<"node", 1>>, <<"rdi">>}
MCOperatorNames == {<<"ops">>}

\* Records the page of a design is opened with: the VM one was made with RDI
\* and everything wired, the GKE one has two clusters, each on an operator.
MCEmpty == [clusters |-> <<>>, operators |-> <<>>, vms |-> <<>>, exposed |-> FALSE, storage |-> <<>>, apps |-> <<>>,
            vmsWires |-> {}, lbs |-> <<>>, rdi |-> <<>>]
MCStored(db, internal) == [name |-> db, internal |-> internal]
MCVmRecord ==
    [MCEmpty EXCEPT
        !.clusters = <<[name |-> "", operator |-> "", databases |-> <<MCStored("db", FALSE), MCStored("rdi-state", TRUE)>>]>>,
        !.vms = <<"n2">>, !.exposed = TRUE, !.vmsWires = {<<"host", "web">>},
        !.apps = <<[name |-> "web", wires |-> {<<"cluster", "cluster1">>, <<"database", "rdi-state">>, <<"loadbalancer", "app-lb">>}]>>,
        !.lbs = <<[name |-> "app-lb", onVms |-> TRUE, target |-> "app"]>>, !.rdi = <<"db">>]
MCGkeRecord ==
    [MCEmpty EXCEPT
        !.clusters = <<[name |-> "c", operator |-> "operator-2", databases |-> <<MCStored("db", FALSE), MCStored("rdi-state", TRUE)>>],
                       [name |-> "d", operator |-> "operator", databases |-> <<MCStored("db2", FALSE)>>]>>,
        !.rdi = <<"db">>,
        !.operators = <<"operator", "operator-2">>,
        !.apps = <<[name |-> "web", wires |-> {<<"cluster", "c">>, <<"database", "db">>}]>>]
MCRecords == [m \in {"vm", "gke"} |-> IF m = "vm" THEN {MCEmpty, MCVmRecord} ELSE {MCEmpty, MCGkeRecord}]

MCMachineInfo ==
    [m \in {"n2", "e2", "t2a"} |->
        CASE m = "n2" -> [cpus |-> 2, gib |-> 4, ssds |-> 2, arm |-> FALSE]
          [] m = "e2" -> [cpus |-> 1, gib |-> 2, ssds |-> 0, arm |-> FALSE]
          [] m = "t2a" -> [cpus |-> 1, gib |-> 2, ssds |-> 0, arm |-> TRUE]]
MCSlug(name) == IF name = "Data" THEN "data" ELSE IF name = "9" THEN "" ELSE name
MCTooLong(name) == Len(name[2]) > 3
\* A Redis cluster with one database, and a deployment without anything.
MCRedis(name, size) ==
    [name |-> name, machine |-> "n2", nodes |-> size, rec |-> size, nvme |-> 0, dbs |-> <<[name |-> "db", port |-> 1]>>,
     gib |-> 1, shards |-> 1, flex |-> FALSE, licensed |-> FALSE]
MCOnVms(id) ==
    [id |-> id, owner |-> "ann", mode |-> "vm", clusters |-> <<>>, vms |-> <<>>, memviz |-> FALSE, ports |-> TRUE, apps |-> <<>>,
     wires |-> {}, lbs |-> <<>>, zones |-> <<"b", "c">>, gke |-> [machine |-> "e2", nodes |-> 3],
     buckets |-> <<>>, topics |-> <<>>, datasets |-> <<>>, sqls |-> <<>>, private |-> FALSE, rdi |-> {}]
MCWire(who, kind, to) == [who |-> who, kind |-> kind, to |-> to]
\* A deployment with nearly everything, and one whose unnamed cluster has
\* the names of the named one of the first.
MCFull ==
    [MCOnVms(<<"a">>) EXCEPT !.clusters = <<MCRedis("b", 2)>>, !.vms = <<"e2">>,
        !.apps = <<[name |-> "api", machine |-> "e2", gcs |-> TRUE]>>,
        !.wires = {MCWire("api", "cluster", "b"), MCWire("vms", "storage", "Data"), MCWire("api", "app", "vms"),
                   MCWire("vms", "lb", "lb"), MCWire("vms", "pubsub", "t"), MCWire("vms", "app", "vms")},
        !.lbs = <<[name |-> "lb", target |-> "api"]>>, !.buckets = <<"Data">>, !.topics = <<"t">>]
MCBeside == [MCOnVms(<<"a", "b">>) EXCEPT !.clusters = <<MCRedis("", 1)>>, !.sqls = <<"s">>,
        !.lbs = <<[name |-> "lb", target |-> "vms"], [name |-> "lb", target |-> "vms"]>>,
        !.rdi = {[machine |-> "e2", target |-> "db", sources |-> <<"s">>]}]
MCOnGke == [MCOnVms(<<"k">>) EXCEPT !.mode = "gke", !.clusters = <<MCRedis("", 3), MCRedis("x", 1)>>, !.zones = <<"c">>, !.buckets = <<"data">>]
MCLarge == [MCOnVms(<<"l">>) EXCEPT !.clusters = <<MCRedis("", 2), MCRedis("y", 1)>>]
MCBroken == [MCOnVms(<<"o">>) EXCEPT !.clusters = <<[MCRedis("", 1) EXCEPT !.machine = "t2a", !.nvme = 1]>>]
MCPair(a, b) == [d \in {"d1", "d2"} |-> IF d = "d1" THEN a ELSE b]
MCWorlds ==
    {[wish |-> MCPair(MCFull, MCBeside), lacking |-> l] : l \in
        {{<<"machine", "n2", "c">>}, {<<"quota">>}, {<<"iam", "storage.buckets.create">>},
         {<<"name", <<"bucket", <<"a", "data">>>>>>}, {<<"name", <<"dns", <<"api", "a">>>>>>}}}
    \cup {[wish |-> MCPair(MCOnGke, MCLarge), lacking |-> l] : l \in
        {{<<"dns-zone">>}, {<<"name", <<"gke", <<"k">>>>>>}}}
    \cup {[wish |-> MCPair([MCOnGke EXCEPT !.zones = <<>>], [MCLarge EXCEPT !.zones = <<>>]), lacking |-> {}]}
    \cup {[wish |-> MCPair(MCLarge, MCBroken), lacking |-> l] : l \in
        {{}, {<<"project">>}, {<<"api", "dns">>}, {<<"name", <<"vpc", <<"l">>>>>>}, {<<"ssh">>}}}

-----------------------------------------------------------------------------

PortalInit ==
    /\ CanvasInit
    /\ part \in Parts
    /\ part # "canvas" => <<view, mode, form>> = <<"wizard", "vm", MCEmpty>>
    /\ FanOutInit
    /\ ScanInit /\ (part # "scan" => live = {})
    /\ ProgressInit /\ (part # "progress" => plan = CHOOSE p \in Plans : TRUE)
    /\ StreamInit /\ (part # "stream" => recorded = CHOOSE s \in PageStatuses : TRUE)
    /\ ConnectionsInit /\ (part # "connections" => design = CHOOSE d \in Drafts : TRUE)
    /\ AdmissionInit /\ (part # "admission" => [wish |-> wish, lacking |-> lacking] = [wish |-> MCPair(MCLarge, MCBroken), lacking |-> {}])
    /\ RegistryInit /\ (part # "registry" => turn = "bulk" /\ file = [i \in Instances |-> "destroyed"])

FanOutStep(A) == part = "fanout" /\ A /\ UNCHANGED <<part, scanVars, progressVars, streamVars, connectionVars, canvasVars, admissionVars, registryVars>>
FanOutPart == FanOutStep(FanOutNext)

ScanPart ==
    /\ part = "scan" /\ ScanNext
    /\ UNCHANGED <<part, fanOutVars, progressVars, streamVars, connectionVars, canvasVars, admissionVars, registryVars>>

ProgressPart ==
    /\ part = "progress" /\ ProgressNext
    /\ UNCHANGED <<part, fanOutVars, scanVars, streamVars, connectionVars, canvasVars, admissionVars, registryVars>>

StreamStep(A) == part = "stream" /\ A /\ UNCHANGED <<part, fanOutVars, scanVars, progressVars, connectionVars, canvasVars, admissionVars, registryVars>>
StreamPart == StreamStep(StreamNext)

ConnectionsPart ==
    /\ part = "connections" /\ ConnectionsNext
    /\ UNCHANGED <<part, fanOutVars, scanVars, progressVars, streamVars, canvasVars, admissionVars, registryVars>>

CanvasPart ==
    /\ part = "canvas" /\ CanvasNext
    /\ UNCHANGED <<part, fanOutVars, scanVars, progressVars, streamVars, connectionVars, admissionVars, registryVars>>

AdmissionPart ==
    /\ part = "admission" /\ AdmissionNext
    /\ UNCHANGED <<part, fanOutVars, scanVars, progressVars, streamVars, connectionVars, canvasVars, registryVars>>

RegistryPart ==
    /\ part = "registry" /\ RegistryNext
    /\ UNCHANGED <<part, fanOutVars, scanVars, progressVars, streamVars, connectionVars, canvasVars, admissionVars>>

PortalNext == FanOutPart \/ ScanPart \/ ProgressPart \/ StreamPart \/ ConnectionsPart \/ CanvasPart \/ AdmissionPart \/ RegistryPart

PortalVars == <<part, fanOutVars, scanVars, progressVars, streamVars, connectionVars, canvasVars, admissionVars, registryVars>>

\* FanOutFairness and StreamFairness, of the part that moves.
PortalFairness ==
    /\ WF_PortalVars(FanOutStep(NextAttempt)) /\ \A a \in Tries : WF_PortalVars(FanOutStep(Answer(a)))
    /\ WF_PortalVars(StreamStep(SendChunk)) /\ WF_PortalVars(StreamStep(SendStatus)) /\ WF_PortalVars(StreamStep(Receive))
    /\ WF_PortalVars(StreamStep(StreamReopens))
    /\ WF_PortalVars(StreamStep(PollReads)) /\ WF_PortalVars(StreamStep(PollAnswers))

PortalSpec == PortalInit /\ [][PortalNext]_PortalVars /\ PortalFairness

\* Every call of the fan-out ends.
PortalCallEnds == part = "fanout" => CallEnds

\* The page comes to show the status of the record.
PortalPageCatchesUp == part = "stream" => PageCatchesUp

=============================================================================
