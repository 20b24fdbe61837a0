----------------------------- MODULE Admission -----------------------------
(***************************************************************************)
(* The way of a deployment into the project: the quota of its owner, the   *)
(* checks of the preflight against a project that other deployments change *)
(* meanwhile, the record, and terraform, which needs in earnest what the   *)
(* preflight looked for.                                                   *)
(***************************************************************************)
EXTENDS Integers, Sequences, FiniteSets, SequencesExt

CONSTANTS
    Worlds,             \* [wish, lacking]: what is asked for, and the facts the project lacks
    MachineInfo,        \* [cpus, gib, ssds, arm] of every machine type
    RegionCpus,         \* limit of the region
    MaxLiveClusters,    \* limits of one user, and of one cluster
    MaxNodesPerCluster,
    MaxNvmePerNode,
    TrialShards,
    MaxParts,           \* how many buckets, topics, datasets or SQL instances one deployment may have
    Slug(_),            \* a name as the normalisations leave it; "" when they refuse it
    TooLong(_),         \* the whole name of a bucket is
    Admins,             \* owners without a quota
    MaxOrders,          \* bound on the requests, retries and deletes
    MaxOutages          \* bound on the calls to Google that fail

\* A configuration is of sequences, its machines are of types there are.
WellFormed(a) ==
    /\ a.clusters \in Seq(ToSet(a.clusters)) /\ a.zones \in Seq(ToSet(a.zones))
    /\ a.vms \in Seq(DOMAIN MachineInfo) /\ a.apps \in Seq(ToSet(a.apps)) /\ IsFiniteSet(a.rdi)
    /\ \A c \in ToSet(a.clusters) : c.nodes \in Nat /\ c.machine \in DOMAIN MachineInfo
    /\ \A x \in ToSet(a.apps) \cup a.rdi : x.machine \in DOMAIN MachineInfo
    /\ a.gke.nodes \in Nat /\ a.gke.machine \in DOMAIN MachineInfo

ASSUME AdmissionAssumption ==
    /\ \A w \in Worlds : /\ IsFiniteSet(DOMAIN w.wish)
                         /\ \A d, e \in DOMAIN w.wish : w.wish[d].id = w.wish[e].id => d = e
                         /\ \A d \in DOMAIN w.wish : WellFormed(w.wish[d])
    /\ \A m \in DOMAIN MachineInfo : MachineInfo[m].cpus \in Nat
    /\ {RegionCpus, MaxLiveClusters, MaxNodesPerCluster, MaxNvmePerNode, TrialShards, MaxParts, MaxOrders, MaxOutages} \subseteq Nat

VARIABLES
    wish,       \* the configuration of each deployment
    lacking,    \* the facts the project lacks
    deploys,    \* the record and the request of each deployment
    orders,     \* requests so far
    outages     \* calls that have failed so far

admissionVars == <<wish, lacking, deploys, orders, outages>>

Unasked == [status |-> "none", step |-> "idle", how |-> "checked", checks |-> {},
            joined |-> {}, builders |-> {}, built |-> {}, trouble |-> {}]

Total(numbers) == FoldSeq(LAMBDA n, sum : n + sum, 0, numbers)

-----------------------------------------------------------------------------
(* The normalisations.                                                     *)

\* Names of parts: too many of them, one that is refused, or two alike.
NamesRefused(names) ==
    LET slugs == [i \in DOMAIN names |-> Slug(names[i])]
    IN  Len(names) > MaxParts \/ "" \in ToSet(slugs) \/ ~IsInjective(slugs)

BucketsRefused(a) == NamesRefused(a.buckets)
TopicsRefused(a) == NamesRefused(a.topics)
DatasetsRefused(a) == NamesRefused(a.datasets)
SqlRefused(a) == NamesRefused(a.sqls)
RdiRefused(a) == \E r \in a.rdi : "" \in ToSet(r.sources) \/ ~IsInjective(r.sources)

ClustersRefused(a) ==
    \/ Len(a.clusters) > 3
    \/ \E c \in ToSet(a.clusters) : c.name # "" /\ Slug(c.name) = ""
    \/ \E i, j \in DOMAIN a.clusters : i # j /\ a.clusters[i].name = a.clusters[j].name /\ a.clusters[i].name # ""

AppsRefused(a) == NamesRefused([i \in DOMAIN a.apps |-> a.apps[i].name])

HasAppCompute(a) == a.vms # <<>> \/ a.apps # <<>>

CountRedisClusters(a) == IF ClustersRefused(a) THEN 1 ELSE Len(a.clusters)

-----------------------------------------------------------------------------
(* Names in Google: the kind, and its parts.                               *)

ClusterPrefix(a, i) ==
    IF a.clusters[i].name # "" THEN Append(a.id, a.clusters[i].name)
    ELSE IF i = 1 THEN a.id ELSE Append(a.id, "c" \o ToString(i))

\* The hosts of a cluster, and of the VM of a place.
ClusterHosts(a, i) ==
    {<<"dns", <<"cluster">> \o ClusterPrefix(a, i)>>}
    \cup {<<"dns", <<"node" \o ToString(n)>> \o ClusterPrefix(a, i)>> : n \in 1 .. a.clusters[i].nodes}

VmHost(a, name, i) == <<"dns", <<name>> \o (IF i = 1 THEN a.id ELSE Append(a.id, ToString(i - 1)))>>

\* The DNS names that the preflight asks for.
PlannedHosts(a) ==
    (UNION {ClusterHosts(a, i) : i \in DOMAIN a.clusters}) \cup {VmHost(a, "app", i) : i \in DOMAIN a.vms}

\* Those that terraform makes besides: of applications, one VM to each, and
\* of RDI.
FurtherHosts(a) == {VmHost(a, app.name, 1) : app \in ToSet(a.apps)} \cup {VmHost(a, "rdi", 1) : r \in a.rdi}

BucketNames(a) == {<<"bucket", Append(a.id, Slug(b))>> : b \in ToSet(a.buckets)}
NetworkName(a) == <<"vpc", a.id>>
GkeName(a) == <<"gke", a.id>>

\* Names of resources that no check looks for.
FurtherNames(a) ==
    {<<"topic", Append(a.id, Slug(t))>> : t \in ToSet(a.topics)}
    \cup {<<"dataset", Append(a.id, Slug(t))>> : t \in ToSet(a.datasets)}
    \cup {<<"sql", Append(a.id, Slug(t))>> : t \in ToSet(a.sqls)}

Made(a) ==
    {NetworkName(a)} \cup BucketNames(a) \cup FurtherNames(a)
    \cup IF a.mode = "gke" THEN {GkeName(a)} ELSE PlannedHosts(a) \cup FurtherHosts(a)

\* What somebody else has in the project.
TakenFor(d) ==
    {f[2] : f \in {f \in lacking : f[1] = "name"}} \cup UNION {deploys[e].built : e \in DOMAIN deploys \ {d}}

-----------------------------------------------------------------------------
(* What Google answers; out is the set of calls that fail this time.       *)

Misses(fact) == fact \in lacking

GetMachineType(type, zone, out) ==
    "machines" \notin out /\ ~Misses(<<"zone", zone>>) /\ ~Misses(<<"machine", type, zone>>)

\* Images are for x86.
Runs(type, zone, out) == GetMachineType(type, zone, out) /\ ~MachineInfo[type].arm

\* The places of the zones asked for that the region has; none when it
\* could not be read.
UsableZones(a, out) == IF "region" \in out THEN {} ELSE {i \in DOMAIN a.zones : ~Misses(<<"zone", a.zones[i]>>)}

ZonesToCheck(a, out) == IF UsableZones(a, out) = {} THEN {"b"} ELSE {a.zones[i] : i \in UsableZones(a, out)}

\* The first of them.
ProbeZone(a, out) == IF UsableZones(a, out) = {} THEN "b" ELSE a.zones[Min(UsableZones(a, out))]

\* The machines of a cluster: what each is for, its place and its type.
ClusterMachines(a, i) == {<<"cluster", <<i, n>>, a.clusters[i].machine>> : n \in 1 .. a.clusters[i].nodes}

\* The machines that the quota of the region is compared with.
CountedMachines(a) ==
    IF a.mode = "gke" THEN {<<"pool", <<n>>, a.gke.machine>> : n \in 1 .. a.gke.nodes}
    ELSE (UNION {ClusterMachines(a, i) : i \in DOMAIN a.clusters})
         \cup {<<"vm", <<i>>, a.vms[i]>> : i \in DOMAIN a.vms}

\* Those that terraform makes besides.
FurtherMachines(a) ==
    IF a.mode = "gke" THEN {}
    ELSE {<<"app", <<i>>, a.apps[i].machine>> : i \in DOMAIN a.apps} \cup {<<"rdi", <<>>, r.machine>> : r \in a.rdi}

\* Their processors, one by one.
Cpus(machines) == UNION {{m} \X (1 .. MachineInfo[m[3]].cpus) : m \in machines}

CpusOf(machines) == Cardinality(Cpus(machines))

\* Used by what stands of the other deployments.
CpusInUse(d) ==
    Cardinality(UNION {{e} \X Cpus(CountedMachines(wish[e]) \cup FurtherMachines(wish[e])) :
                       e \in {e \in DOMAIN deploys \ {d} : deploys[e].built # {}}})

-----------------------------------------------------------------------------
(* The checks: what each adds that is not a pass.                          *)

FailIf(bad, id) == IF bad THEN {<<id, "fail">>} ELSE {}
WarnIf(bad, id) == IF bad THEN {<<id, "warn">>} ELSE {}

\* A check whose call may fail without harm.
Verified(call, out, id, bad) == IF call \in out THEN {<<id, "warn">>} ELSE FailIf(bad, id)

\* One that is passed over in silence then.
VerifiedQuietly(call, out, id, bad) == IF call \in out THEN {<<id, "skipped">>} ELSE FailIf(bad, id)

\* A destroyed deployment is replaced.
NameCheck(d) == FailIf(deploys[d].status \notin {"none", "destroyed"}, "name")

ShapeCheck(a) ==
    FailIf(ClustersRefused(a) \/ (a.clusters = <<>> /\ (a.mode = "gke" \/ ~HasAppCompute(a))), "clusters")

CredentialsCheck == FailIf(Misses(<<"credentials">>), "credentials")
ProjectCheck(out) == FailIf("project" \in out \/ Misses(<<"project">>), "project")

RequiredServices(a) == IF a.mode = "gke" THEN {"compute", "container"} ELSE {"compute", "dns"}

LacksApi(services) == \E s \in services : Misses(<<"api", s>>)

ApisCheck(a, out) == Verified("serviceusage", out, "apis", LacksApi(RequiredServices(a)))

CpuCheck(d, a, out) ==
    IF Misses(<<"quota">>) \/ \E m \in CountedMachines(a) : ~GetMachineType(m[3], ProbeZone(a, out), out)
    THEN {<<"quota", "warn">>}
    ELSE FailIf(CpusOf(CountedMachines(a)) > RegionCpus - CpusInUse(d), "quota")

\* A region that cannot be read fails, and its quota is not looked at.
ZonesCheck(d, a, out) ==
    IF "region" \in out THEN {<<"zones", "fail">>}
    ELSE FailIf(UsableZones(a, out) # DOMAIN a.zones, "zones") \cup CpuCheck(d, a, out)

(* Mutant: one zone is enough. *)
MachineInOneZone(a, out) ==
    FailIf(\E c \in ToSet(a.clusters) : ~\E z \in ZonesToCheck(a, out) : Runs(c.machine, z, out), "machine_type")

\* The machines of clusters in every zone, those of Kubernetes in the first.
MachineCheck(a, out) ==
    IF a.mode = "gke" THEN FailIf(~Runs(a.gke.machine, ProbeZone(a, out), out), "machine_type")
    ELSE FailIf(\E c \in ToSet(a.clusters), z \in ZonesToCheck(a, out) : ~Runs(c.machine, z, out), "machine_type")

SizingCheck(a) ==
    LET recs == {c.rec : c \in ToSet(a.clusters)}
        pods == Total([i \in DOMAIN a.clusters |-> a.clusters[i].rec])
    IN  IF a.mode = "gke"
        THEN FailIf(\E n \in recs : a.gke.nodes < n, "sizing")
             \cup WarnIf(a.gke.nodes < pods \/ \E n \in recs : n % 2 = 0, "sizing")
        ELSE WarnIf(\E c \in ToSet(a.clusters) : c.nodes % 2 = 0, "sizing")

\* Without the zone its records are not asked for.
DnsCheck(d, a, out) ==
    CASE a.mode = "gke" -> {}
      [] a.mode = "vm" /\ "dns" \in out -> {<<"dns", "warn">>}
      [] a.mode = "vm" /\ "dns" \notin out /\ Misses(<<"dns-zone">>) -> {<<"dns", "fail">>}
      [] OTHER -> Verified("records", out, "dns_records", PlannedHosts(a) \cap TakenFor(d) # {})

(* Mutant: a cluster of Kubernetes of the same name is not looked for. *)
NetworkCollision(d, a, out) == Verified("networks", out, "collision", NetworkName(a) \in TakenFor(d))

CollisionCheck(d, a, out) ==
    Verified("networks", out, "collision",
             NetworkName(a) \in TakenFor(d) \/ (a.mode = "gke" /\ GkeName(a) \in TakenFor(d)))

SshCheck(a) == FailIf(a.mode = "vm" /\ Misses(<<"ssh">>), "ssh")

ReleaseCheck(a, out) == WarnIf(a.mode = "vm" /\ a.clusters # <<>> /\ "release" \in out, "release")

\* Every type of machine has a number of disks, if only the default.
NvmeCheck(a) == FailIf(a.mode = "vm" /\ \E c \in ToSet(a.clusters) : c.nvme > MachineInfo[c.machine].ssds, "nvme")

AppVmsCheck(a, out) ==
    IF a.mode = "gke" THEN {}
    ELSE FailIf(\E m \in ToSet(a.vms) : ~Runs(m, ProbeZone(a, out), out), "app_vms")
         \cup FailIf(a.vms # <<>> /\ ~a.ports, "app_extra_ports")
         \cup FailIf(a.vms = <<>> /\ a.memviz, "memviz")

\* Names and ports of the databases of a cluster are its own; what is
\* faster on NVMe needs NVMe.
DatabasesClash(a, c) ==
    \/ \E x, y \in DOMAIN c.dbs : x # y /\ (c.dbs[x].name = c.dbs[y].name \/ c.dbs[x].port = c.dbs[y].port)
    \/ c.flex /\ (a.mode = "gke" \/ c.nvme = 0)

DatabasesCheck(a, out) ==
    UNION {LET machine == IF a.mode = "gke" THEN a.gke.machine ELSE c.machine
           IN  CASE c.dbs = <<>> -> {}
                 [] c.dbs # <<>> /\ DatabasesClash(a, c) -> {<<"databases", "fail">>}
                 [] OTHER ->
                       FailIf(~c.licensed /\ c.shards > TrialShards, "trial_shards")
                       \cup IF GetMachineType(machine, ProbeZone(a, out), out)
                            THEN FailIf(c.gib > c.nodes * MachineInfo[machine].gib, "databases")
                            ELSE {<<"databases", "warn">>}
           : c \in ToSet(a.clusters)}

LacksPermission(permissions) == \E p \in permissions : Misses(<<"iam", p>>)

ApplicationsCheck(a, out) ==
    IF AppsRefused(a) THEN {<<"applications", "fail">>}
    ELSE IF a.mode = "gke" THEN {}
    ELSE FailIf(\E app \in ToSet(a.apps) : ~Runs(app.machine, ProbeZone(a, out), out), "applications")
         \cup IF \E app \in ToSet(a.apps) : app.gcs
              THEN Verified("iam", out, "app_storage", LacksPermission({"storage.objects.get"})) ELSE {}


\* The names a wire of a kind may have.
WireNames(a, kind) ==
    CASE kind = "cluster" ->
            {IF a.clusters[i].name # "" THEN a.clusters[i].name ELSE "cluster" \o ToString(i) : i \in DOMAIN a.clusters}
      [] kind = "database" -> UNION {{db.name : db \in ToSet(c.dbs)} : c \in ToSet(a.clusters)}
      [] kind = "storage" -> ToSet(a.buckets)
      [] kind = "pubsub" -> ToSet(a.topics)
      [] kind = "bigquery" -> ToSet(a.datasets)
      [] kind = "sql" -> ToSet(a.sqls)
      [] kind = "app" -> {app.name : app \in ToSet(a.apps)}
      [] kind = "lb" -> {lb.name : lb \in ToSet(a.lbs)}

\* The load balancer of a name is the last.
TargetNamed(a, name) ==
    a.lbs[CHOOSE i \in DOMAIN a.lbs : a.lbs[i].name = name /\ \A j \in DOMAIN a.lbs : a.lbs[j].name = name => j <= i].target

\* An application may not be wired to itself, the VMs may.
Resolves(a, w) ==
    CASE w.kind = "app" ->
            /\ w.who = "vms" \/ w.to # w.who
            /\ w.to \in WireNames(a, "app") \/ (a.mode = "vm" /\ a.vms # <<>>)
      [] w.kind = "lb" -> a.mode = "vm" => w.to \in WireNames(a, "lb") /\ TargetNamed(a, w.to) # w.who
      [] OTHER -> w.to \in WireNames(a, w.kind)

\* When the applications are refused their wires are not looked at.
ConnectionsCheck(a) ==
    FailIf(\E w \in a.wires : (w.who = "vms" \/ ~AppsRefused(a)) /\ ~Resolves(a, w), "connections")

Connected(a, kind) == \E w \in a.wires : w.kind = kind

\* Buckets have names of the whole world.
StorageCheck(d, a, out) ==
    IF BucketsRefused(a) THEN {<<"storage", "fail">>}
    ELSE IF a.buckets = <<>> THEN {}
    ELSE FailIf(\E b \in BucketNames(a) : TooLong(b), "storage")
         \cup Verified("buckets", out, "storage", BucketNames(a) \cap TakenFor(d) # {})
         \cup VerifiedQuietly("serviceusage", out, "storage_api", LacksApi({"storage"}))
         \cup Verified("iam", out, "storage_iam",
                       LacksPermission({"storage.buckets.create"} \cup
                                       IF Connected(a, "storage") THEN {"storage.buckets.setIamPolicy"} ELSE {}))

PubsubCheck(a, out) ==
    IF TopicsRefused(a) THEN {<<"pubsub", "fail">>}
    ELSE IF a.topics = <<>> THEN {}
    ELSE VerifiedQuietly("serviceusage", out, "pubsub_api", LacksApi({"pubsub"}))
         \cup Verified("iam", out, "pubsub_iam",
                       LacksPermission({"pubsub.topics.create"} \cup
                                       IF Connected(a, "pubsub") THEN {"pubsub.topics.setIamPolicy"} ELSE {}))

BigqueryCheck(a, out) ==
    IF DatasetsRefused(a) THEN {<<"bigquery", "fail">>}
    ELSE IF a.datasets = <<>> THEN {}
    ELSE VerifiedQuietly("serviceusage", out, "bigquery_api", LacksApi({"bigquery"}))
         \cup Verified("iam", out, "bigquery_iam",
                       LacksPermission({"bigquery.datasets.create"} \cup
                                       IF Connected(a, "bigquery")
                                       THEN {"bigquery.datasets.setIamPolicy", "resourcemanager.projects.setIamPolicy"} ELSE {}))

\* An instance with a private address needs the network of services too.
CloudSqlCheck(a, out) ==
    IF SqlRefused(a) THEN {<<"cloudsql", "fail">>}
    ELSE IF a.sqls = <<>> THEN {}
    ELSE VerifiedQuietly("serviceusage", out, "sqladmin_api",
                         LacksApi({"sqladmin"} \cup IF a.private THEN {"servicenetworking"} ELSE {}))
         \cup Verified("iam", out, "cloudsql_iam",
                       LacksPermission({"cloudsql.instances.create"} \cup
                                       IF Connected(a, "sql") THEN {"resourcemanager.projects.setIamPolicy"} ELSE {}))

RdiCheck(a) ==
    UNION {IF RdiRefused(a) \/ ~({r.target} \ {""} \subseteq WireNames(a, "database"))
              \/ ~(ToSet(r.sources) \subseteq ToSet(a.sqls))
           THEN {<<"rdi", "fail">>}
           ELSE WarnIf(r.target = "" \/ r.sources = <<>>, "rdi") : r \in a.rdi}

TerraformCheck == FailIf(Misses(<<"terraform">>), "terraform")

\* The preflight in the five parts between which the project may change
\* under it: what is read of the registry, of the region, of the DNS zone,
\* of the names in the project, and of the resources besides.
Checks(d, step, out) ==
    LET a == wish[d]
    IN  CASE step = "name" -> NameCheck(d) \cup ShapeCheck(a) \cup CredentialsCheck \cup ProjectCheck(out)
          [] step = "region" ->
                ApisCheck(a, out) \cup ZonesCheck(d, a, out) \cup MachineCheck(a, out) \cup SizingCheck(a)
          [] step = "dns" -> DnsCheck(d, a, out)
          [] step = "names" ->
                CollisionCheck(d, a, out) \cup SshCheck(a) \cup ReleaseCheck(a, out) \cup NvmeCheck(a) \cup AppVmsCheck(a, out)
                \cup DatabasesCheck(a, out) \cup ApplicationsCheck(a, out) \cup ConnectionsCheck(a)
          [] step = "services" ->
                StorageCheck(d, a, out) \cup PubsubCheck(a, out) \cup BigqueryCheck(a, out) \cup CloudSqlCheck(a, out)
                \cup RdiCheck(a) \cup TerraformCheck

\* The calls of each part.
CallsOf == [name |-> {"project"}, region |-> {"serviceusage", "region", "machines"}, dns |-> {"dns", "records"},
            names |-> {"networks", "release", "machines", "iam"}, services |-> {"serviceusage", "buckets", "iam"}]

StepAfter == [name |-> "region", region |-> "dns", dns |-> "names", names |-> "services", services |-> "write"]


-----------------------------------------------------------------------------
(* The deployments.                                                        *)

Standing == {"applying", "ready", "destroying"}

LiveOf(owner) == {d \in DOMAIN deploys : wish[d].owner = owner /\ deploys[d].status \in Standing}

\* The clusters of some deployments, by their places.
ClustersOf(ds) == UNION {{d} \X (1 .. CountRedisClusters(wish[d])) : d \in ds}

LiveClusters(owner) == Cardinality(ClustersOf(LiveOf(owner)))

(* Mutant: what is asked for is not counted. *)
QuotaOfBefore(a) == a.owner \notin Admins /\ LiveClusters(a.owner) > MaxLiveClusters

\* What the quota has against a configuration.
CheckCreateQuota(a) ==
    \/ a.owner \notin Admins /\ LiveClusters(a.owner) + CountRedisClusters(a) > MaxLiveClusters
    \/ ClustersRefused(a)
    \/ \E c \in ToSet(a.clusters) : c.nodes > MaxNodesPerCluster \/ c.nvme > MaxNvmePerNode

Turn(d, new) == deploys' = [deploys EXCEPT ![d] = new]

\* The record is written and the job of terraform begins: who has counted
\* before does not know of it.
Joins(d, how) ==
    deploys' = [e \in DOMAIN deploys |->
        IF e = d THEN [deploys[d] EXCEPT !.status = "applying", !.step = "idle", !.how = how]
        ELSE [deploys[e] EXCEPT !.joined = IF deploys[e].step = "idle" THEN @ ELSE @ \cup {d}]]

\* POST /instances, with force or without, and recreate, which has no force.
BeginOrder(d, how) ==
    /\ orders < MaxOrders
    /\ deploys[d].step = "idle" /\ deploys[d].status \in {"none", "destroyed"}
    /\ orders' = orders + 1
    /\ Turn(d, [Unasked EXCEPT !.status = deploys[d].status, !.step = "quota", !.how = how])
    /\ UNCHANGED <<wish, lacking, outages>>

AskQuota(d) ==
    /\ deploys[d].step = "quota"
    /\ Turn(d, [deploys[d] EXCEPT !.step = IF CheckCreateQuota(wish[d]) THEN "idle"
                                           ELSE IF deploys[d].how = "forced" THEN "write" ELSE "name"])
    /\ UNCHANGED <<wish, lacking, orders, outages>>

\* A part of the preflight; the first ends it when something fails, the
\* others go on to the end and the verdict is over all.
RunChecks(d) ==
    \E out \in SUBSET CallsOf[deploys[d].step] :
        LET step == deploys[d].step
            found == deploys[d].checks \cup Checks(d, step, out)
            failed == \E c \in found : c[2] = "fail"
        IN  /\ outages + Cardinality(out) <= MaxOutages
            /\ outages' = outages + Cardinality(out)
            /\ Turn(d, IF failed /\ step \in {"name", "services"} THEN [deploys[d] EXCEPT !.step = "idle", !.checks = {}]
                       ELSE [deploys[d] EXCEPT !.step = StepAfter[step], !.checks = found])
            /\ UNCHANGED <<wish, lacking, orders>>

\* After the preflight the configuration is normalised once more, artifacts
\* are fetched, and the workspace needs an SSH key.
WriteRecord(d) ==
    LET a == wish[d]
    IN  /\ deploys[d].step = "write"
        /\ \/ /\ ShapeCheck(a) = {} /\ ~AppsRefused(a) /\ ~BucketsRefused(a) /\ ~TopicsRefused(a)
              /\ ~DatasetsRefused(a) /\ ~SqlRefused(a) /\ ~RdiRefused(a) /\ SshCheck(a) = {}
              /\ Joins(d, deploys[d].how)
           \/ Turn(d, [deploys[d] EXCEPT !.step = "idle"])
        /\ UNCHANGED <<wish, lacking, orders, outages>>

\* Neither the quota nor the preflight is asked again, whatever the record says.
Retry(d) ==
    /\ orders < MaxOrders
    /\ deploys[d].step = "idle" /\ deploys[d].status \in {"ready", "failed", "destroyed"}
    /\ orders' = orders + 1
    /\ Joins(d, "retried")
    /\ UNCHANGED <<wish, lacking, outages>>

\* What terraform needs of the project, as facts that it may lack.
MachinesMade(a) ==
    IF a.mode = "gke" THEN {<<a.gke.machine, "b">>}
    ELSE IF a.zones = <<>> THEN {}
    ELSE (UNION {{<<c.machine, a.zones[(n % Len(a.zones)) + 1]>> : n \in 0 .. (c.nodes - 1)} : c \in ToSet(a.clusters)})
         \cup {<<m[3], a.zones[1]>> : m \in FurtherMachines(a) \cup {m \in CountedMachines(a) : m[1] = "vm"}}

Needs(a) ==
    {<<"project">>, <<"credentials">>, <<"terraform">>}
    \cup {<<"api", s>> : s \in RequiredServices(a)
            \cup (IF a.buckets # <<>> THEN {"storage"} ELSE {}) \cup (IF a.topics # <<>> THEN {"pubsub"} ELSE {})
            \cup (IF a.sqls # <<>> THEN {"sqladmin"} ELSE {})}
    \cup {<<"iam", p>> : p \in (IF a.buckets # <<>> THEN {"storage.buckets.create"} ELSE {})
            \cup (IF a.topics # <<>> THEN {"pubsub.topics.create"} ELSE {})}
    \cup (IF a.mode = "vm" THEN {<<"dns-zone">>} ELSE {})
    \cup {<<"zone", m[2]>> : m \in MachinesMade(a)}
    \cup {<<"machine", m[1], m[2]>> : m \in MachinesMade(a)}

\* What stands in its way, in the words of the facts.
Trouble(d) ==
    LET a == wish[d]
    IN  (Needs(a) \cap lacking)
        \cup {<<"name", n>> : n \in Made(a) \cap TakenFor(d)}
        \cup {<<"arm", m[1]>> : m \in {m \in MachinesMade(a) : MachineInfo[m[1]].arm}}
        \cup (IF CpusOf(CountedMachines(a) \cup FurtherMachines(a)) > RegionCpus - CpusInUse(d) THEN {<<"cpus">>} ELSE {})
        \cup (IF IsInjective([i \in DOMAIN a.lbs |-> a.lbs[i].name]) THEN {} ELSE {<<"lb">>})
        \cup (IF a.mode = "vm" /\ a.zones = <<>> THEN {<<"zones">>} ELSE {})

\* Terraform makes what it can, or nothing.
ApplyResult(d, built, trouble, status) ==
    deploys' = [e \in DOMAIN deploys |->
        IF e = d THEN [deploys[d] EXCEPT !.status = status, !.built = built, !.trouble = trouble]
        ELSE [deploys[e] EXCEPT !.builders = IF deploys[e].step = "idle" /\ deploys[e].status # "applying" THEN @
                                             ELSE @ \cup {d}]]

Apply(d) ==
    /\ deploys[d].status = "applying"
    /\ \/ Trouble(d) = {} /\ ApplyResult(d, Made(wish[d]), {}, "ready")
       \/ \E built \in {deploys[d].built, Made(wish[d]) \ TakenFor(d)} : ApplyResult(d, built, Trouble(d), "failed")
    /\ UNCHANGED <<wish, lacking, orders, outages>>

Delete(d) ==
    /\ orders < MaxOrders
    /\ deploys[d].step = "idle" /\ deploys[d].status \in {"ready", "failed"}
    /\ orders' = orders + 1
    /\ Turn(d, [deploys[d] EXCEPT !.status = "destroying"])
    /\ UNCHANGED <<wish, lacking, outages>>

Destroyed(d) ==
    /\ deploys[d].status = "destroying"
    /\ Turn(d, [Unasked EXCEPT !.status = "destroyed"])
    /\ UNCHANGED <<wish, lacking, orders, outages>>

AdmissionInit ==
    /\ \E w \in Worlds : wish = w.wish /\ lacking = w.lacking
    /\ deploys = [d \in DOMAIN wish |-> Unasked]
    /\ orders = 0
    /\ outages = 0

AdmissionNext ==
    \E d \in DOMAIN deploys :
        \/ \E how \in {"checked", "forced"} : BeginOrder(d, how)
        \/ AskQuota(d)
        \/ deploys[d].step \in DOMAIN CallsOf /\ RunChecks(d)
        \/ WriteRecord(d) \/ Retry(d) \/ Apply(d) \/ Delete(d) \/ Destroyed(d)

AdmissionSpec == AdmissionInit /\ [][AdmissionNext]_admissionVars

-----------------------------------------------------------------------------

\* The check of the API of a service that only some deployments need.
ApiChecks == {<<"storage", "storage_api">>, <<"pubsub", "pubsub_api">>, <<"sqladmin", "sqladmin_api">>}

\* The check whose warning has announced a trouble.
Announces(id, o) ==
    \/ o[1] = "cpus" /\ id = "quota"
    \/ o[1] = "name" /\ \/ o[2][1] = "dns" /\ id \in {"dns", "dns_records"}
                        \/ o[2][1] = "bucket" /\ id = "storage"
                        \/ o[2][1] \in {"vpc", "gke"} /\ id = "collision"
    \/ o[1] = "api" /\ (id = "apis" \/ <<o[2], id>> \in ApiChecks)
    \/ o[1] = "iam" /\ id \in {"storage_iam", "pubsub_iam"}
    \/ o[1] = "dns-zone" /\ id = "dns"

\* What no check looks for: processors and DNS names of the VMs of
\* applications and of RDI, names of topics, datasets and SQL instances,
\* the machine of RDI, two load balancers of one name, that there is no
\* zone, and the zone in which a Kubernetes cluster is made when another is
\* the first.
Unchecked(a) ==
    {<<"name", n>> : n \in FurtherHosts(a) \cup FurtherNames(a)}
    \cup (IF FurtherMachines(a) # {} THEN {<<"cpus">>} ELSE {})
    \cup (UNION {{<<"machine", r.machine, z>> : z \in ToSet(a.zones)} \cup {<<"arm", r.machine>>} : r \in a.rdi})
    \cup (IF a.mode = "gke" /\ a.zones # <<>> /\ a.zones[1] # "b" THEN {<<"zone", "b">>, <<"machine", a.gke.machine, "b">>} ELSE {})
    \cup {<<"lb">>, <<"zones">>}

\* What another deployment took since the request began.
Overtaken(d, o) ==
    \E e \in deploys[d].builders : o = <<"cpus">> \/ o \in {<<"name", n>> : n \in Made(wish[e])}

\* A deployment that the preflight let pass fails on nothing that the
\* preflight could have said: it said it could not tell, or another
\* deployment came in between, or it is of the things nobody looks for.
FailureIsForeseen ==
    \A d \in DOMAIN deploys :
        deploys[d].status = "failed" /\ deploys[d].how = "checked" =>
            \A o \in deploys[d].trouble \ Unchecked(wish[d]) :
                Overtaken(d, o) \/ \E c \in deploys[d].checks : c[2] # "fail" /\ Announces(c[1], o)

\* The clusters of a user that are made or stand are never more than the
\* limit, unless one came in between the count and the record of another, or
\* by a retry.  One that failed does not count, even while it is destroyed.
QuotaHolds ==
    \A d \in DOMAIN deploys :
        LET mine == {e \in LiveOf(wish[d].owner) : deploys[e].status # "destroying"}
        IN  \/ wish[d].owner \in Admins
            \/ Cardinality(ClustersOf(mine)) <= MaxLiveClusters
            \/ \E e \in mine : deploys[e].how = "retried" \/ deploys[e].joined \cap mine # {}

=============================================================================
