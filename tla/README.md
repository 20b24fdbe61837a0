# A verification project for redis-ent-wizard

redis-ent-wizard is a self-service portal: a web application, an API server and
an MCP server that let a user draw a Redis Enterprise deployment on GCP, build it
with terraform, watch it form, and tear it down again. The API server
(`apps/api/src`) holds all of the state and nearly all of the concurrency, and most
of this project is about it; of the web application it has the page on which a
deployment is drawn and the page that follows its log. The modules are TLA+; TLC
checks them on small instances, and TLAPS proves for all instances the safety
properties of the three modules at the core, that the job queue implements what it
promises, and those of most parts of the portal.

## 1. Inventory

| Part | State it keeps | Operations | What is hard |
|---|---|---|---|
| Job queue (`jobs.ts`) | `running`, `waiters`: two arrays of the process | `acquireJobSlot`, `releaseJobSlot` → `tryDispatch` | two limits at a time; the array is rotated while jobs wait; a dispatch happens only on release |
| Terraform jobs (`terraform.ts`) | `jobs`: a map of the process; the workspace directory with `terraform.tfstate` | `startApply`, `startDestroy`, `collectOutputs` | the busy check of a handler is separated from the start of the job by awaits; each path out must release slot and map entry |
| Bootstrap watcher (`terraform.ts`) | `watchers`: a set of the process | `watchBootstrap` | reads the status, waits seconds for a probe, writes the status; two deadlines; races a destroy |
| Registry (`db.ts`, `registry.ts`) | `instances.json` or a Postgres table; one log file per instance | `getInstance`, `putInstance`, `listInstances`, `deleteInstance` | whole records are written back from before an await; the file is read, changed and replaced as one; the database has no column for some fields |
| HTTP handlers (`index.ts`, `designs.ts`) | none | create, destroy, bulk destroy, forget, move, retry, recreate, health, reconcile, drafts | check, await, act |
| Recovery (`index.ts`, end) | none | one loop at startup | every kind of orphan a stop can leave |
| Provisioning (`databases.ts`) | `databaseStates`, `licenseStates` on the record | `provisionClusterResources` | several REST calls, each may fail; the watcher and a reconcile may both run it |
| Health (`health.ts`) | none | `probeHealth` | aggregates nodes and clusters of which some do not answer |
| Quotas (`quotas.ts`) | limits in a file | `checkCreateQuota` | counts, then other awaits, then the record that counts |
| Progress (`progress.ts`) | none: a function of log and status | phase, steps, percent | one log holds several runs |
| Log stream (`index.ts`, instance page) | offset per connection; text on the page | SSE events, reconnect | the server starts again at 0, the page appends |
| Draft merge (`draft-merge.ts`) | none | `mergePatch` over lists of named items | unnamed items, protected fields |
| Cluster names (`clusters.ts`) | none | normalisation, name suffixes | defaults by position collide with chosen names |
| Capacity and trial gate (`databases.ts`, `trial-shards.ts`, web `lib/`) | none | arithmetic of memory and shards | twice, in server and web |
| GCP inventory (`resources.ts`, `gcp-inventory.ts`, `resource-attribution.ts`) | `cache`: last scan | `scan`, attribution by longest prefix | a slow scan ends after a later one |
| Fan-out and retry (`async-util.ts`) | none | `mapWithConcurrency`, `withRetry` | first failure ends the call, not the workers |
| Web lookups (`useGcpLookups.ts`) | answers per field | chained effects | answers out of order |
| Node bootstrap (`terraform/scripts/instance.sh`) | the cluster | create, join, ten attempts | node 1 late or gone |
| Preflight (`preflight.ts`, `gcp.ts`) | none | some forty checks | each call may fail and becomes a warning; the project changes between the check and terraform |
| Workspace generation (`workspace.ts`, `rdi.ts`, `applications.ts`) | the variables of terraform | names → hosts, passwords, grants, namespaces | one name is looked up in several tables filled separately |
| Design page (`diagram.ts`, `DesignView.tsx`, `WizardView.tsx`, `EditWorkspace.tsx`) | nodes and edges, a form | draw, fill in, switch views | two representations converted into each other; an effect that rebuilds derived nodes |
| Authentication, credentials, artifacts, prices, audit, MCP | files, none | sequential | not concurrent, or pure input and output |

How they interact. A handler reads the record with `getInstance`, decides, waits
for GCP (preflight, credentials, quota), writes the record with `putInstance` and
starts a job without waiting for it. The job waits for a slot of the queue, runs
terraform, writes the status at each turn and, after an apply, starts the watcher.
The watcher probes the cluster over HTTP, provisions licenses and databases when
it first answers and writes `ready`. All of them run in one event loop and share
the record, the workspace and the maps `jobs` and `watchers`; the only locks are
those two maps. A restart loses the maps and keeps the record, the workspace and
whatever exists in GCP; the loop at the end of `index.ts` reads the records and
takes up again what it finds.

What makes the parts correct: the limits of the queue hold and nobody is
forgotten in it; one terraform at a time per workspace; no terraform without a
record; a status that promises progress has somebody who works on it; `destroyed`
means gone, `ready` means provisioned; every job and every wait ends; nothing a
user or another step wrote is undone by a write from before an await.

## 2. Modules

| Module | Models | Role |
|---|---|---|
| `JobSlots` | what `jobs.ts` promises | abstract specification |
| `JobQueue` | `jobs.ts` and the map `jobs` of `terraform.ts` | implements `JobSlots` |
| `MCJobQueue` | | instance for TLC |
| `JobQueueProofs` | | theorems about `JobQueue`, and that it implements `JobSlots` |
| `InstanceLifecycle` | the life of one instance: handlers, job, watcher, cluster, recovery | |
| `MCInstanceLifecycle` | | instances for TLC |
| `InstanceLifecycleProofs` | | theorems about `InstanceLifecycle` |
| `Provisioning` | licenses and databases of one instance: watcher, reconcile, the REST calls | |
| `MCProvisioning` | | instance for TLC |
| `ProvisioningProofs` | | theorems about `Provisioning` |
| `RegistryFile` | the file of all records in a turn that writes several | part of the portal |
| `Admission` | quota, preflight, record and terraform of several deployments in one project | part of the portal |
| `Connections` | names and wires: from a design to the variables of terraform | part of the portal |
| `DesignCanvas` | the design page: canvas, wizard, switching | part of the portal |
| `InstanceProgress` | phase, steps and percent, from log, status and health | part of the portal |
| `LogStream` | the stream of the log and the page that shows it | part of the portal |
| `ResourceScan` | the scan of a project and the attribution of what it finds | part of the portal |
| `FanOut` | the pool of workers and its retries | part of the portal |
| `PageProofs` | | theorems about `LogStream`, `InstanceProgress`, `FanOut` and `ResourceScan` |
| `RegistryProofs` | | theorems about `RegistryFile` |
| `DesignProofs` | | theorems about `Connections` and `DesignCanvas` |
| `AdmissionProofs` | | theorems about `Admission` |
| `SequenceFacts` | | lemmas on numbers and sequences that the proofs share |
| `MCPortal` | | instance for TLC of the eight parts |

### JobQueue

`running` and `waiters` are the variables of `jobs.ts`, `jobs` the map of
`terraform.ts` (its key set). A waiter is `[id, ownerSub]`; its callbacks are left
out, since calling `start` is what moving it to `running` does, and `reject` is
unreachable (`OneClaimPerJob`). `AcquireJobSlot` is `startApply` or `startDestroy`
up to the slot, `ReleaseJobSlot` the `finally` block up to the loop of
`tryDispatch`; then `DispatchStart`, `DispatchRotate` and `DispatchEnd` are one
turn of the loop each, while `releasing` keeps everything else out: the code is
synchronous there. The loop is taken apart because whether it ends is the
question. The rotation is stated as what it does (a stable partition), not as the
two filters that do it.

`JobSlots` has a first-come-first-served queue per user and no order between
users. `JobQueue` implements it under the mapping that sends the array to each
user's part of it (`ImplementsSlots`): the rotation is a stutter.

### InstanceLifecycle

A step is the JavaScript between two awaits of the outside world. The variables:
`record` (the entry of `instances.json`: status, configuration, folder, and
whether addresses are on record), `workspace` and `tfState` (what is on disk),
`cloud`, `formed`, `provisioned` (what is in GCP), `jobs`, `worker` (the bodies of
`startApply` and `startDestroy`), `watcher`, `request` (open HTTP requests, with
the record they read), `restarts`. The file-backed registry is synchronous, so
an `await putInstance` lets no other step of this instance in; the module is about
that backend. What another instance does to the record in the same turn is in
`RegistryFile`.

A handler with an await is two actions, `XBegin` and `XEnd`; what it remembers is
in `request[c].seen`, and `XEnd` writes back what the code writes back. `Refused`
is any failure of preflight, quota or credentials. `JobFails` is the catch block.
A probe (`ProbeAnswers`) may give any answer that was true at some time while it
ran. `ClusterChanges` is the outside world: nodes join and leave. `Restart` is a
stop at any point and the recovery loop, which ends before the server listens.
Resources are abstract: a cluster is there or not, licenses and databases were
sent to it or not.

### Provisioning

A step is the JavaScript between two REST calls. `record` is the part of the
registry's entry that provisioning reads and writes; `cloud` is what the clusters
hold; `run[p]` is one execution of `provisionClusterResources` with its local
variables: the configuration and endpoint it read once at its start (`seen`,
`endpoint`), the cluster its loop is at, the names it still has to create
(`todo`), and the two arrays it writes back at the end. The watcher and each
reconcile request are a run, and nothing keeps them apart.

`PutLicense`, `ListDatabases` and `PostDatabase` are the three kinds of call. Each
may have an effect or not and be answered or not (`effect`, `answered`): an
unanswered call with an effect is the one that timed out too late. A list that
does not come counts as empty, as the `catch` of the code makes it, so the POSTs
that follow may meet names that are there. After the last cluster the run writes
back its own field of the record, read anew, and the watcher also writes `ready`
(`MarkReady`). A run for which there is nothing to do ends in its first step.

`Reconcile` is the handler: trial gate over the rows as they resolve to clusters
(by name, or by position when a name is missing or unknown), then the edit of the
configuration, then the run. `Health`, `WatcherGivesUp`, `DestroyStart`,
`DestroyEnd`, `Forget` and `Restart` are what the rest of the program does to the
same record meanwhile, as little of it as the runs meet; their own hazards are in
`InstanceLifecycle`. `smooth[p]` is a history variable: run `p` had the clusters
to itself so far and each of its calls that could succeed did.

### RegistryFile

Reading the file is synchronous and so is writing it, but `dbUpsertInstance` has an
`await` between the two. In most handlers one record is written in a turn of the
event loop and nothing can come between. Two loops write several: the recovery and
`/instances/bulk-destroy`. The module has the queue of microtasks, in the order in
which the language puts them there: the body of an `async` function goes on in one
microtask after its `await`, and a caller that awaits the promise of a promise, as
`getInstance` and `upsertInstance` return, in two more. `Call` is that sequence; a
step is one microtask, and `TerraformEnds` may happen only when none is left. `wrote`
remembers the last status written for each instance, `Lost` is a record whose file
says something else.

The recovery goes on from one record to the next without a pause but after the mark
`failed` of an interrupted apply, which it awaits (`RecoverMarks`); what it starts on
its way runs meanwhile: destroys (`RecoverDestroys`) and watchers (`RecoverWatches`). A
watcher whose instance has addresses leaves the turn for its probe and writes in a
later one, where it is alone. One without any, since `terraform output` gave none, has
its answer at once (`health.ts:117`, `health.ts:224`) and writes the file in the same
turn: `WatchAsks` to `WatchSleeps`. A deployment without clusters would be ready then,
but none ever is `bootstrapping` (`terraform.ts:240`).

### Admission

`wish` is what each deployment asks for, `lacking` the set of facts the project
lacks: a service not enabled, a permission, a machine type in a zone, a name that
somebody else has. `Checks` is the preflight, one operator to a group of checks, each
yielding what is not a pass; the calls a group depends on may fail (`out`), which
makes a warning, or silence, of what would be a failure. The request goes through
`AskQuota`, `RunChecks` step by step (the project may change between any two groups
of calls) and `WriteRecord`. `Needs` and `Trouble` say what terraform requires of the
project, stated from the terraform modules and not from the preflight: whether the
two agree is the question. `joined` and `builders` are history: who joined the
project since this request began. `Retry` goes past all of it, as the code does. The
branch of the check of NVMe disks for a machine with an unknown limit
(`preflight.ts:585`) is never taken, since `nvme.ts:17` has a default for every type. A wish
may name no zone at all: the form lets every zone be deselected (`DeploymentSettings.tsx:184`),
and then no check that goes zone by zone says anything.

### Connections

A design is clusters with databases, applications and VMs with wires, operators and
RDI. A wire is a name. `WriteTfvars` computes from it what `workspace.ts` writes into
the variables: hosts and administrators' passwords of clusters, endpoints of
databases, grants of resources, namespaces in Kubernetes, the RECs of each operator,
where RDI finds its target and its state, and the DNS names that terraform makes, each with
the part that gets it. On VMs the first cluster also goes by the name of the deployment
(`OwnName`, `workspace.ts:258`). A name is a sequence, a word and the number at its end (`c2` is
`<<"c", 2>>`): that much is needed to say when two are the same. Which of two clusters of one name wins is
modelled as the code has it (the tables keep the last, RDI takes the first). A design
is edited part by part, created, read back by the canvas, by the wizard or by a client
of the API, and created again.

A create goes through `CreateSchema`: the schema of a request has no field for the mark of
the state database and drops it (`schema.ts:12`), so a configuration that a client of the
API reads and posts (`PostRecord`) has lost it as one that went through the wizard has.
The canvas keeps that database out of what it sends. `returned` is history: a record with
that database has come back in one of the other two ways. That the names of the databases
of a cluster differ is a check of the preflight, which `?force=true` leaves out
(`preflight.ts:722`): the parameter of `CreateFrom`. What is left out: that a user calls a
database of his own `rdi-state`.

### DesignCanvas

Nodes (with a parent) and edges in the canvas, a form in the wizard. `ToCreateInput`
and `WizardPayload` are what each view sends, `NodesOf`, `EdgesOf` and
`FormFromConfig` what it makes of a configuration; `SwitchView` sends the one
through the other. `ReconcileRdi` is the effect that runs after each change of the
canvas and draws the database in which RDI keeps its state; it is part of every
action that draws. `dropped` is history: the state databases the canvas has had, whose
edges it does not always take away with them. Positions, sizes and the fields of dialogs
that no wire depends on are left out. A list is filtered by `Keep`, a recursive function,
because the prover has no meaning for `SelectSeq`.

### InstanceProgress

The log is a sequence of operations, each with the set of marks that
`computeProgress` searches for and the counts it takes; `LastOperation`, `ApplyPhase`,
`DestroyPhase` and `ComputeProgress` are the computation. The actions are all that changes
log, status and health of one instance, each at its own time: the job; the watcher, whose
probe is answered whatever the status has become; a reconcile, which provisions beside it;
`POST /instances/:id/health`, which may set `ready` under a running retry; the write-backs of
a recreate and of a create over a destroyed record (`RecordWritten`); restarts. Retry and
delete change nothing until their job has its slot (`JobStarts`, `JobBegins`).
`disturbed` is history: something has written over the job at work, or over the last
failure. The configuration stays the same and a forget, which ends the story, is left out.

### LogStream

`SendChunk` and `SendStatus` are the two halves of a tick of the server (a record is
awaited between them), `Receive` the page, `StreamBreaks` and `StreamReopens` the
network and the browser; `PollReads` and `PollAnswers` are the slower poll that sets
the same status.

### ResourceScan and FanOut

A scan lists its sources with a pool of workers, adds prices and bills, reads the
registry, attributes and replaces the cache. `always` and `ever` are history: what
existed during the whole listing and at some time of it. `FanOut` is
`withRetry(() => mapWithConcurrency(...))`, with one pool for each attempt, because the
workers of a failed attempt go on.

### MCPortal

The eight parts share no variable with each other. Interleaving two of them shows
nothing that each does not show by itself, so a run has several: `part` is chosen
at the start, the other parts stay as they began.

## 3. Runs

| Run | Shows | Bounds |
|---|---|---|
| `queue` | caps, agreement of map and queue, no idle waiter, refinement of `JobSlots`, every waiter starts, the rotation is never in vain | 6 ids, 2 users, limits 3 and 2 |
| `queue_spin` | violation: the loop of `tryDispatch` need not end | limits 3 and 1 |
| `lifecycle_one` | types; a busy status has an owner; every job ends, every wait for a cluster ends | one client, all calls but the folder move, 2 configurations, 1 probe, 1 restart |
| `lifecycle_two` | one terraform at a time, never without a record; `destroyed` means gone but for one kind of write, with two requests at a time | two clients, six calls, two workers, 2 probes, no restart |
| `provisioning` | `active` is true; licenses come before databases; a write-back undoes nothing; a retry heals; failures do not keep an instance from `ready` | 2 clusters, one with a license, 2 names, trial limit 1, one reconcile request with 3 edits beside the watcher, 1 restart, 1 fault |
| `portal` | the eight parts, see below | see below |
| `find_*` | violations, see section 5 | the least that shows them |

What `portal` shows, part by part:

| Part | Properties | Bounds |
|---|---|---|
| fan-out | `AnswerIsWhole`: success means a result for every item; `PortalCallEnds` | 3 items, 2 workers, 3 attempts |
| scan | `ScanAccounts`: what existed is shown or its source is named; `OwnerOrLonger`: attribution | 2 sources, one worker, ids one of which begins the other, 1 event outside |
| progress | `RunningIsNotFull`, `FailuresStayShown`, `StepsStayDone` | four plans, 3 requests or restarts (2 for the larger plans) |
| stream | `StreamIsWhole`: no line lost or doubled but by a reconnection; `PortalPageCatchesUp` | 2 lines, 2 frames, 1 break |
| connections | `WiresAgree`, `OneStateDatabase`, `NamespacesAgree`, `DnsNamesDistinct` | three designs, 2 edits and 2 creates, forced or not |
| canvas | `SwitchKeepsDeployment`, `StateBesideTarget`, `CanvasWhole` | one record or none in each mode, 3 edits |
| admission | `FailureIsForeseen`, `QuotaHolds` | pairs of deployments, 13 worlds, 3 requests, 1 failed call |
| registry | `BulkKeeps`, `RecoveryKeeps` | 4 instances, 2 slots, every mix of statuses |

Why the bounds suffice. Queue: six jobs of two users fill the house (three), put
a user at its cap and leave three waiters to rotate, with arrivals while
others wait; the safety properties are proved for all sizes. Lifecycle: every
race in the code is between one handler's check and its act, and what one other
handler, the job and the watcher do in between, so two clients suffice; a third
would only repeat the second's part, and the safety properties are proved
for any number. Two probes are a first and a last one (`lifecycle_two`); with one it is the last
at once. One restart meets every
state a stop can leave, and the state after it is again an ordinary one.
Provisioning: two runs are the least that overlap, and a request may be used
again and again, so retries are there; two clusters make a next one and a last one,
with and without a license; two names against a limit of one make a database the
trial refuses. One of the edits puts a row with an unknown name where it falls
back to its position, one is refused by the gate for the same reason. One fault
is any of the calls; `RetryHeals` is about the run after it. The safety properties
are proved for any number of all of them.

Portal. Three items for two workers make a worker take a second item while the other
fails, three attempts a middle one. Ids of which one begins the other are the case
attribution is about, and a resource of the source `dns` has a name that begins with another
word. Three requests are an apply, a destroy and an apply after it, or an apply, a
health call and a retry beside it, in any order the code allows; a larger plan adds marks and
counts to an operation, which two requests show. One break is the difference between a stream and its
repetition. A design of two clusters, one of them unnamed, with two edits reaches
every coincidence of names that the properties speak of; two creates are an original
and a round trip. Three edits of a canvas are a part, one in it or an edge to it, and
a change to either; the records it may start from have every kind of part already. An
admission takes two deployments because a race is between two, three requests because
a retry or a delete must fit between; each world has at most one fact missing, so
that the warning which foresees a failure is the one about it. Three instances are
the least that lose a mark at a recovery, a destroy and two applies after it; the
fourth stands before, between or behind them. Two slots, the code's default for a
user, let some jobs run and some wait.

Deadlock is off in `provisioning` and the runs of `MCPortal`, because the modules may
stop there: provisioning has no create, and an instance that is destroyed and
forgotten needs nothing more; the parts of the portal end when a call has its answer,
an edit bound is reached, or nothing is left to write.

Fairness. The loop of `tryDispatch` is synchronous: weak fairness of its turns. A
terraform process ends and its callback is served: strong fairness of
`ReleaseJobSlot` in the queue, whose guard the dispatch of another job disables
for a moment, and weak fairness of each worker in the lifecycle, which nothing
disables. Timers fire and probes have a timeout of their own: weak fairness of the
watcher. The REST calls of a run end by the same timeout (15 s of silence on the
socket): weak fairness of each run's calls. Both rest on one assumption about the
outside: an answer that begins also ends. `databases.ts:43` and `health.ts:47` wait
for the `end` of the response, and a peer that closes half way causes neither
`end` nor an `error` of the request, so the promise would stay open for ever; TLC
shows what holds when that does not happen. In the portal, calls to
Google end by their timeout and backoffs are timers: weak fairness of the answers of
each attempt. Both timers of the log page tick, frames arrive while the connection
stands, and the browser reconnects by itself: weak fairness of each. No fairness of
clients, of the cluster or of restarts: nobody has to call, nodes need never join.

## 4. Theorems

All safety properties of the three modules at the core (`JobQueue`, `InstanceLifecycle`,
`Provisioning`), and all but one of those of the portal, are proved with TLAPS for every
value of the constants, from the assumptions named in the modules. Most of these say of
what kind the constants are. Those that say more:

* limits are at least 1, `NoJob` and `NoRecord` are no id and no record, there is at least
  one probe;
* a plan with licenses or databases has a cluster, in which both are counted;
* the designs drawn are designs as the API's types have them (`Designs`): any number of
  clusters, databases and applications, at least one operator; the name RDI gives to the
  database of its state is not the name of the database it is pointed at;
* of deployments there are finitely many, with different ids, each with finitely many
  clusters; the wish of each has sequences for its lists, and machines of types that
  there are (`WellFormed`);
* the records with which the design page is opened are configurations of the API's type
  (`IsConfig`): lists are sequences, and no list of wires is endless.

The arguments:

* `JobQueue`. `TypeCorrect` first; then `Limits` needs the caps together with the
  finiteness of `running` (a cardinality means nothing otherwise); `Claims` is
  inductive by itself on top of the types; `NoWaiterLeftBehind` needs that a cap
  which is reached stays reached while nothing is released. `StablePartitionIsPermutation`
  says that the rotation loses and doubles nobody. `RotationMakesProgress` is for all limits,
  the defaults 10 and 2 among them: a rotation brings every waiter below its cap nearer to
  the front (`OthersMoveUp`: those listed before it in the partition stood before it, and
  the first waiter, who is blocked, is not among them), so that the loop comes to one of
  them. That it does not end when there is none is what `queue_spin` shows.
  `QueueImplementsSlots` is the refinement, one step at a time: an acquire begins a job or
  enqueues it (`AcquireIsBeginOrEnqueue`), a release finishes one (`ReleaseIsFinish`), a turn
  of the loop that starts a job grants it to the first in its user's queue
  (`StartIsGrant`), and a rotation changes no user's queue (`RotationKeepsOrder`). That
  last is the reason for the lemmas before it: two arrays give a user the same queue when
  an increasing correspondence joins the places that are his (`IdsOfAlike`), and a stable
  partition is one.
* `InstanceLifecycle`. The inductive invariant `Lifecycle` is the conjunction of
  `TypeOK`, `OneTerraform`, `JobHasRecord`, `StatusHasOwner` and `Remembered`. The
  last is the strengthening: what is held across an await is a record, and what
  recreate holds said `destroyed`; without it `RecreateEnd` could write any status
  back. `DestroyedIsGone` is about steps, for any number of clients: none makes a destroyed
  record untrue but a recreate that writes its old record over that of a later operation
  (`RecreateOverOther`). It rests on `NothingLeft`: without the files of terraform
  nothing is in GCP, which is why a destroy without them may say destroyed.
* `Provisioning`. `TypeCorrect` needs that the loops over clusters find a next one:
  the least element of a set of naturals, by a well-founded order instead of an
  induction. `ActiveExists` is not inductive: a run may write what it noted long
  ago. `Truthful` adds that what each run has noted as active is there
  (`RunOK`), while the cluster is up: databases are never taken away but by a
  destroy. The same invariant gives `LicenseBeforeDatabases`. `RetryHeals` rests on
  `SmoothRuns`: while a run is smooth nobody edits the configuration it read, and
  its licenses and databases so far are those of the clusters its loop has passed
  (`LicensesSoFar`, `DatabasesSoFar`, the loop's invariant). `NothingUndone` and
  `EditsStayInTrial` follow from the types, step by step; the last one from the
  agreement of the gate and the edit on which row is about which cluster.
* `FanOut`. `AnswersAreWhole` rests on `MapsOK`: in every map that has started, waited
  for or not, an item that was taken is busy or done unless the map is rejected, and
  no worker rests while an item is left. So a map with nobody busy and no rejection
  has all results, and the workers of failed attempts cannot spoil it.
* `ResourceScan`. What a scan accounts for at its end it must account for source by
  source: `RequestOK` says that each source a worker is done with was found, of what
  existed throughout, or is named, and that when prices are asked for no source is left.
  `OwnerOrLonger` rests on `MatchLength`: ids that match a name are no longer than the
  name, so among those that match one is the longest. It is about what is named after its
  instance (`NameMatchesInstance`), which is its premise and no assumption: the DNS records,
  whose names begin with `cluster`, `node1` or `rdi` (`gcp-inventory.ts:415`), are not, and
  are shown as unowned.
* `LogStream`. `StreamIsWhole` is about the page and what is on its way; that is not
  inductive, since the page may be emptied at any time. `StreamInv` adds that what is on its
  way is by itself the end of what was read. Its lemmas say what appending a frame and
  taking one away do to the flattened frames.
* `InstanceProgress`. `Shown` is a guess by the code from the text, the status and the
  health; the proofs rest on what the three may be at once. `AtWorkOK` says that below the
  START of a job nothing but that job has written (unless `disturbed`), `FailedOK` the same
  of the text that a failure leaves, `StartedOK` what watcher and reconcile have begun,
  `AskedForOK` what requests have read, `TextOK` ties marks and counts to the plan. The
  percentages are bounded by `ShareBound`, an inequality on rounded quotients.
  `StepsStayDone` is an action property: text only grows (`TextOnlyGrows`), the status goes
  on (`StatusGoesOn`), so the phase only rises (`ApplyAdvances`, `DestroyAdvances`), whatever
  source it is read from, but for the three named causes.
* `Connections`. `DesignInv`: what is drawn is a design, what is on record was let
  pass by POST /instances (`Recorded`), and the variables are what `WriteTfvars` makes of the
  record. The rest is about `WriteTfvars` of one such record: a name that is looked up in
  two tables is found in both or in neither, at the same place; in Kubernetes each REC is
  found by one operator, the one its address names; RDI with a target has one internal
  database, which `WithRdiInternalDatabases` has put beside it after dropping the others;
  names in the zone are of a cluster or of something else (`OfCluster`, `OfOther`), and
  what is refused at creation keeps two of either kind apart.
* `Admission`. `QuotaHolds` is not inductive in two ways. A delete takes away one of a user's
  deployments, which may be the very one that excuses the others, and a request that has
  passed the quota writes its record much later. `QuotaInv` says it of every set of deployments
  that a user has standing (`KeptBy`), and of a request that has passed the quota that it
  fits beside every set of them that does not contain one of those who joined since
  (`RoomFor`). Counting is `MoreClusters` and `OneMore`, on cardinalities of sets of pairs.
  `Quiet` is what all other steps have in common.
  `FailureIsForeseen` rests on `ForeseenInv`: at each step of the preflight the groups of
  checks done so far have settled what they ask about (`Settled`): it is there, or a warning
  names it, or a call was lost, or somebody who joined since has taken it. `TroubleForeseen`
  then goes through what terraform needs, group by group. The sums of processors are
  never taken apart: check and terraform compare the same ones.
* `DesignCanvas`. `CanvasInv` says of the form that it is a configuration and of the canvas
  that it is whole and reconciled. Most of the work is `Drawable`, what is true of
  any diagram between an edit and the effect that follows it: ids are below the next one and
  unique, a node lies in an operator or cluster that is there, edges begin at a node.
  Every edit keeps it, `NodesOf` and `EdgesOf` of any configuration have it, and
  `Reconciled` says that the effect makes of every drawable canvas one in which `StatesMatch`
  and whose state databases are the desired ones. Both theorems follow.

* `RegistryFile`. A write is lost when another body has seen the file before it and runs
  after it. `RegistryInv` therefore has `Solid`: of every instance that is to be kept
  (`Firm`) the file, and what every body that is yet to write has seen of it, holds the last
  status written. A write keeps that if no other body waits to write (`Alone`), or if it
  writes what is there; and who waits is decided by the order of the microtasks, so the
  rest of the invariant is about it. `QueueInv`: what is in the queue belongs to a job with
  a slot, to a watcher or to the loop, at most a body and what follows it of each. `OneSlot`:
  with one slot one job is at work. `Lone`: terraform ends only in an empty queue, so from
  then on what is queued belongs to one job. `Early`: the first mark of an interrupted apply
  comes before whatever the destroys and watchers started on the way to it write, which all
  wait for their first answer then; `Passing` says of what the loop finds when it comes back from
  a mark that it was started before that mark. `Paced`: as long as no job has to
  wait for a slot, every job and the loop advance by one microtask per round of the queue, so
  that the difference of two of them in rounds stays what it was at their start. Bulk-destroy
  starts its jobs 4, 7, 8 or more rounds apart; the recovery's only job and its loop are
  multiples of 3 apart. To write in one round they would have to differ by neither. In the
  recovery a watcher, and a destroy that marks, write what is in the file already.
  `Unwritten`, `Concluded`,
  `Settled` and `Places` say what has been written when, and where the loops are. Where none
  of these arguments holds the write can be lost, and `BulkKeeps` and `RecoveryKeeps` name it
  as an exception (section 5).

How data that would need induction are reasoned about: the library's induction theorems
take an operator and cannot be used here. `SequenceFacts` derives from the
well-foundedness of the natural numbers that a nonempty set of them has a least element
(`LeastNumber`) and that a set with 0 and all successors contains them all
(`InductionOnSets`); by these the recursive functions inside `FlattenSeq` and `Keep` exist, are unique and
do what one expects of them. `IdsOf` in `JobQueue` is treated alike.

Only model-checked:

* Liveness (`EveryWaiterStarts`, `JobEnds`, `BootstrapSettles`, `ReadyDespiteFailures`,
  `PortalCallEnds`, `PortalPageCatchesUp`), which is out of the prover's reach.
* `SwitchKeepsDeployment`: what one view makes of a configuration and sends back is compared
  with it field by field, through lists that are taken apart by kind and parent and put
  together again. That would be an induction over each of the lists.

## 5. Where the code disagrees with what it says

* `queue_spin`. With more than `2 * perUserLimit` slots, as by default, two users
  at their caps with one waiter each and a free slot make `tryDispatch` rotate for
  ever; the server hangs. The comment says the user is skipped until a slot frees.
* `find_create_race`. Two creates of one id pass the check for a live instance
  before their preflights; the later one resets the live instance.
* `find_destroy_resumed`. A watcher whose probe began before a destroy writes
  `bootstrapping` over `destroying`; after a restart the destroy is not resumed.
* `find_pending`. A restart while an apply waits for its slot leaves `pending` with
  no job and no recovery.
* `find_ready_unprovisioned`. A health call that sees the cluster first writes
  `ready`, and the watcher then provisions nothing.
* `find_rdi_round_trip`. The wizard loses the mark of the database RDI keeps its
  state in, and the schema of `POST /instances` strips it (`schema.ts:12`, `index.ts:560`): a
  record reopened in the wizard, or read by a client of the API and posted back, is created
  with two of them. By the canvas it is not, which `OneStateDatabase` says. The preflight refuses
  two databases of one name in a cluster (`preflight.ts:722`), but the second is added after
  it (`index.ts:699`). The comment of `withRdiInternalDatabases` says that never happens.
* `find_draft`. A failed deployment may be forgotten and its name reused for a
  draft; the draft may be dropped with resources still in GCP.

Two more that the model shows and no run demands otherwise: a move to another
folder during `collectOutputs` is undone by its write-back, and a stale watcher
may turn `destroyed` into `degraded`. A third is the one exception of
`DestroyedMeansGone`: recreate writes the record it read before its preflight over what a
create or a retry has made meanwhile (`index.ts:959`), and it says `destroyed` of resources
that are there.

`terraform.ts:361` and `databases.ts:207` call provisioning idempotent and safe to
repeat. It is for a run that has the clusters to itself (`RetryHeals`). Two runs that
overlap, or a list that fails, post names that exist; the record then says
`failed` of a database that is there, and an older run that ends last overwrites
the newer states. `ActiveExists` is the half of the promise that always holds.
The states also outlive a recreate, and a reconcile that empties all lists keeps
the old ones, since a run with nothing to do writes nothing. These are
not stated as properties: the comment does not say what it means under overlap.

Further facts the portal shows. Each is an exception that a property names, so that
the property says everything else is excluded:

* Registry (`RecoveryKeeps`, `BulkKeeps`). The recovery loses the `failed` mark of an interrupted
  apply when another one comes between it and, earlier in the file, a resumed destroy or a
  `bootstrapping` record without addresses: their write of the whole file, read before the
  mark, comes after it. `index.ts:994` says such an apply is marked so that it can be
  retried; it then stays `applying` until the next start. Of two resumed destroys with nothing to destroy, or one beside such a
  watcher, one may stay `destroying` without a job. A bulk-destroy loses nothing unless there are more
  instances than slots (`Crowded`). Then it may lose the mark `destroying` of an
  instance while its terraform runs, which the end of terraform writes right, and the end of
  one that had nothing to destroy, which is then not written again: with the default of two
  slots for a user this takes ten instances, with three slots nine, and the instance stays
  `destroying` without a job until it is destroyed again or the server restarts.
* Preflight (`Unchecked` in `FailureIsForeseen`). A wish without zones passes
  (`preflight.ts:220`) and fails at `var.region_zones[0]` (`profiles/vm/main.tf:297`). DNS names and processors of the VMs of
  applications and of RDI are not asked for (`clusters.ts:232`, `preflight.ts:241`), nor
  RDI's machine type, nor names of topics, datasets and SQL instances. The machine type
  of a Kubernetes cluster is looked up in the first zone chosen (`preflight.ts:354`),
  the cluster is made in zone b (`modules/gke/main.tf:46`). Two load balancers of one
  name pass and break the plan. When the list of services cannot be read a second time,
  the checks of the services of buckets, topics, datasets and SQL are left out in silence.
* Quota (`QuotaHolds`). It is counted before the preflight, so two creates may both fit;
  failed deployments do not count, and a retry, which may bring one back, does not ask.
* Names (`DnsNamesDistinct`). A cluster called `c2` has the names of an unnamed second
  one, an application called `node1` those of a node of an unnamed first one, and one
  called `rdi` that of RDI (`rdi-vm/main.tf:118`): `applications.ts:13` does not reserve it.
* Canvas (`SurvivesCanvas` in `SwitchKeepsDeployment`). `diagram.ts:1183` calls what comes back
  equivalent; it is not in these cases. VMs of different types all get the
  first type; exposed VMs without a load balancer get one, VMs behind one become exposed;
  an application called `app` is confused with the VMs; in Kubernetes operators
  without a cluster are forgotten. An edge drawn by hand to the state database outlives it,
  also one from a record in which that database had another id.
* Progress. When only applications are deployed, a failure after terraform shows on no
  step. What writes over a job or a failure shows in it (`disturbed`): a health call that is
  answered ready under a retry puts the page at 100 percent while terraform runs
  (`index.ts:418`), the watcher of an earlier apply and a reconcile write below the new
  START. A probe that takes back `ready` (`TakenBack`) takes back steps, and so does a
  record that is written over or taken up again (`TakenUpAgain`).
* Attribution (`OwnerOrLonger`). DNS records begin with the name of a host and are shown as
  unowned (`gcp-inventory.ts:415`); `resource-attribution.ts:7` speaks of nearly every
  resource.
* Stream. After a reconnection the log is on the page twice.

## 6. Plan

What is left, the most consequential first:

1. The Postgres registry: every read and write is a turn of the event loop there, so
   that the steps of `InstanceLifecycle` fall apart, and the table has no column for
   `databaseStates` and `licenseStates`. A map with atomic entries would be the
   abstract specification.
2. `Instance`, an abstract specification of what a user is promised of an instance
   (absent, building, up, tearing down, gone), and `InstanceLifecycle` with
   `JobQueue` composed, shown to implement it; what of it fails is in section 5.
3. The lookups of the form (`useGcpLookups.ts`), whose answers may come out of order;
   the joining of nodes (`instance.sh`) and the aggregation of health; the credentials
   store, whose deletion may meet an instance that uses them.

## 7. Not modelled, and why

* Authentication, sessions, OIDC: sequential checks of a request against a table,
  with nothing kept between two of them.
* Prices, bills, machine catalogue, the table of NVMe disks: answers of Google or
  tables, passed on. That they may not come is in `ResourceScan` and `Admission`.
* The text of the workspace, terraform modules, node scripts: text produced from a
  configuration, declarative. What the text says about who finds whom is in
  `Connections`, what names and machines terraform needs is in `Admission`. That a stop
  of the server between the three writes of the workspace leaves it half old is not
  modelled: the next retry or recreate writes it anew.
* The merge of drafts: a pure function over trees of JSON, whose model would be the
  code again. Capacity arithmetic: sums, with constants in `Admission` in their place.
* The credentials store, artifacts, audit log, schemas: files written and read in one
  request each.
* The MCP server: a client of the API; each tool is one HTTP call.
* The rest of the user interface: lists, dialogs and rendering.
* The Postgres registry: the modules are about the file, which is the default; the
  difference is in the plan. A file that was torn by a stop during its write is read
  as empty and then replaced; that stop is not modelled.
* Growth: the log of an instance is appended to for ever, in the code and not in
  the modules, where it is left out.
