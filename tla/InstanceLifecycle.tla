------------------------- MODULE InstanceLifecycle -------------------------
(***************************************************************************)
(* The life of one deployment ("instance") of the API server: its registry *)
(* record, the terraform job that builds or tears it down (terraform.ts),  *)
(* the watcher that waits for the cluster to form (watchBootstrap), and    *)
(* the HTTP handlers of index.ts and designs.ts that read and write the    *)
(* record meanwhile.                                                       *)
(*                                                                         *)
(* A step is one stretch of JavaScript between two waits for the outside   *)
(* world (a terraform command, a probe, a timer, the preflight calls, the  *)
(* REST API of the cluster).  This is the file-backed registry, the one    *)
(* in use without DATABASE_URL: its reads and writes are synchronous file  *)
(* operations, so the awaits around them let nothing else in.              *)
(***************************************************************************)
EXTENDS Naturals, FiniteSets

CONSTANTS Configs,         \* the configurations a user may deploy
          AppOnlyConfigs,  \* those without a Redis cluster
          LicensedConfigs, \* those with a license key for some cluster
          DatabaseConfigs, \* those with databases to create
          Folders,         \* the folders an instance may be moved to
          Clients,         \* the HTTP requests that may be open at a time
          Calls,           \* the handlers the clients use
          Workers,         \* the async bodies of startApply and startDestroy
          MaxPolls,        \* the probes that fit in BOOTSTRAP_TIMEOUT_MS
          MaxRestarts,     \* how often the server restarts in a behaviour
          NoRecord, NoConfig

AllCalls == {"create", "delete", "bulkDestroy", "forget", "folder", "retry",
             "recreate", "health", "reconcile", "saveDraft", "patchDraft"}

ASSUME ConfigsAssumption ==
  /\ AppOnlyConfigs \subseteq Configs
  /\ LicensedConfigs \subseteq Configs \ AppOnlyConfigs
  /\ DatabaseConfigs \subseteq Configs \ AppOnlyConfigs
  /\ NoConfig \notin Configs

ASSUME BoundsAssumption ==
  /\ MaxPolls \in Nat \ {0}
  /\ MaxRestarts \in Nat
  /\ Calls \subseteq AllCalls

Statuses == {"draft", "pending", "applying", "bootstrapping", "ready",
             "degraded", "failed", "destroying", "destroyed"}

(* endpoints: the addresses and passwords of the nodes are on record. *)
Record == [status : Statuses, cfg : Configs, folder : Folders, endpoints : BOOLEAN]

ASSUME NoRecordAssumption == NoRecord \notin Record

VARIABLES
  record,      \* the instance's entry of instances.json, or NoRecord
  workspace,   \* the configuration terraform.tfvars was last written from
  tfState,     \* .terraform or terraform.tfstate exists in the workspace
  cloud,       \* the configuration of which resources may exist in GCP
  formed,      \* every node of the cluster is active and the UI answers
  provisioned, \* licenses and databases were sent to the present cluster
  jobs,        \* terraform.ts `jobs`: "none", "apply" or "destroy"
  worker,      \* the async bodies of startApply and startDestroy
  watcher,     \* the async body of watchBootstrap; "off" is not in `watchers`
  request,     \* the open HTTP requests
  restarts     \* the restarts so far

vars == <<record, workspace, tfState, cloud, formed, provisioned,
          jobs, worker, watcher, request, restarts>>

cluster == <<cloud, formed, provisioned>>
disk    == <<workspace, tfState>>

-----------------------------------------------------------------------------
(* The processes.                                                          *)

WorkerState == [pc : {"idle", "queued", "terraform", "outputs"},
                kind : {"apply", "destroy"},
                seen : Record \cup {NoRecord}]

IdleWorker == [pc |-> "idle", kind |-> "apply", seen |-> NoRecord]

(* seen is the record the watcher read last but for rereading to write; up *)
(* is what its probe saw first.                                            *)
WatcherState == [pc : {"off", "probing", "sleeping", "licensing", "creating"},
                 polls : 0..MaxPolls,
                 up : BOOLEAN,
                 seen : Record \cup {NoRecord}]

NoWatcher == [pc |-> "off", polls |-> 0, up |-> FALSE, seen |-> NoRecord]

Probing(n, r) == [pc |-> "probing", polls |-> n, up |-> formed, seen |-> r]

RequestState == [pc : {"idle", "create", "retry", "recreate", "health",
                       "licensing", "creating"},
                 seen : Record \cup {NoRecord},
                 up : BOOLEAN]

NoRequest == [pc |-> "idle", seen |-> NoRecord, up |-> FALSE]

Status == IF record = NoRecord THEN "none" ELSE record.status

IsBusy == jobs # "none"
IsWatching == watcher.pc # "off"

SetStatus(s) == record' = [record EXCEPT !.status = s]

(* Mutant: no look at the map of jobs. *)
StartJobUnguarded(kind) ==
  /\ jobs' = kind
  /\ \E w \in Workers :
       /\ worker[w].pc = "idle"
       /\ worker' = [worker EXCEPT ![w].pc = "queued", ![w].kind = kind]

(***************************************************************************)
(* startApply and startDestroy, up to the wait for a slot.  A job in the   *)
(* map makes them throw, which ends the handler with an error.             *)
(***************************************************************************)
StartJob(kind) ==
  \/ /\ jobs = "none"
     /\ jobs' = kind
     /\ \E w \in Workers :
          /\ worker[w].pc = "idle"
          /\ worker' = [worker EXCEPT ![w].pc = "queued", ![w].kind = kind]
  \/ /\ jobs # "none"
     /\ UNCHANGED <<jobs, worker>>

(* Mutant: a job that ends goes back to the queue. *)
EndJobRequeued(w) == /\ worker' = [worker EXCEPT ![w].pc = "queued"]
                     /\ UNCHANGED jobs

(* finally: releaseJobSlot, jobs.delete. *)
EndJob(w) == /\ jobs' = "none"
             /\ worker' = [worker EXCEPT ![w] = IdleWorker]

(***************************************************************************)
(* watchBootstrap: one watcher at most; the first look at the record       *)
(* follows at once.                                                        *)
(***************************************************************************)
StartWatcher ==
  watcher' = IF IsWatching THEN watcher
             ELSE Probing(1, record')

(***************************************************************************)
(* probeHealth(r): is the cluster ready?  Without a cluster there is       *)
(* nothing to wait for, without addresses nobody to ask; else the answer   *)
(* is what held at some time during the probe, which began when it was up. *)
(***************************************************************************)
ProbeAnswers(r, up) == CASE r.cfg \in AppOnlyConfigs -> {TRUE}
                         [] r.cfg \notin AppOnlyConfigs /\ ~ r.endpoints -> {FALSE}
                         [] OTHER -> {up, formed}

(***************************************************************************)
(* provisionClusterResources: licenses first, then databases, of the       *)
(* configuration it read when it began.                                    *)
(***************************************************************************)
FirstPhase(cfg) == CASE cfg \in LicensedConfigs -> "licensing"
                     [] cfg \in DatabaseConfigs \ LicensedConfigs -> "creating"
                     [] OTHER -> "done"

NextPhase(cfg) == IF cfg \in DatabaseConfigs THEN "creating" ELSE "done"

(* The REST calls reach the cluster if there is one. *)
SendResources == provisioned' = (provisioned \/ cloud # NoConfig)

-----------------------------------------------------------------------------

Init ==
  /\ record = NoRecord
  /\ workspace = NoConfig /\ tfState = FALSE
  /\ cloud = NoConfig /\ formed = FALSE /\ provisioned = FALSE
  /\ jobs = "none"
  /\ worker = [w \in Workers |-> IdleWorker]
  /\ watcher = NoWatcher
  /\ request = [c \in Clients |-> NoRequest]
  /\ restarts = 0

(***************************************************************************)
(* The cluster: its nodes join once the VMs exist, and may leave again.    *)
(***************************************************************************)
ClusterChanges ==
  /\ cloud \in Configs \ AppOnlyConfigs
  /\ formed' = ~ formed
  /\ UNCHANGED <<record, disk, cloud, provisioned, jobs, worker, watcher, request, restarts>>

-----------------------------------------------------------------------------
(* The terraform job.                                                      *)

(* The slot was granted, the record is gone: nothing to do. *)
JobWithoutRecord(w) ==
  /\ worker[w].pc = "queued"
  /\ record = NoRecord
  /\ EndJob(w)
  /\ UNCHANGED <<record, disk, cluster, watcher, request, restarts>>

(* From here on terraform may have created what the workspace describes; a *)
(* changed configuration makes another cluster of it.                      *)
ApplyStart(w) ==
  /\ worker[w].pc = "queued" /\ worker[w].kind = "apply"
  /\ record # NoRecord
  /\ SetStatus("applying")
  /\ tfState' = TRUE
  /\ cloud' = workspace
  /\ formed' = (formed /\ cloud = workspace)
  /\ provisioned' = (provisioned /\ cloud = workspace)
  /\ worker' = [worker EXCEPT ![w].pc = "terraform"]
  /\ UNCHANGED <<workspace, jobs, watcher, request, restarts>>

(* Mutant: startDestroy ignores the exit code of terraform destroy. *)
JobFailsUnnoticed(w) ==
  /\ worker[w].pc \in {"terraform", "outputs"}
  /\ IF record = NoRecord
     THEN UNCHANGED record
     ELSE SetStatus(IF worker[w].kind = "destroy" THEN "destroyed" ELSE "failed")
  /\ EndJob(w)
  /\ UNCHANGED <<disk, cluster, watcher, request, restarts>>

(* The catch block: terraform failed, or its output could not be kept.     *)
JobFails(w) ==
  /\ worker[w].pc \in {"terraform", "outputs"}
  /\ IF record = NoRecord THEN UNCHANGED record ELSE SetStatus("failed")
  /\ EndJob(w)
  /\ UNCHANGED <<disk, cluster, watcher, request, restarts>>

(* terraform apply succeeded; collectOutputs holds the record read now     *)
(* while it runs terraform output twice.                                   *)
ApplySucceeds(w) ==
  /\ worker[w].pc = "terraform" /\ worker[w].kind = "apply"
  /\ record # NoRecord
  /\ worker' = [worker EXCEPT ![w].pc = "outputs", ![w].seen = record]
  /\ UNCHANGED <<record, disk, cluster, jobs, watcher, request, restarts>>

(***************************************************************************)
(* collectOutputs writes back the record it holds (or, when terraform      *)
(* output failed, writes nothing); then the status follows.                *)
(***************************************************************************)
ApplyEnd(w) ==
  /\ worker[w].pc = "outputs"
  /\ record # NoRecord
  /\ \E kept \in {[worker[w].seen EXCEPT !.endpoints = TRUE], record} :
       IF kept.cfg \in AppOnlyConfigs
       THEN /\ \E s \in {"ready", "failed"} : record' = [kept EXCEPT !.status = s]
            /\ UNCHANGED watcher
       ELSE /\ record' = [kept EXCEPT !.status = "bootstrapping"]
            /\ StartWatcher
  /\ EndJob(w)
  /\ UNCHANGED <<disk, cluster, request, restarts>>

DestroyStart(w) ==
  /\ worker[w].pc = "queued" /\ worker[w].kind = "destroy"
  /\ record # NoRecord
  /\ IF tfState
     THEN /\ SetStatus("destroying")
          /\ worker' = [worker EXCEPT ![w].pc = "terraform"]
          /\ UNCHANGED jobs
     ELSE /\ record' = [record EXCEPT !.status = "destroyed", !.endpoints = FALSE]
          /\ EndJob(w)
  /\ UNCHANGED <<disk, cluster, watcher, request, restarts>>

DestroySucceeds(w) ==
  /\ worker[w].pc = "terraform" /\ worker[w].kind = "destroy"
  /\ IF record = NoRecord
     THEN UNCHANGED record
     ELSE record' = [record EXCEPT !.status = "destroyed", !.endpoints = FALSE]
  /\ cloud' = NoConfig /\ formed' = FALSE /\ provisioned' = FALSE
  /\ EndJob(w)
  /\ UNCHANGED <<disk, watcher, request, restarts>>

-----------------------------------------------------------------------------
(* The watcher.                                                            *)

Watchable == Status \notin {"none", "destroying", "destroyed", "applying", "failed"}

(* Mutant: no deadline. *)
WatchForever ==
  /\ watcher.pc = "sleeping"
  /\ watcher' = IF Watchable THEN Probing(watcher.polls + 1, record) ELSE NoWatcher
  /\ UNCHANGED <<record, disk, cluster, jobs, worker, request, restarts>>

(* The timer fired: the deadline has not passed, look again or give up. *)
WatchAgain ==
  /\ watcher.pc = "sleeping"
  /\ watcher.polls < MaxPolls
  /\ watcher' = IF Watchable
                THEN Probing(watcher.polls + 1, record)
                ELSE NoWatcher
  /\ UNCHANGED <<record, disk, cluster, jobs, worker, request, restarts>>

(* Mutant: the watcher gives up without a word. *)
WatchTimeoutSilent ==
  /\ watcher.pc = "sleeping"
  /\ watcher' = NoWatcher
  /\ UNCHANGED <<record, disk, cluster, jobs, worker, request, restarts>>

WatchTimeout ==
  /\ watcher.pc = "sleeping"
  /\ IF Status = "bootstrapping" THEN SetStatus("degraded") ELSE UNCHANGED record
  /\ watcher' = NoWatcher
  /\ UNCHANGED <<disk, cluster, jobs, worker, request, restarts>>

(* After the resources: ready, unless a teardown or a failure came first. *)
WatchFinish ==
  /\ IF Status \notin {"none", "destroying", "destroyed", "failed"}
     THEN SetStatus("ready")
     ELSE UNCHANGED record
  /\ watcher' = NoWatcher

(***************************************************************************)
(* The probe answered.  The record is read again and written whatever its  *)
(* status; a cluster that has just become ready gets its resources first.  *)
(***************************************************************************)
WatchProbed ==
  /\ watcher.pc = "probing"
  /\ \E answer \in ProbeAnswers(watcher.seen, watcher.up) :
       \/ /\ record = NoRecord
          /\ watcher' = NoWatcher
          /\ UNCHANGED record
       \/ /\ record # NoRecord
          /\ ~ answer
          /\ IF Status = "ready" THEN UNCHANGED record ELSE SetStatus("bootstrapping")
          /\ watcher' = [watcher EXCEPT !.pc = "sleeping"]
       \/ /\ Status = "ready"
          /\ answer
          /\ watcher' = NoWatcher
          /\ UNCHANGED record
       \/ /\ Status \notin {"none", "ready"}
          /\ answer
          /\ LET phase == FirstPhase(record.cfg)
             IN IF phase = "done"
                THEN SetStatus("ready") /\ watcher' = NoWatcher
                ELSE /\ SetStatus("bootstrapping")
                     /\ watcher' = [watcher EXCEPT !.pc = phase, !.seen = record]
  /\ UNCHANGED <<disk, cluster, jobs, worker, request, restarts>>

WatchLicensed ==
  /\ watcher.pc = "licensing"
  /\ SendResources
  /\ IF NextPhase(watcher.seen.cfg) = "creating"
     THEN watcher' = [watcher EXCEPT !.pc = "creating"] /\ UNCHANGED record
     ELSE WatchFinish
  /\ UNCHANGED <<disk, cloud, formed, jobs, worker, request, restarts>>

WatchCreated ==
  /\ watcher.pc = "creating"
  /\ SendResources
  /\ WatchFinish
  /\ UNCHANGED <<disk, cloud, formed, jobs, worker, request, restarts>>

Watcher == \/ WatchAgain \/ WatchTimeout \/ WatchProbed
           \/ WatchLicensed \/ WatchCreated

-----------------------------------------------------------------------------
(* The HTTP handlers.                                                      *)

Idle(c, call) == call \in Calls /\ request[c].pc = "idle"

Wait(c, pc) == request' = [request EXCEPT ![c] = [pc |-> pc, seen |-> record, up |-> formed]]
Answer(c)   == request' = [request EXCEPT ![c] = NoRequest]

(* A call that waits for the outside world may be refused afterwards: a    *)
(* failed check, a quota, a workspace that cannot be written.              *)
Refused(c) ==
  /\ request[c].pc \in {"create", "retry", "recreate"}
  /\ Answer(c)
  /\ UNCHANGED <<record, disk, cluster, jobs, worker, watcher, restarts>>

MayOverwrite == Status \in {"none", "destroyed", "draft"}

CreateBegin(c) ==
  /\ Idle(c, "create")
  /\ MayOverwrite
  /\ Wait(c, "create")
  /\ UNCHANGED <<record, disk, cluster, jobs, worker, watcher, restarts>>

(* After the preflight nothing is looked at again. *)
CreateEnd(c) ==
  /\ request[c].pc = "create"
  /\ \E cfg \in Configs, f \in Folders :
       /\ workspace' = cfg
       /\ record' = [status |-> "pending", cfg |-> cfg, folder |-> f, endpoints |-> FALSE]
  /\ StartJob("apply")
  /\ Answer(c)
  /\ UNCHANGED <<tfState, cluster, watcher, restarts>>

Delete(c) ==
  /\ Idle(c, "delete")
  /\ record # NoRecord
  /\ ~ IsBusy
  /\ StartJob("destroy")
  /\ UNCHANGED <<record, disk, cluster, watcher, request, restarts>>

BulkDestroy(c) ==
  /\ Idle(c, "bulkDestroy")
  /\ Status \notin {"none", "destroyed"}
  /\ ~ IsBusy
  /\ StartJob("destroy")
  /\ UNCHANGED <<record, disk, cluster, watcher, request, restarts>>

(* Mutant: forget without the busy check. *)
ForgetBusy(c) ==
  /\ Idle(c, "forget")
  /\ Status \in {"destroyed", "failed", "draft"}
  /\ record' = NoRecord
  /\ UNCHANGED <<disk, cluster, jobs, worker, watcher, request, restarts>>

Forget(c) ==
  /\ Idle(c, "forget")
  /\ ~ IsBusy
  /\ Status \in {"destroyed", "failed", "draft"}
  /\ record' = NoRecord
  /\ UNCHANGED <<disk, cluster, jobs, worker, watcher, request, restarts>>

PatchFolder(c) ==
  /\ Idle(c, "folder")
  /\ record # NoRecord
  /\ \E f \in Folders : record' = [record EXCEPT !.folder = f]
  /\ UNCHANGED <<disk, cluster, jobs, worker, watcher, request, restarts>>

(* Retry looks at no status; its artifacts may come from elsewhere. *)
RetryBegin(c) ==
  /\ Idle(c, "retry")
  /\ record # NoRecord
  /\ ~ IsBusy
  /\ Wait(c, "retry")
  /\ UNCHANGED <<record, disk, cluster, jobs, worker, watcher, restarts>>

RetryEnd(c) ==
  /\ request[c].pc = "retry"
  /\ workspace' = request[c].seen.cfg
  /\ StartJob("apply")
  /\ Answer(c)
  /\ UNCHANGED <<record, tfState, cluster, watcher, restarts>>

RecreateBegin(c) ==
  /\ Idle(c, "recreate")
  /\ Status = "destroyed"
  /\ ~ IsBusy
  /\ Wait(c, "recreate")
  /\ UNCHANGED <<record, disk, cluster, jobs, worker, watcher, restarts>>

(* The record read before the preflight is written back after it. *)
RecreateEnd(c) ==
  /\ request[c].pc = "recreate"
  /\ workspace' = request[c].seen.cfg
  /\ record' = [request[c].seen EXCEPT !.endpoints = FALSE]
  /\ StartJob("apply")
  /\ Answer(c)
  /\ UNCHANGED <<tfState, cluster, watcher, restarts>>

HealthBegin(c) ==
  /\ Idle(c, "health")
  /\ Status \notin {"none", "destroyed", "destroying"}
  /\ Wait(c, "health")
  /\ UNCHANGED <<record, disk, cluster, jobs, worker, watcher, restarts>>

(* Mutant: the handler writes bootstrapping and starts no watcher. *)
HealthEndUnwatched(c) ==
  /\ request[c].pc = "health"
  /\ Answer(c)
  /\ \E answer \in ProbeAnswers(request[c].seen, request[c].up) :
       IF record = NoRecord
       THEN UNCHANGED record
       ELSE SetStatus(CASE answer -> "ready"
                        [] ~ answer /\ Status \in {"ready", "degraded"} -> "bootstrapping"
                        [] OTHER -> Status)
  /\ UNCHANGED <<disk, cluster, jobs, worker, watcher, restarts>>

HealthEnd(c) ==
  /\ request[c].pc = "health"
  /\ Answer(c)
  /\ \E answer \in ProbeAnswers(request[c].seen, request[c].up) :
       LET status == CASE answer -> "ready"
                       [] ~ answer /\ Status \in {"ready", "degraded"} -> "bootstrapping"
                       [] OTHER -> Status
       IN IF record = NoRecord
          THEN UNCHANGED <<record, watcher>>
          ELSE /\ SetStatus(status)
               /\ IF status = "bootstrapping" THEN StartWatcher ELSE UNCHANGED watcher
  /\ UNCHANGED <<disk, cluster, jobs, worker, restarts>>

(* The body of a reconcile may replace the databases of the clusters. *)
WithOtherDatabases(cfg) ==
  {cfg} \cup {d \in Configs \ AppOnlyConfigs :
               cfg \notin AppOnlyConfigs /\ (d \in LicensedConfigs <=> cfg \in LicensedConfigs)}

(* Reconcile: the same provisioning as the watcher's, in the handler.      *)
ReconcileBegin(c) ==
  /\ Idle(c, "reconcile")
  /\ Status \in {"ready", "degraded", "bootstrapping"}
  /\ \E cfg \in WithOtherDatabases(record.cfg) :
       LET edited == [record EXCEPT !.cfg = cfg]
       IN /\ record' = edited
          /\ IF FirstPhase(cfg) = "done"
             THEN UNCHANGED request
             ELSE request' = [request EXCEPT ![c] =
                                [pc |-> FirstPhase(cfg), seen |-> edited, up |-> formed]]
  /\ UNCHANGED <<disk, cluster, jobs, worker, watcher, restarts>>

ReconcileSent(c) ==
  /\ request[c].pc \in {"licensing", "creating"}
  /\ SendResources
  /\ IF request[c].pc = "licensing" /\ NextPhase(request[c].seen.cfg) = "creating"
     THEN request' = [request EXCEPT ![c].pc = "creating"]
     ELSE Answer(c)
  /\ UNCHANGED <<record, disk, cloud, formed, jobs, worker, watcher, restarts>>

(* POST /designs replaces a draft or what is left of a destroyed instance. *)
SaveDraft(c) ==
  /\ Idle(c, "saveDraft")
  /\ MayOverwrite
  /\ \E cfg \in Configs, f \in Folders :
       record' = [status |-> "draft", cfg |-> cfg, folder |-> f, endpoints |-> FALSE]
  /\ UNCHANGED <<disk, cluster, jobs, worker, watcher, request, restarts>>

PatchDraft(c) ==
  /\ Idle(c, "patchDraft")
  /\ Status = "draft"
  /\ \E cfg \in Configs, f \in Folders :
       record' = [record EXCEPT !.cfg = cfg, !.folder = f]
  /\ UNCHANGED <<disk, cluster, jobs, worker, watcher, request, restarts>>

Handler(c) == \/ Refused(c)
              \/ CreateBegin(c) \/ CreateEnd(c)
              \/ Delete(c) \/ BulkDestroy(c) \/ Forget(c) \/ PatchFolder(c)
              \/ RetryBegin(c) \/ RetryEnd(c)
              \/ RecreateBegin(c) \/ RecreateEnd(c)
              \/ HealthBegin(c) \/ HealthEnd(c)
              \/ ReconcileBegin(c) \/ ReconcileSent(c)
              \/ SaveDraft(c) \/ PatchDraft(c)

-----------------------------------------------------------------------------
(* Mutant: an interrupted apply is left as it is. *)
RestartBlind ==
  /\ restarts < MaxRestarts
  /\ restarts' = restarts + 1
  /\ request' = [c \in Clients |-> NoRequest]
  /\ watcher' = IF Status = "bootstrapping" THEN Probing(1, record) ELSE NoWatcher
  /\ worker' = [w \in Workers |-> IdleWorker]
  /\ jobs' = "none"
  /\ UNCHANGED <<record, disk, cluster>>

(***************************************************************************)
(* The process stops and starts again: requests, jobs and watchers are     *)
(* gone, and the loop at the end of index.ts takes up what it finds before *)
(* the server listens.                                                     *)
(***************************************************************************)
Restart ==
  /\ restarts < MaxRestarts
  /\ restarts' = restarts + 1
  /\ request' = [c \in Clients |-> NoRequest]
  /\ \/ /\ Status = "bootstrapping"
        /\ watcher' = Probing(1, record)
        /\ worker' = [w \in Workers |-> IdleWorker]
        /\ jobs' = "none"
        /\ UNCHANGED record
     \/ /\ Status = "destroying"
        /\ watcher' = NoWatcher
        /\ jobs' = "destroy"
        /\ \E w \in Workers :
             worker' = [v \in Workers |->
                          IF v = w THEN [IdleWorker EXCEPT !.pc = "queued", !.kind = "destroy"]
                                   ELSE IdleWorker]
        /\ UNCHANGED record
     \/ /\ Status \notin {"bootstrapping", "destroying"}
        /\ watcher' = NoWatcher
        /\ worker' = [w \in Workers |-> IdleWorker]
        /\ jobs' = "none"
        /\ IF Status = "applying" THEN SetStatus("failed") ELSE UNCHANGED record
  /\ UNCHANGED <<disk, cluster>>

Worker(w) == \/ JobWithoutRecord(w) \/ ApplyStart(w) \/ ApplySucceeds(w) \/ ApplyEnd(w)
             \/ DestroyStart(w) \/ DestroySucceeds(w) \/ JobFails(w)

Next == \/ \E w \in Workers : Worker(w)
        \/ Watcher
        \/ \E c \in Clients : Handler(c)
        \/ ClusterChanges
        \/ Restart

Spec == Init /\ [][Next]_vars

(***************************************************************************)
(* The server keeps running what it has begun: slots are granted (see      *)
(* JobQueue), commands end, probes and REST calls time out, timers fire.   *)
(***************************************************************************)
Fairness == /\ \A w \in Workers : WF_vars(Worker(w))
            /\ WF_vars(Watcher)

FairSpec == Spec /\ Fairness

-----------------------------------------------------------------------------
(* Correctness.                                                            *)

TypeOK ==
  /\ record \in Record \cup {NoRecord}
  /\ workspace \in Configs \cup {NoConfig}
  /\ cloud \in Configs \cup {NoConfig}
  /\ tfState \in BOOLEAN /\ formed \in BOOLEAN /\ provisioned \in BOOLEAN
  /\ jobs \in {"none", "apply", "destroy"}
  /\ worker \in [Workers -> WorkerState]
  /\ watcher \in WatcherState
  /\ request \in [Clients -> RequestState]
  /\ restarts \in 0..MaxRestarts

(***************************************************************************)
(* One terraform at a time works on the workspace and its state file, the  *)
(* one `jobs` names, however the busy checks of the handlers interleave    *)
(* with their preflights: clearStaleStateLock relies on it.                *)
(***************************************************************************)
OneTerraform ==
  /\ \A v, w \in Workers : worker[v].pc # "idle" /\ worker[w].pc # "idle" => v = w
  /\ \A w \in Workers : worker[w].pc # "idle" => jobs = worker[w].kind
  /\ jobs # "none" => \E w \in Workers : worker[w].pc # "idle"

(***************************************************************************)
(* While terraform is at work the record exists: a forget cannot slip in,  *)
(* so what terraform creates is never without a record for that reason.    *)
(***************************************************************************)
JobHasRecord ==
  \A w \in Workers : worker[w].pc \in {"terraform", "outputs"} => record # NoRecord

(***************************************************************************)
(* No status is an empty promise: a record that says applying, destroying  *)
(* or bootstrapping has a job of that kind, or a watcher, that will change *)
(* it, after a restart too.                                                *)
(***************************************************************************)
StatusHasOwner ==
  /\ Status = "applying" => jobs = "apply"
  /\ Status = "destroying" => jobs = "destroy"
  /\ Status = "bootstrapping" => IsWatching

(***************************************************************************)
(* A record that says destroyed tells the truth.  The handlers rely on it: *)
(* such a record is forgotten, overwritten or recreated without a look at  *)
(* what is left in GCP.  However many requests are open, one thing makes   *)
(* it untrue: a recreate that writes back the record it read before its    *)
(* preflight (index.ts:959) over what another request has made meanwhile.  *)
(***************************************************************************)
DestroyedInName == Status = "destroyed" /\ cloud # NoConfig

RecreateOverOther(c) == /\ request[c].pc = "recreate" /\ request'[c].pc = "idle"
                        /\ Status # "destroyed"

DestroyedMeansGone ==
  [][DestroyedInName'
       => DestroyedInName \/ \E c \in Clients : RecreateOverOther(c)]_vars

(* "Drafts never provisioned anything, so they are safe to drop without a  *)
(* destroy" (the comment in the forget handler).                           *)
DraftsNeverProvisioned == Status = "draft" => cloud = NoConfig

(***************************************************************************)
(* "an interrupted destroy is re-run" (index.ts, the recovery loop): when  *)
(* the server stops while terraform destroy runs, the next one resumes it. *)
(***************************************************************************)
InterruptedDestroyIsResumed ==
  [][restarts' # restarts
       /\ (\E w \in Workers : worker[w].kind = "destroy" /\ worker[w].pc = "terraform")
     => jobs' = "destroy"]_vars

(***************************************************************************)
(* "Recover work orphaned by a restart" (index.ts): a deployment the user  *)
(* was told is pending has a job.                                          *)
(***************************************************************************)
PendingHasJob == Status = "pending" => jobs = "apply"

(* README: databases and licenses are set up "once the cluster is ready":  *)
(* a cluster reported ready has been sent its licenses and databases.      *)
ReadyMeansProvisioned ==
  /\ Status = "ready"
  /\ record.cfg \in LicensedConfigs \cup DatabaseConfigs
  => provisioned

(* "A live instance blocks with 409" (index.ts, POST /instances): creating *)
(* replaces no record but that of a destroyed instance or a draft.         *)
LiveInstanceBlocksCreate ==
  [][record' # record /\ record' # NoRecord
       => (record'.status = "pending" => MayOverwrite)]_vars

(***************************************************************************)
(* Every job ends and gives its slot back, and every wait for a cluster    *)
(* ends: ready, degraded, or overtaken by another operation.               *)
(***************************************************************************)
JobEnds == \A w \in Workers : worker[w].pc # "idle" ~> worker[w].pc = "idle"

BootstrapSettles == Status = "bootstrapping" ~> Status # "bootstrapping"

=============================================================================
