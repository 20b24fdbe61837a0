-------------------------- MODULE InstanceProgress --------------------------
(***************************************************************************)
(* The progress of an instance: computeProgress reads a phase, steps and a *)
(* percentage out of the log, which holds every apply and destroy there    *)
(* ever was, the status, which changes apart from the log, and the last    *)
(* answer of the health probe, which outlives the cluster it was about.    *)
(*                                                                         *)
(* The text is the set of the marks that computeProgress looks for, with   *)
(* the numbers of the lines it counts.  The configuration stays the same.  *)
(***************************************************************************)
EXTENDS Integers, Sequences, SequencesExt

CONSTANTS
    Plans,          \* [gke, redis, licenses, databases, resources]: what is deployed
    MaxRequests     \* bound on the requests and the restarts of a behaviour, for each plan

ASSUME ProgressAssumption ==
    /\ Plans \subseteq [gke : BOOLEAN, redis : BOOLEAN, licenses : Nat, databases : Nat, resources : Nat \ {0}]
    /\ \A p \in Plans : p.gke \/ p.licenses > 0 \/ p.databases > 0 => p.redis    \* POST refuses GKE without a cluster
    /\ MaxRequests \in [Plans -> Nat]

VARIABLES
    plan,       \* the configuration
    oplog,      \* the log: one record for each operation that has started
    standing,   \* the status of the record
    lastHealth, \* the state of the health kept in the record
    doing,      \* the job of the instance
    at,         \* where the watcher of the bootstrap is, and a reconcile: neither is a job
    asked,      \* the requests in flight, with the health of the record they have read
    requests,   \* how many there have been
    disturbed   \* history: something else has written over the last job, or over its failure

progressVars == <<plan, oplog, standing, lastHealth, doing, at, asked, requests, disturbed>>

Marks == {"init", "plan", "creating", "operator", "rec", "applied", "clusterReady", "licensing",
          "creatingDatabases", "resourcesComplete", "destroying", "summary"}

NewOperation(kind) == [kind |-> kind, marks |-> {}, done |-> 0, licensed |-> 0, made |-> 0, dbFailed |-> FALSE]

-----------------------------------------------------------------------------
(* The computation.                                                        *)

(* Mutant: the whole log is read, as if it were one operation. *)
WholeLog(l) ==
    IF l = <<>> THEN NewOperation("apply")
    ELSE [Last(l) EXCEPT !.marks = UNION {l[k].marks : k \in DOMAIN l}]

\* The text after the last START marker.
LastOperation(l) == IF l = <<>> THEN NewOperation("apply") ELSE Last(l)

SettleStep(p) == IF p.gke THEN "rec" ELSE "bootstrap"

ApplyOrder(p) ==
    IF ~p.redis /\ ~p.gke THEN <<"init", "plan", "create", "ready">>
    ELSE (IF p.gke THEN <<"init", "plan", "create", "operator", "rec">> ELSE <<"init", "plan", "create", "bootstrap">>)
         \o (IF p.licenses > 0 THEN <<"licenses">> ELSE <<>>)
         \o (IF p.databases > 0 THEN <<"databases">> ELSE <<>>)
         \o <<"ready">>

DestroyOrder == <<"init", "plan", "destroy", "destroyed">>

\* The phase of the first rule that applies.
FirstPhase(rules) ==
    LET first == CHOOSE k \in DOMAIN rules : rules[k][1] /\ \A j \in 1..(k - 1) : ~rules[j][1]
    IN  rules[first][2]

(* Mutant: terraform being done is read from the status alone. *)
SettlingNow(op, st) == st = "bootstrapping"

\* Terraform is done and the cluster is waited for, or was.
Settling(op, st) == st \in {"bootstrapping", "degraded"} \/ "applied" \in op.marks

ApplyPhase(p, op, st, hl) ==
    LET Has(m) == m \in op.marks
        up == Has("clusterReady") \/ hl = "ready"
    IN  FirstPhase(<<
          <<st = "ready" \/ Has("resourcesComplete"), "ready">>,
          <<p.databases > 0 /\ Has("creatingDatabases"), "databases">>,
          <<p.licenses > 0 /\ (Has("licensing") \/ (up /\ ~Has("creatingDatabases"))), "licenses">>,
          <<p.databases > 0 /\ up, "databases">>,
          <<Settling(op, st), SettleStep(p)>>,
          <<Has("rec"), "rec">>,
          <<Has("operator"), "operator">>,
          <<op.done > 0 \/ Has("creating"), "create">>,
          <<Has("plan"), "plan">>,
          <<Has("init"), "init">>,
          <<TRUE, "queued">> >>)

DestroyPhase(op, st) ==
    FirstPhase(<<
      <<"summary" \in op.marks \/ st = "destroyed", "destroyed">>,
      <<"destroying" \in op.marks, "destroy">>,
      <<"plan" \in op.marks, "plan">>,
      <<TRUE, "init">> >>)

(* Mutant: the steps do not know of the failure. *)
StepStateUnfailed(order, phase, halted, k) ==
    CASE phase \in {"ready", "destroyed"} \/ \E a \in DOMAIN order : order[a] = phase /\ k < a -> "done"
      [] phase \notin {"ready", "destroyed"} /\ order[k] = phase -> "active"
      [] OTHER -> "pending"

\* The state of the step at a place of the order.
StepState(order, phase, halted, k) ==
    CASE phase \in {"ready", "destroyed"} \/ \E a \in DOMAIN order : order[a] = phase /\ k < a -> "done"
      [] phase \notin {"ready", "destroyed"} /\ order[k] = phase -> IF halted THEN "failed" ELSE "active"
      [] OTHER -> "pending"

AtMost(a, b) == IF a < b THEN a ELSE b

\* The percentage of a phase in which part of whole is done: base + share.
Share(base, width, part, whole) == base + (AtMost(part, whole) * width) \div whole

ApplyPercent(p, op, phase) ==
    LET post == p.licenses > 0 \/ p.databases > 0
    IN  CASE phase = "ready" -> 100
          [] phase = "databases" -> Share(86, 10, op.made, p.databases)
          [] phase = "licenses" -> Share(78, 6, op.licensed, p.licenses)
          [] phase = SettleStep(p) -> IF post THEN 55 ELSE 80
          [] phase = "create" /\ "plan" \in op.marks ->
                Share(25, IF post THEN 28 ELSE IF p.gke THEN 40 ELSE 65, op.done, p.resources)
          [] phase = "create" /\ "plan" \notin op.marks -> 25
          [] phase = "queued" -> 2
          [] phase = "init" -> 8
          [] phase = "plan" -> 15
          [] phase = "operator" -> 70
          [] OTHER -> 5

DestroyPercent(p, op, phase) ==
    CASE phase = "destroyed" -> 100
      [] phase = "destroy" -> Share(20, 75, op.done, p.resources)
      [] phase = "plan" -> 15
      [] OTHER -> 5

(* Mutant: at 100 percent every section is done. *)
DatabaseSectionDone(p, op, failed, complete) ==
    CASE p.databases = 0 -> "none"
      [] p.databases > 0 /\ complete -> "done"
      [] OTHER -> "pending"

\* The section of the databases counts the lines about databases.
DatabaseSection(p, op, failed, complete) ==
    LET started == "creatingDatabases" \in op.marks \/ op.made > 0
        all == op.made >= p.databases
    IN  FirstPhase(<<
          <<p.databases = 0, "none">>,
          <<(failed /\ started) \/ (all /\ op.dbFailed), "failed">>,
          <<all \/ complete, "done">>,
          <<started, "active">>,
          <<TRUE, "pending">> >>)

ComputeProgress(p, l, st, hl) ==
    LET op == LastOperation(l)
        kind == IF st \in {"destroying", "destroyed"} THEN "destroy" ELSE op.kind
        failed == st = "failed"
        order == IF kind = "destroy" THEN DestroyOrder ELSE ApplyOrder(p)
        phase == IF kind = "destroy" THEN DestroyPhase(op, st) ELSE ApplyPhase(p, op, st, hl)
        percent == IF kind = "destroy" THEN DestroyPercent(p, op, phase) ELSE ApplyPercent(p, op, phase)
    IN  [operation |-> kind,
         phase |-> phase,
         percent |-> IF failed THEN AtMost(percent, 95) ELSE percent,
         databases |-> DatabaseSection(p, op, failed, percent = 100),
         steps |-> [k \in DOMAIN order |->
                      StepState(order, phase, failed \/ (kind = "apply" /\ st = "degraded"), k)]]

Shown == ComputeProgress(plan, oplog, standing, lastHealth)

-----------------------------------------------------------------------------
(* The jobs, the watcher and the requests, as far as the log, the status   *)
(* and the health go.                                                      *)

Text(update(_)) == oplog' = Front(oplog) \o <<update(Last(oplog))>>

Mark(m) == Text(LAMBDA op : [op EXCEPT !.marks = @ \cup {m}])

Marked(m) == m \in Last(oplog).marks

Asked ==
    /\ requests < MaxRequests[plan]
    /\ requests' = requests + 1

Running == doing \in {"apply", "destroy"}

Request(kind, hl) == [kind |-> kind, health |-> hl]

\* A write that is not of the job.
Aside == disturbed' = (disturbed \/ Running \/ standing = "failed")

\* The answers of the cluster: a ready one takes the addresses that an apply
\* has put out; a deployment without a cluster is always ready.
Answers ==
    (IF plan.redis THEN {"forming"} ELSE {})
    \cup (IF plan.redis /\ \A k \in DOMAIN oplog : "applied" \notin oplog[k].marks THEN {} ELSE {"ready"})

\* Retry and delete: neither looks at the status, and neither changes it.
JobStarts(kind) ==
    /\ doing = "idle"
    /\ doing' = IF kind = "apply" THEN "applyQueued" ELSE "destroyQueued"
    /\ Asked
    /\ UNCHANGED <<plan, oplog, standing, lastHealth, at, asked, disturbed>>

\* A health call, and a recreate or a create over a destroyed record, which
\* the other calls may overtake.
RequestBegins(kind) ==
    /\ CASE kind = "health" -> standing \notin {"destroyed", "destroying"}
         [] kind = "recreate" -> standing = "destroyed" /\ doing = "idle"
         [] kind = "create" -> standing = "destroyed"
    /\ asked' = asked \cup {Request(kind, IF kind = "recreate" THEN lastHealth ELSE "none")}
    /\ Asked
    /\ UNCHANGED <<plan, oplog, standing, lastHealth, doing, at, disturbed>>

RequestAnswered(r) == r \in asked /\ asked' = asked \ {r}

StatusProbed(answer) ==
    IF answer = "ready" THEN "ready" ELSE IF standing \in {"ready", "degraded"} THEN "bootstrapping" ELSE standing

HealthAnswered(answer) ==
    /\ RequestAnswered(Request("health", "none"))
    /\ lastHealth' = answer
    /\ standing' = StatusProbed(answer)
    /\ at' = IF standing' = "bootstrapping" /\ at["watcher"] = "none" THEN [at EXCEPT !["watcher"] = "sleeping"] ELSE at
    /\ disturbed' = (disturbed \/ (Running /\ answer = "ready"))
    /\ UNCHANGED <<plan, oplog, doing, requests>>

\* The record of the beginning is written back, or a new one; then the job
\* starts, unless there is one.
RecordWritten(r) ==
    /\ r.kind \in {"recreate", "create"}
    /\ RequestAnswered(r)
    /\ lastHealth' = r.health
    /\ standing' = IF r.kind = "recreate" THEN "destroyed" ELSE "pending"
    /\ doing' = IF doing = "idle" THEN "applyQueued" ELSE doing
    /\ Aside
    /\ UNCHANGED <<plan, oplog, at, requests>>

\* With the START marker of an apply comes its first line, the command terraform
\* init.
JobBegins ==
    /\ doing \in {"applyQueued", "destroyQueued"}
    /\ doing' = IF doing = "applyQueued" THEN "apply" ELSE "destroy"
    /\ standing' = IF doing = "applyQueued" THEN "applying" ELSE "destroying"
    /\ oplog' = Append(oplog, [NewOperation(doing') EXCEPT !.marks = IF doing' = "apply" THEN {"init"} ELSE {}])
    /\ disturbed' = FALSE
    /\ UNCHANGED <<plan, lastHealth, at, asked, requests>>

\* What terraform says of an apply, in its order; there may be nothing to do.
TerraformSays(m) ==
    /\ doing = "apply"
    /\ CASE m = "plan" -> ~Marked("plan")
         [] m = "creating" -> Marked("plan") /\ ~Marked("creating") /\ ~Marked("applied")
         [] m = "operator" -> plan.gke /\ Marked("creating") /\ ~Marked("operator") /\ ~Marked("applied")
         [] m = "rec" -> plan.gke /\ Marked("operator") /\ ~Marked("rec") /\ ~Marked("applied")
         [] m = "applied" -> Marked("plan") /\ (Marked("creating") => Last(oplog).done = plan.resources) /\ ~Marked("applied")
         [] OTHER -> FALSE
    /\ Mark(m)
    /\ UNCHANGED <<plan, standing, lastHealth, doing, at, asked, disturbed, requests>>

ResourceDone ==
    /\ \/ doing = "apply" /\ Marked("creating") /\ ~Marked("applied")
       \/ doing = "destroy" /\ Marked("destroying")
    /\ Last(oplog).done < plan.resources
    /\ Text(LAMBDA op : [op EXCEPT !.done = @ + 1])
    /\ UNCHANGED <<plan, standing, lastHealth, doing, at, asked, disturbed, requests>>

\* Outputs are collected, which writes back the record of when terraform ended:
\* a health that came meanwhile is lost.  A cluster is waited for, an
\* application is not.
ApplySettles ==
    /\ doing = "apply" /\ Marked("applied")
    /\ standing' = IF plan.redis THEN "bootstrapping" ELSE "ready"
    /\ lastHealth' \in {lastHealth} \cup (IF disturbed THEN {"none", "forming", "ready"} ELSE {})
    /\ doing' = "idle"
    /\ at' = IF plan.redis /\ at["watcher"] = "none" THEN [at EXCEPT !["watcher"] = "sleeping"] ELSE at
    /\ UNCHANGED <<plan, oplog, asked, disturbed, requests>>

\* A command fails.
JobFailsInLog ==
    /\ doing = "apply" \/ (doing = "destroy" /\ ~Marked("summary"))
    /\ doing' = "idle"
    /\ standing' = "failed"
    /\ UNCHANGED <<plan, oplog, lastHealth, at, asked, disturbed, requests>>

DestroySays(m) ==
    /\ doing = "destroy"
    /\ CASE m = "plan" -> ~Marked("plan")
         [] m = "destroying" -> Marked("plan") /\ ~Marked("destroying") /\ ~Marked("summary")
         [] m = "summary" -> Marked("plan") /\ (Marked("destroying") => Last(oplog).done = plan.resources) /\ ~Marked("summary")
         [] OTHER -> FALSE
    /\ Mark(m)
    /\ UNCHANGED <<plan, standing, lastHealth, doing, at, asked, disturbed, requests>>

\* Terraform has nothing to say where it has never run.
DestroyEnds ==
    /\ doing = "destroy"
    /\ Marked("summary") \/ \A k \in DOMAIN oplog : oplog[k].kind = "destroy"
    /\ doing' = "idle"
    /\ standing' = "destroyed"
    /\ UNCHANGED <<plan, oplog, lastHealth, at, asked, disturbed, requests>>

\* The watcher looks at the record, and asks the cluster or leaves.
WatcherLooks ==
    /\ at["watcher"] = "sleeping"
    /\ at' = [at EXCEPT !["watcher"] =
                IF standing \in {"destroying", "destroyed", "applying", "failed"} THEN "none" ELSE "probing"]
    /\ UNCHANGED <<plan, oplog, standing, lastHealth, doing, asked, disturbed, requests>>

\* The answer is written whatever the status has become.
WatcherAnswered(answer) ==
    /\ at["watcher"] = "probing"
    /\ lastHealth' = answer
    /\ standing' = IF standing = "ready" THEN "ready" ELSE "bootstrapping"
    /\ IF answer = "ready" /\ standing # "ready" THEN Mark("clusterReady") ELSE UNCHANGED oplog
    /\ at' = [at EXCEPT !["watcher"] = IF answer # "ready" THEN "sleeping" ELSE IF standing = "ready" THEN "none" ELSE "licenses"]
    /\ Aside
    /\ UNCHANGED <<plan, doing, asked, requests>>

WatcherGivesUp ==
    /\ at["watcher"] = "sleeping"
    /\ at' = [at EXCEPT !["watcher"] = "none"]
    /\ standing' = IF standing = "bootstrapping" THEN "degraded" ELSE standing
    /\ IF standing' = standing THEN UNCHANGED disturbed ELSE Aside
    /\ UNCHANGED <<plan, oplog, lastHealth, doing, asked, requests>>

ReconcileBegins ==
    /\ at["reconcile"] = "none"
    /\ standing \in {"ready", "degraded", "bootstrapping"}
    /\ at' = [at EXCEPT !["reconcile"] = "licenses"]
    /\ Asked
    /\ UNCHANGED <<plan, oplog, standing, lastHealth, doing, asked, disturbed>>

\* provisionClusterResources, of the watcher or of a reconcile: a heading, the
\* calls, and then all the lines at once, or a line about an error.
LicensesBegin(a) ==
    /\ at[a] = "licenses"
    /\ IF plan.licenses > 0 THEN at' = [at EXCEPT ![a] = "licensing"] /\ Mark("licensing") /\ Aside
                            ELSE at' = [at EXCEPT ![a] = "licensed"] /\ UNCHANGED <<oplog, disturbed>>
    /\ UNCHANGED <<plan, standing, lastHealth, doing, asked, requests>>

LicensesAnswered(a, n) ==
    /\ at[a] = "licensing"
    /\ Text(LAMBDA op : [op EXCEPT !.licensed = AtMost(@ + n, plan.licenses)])
    /\ at' = [at EXCEPT ![a] = "licensed"]
    /\ Aside
    /\ UNCHANGED <<plan, standing, lastHealth, doing, asked, requests>>

\* A reconcile is over when there are no more databases to ask for.
Provisioned(a) == IF a = "watcher" THEN "provisioned" ELSE "none"

DatabasesBegin(a) ==
    /\ at[a] = "licensed"
    /\ IF plan.databases > 0 THEN at' = [at EXCEPT ![a] = "creating"] /\ Mark("creatingDatabases") /\ Aside
                             ELSE at' = [at EXCEPT ![a] = Provisioned(a)] /\ UNCHANGED <<oplog, disturbed>>
    /\ UNCHANGED <<plan, standing, lastHealth, doing, asked, requests>>

DatabasesAnswered(a, n, failed) ==
    /\ at[a] = "creating"
    /\ n = 0 => ~failed
    /\ Text(LAMBDA op : [op EXCEPT !.made = AtMost(@ + n, plan.databases), !.dbFailed = @ \/ failed])
    /\ at' = [at EXCEPT ![a] = Provisioned(a)]
    /\ Aside
    /\ UNCHANGED <<plan, standing, lastHealth, doing, asked, requests>>

ResourcesCompleteMark ==
    /\ at["watcher"] = "provisioned"
    /\ Mark("resourcesComplete")
    /\ at' = [at EXCEPT !["watcher"] = "complete"]
    /\ Aside
    /\ UNCHANGED <<plan, standing, lastHealth, doing, asked, requests>>

WatcherEnds ==
    /\ at["watcher"] = "complete"
    /\ at' = [at EXCEPT !["watcher"] = "none"]
    /\ standing' = IF standing \in {"destroying", "destroyed", "failed"} THEN standing ELSE "ready"
    /\ Aside
    /\ UNCHANGED <<plan, oplog, lastHealth, doing, asked, requests>>

ServerRestarts ==
    /\ doing' = IF standing = "destroying" THEN "destroyQueued" ELSE "idle"
    /\ standing' = IF standing = "applying" THEN "failed" ELSE standing
    /\ at' = [a \in {"watcher", "reconcile"} |-> IF a = "watcher" /\ standing = "bootstrapping" THEN "sleeping" ELSE "none"]
    /\ asked' = {}
    /\ Asked
    /\ UNCHANGED <<plan, oplog, lastHealth, disturbed>>

-----------------------------------------------------------------------------

ProgressInit ==
    /\ plan \in Plans
    /\ oplog = <<>>
    /\ standing = "pending"
    /\ lastHealth = "none"
    /\ doing = "idle"
    /\ at = [a \in {"watcher", "reconcile"} |-> "none"]
    /\ asked = {}
    /\ requests = 0
    /\ disturbed = FALSE

ProgressNext ==
    \/ \E kind \in {"apply", "destroy"} : JobStarts(kind)
    \/ \E kind \in {"health", "recreate", "create"} : RequestBegins(kind)
    \/ \E answer \in Answers : HealthAnswered(answer) \/ WatcherAnswered(answer)
    \/ \E r \in asked : RecordWritten(r)
    \/ JobBegins
    \/ \E m \in Marks : TerraformSays(m) \/ DestroySays(m)
    \/ ResourceDone \/ ApplySettles \/ JobFailsInLog \/ DestroyEnds
    \/ WatcherLooks \/ WatcherGivesUp \/ ReconcileBegins
    \/ \E a \in {"watcher", "reconcile"} :
          \/ LicensesBegin(a) \/ \E n \in {0, plan.licenses} : LicensesAnswered(a, n)
          \/ DatabasesBegin(a) \/ \E n \in {0, plan.databases}, failed \in BOOLEAN : DatabasesAnswered(a, n, failed)
    \/ ResourcesCompleteMark \/ WatcherEnds
    \/ ServerRestarts

ProgressSpec == ProgressInit /\ [][ProgressNext]_progressVars

-----------------------------------------------------------------------------

\* Nothing of an earlier operation shows in the present one: a job that has
\* written its START marker is at 100 percent only when it has ended, however
\* many applies and destroys the log holds.  Not when something else has
\* written over the job: a health call that is answered ready makes the
\* instance ready while its retry runs, the watcher of an earlier apply writes
\* its marks below the new START.
RunningIsNotFull ==
    Running /\ ~disturbed =>
        /\ Shown.operation = doing
        /\ Shown.percent = 100 => doing = "destroy" /\ Marked("summary")

\* An instance that has failed, by its job or by a restart, shows on one step
\* where it stopped, and never a full bar, whatever health calls answer; a full
\* bar does not hide a database that failed.  Not when a watcher or a
\* reconcile writes below the failure, nor when only applications are
\* deployed and terraform has succeeded: bootstrap, the phase then, is none of
\* the steps.
FailuresStayShown ==
    /\ standing = "failed" /\ ~disturbed /\ (plan.redis \/ "applied" \notin Last(oplog).marks) =>
          LET steps == Shown.steps
          IN  /\ Shown.percent <= 95
              /\ \E k \in DOMAIN steps :
                    /\ steps[k] = "failed"
                    /\ \A j \in DOMAIN steps : j < k => steps[j] = "done"
    /\ oplog # <<>> /\ Last(oplog).dbFailed => Shown.databases = "failed" \/ Shown.percent < 100

\* The health probe takes back that the cluster is ready.
TakenBack ==
    \/ lastHealth = "ready" /\ lastHealth' # "ready"
    \/ standing = "ready" /\ standing' = "bootstrapping"

\* The record of a destroyed instance is put in place of another, or written over.
TakenUpAgain ==
    \/ standing = "destroyed" /\ standing' # "destroyed"
    \/ standing # "pending" /\ standing' = "pending"

\* What is shown after a step: Shown', in a form that TLC evaluates once.
ShownAfter == ComputeProgress(plan', oplog', standing', lastHealth')

\* A step that is done stays done while its operation goes on, although the
\* phase is guessed from the log, the status and the health, which jobs,
\* watchers, reconciles, health calls and restarts change apart.  Not when
\* something else has written over the job, when a probe takes back that the
\* cluster is ready, or when the record is taken up again.
StepsStayDone ==
    [][/\ plan.redis
       /\ Len(oplog') = Len(oplog)
       /\ ShownAfter.operation = Shown.operation
       /\ ~disturbed' /\ ~TakenBack /\ ~TakenUpAgain
       => LET before == Shown.steps  after == ShownAfter.steps
          IN  \A k \in DOMAIN before : before[k] = "done" => after[k] = "done"]_progressVars

=============================================================================
