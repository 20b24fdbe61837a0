---------------------------- MODULE Provisioning ----------------------------
(***************************************************************************)
(* Setting up the clusters of one instance over their REST API: licenses   *)
(* first, then the databases of the configuration.  The same function,     *)
(* provisionClusterResources, is run by the bootstrap watcher and by every *)
(* call of /databases/reconcile, and nothing keeps two runs apart.  A run  *)
(* reads the record once; each of its REST calls takes up to 15 seconds    *)
(* and may be refused, lost, or answered too late.                         *)
(*                                                                         *)
(* A step is the JavaScript between two REST calls.  The registry is the   *)
(* file, whose reads and writes let nothing else in.                       *)
(***************************************************************************)
EXTENDS Integers, Sequences, FiniteSets

CONSTANTS
    NumClusters,    \* clusters of the instance
    Names,          \* names of databases
    Licensed,       \* clusters with a license in the configuration
    TrialLimit,     \* databases a cluster takes without one
    Watcher,        \* the bootstrap watcher
    Requests,       \* reconcile requests
    Initial,        \* configurations the instance may be created with
    Edits,          \* what a reconcile may send: sequences of rows
    NoRecord,       \* the instance is not in the registry
    MaxRestarts,    \* bound on restarts of the server
    MaxFaults       \* bound on calls that fail or are not answered

Clusters == 1..NumClusters
Runs == Requests \cup {Watcher}
Configs == [Clusters -> SUBSET Names]
Unknown == NumClusters + 1

\* A row of a reconcile: 0 for no name, a cluster's number for its name,
\* Unknown for a name that no cluster has.
Rows == [name : 0..Unknown, databases : SUBSET Names]

ASSUME ProvisioningAssumption ==
    /\ NumClusters \in Nat \ {0}
    /\ Licensed \subseteq Clusters
    /\ TrialLimit \in Nat
    /\ Watcher \notin Requests
    /\ Initial \subseteq Configs
    /\ Edits \subseteq Seq(Rows)
    /\ MaxRestarts \in Nat
    /\ MaxFaults \in Nat
    /\ IsFiniteSet(Names)

Statuses == {"bootstrapping", "ready", "degraded", "destroying", "destroyed", "failed"}
LicenseStates == Clusters \X {"applied", "failed"}
\* "trial" is a failure whose error speaks of the trial license.
DatabaseStates == Clusters \X Names \X {"active", "failed", "trial"}

Records == [status : Statuses, config : Configs, endpoint : BOOLEAN,
            licenseStates : SUBSET LicenseStates,
            databaseStates : SUBSET DatabaseStates]

ASSUME NoRecordAssumption == NoRecord \notin Records

VARIABLES
    record,     \* the instance in the registry
    cloud,      \* what is in GCP: [up, licensed, databases]
    run,        \* the runs of provisionClusterResources
    smooth,     \* history: no call of this run failed and no other run overlapped
    restarts,
    faults

vars == <<record, cloud, run, smooth, restarts, faults>>

-----------------------------------------------------------------------------
(* Runs.                                                                   *)

Idle == [pc |-> "idle", seen |-> [c \in Clusters |-> {}], endpoint |-> FALSE,
         cluster |-> 1, todo |-> {}, licenses |-> {}, databases |-> {}]

RunRecords == [pc : {"idle", "license", "list", "post"}, seen : Configs,
               endpoint : BOOLEAN, cluster : Clusters, todo : SUBSET Names,
               licenses : SUBSET LicenseStates, databases : SUBSET DatabaseStates]

Running(p) == run[p].pc # "idle"

\* The clusters of a configuration that have databases.
WithDatabases(config) == {c \in Clusters : config[c] # {}}

(* Mutant: the next cluster, with databases or not, and one past the last. *)
LaterByOne(S, c) == IF c <= NumClusters THEN {c + 1} ELSE {}

Later(S, c) == {d \in S : d > c}
First(S) == CHOOSE c \in S : \A d \in S : c <= d

\* A run about to list the databases of cluster c.
AtCluster(r, c) == [r EXCEPT !.pc = "list", !.cluster = c, !.todo = {}]

\* provisionClusterResources after its read of the record.
Started(config, endpoint) ==
    LET r == [Idle EXCEPT !.seen = config, !.endpoint = endpoint]
    IN  IF Licensed # {} THEN [r EXCEPT !.pc = "license", !.cluster = First(Licensed)]
        ELSE IF WithDatabases(config) # {} THEN AtCluster(r, First(WithDatabases(config)))
        ELSE r

(* Mutant: ready only if every license was accepted. *)
MarkReadyStrict(p, rec) ==
    IF /\ p = Watcher /\ rec # NoRecord
       /\ rec.status \notin {"destroying", "destroyed", "failed"}
       /\ \A s \in rec.licenseStates : s[2] = "applied"
    THEN [rec EXCEPT !.status = "ready"]
    ELSE rec

\* The watcher's last write, once its run is over.
MarkReady(p, rec) ==
    IF p = Watcher /\ rec # NoRecord /\ rec.status \notin {"destroying", "destroyed", "failed"}
    THEN [rec EXCEPT !.status = "ready"]
    ELSE rec

\* The write-backs read the record again and replace one field of it.
WithLicenseStates(rec, states) ==
    IF rec = NoRecord THEN rec ELSE [rec EXCEPT !.licenseStates = states]

WithDatabaseStates(rec, states) ==
    IF rec = NoRecord THEN rec ELSE [rec EXCEPT !.databaseStates = states]

\* A run starts on a record: nothing to do ends it at once.
Begin(p, rec) ==
    LET r == Started(rec.config, rec.endpoint)
    IN  /\ run' = [run EXCEPT ![p] = r]
        /\ record' = IF r.pc = "idle" THEN MarkReady(p, rec) ELSE rec
        /\ smooth' = [q \in Runs |->
              IF q = p THEN \A o \in Runs \ {p} : ~Running(o)
              ELSE smooth[q] /\ ~Running(q)]

\* Licenses: r is the run after the call on its cluster.
LicenseDone(p, r) ==
    IF Later(Licensed, r.cluster) # {}
    THEN /\ run' = [run EXCEPT ![p] = [r EXCEPT !.cluster = First(Later(Licensed, r.cluster))]]
         /\ UNCHANGED record
    ELSE IF WithDatabases(r.seen) # {}
    THEN /\ run' = [run EXCEPT ![p] = AtCluster(r, First(WithDatabases(r.seen)))]
         /\ record' = WithLicenseStates(record, r.licenses)
    ELSE /\ run' = [run EXCEPT ![p] = Idle]
         /\ record' = MarkReady(p, WithLicenseStates(record, r.licenses))

(* Mutant: the write-back keeps the configuration the run read. *)
DatabasesDoneStale(p, r) ==
    IF r.todo # {}
    THEN /\ run' = [run EXCEPT ![p] = r]
         /\ UNCHANGED record
    ELSE IF Later(WithDatabases(r.seen), r.cluster) # {}
    THEN /\ run' = [run EXCEPT ![p] = AtCluster(r, First(Later(WithDatabases(r.seen), r.cluster)))]
         /\ UNCHANGED record
    ELSE /\ run' = [run EXCEPT ![p] = Idle]
         /\ record' = MarkReady(p, IF record = NoRecord THEN record
               ELSE [record EXCEPT !.databaseStates = r.databases, !.config = r.seen])

(* Mutant: the loop over the clusters returns after the first one. *)
DatabasesDoneEarly(p, r) ==
    IF r.todo # {}
    THEN /\ run' = [run EXCEPT ![p] = r]
         /\ UNCHANGED record
    ELSE /\ run' = [run EXCEPT ![p] = Idle]
         /\ record' = MarkReady(p, WithDatabaseStates(record, r.databases))

\* Databases: r is the run after a step on its cluster.
DatabasesDone(p, r) ==
    IF r.todo # {}
    THEN /\ run' = [run EXCEPT ![p] = r]
         /\ UNCHANGED record
    ELSE IF Later(WithDatabases(r.seen), r.cluster) # {}
    THEN /\ run' = [run EXCEPT ![p] = AtCluster(r, First(Later(WithDatabases(r.seen), r.cluster)))]
         /\ UNCHANGED record
    ELSE /\ run' = [run EXCEPT ![p] = Idle]
         /\ record' = MarkReady(p, WithDatabaseStates(record, r.databases))

-----------------------------------------------------------------------------
(* The trial license.                                                      *)

\* clusterTrialShardGate, with one shard to a database.
TrialGate(c, databases) == c \notin Licensed /\ Cardinality(databases) > TrialLimit

\* What the cluster itself enforces.
OverTrial(c) == c \notin cloud.licensed /\ Cardinality(cloud.databases[c]) >= TrialLimit

\* The cluster a row of a reconcile is about; 0 if there is none.
RowTarget(rows, i) ==
    CASE rows[i].name \in Clusters -> rows[i].name
      [] rows[i].name = Unknown -> IF i <= NumClusters THEN i ELSE NumClusters
      [] OTHER -> IF i <= NumClusters THEN i ELSE 0

GateBlocks(rows) ==
    \E i \in DOMAIN rows : RowTarget(rows, i) \in Clusters /\ TrialGate(RowTarget(rows, i), rows[i].databases)

\* The rows are applied in order: the last one about a cluster counts.
Edited(config, rows) ==
    [c \in Clusters |->
        LET hits == {i \in DOMAIN rows : RowTarget(rows, i) = c}
        IN  IF hits = {} THEN config[c]
            ELSE rows[CHOOSE i \in hits : \A j \in hits : j <= i].databases]

-----------------------------------------------------------------------------
(* Who starts a run.                                                       *)

\* The watcher's probe says ready, and the record did not say so yet.  (What
\* a probe that is overtaken by a destroy does is in InstanceLifecycle.)
WatcherSeesCluster ==
    /\ ~Running(Watcher)
    /\ record # NoRecord
    /\ record.status = "bootstrapping"
    /\ cloud.up /\ record.endpoint
    /\ Begin(Watcher, record)
    /\ UNCHANGED <<cloud, restarts, faults>>

Reconcile(p, rows) ==
    /\ ~Running(p)
    /\ record # NoRecord
    /\ record.status \in {"ready", "degraded", "bootstrapping"}
    /\ ~GateBlocks(rows)
    /\ Begin(p, [record EXCEPT !.config = Edited(record.config, rows)])
    /\ UNCHANGED <<cloud, restarts, faults>>

-----------------------------------------------------------------------------
(* The REST calls.  "effect": the cluster did what was asked.  "answered":  *)
(* the caller learned of it before its timeout.                            *)

Reachable(p) == cloud.up /\ run[p].endpoint

\* History: did the call go well, and if not, could it have?
Went(p, well, possible) ==
    LET fault == possible /\ ~well
    IN  /\ fault => faults < MaxFaults
        /\ faults' = IF fault THEN faults + 1 ELSE faults
        /\ smooth' = [smooth EXCEPT ![p] = @ /\ well]

(* Mutant: the license goes to the wrong one of the clusters. *)
PutLicenseAstray(p) ==
    /\ run[p].pc = "license"
    /\ LET c == run[p].cluster
       IN  \E effect, answered \in BOOLEAN :
           /\ effect => Reachable(p)
           /\ answered => effect
           /\ cloud' = IF effect THEN [cloud EXCEPT !.licensed = @ \cup {NumClusters}] ELSE cloud
           /\ Went(p, answered, Reachable(p))
           /\ LicenseDone(p, [run[p] EXCEPT !.licenses =
                 @ \cup {<<c, IF answered THEN "applied" ELSE "failed">>}])
    /\ UNCHANGED restarts

PutLicense(p) ==
    /\ run[p].pc = "license"
    /\ LET c == run[p].cluster
       IN  \E effect, answered \in BOOLEAN :
           /\ effect => Reachable(p)
           /\ answered => effect
           /\ cloud' = IF effect THEN [cloud EXCEPT !.licensed = @ \cup {c}] ELSE cloud
           /\ Went(p, answered, Reachable(p))
           /\ LicenseDone(p, [run[p] EXCEPT !.licenses =
                 @ \cup {<<c, IF answered THEN "applied" ELSE "failed">>}])
    /\ UNCHANGED restarts

\* The list of what is there; a list that does not come counts as empty.
ListDatabases(p) ==
    /\ run[p].pc = "list"
    /\ LET c == run[p].cluster
           wanted == run[p].seen[c]
       IN  IF ~run[p].endpoint
           THEN /\ DatabasesDone(p, [run[p] EXCEPT !.databases =
                      @ \cup {<<c, n, "failed">> : n \in wanted}])
                /\ Went(p, FALSE, FALSE)
           ELSE \E answered \in BOOLEAN :
                /\ answered => Reachable(p)
                /\ LET existing == IF answered THEN cloud.databases[c] ELSE {}
                   IN  DatabasesDone(p, [run[p] EXCEPT
                          !.pc = "post",
                          !.todo = wanted \ existing,
                          !.databases = @ \cup {<<c, n, "active">> : n \in wanted \cap existing}])
                /\ Went(p, answered, Reachable(p))
    /\ UNCHANGED <<cloud, restarts>>

(* Mutant: any answer counts as success. *)
PostDatabaseTrusting(p) ==
    /\ run[p].pc = "post"
    /\ LET c == run[p].cluster
       IN  \E n \in run[p].todo, outcome \in {"created", "lost", "trial", "failed"} :
           LET possible == Reachable(p) /\ n \notin cloud.databases[c] /\ ~OverTrial(c)
               effect == outcome \in {"created", "lost"}
           IN  /\ effect => possible
               /\ outcome = "trial" => Reachable(p) /\ OverTrial(c)
               /\ cloud' = IF effect THEN [cloud EXCEPT !.databases[c] = @ \cup {n}] ELSE cloud
               /\ Went(p, outcome \in {"created", "trial"}, possible)
               /\ DatabasesDone(p, [run[p] EXCEPT !.todo = @ \ {n},
                                                  !.databases = @ \cup {<<c, n, "active">>}])
    /\ UNCHANGED restarts

\* One database.  A name that is there already is refused: its port is taken.
PostDatabase(p) ==
    /\ run[p].pc = "post"
    /\ LET c == run[p].cluster
       IN  \E n \in run[p].todo, outcome \in {"created", "lost", "trial", "failed"} :
           LET possible == Reachable(p) /\ n \notin cloud.databases[c] /\ ~OverTrial(c)
               effect == outcome \in {"created", "lost"}
               state == CASE outcome = "created" -> "active"
                          [] outcome = "trial" -> "trial"
                          [] OTHER -> "failed"
           IN  /\ effect => possible
               /\ outcome = "trial" => Reachable(p) /\ OverTrial(c)
               /\ cloud' = IF effect THEN [cloud EXCEPT !.databases[c] = @ \cup {n}] ELSE cloud
               /\ Went(p, outcome \in {"created", "trial"}, possible)
               /\ DatabasesDone(p, [run[p] EXCEPT !.todo = @ \ {n},
                                                  !.databases = @ \cup {<<c, n, state>>}])
    /\ UNCHANGED restarts

-----------------------------------------------------------------------------
(* The rest of the instance's life, as far as a run meets it.              *)

\* The health handler: ready, or back to waiting.
Health(ready) ==
    /\ record # NoRecord
    /\ record.status \notin {"destroying", "destroyed"}
    /\ ready => cloud.up /\ record.endpoint
    /\ record' = [record EXCEPT !.status =
          IF ready THEN "ready" ELSE IF @ \in {"ready", "degraded"} THEN "bootstrapping" ELSE @]
    /\ UNCHANGED <<cloud, run, smooth, restarts, faults>>

\* The watcher's deadline; a watcher that provisions no longer looks at it.
WatcherGivesUp ==
    /\ ~Running(Watcher)
    /\ record # NoRecord
    /\ record.status = "bootstrapping"
    /\ record' = [record EXCEPT !.status = "degraded"]
    /\ UNCHANGED <<cloud, run, smooth, restarts, faults>>

DestroyStart ==
    /\ record # NoRecord
    /\ record.status \in {"bootstrapping", "ready", "degraded", "failed"}
    /\ record' = [record EXCEPT !.status = "destroying"]
    /\ UNCHANGED <<cloud, run, smooth, restarts, faults>>

Gone == [up |-> FALSE, licensed |-> {}, databases |-> [c \in Clusters |-> {}]]

DestroyEnd(succeeds) ==
    /\ record # NoRecord
    /\ record.status = "destroying"
    /\ IF succeeds
       THEN /\ record' = [record EXCEPT !.status = "destroyed", !.endpoint = FALSE]
            /\ cloud' = Gone
       ELSE /\ record' = [record EXCEPT !.status = "failed"]
            /\ UNCHANGED cloud
    /\ UNCHANGED <<run, smooth, restarts, faults>>

Forget ==
    /\ record # NoRecord
    /\ record.status = "destroyed"
    /\ record' = NoRecord
    /\ UNCHANGED <<cloud, run, smooth, restarts, faults>>

\* A stop of the server: runs are lost, the record and the clusters are not.
Restart ==
    /\ restarts < MaxRestarts
    /\ restarts' = restarts + 1
    /\ run' = [p \in Runs |-> Idle]
    /\ smooth' = [p \in Runs |-> FALSE]
    /\ UNCHANGED <<record, cloud, faults>>

-----------------------------------------------------------------------------

Init ==
    /\ record \in [status : {"bootstrapping"}, config : Initial, endpoint : BOOLEAN,
                   licenseStates : {{}}, databaseStates : {{}}]
    /\ cloud = [Gone EXCEPT !.up = TRUE]
    /\ run = [p \in Runs |-> Idle]
    /\ smooth = [p \in Runs |-> FALSE]
    /\ restarts = 0
    /\ faults = 0

Call(p) == PutLicense(p) \/ ListDatabases(p) \/ PostDatabase(p)

Next ==
    \/ WatcherSeesCluster
    \/ \E p \in Requests, rows \in Edits : Reconcile(p, rows)
    \/ \E p \in Runs : Call(p)
    \/ \E ready \in BOOLEAN : Health(ready)
    \/ WatcherGivesUp
    \/ DestroyStart
    \/ \E succeeds \in BOOLEAN : DestroyEnd(succeeds)
    \/ Forget
    \/ Restart

Spec == Init /\ [][Next]_vars

\* A call ends: silence is cut off after the timeout.  (An answer that the
\* peer closes half way would settle nothing; that does not happen here.)
\* Nobody else has to act.
FairSpec == Spec /\ \A p \in Runs : WF_vars(Call(p))

-----------------------------------------------------------------------------
(* Properties.                                                             *)

\* Types of the variables.
TypeOK ==
    /\ record \in Records \cup {NoRecord}
    /\ cloud \in [up : BOOLEAN, licensed : SUBSET Clusters, databases : Configs]
    /\ run \in [Runs -> RunRecords]
    /\ smooth \in [Runs -> BOOLEAN]
    /\ restarts \in 0..MaxRestarts
    /\ faults \in 0..MaxFaults

\* A database the record calls active is on its cluster, whichever of the
\* runs wrote that and whatever became of the calls, until a destroy.
ActiveExists ==
    cloud.up /\ record # NoRecord =>
        \A c \in Clusters, n \in Names :
            <<c, n, "active">> \in record.databaseStates => n \in cloud.databases[c]

\* Licenses are applied before databases are created, each to its own
\* cluster: a run whose license call succeeded never sees that cluster
\* refuse a database for the trial license.
LicenseBeforeDatabases ==
    \A p \in Runs, c \in Licensed, n \in Names :
        cloud.up /\ <<c, n, "trial">> \in run[p].databases =>
            <<c, "applied">> \notin run[p].licenses

\* A run that writes back what it found undoes nothing that happened since
\* it read the record: not an edit of the configuration, not a destroy, not
\* a removal.
NothingUndone ==
    [][\A p \in Runs : Running(p) /\ Call(p) =>
          /\ record = NoRecord <=> record' = NoRecord
          /\ record # NoRecord =>
                /\ record'.config = record.config
                /\ record'.endpoint = record.endpoint
                /\ record.status \in {"destroying", "destroyed", "failed"} =>
                      record'.status = record.status]_vars

\* Safe to call again: a run that had the clusters to itself, and whose
\* calls were answered, leaves every configured database active in the record
\* and on its cluster, whatever earlier runs left behind, except what the
\* trial license does not allow.
RetryHeals ==
    [][\A p \in Runs :
          (Running(p) /\ run'[p].pc = "idle" /\ smooth'[p] /\ record' # NoRecord) =>
              \A c \in Clusters : \A n \in record'.config[c] :
                  \/ <<c, n, "active">> \in record'.databaseStates /\ n \in cloud'.databases[c]
                  \/ <<c, n, "trial">> \in record'.databaseStates /\ c \notin Licensed]_vars

\* No sequence of edits, with whatever names on its rows, gives a cluster
\* without a license more databases than the trial allows.
EditsStayInTrial ==
    [][record # NoRecord /\ record' # NoRecord =>
          \A c \in Clusters \ Licensed :
              record'.config[c] # record.config[c] =>
                  Cardinality(record'.config[c]) <= TrialLimit]_vars

\* Failures of licenses or databases do not keep an instance from ready:
\* once the watcher has seen the cluster and the server stays up, the
\* instance becomes ready unless it is destroyed.
ReadyDespiteFailures ==
    (Running(Watcher) /\ restarts = MaxRestarts) ~>
        (record = NoRecord \/ record.status \in {"ready", "destroying", "destroyed", "failed"})

=============================================================================
