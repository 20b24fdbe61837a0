------------------------- MODULE ProvisioningProofs -------------------------
(* Theorems about Provisioning, for any number of clusters, requests and   *)
(* restarts and any edits.                                                 *)
EXTENDS Provisioning, FiniteSetTheorems, WellFoundedInduction, TLAPS

-----------------------------------------------------------------------------
(* The order of clusters and of rows.                                      *)

\* A nonempty set of numbers up to n has a least and a greatest one.
LEMMA LeastExists ==
  ASSUME NEW n \in Nat, NEW S \in SUBSET (1..n), S # {}
  PROVE  \E c \in S : \A d \in S : c <= d
<1> DEFINE Upto(c) == {d \in S : d <= c}
           T == {Upto(c) : c \in S}
<1>1. IsFiniteSet(1..n)
  BY FS_Interval
<1>2. T \subseteq FiniteSubsetsOf(1..n)
  BY <1>1, FS_Subset DEF FiniteSubsetsOf
<1>3. IsWellFoundedOn(StrictSubsetOrdering(1..n), FiniteSubsetsOf(1..n))
  BY FS_StrictSubsetOrderingWellFounded
<1>4. PICK U \in T : \A V \in T : <<V, U>> \notin StrictSubsetOrdering(1..n)
  <2>1. T # {}
    OBVIOUS
  <2> HIDE DEF T
  <2> QED
    BY <1>2, <1>3, <2>1, WFMin
<1>5. PICK c \in S : U = Upto(c)
  BY <1>4
<1>6. ASSUME NEW d \in S, ~(c <= d)
      PROVE  FALSE
  <2>1. Upto(d) \subseteq Upto(c) /\ c \in Upto(c) /\ c \notin Upto(d)
    <3>1. c \in Nat /\ d \in Nat /\ d < c
      BY <1>6
    <3>2. \A e \in S : e \in Nat
      OBVIOUS
    <3>3. \A e \in S : e <= d => e <= c
      BY <3>1, <3>2
    <3>4. Upto(d) \subseteq Upto(c)
      BY <3>3
    <3>5. c <= c /\ ~(c <= d)
      BY <3>1
    <3> QED
      BY <3>4, <3>5
  <2>2. <<Upto(d), Upto(c)>> \in StrictSubsetOrdering(1..n)
    BY <2>1 DEF StrictSubsetOrdering
  <2> QED
    BY <2>2, <1>4, <1>5
<1> QED
  BY <1>6

LEMMA GreatestExists ==
  ASSUME NEW n \in Nat, NEW S \in SUBSET (1..n), S # {}
  PROVE  \E c \in S : \A d \in S : d <= c
<1> DEFINE R == {n + 1 - c : c \in S}
<1>1. R \in SUBSET (1..n) /\ R # {}
  OBVIOUS
<1>2. PICK r \in R : \A q \in R : r <= q
  BY <1>1, LeastExists
<1>3. PICK c \in S : r = n + 1 - c
  BY <1>2
<1>4. \A d \in S : d <= c
  <2> TAKE d \in S
  <2>1. n + 1 - c <= n + 1 - d
    BY <1>2, <1>3
  <2> QED
    BY <2>1
<1> QED
  BY <1>4

LEMMA FirstIsLeast ==
  ASSUME NEW S \in SUBSET Clusters, S # {}
  PROVE  First(S) \in S /\ \A d \in S : First(S) <= d
BY LeastExists, ProvisioningAssumption DEF First, Clusters

LEMMA LaterClusters ==
  ASSUME NEW S \in SUBSET Clusters, NEW c
  PROVE  Later(S, c) \in SUBSET Clusters /\ Later(S, c) \subseteq S
BY DEF Later

-----------------------------------------------------------------------------
(* Types.                                                                  *)

LEMMA StartedType ==
  ASSUME NEW config \in Configs, NEW endpoint \in BOOLEAN
  PROVE  Started(config, endpoint) \in RunRecords
<1>1. Idle \in RunRecords /\ Idle.cluster = 1
  BY ProvisioningAssumption DEF Idle, RunRecords, Configs, Clusters
<1>2. WithDatabases(config) \in SUBSET Clusters
  BY DEF WithDatabases
<1>3. Licensed # {} => First(Licensed) \in Clusters
  BY FirstIsLeast, ProvisioningAssumption
<1>4. WithDatabases(config) # {} => First(WithDatabases(config)) \in Clusters
  BY <1>2, FirstIsLeast
<1> QED
  BY <1>1, <1>3, <1>4 DEF Started, AtCluster, RunRecords

LEMMA MarkReadyType ==
  ASSUME NEW p, NEW rec \in Records \cup {NoRecord}
  PROVE  /\ MarkReady(p, rec) \in Records \cup {NoRecord}
         /\ rec \in Records => MarkReady(p, rec) \in Records
         /\ rec = NoRecord => MarkReady(p, rec) = NoRecord
BY NoRecordAssumption DEF MarkReady, Records, Statuses

LEMMA WriteBackType ==
  ASSUME NEW rec \in Records \cup {NoRecord},
         NEW l \in SUBSET LicenseStates, NEW d \in SUBSET DatabaseStates
  PROVE  /\ WithLicenseStates(rec, l) \in Records \cup {NoRecord}
         /\ WithDatabaseStates(rec, d) \in Records \cup {NoRecord}
BY DEF WithLicenseStates, WithDatabaseStates, Records

LEMMA BeginType ==
  ASSUME TypeOK, NEW p \in Runs, NEW rec \in Records, Begin(p, rec)
  PROVE  /\ run' \in [Runs -> RunRecords]
         /\ record' \in Records \cup {NoRecord}
         /\ smooth' \in [Runs -> BOOLEAN]
<1>1. rec.config \in Configs /\ rec.endpoint \in BOOLEAN
  BY DEF Records
<1>2. Started(rec.config, rec.endpoint) \in RunRecords
  BY <1>1, StartedType
<1>3. MarkReady(p, rec) \in Records
  BY MarkReadyType
<1> QED
  BY <1>2, <1>3 DEF Begin, TypeOK, Running

LEMMA LicenseDoneType ==
  ASSUME TypeOK, NEW p \in Runs, NEW r \in RunRecords, LicenseDone(p, r)
  PROVE  /\ run' \in [Runs -> RunRecords]
         /\ record' \in Records \cup {NoRecord}
<1> DEFINE L == Later(Licensed, r.cluster)
           D == WithDatabases(r.seen)
<1>1. Idle \in RunRecords
  BY ProvisioningAssumption DEF Idle, RunRecords, Configs, Clusters
<1>2. L # {} => First(L) \in Clusters
  BY LaterClusters, FirstIsLeast, ProvisioningAssumption
<1>3. D # {} => First(D) \in Clusters
  BY FirstIsLeast DEF WithDatabases
<1>4. L # {} => [r EXCEPT !.cluster = First(L)] \in RunRecords
  BY <1>2 DEF RunRecords
<1>5. D # {} => AtCluster(r, First(D)) \in RunRecords
  BY <1>3 DEF RunRecords, AtCluster
<1>6. r.licenses \in SUBSET LicenseStates
  BY DEF RunRecords
<1>7. WithLicenseStates(record, r.licenses) \in Records \cup {NoRecord}
  BY <1>6, WriteBackType DEF TypeOK
<1>8. MarkReady(p, WithLicenseStates(record, r.licenses)) \in Records \cup {NoRecord}
  BY <1>7, MarkReadyType
<1> QED
  BY <1>1, <1>4, <1>5, <1>7, <1>8 DEF LicenseDone, TypeOK

LEMMA DatabasesDoneType ==
  ASSUME TypeOK, NEW p \in Runs, NEW r \in RunRecords, DatabasesDone(p, r)
  PROVE  /\ run' \in [Runs -> RunRecords]
         /\ record' \in Records \cup {NoRecord}
<1> DEFINE D == Later(WithDatabases(r.seen), r.cluster)
<1>1. Idle \in RunRecords
  BY ProvisioningAssumption DEF Idle, RunRecords, Configs, Clusters
<1>2. WithDatabases(r.seen) \in SUBSET Clusters
  BY DEF WithDatabases
<1>3. D # {} => First(D) \in Clusters
  BY <1>2, LaterClusters, FirstIsLeast
<1>4. D # {} => AtCluster(r, First(D)) \in RunRecords
  BY <1>3 DEF RunRecords, AtCluster
<1>5. r.databases \in SUBSET DatabaseStates
  BY DEF RunRecords
<1>6. WithDatabaseStates(record, r.databases) \in Records \cup {NoRecord}
  BY <1>5, WriteBackType DEF TypeOK
<1>7. MarkReady(p, WithDatabaseStates(record, r.databases)) \in Records \cup {NoRecord}
  BY <1>6, MarkReadyType
<1> QED
  BY <1>1, <1>4, <1>7 DEF DatabasesDone, TypeOK

LEMMA GoneType ==
  Gone \in [up : BOOLEAN, licensed : SUBSET Clusters, databases : Configs]
BY DEF Gone, Configs

LEMMA PutLicenseType ==
  ASSUME TypeOK, NEW p \in Runs, PutLicense(p)
  PROVE  TypeOK'
<1> DEFINE c == run[p].cluster
<1>1. run[p] \in RunRecords /\ c \in Clusters
  BY DEF TypeOK, RunRecords
<1>2. PICK effect \in BOOLEAN, answered \in BOOLEAN :
        /\ cloud' = IF effect THEN [cloud EXCEPT !.licensed = @ \cup {c}] ELSE cloud
        /\ Went(p, answered, Reachable(p))
        /\ LicenseDone(p, [run[p] EXCEPT !.licenses =
              @ \cup {<<c, IF answered THEN "applied" ELSE "failed">>}])
  BY DEF PutLicense
<1> DEFINE r == [run[p] EXCEPT !.licenses =
                   @ \cup {<<c, IF answered THEN "applied" ELSE "failed">>}]
<1>3. r \in RunRecords
  BY <1>1 DEF RunRecords, LicenseStates
<1>4. run' \in [Runs -> RunRecords] /\ record' \in Records \cup {NoRecord}
  BY <1>2, <1>3, LicenseDoneType
<1>5. cloud' \in [up : BOOLEAN, licensed : SUBSET Clusters, databases : Configs]
  BY <1>1, <1>2 DEF TypeOK
<1>6. smooth' \in [Runs -> BOOLEAN] /\ faults' \in 0..MaxFaults
  BY <1>2, ProvisioningAssumption DEF Went, TypeOK, Reachable
<1>7. restarts' \in 0..MaxRestarts
  BY DEF PutLicense, TypeOK
<1> QED
  BY <1>4, <1>5, <1>6, <1>7 DEF TypeOK

LEMMA ListDatabasesType ==
  ASSUME TypeOK, NEW p \in Runs, ListDatabases(p)
  PROVE  TypeOK'
<1> DEFINE c == run[p].cluster
           wanted == run[p].seen[c]
<1>1. run[p] \in RunRecords /\ c \in Clusters /\ wanted \in SUBSET Names
  BY DEF TypeOK, RunRecords, Configs
<1>2. restarts' \in 0..MaxRestarts
  BY DEF ListDatabases, TypeOK
<1>3. cloud' = cloud
  BY DEF ListDatabases
<1>4. CASE ~run[p].endpoint
  <2> DEFINE r == [run[p] EXCEPT !.databases = @ \cup {<<c, n, "failed">> : n \in wanted}]
  <2>1. DatabasesDone(p, r) /\ Went(p, FALSE, FALSE)
    BY <1>4 DEF ListDatabases
  <2>2. {<<c, n, "failed">> : n \in wanted} \subseteq DatabaseStates
    BY <1>1 DEF DatabaseStates
  <2>3. r \in RunRecords
    BY <1>1, <2>2 DEF RunRecords
  <2>4. run' \in [Runs -> RunRecords] /\ record' \in Records \cup {NoRecord}
    BY <2>1, <2>3, DatabasesDoneType
  <2>5. smooth' \in [Runs -> BOOLEAN] /\ faults' \in 0..MaxFaults
    BY <2>1, ProvisioningAssumption DEF Went, TypeOK
  <2> QED
    BY <1>2, <1>3, <2>4, <2>5 DEF TypeOK
<1>5. CASE run[p].endpoint
  <2>1. PICK answered \in BOOLEAN :
          LET existing == IF answered THEN cloud.databases[c] ELSE {}
          IN  /\ DatabasesDone(p, [run[p] EXCEPT
                    !.pc = "post",
                    !.todo = wanted \ existing,
                    !.databases = @ \cup {<<c, n, "active">> : n \in wanted \cap existing}])
              /\ Went(p, answered, Reachable(p))
    BY <1>5 DEF ListDatabases
  <2> DEFINE existing == IF answered THEN cloud.databases[c] ELSE {}
             new == {<<c, n, "active">> : n \in wanted \cap existing}
             r == [run[p] EXCEPT !.pc = "post", !.todo = wanted \ existing, !.databases = @ \cup new]
  <2>2. new \subseteq DatabaseStates
    BY <1>1 DEF DatabaseStates
  <2>3. r \in RunRecords
    <3> HIDE DEF new, existing
    <3> QED
      BY <1>1, <2>2 DEF RunRecords
  <2>4. run' \in [Runs -> RunRecords] /\ record' \in Records \cup {NoRecord}
    BY <2>1, <2>3, DatabasesDoneType
  <2>5. smooth' \in [Runs -> BOOLEAN] /\ faults' \in 0..MaxFaults
    BY <2>1, ProvisioningAssumption DEF Went, TypeOK, Reachable
  <2> QED
    BY <1>2, <1>3, <2>4, <2>5 DEF TypeOK
<1> QED
  BY <1>1, <1>4, <1>5 DEF RunRecords

LEMMA PostDatabaseType ==
  ASSUME TypeOK, NEW p \in Runs, PostDatabase(p)
  PROVE  TypeOK'
<1> DEFINE c == run[p].cluster
           state(outcome) == CASE outcome = "created" -> "active"
                               [] outcome = "trial" -> "trial"
                               [] OTHER -> "failed"
           after(n, outcome) == [run[p] EXCEPT !.todo = @ \ {n},
                                               !.databases = @ \cup {<<c, n, state(outcome)>>}]
<1>1. run[p] \in RunRecords /\ c \in Clusters /\ run[p].todo \in SUBSET Names
  BY DEF TypeOK, RunRecords
<1>2. PICK n \in run[p].todo, outcome \in {"created", "lost", "trial", "failed"} :
        /\ cloud' = IF outcome \in {"created", "lost"}
                    THEN [cloud EXCEPT !.databases[c] = @ \cup {n}] ELSE cloud
        /\ Went(p, outcome \in {"created", "trial"},
                Reachable(p) /\ n \notin cloud.databases[c] /\ ~OverTrial(c))
        /\ DatabasesDone(p, after(n, outcome))
  BY DEF PostDatabase
<1>3. n \in Names /\ state(outcome) \in {"active", "failed", "trial"}
  BY <1>1
<1>4. after(n, outcome) \in RunRecords
  <2> HIDE DEF state
  <2>1. <<c, n, state(outcome)>> \in DatabaseStates
    BY <1>1, <1>3 DEF DatabaseStates
  <2> QED
    BY <1>1, <2>1 DEF RunRecords
<1>5. run' \in [Runs -> RunRecords] /\ record' \in Records \cup {NoRecord}
  BY <1>2, <1>4, DatabasesDoneType
<1>6. cloud' \in [up : BOOLEAN, licensed : SUBSET Clusters, databases : Configs]
  BY <1>1, <1>2, <1>3 DEF TypeOK, Configs
<1>7. smooth' \in [Runs -> BOOLEAN] /\ faults' \in 0..MaxFaults
  BY <1>2, ProvisioningAssumption DEF Went, TypeOK
<1>8. restarts' \in 0..MaxRestarts
  BY DEF PostDatabase, TypeOK
<1> QED
  BY <1>5, <1>6, <1>7, <1>8 DEF TypeOK

LEMMA EditedType ==
  ASSUME TypeOK, NEW p \in Requests, NEW rows \in Edits, Reconcile(p, rows)
  PROVE  [record EXCEPT !.config = Edited(record.config, rows)] \in Records
<1>1. record \in Records /\ record.config \in Configs
  BY DEF Reconcile, TypeOK, Records
<1>2. rows \in Seq(Rows)
  BY ProvisioningAssumption
<1>3. ASSUME NEW c \in Clusters
      PROVE  Edited(record.config, rows)[c] \in SUBSET Names
  <2> DEFINE hits == {i \in DOMAIN rows : RowTarget(rows, i) = c}
             last == CHOOSE i \in hits : \A j \in hits : j <= i
  <2>1. CASE hits = {}
    BY <1>1, <2>1 DEF Edited, Configs
  <2>2. CASE hits # {}
    <3>1. \E i \in hits : \A j \in hits : j <= i
      <4>1. hits \in SUBSET (1..Len(rows)) /\ Len(rows) \in Nat
        BY <1>2
      <4> HIDE DEF hits
      <4> QED
        BY <4>1, <2>2, GreatestExists
    <3>2. last \in hits
      BY <3>1
    <3>3. last \in DOMAIN rows
      BY <3>2
    <3>4. rows[last] \in Rows
      <4> HIDE DEF last
      <4> QED
        BY <1>2, <3>3
    <3>5. rows[last].databases \in SUBSET Names
      BY <3>4 DEF Rows
    <3> QED
      BY <2>2, <3>5 DEF Edited
  <2> QED
    BY <2>1, <2>2
<1>4. Edited(record.config, rows) \in Configs
  BY <1>3 DEF Edited, Configs
<1> QED
  BY <1>1, <1>4 DEF Records

LEMMA ReconcileType ==
  ASSUME TypeOK, NEW p \in Requests, NEW rows \in Edits, Reconcile(p, rows)
  PROVE  TypeOK'
<1>1. [record EXCEPT !.config = Edited(record.config, rows)] \in Records
  BY EditedType
<1>2. p \in Runs
  BY DEF Runs
<1>3. /\ run' \in [Runs -> RunRecords]
      /\ record' \in Records \cup {NoRecord}
      /\ smooth' \in [Runs -> BOOLEAN]
  BY <1>1, <1>2, BeginType DEF Reconcile
<1> QED
  BY <1>3 DEF Reconcile, TypeOK

\* Every variable keeps its type.
THEOREM TypeCorrect == Spec => []TypeOK
<1>1. Init => TypeOK
  <2> SUFFICES ASSUME Init
               PROVE  TypeOK
    OBVIOUS
  <2>1. Idle \in RunRecords
    BY ProvisioningAssumption DEF Idle, RunRecords, Configs, Clusters
  <2>2. record \in Records
    BY ProvisioningAssumption DEF Init, Records, Statuses
  <2>3. cloud \in [up : BOOLEAN, licensed : SUBSET Clusters, databases : Configs]
    BY GoneType DEF Init
  <2> QED
    BY <2>1, <2>2, <2>3, ProvisioningAssumption DEF Init, TypeOK
<1>2. TypeOK /\ [Next]_vars => TypeOK'
  <2> SUFFICES ASSUME TypeOK, [Next]_vars
               PROVE  TypeOK'
    OBVIOUS
  <2>1. CASE WatcherSeesCluster
    <3>1. record \in Records /\ Watcher \in Runs
      BY <2>1 DEF WatcherSeesCluster, TypeOK, Runs
    <3>2. /\ run' \in [Runs -> RunRecords]
          /\ record' \in Records \cup {NoRecord}
          /\ smooth' \in [Runs -> BOOLEAN]
      BY <2>1, <3>1, BeginType DEF WatcherSeesCluster
    <3> QED
      BY <2>1, <3>2 DEF WatcherSeesCluster, TypeOK
  <2>2. CASE \E p \in Requests, rows \in Edits : Reconcile(p, rows)
    BY <2>2, ReconcileType
  <2>3. CASE \E p \in Runs : Call(p)
    BY <2>3, PutLicenseType, ListDatabasesType, PostDatabaseType DEF Call
  <2>4. CASE \E ready \in BOOLEAN : Health(ready)
    <3>1. record' \in Records
      BY <2>4 DEF Health, TypeOK, Records, Statuses
    <3> QED
      BY <2>4, <3>1 DEF Health, TypeOK
  <2>5. CASE WatcherGivesUp \/ DestroyStart \/ Forget
    <3>1. record' \in Records \cup {NoRecord}
      BY <2>5 DEF WatcherGivesUp, DestroyStart, Forget, TypeOK, Records, Statuses
    <3> QED
      BY <2>5, <3>1 DEF WatcherGivesUp, DestroyStart, Forget, TypeOK
  <2>6. CASE \E succeeds \in BOOLEAN : DestroyEnd(succeeds)
    <3>1. record' \in Records
      BY <2>6 DEF DestroyEnd, TypeOK, Records, Statuses
    <3>2. cloud' \in [up : BOOLEAN, licensed : SUBSET Clusters, databases : Configs]
      BY <2>6, GoneType DEF DestroyEnd, TypeOK
    <3> QED
      BY <2>6, <3>1, <3>2 DEF DestroyEnd, TypeOK
  <2>7. CASE Restart
    <3>1. Idle \in RunRecords
      BY ProvisioningAssumption DEF Idle, RunRecords, Configs, Clusters
    <3> QED
      BY <2>7, <3>1, ProvisioningAssumption DEF Restart, TypeOK
  <2>8. CASE UNCHANGED vars
    BY <2>8 DEF vars, TypeOK
  <2> QED
    BY <2>1, <2>2, <2>3, <2>4, <2>5, <2>6, <2>7, <2>8 DEF Next
<1> QED
  BY <1>1, <1>2, PTL DEF Spec

-----------------------------------------------------------------------------
(* The inductive invariant of the safety properties.  While the clusters   *)
(* are up, what a run has noted is true of them, and so is what the record *)
(* says is active.                                                         *)

ActiveIn(states, cl) ==
    \A c \in Clusters, n \in Names : <<c, n, "active">> \in states => n \in cl.databases[c]

RunOK(r, cl) ==
    /\ ActiveIn(r.databases, cl)
    /\ \A c \in Clusters : <<c, "applied">> \in r.licenses => c \in cl.licensed
    /\ \A c \in Licensed, n \in Names :
          <<c, n, "trial">> \in r.databases => <<c, "applied">> \notin r.licenses
    /\ r.pc \in {"idle", "license"} => r.databases = {}

RecordOK(rec, cl) == rec # NoRecord => ActiveIn(rec.databaseStates, cl)

Truthful ==
    cloud.up => RecordOK(record, cloud) /\ \A p \in Runs : RunOK(run[p], cloud)

Clouds == [up : BOOLEAN, licensed : SUBSET Clusters, databases : Configs]

LEMMA MoreInCloud ==
  ASSUME NEW cl, NEW cl2, NEW r, NEW rec,
         cl.licensed \subseteq cl2.licensed,
         \A c \in Clusters : cl.databases[c] \subseteq cl2.databases[c]
  PROVE  /\ RunOK(r, cl) => RunOK(r, cl2)
         /\ RecordOK(rec, cl) => RecordOK(rec, cl2)
BY DEF RunOK, RecordOK, ActiveIn

LEMMA IdleOK ==
  ASSUME NEW cl
  PROVE  RunOK(Idle, cl)
BY DEF RunOK, ActiveIn, Idle

LEMMA StartedOK ==
  ASSUME NEW cl, NEW config, NEW endpoint
  PROVE  RunOK(Started(config, endpoint), cl)
<1>1. /\ Started(config, endpoint).databases = {}
      /\ Started(config, endpoint).licenses = {}
  BY DEF Started, AtCluster, Idle
<1> QED
  BY <1>1 DEF RunOK, ActiveIn

LEMMA MarkReadyOK ==
  ASSUME NEW cl, NEW p, NEW rec \in Records \cup {NoRecord}, RecordOK(rec, cl)
  PROVE  RecordOK(MarkReady(p, rec), cl)
BY NoRecordAssumption DEF MarkReady, RecordOK, Records

LEMMA BeginOK ==
  ASSUME TypeOK, NEW p \in Runs, NEW rec \in Records, Begin(p, rec),
         RecordOK(rec, cloud), \A q \in Runs : RunOK(run[q], cloud)
  PROVE  RecordOK(record', cloud) /\ \A q \in Runs : RunOK(run'[q], cloud)
<1>1. RecordOK(record', cloud)
  BY MarkReadyOK DEF Begin
<1>2. run' = [run EXCEPT ![p] = Started(rec.config, rec.endpoint)]
  BY DEF Begin
<1>3. RunOK(Started(rec.config, rec.endpoint), cloud)
  BY StartedOK
<1> QED
  BY <1>1, <1>2, <1>3 DEF TypeOK

LEMMA LicenseDoneOK ==
  ASSUME TypeOK, NEW cl, NEW p \in Runs, NEW r \in RunRecords, LicenseDone(p, r),
         r.databases = {}, RunOK(r, cl),
         RecordOK(record, cl), \A q \in Runs : RunOK(run[q], cl)
  PROVE  RecordOK(record', cl) /\ \A q \in Runs : RunOK(run'[q], cl)
<1> DEFINE L == Later(Licensed, r.cluster)
           D == WithDatabases(r.seen)
<1>1. RunOK([r EXCEPT !.cluster = First(L)], cl) /\ RunOK(AtCluster(r, First(D)), cl)
  BY DEF RunOK, ActiveIn, AtCluster, RunRecords
<1>2. RunOK(Idle, cl)
  BY IdleOK
<1>3. \A q \in Runs : RunOK(run'[q], cl)
  BY <1>1, <1>2 DEF LicenseDone, TypeOK
<1>4. WithLicenseStates(record, r.licenses) \in Records \cup {NoRecord}
  BY WriteBackType DEF RunRecords, TypeOK
<1>5. RecordOK(WithLicenseStates(record, r.licenses), cl)
  BY DEF WithLicenseStates, RecordOK, TypeOK, Records
<1>6. RecordOK(MarkReady(p, WithLicenseStates(record, r.licenses)), cl)
  BY <1>4, <1>5, MarkReadyOK
<1> QED
  BY <1>3, <1>5, <1>6 DEF LicenseDone

LEMMA DatabasesDoneOK ==
  ASSUME TypeOK, NEW cl, NEW p \in Runs, NEW r \in RunRecords, DatabasesDone(p, r),
         RunOK(r, cl),
         RecordOK(record, cl), \A q \in Runs : RunOK(run[q], cl)
  PROVE  RecordOK(record', cl) /\ \A q \in Runs : RunOK(run'[q], cl)
<1> DEFINE D == Later(WithDatabases(r.seen), r.cluster)
<1>1. RunOK(AtCluster(r, First(D)), cl)
  BY DEF RunOK, ActiveIn, AtCluster, RunRecords
<1>2. RunOK(Idle, cl)
  BY IdleOK
<1>3. \A q \in Runs : RunOK(run'[q], cl)
  BY <1>1, <1>2 DEF DatabasesDone, TypeOK
<1>4. WithDatabaseStates(record, r.databases) \in Records \cup {NoRecord}
  BY WriteBackType DEF RunRecords, TypeOK
<1>5. RecordOK(WithDatabaseStates(record, r.databases), cl)
  BY DEF WithDatabaseStates, RecordOK, RunOK, TypeOK, Records
<1>6. RecordOK(MarkReady(p, WithDatabaseStates(record, r.databases)), cl)
  BY <1>4, <1>5, MarkReadyOK
<1> QED
  BY <1>3, <1>6 DEF DatabasesDone

LEMMA PutLicenseOK ==
  ASSUME TypeOK, Truthful, NEW p \in Runs, PutLicense(p)
  PROVE  Truthful'
<1> SUFFICES ASSUME cloud'.up
             PROVE  RecordOK(record', cloud') /\ \A q \in Runs : RunOK(run'[q], cloud')
  BY DEF Truthful
<1> DEFINE c == run[p].cluster
<1>1. run[p] \in RunRecords /\ c \in Clusters /\ run[p].pc = "license"
  BY DEF TypeOK, RunRecords, PutLicense
<1>2. PICK effect \in BOOLEAN, answered \in BOOLEAN :
        /\ answered => effect
        /\ cloud' = IF effect THEN [cloud EXCEPT !.licensed = @ \cup {c}] ELSE cloud
        /\ LicenseDone(p, [run[p] EXCEPT !.licenses =
              @ \cup {<<c, IF answered THEN "applied" ELSE "failed">>}])
  BY DEF PutLicense
<1> DEFINE r == [run[p] EXCEPT !.licenses =
                   @ \cup {<<c, IF answered THEN "applied" ELSE "failed">>}]
<1>3. cloud \in Clouds /\ cloud.up
  BY <1>2 DEF TypeOK, Clouds
<1>4. /\ cloud.licensed \subseteq cloud'.licensed
      /\ \A d \in Clusters : cloud.databases[d] \subseteq cloud'.databases[d]
      /\ answered => c \in cloud'.licensed
  BY <1>2, <1>3 DEF Clouds
<1>5. RecordOK(record, cloud') /\ \A q \in Runs : RunOK(run[q], cloud')
  BY <1>3, <1>4, MoreInCloud DEF Truthful
<1>6. r \in RunRecords
  BY <1>1 DEF RunRecords, LicenseStates
<1>7. run[p].databases = {} /\ RunOK(run[p], cloud')
  BY <1>1, <1>5 DEF RunOK
<1>8. RunOK(r, cloud') /\ r.databases = {}
  <2>1. r.databases = {}
    BY <1>1, <1>7 DEF RunRecords
  <2>2. \A d \in Clusters : <<d, "applied">> \in r.licenses => d \in cloud'.licensed
    BY <1>1, <1>4, <1>7 DEF RunOK, RunRecords
  <2> QED
    BY <2>1, <2>2 DEF RunOK, ActiveIn
<1> HIDE DEF r
<1> QED
  BY <1>2, <1>5, <1>6, <1>8, LicenseDoneOK DEF r

LEMMA ListDatabasesOK ==
  ASSUME TypeOK, Truthful, NEW p \in Runs, ListDatabases(p)
  PROVE  Truthful'
<1> SUFFICES ASSUME cloud.up
             PROVE  RecordOK(record', cloud) /\ \A q \in Runs : RunOK(run'[q], cloud)
  BY DEF Truthful, ListDatabases
<1> DEFINE c == run[p].cluster
           wanted == run[p].seen[c]
<1>1. run[p] \in RunRecords /\ c \in Clusters /\ wanted \in SUBSET Names /\ run[p].pc = "list"
  BY DEF TypeOK, RunRecords, Configs, ListDatabases
<1>2. RecordOK(record, cloud) /\ \A q \in Runs : RunOK(run[q], cloud)
  BY DEF Truthful
<1>3. CASE ~run[p].endpoint
  <2> DEFINE r == [run[p] EXCEPT !.databases = @ \cup {<<c, n, "failed">> : n \in wanted}]
  <2>1. DatabasesDone(p, r)
    BY <1>3 DEF ListDatabases
  <2>2. {<<c, n, "failed">> : n \in wanted} \subseteq DatabaseStates
    BY <1>1 DEF DatabaseStates
  <2>3. r \in RunRecords
    BY <1>1, <2>2 DEF RunRecords
  <2>4. RunOK(r, cloud)
    BY <1>1, <1>2 DEF RunOK, ActiveIn, RunRecords
  <2> HIDE DEF r
  <2> QED
    BY <1>2, <2>1, <2>3, <2>4, DatabasesDoneOK
<1>4. CASE run[p].endpoint
  <2>1. PICK answered \in BOOLEAN :
          LET existing == IF answered THEN cloud.databases[c] ELSE {}
          IN  DatabasesDone(p, [run[p] EXCEPT
                    !.pc = "post",
                    !.todo = wanted \ existing,
                    !.databases = @ \cup {<<c, n, "active">> : n \in wanted \cap existing}])
    BY <1>4 DEF ListDatabases
  <2> DEFINE existing == IF answered THEN cloud.databases[c] ELSE {}
             new == {<<c, n, "active">> : n \in wanted \cap existing}
             r == [run[p] EXCEPT !.pc = "post", !.todo = wanted \ existing, !.databases = @ \cup new]
  <2>2. new \subseteq DatabaseStates
    BY <1>1 DEF DatabaseStates
  <2>3. \A d \in Clusters, n \in Names : <<d, n, "active">> \in new => n \in cloud.databases[d]
    OBVIOUS
  <2>4. \A d \in Clusters, n \in Names : <<d, n, "trial">> \notin new
    OBVIOUS
  <2> HIDE DEF new, existing
  <2>5. r \in RunRecords
    BY <1>1, <2>2 DEF RunRecords
  <2>6. r.databases = run[p].databases \cup new /\ r.licenses = run[p].licenses /\ r.pc = "post"
    BY <1>1 DEF RunRecords
  <2>7. RunOK(run[p], cloud)
    BY <1>2
  <2> HIDE DEF r
  <2>8. Licensed \subseteq Clusters
    BY ProvisioningAssumption
  <2>9. RunOK(r, cloud)
    BY <2>3, <2>4, <2>6, <2>7, <2>8 DEF RunOK, ActiveIn
  <2> QED
    BY <1>2, <2>1, <2>5, <2>9, DatabasesDoneOK DEF r, new, existing
<1> QED
  BY <1>1, <1>3, <1>4 DEF RunRecords

LEMMA PostDatabaseOK ==
  ASSUME TypeOK, Truthful, NEW p \in Runs, PostDatabase(p)
  PROVE  Truthful'
<1> SUFFICES ASSUME cloud'.up
             PROVE  RecordOK(record', cloud') /\ \A q \in Runs : RunOK(run'[q], cloud')
  BY DEF Truthful
<1> DEFINE c == run[p].cluster
           state(outcome) == CASE outcome = "created" -> "active"
                               [] outcome = "trial" -> "trial"
                               [] OTHER -> "failed"
           after(n, outcome) == [run[p] EXCEPT !.todo = @ \ {n},
                                               !.databases = @ \cup {<<c, n, state(outcome)>>}]
<1>1. run[p] \in RunRecords /\ c \in Clusters /\ run[p].todo \in SUBSET Names /\ run[p].pc = "post"
  BY DEF TypeOK, RunRecords, PostDatabase
<1>2. PICK n \in run[p].todo, outcome \in {"created", "lost", "trial", "failed"} :
        /\ outcome = "trial" => OverTrial(c)
        /\ cloud' = IF outcome \in {"created", "lost"}
                    THEN [cloud EXCEPT !.databases[c] = @ \cup {n}] ELSE cloud
        /\ DatabasesDone(p, after(n, outcome))
  BY DEF PostDatabase
<1>3. cloud \in Clouds /\ cloud.up
  BY <1>2 DEF TypeOK, Clouds
<1>4. /\ cloud.licensed \subseteq cloud'.licensed
      /\ \A d \in Clusters : cloud.databases[d] \subseteq cloud'.databases[d]
      /\ outcome = "created" => n \in cloud'.databases[c]
  BY <1>1, <1>2, <1>3 DEF Clouds, Configs
<1>5. RecordOK(record, cloud') /\ \A q \in Runs : RunOK(run[q], cloud')
  BY <1>3, <1>4, MoreInCloud DEF Truthful
<1> DEFINE s == <<c, n, state(outcome)>>
           r == after(n, outcome)
<1>6. n \in Names /\ state(outcome) \in {"active", "failed", "trial"}
  BY <1>1
<1>7. state(outcome) = "active" => outcome = "created"
  OBVIOUS
<1>8. state(outcome) = "trial" => outcome = "trial"
  OBVIOUS
<1>9. state(outcome) = "trial" => <<c, "applied">> \notin run[p].licenses
  <2>1. OverTrial(c) => c \notin cloud.licensed
    BY DEF OverTrial
  <2>2. RunOK(run[p], cloud)
    BY <1>3 DEF Truthful
  <2> QED
    BY <1>1, <1>2, <1>8, <2>1, <2>2 DEF RunOK
<1> HIDE DEF state
<1>10. r \in RunRecords
  <2>1. s \in DatabaseStates
    BY <1>1, <1>6 DEF DatabaseStates
  <2> QED
    BY <1>1, <2>1 DEF RunRecords
<1>11. r.databases = run[p].databases \cup {s} /\ r.licenses = run[p].licenses /\ r.pc = "post"
  BY <1>1 DEF RunRecords
<1>12. RunOK(r, cloud')
  <2> HIDE DEF r
  <2>1. ActiveIn(r.databases, cloud')
    BY <1>4, <1>5, <1>7, <1>11 DEF RunOK, ActiveIn
  <2>2. \A d \in Licensed, m \in Names :
           <<d, m, "trial">> \in r.databases => <<d, "applied">> \notin r.licenses
    BY <1>5, <1>9, <1>11 DEF RunOK
  <2> QED
    BY <1>5, <1>11, <2>1, <2>2 DEF RunOK
<1>13. DatabasesDone(p, r)
  BY <1>2
<1> HIDE DEF r
<1> QED
  BY <1>5, <1>10, <1>12, <1>13, DatabasesDoneOK

LEMMA TruthfulInductive ==
  Spec => []Truthful
<1>1. Init => Truthful
  BY IdleOK, NoRecordAssumption DEF Init, Truthful, RecordOK, ActiveIn
<1>2. TypeOK /\ Truthful /\ [Next]_vars => Truthful'
  <2> SUFFICES ASSUME TypeOK, Truthful, [Next]_vars
               PROVE  Truthful'
    OBVIOUS
  <2>1. CASE WatcherSeesCluster
    <3>1. record \in Records /\ Watcher \in Runs /\ cloud.up /\ cloud' = cloud
      BY <2>1 DEF WatcherSeesCluster, TypeOK, Runs
    <3> QED
      BY <2>1, <3>1, BeginOK DEF WatcherSeesCluster, Truthful
  <2>2. CASE \E p \in Requests, rows \in Edits : Reconcile(p, rows)
    <3>1. PICK p \in Requests, rows \in Edits : Reconcile(p, rows)
      BY <2>2
    <3> DEFINE rec == [record EXCEPT !.config = Edited(record.config, rows)]
    <3>2. record \in Records /\ cloud' = cloud /\ p \in Runs /\ Begin(p, rec)
      BY <3>1 DEF Reconcile, TypeOK, Runs
    <3>3. rec \in Records
      BY <3>1, EditedType
    <3>4. RecordOK(record, cloud) => RecordOK(rec, cloud)
      BY <3>2, NoRecordAssumption DEF RecordOK, Records
    <3> HIDE DEF rec
    <3> QED
      BY <3>2, <3>3, <3>4, BeginOK DEF Truthful
  <2>3. CASE \E p \in Runs : Call(p)
    BY <2>3, PutLicenseOK, ListDatabasesOK, PostDatabaseOK DEF Call
  <2>4. CASE \E ready \in BOOLEAN : Health(ready)
    BY <2>4, NoRecordAssumption DEF Health, Truthful, RecordOK, TypeOK, Records
  <2>5. CASE WatcherGivesUp \/ DestroyStart \/ Forget
    BY <2>5, NoRecordAssumption DEF WatcherGivesUp, DestroyStart, Forget, Truthful, RecordOK, TypeOK, Records
  <2>6. CASE \E succeeds \in BOOLEAN : DestroyEnd(succeeds)
    <3>1. PICK succeeds \in BOOLEAN : DestroyEnd(succeeds)
      BY <2>6
    <3>2. CASE succeeds
      BY <3>1, <3>2 DEF DestroyEnd, Truthful, Gone
    <3>3. CASE ~succeeds
      BY <3>1, <3>3, NoRecordAssumption DEF DestroyEnd, Truthful, RecordOK, TypeOK, Records
    <3> QED
      BY <3>2, <3>3
  <2>7. CASE Restart
    BY <2>7, IdleOK DEF Restart, Truthful
  <2>8. CASE UNCHANGED vars
    BY <2>8 DEF vars, Truthful
  <2> QED
    BY <2>1, <2>2, <2>3, <2>4, <2>5, <2>6, <2>7, <2>8 DEF Next
<1> QED
  BY <1>1, <1>2, TypeCorrect, PTL DEF Spec

\* What the record calls active is on the cluster, whichever runs overlap
\* and whichever calls are lost: a run only notes what the cluster listed or
\* acknowledged, and nothing but a destroy takes a database away.
THEOREM ActiveExistsCorrect == Spec => []ActiveExists
<1>1. Truthful => ActiveExists
  BY DEF Truthful, ActiveExists, RecordOK, ActiveIn
<1> QED
  BY <1>1, TruthfulInductive, PTL

\* A run whose license call succeeded is not refused a database of that
\* cluster for the trial license.
THEOREM LicenseBeforeDatabasesCorrect == Spec => []LicenseBeforeDatabases
<1>1. Truthful => LicenseBeforeDatabases
  BY DEF Truthful, LicenseBeforeDatabases, RunOK
<1> QED
  BY <1>1, TruthfulInductive, PTL

-----------------------------------------------------------------------------
(* Action properties.                                                      *)

Kept(rec, rec2) ==
    /\ rec = NoRecord <=> rec2 = NoRecord
    /\ rec # NoRecord =>
          /\ rec2.config = rec.config
          /\ rec2.endpoint = rec.endpoint
          /\ rec.status \in {"destroying", "destroyed", "failed"} => rec2.status = rec.status

LEMMA WriteBackKeeps ==
  ASSUME TypeOK, NEW p, NEW l \in SUBSET LicenseStates, NEW d \in SUBSET DatabaseStates
  PROVE  /\ Kept(record, record)
         /\ Kept(record, WithLicenseStates(record, l))
         /\ Kept(record, MarkReady(p, WithLicenseStates(record, l)))
         /\ Kept(record, MarkReady(p, WithDatabaseStates(record, d)))
<1>1. CASE record = NoRecord
  BY <1>1 DEF Kept, WithLicenseStates, WithDatabaseStates, MarkReady
<1>2. CASE record \in Records
  <2>1. record # NoRecord
    BY <1>2, NoRecordAssumption
  <2>2. /\ WithLicenseStates(record, l) = [record EXCEPT !.licenseStates = l]
        /\ WithDatabaseStates(record, d) = [record EXCEPT !.databaseStates = d]
    BY <2>1 DEF WithLicenseStates, WithDatabaseStates
  <2>3. /\ [record EXCEPT !.licenseStates = l] \in Records
        /\ [record EXCEPT !.databaseStates = d] \in Records
    BY <1>2 DEF Records
  <2>4. Kept(record, record) /\ Kept(record, WithLicenseStates(record, l))
    BY <1>2, <2>1, <2>2, <2>3, NoRecordAssumption DEF Kept, Records
  <2>5. Kept(record, MarkReady(p, WithLicenseStates(record, l)))
    BY <1>2, <2>1, <2>2, <2>3, MarkReadyType, NoRecordAssumption DEF Kept, Records, MarkReady
  <2>6. Kept(record, MarkReady(p, WithDatabaseStates(record, d)))
    BY <1>2, <2>1, <2>2, <2>3, MarkReadyType, NoRecordAssumption DEF Kept, Records, MarkReady
  <2> QED
    BY <2>4, <2>5, <2>6
<1> QED
  BY <1>1, <1>2 DEF TypeOK

LEMMA LicenseDoneKeeps ==
  ASSUME TypeOK, NEW p \in Runs, NEW r \in RunRecords,
         LicenseDone(p, r) \/ DatabasesDone(p, r)
  PROVE  Kept(record, record')
<1>1. r.licenses \in SUBSET LicenseStates /\ r.databases \in SUBSET DatabaseStates
  BY DEF RunRecords
<1> QED
  BY <1>1, WriteBackKeeps DEF LicenseDone, DatabasesDone

LEMMA CallKeeps ==
  ASSUME TypeOK, NEW p \in Runs, Call(p)
  PROVE  Kept(record, record')
<1> DEFINE c == run[p].cluster
<1>1. run[p] \in RunRecords /\ c \in Clusters
  BY DEF TypeOK, RunRecords
<1>2. CASE PutLicense(p)
  <2>1. PICK s \in {"applied", "failed"} :
          LicenseDone(p, [run[p] EXCEPT !.licenses = @ \cup {<<c, s>>}])
    BY <1>2 DEF PutLicense
  <2>2. [run[p] EXCEPT !.licenses = @ \cup {<<c, s>>}] \in RunRecords
    BY <1>1 DEF RunRecords, LicenseStates
  <2> QED
    BY <2>1, <2>2, LicenseDoneKeeps
<1>3. CASE ListDatabases(p)
  <2> DEFINE wanted == run[p].seen[c]
  <2>1. wanted \in SUBSET Names
    BY <1>1 DEF RunRecords, Configs
  <2>2. PICK pc \in {"list", "post"}, todo \in SUBSET Names, new \in SUBSET DatabaseStates :
          DatabasesDone(p, [run[p] EXCEPT !.pc = pc, !.todo = todo, !.databases = @ \cup new])
    <3>1. CASE ~run[p].endpoint
      <4> DEFINE new == {<<c, n, "failed">> : n \in wanted}
      <4>1. new \in SUBSET DatabaseStates
        BY <1>1, <2>1 DEF DatabaseStates
      <4>2. DatabasesDone(p, [run[p] EXCEPT !.databases = @ \cup new])
        BY <1>3, <3>1 DEF ListDatabases
      <4> HIDE DEF new
      <4>3. [run[p] EXCEPT !.databases = @ \cup new]
              = [run[p] EXCEPT !.pc = run[p].pc, !.todo = run[p].todo, !.databases = @ \cup new]
        BY <1>1 DEF RunRecords
      <4>4. run[p].pc \in {"list", "post"} /\ run[p].todo \in SUBSET Names
        BY <1>1, <1>3 DEF ListDatabases, RunRecords
      <4> QED
        BY <4>1, <4>2, <4>3, <4>4
    <3>2. CASE run[p].endpoint
      <4>1. PICK answered \in BOOLEAN :
              LET existing == IF answered THEN cloud.databases[c] ELSE {}
              IN  DatabasesDone(p, [run[p] EXCEPT
                        !.pc = "post",
                        !.todo = wanted \ existing,
                        !.databases = @ \cup {<<c, n, "active">> : n \in wanted \cap existing}])
        BY <1>3, <3>2 DEF ListDatabases
      <4> DEFINE existing == IF answered THEN cloud.databases[c] ELSE {}
                 new == {<<c, n, "active">> : n \in wanted \cap existing}
                 todo == wanted \ existing
      <4>2. new \in SUBSET DatabaseStates /\ todo \in SUBSET Names
        BY <1>1, <2>1 DEF DatabaseStates
      <4>3. DatabasesDone(p, [run[p] EXCEPT !.pc = "post", !.todo = todo, !.databases = @ \cup new])
        BY <4>1
      <4> HIDE DEF new, todo
      <4> QED
        BY <4>2, <4>3
    <3> QED
      BY <1>1, <3>1, <3>2 DEF RunRecords
  <2>3. [run[p] EXCEPT !.pc = pc, !.todo = todo, !.databases = @ \cup new] \in RunRecords
    BY <1>1 DEF RunRecords
  <2> QED
    BY <2>2, <2>3, LicenseDoneKeeps
<1>4. CASE PostDatabase(p)
  <2>1. PICK n \in run[p].todo, s \in {"active", "failed", "trial"} :
          DatabasesDone(p, [run[p] EXCEPT !.todo = @ \ {n}, !.databases = @ \cup {<<c, n, s>>}])
    BY <1>4 DEF PostDatabase
  <2>2. [run[p] EXCEPT !.todo = @ \ {n}, !.databases = @ \cup {<<c, n, s>>}] \in RunRecords
    <3>1. n \in Names /\ <<c, n, s>> \in DatabaseStates
      BY <1>1 DEF RunRecords, DatabaseStates
    <3> QED
      BY <1>1, <3>1 DEF RunRecords
  <2> QED
    BY <2>1, <2>2, LicenseDoneKeeps
<1> QED
  BY <1>2, <1>3, <1>4 DEF Call

\* A run that writes back what it found changes nothing of the record but
\* its own field and a status that was still waiting: the record is read
\* again, without a wait between that read and the write.
THEOREM NothingUndoneCorrect == Spec => NothingUndone
<1>1. TypeOK => \A p \in Runs : Running(p) /\ Call(p) =>
        /\ record = NoRecord <=> record' = NoRecord
        /\ record # NoRecord =>
              /\ record'.config = record.config
              /\ record'.endpoint = record.endpoint
              /\ record.status \in {"destroying", "destroyed", "failed"} =>
                    record'.status = record.status
  BY CallKeeps DEF Kept
<1> QED
  BY <1>1, TypeCorrect, PTL DEF NothingUndone

\* However its rows name their clusters, an edit that passes the gate leaves
\* no cluster without a license over the trial: the gate and the edit find a
\* row's cluster the same way, and of several rows each is held to the limit.
THEOREM EditsStayInTrialCorrect == Spec => EditsStayInTrial
<1> DEFINE InTrial == record # NoRecord /\ record' # NoRecord =>
              \A c \in Clusters \ Licensed :
                  record'.config[c] # record.config[c] =>
                      Cardinality(record'.config[c]) <= TrialLimit
<1>1. TypeOK /\ [Next]_vars => InTrial
  <2> SUFFICES ASSUME TypeOK, [Next]_vars, record # NoRecord, record' # NoRecord
               PROVE  \A c \in Clusters \ Licensed :
                          record'.config[c] # record.config[c] =>
                              Cardinality(record'.config[c]) <= TrialLimit
    OBVIOUS
  <2>1. CASE \E p \in Requests, rows \in Edits : Reconcile(p, rows)
    <3>1. PICK p \in Requests, rows \in Edits : Reconcile(p, rows)
      BY <2>1
    <3> DEFINE rec == [record EXCEPT !.config = Edited(record.config, rows)]
    <3>2. record \in Records /\ p # Watcher /\ ~GateBlocks(rows)
      BY <3>1, ProvisioningAssumption DEF TypeOK, Reconcile
    <3>3. record'.config = Edited(record.config, rows)
      BY <3>1, <3>2 DEF Reconcile, Begin, MarkReady, Records
    <3>4. ASSUME NEW c \in Clusters \ Licensed, record'.config[c] # record.config[c]
          PROVE  Cardinality(record'.config[c]) <= TrialLimit
      <4> DEFINE hits == {i \in DOMAIN rows : RowTarget(rows, i) = c}
                 last == CHOOSE i \in hits : \A j \in hits : j <= i
      <4>1. record'.config[c] = IF hits = {} THEN record.config[c] ELSE rows[last].databases
        BY <3>3 DEF Edited
      <4>2. hits # {}
        BY <3>4, <4>1
      <4>3. \E i \in hits : \A j \in hits : j <= i
        <5>1. hits \in SUBSET (1..Len(rows)) /\ Len(rows) \in Nat
          BY ProvisioningAssumption
        <5> HIDE DEF hits
        <5> QED
          BY <4>2, <5>1, GreatestExists
      <4>4. last \in DOMAIN rows /\ RowTarget(rows, last) = c
        BY <4>3
      <4>5. rows[last] \in Rows
        <5> HIDE DEF last
        <5> QED
          BY <4>4, ProvisioningAssumption
      <4>6. rows[last].databases \in SUBSET Names
        BY <4>5 DEF Rows
      <4>7. ~TrialGate(c, rows[last].databases)
        <5> HIDE DEF last
        <5> QED
          BY <3>2, <4>4 DEF GateBlocks
      <4>8. Cardinality(rows[last].databases) \in Nat
        BY <4>6, FS_Subset, FS_CardinalityType, ProvisioningAssumption
      <4> HIDE DEF last, hits
      <4> QED
        BY <4>1, <4>2, <4>7, <4>8, ProvisioningAssumption DEF TrialGate
    <3> QED
      BY <3>4
  <2>2. CASE \E p \in Runs : Call(p)
    BY <2>2, CallKeeps DEF Kept
  <2>3. CASE WatcherSeesCluster
    BY <2>3, NoRecordAssumption DEF WatcherSeesCluster, Begin, MarkReady, TypeOK, Records
  <2>4. CASE \E ready \in BOOLEAN : Health(ready)
    BY <2>4 DEF Health, TypeOK, Records
  <2>5. CASE WatcherGivesUp \/ DestroyStart \/ Forget \/ Restart \/ UNCHANGED vars
    BY <2>5 DEF WatcherGivesUp, DestroyStart, Forget, Restart, vars, TypeOK, Records
  <2>6. CASE \E succeeds \in BOOLEAN : DestroyEnd(succeeds)
    BY <2>6 DEF DestroyEnd, TypeOK, Records
  <2> QED
    BY <2>1, <2>2, <2>3, <2>4, <2>5, <2>6 DEF Next
<1> QED
  BY <1>1, TypeCorrect, PTL DEF EditsStayInTrial, Spec

-----------------------------------------------------------------------------
(* A run that went well.  What such a run has settled so far: the licenses *)
(* and the databases of the clusters before its own, and of its own those  *)
(* that are no longer to do.                                               *)

Settled(r, c, n) ==
    \/ <<c, n, "active">> \in r.databases
    \/ <<c, n, "trial">> \in r.databases /\ c \notin Licensed

LicensesSoFar(r) ==
    \A c \in Licensed : r.pc # "license" \/ c < r.cluster => <<c, "applied">> \in r.licenses

DatabasesSoFar(r) ==
    r.pc \in {"list", "post"} =>
        \A c \in Clusters : \A n \in r.seen[c] :
            (c < r.cluster \/ (c = r.cluster /\ r.pc = "post" /\ n \notin r.todo)) => Settled(r, c, n)

WentWell(rec, r) ==
    /\ rec # NoRecord => rec.config = r.seen
    /\ LicensesSoFar(r)
    /\ DatabasesSoFar(r)

SmoothRuns == \A p \in Runs : smooth[p] /\ Running(p) => WentWell(record, run[p])

\* What RetryHeals says of the run that ends.
Healed(p) ==
    record' # NoRecord =>
        \A c \in Clusters : \A n \in record'.config[c] :
            \/ <<c, n, "active">> \in record'.databaseStates /\ n \in cloud'.databases[c]
            \/ <<c, n, "trial">> \in record'.databaseStates /\ c \notin Licensed

LEMMA StartedWell ==
  ASSUME NEW config \in Configs, NEW endpoint \in BOOLEAN
  PROVE  LET r == Started(config, endpoint)
         IN  r.seen = config /\ (r.pc # "idle" => LicensesSoFar(r) /\ DatabasesSoFar(r))
<1> DEFINE r == Started(config, endpoint)
           D == WithDatabases(config)
<1>1. D \in SUBSET Clusters /\ Licensed \in SUBSET Clusters
  BY ProvisioningAssumption DEF WithDatabases
<1>2. CASE Licensed # {}
  <2>1. /\ r.pc = "license" /\ r.seen = config /\ r.cluster = First(Licensed)
    BY <1>2 DEF Started, Idle
  <2>2. \A c \in Licensed : ~(c < First(Licensed))
    <3>1. First(Licensed) \in Licensed /\ \A c \in Licensed : First(Licensed) <= c
      BY <1>1, <1>2, FirstIsLeast
    <3>2. Licensed \subseteq 1..NumClusters /\ First(Licensed) \in 1..NumClusters
      BY <1>1, <3>1 DEF Clusters
    <3> HIDE DEF D, r
    <3>3. \A c \in 1..NumClusters : First(Licensed) <= c => ~(c < First(Licensed))
      BY <3>2
    <3> QED
      BY <3>1, <3>2, <3>3
  <2> QED
    BY <2>1, <2>2 DEF LicensesSoFar, DatabasesSoFar
<1>3. CASE Licensed = {} /\ D # {}
  <2>1. r.pc = "list" /\ r.seen = config /\ r.cluster = First(D)
    BY <1>3 DEF Started, AtCluster, Idle
  <2>2. \A c \in Clusters : c < First(D) => config[c] = {}
    BY <1>1, <1>3, FirstIsLeast DEF Clusters, WithDatabases
  <2> QED
    BY <1>3, <2>1, <2>2 DEF LicensesSoFar, DatabasesSoFar
<1>4. CASE Licensed = {} /\ D = {}
  BY <1>4 DEF Started, Idle
<1> QED
  BY <1>2, <1>3, <1>4

\* The license loop: r is the run with the license of its cluster applied.
LEMMA LicenseDoneWell ==
  ASSUME TypeOK, NEW p \in Runs, NEW r \in RunRecords, LicenseDone(p, r),
         r.pc = "license", LicensesSoFar(r), <<r.cluster, "applied">> \in r.licenses,
         record # NoRecord => record.config = r.seen
  PROVE  /\ run'[p].pc # "idle" => WentWell(record', run'[p])
         /\ run'[p].pc = "idle" => Healed(p)
<1> DEFINE L == Later(Licensed, r.cluster)
           D == WithDatabases(r.seen)
<1>1. D \in SUBSET Clusters /\ Licensed \in SUBSET Clusters /\ r.cluster \in Clusters
  BY ProvisioningAssumption DEF WithDatabases, RunRecords
<1>2. \A c \in Licensed : c \notin L => <<c, "applied">> \in r.licenses
  BY <1>1 DEF Later, LicensesSoFar, Clusters
<1>3. Kept(record, record')
  BY LicenseDoneKeeps
<1>4. record' # NoRecord => record'.config = r.seen
  BY <1>3 DEF Kept
<1>5. CASE L # {}
  <2>1. run'[p] = [r EXCEPT !.cluster = First(L)]
    BY <1>5 DEF LicenseDone, TypeOK
  <2>2. \A c \in Licensed : c < First(L) => c \notin L
    BY <1>1, <1>5, LaterClusters, FirstIsLeast DEF Clusters
  <2>3. /\ run'[p].pc = "license" /\ run'[p].seen = r.seen
        /\ run'[p].licenses = r.licenses /\ run'[p].cluster = First(L)
    BY <2>1 DEF RunRecords
  <2>4. LicensesSoFar(run'[p]) /\ DatabasesSoFar(run'[p])
    BY <1>2, <2>2, <2>3 DEF LicensesSoFar, DatabasesSoFar
  <2> QED
    BY <1>4, <2>3, <2>4 DEF WentWell
<1>6. CASE L = {} /\ D # {}
  <2>1. run'[p] = AtCluster(r, First(D))
    BY <1>6 DEF LicenseDone, TypeOK
  <2>2. \A c \in Clusters : c < First(D) => r.seen[c] = {}
    BY <1>1, <1>6, FirstIsLeast DEF Clusters, WithDatabases
  <2>3. /\ run'[p].pc = "list" /\ run'[p].seen = r.seen
        /\ run'[p].licenses = r.licenses /\ run'[p].cluster = First(D)
    BY <2>1 DEF RunRecords, AtCluster
  <2>4. LicensesSoFar(run'[p]) /\ DatabasesSoFar(run'[p])
    BY <1>2, <1>6, <2>2, <2>3 DEF LicensesSoFar, DatabasesSoFar
  <2> QED
    BY <1>4, <2>3, <2>4 DEF WentWell
<1>7. CASE L = {} /\ D = {}
  <2>1. run'[p] = Idle
    BY <1>7 DEF LicenseDone, TypeOK
  <2>2. \A c \in Clusters : r.seen[c] = {}
    BY <1>7 DEF WithDatabases
  <2> QED
    BY <1>4, <2>1, <2>2 DEF Idle, Healed
<1> QED
  BY <1>5, <1>6, <1>7

\* The database loop: r is the run after a step on its cluster.
LEMMA DatabasesDoneWell ==
  ASSUME TypeOK, NEW p \in Runs, NEW r \in RunRecords, DatabasesDone(p, r),
         r.pc = "post", LicensesSoFar(r), DatabasesSoFar(r), ActiveIn(r.databases, cloud'),
         record # NoRecord => record.config = r.seen
  PROVE  /\ run'[p].pc # "idle" => WentWell(record', run'[p])
         /\ run'[p].pc = "idle" => Healed(p)
<1> DEFINE D == Later(WithDatabases(r.seen), r.cluster)
<1>1. D \in SUBSET Clusters /\ D \subseteq WithDatabases(r.seen) /\ r.cluster \in Clusters
  BY DEF WithDatabases, RunRecords, Later
<1>2. Kept(record, record')
  BY LicenseDoneKeeps
<1>3. record' # NoRecord => record'.config = r.seen
  BY <1>2 DEF Kept
<1>4. CASE r.todo # {}
  <2>1. run'[p] = r
    BY <1>4 DEF DatabasesDone, TypeOK
  <2> QED
    BY <1>3, <2>1 DEF WentWell
<1>5. ASSUME r.todo = {}, NEW c \in Clusters, c \notin D, NEW n \in r.seen[c]
      PROVE  Settled(r, c, n)
  <2>1. c \in WithDatabases(r.seen)
    BY <1>5 DEF WithDatabases
  <2>2. c < r.cluster \/ c = r.cluster
    BY <1>1, <1>5, <2>1 DEF Later, Clusters
  <2> QED
    BY <1>5, <2>2 DEF DatabasesSoFar
<1>6. CASE r.todo = {} /\ D # {}
  <2>1. run'[p] = AtCluster(r, First(D))
    BY <1>6 DEF DatabasesDone, TypeOK
  <2>2. \A c \in Clusters : c < First(D) => c \notin D
    BY <1>1, <1>6, FirstIsLeast DEF Clusters
  <2>3. /\ run'[p].pc = "list" /\ run'[p].seen = r.seen /\ run'[p].databases = r.databases
        /\ run'[p].licenses = r.licenses /\ run'[p].cluster = First(D)
    BY <2>1 DEF RunRecords, AtCluster
  <2>4. LicensesSoFar(run'[p])
    BY <2>3 DEF LicensesSoFar
  <2>5. DatabasesSoFar(run'[p])
    <3> HIDE DEF D
    <3> QED
      BY <1>5, <1>6, <2>2, <2>3 DEF DatabasesSoFar, Settled
  <2> QED
    BY <1>3, <2>3, <2>4, <2>5 DEF WentWell
<1>7. CASE r.todo = {} /\ D = {}
  <2>1. run'[p] = Idle /\ record' = MarkReady(p, WithDatabaseStates(record, r.databases))
    BY <1>7 DEF DatabasesDone, TypeOK
  <2>2. ASSUME record' # NoRecord
        PROVE  record'.databaseStates = r.databases
    <3>1. record \in Records /\ record # NoRecord
      BY <1>2, <2>2 DEF Kept, TypeOK
    <3> QED
      BY <2>1, <3>1 DEF WithDatabaseStates, MarkReady, Records
  <2>3. ASSUME NEW c \in Clusters, NEW n \in r.seen[c]
        PROVE  Settled(r, c, n) /\ n \in Names
    BY <1>5, <1>7 DEF RunRecords, Configs
  <2>4. Healed(p)
    BY <1>3, <2>2, <2>3 DEF Healed, Settled, ActiveIn
  <2> QED
    BY <2>1, <2>4 DEF Idle
<1> QED
  BY <1>4, <1>6, <1>7

LEMMA BeginWell ==
  ASSUME TypeOK, SmoothRuns, NEW p \in Runs, NEW rec \in Records, Begin(p, rec)
  PROVE  SmoothRuns'
<1> DEFINE r == Started(rec.config, rec.endpoint)
<1>1. rec.config \in Configs /\ rec.endpoint \in BOOLEAN
  BY DEF Records
<1>2. r.seen = rec.config /\ (r.pc # "idle" => LicensesSoFar(r) /\ DatabasesSoFar(r))
  BY <1>1, StartedWell
<1>3. r.pc # "idle" => record' = rec
  BY DEF Begin
<1>4. run' = [run EXCEPT ![p] = r]
  BY DEF Begin
<1>5. ASSUME NEW q \in Runs, smooth'[q], run'[q].pc # "idle"
      PROVE  WentWell(record', run'[q])
  <2>1. q = p
    <3>1. q # p => smooth'[q] = (smooth[q] /\ ~Running(q)) /\ run'[q] = run[q]
      BY <1>4 DEF Begin, TypeOK
    <3> QED
      BY <1>5, <3>1 DEF Running
  <2>2. run'[q] = r
    BY <1>4, <2>1 DEF TypeOK
  <2> HIDE DEF r
  <2> QED
    BY <1>2, <1>3, <1>5, <2>2 DEF WentWell
<1> QED
  BY <1>5 DEF SmoothRuns, Running

\* Another run's calls leave a run as it is, and the configuration too.
LEMMA OthersWell ==
  ASSUME TypeOK, SmoothRuns, NEW p \in Runs, NEW well, NEW possible, Went(p, well, possible),
         Kept(record, record'), \A q \in Runs \ {p} : run'[q] = run[q],
         (smooth[p] /\ well /\ run'[p].pc # "idle") => WentWell(record', run'[p])
  PROVE  SmoothRuns'
<1>1. /\ \A q \in Runs \ {p} : smooth'[q] = smooth[q]
      /\ smooth'[p] = (smooth[p] /\ well)
  BY DEF Went, TypeOK
<1>2. ASSUME NEW q \in Runs, smooth'[q], run'[q].pc # "idle"
      PROVE  WentWell(record', run'[q])
  <2>1. CASE q = p
    BY <1>1, <1>2, <2>1
  <2>2. CASE q # p
    <3>1. WentWell(record, run[q]) /\ run'[q] = run[q]
      BY <1>1, <1>2, <2>2 DEF SmoothRuns, Running
    <3> QED
      BY <3>1 DEF WentWell, Kept
  <2> QED
    BY <2>1, <2>2
<1> QED
  BY <1>2 DEF SmoothRuns, Running

LEMMA OthersSame ==
  ASSUME TypeOK, NEW p \in Runs, NEW r, LicenseDone(p, r) \/ DatabasesDone(p, r)
  PROVE  \A q \in Runs \ {p} : run'[q] = run[q]
BY DEF LicenseDone, DatabasesDone, TypeOK

\* What a call must show: that the runs still went well, and that RetryHeals
\* holds of the run if this was its last call.
CallGoal(p) ==
    /\ SmoothRuns'
    /\ Running(p) /\ run'[p].pc = "idle" /\ smooth'[p] => Healed(p)

LEMMA CallGoalFrom ==
  ASSUME TypeOK, SmoothRuns, NEW p \in Runs, Call(p), NEW well, NEW possible,
         Went(p, well, possible), \A q \in Runs \ {p} : run'[q] = run[q],
         (smooth[p] /\ well) =>
            /\ run'[p].pc # "idle" => WentWell(record', run'[p])
            /\ run'[p].pc = "idle" => Healed(p)
  PROVE  CallGoal(p)
<1>1. Kept(record, record')
  BY CallKeeps
<1>2. SmoothRuns'
  BY <1>1, OthersWell
<1>3. smooth'[p] = (smooth[p] /\ well)
  BY DEF Went, TypeOK
<1> QED
  BY <1>2, <1>3 DEF CallGoal

LEMMA PutLicenseWell ==
  ASSUME TypeOK, SmoothRuns, NEW p \in Runs, PutLicense(p)
  PROVE  CallGoal(p)
<1> DEFINE c == run[p].cluster
<1>1. run[p] \in RunRecords /\ c \in Clusters /\ run[p].pc = "license"
  BY DEF TypeOK, RunRecords, PutLicense
<1>2. PICK effect \in BOOLEAN, answered \in BOOLEAN :
        /\ Went(p, answered, Reachable(p))
        /\ LicenseDone(p, [run[p] EXCEPT !.licenses =
              @ \cup {<<c, IF answered THEN "applied" ELSE "failed">>}])
  BY DEF PutLicense
<1> DEFINE s == <<c, IF answered THEN "applied" ELSE "failed">>
           r == [run[p] EXCEPT !.licenses = @ \cup {s}]
<1>3. s \in LicenseStates
  BY <1>1 DEF LicenseStates
<1>4. answered => s = <<c, "applied">>
  OBVIOUS
<1>5. LicenseDone(p, r)
  BY <1>2
<1> HIDE DEF s
<1>6. r \in RunRecords
  BY <1>1, <1>3 DEF RunRecords
<1>7. /\ r.pc = "license" /\ r.cluster = c /\ r.seen = run[p].seen
      /\ r.licenses = run[p].licenses \cup {s}
  BY <1>1 DEF RunRecords
<1> HIDE DEF r
<1>8. ASSUME smooth[p], answered
      PROVE  /\ run'[p].pc # "idle" => WentWell(record', run'[p])
             /\ run'[p].pc = "idle" => Healed(p)
  <2>1. WentWell(record, run[p])
    BY <1>1, <1>8 DEF SmoothRuns, Running
  <2>2. LicensesSoFar(r)
    BY <1>1, <1>7, <2>1 DEF WentWell, LicensesSoFar
  <2>3. <<r.cluster, "applied">> \in r.licenses
    BY <1>4, <1>7, <1>8
  <2>4. record # NoRecord => record.config = r.seen
    BY <1>7, <2>1 DEF WentWell
  <2> QED
    BY <1>5, <1>6, <1>7, <2>2, <2>3, <2>4, LicenseDoneWell
<1>9. Call(p) /\ \A q \in Runs \ {p} : run'[q] = run[q]
  BY <1>5, OthersSame DEF Call
<1> QED
  BY <1>2, <1>8, <1>9, CallGoalFrom

LEMMA ListDatabasesWell ==
  ASSUME TypeOK, Truthful, Truthful', SmoothRuns, NEW p \in Runs, ListDatabases(p)
  PROVE  CallGoal(p)
<1> DEFINE c == run[p].cluster
           wanted == run[p].seen[c]
<1>1. run[p] \in RunRecords /\ c \in Clusters /\ wanted \in SUBSET Names /\ run[p].pc = "list"
  BY DEF TypeOK, RunRecords, Configs, ListDatabases
<1>2. Call(p)
  BY DEF Call
<1>3. CASE ~run[p].endpoint
  <2> DEFINE r == [run[p] EXCEPT !.databases = @ \cup {<<c, n, "failed">> : n \in wanted}]
  <2>1. DatabasesDone(p, r) /\ Went(p, FALSE, FALSE)
    BY <1>3 DEF ListDatabases
  <2> HIDE DEF r
  <2>2. \A q \in Runs \ {p} : run'[q] = run[q]
    BY <2>1, OthersSame
  <2> QED
    BY <1>2, <2>1, <2>2, CallGoalFrom
<1>4. CASE run[p].endpoint
  <2>1. PICK answered \in BOOLEAN :
          LET existing == IF answered THEN cloud.databases[c] ELSE {}
          IN  /\ answered => Reachable(p)
              /\ DatabasesDone(p, [run[p] EXCEPT
                    !.pc = "post",
                    !.todo = wanted \ existing,
                    !.databases = @ \cup {<<c, n, "active">> : n \in wanted \cap existing}])
              /\ Went(p, answered, Reachable(p))
    BY <1>4 DEF ListDatabases
  <2> DEFINE existing == IF answered THEN cloud.databases[c] ELSE {}
             new == {<<c, n, "active">> : n \in wanted \cap existing}
             r == [run[p] EXCEPT !.pc = "post", !.todo = wanted \ existing, !.databases = @ \cup new]
  <2>2. new \subseteq DatabaseStates
    BY <1>1 DEF DatabaseStates
  <2>3. \A n \in wanted : n \notin wanted \ existing => <<c, n, "active">> \in new
    OBVIOUS
  <2>4. answered => ActiveIn(new, cloud)
    BY DEF ActiveIn
  <2>5. DatabasesDone(p, r)
    BY <2>1
  <2> HIDE DEF new, existing
  <2>6. r \in RunRecords
    BY <1>1, <2>2 DEF RunRecords
  <2>7. /\ r.pc = "post" /\ r.cluster = c /\ r.seen = run[p].seen
        /\ r.todo = wanted \ existing
        /\ r.licenses = run[p].licenses /\ r.databases = run[p].databases \cup new
    BY <1>1 DEF RunRecords
  <2> HIDE DEF r
  <2>8. ASSUME smooth[p], answered
        PROVE  /\ run'[p].pc # "idle" => WentWell(record', run'[p])
               /\ run'[p].pc = "idle" => Healed(p)
    <3>1. WentWell(record, run[p])
      BY <1>1, <2>8 DEF SmoothRuns, Running
    <3>2. LicensesSoFar(r)
      BY <1>1, <2>7, <3>1 DEF WentWell, LicensesSoFar
    <3>3. DatabasesSoFar(r)
      BY <1>1, <2>3, <2>7, <3>1 DEF WentWell, DatabasesSoFar, Settled
    <3>4. record # NoRecord => record.config = r.seen
      BY <2>7, <3>1 DEF WentWell
    <3>5. cloud' = cloud /\ cloud.up
      BY <2>1, <2>8 DEF ListDatabases, Reachable
    <3>6. ActiveIn(run[p].databases, cloud)
      BY <3>5 DEF Truthful, RunOK
    <3>7. ActiveIn(r.databases, cloud')
      BY <2>4, <2>7, <2>8, <3>5, <3>6 DEF ActiveIn
    <3> QED
      BY <2>5, <2>6, <2>7, <3>2, <3>3, <3>4, <3>7, DatabasesDoneWell
  <2>9. \A q \in Runs \ {p} : run'[q] = run[q]
    BY <2>5, OthersSame
  <2> QED
    BY <1>2, <2>1, <2>8, <2>9, CallGoalFrom
<1> QED
  BY <1>1, <1>3, <1>4 DEF RunRecords

LEMMA PostDatabaseWell ==
  ASSUME TypeOK, Truthful, SmoothRuns, NEW p \in Runs, PostDatabase(p)
  PROVE  CallGoal(p)
<1> DEFINE c == run[p].cluster
           state(outcome) == CASE outcome = "created" -> "active"
                               [] outcome = "trial" -> "trial"
                               [] OTHER -> "failed"
<1>1. run[p] \in RunRecords /\ c \in Clusters /\ run[p].todo \in SUBSET Names /\ run[p].pc = "post"
  BY DEF TypeOK, RunRecords, PostDatabase
<1>2. PICK n \in run[p].todo, outcome \in {"created", "lost", "trial", "failed"} :
        /\ outcome \in {"created", "lost"} => Reachable(p)
        /\ outcome = "trial" => Reachable(p) /\ OverTrial(c)
        /\ cloud' = IF outcome \in {"created", "lost"}
                    THEN [cloud EXCEPT !.databases[c] = @ \cup {n}] ELSE cloud
        /\ Went(p, outcome \in {"created", "trial"},
                Reachable(p) /\ n \notin cloud.databases[c] /\ ~OverTrial(c))
        /\ DatabasesDone(p, [run[p] EXCEPT !.todo = @ \ {n},
                                           !.databases = @ \cup {<<c, n, state(outcome)>>}])
  BY DEF PostDatabase
<1> DEFINE s == <<c, n, state(outcome)>>
           r == [run[p] EXCEPT !.todo = @ \ {n}, !.databases = @ \cup {s}]
           well == outcome \in {"created", "trial"}
<1>3. /\ outcome = "created" => s = <<c, n, "active">>
      /\ outcome = "trial" => s = <<c, n, "trial">>
      /\ state(outcome) \in {"active", "failed", "trial"}
  OBVIOUS
<1>4. DatabasesDone(p, r)
  BY <1>2
<1>5. s \in DatabaseStates
  BY <1>1, <1>3 DEF DatabaseStates
<1> HIDE DEF state, s
<1>6. r \in RunRecords
  BY <1>1, <1>5 DEF RunRecords
<1>7. /\ r.pc = "post" /\ r.cluster = c /\ r.seen = run[p].seen
      /\ r.todo = run[p].todo \ {n}
      /\ r.licenses = run[p].licenses /\ r.databases = run[p].databases \cup {s}
  BY <1>1 DEF RunRecords
<1> HIDE DEF r
<1>8. ASSUME smooth[p], well
      PROVE  /\ run'[p].pc # "idle" => WentWell(record', run'[p])
             /\ run'[p].pc = "idle" => Healed(p)
  <2>1. WentWell(record, run[p])
    BY <1>1, <1>8 DEF SmoothRuns, Running
  <2>2. cloud.up /\ cloud \in Clouds /\ RunOK(run[p], cloud)
    BY <1>2, <1>8 DEF Reachable, Truthful, TypeOK, Clouds
  <2>3. outcome = "trial" => c \notin Licensed
    <3>1. c \in Licensed => c \in cloud.licensed
      BY <1>1, <2>1, <2>2 DEF WentWell, LicensesSoFar, RunOK
    <3> QED
      BY <1>2, <3>1 DEF OverTrial
  <2>4. Settled(r, c, n)
    BY <1>3, <1>7, <1>8, <2>3 DEF Settled
  <2>5. LicensesSoFar(r)
    BY <1>1, <1>7, <2>1 DEF WentWell, LicensesSoFar
  <2>6. DatabasesSoFar(r)
    BY <1>1, <1>7, <2>1, <2>4 DEF WentWell, DatabasesSoFar, Settled
  <2>7. record # NoRecord => record.config = r.seen
    BY <1>7, <2>1 DEF WentWell
  <2>8. ActiveIn(r.databases, cloud')
    <3>1. /\ \A d \in Clusters : cloud.databases[d] \subseteq cloud'.databases[d]
          /\ outcome = "created" => n \in cloud'.databases[c]
      BY <1>1, <1>2, <2>2 DEF Clouds, Configs
    <3> QED
      BY <1>3, <1>7, <1>8, <2>2, <3>1 DEF ActiveIn, RunOK
  <2> QED
    BY <1>4, <1>6, <1>7, <2>5, <2>6, <2>7, <2>8, DatabasesDoneWell
<1>9. Call(p) /\ \A q \in Runs \ {p} : run'[q] = run[q]
  BY <1>4, OthersSame DEF Call
<1>10. Went(p, well, Reachable(p) /\ n \notin cloud.databases[c] /\ ~OverTrial(c))
  BY <1>2
<1> HIDE DEF well
<1> QED
  BY <1>8, <1>9, <1>10, CallGoalFrom

\* Every run that had the clusters to itself, and whose calls were answered,
\* goes well up to where it is.
LEMMA SmoothInductive == Spec => []SmoothRuns
<1>1. Init => SmoothRuns
  BY DEF Init, SmoothRuns
<1>2. TypeOK /\ Truthful /\ Truthful' /\ SmoothRuns /\ [Next]_vars => SmoothRuns'
  <2> SUFFICES ASSUME TypeOK, Truthful, Truthful', SmoothRuns, [Next]_vars
               PROVE  SmoothRuns'
    OBVIOUS
  <2>1. CASE WatcherSeesCluster
    <3>1. record \in Records /\ Watcher \in Runs
      BY <2>1 DEF WatcherSeesCluster, TypeOK, Runs
    <3> QED
      BY <2>1, <3>1, BeginWell DEF WatcherSeesCluster
  <2>2. CASE \E p \in Requests, rows \in Edits : Reconcile(p, rows)
    <3>1. PICK p \in Requests, rows \in Edits : Reconcile(p, rows)
      BY <2>2
    <3> DEFINE rec == [record EXCEPT !.config = Edited(record.config, rows)]
    <3>2. rec \in Records /\ p \in Runs /\ Begin(p, rec)
      BY <3>1, EditedType DEF Reconcile, Runs
    <3> HIDE DEF rec
    <3> QED
      BY <3>2, BeginWell
  <2>3. CASE \E p \in Runs : Call(p)
    BY <2>3, PutLicenseWell, ListDatabasesWell, PostDatabaseWell DEF Call, CallGoal
  <2>4. CASE \/ \E ready \in BOOLEAN : Health(ready)
             \/ WatcherGivesUp \/ DestroyStart \/ Forget \/ UNCHANGED vars
             \/ \E succeeds \in BOOLEAN : DestroyEnd(succeeds)
    <3>1. run' = run /\ smooth' = smooth
      BY <2>4 DEF Health, WatcherGivesUp, DestroyStart, Forget, DestroyEnd, vars
    <3>2. record' # NoRecord => record # NoRecord /\ record'.config = record.config
      <4>1. CASE \E ready \in BOOLEAN : Health(ready)
        BY <4>1 DEF Health, TypeOK, Records
      <4>2. CASE WatcherGivesUp \/ DestroyStart
        BY <4>2 DEF WatcherGivesUp, DestroyStart, TypeOK, Records
      <4>3. CASE Forget \/ UNCHANGED vars
        BY <4>3 DEF Forget, vars
      <4>4. CASE \E succeeds \in BOOLEAN : DestroyEnd(succeeds)
        BY <4>4 DEF DestroyEnd, TypeOK, Records
      <4> QED
        BY <2>4, <4>1, <4>2, <4>3, <4>4
    <3> QED
      BY <3>1, <3>2 DEF SmoothRuns, WentWell, Running
  <2>5. CASE Restart
    BY <2>5 DEF Restart, SmoothRuns
  <2> QED
    BY <2>1, <2>2, <2>3, <2>4, <2>5 DEF Next
<1> QED
  BY <1>1, <1>2, TypeCorrect, TruthfulInductive, PTL DEF Spec

\* Provisioning may be called again: whatever earlier runs left undone or
\* half done, a run that had the clusters to itself and whose calls were
\* answered ends with every configured database active, in the record and on
\* its cluster, except those the trial license does not allow.
THEOREM RetryHealsCorrect == Spec => RetryHeals
<1>1. ASSUME TypeOK, Truthful, Truthful', SmoothRuns, [Next]_vars, NEW p \in Runs,
             Running(p), run'[p].pc = "idle", smooth'[p]
      PROVE  Healed(p)
  <2>1. CASE \E q \in Runs : Call(q)
    <3>1. PICK q \in Runs : Call(q)
      BY <2>1
    <3>2. q = p
      BY <1>1, <3>1, OthersSame
        DEF Call, PutLicense, ListDatabases, PostDatabase, Running
    <3> QED
      BY <1>1, <3>1, <3>2, PutLicenseWell, ListDatabasesWell, PostDatabaseWell DEF Call, CallGoal
  <2>2. CASE \E q \in Requests, rows \in Edits : Reconcile(q, rows)
    BY <1>1, <2>2 DEF Reconcile, Begin, Running, TypeOK, Runs
  <2>3. CASE WatcherSeesCluster
    BY <1>1, <2>3 DEF WatcherSeesCluster, Begin, Running, TypeOK, Runs
  <2>4. CASE Restart
    BY <1>1, <2>4 DEF Restart
  <2>5. CASE \/ \E ready \in BOOLEAN : Health(ready)
             \/ WatcherGivesUp \/ DestroyStart \/ Forget \/ UNCHANGED vars
             \/ \E succeeds \in BOOLEAN : DestroyEnd(succeeds)
    BY <1>1, <2>5 DEF Health, WatcherGivesUp, DestroyStart, Forget, DestroyEnd, vars, Running
  <2> QED
    BY <1>1, <2>1, <2>2, <2>3, <2>4, <2>5 DEF Next
<1>2. TypeOK /\ Truthful /\ Truthful' /\ SmoothRuns /\ [Next]_vars =>
        \A p \in Runs :
          (Running(p) /\ run'[p].pc = "idle" /\ smooth'[p] /\ record' # NoRecord) =>
              \A c \in Clusters : \A n \in record'.config[c] :
                  \/ <<c, n, "active">> \in record'.databaseStates /\ n \in cloud'.databases[c]
                  \/ <<c, n, "trial">> \in record'.databaseStates /\ c \notin Licensed
  BY <1>1 DEF Healed
<1> QED
  BY <1>2, TypeCorrect, TruthfulInductive, SmoothInductive, PTL DEF RetryHeals, Spec

=============================================================================
