----------------------- MODULE InstanceLifecycleProofs -----------------------
(***************************************************************************)
(* What holds of InstanceLifecycle for any number of clients and of        *)
(* workers, all configurations and bounds.  The inductive invariant is     *)
(* Lifecycle: the checked invariants TypeOK, OneTerraform, JobHasRecord    *)
(* and StatusHasOwner, and Remembered, which says what the records held    *)
(* across an await are.                                                    *)
(***************************************************************************)
EXTENDS InstanceLifecycle, TLAPS

(***************************************************************************)
(* What the server remembers across an await: collectOutputs and retry     *)
(* hold a record, recreate one that said destroyed.  They write it back.   *)
(***************************************************************************)
Remembered ==
  /\ \A w \in Workers : worker[w].pc = "outputs" => worker[w].seen # NoRecord
  /\ \A c \in Clients : request[c].pc \in {"retry", "recreate"} => request[c].seen # NoRecord
  /\ \A c \in Clients : request[c].pc = "recreate" => request[c].seen.status = "destroyed"

Lifecycle == TypeOK /\ OneTerraform /\ JobHasRecord /\ StatusHasOwner /\ Remembered

-----------------------------------------------------------------------------
(* Types, piece by piece.                                                  *)

LEMMA SetStatusType ==
  ASSUME record \in Record, NEW s \in Statuses, SetStatus(s)
  PROVE  /\ record' \in Record
         /\ record'.status = s
         /\ record'.cfg = record.cfg
         /\ record'.endpoints = record.endpoints
BY DEF SetStatus, Record

LEMMA ProbingType ==
  ASSUME TypeOK, NEW n \in 1 .. MaxPolls, NEW r \in Record \cup {NoRecord}
  PROVE  Probing(n, r) \in WatcherState
BY BoundsAssumption DEF Probing, TypeOK, WatcherState

LEMMA IdleTypes ==
  /\ NoWatcher \in WatcherState
  /\ NoRequest \in RequestState
  /\ IdleWorker \in WorkerState
BY BoundsAssumption DEF NoWatcher, NoRequest, IdleWorker, WatcherState, RequestState, WorkerState

LEMMA StartWatcherType ==
  ASSUME TypeOK, record' \in Record \cup {NoRecord}, StartWatcher
  PROVE  watcher' \in WatcherState /\ watcher'.pc # "off"
<1>1. CASE IsWatching
  BY <1>1 DEF StartWatcher, IsWatching, TypeOK
<1>2. CASE ~ IsWatching
  <2>1. 1 \in 1 .. MaxPolls
    BY BoundsAssumption
  <2>2. watcher' = Probing(1, record')
    BY <1>2 DEF StartWatcher
  <2> QED
    BY <2>1, <2>2, ProbingType DEF Probing
<1> QED
  BY <1>1, <1>2

LEMMA StartJobType ==
  ASSUME TypeOK, NEW kind \in {"apply", "destroy"}, StartJob(kind)
  PROVE  /\ jobs' \in {"none", "apply", "destroy"}
         /\ worker' \in [Workers -> WorkerState]
<1>1. CASE /\ jobs' = kind
           /\ \E w \in Workers :
                worker' = [worker EXCEPT ![w].pc = "queued", ![w].kind = kind]
  <2>1. PICK w \in Workers : worker' = [worker EXCEPT ![w].pc = "queued", ![w].kind = kind]
    BY <1>1
  <2>2. [worker[w] EXCEPT !.pc = "queued", !.kind = kind] \in WorkerState
    BY DEF TypeOK, WorkerState
  <2> QED
    BY <1>1, <2>1, <2>2 DEF TypeOK
<1>2. CASE UNCHANGED <<jobs, worker>>
  BY <1>2 DEF TypeOK
<1> QED
  BY <1>1, <1>2 DEF StartJob

LEMMA EndJobType ==
  ASSUME TypeOK, NEW w \in Workers, EndJob(w)
  PROVE  jobs' = "none" /\ worker' \in [Workers -> WorkerState]
BY IdleTypes DEF EndJob, TypeOK

LEMMA AnswerType ==
  ASSUME TypeOK, NEW c \in Clients, Answer(c)
  PROVE  request' \in [Clients -> RequestState]
BY IdleTypes DEF Answer, TypeOK

LEMMA WaitType ==
  ASSUME TypeOK, NEW c \in Clients,
         NEW pc \in {"create", "retry", "recreate", "health"}, Wait(c, pc)
  PROVE  request' \in [Clients -> RequestState]
<1>1. [pc |-> pc, seen |-> record, up |-> formed] \in RequestState
  BY DEF TypeOK, RequestState
<1> QED
  BY <1>1 DEF Wait, TypeOK

(* What the status says of the record.                                     *)
LEMMA StatusOfRecord ==
  ASSUME TypeOK
  PROVE  /\ Status # "none" => record \in Record /\ Status = record.status
         /\ record # NoRecord => record \in Record /\ Status = record.status
         /\ Status \in Statuses \cup {"none"}
BY DEF Status, TypeOK, Record

-----------------------------------------------------------------------------
(* Type correctness, one step per action.                                  *)

LEMMA TypeInit == Init => TypeOK
<1> SUFFICES ASSUME Init PROVE TypeOK
  OBVIOUS
<1>1. restarts \in 0 .. MaxRestarts
  BY BoundsAssumption DEF Init
<1>2. /\ worker \in [Workers -> WorkerState]
      /\ watcher \in WatcherState
      /\ request \in [Clients -> RequestState]
  BY IdleTypes DEF Init
<1>3. /\ record \in Record \cup {NoRecord}
      /\ workspace \in Configs \cup {NoConfig}
      /\ cloud \in Configs \cup {NoConfig}
      /\ jobs \in {"none", "apply", "destroy"}
  BY DEF Init
<1>4. tfState \in BOOLEAN /\ formed \in BOOLEAN /\ provisioned \in BOOLEAN
  BY DEF Init
<1> QED
  BY <1>1, <1>2, <1>3, <1>4 DEF TypeOK

LEMMA TypeWorker ==
  ASSUME TypeOK, NEW w \in Workers, Worker(w),
         worker[w].pc = "outputs" => worker[w].seen # NoRecord
  PROVE  TypeOK'
<1> USE DEF disk, cluster
<1>0. record # NoRecord => record \in Record
  BY DEF TypeOK
<1>1. CASE JobWithoutRecord(w)
  BY <1>1, EndJobType DEF JobWithoutRecord, TypeOK
<1>2. CASE ApplyStart(w)
  <2>1. record' \in Record
    BY <1>0, <1>2, SetStatusType DEF ApplyStart, Statuses
  <2>2. worker' \in [Workers -> WorkerState]
    <3>1. [worker[w] EXCEPT !.pc = "terraform"] \in WorkerState
      BY DEF TypeOK, WorkerState
    <3> QED
      BY <1>2, <3>1 DEF ApplyStart, TypeOK
  <2>3. formed' \in BOOLEAN /\ provisioned' \in BOOLEAN
    BY <1>2 DEF ApplyStart, TypeOK
  <2> QED
    BY <1>2, <2>1, <2>2, <2>3 DEF ApplyStart, TypeOK
<1>3. CASE ApplySucceeds(w)
  <2>1. [worker[w] EXCEPT !.pc = "outputs", !.seen = record] \in WorkerState
    BY DEF TypeOK, WorkerState
  <2>2. worker' = [worker EXCEPT ![w] = [worker[w] EXCEPT !.pc = "outputs", !.seen = record]]
    BY <1>3 DEF ApplySucceeds, TypeOK
  <2> QED
    BY <1>3, <2>1, <2>2 DEF ApplySucceeds, TypeOK
<1>4. CASE ApplyEnd(w)
  <2>1. worker[w].seen \in Record
    BY <1>4 DEF ApplyEnd, TypeOK, WorkerState
  <2>2. PICK kept \in {[worker[w].seen EXCEPT !.endpoints = TRUE], record} :
          IF kept.cfg \in AppOnlyConfigs
          THEN /\ \E s \in {"ready", "failed"} : record' = [kept EXCEPT !.status = s]
               /\ UNCHANGED watcher
          ELSE /\ record' = [kept EXCEPT !.status = "bootstrapping"]
               /\ StartWatcher
    BY <1>4 DEF ApplyEnd
  <2>3. kept \in Record
    BY <1>0, <1>4, <2>1 DEF ApplyEnd, Record
  <2>4. record' \in Record
    BY <2>2, <2>3 DEF Record, Statuses
  <2>5. watcher' \in WatcherState
    BY <2>2, <2>4, StartWatcherType DEF TypeOK
  <2> QED
    BY <1>4, <2>4, <2>5, EndJobType DEF ApplyEnd, TypeOK
<1>5. CASE DestroyStart(w)
  <2>1. record' \in Record
    BY <1>0, <1>5 DEF DestroyStart, SetStatus, Record, Statuses
  <2>2. jobs' \in {"none", "apply", "destroy"} /\ worker' \in [Workers -> WorkerState]
    <3>1. [worker[w] EXCEPT !.pc = "terraform"] \in WorkerState
      BY DEF TypeOK, WorkerState
    <3> QED
      BY <1>5, <3>1, EndJobType DEF DestroyStart, TypeOK
  <2> QED
    BY <1>5, <2>1, <2>2 DEF DestroyStart, TypeOK
<1>6. CASE DestroySucceeds(w)
  <2>1. record' \in Record \cup {NoRecord}
    BY <1>0, <1>6 DEF DestroySucceeds, Record, Statuses
  <2> QED
    BY <1>6, <2>1, EndJobType DEF DestroySucceeds, TypeOK
<1>7. CASE JobFails(w)
  <2>1. record' \in Record \cup {NoRecord}
    BY <1>0, <1>7 DEF JobFails, SetStatus, Record, Statuses
  <2> QED
    BY <1>7, <2>1, EndJobType DEF JobFails, TypeOK
<1> QED
  BY <1>1, <1>2, <1>3, <1>4, <1>5, <1>6, <1>7 DEF Worker

LEMMA WatchFinishType ==
  ASSUME TypeOK, WatchFinish
  PROVE  record' \in Record \cup {NoRecord} /\ watcher' \in WatcherState
<1>1. record' \in Record \cup {NoRecord}
  <2>1. CASE Status \notin {"none", "destroying", "destroyed", "failed"}
    BY <2>1, SetStatusType, StatusOfRecord DEF WatchFinish, Statuses
  <2>2. CASE Status \in {"none", "destroying", "destroyed", "failed"}
    BY <2>2 DEF WatchFinish, TypeOK
  <2> QED
    BY <2>1, <2>2
<1> QED
  BY <1>1, IdleTypes DEF WatchFinish

LEMMA TypeWatcher ==
  ASSUME TypeOK, Watcher
  PROVE  TypeOK'
<1> USE DEF disk, cluster
<1>1. CASE WatchAgain
  <2>1. watcher.polls + 1 \in 1 .. MaxPolls
    BY <1>1, BoundsAssumption DEF WatchAgain, TypeOK, WatcherState
  <2>2. Probing(watcher.polls + 1, record) \in WatcherState
    BY <2>1, ProbingType DEF TypeOK
  <2> QED
    BY <1>1, <2>2, IdleTypes DEF WatchAgain, TypeOK
<1>2. CASE WatchTimeout
  <2>1. record' \in Record \cup {NoRecord}
    BY <1>2, SetStatusType, StatusOfRecord DEF WatchTimeout, TypeOK, Statuses
  <2> QED
    BY <1>2, <2>1, IdleTypes DEF WatchTimeout, TypeOK
<1>3. CASE WatchProbed
  <2>1. record' \in Record \cup {NoRecord}
    BY <1>3, SetStatusType, StatusOfRecord DEF WatchProbed, TypeOK, Statuses
  <2>2. [watcher EXCEPT !.pc = "sleeping"] \in WatcherState
    BY DEF TypeOK, WatcherState
  <2>3. \A phase \in {"licensing", "creating"} :
          [watcher EXCEPT !.pc = phase, !.seen = record] \in WatcherState
    BY DEF TypeOK, WatcherState
  <2>4. watcher' \in WatcherState
    <3>1. FirstPhase(record.cfg) # "done" => FirstPhase(record.cfg) \in {"licensing", "creating"}
      BY DEF FirstPhase
    <3> QED
      BY <1>3, <2>2, <2>3, <3>1, IdleTypes DEF WatchProbed
  <2> QED
    BY <1>3, <2>1, <2>4 DEF WatchProbed, TypeOK
<1>4. CASE WatchLicensed
  <2>1. [watcher EXCEPT !.pc = "creating"] \in WatcherState
    BY DEF TypeOK, WatcherState
  <2>2. record' \in Record \cup {NoRecord} /\ watcher' \in WatcherState
    BY <1>4, <2>1, WatchFinishType DEF WatchLicensed, TypeOK
  <2>3. provisioned' \in BOOLEAN
    BY <1>4 DEF WatchLicensed, SendResources, TypeOK
  <2> QED
    BY <1>4, <2>2, <2>3 DEF WatchLicensed, TypeOK
<1>5. CASE WatchCreated
  <2>1. provisioned' \in BOOLEAN
    BY <1>5 DEF WatchCreated, SendResources, TypeOK
  <2> QED
    BY <1>5, <2>1, WatchFinishType DEF WatchCreated, TypeOK
<1> QED
  BY <1>1, <1>2, <1>3, <1>4, <1>5 DEF Watcher

(* A handler that starts a job: what else it changes has its type already. *)
LEMMA StartJobKeepsType ==
  ASSUME TypeOK,
         NEW kind \in {"apply", "destroy"}, StartJob(kind),
         record' \in Record \cup {NoRecord},
         workspace' \in Configs \cup {NoConfig},
         request' \in [Clients -> RequestState],
         UNCHANGED <<tfState, cluster, watcher, restarts>>
  PROVE  TypeOK'
BY StartJobType DEF TypeOK, cluster

LEMMA TypeHandler ==
  ASSUME TypeOK, NEW c \in Clients, Handler(c),
         request[c].pc \in {"retry", "recreate"} => request[c].seen # NoRecord
  PROVE  TypeOK'
<1> USE DEF disk, cluster
<1>0. request[c] \in RequestState
  BY DEF TypeOK
<1>1. CASE Refused(c)
  BY <1>1, AnswerType DEF Refused, TypeOK
<1>2. CASE CreateBegin(c)
  BY <1>2, WaitType DEF CreateBegin, TypeOK
<1>3. CASE CreateEnd(c)
  <2>1. record' \in Record
    BY <1>3 DEF CreateEnd, Record, Statuses
  <2>2. workspace' \in Configs
    BY <1>3 DEF CreateEnd
  <2> QED
    BY <1>3, <2>1, <2>2, AnswerType, StartJobKeepsType DEF CreateEnd
<1>4. CASE Delete(c)
  BY <1>4, StartJobKeepsType DEF Delete, TypeOK
<1>5. CASE BulkDestroy(c)
  BY <1>5, StartJobKeepsType DEF BulkDestroy, TypeOK
<1>6. CASE Forget(c)
  BY <1>6 DEF Forget, TypeOK
<1>7. CASE PatchFolder(c)
  <2>1. record' \in Record
    BY <1>7 DEF PatchFolder, TypeOK, Record
  <2> QED
    BY <1>7, <2>1 DEF PatchFolder, TypeOK
<1>8. CASE RetryBegin(c)
  BY <1>8, WaitType DEF RetryBegin, TypeOK
<1>9. CASE RetryEnd(c)
  <2>1. request[c].seen \in Record
    BY <1>0, <1>9 DEF RetryEnd, RequestState
  <2>2. workspace' \in Configs
    BY <1>9, <2>1 DEF RetryEnd, Record
  <2> QED
    BY <1>9, <2>2, AnswerType, StartJobKeepsType DEF RetryEnd, TypeOK
<1>10. CASE RecreateBegin(c)
  BY <1>10, WaitType DEF RecreateBegin, TypeOK
<1>11. CASE RecreateEnd(c)
  <2>1. request[c].seen \in Record
    BY <1>0, <1>11 DEF RecreateEnd, RequestState
  <2>2. workspace' \in Configs /\ record' \in Record
    BY <1>11, <2>1 DEF RecreateEnd, Record
  <2> QED
    BY <1>11, <2>2, AnswerType, StartJobKeepsType DEF RecreateEnd
<1>12. CASE HealthBegin(c)
  BY <1>12, WaitType DEF HealthBegin, TypeOK
<1>13. CASE HealthEnd(c)
  <2>1. CASE record = NoRecord
    BY <1>13, <2>1, AnswerType DEF HealthEnd, TypeOK
  <2>2. CASE record # NoRecord
    <3>1. PICK status \in Statuses :
            /\ SetStatus(status)
            /\ IF status = "bootstrapping" THEN StartWatcher ELSE UNCHANGED watcher
      <4>1. Status \in Statuses
        BY <2>2, StatusOfRecord DEF Record
      <4> QED
        BY <1>13, <2>2, <4>1 DEF HealthEnd, Statuses
    <3>2. record' \in Record
      BY <2>2, <3>1, SetStatusType DEF TypeOK
    <3>3. watcher' \in WatcherState
      BY <3>1, <3>2, StartWatcherType DEF TypeOK
    <3> QED
      BY <1>13, <3>2, <3>3, AnswerType DEF HealthEnd, TypeOK
  <2> QED
    BY <2>1, <2>2
<1>14. CASE ReconcileBegin(c)
  <2>1. record \in Record
    BY <1>14, StatusOfRecord DEF ReconcileBegin
  <2>2. PICK cfg \in WithOtherDatabases(record.cfg) :
          LET edited == [record EXCEPT !.cfg = cfg]
          IN /\ record' = edited
             /\ IF FirstPhase(cfg) = "done"
                THEN UNCHANGED request
                ELSE request' = [request EXCEPT ![c] =
                                   [pc |-> FirstPhase(cfg), seen |-> edited, up |-> formed]]
    BY <1>14 DEF ReconcileBegin
  <2>3. cfg \in Configs
    BY <2>1, <2>2 DEF WithOtherDatabases, Record
  <2>4. record' \in Record
    BY <2>1, <2>2, <2>3 DEF Record
  <2>5. request' \in [Clients -> RequestState]
    <3>1. FirstPhase(cfg) # "done" =>
            [pc |-> FirstPhase(cfg), seen |-> record', up |-> formed] \in RequestState
      BY <2>4 DEF FirstPhase, RequestState, TypeOK
    <3> QED
      BY <2>2, <3>1 DEF TypeOK
  <2> QED
    BY <1>14, <2>4, <2>5 DEF ReconcileBegin, TypeOK
<1>15. CASE ReconcileSent(c)
  <2>1. provisioned' \in BOOLEAN
    BY <1>15 DEF ReconcileSent, SendResources, TypeOK
  <2>2. [request[c] EXCEPT !.pc = "creating"] \in RequestState
    BY <1>0 DEF RequestState
  <2>3. request' \in [Clients -> RequestState]
    BY <1>15, <2>2, AnswerType DEF ReconcileSent, TypeOK
  <2> QED
    BY <1>15, <2>1, <2>3 DEF ReconcileSent, TypeOK
<1>16. CASE SaveDraft(c)
  <2>1. record' \in Record
    BY <1>16 DEF SaveDraft, Record, Statuses
  <2> QED
    BY <1>16, <2>1 DEF SaveDraft, TypeOK
<1>17. CASE PatchDraft(c)
  <2>1. record' \in Record
    BY <1>17, StatusOfRecord DEF PatchDraft, Record
  <2> QED
    BY <1>17, <2>1 DEF PatchDraft, TypeOK
<1> QED
  BY <1>1, <1>2, <1>3, <1>4, <1>5, <1>6, <1>7, <1>8, <1>9, <1>10, <1>11, <1>12,
     <1>13, <1>14, <1>15, <1>16, <1>17 DEF Handler

LEMMA TypeRestart ==
  ASSUME TypeOK, Restart
  PROVE  TypeOK'
<1> USE DEF disk, cluster
<1>1. restarts' \in 0 .. MaxRestarts
  BY BoundsAssumption DEF Restart, TypeOK
<1>2. request' \in [Clients -> RequestState]
  BY IdleTypes DEF Restart
<1>3. record' \in Record \cup {NoRecord}
  BY SetStatusType, StatusOfRecord DEF Restart, TypeOK, Statuses
<1>4. watcher' \in WatcherState
  <2>1. 1 \in 1 .. MaxPolls
    BY BoundsAssumption
  <2> QED
    BY <2>1, ProbingType, IdleTypes DEF Restart, TypeOK
<1>5. worker' \in [Workers -> WorkerState]
  <2>1. [IdleWorker EXCEPT !.pc = "queued", !.kind = "destroy"] \in WorkerState
    BY IdleTypes DEF WorkerState
  <2> QED
    BY <2>1, IdleTypes DEF Restart
<1>6. jobs' \in {"none", "apply", "destroy"}
  BY DEF Restart
<1> QED
  BY <1>1, <1>2, <1>3, <1>4, <1>5, <1>6 DEF Restart, TypeOK

LEMMA TypeNext == TypeOK /\ Remembered /\ [Next]_vars => TypeOK'
<1> SUFFICES ASSUME TypeOK, Remembered, [Next]_vars
             PROVE  TypeOK'
  OBVIOUS
<1>1. CASE ClusterChanges
  BY <1>1 DEF ClusterChanges, TypeOK, disk
<1>2. CASE UNCHANGED vars
  BY <1>2 DEF vars, TypeOK
<1> QED
  BY <1>1, <1>2, TypeWorker, TypeWatcher, TypeHandler, TypeRestart DEF Next, Remembered

-----------------------------------------------------------------------------
(* What the steps do to the job.                                           *)

(* A worker's step keeps its job or ends it.                               *)
LEMMA WorkerJob ==
  ASSUME TypeOK, NEW w \in Workers, Worker(w)
  PROVE  /\ worker[w].pc # "idle"
         /\ \/ EndJob(w)
            \/ /\ jobs' = jobs
               /\ \A v \in Workers : v # w => worker'[v] = worker[v]
               /\ worker'[w].pc \in {"terraform", "outputs"}
               /\ worker'[w].kind = worker[w].kind
               /\ record # NoRecord
BY DEF Worker, JobWithoutRecord, ApplyStart, ApplySucceeds, ApplyEnd,
       DestroyStart, DestroySucceeds, JobFails, TypeOK, WorkerState

(* A handler leaves the job alone or is refused one or starts one.         *)
LEMMA HandlerJob ==
  ASSUME NEW c \in Clients, Handler(c)
  PROVE  \/ UNCHANGED <<jobs, worker>>
         \/ \E kind \in {"apply", "destroy"} : StartJob(kind)
BY DEF Handler, Refused, CreateBegin, CreateEnd, Delete, BulkDestroy, Forget,
       PatchFolder, RetryBegin, RetryEnd, RecreateBegin, RecreateEnd,
       HealthBegin, HealthEnd, ReconcileBegin, ReconcileSent, SaveDraft, PatchDraft

LEMMA WatcherJob == Watcher => UNCHANGED <<jobs, worker>>
BY DEF Watcher, WatchAgain, WatchTimeout, WatchProbed, WatchLicensed, WatchCreated

(* startApply and startDestroy start a job when there is none.             *)
LEMMA StartJobEffect ==
  ASSUME TypeOK, OneTerraform, NEW kind \in {"apply", "destroy"}, StartJob(kind)
  PROVE  \/ UNCHANGED <<jobs, worker>>
         \/ /\ jobs = "none" /\ jobs' = kind
            /\ \A v \in Workers : worker[v].pc = "idle"
            /\ \E w \in Workers :
                 /\ worker'[w].pc = "queued" /\ worker'[w].kind = kind
                 /\ \A v \in Workers : v # w => worker'[v].pc = "idle"
<1>1. CASE /\ jobs = "none" /\ jobs' = kind
           /\ \E w \in Workers :
                worker' = [worker EXCEPT ![w].pc = "queued", ![w].kind = kind]
  <2>1. \A v \in Workers : worker[v].pc = "idle"
    BY <1>1 DEF OneTerraform, TypeOK, WorkerState
  <2>2. PICK w \in Workers : worker' = [worker EXCEPT ![w].pc = "queued", ![w].kind = kind]
    BY <1>1
  <2>3. worker'[w].pc = "queued" /\ worker'[w].kind = kind
    BY <2>2 DEF TypeOK, WorkerState
  <2>4. \A v \in Workers : v # w => worker'[v].pc = "idle"
    BY <2>1, <2>2 DEF TypeOK
  <2> QED
    BY <1>1, <2>1, <2>3, <2>4
<1> QED
  BY <1>1 DEF StartJob

(* A restart forgets the jobs; an interrupted destroy is queued again.     *)
LEMMA RestartJob ==
  ASSUME Restart
  PROVE  \/ /\ jobs' = "none"
            /\ \A w \in Workers : worker'[w].pc = "idle"
         \/ /\ Status = "destroying" /\ jobs' = "destroy"
            /\ \E w \in Workers :
                 /\ worker'[w].pc = "queued" /\ worker'[w].kind = "destroy"
                 /\ \A v \in Workers : v # w => worker'[v].pc = "idle"
<1>1. CASE /\ jobs' = "none"
           /\ worker' = [w \in Workers |-> IdleWorker]
  BY <1>1 DEF IdleWorker
<1>2. CASE /\ Status = "destroying" /\ jobs' = "destroy"
           /\ \E w \in Workers :
                worker' = [v \in Workers |->
                             IF v = w THEN [IdleWorker EXCEPT !.pc = "queued", !.kind = "destroy"]
                                      ELSE IdleWorker]
  <2>1. PICK w \in Workers :
          worker' = [v \in Workers |->
                       IF v = w THEN [IdleWorker EXCEPT !.pc = "queued", !.kind = "destroy"]
                                ELSE IdleWorker]
    BY <1>2
  <2>2. worker'[w].pc = "queued" /\ worker'[w].kind = "destroy"
    BY <2>1 DEF IdleWorker
  <2>3. \A v \in Workers : v # w => worker'[v].pc = "idle"
    BY <2>1 DEF IdleWorker
  <2> QED
    BY <1>2, <2>2, <2>3
<1> QED
  BY <1>1, <1>2 DEF Restart

-----------------------------------------------------------------------------
(* One terraform at a time.                                                *)

LEMMA OneTerraformNext == TypeOK /\ OneTerraform /\ [Next]_vars => OneTerraform'
<1> SUFFICES ASSUME TypeOK, OneTerraform, [Next]_vars
             PROVE  OneTerraform'
  OBVIOUS
<1>1. ASSUME UNCHANGED <<jobs, worker>> PROVE OneTerraform'
  BY <1>1 DEF OneTerraform
<1>2. ASSUME NEW w \in Workers, Worker(w) PROVE OneTerraform'
  <2>1. worker[w].pc # "idle"
    BY <1>2, WorkerJob
  <2>2. \A v \in Workers : v # w => worker[v].pc = "idle"
    BY <2>1 DEF OneTerraform
  <2>3. CASE EndJob(w)
    <3>1. \A v \in Workers : worker'[v].pc = "idle"
      BY <2>2, <2>3 DEF EndJob, IdleWorker, TypeOK
    <3> QED
      BY <2>3, <3>1 DEF EndJob, OneTerraform
  <2>4. CASE /\ jobs' = jobs
             /\ \A v \in Workers : v # w => worker'[v] = worker[v]
             /\ worker'[w].pc \in {"terraform", "outputs"}
             /\ worker'[w].kind = worker[w].kind
    <3>1. \A v \in Workers : worker'[v].pc # "idle" <=> v = w
      BY <2>2, <2>4
    <3> QED
      BY <2>1, <2>4, <3>1 DEF OneTerraform
  <2> QED
    BY <1>2, <2>3, <2>4, WorkerJob
<1>3. CASE Watcher
  BY <1>1, <1>3, WatcherJob
<1>4. ASSUME NEW c \in Clients, Handler(c) PROVE OneTerraform'
  <2>1. ASSUME NEW kind \in {"apply", "destroy"}, StartJob(kind) PROVE OneTerraform'
    <3>1. CASE UNCHANGED <<jobs, worker>>
      BY <1>1, <3>1
    <3>2. CASE /\ jobs' = kind
               /\ \E w \in Workers :
                    /\ worker'[w].pc = "queued" /\ worker'[w].kind = kind
                    /\ \A v \in Workers : v # w => worker'[v].pc = "idle"
      BY <3>2 DEF OneTerraform
    <3> QED
      BY <2>1, <3>1, <3>2, StartJobEffect
  <2> QED
    BY <1>1, <1>4, <2>1, HandlerJob
<1>5. CASE ClusterChanges
  BY <1>1, <1>5 DEF ClusterChanges
<1>6. CASE Restart
  BY <1>6, RestartJob DEF OneTerraform
<1>7. CASE UNCHANGED vars
  BY <1>1, <1>7 DEF vars
<1> QED
  BY <1>2, <1>3, <1>4, <1>5, <1>6, <1>7 DEF Next

-----------------------------------------------------------------------------
(* What the server holds across an await.                                  *)

LEMMA RememberedNext == TypeOK /\ Remembered /\ [Next]_vars => Remembered'
<1> SUFFICES ASSUME TypeOK, Remembered, [Next]_vars
             PROVE  Remembered'
  OBVIOUS
<1> DEFINE WorkersRemember == \A w \in Workers :
             worker[w].pc = "outputs" => worker[w].seen # NoRecord
           RequestsRemember == \A c \in Clients :
             request[c].pc \in {"retry", "recreate"} =>
               /\ request[c].seen # NoRecord
               /\ request[c].pc = "recreate" => request[c].seen.status = "destroyed"
<1>0. Remembered <=> WorkersRemember /\ RequestsRemember
  BY DEF Remembered
<1>1. WorkersRemember'
  <2>0. ASSUME UNCHANGED worker PROVE WorkersRemember'
    BY <1>0, <2>0
  <2>1. ASSUME NEW w \in Workers, Worker(w) PROVE WorkersRemember'
    <3>1. CASE ApplySucceeds(w)
      BY <1>0, <3>1 DEF ApplySucceeds, TypeOK, WorkerState
    <3>2. CASE ApplyStart(w)
      BY <1>0, <3>2 DEF ApplyStart, TypeOK, WorkerState
    <3>3. CASE DestroyStart(w)
      BY <1>0, <3>3 DEF DestroyStart, EndJob, IdleWorker, TypeOK, WorkerState
    <3>4. CASE EndJob(w)
      BY <1>0, <3>4 DEF EndJob, IdleWorker, TypeOK
    <3> QED
      BY <2>1, <3>1, <3>2, <3>3, <3>4
         DEF Worker, JobWithoutRecord, ApplyEnd, DestroySucceeds, JobFails
  <2>2. ASSUME NEW kind \in {"apply", "destroy"}, StartJob(kind) PROVE WorkersRemember'
    BY <1>0, <2>0, <2>2 DEF StartJob, TypeOK, WorkerState
  <2>3. ASSUME NEW c \in Clients, Handler(c) PROVE WorkersRemember'
    BY <2>0, <2>2, <2>3, HandlerJob
  <2>4. CASE Restart
    <3>1. \A w \in Workers : worker'[w].pc # "outputs"
      BY <2>4, RestartJob
    <3> QED
      BY <3>1
  <2> QED
    BY <2>0, <2>1, <2>3, <2>4, WatcherJob DEF Next, ClusterChanges, vars
<1>2. RequestsRemember'
  <2>0. ASSUME UNCHANGED request PROVE RequestsRemember'
    BY <1>0, <2>0
  <2>1. ASSUME NEW c \in Clients, Handler(c) PROVE RequestsRemember'
    <3>1. ASSUME Answer(c) PROVE RequestsRemember'
      BY <1>0, <3>1 DEF Answer, NoRequest, TypeOK
    <3>2. ASSUME NEW pc \in {"create", "health"}, Wait(c, pc) PROVE RequestsRemember'
      BY <1>0, <3>2 DEF Wait, TypeOK
    <3>3. CASE RetryBegin(c)
      BY <1>0, <3>3 DEF RetryBegin, Wait, TypeOK
    <3>4. CASE RecreateBegin(c)
      <4>1. record # NoRecord /\ record.status = "destroyed"
        BY <3>4 DEF RecreateBegin, Status
      <4> QED
        BY <1>0, <3>4, <4>1 DEF RecreateBegin, Wait, TypeOK
    <3>5. CASE ReconcileBegin(c)
      BY <1>0, <2>0, <3>5 DEF ReconcileBegin, FirstPhase, TypeOK
    <3>6. CASE ReconcileSent(c)
      BY <1>0, <3>1, <3>6 DEF ReconcileSent, TypeOK, RequestState
    <3>7. \/ UNCHANGED request
          \/ Answer(c)
          \/ \E pc \in {"create", "health"} : Wait(c, pc)
          \/ RetryBegin(c) \/ RecreateBegin(c) \/ ReconcileBegin(c) \/ ReconcileSent(c)
      BY <2>1 DEF Handler, Refused, CreateBegin, CreateEnd, Delete, BulkDestroy, Forget,
                  PatchFolder, RetryEnd, RecreateEnd, HealthBegin, HealthEnd,
                  SaveDraft, PatchDraft
    <3> QED
      BY <2>0, <3>1, <3>2, <3>3, <3>4, <3>5, <3>6, <3>7
  <2>2. ASSUME NEW w \in Workers, Worker(w) PROVE UNCHANGED request
    BY <2>2 DEF Worker, JobWithoutRecord, ApplyStart, ApplySucceeds, ApplyEnd,
                DestroyStart, DestroySucceeds, JobFails
  <2>3. Watcher => UNCHANGED request
    BY DEF Watcher, WatchAgain, WatchTimeout, WatchProbed, WatchLicensed, WatchCreated
  <2>4. CASE Restart
    BY <2>4 DEF Restart, NoRequest
  <2> QED
    BY <2>0, <2>1, <2>2, <2>3, <2>4 DEF Next, ClusterChanges, vars
<1> QED
  BY <1>1, <1>2 DEF Remembered

-----------------------------------------------------------------------------
(* While terraform is at work the record exists.                           *)

(* Only forget removes a record.                                           *)
LEMMA OnlyForgetRemoves ==
  ASSUME TypeOK, Remembered, [Next]_vars, record # NoRecord
  PROVE  record' # NoRecord \/ \E c \in Clients : Forget(c)
<1> USE NoRecordAssumption
<1>0. record \in Record
  BY DEF TypeOK
<1>1. ASSUME NEW r \in Record, NEW s \in Statuses,
             record' = [r EXCEPT !.status = s]
      PROVE  record' # NoRecord
  BY <1>1 DEF Record
<1>2. ASSUME NEW s \in Statuses, SetStatus(s) PROVE record' # NoRecord
  BY <1>0, <1>1, <1>2 DEF SetStatus
<1>3. ASSUME NEW w \in Workers, Worker(w) PROVE record' # NoRecord
  <2>1. CASE ApplyEnd(w)
    <3>1. worker[w].seen \in Record
      BY <2>1 DEF ApplyEnd, Remembered, TypeOK, WorkerState
    <3>2. \A kept \in {[worker[w].seen EXCEPT !.endpoints = TRUE], record} : kept \in Record
      BY <1>0, <3>1 DEF Record
    <3> QED
      BY <1>1, <2>1, <3>2 DEF ApplyEnd, Statuses
  <2>2. [record EXCEPT !.status = "destroyed", !.endpoints = FALSE] \in Record
    BY <1>0 DEF Record, Statuses
  <2> QED
    BY <1>2, <1>3, <2>1, <2>2
       DEF Worker, JobWithoutRecord, ApplyStart, ApplySucceeds, DestroyStart,
           DestroySucceeds, JobFails, Statuses
<1>4. CASE Watcher
  BY <1>2, <1>4 DEF Watcher, WatchAgain, WatchTimeout, WatchProbed, WatchLicensed,
                    WatchCreated, WatchFinish, Statuses
<1>5. ASSUME NEW c \in Clients, Handler(c), ~ Forget(c) PROVE record' # NoRecord
  <2>1. CASE CreateEnd(c)
    <3>1. record' \in Record
      BY <2>1 DEF CreateEnd, Record, Statuses
    <3> QED
      BY <3>1
  <2>2. CASE PatchFolder(c)
    BY <1>0, <2>2 DEF PatchFolder, Record
  <2>3. CASE RecreateEnd(c)
    <3>1. request[c].seen \in Record
      BY <2>3 DEF RecreateEnd, Remembered, TypeOK, RequestState
    <3> QED
      BY <2>3, <3>1 DEF RecreateEnd, Record
  <2>4. CASE HealthEnd(c)
    <3>1. Status \in Statuses
      BY StatusOfRecord DEF Record
    <3> QED
      BY <1>2, <2>4, <3>1 DEF HealthEnd, Statuses
  <2>5. CASE ReconcileBegin(c)
    <3>1. \A cfg \in WithOtherDatabases(record.cfg) : [record EXCEPT !.cfg = cfg] \in Record
      BY <1>0 DEF WithOtherDatabases, Record
    <3> QED
      BY <2>5, <3>1 DEF ReconcileBegin
  <2>6. CASE SaveDraft(c)
    <3>1. record' \in Record
      BY <2>6 DEF SaveDraft, Record, Statuses
    <3> QED
      BY <3>1
  <2>7. CASE PatchDraft(c)
    BY <1>0, <2>7 DEF PatchDraft, Record
  <2> QED
    BY <1>5, <2>1, <2>2, <2>3, <2>4, <2>5, <2>6, <2>7
       DEF Handler, Refused, CreateBegin, Delete, BulkDestroy, RetryBegin, RetryEnd,
           RecreateBegin, HealthBegin, ReconcileSent
<1>6. CASE Restart
  BY <1>2, <1>6 DEF Restart, Statuses
<1> QED
  BY <1>3, <1>4, <1>5, <1>6 DEF Next, ClusterChanges, vars

(* Terraform begins with a record.                                         *)
LEMMA TerraformHasRecord ==
  ASSUME TypeOK, OneTerraform, [Next]_vars,
         NEW w \in Workers, worker'[w].pc \in {"terraform", "outputs"}
  PROVE  worker[w].pc \in {"terraform", "outputs"} \/ record # NoRecord
<1>1. ASSUME NEW v \in Workers, Worker(v)
      PROVE  worker[w].pc \in {"terraform", "outputs"} \/ record # NoRecord
  <2>1. CASE EndJob(v)
    BY <2>1 DEF EndJob, IdleWorker, TypeOK
  <2> QED
    BY <1>1, <2>1, WorkerJob
<1>2. ASSUME NEW c \in Clients, Handler(c)
      PROVE  worker[w].pc \in {"terraform", "outputs"}
  <2>1. ASSUME NEW kind \in {"apply", "destroy"}, StartJob(kind)
        PROVE  worker[w].pc \in {"terraform", "outputs"}
    BY <2>1, StartJobEffect
  <2> QED
    BY <1>2, <2>1, HandlerJob
<1>3. CASE Restart
  BY <1>3, RestartJob
<1> QED
  BY <1>1, <1>2, <1>3, WatcherJob DEF Next, ClusterChanges, vars

LEMMA JobHasRecordNext ==
  TypeOK /\ OneTerraform /\ Remembered /\ JobHasRecord /\ [Next]_vars => JobHasRecord'
<1> SUFFICES ASSUME TypeOK, OneTerraform, Remembered, JobHasRecord, [Next]_vars,
                    NEW w \in Workers, worker'[w].pc \in {"terraform", "outputs"}
             PROVE  record' # NoRecord
  BY DEF JobHasRecord
<1>1. record # NoRecord
  BY TerraformHasRecord DEF JobHasRecord
<1>2. ASSUME NEW c \in Clients, Forget(c) PROVE FALSE
  <2>1. worker[w].pc = "idle"
    BY <1>2 DEF Forget, IsBusy, OneTerraform, TypeOK, WorkerState
  <2> QED
    BY <1>2, <2>1 DEF Forget
<1> QED
  BY <1>1, <1>2, OnlyForgetRemoves

-----------------------------------------------------------------------------
(* No status is an empty promise.                                          *)

(* A step that changes neither the status nor the owners keeps them.       *)
LEMMA OwnersKept ==
  ASSUME StatusHasOwner, Status' = Status,
         jobs' = jobs \/ jobs = "none",
         IsWatching => IsWatching'
  PROVE  StatusHasOwner'
BY DEF StatusHasOwner

LEMMA StatusAfter ==
  ASSUME TypeOK, record # NoRecord, NEW s \in Statuses, SetStatus(s)
  PROVE  Status' = s
<1>1. record' \in Record /\ record'.status = s
  BY SetStatusType DEF TypeOK
<1> QED
  BY <1>1, NoRecordAssumption DEF Status

(* A status that promises nothing needs no owner.                          *)
LEMMA QuietStatus ==
  ASSUME Status' \notin {"applying", "destroying", "bootstrapping"}
  PROVE  StatusHasOwner'
BY DEF StatusHasOwner

LEMMA OwnerWorker ==
  ASSUME Lifecycle, NEW w \in Workers, Worker(w)
  PROVE  StatusHasOwner'
<1> USE DEF Lifecycle
<1>0. jobs = worker[w].kind
  BY WorkerJob DEF OneTerraform
<1>1. CASE JobWithoutRecord(w)
  <2>1. Status' = "none"
    BY <1>1 DEF JobWithoutRecord, Status
  <2> QED
    BY <2>1, QuietStatus
<1>2. CASE ApplyStart(w)
  <2>1. Status' = "applying" /\ jobs' = "apply"
    BY <1>0, <1>2, StatusAfter DEF ApplyStart, Statuses
  <2> QED
    BY <2>1 DEF StatusHasOwner
<1>3. CASE ApplySucceeds(w)
  BY <1>3, OwnersKept DEF ApplySucceeds, Status, IsWatching
<1>4. CASE ApplyEnd(w)
  <2>1. worker[w].seen \in Record /\ record \in Record
    BY <1>4 DEF ApplyEnd, Remembered, TypeOK, WorkerState
  <2>2. PICK kept \in {[worker[w].seen EXCEPT !.endpoints = TRUE], record} :
          IF kept.cfg \in AppOnlyConfigs
          THEN /\ \E s \in {"ready", "failed"} : record' = [kept EXCEPT !.status = s]
               /\ UNCHANGED watcher
          ELSE /\ record' = [kept EXCEPT !.status = "bootstrapping"]
               /\ StartWatcher
    BY <1>4 DEF ApplyEnd
  <2>3. kept \in Record
    BY <2>1 DEF Record
  <2>4. ASSUME NEW s \in Statuses, record' = [kept EXCEPT !.status = s]
        PROVE  record' \in Record /\ Status' = s
    <3>1. record' \in Record /\ record'.status = s
      BY <2>3, <2>4 DEF Record
    <3> QED
      BY <3>1, NoRecordAssumption DEF Status
  <2>5. CASE kept.cfg \in AppOnlyConfigs
    BY <2>2, <2>4, <2>5, QuietStatus DEF Statuses
  <2>6. CASE kept.cfg \notin AppOnlyConfigs
    <3>1. record' \in Record /\ Status' = "bootstrapping" /\ StartWatcher
      BY <2>2, <2>4, <2>6 DEF Statuses
    <3>2. IsWatching'
      BY <3>1, StartWatcherType DEF IsWatching
    <3> QED
      BY <3>1, <3>2 DEF StatusHasOwner
  <2> QED
    BY <2>5, <2>6
<1>5. CASE DestroyStart(w)
  <2>1. CASE tfState
    <3>1. Status' = "destroying" /\ jobs' = "destroy"
      BY <1>0, <1>5, <2>1, StatusAfter DEF DestroyStart, Statuses
    <3> QED
      BY <3>1 DEF StatusHasOwner
  <2>2. CASE ~ tfState
    <3>1. Status' \in {"destroyed", "none"}
      BY <1>5, <2>2 DEF DestroyStart, Status, TypeOK, Record
    <3> QED
      BY <3>1, QuietStatus
  <2> QED
    BY <2>1, <2>2
<1>6. CASE DestroySucceeds(w)
  <2>1. Status' \in {"destroyed", "none"}
    BY <1>6 DEF DestroySucceeds, Status, TypeOK, Record
  <2> QED
    BY <2>1, QuietStatus
<1>7. CASE JobFails(w)
  <2>1. Status' \in {"failed", "none"}
    BY <1>7 DEF JobFails, SetStatus, Status, TypeOK, Record
  <2> QED
    BY <2>1, QuietStatus
<1> QED
  BY <1>1, <1>2, <1>3, <1>4, <1>5, <1>6, <1>7 DEF Worker

LEMMA WatchFinishOwner ==
  ASSUME Lifecycle, WatchFinish, jobs' = jobs
  PROVE  StatusHasOwner'
<1> USE DEF Lifecycle
<1>1. CASE Status \notin {"none", "destroying", "destroyed", "failed"}
  <2>1. Status' = "ready"
    BY <1>1, StatusAfter DEF WatchFinish, Status, Statuses
  <2> QED
    BY <2>1, QuietStatus
<1>2. CASE Status \in {"none", "destroying", "destroyed", "failed"}
  <2>1. Status' = Status
    BY <1>2 DEF WatchFinish, Status
  <2> QED
    BY <1>2, <2>1 DEF StatusHasOwner
<1> QED
  BY <1>1, <1>2

LEMMA OwnerWatcher ==
  ASSUME Lifecycle, Watcher
  PROVE  StatusHasOwner'
<1> USE DEF Lifecycle
<1>0. jobs' = jobs
  BY WatcherJob
<1>1. CASE WatchAgain
  <2>1. Status' = Status
    BY <1>1 DEF WatchAgain, Status
  <2>2. Watchable => IsWatching'
    BY <1>1 DEF WatchAgain, Probing, IsWatching
  <2> QED
    BY <1>0, <2>1, <2>2 DEF StatusHasOwner, Watchable
<1>2. CASE WatchTimeout
  <2>1. CASE Status = "bootstrapping"
    <3>1. Status' = "degraded"
      BY <1>2, <2>1, StatusAfter DEF WatchTimeout, Status, Statuses
    <3> QED
      BY <3>1, QuietStatus
  <2>2. CASE Status # "bootstrapping"
    <3>1. Status' = Status
      BY <1>2, <2>2 DEF WatchTimeout, Status
    <3> QED
      BY <1>0, <2>2, <3>1 DEF StatusHasOwner
  <2> QED
    BY <2>1, <2>2
<1>3. CASE WatchProbed
  <2>1. CASE UNCHANGED record /\ Status \in {"none", "ready"}
    <3>1. Status' = Status
      BY <2>1 DEF Status
    <3> QED
      BY <2>1, <3>1, QuietStatus
  <2>2. CASE record # NoRecord /\ SetStatus("ready")
    BY <2>2, StatusAfter, QuietStatus DEF Statuses
  <2>3. CASE /\ record # NoRecord /\ SetStatus("bootstrapping")
             /\ watcher' = [watcher EXCEPT !.pc = "sleeping"]
    <3>1. IsWatching' /\ Status' = "bootstrapping"
      BY <2>3, StatusAfter DEF IsWatching, TypeOK, WatcherState, Statuses
    <3> QED
      BY <3>1 DEF StatusHasOwner
  <2>4. CASE /\ record # NoRecord /\ SetStatus("bootstrapping")
             /\ FirstPhase(record.cfg) # "done"
             /\ watcher' = [watcher EXCEPT !.pc = FirstPhase(record.cfg), !.seen = record]
    <3>1. FirstPhase(record.cfg) # "off"
      BY <2>4 DEF FirstPhase
    <3>2. IsWatching' /\ Status' = "bootstrapping"
      BY <2>4, <3>1, StatusAfter DEF IsWatching, TypeOK, WatcherState, Statuses
    <3> QED
      BY <3>2 DEF StatusHasOwner
  <2>5. record = NoRecord <=> Status = "none"
    BY DEF Status, TypeOK, Record, Statuses
  <2> QED
    BY <1>3, <2>1, <2>2, <2>3, <2>4, <2>5 DEF WatchProbed
<1>4. CASE WatchLicensed
  <2>1. CASE /\ watcher' = [watcher EXCEPT !.pc = "creating"]
             /\ UNCHANGED record
    <3>1. IsWatching' /\ Status' = Status
      BY <2>1 DEF IsWatching, Status, TypeOK, WatcherState
    <3> QED
      BY <1>0, <3>1, OwnersKept
  <2> QED
    BY <1>0, <1>4, <2>1, WatchFinishOwner DEF WatchLicensed
<1>5. CASE WatchCreated
  BY <1>0, <1>5, WatchFinishOwner DEF WatchCreated
<1> QED
  BY <1>1, <1>2, <1>3, <1>4, <1>5 DEF Watcher

LEMMA StartJobOwner ==
  ASSUME NEW kind \in {"apply", "destroy"}, StartJob(kind)
  PROVE  jobs' = jobs \/ jobs = "none"
BY DEF StartJob

LEMMA OwnerHandler ==
  ASSUME Lifecycle, NEW c \in Clients, Handler(c)
  PROVE  StatusHasOwner'
<1> USE DEF Lifecycle
<1>0. jobs' = jobs \/ jobs = "none"
  BY HandlerJob, StartJobOwner
<1>1. ASSUME UNCHANGED <<record, watcher>> PROVE StatusHasOwner'
  <2>1. Status' = Status /\ (IsWatching => IsWatching')
    BY <1>1 DEF Status, IsWatching
  <2> QED
    BY <1>0, <2>1, OwnersKept
<1>2. ASSUME record \in Record, record' \in Record,
             record'.status = record.status, UNCHANGED watcher
      PROVE  StatusHasOwner'
  <2>1. Status' = Status /\ (IsWatching => IsWatching')
    BY <1>2, NoRecordAssumption DEF Status, IsWatching
  <2> QED
    BY <1>0, <2>1, OwnersKept
<1>3. ASSUME record' \in Record, record'.status \in {"draft", "pending", "destroyed"}
      PROVE  StatusHasOwner'
  <2>1. Status' \in {"draft", "pending", "destroyed"}
    BY <1>3, NoRecordAssumption DEF Status
  <2> QED
    BY <2>1, QuietStatus
<1>4. CASE CreateEnd(c)
  <2>1. record' \in Record /\ record'.status = "pending"
    BY <1>4 DEF CreateEnd, Record, Statuses
  <2> QED
    BY <1>3, <2>1
<1>5. CASE Forget(c)
  <2>1. Status' = "none"
    BY <1>5 DEF Forget, Status
  <2> QED
    BY <2>1, QuietStatus
<1>6. CASE PatchFolder(c)
  <2>1. record \in Record /\ record' \in Record /\ record'.status = record.status
    BY <1>6 DEF PatchFolder, TypeOK, Record
  <2> QED
    BY <1>2, <1>6, <2>1 DEF PatchFolder
<1>7. CASE RecreateEnd(c)
  <2>1. request[c].seen \in Record /\ request[c].seen.status = "destroyed"
    BY <1>7 DEF RecreateEnd, Remembered, TypeOK, RequestState
  <2>2. record' \in Record /\ record'.status = "destroyed"
    BY <1>7, <2>1 DEF RecreateEnd, Record
  <2> QED
    BY <1>3, <2>2
<1>8. CASE HealthEnd(c)
  <2>1. CASE record = NoRecord
    BY <1>1, <1>8, <2>1 DEF HealthEnd
  <2>2. CASE record # NoRecord
    <3>0. Status \in Statuses
      BY <2>2, StatusOfRecord DEF Record
    <3>1. PICK status \in Statuses :
            /\ status \in {"ready", "bootstrapping", Status}
            /\ SetStatus(status)
            /\ IF status = "bootstrapping" THEN StartWatcher ELSE UNCHANGED watcher
      BY <1>8, <2>2, <3>0 DEF HealthEnd, Statuses
    <3>2. Status' = status
      BY <2>2, <3>1, StatusAfter
    <3>3. CASE status = "bootstrapping"
      <4>1. record' \in Record
        BY <2>2, <3>1, SetStatusType DEF TypeOK
      <4>2. IsWatching'
        BY <3>1, <3>3, <4>1, StartWatcherType DEF IsWatching
      <4> QED
        BY <3>2, <3>3, <4>2 DEF StatusHasOwner
    <3>4. CASE status = "ready"
      BY <3>2, <3>4, QuietStatus
    <3>5. CASE status = Status /\ status # "bootstrapping"
      <4>1. IsWatching => IsWatching'
        BY <3>1, <3>5 DEF IsWatching
      <4> QED
        BY <1>0, <3>2, <3>5, <4>1, OwnersKept
    <3> QED
      BY <3>1, <3>3, <3>4, <3>5
  <2> QED
    BY <2>1, <2>2
<1>9. CASE ReconcileBegin(c)
  <2>1. record \in Record
    BY <1>9, StatusOfRecord DEF ReconcileBegin
  <2>2. PICK cfg \in WithOtherDatabases(record.cfg) : record' = [record EXCEPT !.cfg = cfg]
    BY <1>9 DEF ReconcileBegin
  <2>3. record' \in Record /\ record'.status = record.status
    BY <2>1, <2>2 DEF WithOtherDatabases, Record
  <2> QED
    BY <1>2, <1>9, <2>1, <2>3 DEF ReconcileBegin
<1>10. CASE SaveDraft(c)
  <2>1. record' \in Record /\ record'.status = "draft"
    BY <1>10 DEF SaveDraft, Record, Statuses
  <2> QED
    BY <1>3, <2>1
<1>11. CASE PatchDraft(c)
  <2>1. record \in Record
    BY <1>11, StatusOfRecord DEF PatchDraft
  <2>2. record' \in Record /\ record'.status = record.status
    BY <1>11, <2>1 DEF PatchDraft, Record
  <2> QED
    BY <1>2, <1>11, <2>1, <2>2 DEF PatchDraft
<1> QED
  BY <1>1, <1>4, <1>5, <1>6, <1>7, <1>8, <1>9, <1>10, <1>11
     DEF Handler, Refused, CreateBegin, Delete, BulkDestroy, RetryBegin, RetryEnd,
         RecreateBegin, HealthBegin, ReconcileSent

LEMMA OwnerRestart ==
  ASSUME Lifecycle, Restart
  PROVE  StatusHasOwner'
<1> USE DEF Lifecycle
<1>1. CASE Status = "bootstrapping"
  <2>1. Status' = Status /\ watcher' = Probing(1, record)
    BY <1>1 DEF Restart, Status
  <2> QED
    BY <1>1, <2>1 DEF StatusHasOwner, IsWatching, Probing
<1>2. CASE Status = "destroying"
  <2>1. Status' = Status /\ jobs' = "destroy"
    BY <1>2 DEF Restart, Status
  <2> QED
    BY <1>2, <2>1 DEF StatusHasOwner
<1>3. CASE Status = "applying"
  <2>1. SetStatus("failed") /\ record # NoRecord
    BY <1>3 DEF Restart, Status
  <2>2. Status' = "failed"
    BY <2>1, StatusAfter DEF Statuses
  <2> QED
    BY <2>2, QuietStatus
<1>4. CASE Status \notin {"applying", "destroying", "bootstrapping"}
  <2>1. Status' = Status
    BY <1>4 DEF Restart, Status
  <2> QED
    BY <1>4, <2>1, QuietStatus
<1> QED
  BY <1>1, <1>2, <1>3, <1>4

LEMMA OwnerNext == Lifecycle /\ [Next]_vars => StatusHasOwner'
<1> SUFFICES ASSUME Lifecycle, [Next]_vars
             PROVE  StatusHasOwner'
  OBVIOUS
<1>1. ASSUME UNCHANGED <<record, jobs, watcher>> PROVE StatusHasOwner'
  BY <1>1 DEF Lifecycle, StatusHasOwner, Status, IsWatching
<1> QED
  BY <1>1, OwnerWorker, OwnerWatcher, OwnerHandler, OwnerRestart
     DEF Next, ClusterChanges, vars

-----------------------------------------------------------------------------
(* The theorems.                                                           *)

LEMMA LifecycleInit == Init => Lifecycle
<1> SUFFICES ASSUME Init PROVE Lifecycle
  OBVIOUS
<1>1. /\ \A w \in Workers : worker[w].pc = "idle"
      /\ \A c \in Clients : request[c].pc = "idle"
      /\ jobs = "none"
  BY DEF Init, IdleWorker, NoRequest
<1>2. Status = "none"
  BY DEF Init, Status
<1>3. OneTerraform /\ JobHasRecord /\ Remembered
  BY <1>1 DEF OneTerraform, JobHasRecord, Remembered
<1>4. StatusHasOwner
  BY <1>2 DEF StatusHasOwner
<1> QED
  BY <1>3, <1>4, TypeInit DEF Lifecycle

LEMMA LifecycleNext == Lifecycle /\ [Next]_vars => Lifecycle'
BY TypeNext, OneTerraformNext, RememberedNext, JobHasRecordNext, OwnerNext DEF Lifecycle

LEMMA LifecycleHolds == Spec => []Lifecycle
BY LifecycleInit, LifecycleNext, PTL DEF Spec

(* The record, the job, the watcher and the requests have their types,     *)
(* whatever the handlers write back from before an await.                  *)
THEOREM LifecycleTypes == Spec => []TypeOK
<1>1. Lifecycle => TypeOK
  BY DEF Lifecycle
<1> QED
  BY <1>1, LifecycleHolds, PTL

(* The map "jobs" of terraform.ts keeps two terraforms off one workspace,  *)
(* for any number of requests whose busy check is old when they act.       *)
THEOREM OneTerraformAtATime == Spec => []OneTerraform
<1>1. Lifecycle => OneTerraform
  BY DEF Lifecycle
<1> QED
  BY <1>1, LifecycleHolds, PTL

(* No forget, however late, takes the record from a terraform at work.     *)
THEOREM NoJobWithoutRecord == Spec => []JobHasRecord
<1>1. Lifecycle => JobHasRecord
  BY DEF Lifecycle
<1> QED
  BY <1>1, LifecycleHolds, PTL

(* A status that promises progress has a job or a watcher behind it, after *)
(* any interleaving of requests and any number of restarts.                *)
THEOREM NoEmptyPromise == Spec => []StatusHasOwner
<1>1. Lifecycle => StatusHasOwner
  BY DEF Lifecycle
<1> QED
  BY <1>1, LifecycleHolds, PTL

-----------------------------------------------------------------------------
(* A destroyed record tells the truth, but for a recreate that writes back *)
(* an old one.                                                             *)

(***************************************************************************)
(* The inductive part: without terraform's files there is nothing in GCP,  *)
(* which is why startDestroy may say destroyed without a terraform run.    *)
(***************************************************************************)
NothingLeft == ~ tfState => cloud = NoConfig

(* What DestroyedMeansGone says of a step. *)
ToldTruly == DestroyedInName' =>
               DestroyedInName \/ \E c \in Clients : RecreateOverOther(c)

(* A step that leaves the cluster alone and makes nothing destroyed.       *)
LEMMA NothingLeftKept ==
  ASSUME NothingLeft, UNCHANGED <<tfState, cloud>>,
         Status' = "destroyed" => Status = "destroyed"
  PROVE  NothingLeft' /\ ToldTruly
BY DEF NothingLeft, ToldTruly, DestroyedInName

LEMMA NothingLeftWorker ==
  ASSUME Lifecycle, NothingLeft, NEW w \in Workers, Worker(w)
  PROVE  NothingLeft' /\ ToldTruly
<1> USE DEF Lifecycle, disk, cluster
<1>1. ASSUME UNCHANGED <<tfState, cloud>>, Status' # "destroyed"
      PROVE  NothingLeft' /\ ToldTruly
  BY <1>1, NothingLeftKept
<1>2. CASE JobWithoutRecord(w)
  BY <1>1, <1>2 DEF JobWithoutRecord, Status
<1>3. CASE ApplyStart(w)
  <2>1. Status' = "applying"
    BY <1>3, StatusAfter DEF ApplyStart, Statuses
  <2> QED
    BY <1>3, <2>1 DEF ApplyStart, NothingLeft, ToldTruly, DestroyedInName
<1>4. CASE ApplySucceeds(w)
  <2>1. Status' = Status
    BY <1>4 DEF ApplySucceeds, Status
  <2> QED
    BY <1>4, <2>1, NothingLeftKept DEF ApplySucceeds
<1>5. CASE ApplyEnd(w)
  <2>1. worker[w].seen \in Record /\ record \in Record
    BY <1>5 DEF ApplyEnd, Remembered, TypeOK, WorkerState
  <2>2. \A kept \in {[worker[w].seen EXCEPT !.endpoints = TRUE], record} : kept \in Record
    BY <2>1 DEF Record
  <2>3. \E kept \in Record, s \in {"ready", "failed", "bootstrapping"} :
          record' = [kept EXCEPT !.status = s]
    BY <1>5, <2>2 DEF ApplyEnd
  <2>4. Status' # "destroyed"
    BY <2>3 DEF Status, Record
  <2> QED
    BY <1>1, <1>5, <2>4 DEF ApplyEnd
<1>6. CASE DestroyStart(w)
  <2>1. CASE tfState
    <3>1. Status' = "destroying"
      BY <1>6, <2>1, StatusAfter DEF DestroyStart, Statuses
    <3> QED
      BY <1>1, <1>6, <3>1 DEF DestroyStart
  <2>2. CASE ~ tfState
    BY <1>6, <2>2 DEF DestroyStart, NothingLeft, ToldTruly, DestroyedInName
  <2> QED
    BY <2>1, <2>2
<1>7. CASE DestroySucceeds(w)
  BY <1>7 DEF DestroySucceeds, NothingLeft, ToldTruly, DestroyedInName
<1>8. CASE JobFails(w)
  <2>1. Status' # "destroyed"
    BY <1>8 DEF JobFails, SetStatus, Status, TypeOK, Record
  <2> QED
    BY <1>1, <1>8, <2>1 DEF JobFails
<1> QED
  BY <1>2, <1>3, <1>4, <1>5, <1>6, <1>7, <1>8 DEF Worker

LEMMA NothingLeftWatcher ==
  ASSUME Lifecycle, NothingLeft, Watcher
  PROVE  NothingLeft' /\ ToldTruly
<1> USE DEF Lifecycle
<1>1. UNCHANGED <<tfState, cloud>>
  BY DEF Watcher, WatchAgain, WatchTimeout, WatchProbed, WatchLicensed, WatchCreated,
         disk, cluster
<1>2. Status' = "destroyed" => Status = "destroyed"
  <2>1. ASSUME NEW s \in {"ready", "bootstrapping", "degraded"},
               record # NoRecord, SetStatus(s)
        PROVE  Status' # "destroyed"
    BY <2>1, StatusAfter DEF Statuses
  <2>2. UNCHANGED record => Status' = Status
    BY DEF Status
  <2>3. Status # "none" <=> record # NoRecord
    BY DEF Status, TypeOK, Record, Statuses
  <2> QED
    BY <2>1, <2>2, <2>3 DEF Watcher, WatchAgain, WatchTimeout, WatchProbed,
                            WatchLicensed, WatchCreated, WatchFinish
<1> QED
  BY <1>1, <1>2, NothingLeftKept

LEMMA NothingLeftHandler ==
  ASSUME Lifecycle, NothingLeft, NEW c \in Clients, Handler(c)
  PROVE  NothingLeft' /\ ToldTruly
<1> USE DEF Lifecycle, disk, cluster
<1>0. request[c] \in RequestState /\ request \in [Clients -> RequestState]
  BY DEF TypeOK
<1>1. UNCHANGED <<tfState, cloud>>
  BY DEF Handler, Refused, CreateBegin, CreateEnd, Delete, BulkDestroy, Forget,
         PatchFolder, RetryBegin, RetryEnd, RecreateBegin, RecreateEnd,
         HealthBegin, HealthEnd, ReconcileBegin, ReconcileSent, SaveDraft, PatchDraft
<1>2. CASE RecreateEnd(c)
  <2>1. request[c].pc = "recreate" /\ request'[c].pc = "idle"
    BY <1>0, <1>2 DEF RecreateEnd, Answer, NoRequest
  <2>2. CASE Status = "destroyed"
    BY <1>1, <2>2, NothingLeftKept
  <2>3. CASE Status # "destroyed"
    BY <1>1, <2>1, <2>3 DEF NothingLeft, ToldTruly, RecreateOverOther
  <2> QED
    BY <2>2, <2>3
<1>3. CASE ~ RecreateEnd(c)
  <2>1. Status' = "destroyed" => Status = "destroyed"
    <3>1. UNCHANGED record => Status' = Status
      BY DEF Status
    <3>2. ASSUME record' \in {NoRecord} \cup Record,
                 record' # NoRecord => record'.status \in {"draft", "pending"}
          PROVE  Status' # "destroyed"
      BY <3>2 DEF Status
    <3>3. ASSUME record # NoRecord, record'.status = record.status
          PROVE  Status' = "destroyed" => Status = "destroyed"
      BY <3>3 DEF Status
    <3>4. CASE CreateEnd(c)
      <4>1. record' \in Record /\ record'.status = "pending"
        BY <3>4 DEF CreateEnd, Record, Statuses
      <4> QED
        BY <3>2, <4>1
    <3>5. CASE Forget(c)
      BY <3>2, <3>5 DEF Forget
    <3>6. CASE SaveDraft(c)
      <4>1. record' \in Record /\ record'.status = "draft"
        BY <3>6 DEF SaveDraft, Record, Statuses
      <4> QED
        BY <3>2, <4>1
    <3>7. CASE PatchDraft(c) \/ PatchFolder(c) \/ ReconcileBegin(c)
      <4>1. record # NoRecord /\ record \in Record
        BY <3>7, StatusOfRecord, NoRecordAssumption
           DEF PatchDraft, PatchFolder, ReconcileBegin, TypeOK
      <4>2. record'.status = record.status
        BY <3>7, <4>1 DEF PatchDraft, PatchFolder, ReconcileBegin, Record
      <4> QED
        BY <3>3, <4>1, <4>2
    <3>8. CASE HealthEnd(c)
      <4>1. CASE record = NoRecord
        BY <3>1, <3>8, <4>1 DEF HealthEnd
      <4>2. CASE record # NoRecord
        <5>1. Status \in Statuses
          BY <4>2, StatusOfRecord DEF Record
        <5>2. \E s \in Statuses : s \in {"ready", "bootstrapping", Status} /\ SetStatus(s)
          BY <3>8, <4>2, <5>1 DEF HealthEnd, Statuses
        <5> QED
          BY <4>2, <5>2, StatusAfter
      <4> QED
        BY <4>1, <4>2
    <3> QED
      BY <1>3, <3>1, <3>4, <3>5, <3>6, <3>7, <3>8
         DEF Handler, Refused, CreateBegin, Delete, BulkDestroy, RetryBegin, RetryEnd,
             RecreateBegin, HealthBegin, ReconcileSent
  <2> QED
    BY <1>1, <2>1, NothingLeftKept
<1> QED
  BY <1>2, <1>3

LEMMA NothingLeftNext ==
  Lifecycle /\ NothingLeft /\ [Next]_vars => NothingLeft' /\ ToldTruly
<1> SUFFICES ASSUME Lifecycle, NothingLeft, [Next]_vars
             PROVE  NothingLeft' /\ ToldTruly
  OBVIOUS
<1>1. CASE Restart
  <2>1. UNCHANGED <<tfState, cloud>>
    BY <1>1 DEF Restart, disk, cluster
  <2>2. Status' = "destroyed" => Status = "destroyed"
    BY <1>1, StatusAfter DEF Restart, Status, Statuses, Lifecycle
  <2> QED
    BY <2>1, <2>2, NothingLeftKept
<1>2. CASE ClusterChanges \/ UNCHANGED vars
  <2>1. Status' = Status /\ UNCHANGED <<tfState, cloud>>
    BY <1>2 DEF ClusterChanges, vars, Status, disk
  <2> QED
    BY <2>1, NothingLeftKept
<1> QED
  BY <1>1, <1>2, NothingLeftWorker, NothingLeftWatcher, NothingLeftHandler DEF Next

(***************************************************************************)
(* However many requests are open at a time and whatever they do: nothing  *)
(* makes a destroyed record untrue but a recreate that writes back the     *)
(* record it read before its preflight over that of a later operation.     *)
(***************************************************************************)
THEOREM DestroyedIsGone == Spec => DestroyedMeansGone
<1>1. Init => NothingLeft
  BY DEF Init, NothingLeft
<1>2. Lifecycle /\ NothingLeft /\ [Next]_vars => NothingLeft'
  BY NothingLeftNext
<1>3. Lifecycle /\ NothingLeft /\ [Next]_vars
        => [DestroyedInName' => DestroyedInName \/ \E c \in Clients : RecreateOverOther(c)]_vars
  BY NothingLeftNext DEF ToldTruly
<1> QED
  BY <1>1, <1>2, <1>3, LifecycleHolds, PTL DEF Spec, DestroyedMeansGone

=============================================================================
