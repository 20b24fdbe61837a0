---------------------------- MODULE RegistryFile ----------------------------
(* The registry in its file when one turn of the event loop changes        *)
(* several instances: at the start of the server, which takes up what a    *)
(* restart has cut off, and at a request that destroys many.  Reading,     *)
(* changing and writing the file is synchronous but for an await between   *)
(* the read and the write; what comes in between is decided by the order   *)
(* of the microtasks, first in first out, and nothing else runs until none *)
(* is left.  Instances are numbered in the order of the file; what only    *)
(* reads changes no order and is left out: so a watcher that has addresses *)
(* to probe, whose answers come in later turns.  One without any does not  *)
(* leave the turn before it has written.                                   *)
EXTENDS Integers, Sequences, FiniteSets, SequencesExt, FiniteSetsExt

CONSTANTS
    NumInstances,
    Slots           \* jobs of the user at a time

ASSUME RegistryAssumption == NumInstances \in Nat \ {0} /\ Slots \in Nat \ {0}

VARIABLES
    turn,           \* whose loop it is: "recovery" or "bulk"
    file,           \* instances.json: the status of each instance
    files,          \* instances that have files of terraform
    listed,         \* the file as it was at the beginning, which the recovery read
    position,       \* instance the loop is at
    got,            \* the status of it that bulk-destroy has read
    job,            \* where the job or the watcher of each instance is
    holds,          \* instances whose job has a slot
    waiters,        \* those that wait for one
    microtasks,
    wrote           \* history: the last status written for each instance

registryVars == <<turn, file, files, listed, position, got, job, holds, waiters, microtasks, wrote>>

Instances == 1 .. NumInstances
Loop == 0

\* Some instances in the order of the file.
InOrder(S) ==
    LET upTo[i \in 0 .. NumInstances] ==
            IF i = 0 THEN <<>> ELSE IF i \in S THEN Append(upTo[i - 1], i) ELSE upTo[i - 1]
    IN  upTo[NumInstances]

-----------------------------------------------------------------------------
(* Microtasks.                                                             *)

Resume(who) == [who |-> who, does |-> "resume"]

\* getInstance and upsertInstance read the file at once.  The body is what
\* follows their await, with the file it has seen and the status it writes,
\* if any.  Both return the promise of a promise, which is settled in two
\* microtasks more before the caller goes on.
Call(who, of, status) ==
    <<[who |-> who, does |-> "body", of |-> of, seen |-> file, status |-> status], [who |-> who, does |-> "adopt"]>>

GetInstance(who, of) == Call(who, of, "none")

Then(tasks) == microtasks' = Tail(microtasks) \o tasks

Doing(who, does) == microtasks # <<>> /\ Head(microtasks).who = who /\ Head(microtasks).does = does

Body(who) ==
    LET task == Head(microtasks)
    IN  /\ Doing(who, "body")
        /\ IF task.status = "none" THEN UNCHANGED <<file, wrote>>
           ELSE /\ file' = [task.seen EXCEPT ![task.of] = task.status]
                /\ wrote' = [wrote EXCEPT ![task.of] = task.status]
        /\ got' = IF who = Loop THEN task.seen[task.of] ELSE got
        /\ Then(<<>>)
        /\ UNCHANGED <<turn, files, listed, position, job, holds, waiters>>

Settle(who) ==
    /\ \/ Doing(who, "adopt") /\ Then(<<[who |-> who, does |-> "settle"]>>)
       \/ Doing(who, "settle") /\ Then(<<Resume(who)>>)
    /\ UNCHANGED <<turn, file, files, listed, position, got, job, holds, waiters, wrote>>

-----------------------------------------------------------------------------
(* The jobs that destroy.                                                  *)

\* Of jobs that ask one after the other, those that get a slot at once.
Admitted(ids) == SubSeq(ids, 1, Min({Len(ids), Slots - Cardinality(holds)}))

\* startDestroy of each, up to its first await.
StartDestroys(ids) ==
    /\ holds' = holds \cup ToSet(Admitted(ids))
    /\ waiters' = waiters \o SubSeq(ids, Len(Admitted(ids)) + 1, Len(ids))
    /\ job' = [i \in Instances |-> IF i \in ToSet(ids) THEN "slot" ELSE job[i]]

Resumed(ids) == [k \in DOMAIN Admitted(ids) |-> Resume(Admitted(ids)[k])]

JobStep(i, from, to, tasks) ==
    /\ Doing(i, "resume") /\ job[i] = from
    /\ job' = [job EXCEPT ![i] = to]
    /\ Then(tasks)
    /\ UNCHANGED <<turn, file, files, listed, position, got, wrote>>

\* With a slot the record is read and marked.
DestroyReads(i) == JobStep(i, "slot", "read", GetInstance(i, i)) /\ UNCHANGED <<holds, waiters>>
DestroyMarks(i) == JobStep(i, "read", "marked", Call(i, i, "destroying")) /\ UNCHANGED <<holds, waiters>>

\* Without files nothing is left to destroy; with them terraform is started
\* and the turn is over for this job.  They stay when it has destroyed.
DestroyRuns(i) ==
    /\ \/ i \in files /\ JobStep(i, "marked", "terraform", <<>>)
       \/ i \notin files /\ JobStep(i, "marked", "gone", GetInstance(i, i))
    /\ UNCHANGED <<holds, waiters>>

TerraformEnds(i) ==
    /\ microtasks = <<>> /\ job[i] = "terraform"
    /\ \E end \in {"gone", "failed"} : job' = [job EXCEPT ![i] = end]
    /\ microtasks' = GetInstance(i, i)
    /\ UNCHANGED <<turn, file, files, listed, position, got, holds, waiters, wrote>>

DestroyConcludes(i) ==
    /\ \/ JobStep(i, "gone", "concluded", Call(i, i, "destroyed"))
       \/ JobStep(i, "failed", "concluded", Call(i, i, "failed"))
    /\ UNCHANGED <<holds, waiters>>

\* The slot goes to the first who waits.
DestroyReleases(i) ==
    \/ /\ waiters = <<>>
       /\ JobStep(i, "concluded", "none", <<>>)
       /\ holds' = holds \ {i}
       /\ UNCHANGED waiters
    \/ /\ waiters # <<>>
       /\ JobStep(i, "concluded", "none", <<Resume(Head(waiters))>>)
       /\ holds' = (holds \ {i}) \cup {Head(waiters)}
       /\ waiters' = Tail(waiters)

-----------------------------------------------------------------------------
(* The watchers without addresses.                                         *)

WatchStep(i, from, to, tasks) == JobStep(i, from, to, tasks) /\ UNCHANGED <<holds, waiters>>

\* probeHealth of a record without addresses has its result at once, and the
\* promise of a promise takes two microtasks; on VMs the results of the
\* clusters are put together first.  It is not "ready" then: a deployment
\* without clusters, of which it is, never becomes "bootstrapping".
WatchAsks(i) ==
    \/ WatchStep(i, "watch", "collect", <<Resume(i)>>)
    \/ \E from \in {"watch", "collect"} : WatchStep(i, from, "probe", <<[who |-> i, does |-> "adopt"]>>)

\* The record is read again and its health is written; then the watcher
\* sleeps, and the turn is over for it.
WatchReads(i) == WatchStep(i, "probe", "reread", GetInstance(i, i))
WatchWrites(i) == WatchStep(i, "reread", "written", Call(i, i, "bootstrapping"))
WatchSleeps(i) == WatchStep(i, "written", "none", <<>>)

-----------------------------------------------------------------------------
(* The loops.                                                              *)

\* The recovery goes through the file as it has read it, and on to the next
\* instance at once but after the mark of an apply that was cut off.
Recovers(status) ==
    /\ turn = "recovery" /\ Doing(Loop, "resume")
    /\ position < NumInstances /\ listed[position + 1] = status
    /\ position' = position + 1
    /\ UNCHANGED <<turn, file, files, listed, got, wrote>>

RecoverPasses == Recovers("ready") /\ UNCHANGED <<job, holds, waiters, microtasks>>

RecoverDestroys ==
    /\ Recovers("destroying")
    /\ StartDestroys(<<position + 1>>)
    /\ microtasks' = microtasks \o Resumed(<<position + 1>>)

RecoverWatches ==
    /\ Recovers("bootstrapping")
    /\ job' = [job EXCEPT ![position + 1] = "watch"]
    /\ microtasks' = microtasks \o GetInstance(position + 1, position + 1)
    /\ UNCHANGED <<holds, waiters>>

(* Mutant: the mark is not awaited. *)
RecoverMarksAtOnce ==
    /\ Recovers("applying")
    /\ microtasks' = microtasks \o Call(Loop, position + 1, "failed")
    /\ UNCHANGED <<job, holds, waiters>>

RecoverMarks ==
    /\ Recovers("applying")
    /\ Then(Call(Loop, position + 1, "failed"))
    /\ UNCHANGED <<job, holds, waiters>>

RecoverEnds ==
    /\ turn = "recovery" /\ Doing(Loop, "resume") /\ position = NumInstances
    /\ Then(<<>>)
    /\ UNCHANGED <<turn, file, files, listed, position, got, job, holds, waiters, wrote>>

(* Mutant: bulk-destroy starts all its jobs at once. *)
BulkAtOnce ==
    LET ids == InOrder({i \in Instances : file[i] # "destroyed"})
    IN  /\ turn = "bulk" /\ Doing(Loop, "resume") /\ position = 0
        /\ position' = NumInstances
        /\ StartDestroys(ids)
        /\ Then(Resumed(ids))
        /\ UNCHANGED <<turn, file, files, listed, got, wrote>>

\* bulk-destroy reads an instance, then starts its job unless it is
\* destroyed already, and goes on to the next when startDestroy returns.
BulkReads ==
    /\ turn = "bulk" /\ Doing(Loop, "resume")
    /\ got \in {"none", "destroyed"} /\ position < NumInstances
    /\ position' = position + 1
    /\ Then(GetInstance(Loop, position + 1))
    /\ UNCHANGED <<turn, file, files, listed, got, job, holds, waiters, wrote>>

BulkDestroys ==
    /\ turn = "bulk" /\ Doing(Loop, "resume")
    /\ got \notin {"none", "destroyed"}
    /\ got' = "none"
    /\ StartDestroys(<<position>>)
    /\ Then(Resumed(<<position>>) \o <<Resume(Loop)>>)
    /\ UNCHANGED <<turn, file, files, listed, position, wrote>>

BulkEnds ==
    /\ turn = "bulk" /\ Doing(Loop, "resume")
    /\ got \in {"none", "destroyed"} /\ position = NumInstances
    /\ Then(<<>>)
    /\ UNCHANGED <<turn, file, files, listed, position, got, job, holds, waiters, wrote>>

\* What only one of the loops looks at, or neither, is left as it is.
RegistryInit ==
    /\ \/ turn = "recovery" /\ file \in [Instances -> {"ready", "applying", "destroying", "bootstrapping"}]
       \/ turn = "bulk" /\ file \in [Instances -> {"ready", "destroyed"}]
    /\ files \in SUBSET {i \in Instances : file[i] = (IF turn = "bulk" THEN "ready" ELSE "destroying")}
    /\ listed = file /\ wrote = file
    /\ position = 0 /\ got = "none"
    /\ job = [i \in Instances |-> "none"]
    /\ holds = {} /\ waiters = <<>>
    /\ microtasks = <<Resume(Loop)>>

RegistryNext ==
    \/ RecoverPasses \/ RecoverDestroys \/ RecoverWatches \/ RecoverMarks \/ RecoverEnds
    \/ BulkReads \/ BulkDestroys \/ BulkEnds
    \/ \E who \in Instances \cup {Loop} : Body(who) \/ Settle(who)
    \/ \E i \in Instances :
        \/ DestroyReads(i) \/ DestroyMarks(i) \/ DestroyRuns(i) \/ TerraformEnds(i) \/ DestroyConcludes(i) \/ DestroyReleases(i)
        \/ WatchAsks(i) \/ WatchReads(i) \/ WatchWrites(i) \/ WatchSleeps(i)

RegistrySpec == RegistryInit /\ [][RegistryNext]_registryVars

-----------------------------------------------------------------------------

Lost(i) == microtasks = <<>> /\ file[i] # wrote[i]

\* More instances than slots: a job waits for one, and its steps may fall on
\* those of a job that did not.
Crowded == Slots > 1 /\ Cardinality({i \in Instances : listed[i] = "ready"}) > Slots

\* Of what bulk-destroy (index.ts) writes of one instance nothing is lost to
\* what it writes of another, although dbUpsertInstance (db.ts) writes the
\* whole file as it was before an await; and when all jobs are over every
\* instance is destroyed or has failed.  With more instances than slots the
\* mark of a destroy may be lost, and the end of one that had no files.
BulkKeeps ==
    turn = "bulk" =>
        /\ \A i \in Instances : Lost(i) => Crowded /\ (job[i] = "terraform" \/ i \notin files)
        /\ microtasks = <<>> /\ (\A i \in Instances : job[i] = "none") =>
                \A i \in Instances : file[i] \in {"destroyed", "failed"} \/ (Crowded /\ listed[i] = "ready" /\ i \notin files)

\* What the recovery starts a job or a watcher for.
Taken(i) == listed[i] \in {"destroying", "bootstrapping"}

\* The recovery passes one of those and marks another apply before it marks this one.
Preceded(i) == \E d, j \in 1 .. i - 1 : d < j /\ Taken(d) /\ listed[j] = "applying"

\* Of what the recovery at the start of the server (index.ts) writes, and
\* the destroys and watchers it starts meanwhile, two kinds may be lost: the
\* mark of an apply when another mark came between it and one of those, and
\* the end of a destroy without files beside other destroys or watchers.
RecoveryKeeps ==
    turn = "recovery" =>
        \A i \in Instances : Lost(i) =>
            \/ listed[i] = "applying" /\ Preceded(i)
            \/ listed[i] = "destroying" /\ i \notin files /\ \E d \in Instances \ {i} : Taken(d)

=============================================================================
