------------------------------ MODULE JobQueue ------------------------------
(***************************************************************************)
(* The job queue of apps/api/src/jobs.ts as its only caller, terraform.ts, *)
(* uses it.  `running` and `waiters` are the two module-level variables of *)
(* jobs.ts; `jobs` is the map of terraform.ts that startApply and          *)
(* startDestroy consult before they ask for a slot and clear after they    *)
(* have given it back.                                                     *)
(*                                                                         *)
(* JavaScript runs acquireJobSlot and releaseJobSlot to the end before     *)
(* anything else.  releaseJobSlot ends in the loop of tryDispatch, which   *)
(* the module takes apart, one iteration per step, so that a loop that     *)
(* never ends is a behaviour: while `releasing` names a job, only the loop *)
(* takes steps.                                                            *)
(***************************************************************************)
EXTENDS Naturals, Sequences, FiniteSets

CONSTANTS Ids,          \* the instance ids
          Users,        \* the owners (ownerSub)
          GlobalLimit,  \* JOB_GLOBAL_LIMIT, 10 by default
          PerUserLimit, \* JOB_PER_USER_LIMIT, 2 by default
          NoJob         \* `releasing` when no release is under way

ASSUME LimitsAssumption == /\ GlobalLimit \in Nat \ {0}
                           /\ PerUserLimit \in Nat \ {0}

ASSUME NoJobAssumption == NoJob \notin Ids

VARIABLES jobs,      \* terraform.ts: the ids that have an apply or a destroy
          running,   \* the slots in use
          waiters,   \* the jobs that wait for a slot, in the order of the array
          releasing  \* the job whose releaseJobSlot is executing, or NoJob

vars == <<jobs, running, waiters, releasing>>

Slot == [id : Ids, ownerSub : Users]

RunningOf(u) == {s \in running : s.ownerSub = u}

(* Mutant: the cap is compared with >. *)
AboveUserLimit(u) == Cardinality(RunningOf(u)) > PerUserLimit

AtUserLimit(u)  == Cardinality(RunningOf(u)) >= PerUserLimit
AtGlobalLimit   == Cardinality(running) >= GlobalLimit

IsRunning(id) == \E s \in running : s.id = id
IsWaiting(id) == \E k \in DOMAIN waiters : waiters[k].id = id

(* terraform.ts isBusy: what the HTTP handlers look at before a job. *)
IsBusy(id) == id \in jobs \/ IsRunning(id) \/ IsWaiting(id)

-----------------------------------------------------------------------------

Init == /\ jobs = {}
        /\ running = {}
        /\ waiters = << >>
        /\ releasing = NoJob

(* Mutant: no look at the map of jobs. *)
AcquireTwice(id, u) ==
  /\ releasing = NoJob
  /\ jobs' = jobs \cup {id}
  /\ LET slot == [id |-> id, ownerSub |-> u]
     IN IF ~ AtGlobalLimit /\ ~ AtUserLimit(u)
        THEN running' = running \cup {slot} /\ UNCHANGED waiters
        ELSE waiters' = Append(waiters, slot) /\ UNCHANGED running
  /\ UNCHANGED releasing

(* Mutant: the slot is filed under the owner. *)
AcquireSwapped(id, u) ==
  /\ releasing = NoJob
  /\ id \notin jobs
  /\ jobs' = jobs \cup {id}
  /\ running' = running \cup {[id |-> u, ownerSub |-> id]}
  /\ UNCHANGED <<waiters, releasing>>

(***************************************************************************)
(* startApply or startDestroy, up to the slot: the job is refused when the *)
(* id has one already; else acquireJobSlot starts it or appends it.  Both  *)
(* run without an await between the test and the push.                     *)
(***************************************************************************)
AcquireJobSlot(id, u) ==
  /\ releasing = NoJob
  /\ id \notin jobs
  /\ jobs' = jobs \cup {id}
  /\ LET slot == [id |-> id, ownerSub |-> u]
     IN \/ /\ ~ AtGlobalLimit /\ ~ AtUserLimit(u)
           /\ running' = running \cup {slot}
           /\ UNCHANGED waiters
        \/ /\ AtGlobalLimit \/ AtUserLimit(u)
           /\ waiters' = Append(waiters, slot)
           /\ UNCHANGED running
  /\ UNCHANGED releasing

(* Mutant: the slot is given back and nobody is told. *)
ReleaseQuietly(id) ==
  /\ releasing = NoJob
  /\ IsRunning(id)
  /\ running' = {s \in running : s.id # id}
  /\ jobs' = jobs \ {id}
  /\ UNCHANGED <<waiters, releasing>>

(***************************************************************************)
(* The job is over, well or badly: the finally block of terraform.ts calls *)
(* releaseJobSlot, which drops the slot and goes into tryDispatch.         *)
(***************************************************************************)
ReleaseJobSlot(id) ==
  /\ releasing = NoJob
  /\ IsRunning(id)
  /\ running' = {s \in running : s.id # id}
  /\ releasing' = id
  /\ UNCHANGED <<jobs, waiters>>

(* The loop goes round again. *)
Dispatching == /\ releasing # NoJob
               /\ waiters # << >>
               /\ ~ AtGlobalLimit

Blocked(k) == waiters[k].ownerSub = Head(waiters).ownerSub

(* The first waiter's user is below its cap: the waiter starts. *)
DispatchStart ==
  /\ Dispatching
  /\ ~ AtUserLimit(Head(waiters).ownerSub)
  /\ running' = running \cup {Head(waiters)}
  /\ waiters' = Tail(waiters)
  /\ UNCHANGED <<jobs, releasing>>

(***************************************************************************)
(* The first waiter's user is at its cap: the waiters of the others move   *)
(* before those of this user, each group in its former order.  order lists *)
(* the old positions in their new order, and is the only such list.        *)
(***************************************************************************)
StablePartition(order) ==
  /\ \A j \in DOMAIN waiters : \E k \in DOMAIN waiters : order[k] = j
  /\ \A j, k \in DOMAIN waiters : j < k =>
       IF Blocked(order[j]) = Blocked(order[k])
       THEN order[j] < order[k]
       ELSE Blocked(order[k])

(* Mutant: only the first waiter goes to the end. *)
RotateFirst ==
  /\ Dispatching
  /\ AtUserLimit(Head(waiters).ownerSub)
  /\ \E k \in DOMAIN waiters : ~ Blocked(k)
  /\ waiters' = Append(Tail(waiters), Head(waiters))
  /\ UNCHANGED <<jobs, running, releasing>>

(* Mutant: the blocked waiters are pushed before the others. *)
RotateSwapped ==
  /\ Dispatching
  /\ AtUserLimit(Head(waiters).ownerSub)
  /\ LET blocked(w) == w.ownerSub = Head(waiters).ownerSub
         other(w)   == ~ blocked(w)
     IN waiters' = SelectSeq(waiters, blocked) \o SelectSeq(waiters, other)
  /\ UNCHANGED <<jobs, running, releasing>>

DispatchRotate ==
  /\ Dispatching
  /\ AtUserLimit(Head(waiters).ownerSub)
  /\ \E k \in DOMAIN waiters : ~ Blocked(k)
  /\ \E order \in [DOMAIN waiters -> DOMAIN waiters] :
       /\ StablePartition(order)
       /\ waiters' = [k \in DOMAIN waiters |-> waiters[order[k]]]
  /\ UNCHANGED <<jobs, running, releasing>>

(* Mutant: the loop returns at the first blocked user. *)
DispatchEndEarly ==
  /\ releasing # NoJob
  /\ \/ waiters = << >>
     \/ AtGlobalLimit
     \/ waiters # << >> /\ AtUserLimit(Head(waiters).ownerSub)
  /\ jobs' = jobs \ {releasing}
  /\ releasing' = NoJob
  /\ UNCHANGED <<running, waiters>>

(***************************************************************************)
(* tryDispatch returns: nobody waits, no slot is free, or only users whose *)
(* first waiter is blocked are left.  Then terraform.ts forgets the job.   *)
(***************************************************************************)
DispatchEnd ==
  /\ releasing # NoJob
  /\ \/ waiters = << >>
     \/ AtGlobalLimit
     \/ /\ waiters # << >>
        /\ AtUserLimit(Head(waiters).ownerSub)
        /\ \A k \in DOMAIN waiters : Blocked(k)
  /\ jobs' = jobs \ {releasing}
  /\ releasing' = NoJob
  /\ UNCHANGED <<running, waiters>>

Next == \/ \E id \in Ids, u \in Users : AcquireJobSlot(id, u)
        \/ \E id \in Ids : ReleaseJobSlot(id)
        \/ DispatchStart
        \/ DispatchRotate
        \/ DispatchEnd

Spec == Init /\ [][Next]_vars

(***************************************************************************)
(* The loop is synchronous code, so it keeps going.  A terraform command   *)
(* ends some day, and the event of its end waits in the event loop while   *)
(* other callbacks run: strong fairness.  Nobody has to start a job.       *)
(***************************************************************************)
Fairness == /\ WF_vars(DispatchStart \/ DispatchRotate \/ DispatchEnd)
            /\ \A id \in Ids : SF_vars(ReleaseJobSlot(id))

FairSpec == Spec /\ Fairness

-----------------------------------------------------------------------------
(* Correctness.                                                            *)

TypeOK == /\ jobs \subseteq Ids
          /\ running \subseteq Slot
          /\ waiters \in Seq(Slot)
          /\ releasing \in Ids \cup {NoJob}

(***************************************************************************)
(* The caps of jobs.ts hold, in the middle of a dispatch too: no more than *)
(* GlobalLimit jobs in all and PerUserLimit jobs of one user.              *)
(***************************************************************************)
LimitsHold == /\ Cardinality(running) <= GlobalLimit
              /\ \A u \in Users : Cardinality(RunningOf(u)) <= PerUserLimit

(***************************************************************************)
(* terraform.ts's map and the queue agree: an id has a job exactly when it *)
(* has a slot, waits for one or is just giving one back, and only one of   *)
(* the three and once.  So isBusy may look at either, no slot leaks, and   *)
(* the lookup of releaseJobSlot for a waiter of the same id finds none.    *)
(***************************************************************************)
OneClaimPerJob ==
  /\ \A s, t \in running : s.id = t.id => s = t
  /\ \A j, k \in DOMAIN waiters : waiters[j].id = waiters[k].id => j = k
  /\ \A s \in running, k \in DOMAIN waiters : s.id # waiters[k].id
  /\ ~ IsRunning(releasing) /\ ~ IsWaiting(releasing)
  /\ \A id \in Ids : id \in jobs <=> IsRunning(id) \/ IsWaiting(id) \/ id = releasing

(***************************************************************************)
(* No waiter is left behind: when no dispatch is under way, every waiter   *)
(* waits for a reason, a full house or its user's own cap.  A dispatch     *)
(* happens only on release, so a waiter left behind could wait forever.    *)
(***************************************************************************)
NoIdleWaiter ==
  releasing = NoJob =>
    \A k \in DOMAIN waiters : AtGlobalLimit \/ AtUserLimit(waiters[k].ownerSub)

(* What is left of the order of the array in JobSlots: the waiters of one  *)
(* user, oldest first.                                                     *)
IdsOf(q, u) ==
  LET first[n \in 0 .. Len(q)] ==
        IF n = 0 THEN << >>
        ELSE IF q[n].ownerSub = u THEN Append(first[n - 1], q[n].id) ELSE first[n - 1]
  IN first[Len(q)]

Slots == INSTANCE JobSlots WITH active <- running,
                                queue <- [u \in Users |-> IdsOf(waiters, u)]

(***************************************************************************)
(* The queue implements the slots of JobSlots: the rotation is invisible,  *)
(* every start is a grant to the oldest waiter of its user, and a rotation *)
(* never lets a job overtake an older one of the same user.                *)
(***************************************************************************)
ImplementsSlots == Slots!SlotsSpec

(***************************************************************************)
(* Every job that asked for a slot gets one, unless the process stops.     *)
(***************************************************************************)
EveryWaiterStarts == \A id \in Ids : IsWaiting(id) ~> IsRunning(id)

(***************************************************************************)
(* The rotation is no busy wait while somebody may start: passing over a   *)
(* blocked user moves every waiter below its cap nearer to the front, for  *)
(* any limits, so that the loop comes to one of them.  (When nobody may    *)
(* start it goes on for ever: DispatchReturns.)                            *)
(***************************************************************************)
Rotates == waiters' # waiters /\ Len(waiters') = Len(waiters)

RotationFindsWork ==
  [][Rotates => \A k \in DOMAIN waiters :
                  ~ AtUserLimit(waiters[k].ownerSub)
                    => \E j \in 1 .. (k - 1) : waiters'[j] = waiters[k]]_vars

(***************************************************************************)
(* The comment in tryDispatch, "Skip this user for now; try later when a   *)
(* slot frees": once entered, the loop ends.                               *)
(***************************************************************************)
DispatchReturns == releasing # NoJob ~> releasing = NoJob

=============================================================================
