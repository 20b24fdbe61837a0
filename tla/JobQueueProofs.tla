--------------------------- MODULE JobQueueProofs ---------------------------
(***************************************************************************)
(* What holds of JobQueue for every number of instances, of users and for  *)
(* all limits.  The inductive invariant comes in parts, each proved on top *)
(* of the ones before it: the types; the caps, with the finiteness of      *)
(* `running`, without which its cardinality means nothing; one claim per   *)
(* job; no idle waiter.  All of them together carry the refinement of      *)
(* JobSlots, for which the queue of a user has to be followed through      *)
(* every change of the array.                                              *)
(***************************************************************************)
EXTENDS JobQueue, SequenceFacts

-----------------------------------------------------------------------------
(* Type correctness.                                                       *)

(* A stable partition lists every old position once.                       *)
LEMMA StablePartitionIsPermutation ==
  ASSUME TypeOK,
         NEW order \in [DOMAIN waiters -> DOMAIN waiters],
         StablePartition(order)
  PROVE  /\ \A j, k \in DOMAIN waiters : order[j] = order[k] => j = k
         /\ \A j \in DOMAIN waiters : \E k \in DOMAIN waiters : order[k] = j
<1>1. DOMAIN waiters \subseteq Nat
  BY DEF TypeOK
<1>2. \A j, k \in DOMAIN waiters : j < k => order[j] # order[k]
  <2> SUFFICES ASSUME NEW j \in DOMAIN waiters, NEW k \in DOMAIN waiters,
                      j < k, order[j] = order[k]
               PROVE  FALSE
    OBVIOUS
  <2>1. order[j] < order[k]
    BY DEF StablePartition
  <2> QED
    BY <2>1, <1>1
<1>3. \A j, k \in DOMAIN waiters : order[j] = order[k] => j = k
  BY <1>1, <1>2
<1> QED
  BY <1>3 DEF StablePartition

(* A permuted queue has the waiters of the queue.                          *)
LEMMA RotatedQueue ==
  ASSUME TypeOK,
         NEW order \in [DOMAIN waiters -> DOMAIN waiters],
         waiters' = [k \in DOMAIN waiters |-> waiters[order[k]]]
  PROVE  /\ waiters' \in Seq(Slot)
         /\ DOMAIN waiters' = DOMAIN waiters
         /\ \A k \in DOMAIN waiters : waiters'[k] = waiters[order[k]]
<1>1. Len(waiters) \in Nat /\ DOMAIN waiters = 1 .. Len(waiters)
  BY DEF TypeOK
<1>2. waiters' \in [1 .. Len(waiters) -> Slot]
  BY <1>1 DEF TypeOK
<1>3. waiters' \in Seq(Slot)
  BY <1>1, <1>2, SeqDef
<1> QED
  BY <1>3

LEMMA TypeInit == Init => TypeOK
BY DEF Init, TypeOK

LEMMA TypeNext == TypeOK /\ [Next]_vars => TypeOK'
<1> SUFFICES ASSUME TypeOK, [Next]_vars
             PROVE  TypeOK'
  OBVIOUS
<1>1. ASSUME NEW id \in Ids, NEW u \in Users, AcquireJobSlot(id, u)
      PROVE  TypeOK'
  <2> DEFINE slot == [id |-> id, ownerSub |-> u]
  <2>1. slot \in Slot
    BY DEF Slot
  <2>2. Append(waiters, slot) \in Seq(Slot)
    BY <2>1 DEF TypeOK
  <2> QED
    BY <1>1, <2>1, <2>2 DEF AcquireJobSlot, TypeOK
<1>2. ASSUME NEW id \in Ids, ReleaseJobSlot(id)
      PROVE  TypeOK'
  BY <1>2 DEF ReleaseJobSlot, TypeOK
<1>3. CASE DispatchStart
  <2>1. waiters # << >>
    BY <1>3 DEF DispatchStart, Dispatching
  <2>2. Head(waiters) \in Slot /\ Tail(waiters) \in Seq(Slot)
    BY <2>1 DEF TypeOK
  <2> QED
    BY <1>3, <2>2 DEF DispatchStart, TypeOK
<1>4. CASE DispatchRotate
  BY <1>4, RotatedQueue DEF DispatchRotate, TypeOK
<1>5. CASE DispatchEnd
  BY <1>5 DEF DispatchEnd, TypeOK
<1>6. CASE UNCHANGED vars
  BY <1>6 DEF vars, TypeOK
<1> QED
  BY <1>1, <1>2, <1>3, <1>4, <1>5, <1>6 DEF Next

(* The variables have the types that jobs.ts and terraform.ts give them.   *)
THEOREM TypeCorrect == Spec => []TypeOK
BY TypeInit, TypeNext, PTL DEF Spec

-----------------------------------------------------------------------------
(* The caps.                                                               *)

(***************************************************************************)
(* Both caps in one inductive form: `running` is finite and every set that *)
(* is counted stays below its cap.                                         *)
(***************************************************************************)
FiniteLimits == IsFiniteSet(running) /\ LimitsHold

(* What one user runs is part of a finite set.                             *)
LEMMA RunningOfFinite ==
  ASSUME IsFiniteSet(running), NEW u
  PROVE  /\ IsFiniteSet(RunningOf(u))
         /\ Cardinality(RunningOf(u)) \in Nat
         /\ Cardinality(RunningOf(u)) <= Cardinality(running)
<1>1. RunningOf(u) \in SUBSET running
  BY DEF RunningOf
<1> QED
  BY <1>1, FS_Subset, FS_CardinalityType

(* A slot added below both caps leaves both kept.                          *)
LEMMA StartKeepsLimits ==
  ASSUME FiniteLimits, NEW s \in Slot,
         ~ AtGlobalLimit, ~ AtUserLimit(s.ownerSub),
         running' = running \cup {s}
  PROVE  FiniteLimits'
<1> USE LimitsAssumption
<1>1. IsFiniteSet(running') /\ Cardinality(running') <= GlobalLimit
  <2>1. Cardinality(running) \in Nat /\ Cardinality(running) < GlobalLimit
    BY FS_CardinalityType DEF FiniteLimits, AtGlobalLimit
  <2> QED
    BY <2>1, FS_AddElement DEF FiniteLimits
<1>2. ASSUME NEW u \in Users
      PROVE  Cardinality(RunningOf(u)') <= PerUserLimit
  <2>1. IsFiniteSet(RunningOf(u)) /\ Cardinality(RunningOf(u)) \in Nat
    BY RunningOfFinite DEF FiniteLimits
  <2>2. CASE s.ownerSub = u
    <3>1. RunningOf(u)' = RunningOf(u) \cup {s}
      BY <2>2 DEF RunningOf
    <3>2. Cardinality(RunningOf(u)) < PerUserLimit
      BY <2>1, <2>2 DEF AtUserLimit
    <3> QED
      BY <2>1, <3>1, <3>2, FS_AddElement
  <2>3. CASE s.ownerSub # u
    <3>1. RunningOf(u)' = RunningOf(u)
      BY <2>3 DEF RunningOf
    <3> QED
      BY <3>1 DEF FiniteLimits, LimitsHold
  <2> QED
    BY <2>2, <2>3
<1> QED
  BY <1>1, <1>2 DEF FiniteLimits, LimitsHold

(* Fewer slots leave both caps kept.                                       *)
LEMMA ReleaseKeepsLimits ==
  ASSUME FiniteLimits, running' \in SUBSET running
  PROVE  FiniteLimits'
<1> USE LimitsAssumption
<1>1. IsFiniteSet(running') /\ Cardinality(running') <= Cardinality(running)
  BY FS_Subset DEF FiniteLimits
<1>2. ASSUME NEW u \in Users
      PROVE  Cardinality(RunningOf(u)') <= Cardinality(RunningOf(u))
  <2>1. RunningOf(u)' \in SUBSET RunningOf(u)
    BY DEF RunningOf
  <2> QED
    BY <2>1, RunningOfFinite, FS_Subset DEF FiniteLimits
<1>3. \A u \in Users : /\ Cardinality(RunningOf(u)) \in Nat
                        /\ Cardinality(RunningOf(u)') \in Nat
  <2>1. ASSUME NEW u \in Users
        PROVE  Cardinality(RunningOf(u)') \in Nat
    <3>1. RunningOf(u)' \in SUBSET running'
      BY DEF RunningOf
    <3> QED
      BY <3>1, <1>1, FS_Subset, FS_CardinalityType
  <2> QED
    BY <2>1, RunningOfFinite DEF FiniteLimits
<1>4. Cardinality(running) \in Nat /\ Cardinality(running') \in Nat
  BY <1>1, FS_CardinalityType DEF FiniteLimits
<1> QED
  BY <1>1, <1>2, <1>3, <1>4 DEF FiniteLimits, LimitsHold

LEMMA LimitsInit == Init => FiniteLimits
<1> SUFFICES ASSUME Init PROVE FiniteLimits
  OBVIOUS
<1>1. IsFiniteSet(running) /\ Cardinality(running) = 0
  BY FS_EmptySet DEF Init
<1>2. ASSUME NEW u \in Users PROVE Cardinality(RunningOf(u)) = 0
  <2>1. RunningOf(u) = {}
    BY DEF Init, RunningOf
  <2> QED
    BY <2>1, FS_EmptySet
<1> QED
  BY <1>1, <1>2, LimitsAssumption DEF FiniteLimits, LimitsHold

LEMMA LimitsNext == TypeOK /\ FiniteLimits /\ [Next]_vars => FiniteLimits'
<1> SUFFICES ASSUME TypeOK, FiniteLimits, [Next]_vars
             PROVE  FiniteLimits'
  OBVIOUS
<1>0. ASSUME UNCHANGED running PROVE FiniteLimits'
  BY <1>0 DEF FiniteLimits, LimitsHold, RunningOf
<1>1. ASSUME NEW id \in Ids, NEW u \in Users, AcquireJobSlot(id, u)
      PROVE  FiniteLimits'
  <2> DEFINE slot == [id |-> id, ownerSub |-> u]
  <2>1. slot \in Slot /\ slot.ownerSub = u
    BY DEF Slot
  <2>2. CASE running' = running \cup {slot} /\ ~ AtGlobalLimit /\ ~ AtUserLimit(u)
    <3> HIDE DEF slot
    <3> QED
      BY <2>1, <2>2, StartKeepsLimits
  <2> QED
    BY <1>0, <1>1, <2>2 DEF AcquireJobSlot
<1>2. ASSUME NEW id \in Ids, ReleaseJobSlot(id)
      PROVE  FiniteLimits'
  BY <1>2, ReleaseKeepsLimits DEF ReleaseJobSlot
<1>3. CASE DispatchStart
  <2>1. Head(waiters) \in Slot
    BY <1>3 DEF DispatchStart, Dispatching, TypeOK
  <2> QED
    BY <1>3, <2>1, StartKeepsLimits DEF DispatchStart, Dispatching
<1>4. CASE DispatchRotate
  BY <1>4, <1>0 DEF DispatchRotate
<1>5. CASE DispatchEnd
  BY <1>5, <1>0 DEF DispatchEnd
<1>6. CASE UNCHANGED vars
  BY <1>6, <1>0 DEF vars
<1> QED
  BY <1>1, <1>2, <1>3, <1>4, <1>5, <1>6 DEF Next

(* The caps of jobs.ts hold at every step of every dispatch, whatever the  *)
(* limits, the number of users and the jobs they ask for.                  *)
THEOREM Limits == Spec => []LimitsHold
<1>1. FiniteLimits => LimitsHold
  BY DEF FiniteLimits
<1> QED
  BY <1>1, LimitsInit, LimitsNext, TypeCorrect, PTL DEF Spec

-----------------------------------------------------------------------------
(* One claim per job.                                                      *)

(* Every id that is named by a slot or a waiter is an id, so NoJob is not. *)
LEMMA ClaimsAreIds ==
  ASSUME TypeOK
  PROVE  /\ \A s \in running : s.id \in Ids
         /\ \A k \in DOMAIN waiters : waiters[k] \in Slot /\ waiters[k].id \in Ids
         /\ ~ IsRunning(NoJob) /\ ~ IsWaiting(NoJob)
<1>1. \A s \in running : s.id \in Ids
  BY DEF TypeOK, Slot
<1>2. \A k \in DOMAIN waiters : waiters[k] \in Slot
  BY DEF TypeOK
<1>3. \A s \in Slot : s.id \in Ids
  BY DEF Slot
<1> QED
  BY <1>1, <1>2, <1>3, NoJobAssumption DEF IsRunning, IsWaiting

LEMMA ClaimsInit == Init => OneClaimPerJob
<1> SUFFICES ASSUME Init PROVE OneClaimPerJob
  OBVIOUS
<1>1. running = {} /\ jobs = {} /\ releasing = NoJob
  BY DEF Init
<1>2. DOMAIN waiters = {}
  BY DEF Init
<1>3. \A i : ~ IsRunning(i) /\ ~ IsWaiting(i)
  BY <1>1, <1>2 DEF IsRunning, IsWaiting
<1>4. \A i \in Ids : i # releasing
  BY <1>1, NoJobAssumption
<1>5. ~ IsRunning(releasing) /\ ~ IsWaiting(releasing)
  BY <1>3
<1>6. \A i \in Ids : i \in jobs <=> IsRunning(i) \/ IsWaiting(i) \/ i = releasing
  BY <1>1, <1>3, <1>4
<1> QED
  BY <1>1, <1>2, <1>5, <1>6 DEF OneClaimPerJob

LEMMA ClaimsAcquire ==
  ASSUME TypeOK, OneClaimPerJob, NEW id \in Ids, NEW u \in Users, AcquireJobSlot(id, u)
  PROVE  OneClaimPerJob'
<1> DEFINE slot == [id |-> id, ownerSub |-> u]
<1>1. /\ releasing = NoJob /\ releasing' = NoJob /\ id # NoJob
      /\ jobs' = jobs \cup {id}
  BY NoJobAssumption DEF AcquireJobSlot
<1>2. ~ IsRunning(id) /\ ~ IsWaiting(id)
  BY DEF AcquireJobSlot, OneClaimPerJob
<1>3. slot \in Slot /\ slot.id = id
  BY DEF Slot
<1>4. CASE running' = running \cup {slot} /\ waiters' = waiters
  <2> HIDE DEF slot
  <2>1. \A i : IsRunning(i)' <=> IsRunning(i) \/ i = id
    BY <1>3, <1>4 DEF IsRunning
  <2>2. \A i : IsWaiting(i)' <=> IsWaiting(i)
    BY <1>4 DEF IsWaiting
  <2>3. \A s, t \in running' : s.id = t.id => s = t
    BY <1>2, <1>3, <1>4 DEF OneClaimPerJob, IsRunning
  <2>4. \A s \in running', k \in DOMAIN waiters' : s.id # waiters'[k].id
    BY <1>2, <1>3, <1>4 DEF OneClaimPerJob, IsWaiting
  <2>5. ~ IsRunning(releasing)' /\ ~ IsWaiting(releasing)'
    BY <1>1, <2>1, <2>2, ClaimsAreIds, <1>4 DEF IsRunning, IsWaiting
  <2>6. \A i \in Ids : i \in jobs' <=> IsRunning(i)' \/ IsWaiting(i)' \/ i = releasing'
    BY <1>1, <2>1, <2>2 DEF OneClaimPerJob
  <2> QED
    BY <1>4, <2>3, <2>4, <2>5, <2>6 DEF OneClaimPerJob
<1>5. CASE waiters' = Append(waiters, slot) /\ running' = running
  <2> HIDE DEF slot
  <2>1. /\ Len(waiters) \in Nat /\ DOMAIN waiters = 1 .. Len(waiters)
        /\ DOMAIN waiters' = 1 .. Len(waiters) + 1
        /\ \A k \in DOMAIN waiters : waiters'[k] = waiters[k]
        /\ waiters'[Len(waiters) + 1] = slot
    BY <1>3, <1>5 DEF TypeOK
  <2>2. \A k \in DOMAIN waiters' : k \in DOMAIN waiters \/ k = Len(waiters) + 1
    BY <2>1
  <2>3. \A i : IsWaiting(i)' <=> IsWaiting(i) \/ i = id
    BY <1>3, <2>1, <2>2 DEF IsWaiting
  <2>4. \A i : IsRunning(i)' <=> IsRunning(i)
    BY <1>5 DEF IsRunning
  <2>5. \A j, k \in DOMAIN waiters' : waiters'[j].id = waiters'[k].id => j = k
    BY <1>2, <1>3, <2>1, <2>2 DEF OneClaimPerJob, IsWaiting
  <2>6. \A s \in running', k \in DOMAIN waiters' : s.id # waiters'[k].id
    BY <1>2, <1>3, <1>5, <2>1, <2>2 DEF OneClaimPerJob, IsRunning
  <2>7. ~ IsRunning(releasing)' /\ ~ IsWaiting(releasing)'
    <3>1. ~ IsRunning(NoJob)' /\ ~ IsWaiting(NoJob)'
      BY <1>1, <2>3, <2>4, ClaimsAreIds
    <3> QED
      BY <1>1, <3>1 DEF IsRunning, IsWaiting
  <2>8. \A i \in Ids : i \in jobs' <=> IsRunning(i)' \/ IsWaiting(i)' \/ i = releasing'
    BY <1>1, <2>3, <2>4 DEF OneClaimPerJob
  <2> QED
    BY <2>5, <2>6, <2>7, <2>8, <1>5 DEF OneClaimPerJob
<1> QED
  BY <1>4, <1>5 DEF AcquireJobSlot

LEMMA ClaimsRelease ==
  ASSUME TypeOK, OneClaimPerJob, NEW id \in Ids, ReleaseJobSlot(id)
  PROVE  OneClaimPerJob'
<1>1. /\ releasing = NoJob /\ releasing' = id
      /\ jobs' = jobs /\ waiters' = waiters
      /\ running' = {s \in running : s.id # id}
      /\ IsRunning(id)
  BY DEF ReleaseJobSlot
<1>2. \A i : IsRunning(i)' <=> IsRunning(i) /\ i # id
  BY <1>1 DEF IsRunning
<1>3. \A i : IsWaiting(i)' <=> IsWaiting(i)
  BY <1>1 DEF IsWaiting
<1>4. ~ IsWaiting(id)
  BY <1>1 DEF IsWaiting, IsRunning, OneClaimPerJob
<1>5. ~ IsRunning(releasing)' /\ ~ IsWaiting(releasing)'
  BY <1>1, <1>4 DEF IsRunning, IsWaiting
<1>6. \A i \in Ids : i \in jobs' <=> IsRunning(i)' \/ IsWaiting(i)' \/ i = releasing'
  BY <1>1, <1>2, <1>3, NoJobAssumption DEF OneClaimPerJob
<1> QED
  BY <1>1, <1>5, <1>6 DEF OneClaimPerJob

LEMMA ClaimsStart ==
  ASSUME TypeOK, OneClaimPerJob, DispatchStart
  PROVE  OneClaimPerJob'
<1>1. /\ Len(waiters) \in Nat \ {0} /\ DOMAIN waiters = 1 .. Len(waiters)
      /\ Head(waiters) = waiters[1] /\ 1 \in DOMAIN waiters
      /\ DOMAIN Tail(waiters) = 1 .. Len(waiters) - 1
      /\ \A k \in DOMAIN Tail(waiters) : k + 1 \in DOMAIN waiters /\ Tail(waiters)[k] = waiters[k + 1]
  BY DEF DispatchStart, Dispatching, TypeOK
<1>2. /\ running' = running \cup {waiters[1]}
      /\ waiters' = Tail(waiters)
      /\ jobs' = jobs /\ releasing' = releasing
  BY <1>1 DEF DispatchStart
<1>3. \A i : IsRunning(i)' <=> IsRunning(i) \/ i = waiters[1].id
  BY <1>2 DEF IsRunning
<1>4. \A i : IsWaiting(i)' => IsWaiting(i) /\ i # waiters[1].id
  <2> SUFFICES ASSUME NEW k \in DOMAIN waiters'
               PROVE  IsWaiting(waiters'[k].id) /\ waiters'[k].id # waiters[1].id
    BY DEF IsWaiting
  <2>1. k + 1 \in DOMAIN waiters /\ waiters'[k] = waiters[k + 1] /\ k + 1 # 1
    BY <1>1, <1>2
  <2> QED
    BY <1>1, <2>1 DEF IsWaiting, OneClaimPerJob
<1>5. \A i : IsWaiting(i) /\ i # waiters[1].id => IsWaiting(i)'
  <2> SUFFICES ASSUME NEW k \in DOMAIN waiters, waiters[k].id # waiters[1].id
               PROVE  \E j \in DOMAIN waiters' : waiters'[j].id = waiters[k].id
    BY DEF IsWaiting
  <2>1. k - 1 \in DOMAIN waiters' /\ waiters'[k - 1] = waiters[k]
    BY <1>1, <1>2
  <2> QED
    BY <2>1
<1>6. \A s, t \in running' : s.id = t.id => s = t
  BY <1>1, <1>2 DEF OneClaimPerJob
<1>7. \A j, k \in DOMAIN waiters' : waiters'[j].id = waiters'[k].id => j = k
  <2> SUFFICES ASSUME NEW j \in DOMAIN waiters', NEW k \in DOMAIN waiters',
                      waiters'[j].id = waiters'[k].id
               PROVE  j = k
    OBVIOUS
  <2>1. j + 1 = k + 1
    BY <1>1, <1>2 DEF OneClaimPerJob
  <2> QED
    BY <2>1, <1>1, <1>2
<1>8. \A s \in running', k \in DOMAIN waiters' : s.id # waiters'[k].id
  <2> SUFFICES ASSUME NEW s \in running', NEW k \in DOMAIN waiters'
               PROVE  s.id # waiters'[k].id
    OBVIOUS
  <2>1. waiters'[k] = waiters[k + 1] /\ k + 1 \in DOMAIN waiters /\ k + 1 # 1
    BY <1>1, <1>2
  <2> QED
    BY <2>1, <1>1, <1>2 DEF OneClaimPerJob
<1>9. ~ IsRunning(releasing)' /\ ~ IsWaiting(releasing)'
  <2>1. IsWaiting(waiters[1].id)
    BY <1>1 DEF IsWaiting
  <2>2. releasing # waiters[1].id
    BY <2>1 DEF OneClaimPerJob
  <2>3. ~ IsRunning(releasing) /\ ~ IsWaiting(releasing)
    BY DEF OneClaimPerJob
  <2> QED
    BY <1>2, <1>3, <1>4, <2>2, <2>3 DEF IsRunning, IsWaiting
<1>10. \A i \in Ids : i \in jobs' <=> IsRunning(i)' \/ IsWaiting(i)' \/ i = releasing'
  <2>1. IsWaiting(waiters[1].id)
    BY <1>1 DEF IsWaiting
  <2> QED
    BY <1>2, <1>3, <1>4, <1>5, <2>1 DEF OneClaimPerJob
<1> QED
  BY <1>6, <1>7, <1>8, <1>9, <1>10 DEF OneClaimPerJob

LEMMA ClaimsRotate ==
  ASSUME TypeOK, OneClaimPerJob, DispatchRotate
  PROVE  OneClaimPerJob'
<1>1. PICK order \in [DOMAIN waiters -> DOMAIN waiters] :
        /\ StablePartition(order)
        /\ waiters' = [k \in DOMAIN waiters |-> waiters[order[k]]]
  BY DEF DispatchRotate
<1>2. /\ \A j, k \in DOMAIN waiters : order[j] = order[k] => j = k
      /\ \A j \in DOMAIN waiters : \E k \in DOMAIN waiters : order[k] = j
  BY <1>1, StablePartitionIsPermutation
<1>3. /\ DOMAIN waiters' = DOMAIN waiters
      /\ \A k \in DOMAIN waiters : order[k] \in DOMAIN waiters /\ waiters'[k] = waiters[order[k]]
  BY <1>1
<1>4. running' = running /\ jobs' = jobs /\ releasing' = releasing
  BY DEF DispatchRotate
<1>5. \A i : IsWaiting(i)' <=> IsWaiting(i)
  BY <1>2, <1>3 DEF IsWaiting
<1>6. \A i : IsRunning(i)' <=> IsRunning(i)
  BY <1>4 DEF IsRunning
<1>7. \A j, k \in DOMAIN waiters' : waiters'[j].id = waiters'[k].id => j = k
  BY <1>2, <1>3 DEF OneClaimPerJob
<1>8. \A s \in running', k \in DOMAIN waiters' : s.id # waiters'[k].id
  BY <1>3, <1>4 DEF OneClaimPerJob
<1>9. ~ IsRunning(releasing)' /\ ~ IsWaiting(releasing)'
  BY <1>4, <1>5, <1>6 DEF OneClaimPerJob, IsRunning, IsWaiting
<1>10. \A i \in Ids : i \in jobs' <=> IsRunning(i)' \/ IsWaiting(i)' \/ i = releasing'
  BY <1>4, <1>5, <1>6 DEF OneClaimPerJob
<1> QED
  BY <1>4, <1>7, <1>8, <1>9, <1>10 DEF OneClaimPerJob

LEMMA ClaimsEnd ==
  ASSUME TypeOK, OneClaimPerJob, DispatchEnd
  PROVE  OneClaimPerJob'
<1>1. /\ running' = running /\ waiters' = waiters
      /\ jobs' = jobs \ {releasing} /\ releasing' = NoJob
  BY DEF DispatchEnd
<1>2. \A i : IsWaiting(i)' <=> IsWaiting(i)
  BY <1>1 DEF IsWaiting
<1>3. \A i : IsRunning(i)' <=> IsRunning(i)
  BY <1>1 DEF IsRunning
<1>4. ~ IsRunning(releasing)' /\ ~ IsWaiting(releasing)'
  BY <1>1, ClaimsAreIds DEF IsRunning, IsWaiting
<1>5. \A i \in Ids : i \in jobs' <=> IsRunning(i)' \/ IsWaiting(i)' \/ i = releasing'
  BY <1>1, <1>2, <1>3, NoJobAssumption DEF OneClaimPerJob
<1> QED
  BY <1>1, <1>4, <1>5 DEF OneClaimPerJob

LEMMA ClaimsNext == TypeOK /\ OneClaimPerJob /\ [Next]_vars => OneClaimPerJob'
<1> SUFFICES ASSUME TypeOK, OneClaimPerJob, [Next]_vars
             PROVE  OneClaimPerJob'
  OBVIOUS
<1>1. CASE UNCHANGED vars
  BY <1>1 DEF vars, OneClaimPerJob, IsRunning, IsWaiting
<1> QED
  BY <1>1, ClaimsAcquire, ClaimsRelease, ClaimsStart, ClaimsRotate, ClaimsEnd DEF Next

(* The map of terraform.ts and the queue agree in every reachable state:   *)
(* no id has two claims, none leaks and none is lost.                      *)
THEOREM Claims == Spec => []OneClaimPerJob
BY ClaimsInit, ClaimsNext, TypeCorrect, PTL DEF Spec

-----------------------------------------------------------------------------
(* No waiter is left behind.                                               *)

(* A cap that is reached stays reached while nothing is released.          *)
LEMMA BlockedStaysBlocked ==
  ASSUME IsFiniteSet(running), NEW s, running' = running \cup {s}
  PROVE  /\ AtGlobalLimit => AtGlobalLimit'
         /\ \A u : Cardinality(RunningOf(u)) >= PerUserLimit
                     => Cardinality(RunningOf(u)') >= PerUserLimit
<1> USE LimitsAssumption
<1>1. /\ IsFiniteSet(running')
      /\ Cardinality(running') \in Nat
      /\ Cardinality(running) \in Nat
      /\ Cardinality(running) <= Cardinality(running')
  <2>1. IsFiniteSet(running')
    BY FS_AddElement
  <2> QED
    BY <2>1, FS_Subset, FS_CardinalityType
<1>2. AtGlobalLimit => AtGlobalLimit'
  BY <1>1 DEF AtGlobalLimit
<1>3. ASSUME NEW u, Cardinality(RunningOf(u)) >= PerUserLimit
      PROVE  Cardinality(RunningOf(u)') >= PerUserLimit
  <2>1. RunningOf(u)' \in SUBSET running' /\ RunningOf(u) \in SUBSET RunningOf(u)'
    BY DEF RunningOf
  <2>2. IsFiniteSet(RunningOf(u)') /\ Cardinality(RunningOf(u)') \in Nat
    BY <1>1, <2>1, FS_Subset, FS_CardinalityType
  <2>3. Cardinality(RunningOf(u)) <= Cardinality(RunningOf(u)')
    BY <2>1, <2>2, FS_Subset
  <2>4. Cardinality(RunningOf(u)) \in Nat
    BY RunningOfFinite
  <2> QED
    BY <1>3, <2>2, <2>3, <2>4
<1> QED
  BY <1>2, <1>3

(* A waiter that is appended waits for a reason, and the others still do.  *)
LEMMA IdleAcquire ==
  ASSUME TypeOK, FiniteLimits, NoIdleWaiter,
         NEW id \in Ids, NEW u \in Users, AcquireJobSlot(id, u)
  PROVE  NoIdleWaiter'
<1> DEFINE slot == [id |-> id, ownerSub |-> u]
<1>1. slot \in Slot /\ slot.ownerSub = u
  BY DEF Slot
<1>2. \A k \in DOMAIN waiters : AtGlobalLimit \/ AtUserLimit(waiters[k].ownerSub)
  BY DEF AcquireJobSlot, NoIdleWaiter
<1>3. CASE running' = running \cup {slot} /\ waiters' = waiters
  <2> HIDE DEF slot
  <2> QED
    BY <1>2, <1>3, BlockedStaysBlocked DEF FiniteLimits, NoIdleWaiter, AtUserLimit
<1>4. CASE /\ AtGlobalLimit \/ AtUserLimit(u)
           /\ waiters' = Append(waiters, slot)
           /\ running' = running
  <2> HIDE DEF slot
  <2>1. ASSUME NEW k \in DOMAIN waiters'
        PROVE  AtGlobalLimit \/ AtUserLimit(waiters'[k].ownerSub)
    <3>1. \/ k \in DOMAIN waiters /\ waiters'[k] = waiters[k]
          \/ waiters'[k] = slot
      BY <1>1, <1>4 DEF TypeOK
    <3> QED
      BY <1>1, <1>2, <1>4, <3>1
  <2>2. \A k \in DOMAIN waiters' :
          \/ Cardinality(running') >= GlobalLimit
          \/ Cardinality({s \in running' : s.ownerSub = waiters'[k].ownerSub}) >= PerUserLimit
    BY <1>4, <2>1 DEF AtGlobalLimit, AtUserLimit, RunningOf
  <2> QED
    BY <2>2 DEF NoIdleWaiter, AtGlobalLimit, AtUserLimit, RunningOf
<1> QED
  BY <1>3, <1>4 DEF AcquireJobSlot

(* The loop ends only when every waiter left has a reason to wait.         *)
LEMMA IdleEnd ==
  ASSUME DispatchEnd
  PROVE  NoIdleWaiter'
<1>1. running' = running /\ waiters' = waiters
  BY DEF DispatchEnd
<1>2. \A k \in DOMAIN waiters : AtGlobalLimit \/ AtUserLimit(waiters[k].ownerSub)
  <2>1. CASE waiters = << >>
    BY <2>1
  <2>2. CASE AtGlobalLimit
    BY <2>2
  <2>3. CASE /\ AtUserLimit(Head(waiters).ownerSub)
             /\ \A k \in DOMAIN waiters : Blocked(k)
    BY <2>3 DEF Blocked
  <2> QED
    BY <2>1, <2>2, <2>3 DEF DispatchEnd
<1> QED
  BY <1>1, <1>2 DEF NoIdleWaiter, AtGlobalLimit, AtUserLimit, RunningOf

LEMMA IdleInit == Init => NoIdleWaiter
<1> SUFFICES ASSUME Init PROVE NoIdleWaiter
  OBVIOUS
<1>1. DOMAIN waiters = {}
  BY DEF Init
<1> QED
  BY <1>1 DEF NoIdleWaiter

LEMMA IdleNext ==
  TypeOK /\ FiniteLimits /\ NoIdleWaiter /\ [Next]_vars => NoIdleWaiter'
<1> SUFFICES ASSUME TypeOK, FiniteLimits, NoIdleWaiter, [Next]_vars
             PROVE  NoIdleWaiter'
  OBVIOUS
<1>1. CASE DispatchStart
  BY <1>1 DEF DispatchStart, Dispatching, NoIdleWaiter
<1>2. CASE DispatchRotate
  BY <1>2 DEF DispatchRotate, Dispatching, NoIdleWaiter
<1>3. ASSUME NEW id \in Ids, ReleaseJobSlot(id)
      PROVE  NoIdleWaiter'
  BY <1>3, NoJobAssumption DEF ReleaseJobSlot, NoIdleWaiter
<1>4. CASE UNCHANGED vars
  BY <1>4 DEF vars, NoIdleWaiter, AtGlobalLimit, AtUserLimit, RunningOf
<1> QED
  BY <1>1, <1>2, <1>3, <1>4, IdleAcquire, IdleEnd DEF Next

(* No waiter sits in the array while a slot it may use is free: a dispatch *)
(* leaves only waiters whose caps are reached, whatever the limits.        *)
THEOREM NoWaiterLeftBehind == Spec => []NoIdleWaiter
<1>1. Spec => []FiniteLimits
  BY LimitsInit, LimitsNext, TypeCorrect, PTL DEF Spec
<1> QED
  BY <1>1, IdleInit, IdleNext, TypeCorrect, PTL DEF Spec

-----------------------------------------------------------------------------
(* When the loop of tryDispatch makes progress.                            *)

(***************************************************************************)
(* In a stable partition the waiters that are not blocked come before      *)
(* their old places: those listed before one of them are not blocked       *)
(* either, stood before it, and leave out the first waiter.                *)
(***************************************************************************)
LEMMA OthersMoveUp ==
  ASSUME TypeOK,
         NEW order \in [DOMAIN waiters -> DOMAIN waiters],
         StablePartition(order),
         NEW k \in DOMAIN waiters, ~ Blocked(k)
  PROVE  \E j \in 1 .. (k - 1) : order[j] = k
<1>1. /\ Len(waiters) \in Nat /\ DOMAIN waiters = 1 .. Len(waiters)
      /\ Blocked(1)
  BY DEF TypeOK, Blocked
<1>2. PICK j \in DOMAIN waiters : order[j] = k
  BY DEF StablePartition
<1>3. ASSUME NEW i \in 1 .. (j - 1) PROVE order[i] \in 2 .. (k - 1)
  <2>1. i \in DOMAIN waiters /\ j \in DOMAIN waiters /\ i < j
    BY <1>1, <1>2, <1>3
  <2>2. Blocked(order[j]) = FALSE
    BY <1>2 DEF Blocked
  <2>3. ~ Blocked(order[i]) /\ order[i] < order[j]
    BY <2>1, <2>2 DEF StablePartition, Blocked
  <2> QED
    BY <1>1, <1>2, <2>1, <2>3
<1> DEFINE Before == 1 .. (j - 1)
           Places == 2 .. (k - 1)
           f == [i \in Before |-> order[i]]
<1>4. f \in Injection(Before, Places)
  <2>1. f \in [Before -> Places]
    BY <1>3
  <2>2. ASSUME NEW a \in Before, NEW b \in Before, f[a] = f[b] PROVE a = b
    <3>1. a \in DOMAIN waiters /\ b \in DOMAIN waiters
      BY <1>1, <1>2
    <3> QED
      BY <2>2, <3>1, StablePartitionIsPermutation
  <2> QED
    BY <2>1, <2>2 DEF Injection, IsInjective
<1>5. Cardinality(Before) <= Cardinality(Places)
  <2>1. k - 1 \in Int /\ j - 1 \in Int
    BY <1>1, <1>2
  <2>2. IsFiniteSet(Places)
    BY <2>1, FS_Interval
  <2> HIDE DEF f, Before, Places
  <2> QED
    BY <1>4, <2>2, FS_Injection
<1>6. j <= k - 1
  <2>1. j \in Nat \ {0} /\ k \in Nat /\ k > 1
    <3>1. k # 1
      BY <1>1
    <3> QED
      BY <1>1, <1>2, <3>1
  <2>2. Cardinality(Before) = j - 1
    <3>1. PICK b \in Int : b = j - 1
      BY <2>1
    <3>2. Cardinality(1 .. b) = IF 1 > b THEN 0 ELSE b - 1 + 1
      BY FS_Interval
    <3> QED
      BY <2>1, <3>1, <3>2
  <2>3. Cardinality(Places) = k - 2
    <3>1. PICK b \in Int : b = k - 1
      BY <2>1
    <3>2. Cardinality(2 .. b) = IF 2 > b THEN 0 ELSE b - 2 + 1
      BY FS_Interval
    <3> QED
      BY <2>1, <3>1, <3>2
  <2> QED
    BY <1>5, <2>1, <2>2, <2>3
<1> QED
  BY <1>1, <1>2, <1>6

(***************************************************************************)
(* Whatever the limits are, the defaults 10 and 2 among them: the rotation *)
(* brings every waiter that may start nearer to the front, so the loop of  *)
(* tryDispatch ends as long as there is one.  The run queue_spin shows the *)
(* loop that never returns because there is none.                          *)
(***************************************************************************)
THEOREM RotationMakesProgress == Spec => RotationFindsWork
<1> DEFINE Nearer == \A k \in DOMAIN waiters :
                       ~ AtUserLimit(waiters[k].ownerSub)
                         => \E j \in 1 .. (k - 1) : waiters'[j] = waiters[k]
<1>1. TypeOK /\ [Next]_vars => [Rotates => Nearer]_vars
  <2> SUFFICES ASSUME TypeOK, Next, Rotates PROVE Nearer
    BY DEF vars
  <2>1. Len(waiters) \in Nat
    BY DEF TypeOK
  <2>2. CASE DispatchRotate
    <3> SUFFICES ASSUME NEW k \in DOMAIN waiters, ~ AtUserLimit(waiters[k].ownerSub)
                 PROVE  \E j \in 1 .. (k - 1) : waiters'[j] = waiters[k]
      OBVIOUS
    <3>1. PICK order \in [DOMAIN waiters -> DOMAIN waiters] :
            /\ StablePartition(order)
            /\ waiters' = [i \in DOMAIN waiters |-> waiters[order[i]]]
      BY <2>2 DEF DispatchRotate
    <3>2. ~ Blocked(k)
      BY <2>2 DEF DispatchRotate, Blocked
    <3>3. PICK j \in 1 .. (k - 1) : order[j] = k
      BY <3>1, <3>2, OthersMoveUp
    <3>4. j \in DOMAIN waiters
      BY <2>1, <3>3 DEF TypeOK
    <3> QED
      BY <3>1, <3>3, <3>4
  <2>3. CASE DispatchStart
    <3>1. Len(Tail(waiters)) # Len(waiters)
      BY <2>3 DEF DispatchStart, Dispatching, TypeOK
    <3> QED
      BY <2>3, <3>1 DEF DispatchStart, Rotates
  <2>4. ASSUME NEW id \in Ids, NEW u \in Users, AcquireJobSlot(id, u) PROVE FALSE
    <3>1. waiters' = Append(waiters, [id |-> id, ownerSub |-> u])
      BY <2>4 DEF AcquireJobSlot, Rotates
    <3> QED
      BY <3>1 DEF Rotates, TypeOK, Slot
  <2>5. (\E id \in Ids : ReleaseJobSlot(id)) \/ DispatchEnd => waiters' = waiters
    BY DEF ReleaseJobSlot, DispatchEnd
  <2> QED
    BY <2>2, <2>3, <2>4, <2>5 DEF Next, Rotates
<1> QED
  BY <1>1, TypeCorrect, PTL DEF Spec, RotationFindsWork

-----------------------------------------------------------------------------
(* The queues of the users, of which JobSlots speaks.                      *)

(* f[n] are the ids of u among the first n waiters.                        *)
Selects(f, q, u, m) ==
  f = [n \in 0 .. m |-> IF n = 0 THEN << >>
                        ELSE IF q[n].ownerSub = u THEN Append(f[n - 1], q[n].id) ELSE f[n - 1]]

(* There is such an f, for as many waiters as one likes.                   *)
LEMMA SelectionExists ==
  ASSUME NEW q, NEW u
  PROVE  \A m \in Nat : \E f : Selects(f, q, u, m)
<1> DEFINE Next1(f, n) == IF q[n].ownerSub = u THEN Append(f[n - 1], q[n].id) ELSE f[n - 1]
           T == {m \in Nat : \E f : Selects(f, q, u, m)}
<1>1. 0 \in T
  <2> DEFINE f == [n \in 0 .. 0 |-> << >>]
  <2>1. f = [n \in 0 .. 0 |-> IF n = 0 THEN << >> ELSE Next1(f, n)]
    OBVIOUS
  <2>2. Selects(f, q, u, 0)
    BY <2>1 DEF Selects
  <2> QED
    BY <2>2
<1>2. ASSUME NEW m \in Nat, m \in T PROVE m + 1 \in T
  <2>1. PICK f : Selects(f, q, u, m)
    BY <1>2
  <2>2. f = [n \in 0 .. m |-> IF n = 0 THEN << >> ELSE Next1(f, n)]
    BY <2>1 DEF Selects
  <2> DEFINE g == [n \in 0 .. (m + 1) |-> IF n = m + 1 THEN Next1(f, n) ELSE f[n]]
  <2>3. ASSUME NEW n \in 0 .. (m + 1) PROVE g[n] = IF n = 0 THEN << >> ELSE Next1(g, n)
    <3>1. CASE n = m + 1
      <4>1. n - 1 \in 0 .. (m + 1) /\ n - 1 # m + 1 /\ n # 0
        BY <3>1
      <4>2. g[n - 1] = f[n - 1] /\ g[n] = Next1(f, n)
        BY <3>1, <4>1
      <4> QED
        BY <4>1, <4>2
    <3>2. CASE n # m + 1 /\ n # 0
      <4>1. n \in 0 .. m /\ n - 1 \in 0 .. (m + 1) /\ n - 1 # m + 1
        BY <3>2
      <4>2. g[n - 1] = f[n - 1] /\ g[n] = f[n]
        BY <3>2, <4>1
      <4>3. f[n] = Next1(f, n)
        BY <2>2, <3>2, <4>1
      <4> QED
        BY <3>2, <4>2, <4>3
    <3>3. CASE n = 0
      <4>1. g[n] = f[n] /\ f[n] = << >>
        BY <2>2, <3>3
      <4> QED
        BY <3>3, <4>1
    <3> QED
      BY <3>1, <3>2, <3>3
  <2>4. g = [n \in 0 .. (m + 1) |-> g[n]]
    OBVIOUS
  <2> HIDE DEF g
  <2>5. g = [n \in 0 .. (m + 1) |-> IF n = 0 THEN << >> ELSE Next1(g, n)]
    <3> DEFINE h == [n \in 0 .. (m + 1) |-> g[n]]
    <3>1. h = [n \in 0 .. (m + 1) |-> IF n = 0 THEN << >> ELSE Next1(g, n)]
      BY <2>3
    <3> QED
      BY <2>4, <3>1
  <2>6. Selects(g, q, u, m + 1)
    BY <2>5 DEF Selects
  <2> QED
    BY <2>6
<1>3. Nat \subseteq T
  <2> HIDE DEF T
  <2> QED
    BY <1>1, <1>2, InductionOnSets
<1> QED
  BY <1>3

(* The ids of the first waiters, from one waiter to the next.              *)
Grows(f, q, u) ==
  /\ f[0] = << >>
  /\ \A n \in 1 .. Len(q) : /\ q[n].ownerSub = u => f[n] = Append(f[n - 1], q[n].id)
                            /\ q[n].ownerSub # u => f[n] = f[n - 1]
  /\ \A n \in 0 .. Len(q) : f[n] \in Seq(Ids)

LEMMA IdsOfIs ==
  ASSUME NEW q \in Seq(Slot), NEW u
  PROVE  \E f : Grows(f, q, u) /\ IdsOf(q, u) = f[Len(q)]
<1> DEFINE L == Len(q)
           Next1(g, n) == IF q[n].ownerSub = u THEN Append(g[n - 1], q[n].id) ELSE g[n - 1]
           f == CHOOSE g : g = [n \in 0 .. L |-> IF n = 0 THEN << >> ELSE Next1(g, n)]
<1>1. L \in Nat /\ \A n \in 1 .. L : q[n] \in Slot
  BY LenProperties, ElementOfSeq
<1>2. IdsOf(q, u) = f[L]
  BY DEF IdsOf
<1>3. Selects(f, q, u, L)
  <2>1. \E g : Selects(g, q, u, L)
    BY <1>1, SelectionExists
  <2> QED
    BY <2>1 DEF Selects
<1> HIDE DEF f, L
<1>4. /\ f[0] = << >>
      /\ \A n \in 1 .. L : f[n] = IF q[n].ownerSub = u THEN Append(f[n - 1], q[n].id) ELSE f[n - 1]
  <2>1. f = [n \in 0 .. L |-> IF n = 0 THEN << >> ELSE Next1(f, n)]
    BY <1>3 DEF Selects
  <2>2. 0 \in 0 .. L
    BY <1>1
  <2>3. f[0] = << >>
    BY <2>1, <2>2
  <2>4. ASSUME NEW n \in 1 .. L PROVE f[n] = Next1(f, n)
    <3>1. n \in 0 .. L /\ n # 0
      BY <1>1
    <3> QED
      BY <2>1, <3>1
  <2> QED
    BY <2>3, <2>4
<1> DEFINE T == {n \in Nat : n \in 0 .. L => f[n] \in Seq(Ids)}
<1>5. 0 \in T
  BY <1>4, EmptySeq
<1>6. ASSUME NEW n \in Nat, n \in T PROVE n + 1 \in T
  <2> SUFFICES ASSUME n + 1 \in 0 .. L PROVE f[n + 1] \in Seq(Ids)
    OBVIOUS
  <2>1. n \in 0 .. L /\ n + 1 \in 1 .. L /\ (n + 1) - 1 = n
    BY <1>1
  <2>2. f[n] \in Seq(Ids)
    BY <1>6, <2>1
  <2>3. q[n + 1].id \in Ids
    BY <1>1, <2>1 DEF Slot
  <2> HIDE DEF T
  <2>4. f[n + 1] = Append(f[n], q[n + 1].id) \/ f[n + 1] = f[n]
    BY <1>4, <2>1
  <2>5. Append(f[n], q[n + 1].id) \in Seq(Ids)
    BY <2>2, <2>3
  <2> QED
    BY <2>2, <2>4, <2>5
<1>7. Nat \subseteq T
  <2> HIDE DEF T
  <2> QED
    BY <1>5, <1>6, InductionOnSets
<1> HIDE DEF Next1
<1>8. \A n \in 0 .. L : f[n] \in Seq(Ids)
  BY <1>1, <1>7
<1>9. Grows(f, q, u)
  BY <1>4, <1>8 DEF Grows, L
<1> QED
  BY <1>2, <1>9 DEF L

(* Who waits last is last among the waiters of its user.                   *)
LEMMA IdsOfAppend ==
  ASSUME NEW q \in Seq(Slot), NEW e \in Slot, NEW u
  PROVE  /\ e.ownerSub = u => IdsOf(Append(q, e), u) = Append(IdsOf(q, u), e.id)
         /\ e.ownerSub # u => IdsOf(Append(q, e), u) = IdsOf(q, u)
<1> DEFINE p == Append(q, e)
           L == Len(q)
<1>1. /\ p \in Seq(Slot) /\ Len(p) = L + 1 /\ L \in Nat /\ p[L + 1] = e
      /\ \A n \in 1 .. L : p[n] = q[n]
  BY LenProperties
<1> HIDE DEF p, L
<1>2. PICK f : Grows(f, q, u) /\ IdsOf(q, u) = f[Len(q)]
  BY IdsOfIs
<1>3. PICK g : Grows(g, p, u) /\ IdsOf(p, u) = g[Len(p)]
  BY <1>1, IdsOfIs
<1> DEFINE T == {n \in Nat : n \in 0 .. L => f[n] = g[n]}
<1>4. 0 \in T
  BY <1>2, <1>3 DEF Grows
<1>5. ASSUME NEW n \in Nat, n \in T PROVE n + 1 \in T
  <2> SUFFICES ASSUME n + 1 \in 0 .. L PROVE f[n + 1] = g[n + 1]
    OBVIOUS
  <2>1. n \in 0 .. L /\ n + 1 \in 1 .. L /\ n + 1 \in 1 .. (L + 1) /\ (n + 1) - 1 = n
    BY <1>1
  <2>2. f[n] = g[n] /\ p[n + 1] = q[n + 1]
    BY <1>1, <1>5, <2>1
  <2> QED
    BY <1>1, <1>2, <1>3, <2>1, <2>2 DEF Grows, L
<1>6. Nat \subseteq T
  <2> HIDE DEF T
  <2> QED
    BY <1>4, <1>5, InductionOnSets
<1>7. f[L] = g[L]
  BY <1>1, <1>6
<1>8. L + 1 \in 1 .. Len(p) /\ (L + 1) - 1 = L
  BY <1>1
<1>9. /\ e.ownerSub = u => g[L + 1] = Append(g[L], e.id)
      /\ e.ownerSub # u => g[L + 1] = g[L]
  BY <1>1, <1>3, <1>8 DEF Grows
<1> QED
  BY <1>1, <1>2, <1>3, <1>7, <1>9 DEF p, L

(* Who waits first is first among the waiters of its user.                 *)
LEMMA IdsOfTail ==
  ASSUME NEW q \in Seq(Slot), q # << >>, NEW u
  PROVE  /\ Head(q).ownerSub = u =>
              /\ IdsOf(q, u) # << >> /\ Head(IdsOf(q, u)) = Head(q).id
              /\ Tail(IdsOf(q, u)) = IdsOf(Tail(q), u)
         /\ Head(q).ownerSub # u => IdsOf(q, u) = IdsOf(Tail(q), u)
<1> DEFINE p == Tail(q)
           L == Len(q) - 1
<1>1. /\ p \in Seq(Slot) /\ Len(p) = L /\ L \in Nat /\ Len(q) = L + 1 /\ Head(q) = q[1] /\ Head(q) \in Slot
      /\ \A n \in 1 .. L : p[n] = q[n + 1]
  BY HeadTailProperties, EmptySeq
<1> HIDE DEF p, L
<1>2. PICK f : Grows(f, q, u) /\ IdsOf(q, u) = f[Len(q)]
  BY IdsOfIs
<1>3. PICK g : Grows(g, p, u) /\ IdsOf(p, u) = g[Len(p)]
  BY <1>1, IdsOfIs
<1>4. \A n \in 0 .. L : n + 1 \in 0 .. Len(q) /\ f[n + 1] \in Seq(Ids) /\ g[n] \in Seq(Ids)
  BY <1>1, <1>2, <1>3 DEF Grows
<1>5. ASSUME NEW n \in Nat, n + 1 \in 0 .. L
      PROVE  /\ p[n + 1] = q[(n + 1) + 1] /\ q[(n + 1) + 1].id \in Ids
             /\ p[n + 1].ownerSub = u => /\ f[(n + 1) + 1] = Append(f[n + 1], p[n + 1].id)
                                         /\ g[n + 1] = Append(g[n], p[n + 1].id)
             /\ p[n + 1].ownerSub # u => f[(n + 1) + 1] = f[n + 1] /\ g[n + 1] = g[n]
  <2>1. /\ n + 1 \in 1 .. L /\ n + 1 \in 1 .. Len(p) /\ (n + 1) + 1 \in 1 .. Len(q)
        /\ (n + 1) - 1 = n /\ ((n + 1) + 1) - 1 = n + 1
    BY <1>1, <1>5
  <2>2. p[n + 1] = q[(n + 1) + 1] /\ q[(n + 1) + 1] \in Slot
    BY <1>1, <2>1, ElementOfSeq
  <2> QED
    BY <1>2, <1>3, <2>1, <2>2 DEF Grows, Slot
<1>6. ASSUME Head(q).ownerSub = u
      PROVE  f[L + 1] # << >> /\ Head(f[L + 1]) = Head(q).id /\ Tail(f[L + 1]) = g[L]
  <2> DEFINE Fits(n) == f[n + 1] # << >> /\ Head(f[n + 1]) = Head(q).id /\ Tail(f[n + 1]) = g[n]
             T == {n \in Nat : n \in 0 .. L => Fits(n)}
  <2>1. 0 \in T
    <3>1. 1 \in 1 .. Len(q) /\ 1 - 1 = 0
      BY <1>1
    <3>2. f[1] = Append(<< >>, Head(q).id)
      BY <1>1, <1>2, <1>6, <3>1 DEF Grows
    <3>3. f[1] = << Head(q).id >> /\ Head(q).id \in Ids
      BY <1>1, <3>2 DEF Slot
    <3>4. f[1] # << >> /\ Head(f[1]) = Head(q).id /\ Tail(f[1]) = << >>
      BY <3>3
    <3>5. 0 + 1 = 1 /\ g[0] = << >>
      BY <1>3 DEF Grows
    <3>6. Fits(0)
      BY <3>4, <3>5
    <3> QED
      BY <3>6
  <2>2. ASSUME NEW n \in Nat, n \in T PROVE n + 1 \in T
    <3> SUFFICES ASSUME n + 1 \in 0 .. L PROVE Fits(n + 1)
      OBVIOUS
    <3>1. n \in 0 .. L
      BY <1>1
    <3>2. Fits(n) /\ f[n + 1] \in Seq(Ids) /\ g[n] \in Seq(Ids)
      BY <1>4, <2>2, <3>1
    <3>3. CASE p[n + 1].ownerSub # u
      BY <1>5, <3>2, <3>3
    <3>4. CASE p[n + 1].ownerSub = u
      <4> DEFINE s == f[n + 1]
                 i == p[n + 1].id
                 a == Head(q).id
                 t == g[n]
      <4>1. s \in Seq(Ids) /\ s # << >> /\ Head(s) = a /\ Tail(s) = t /\ i \in Ids
        BY <1>5, <3>2
      <4>2. f[(n + 1) + 1] = Append(s, i) /\ g[n + 1] = Append(t, i)
        BY <1>5, <3>4
      <4> HIDE DEF s, i, a, t
      <4>3. Append(s, i) # << >>
        BY <4>1, AppendProperties
      <4>4. Head(Append(s, i)) = a /\ Tail(Append(s, i)) = Append(t, i)
        BY <4>1, HeadTailAppend
      <4> QED
        BY <4>2, <4>3, <4>4 DEF a
    <3> QED
      BY <3>3, <3>4
  <2>3. Nat \subseteq T
    <3> HIDE DEF T
    <3> QED
      BY <2>1, <2>2, InductionOnSets
  <2> QED
    BY <1>1, <2>3
<1>7. ASSUME Head(q).ownerSub # u PROVE f[L + 1] = g[L]
  <2> DEFINE T == {n \in Nat : n \in 0 .. L => f[n + 1] = g[n]}
  <2>1. 0 \in T
    <3>1. 1 \in 1 .. Len(q) /\ 1 - 1 = 0 /\ 0 + 1 = 1
      BY <1>1
    <3>2. f[1] = << >>
      BY <1>1, <1>2, <1>7, <3>1 DEF Grows
    <3>3. f[0 + 1] = g[0]
      BY <1>3, <3>1, <3>2 DEF Grows
    <3> QED
      BY <3>3
  <2>2. ASSUME NEW n \in Nat, n \in T PROVE n + 1 \in T
    <3> SUFFICES ASSUME n + 1 \in 0 .. L PROVE f[(n + 1) + 1] = g[n + 1]
      OBVIOUS
    <3>1. n \in 0 .. L
      BY <1>1
    <3>2. f[n + 1] = g[n]
      BY <2>2, <3>1
    <3>3. /\ p[n + 1].ownerSub = u => /\ f[(n + 1) + 1] = Append(f[n + 1], p[n + 1].id)
                                     /\ g[n + 1] = Append(g[n], p[n + 1].id)
          /\ p[n + 1].ownerSub # u => f[(n + 1) + 1] = f[n + 1] /\ g[n + 1] = g[n]
      BY <1>5
    <3> DEFINE i == p[n + 1].id
               s == f[n + 1]
               t == g[n]
    <3>4. s = t
      BY <3>2
    <3>5. Append(s, i) = Append(t, i)
      BY <3>4
    <3> QED
      BY <3>2, <3>3, <3>5
  <2>3. Nat \subseteq T
    <3> HIDE DEF T
    <3> QED
      BY <2>1, <2>2, InductionOnSets
  <2> QED
    BY <1>1, <2>3
<1>8. IdsOf(q, u) = f[L + 1] /\ IdsOf(p, u) = g[L]
  BY <1>1, <1>2, <1>3
<1> QED
  BY <1>6, <1>7, <1>8 DEF p

(* The ids of u are those of waiters of u.                                 *)
LEMMA IdsOfWait ==
  ASSUME NEW q \in Seq(Slot), NEW u
  PROVE  /\ IdsOf(q, u) \in Seq(Ids)
         /\ \A k \in DOMAIN IdsOf(q, u) : \E j \in DOMAIN q : q[j].id = IdsOf(q, u)[k] /\ q[j].ownerSub = u
         /\ (\A j \in DOMAIN q : q[j].ownerSub # u) => IdsOf(q, u) = << >>
<1> DEFINE L == Len(q)
<1>1. L \in Nat /\ DOMAIN q = 1 .. L /\ \A j \in 1 .. L : q[j] \in Slot
  BY LenProperties, ElementOfSeq
<1>2. PICK f : Grows(f, q, u) /\ IdsOf(q, u) = f[L]
  BY IdsOfIs
<1> DEFINE Waits(i) == \E j \in DOMAIN q : q[j].id = i /\ q[j].ownerSub = u
           T == {n \in Nat : n \in 0 .. L => \A k \in 1 .. Len(f[n]) : Waits(f[n][k])}
<1>3. \A n \in 0 .. L : f[n] \in Seq(Ids)
  BY <1>2 DEF Grows
<1>4. 0 \in T
  <2>1. f[0] = << >> /\ Len(<< >>) = 0
    BY <1>2, EmptySeq DEF Grows
  <2>2. 1 .. Len(f[0]) = {}
    BY <2>1
  <2> QED
    BY <2>2
<1>5. ASSUME NEW n \in Nat, n \in T PROVE n + 1 \in T
  <2> SUFFICES ASSUME n + 1 \in 0 .. L PROVE \A k \in 1 .. Len(f[n + 1]) : Waits(f[n + 1][k])
    OBVIOUS
  <2>1. n \in 0 .. L /\ n + 1 \in 1 .. L /\ n + 1 \in DOMAIN q /\ (n + 1) - 1 = n
    BY <1>1
  <2>2. \A k \in 1 .. Len(f[n]) : Waits(f[n][k])
    BY <1>5, <2>1
  <2>3. CASE q[n + 1].ownerSub # u
    <3>1. f[n + 1] = f[n]
      BY <1>2, <2>1, <2>3 DEF Grows
    <3> QED
      BY <2>2, <3>1
  <2>4. CASE q[n + 1].ownerSub = u
    <3> DEFINE s == f[n]
               i == q[n + 1].id
    <3>1. f[n + 1] = Append(s, i)
      BY <1>2, <2>1, <2>4 DEF Grows
    <3>2. s \in Seq(Ids) /\ i \in Ids /\ Waits(i)
      BY <1>1, <1>3, <2>1, <2>4 DEF Slot
    <3>3. \A k \in 1 .. Len(s) : Waits(s[k])
      BY <2>2
    <3> HIDE DEF s, i, Waits
    <3>4. \A k \in 1 .. Len(Append(s, i)) : Waits(Append(s, i)[k])
      BY <3>2, <3>3
    <3> QED
      BY <3>1, <3>4
  <2> QED
    BY <2>3, <2>4
<1>6. Nat \subseteq T
  <2> HIDE DEF T
  <2> QED
    BY <1>4, <1>5, InductionOnSets
<1>7. f[L] \in Seq(Ids) /\ \A k \in 1 .. Len(f[L]) : Waits(f[L][k])
  BY <1>1, <1>3, <1>6
<1> DEFINE ids == f[L]
<1>8. ids \in Seq(Ids) /\ DOMAIN ids = 1 .. Len(ids) /\ Len(ids) \in Nat /\ \A k \in DOMAIN ids : Waits(ids[k])
  BY <1>7, LenProperties
<1> HIDE DEF ids
<1>9. ASSUME \A j \in DOMAIN q : q[j].ownerSub # u PROVE ids = << >>
  <2>1. 1 .. Len(ids) = {}
    BY <1>8, <1>9
  <2>2. Len(ids) = 0
    BY <1>8, <2>1
  <2> QED
    BY <1>8, <2>2, EmptySeq
<1> QED
  BY <1>2, <1>8, <1>9 DEF ids

(***************************************************************************)
(* Two queues with the same waiters, those of u in the same order: at says *)
(* where a waiter of the one stands in the other.  It is by induction on   *)
(* the beginnings of the two that end with the same waiter of u.           *)
(***************************************************************************)
LEMMA IdsOfAlike ==
  ASSUME NEW p \in Seq(Slot), NEW q \in Seq(Slot), NEW u,
         NEW at \in [DOMAIN p -> DOMAIN q],
         \A k \in DOMAIN p : p[k] = q[at[k]],
         \A j \in DOMAIN q : \E k \in DOMAIN p : at[k] = j,
         \A j, k \in DOMAIN p : j < k /\ p[j].ownerSub = u /\ p[k].ownerSub = u => at[j] < at[k]
  PROVE  IdsOf(p, u) = IdsOf(q, u)
<1> DEFINE L == Len(p)
           M == Len(q)
           Aligned(m, n) == \A k \in 1 .. L : p[k].ownerSub = u => (k <= m <=> at[k] <= n)
<1>1. L \in Nat /\ M \in Nat /\ DOMAIN p = 1 .. L /\ DOMAIN q = 1 .. M
  BY LenProperties
<1>2. PICK f : Grows(f, p, u) /\ IdsOf(p, u) = f[L]
  BY IdsOfIs
<1>3. PICK g : Grows(g, q, u) /\ IdsOf(q, u) = g[M]
  BY IdsOfIs
<1> HIDE DEF L, M
<1> DEFINE Agree(t) == \A m \in 0 .. L, n \in 0 .. M : m + n <= t /\ Aligned(m, n) => f[m] = g[n]
           S == {t \in Nat : Agree(t)}
<1>4. \A k \in 1 .. L : at[k] \in 1 .. M /\ p[k] = q[at[k]]
  BY <1>1
<1>5. \A j \in 1 .. M : \E k \in 1 .. L : at[k] = j
  BY <1>1
<1>6. \A j, k \in 1 .. L : j < k /\ p[j].ownerSub = u /\ p[k].ownerSub = u => at[j] < at[k]
  BY <1>1
<1>7. 0 \in S
  <2> SUFFICES ASSUME NEW m \in 0 .. L, NEW n \in 0 .. M, m + n <= 0 PROVE f[m] = g[n]
    OBVIOUS
  <2>1. m = 0 /\ n = 0
    BY <1>1
  <2> QED
    BY <1>2, <1>3, <2>1 DEF Grows
<1>8. ASSUME NEW t \in Nat, t \in S PROVE t + 1 \in S
  <2>0. Agree(t)
    BY <1>8
  <2> SUFFICES Agree(t + 1)
    OBVIOUS
  <2> SUFFICES ASSUME NEW m \in 0 .. L, NEW n \in 0 .. M, m + n <= t + 1, Aligned(m, n) PROVE f[m] = g[n]
    OBVIOUS
  <2>1. \A i \in 0 .. L, j \in 0 .. M : i + j <= t /\ Aligned(i, j) => f[i] = g[j]
    BY <2>0
  <2>2. m \in Int /\ n \in Int
    BY <1>1
  <2>3. CASE m # 0 /\ p[m].ownerSub # u
    <3>1. m - 1 \in 0 .. L /\ (m - 1) + n <= t /\ m \in 1 .. Len(p)
      BY <1>1, <2>2, <2>3 DEF L
    <3>2. Aligned(m - 1, n)
      <4> SUFFICES ASSUME NEW k \in 1 .. L, p[k].ownerSub = u PROVE k <= m - 1 <=> at[k] <= n
        OBVIOUS
      <4>1. k # m /\ k \in Int /\ (k <= m <=> at[k] <= n)
        BY <1>1, <2>3
      <4> QED
        BY <2>2, <4>1
    <3>3. f[m] = f[m - 1]
      BY <1>2, <2>3, <3>1 DEF Grows
    <3> QED
      BY <2>1, <3>1, <3>2, <3>3
  <2>4. CASE n # 0 /\ q[n].ownerSub # u
    <3>1. n - 1 \in 0 .. M /\ m + (n - 1) <= t /\ n \in 1 .. Len(q)
      BY <1>1, <2>2, <2>4 DEF M
    <3>2. Aligned(m, n - 1)
      <4> SUFFICES ASSUME NEW k \in 1 .. L, p[k].ownerSub = u PROVE k <= m <=> at[k] <= n - 1
        OBVIOUS
      <4>1. at[k] # n /\ at[k] \in Int /\ (k <= m <=> at[k] <= n)
        BY <1>1, <1>4, <2>4
      <4> QED
        BY <2>2, <4>1
    <3>3. g[n] = g[n - 1]
      BY <1>3, <2>4, <3>1 DEF Grows
    <3> QED
      BY <2>1, <3>1, <3>2, <3>3
  <2>5. CASE m = 0 /\ n # 0 /\ q[n].ownerSub = u
    <3>1. PICK k \in 1 .. L : at[k] = n
      BY <1>1, <1>5, <2>5
    <3> QED
      BY <1>1, <1>4, <2>2, <2>5, <3>1
  <2>6. CASE m # 0 /\ n = 0 /\ p[m].ownerSub = u
    <3>1. m \in 1 .. L /\ at[m] \in 1 .. M /\ at[m] <= n
      BY <1>1, <1>4, <2>2, <2>6
    <3> QED
      BY <1>1, <2>6, <3>1
  <2>7. CASE m = 0 /\ n = 0
    BY <1>2, <1>3, <2>7 DEF Grows
  <2>8. CASE m # 0 /\ n # 0 /\ p[m].ownerSub = u /\ q[n].ownerSub = u
    <3>1. m \in 1 .. L /\ n \in 1 .. M /\ m - 1 \in 0 .. L /\ n - 1 \in 0 .. M /\ (m - 1) + (n - 1) <= t
      BY <1>1, <2>2, <2>8
    <3>2. PICK k \in 1 .. L : at[k] = n
      BY <1>5, <3>1
    <3>3. k = m
      <4>1. k <= m /\ at[m] <= n /\ k \in Int /\ at[m] \in Int
        BY <1>1, <1>4, <2>2, <2>8, <3>1, <3>2
      <4>2. CASE k < m
        <5>1. at[k] < at[m]
          BY <1>4, <1>6, <2>8, <3>1, <3>2, <4>2
        <5> QED
          BY <2>2, <3>2, <4>1, <5>1
      <4> QED
        BY <2>2, <4>1, <4>2
    <3>4. Aligned(m - 1, n - 1)
      <4> SUFFICES ASSUME NEW j \in 1 .. L, p[j].ownerSub = u PROVE j <= m - 1 <=> at[j] <= n - 1
        OBVIOUS
      <4>1. (j <= m <=> at[j] <= n) /\ j \in Int /\ at[j] \in Int
        BY <1>1, <1>4
      <4>2. j = m <=> at[j] = n
        <5>1. j # m => at[j] # n
          <6>1. j < m => at[j] < at[m]
            BY <1>6, <2>8, <3>1
          <6>2. m < j => at[m] < at[j]
            BY <1>6, <2>8, <3>1
          <6> QED
            BY <2>2, <3>2, <3>3, <4>1, <6>1, <6>2
        <5> QED
          BY <3>2, <3>3, <5>1
      <4> QED
        BY <2>2, <4>1, <4>2
    <3>5. p[m].id = q[n].id
      BY <1>4, <3>1, <3>2, <3>3
    <3>6. f[m] = Append(f[m - 1], p[m].id) /\ g[n] = Append(g[n - 1], q[n].id)
      BY <1>2, <1>3, <2>8, <3>1 DEF Grows, L, M
    <3>7. f[m - 1] = g[n - 1]
      BY <2>1, <3>1, <3>4
    <3> QED
      BY <3>5, <3>6, <3>7
  <2> QED
    BY <2>3, <2>4, <2>5, <2>6, <2>7, <2>8
<1>9. Nat \subseteq S
  <2> HIDE DEF S
  <2> QED
    BY <1>7, <1>8, InductionOnSets
<1>10. Aligned(L, M)
  BY <1>1, <1>4
<1> DEFINE N == L + M
<1>11. N \in Nat /\ L + M <= N /\ L \in 0 .. L /\ M \in 0 .. M
  BY <1>1
<1>12. Agree(N)
  <2> HIDE DEF N, Agree
  <2> QED
    BY <1>9, <1>11
<1> HIDE DEF Aligned, N
<1>13. f[L] = g[M]
  BY <1>10, <1>11, <1>12
<1> QED
  BY <1>2, <1>3, <1>13

(* A rotation leaves the waiters of one user in their order.               *)
LEMMA RotationKeepsOrder ==
  ASSUME TypeOK,
         NEW order \in [DOMAIN waiters -> DOMAIN waiters],
         StablePartition(order),
         waiters' = [k \in DOMAIN waiters |-> waiters[order[k]]],
         NEW u
  PROVE  IdsOf(waiters', u) = IdsOf(waiters, u)
<1> DEFINE p == waiters'
           q == waiters
<1>1. /\ p \in Seq(Slot) /\ DOMAIN p = DOMAIN q
      /\ \A k \in DOMAIN q : p[k] = q[order[k]]
  BY RotatedQueue
<1>2. q \in Seq(Slot)
  BY DEF TypeOK
<1>3. \A j \in DOMAIN q : \E k \in DOMAIN q : order[k] = j
  BY StablePartitionIsPermutation
<1>4. ASSUME NEW j \in DOMAIN q, NEW k \in DOMAIN q, j < k, p[j].ownerSub = u, p[k].ownerSub = u
      PROVE  order[j] < order[k]
  <2>1. Blocked(order[j]) = Blocked(order[k])
    BY <1>1, <1>4 DEF Blocked
  <2> QED
    BY <1>4, <2>1 DEF StablePartition
<1>5. order \in [DOMAIN p -> DOMAIN q]
  BY <1>1
<1>6. IdsOf(p, u) = IdsOf(q, u)
  <2> HIDE DEF p, q
  <2>1. \A k \in DOMAIN p : p[k] = q[order[k]]
    BY <1>1
  <2>2. \A j \in DOMAIN q : \E k \in DOMAIN p : order[k] = j
    BY <1>1, <1>3
  <2>3. \A j, k \in DOMAIN p : j < k /\ p[j].ownerSub = u /\ p[k].ownerSub = u => order[j] < order[k]
    BY <1>1, <1>4
  <2> QED
    BY <1>1, <1>2, <1>5, <2>1, <2>2, <2>3, IdsOfAlike
<1> QED
  BY <1>6

(* Whom JobSlots knows has a slot or waits for one.                        *)
LEMMA KnownHasAClaim ==
  ASSUME TypeOK, NEW id, ~ IsRunning(id), ~ IsWaiting(id)
  PROVE  ~ Slots!Known(id)
<1> DEFINE queue == [u \in Users |-> IdsOf(waiters, u)]
<1>1. ASSUME NEW u \in Users, NEW k \in DOMAIN queue[u] PROVE queue[u][k] # id
  <2>1. queue[u] = IdsOf(waiters, u)
    OBVIOUS
  <2>2. \A i \in DOMAIN IdsOf(waiters, u) :
          \E j \in DOMAIN waiters : waiters[j].id = IdsOf(waiters, u)[i] /\ waiters[j].ownerSub = u
    BY IdsOfWait DEF TypeOK
  <2> QED
    BY <2>1, <2>2 DEF IsWaiting
<1>2. ~ \E s \in running : s.id = id
  BY DEF IsRunning
<1> QED
  BY <1>1, <1>2 DEF Slots!Known

(* JobSlots counts as JobQueue does.                                       *)
LEMMA SameCount == \A S : Slots!Cardinality(S) = Cardinality(S)
BY DEF Slots!Cardinality, Cardinality

(* The caps are the same in both.                                          *)
LEMMA RoomBelowTheCaps ==
  ASSUME FiniteLimits, NEW u
  PROVE  Slots!HasRoom(u) <=> ~ AtGlobalLimit /\ ~ AtUserLimit(u)
<1>1. Slots!ActiveOf(u) = RunningOf(u)
  BY DEF Slots!ActiveOf, RunningOf
<1>2. Cardinality(running) \in Nat /\ Cardinality(RunningOf(u)) \in Nat
  BY RunningOfFinite, FS_CardinalityType DEF FiniteLimits
<1>3. GlobalLimit \in Nat /\ PerUserLimit \in Nat
  BY LimitsAssumption
<1>4. Slots!HasRoom(u) <=> /\ Cardinality(running) < GlobalLimit
                           /\ Cardinality(RunningOf(u)) < PerUserLimit
  BY <1>1, SameCount DEF Slots!HasRoom
<1> QED
  BY <1>2, <1>3, <1>4 DEF AtGlobalLimit, AtUserLimit

(* A job that starts or waits does so in JobSlots too.                     *)
LEMMA AcquireIsBeginOrEnqueue ==
  ASSUME TypeOK, FiniteLimits, OneClaimPerJob, NoIdleWaiter,
         NEW id \in Ids, NEW u \in Users, AcquireJobSlot(id, u)
  PROVE  Slots!Begin(id, u) \/ Slots!Enqueue(id, u)
<1> DEFINE slot == [id |-> id, ownerSub |-> u]
           queue == [v \in Users |-> IdsOf(waiters, v)]
<1>1. ~ Slots!Known(id)
  <2>1. ~ IsRunning(id) /\ ~ IsWaiting(id)
    BY DEF AcquireJobSlot, OneClaimPerJob
  <2> QED
    BY <2>1, KnownHasAClaim
<1>2. slot \in Slot /\ slot.id = id /\ slot.ownerSub = u
  BY DEF Slot
<1>3. waiters \in Seq(Slot)
  BY DEF TypeOK
<1>4. CASE ~ AtGlobalLimit /\ ~ AtUserLimit(u)
  <2>1. running' = running \cup {slot} /\ waiters' = waiters
    BY <1>4 DEF AcquireJobSlot
  <2>2. \A k \in DOMAIN waiters : waiters[k].ownerSub # u
    BY <1>4 DEF NoIdleWaiter, AcquireJobSlot
  <2>3. IdsOf(waiters, u) = << >>
    BY <1>3, <2>2, IdsOfWait
  <2>4. queue[u] = << >>
    BY <2>3
  <2>5. Slots!HasRoom(u)
    BY <1>4, RoomBelowTheCaps
  <2> QED
    BY <1>1, <2>1, <2>4, <2>5 DEF Slots!Begin
<1>5. CASE AtGlobalLimit \/ AtUserLimit(u)
  <2>1. running' = running /\ waiters' = Append(waiters, slot)
    BY <1>5 DEF AcquireJobSlot
  <2>2. ~ Slots!HasRoom(u)
    BY <1>5, RoomBelowTheCaps
  <2> HIDE DEF slot
  <2>3. ASSUME NEW v \in Users
        PROVE  IdsOf(waiters', v) = IF v = u THEN Append(IdsOf(waiters, u), id) ELSE IdsOf(waiters, v)
    BY <1>2, <1>3, <2>1, IdsOfAppend
  <2>4. [v \in Users |-> IdsOf(waiters', v)] = [queue EXCEPT ![u] = Append(@, id)]
    BY <2>3
  <2> QED
    BY <1>1, <2>1, <2>2, <2>4 DEF Slots!Enqueue
<1> QED
  BY <1>4, <1>5

(* A job that gives its slot back is the only one of its id.               *)
LEMMA ReleaseIsFinish ==
  ASSUME OneClaimPerJob, NEW id \in Ids, ReleaseJobSlot(id)
  PROVE  \E s \in running : Slots!Finish(s)
<1>1. PICK s \in running : s.id = id
  BY DEF ReleaseJobSlot, IsRunning
<1>2. running' = running \ {s}
  BY <1>1 DEF ReleaseJobSlot, OneClaimPerJob
<1>3. waiters' = waiters
  BY DEF ReleaseJobSlot
<1> QED
  BY <1>1, <1>2, <1>3 DEF Slots!Finish

(* The waiter that starts is the oldest of its user.                       *)
LEMMA StartIsGrant ==
  ASSUME TypeOK, FiniteLimits, DispatchStart
  PROVE  \E u \in Users : Slots!Grant(u)
<1> DEFINE u == Head(waiters).ownerSub
           queue == [v \in Users |-> IdsOf(waiters, v)]
<1>1. waiters \in Seq(Slot) /\ waiters # << >>
  BY DEF TypeOK, DispatchStart, Dispatching
<1>2. Head(waiters) \in Slot /\ u \in Users
  <2>1. Head(waiters) \in Slot
    BY <1>1
  <2> QED
    BY <2>1 DEF Slot
<1>3. running' = running \cup {Head(waiters)} /\ waiters' = Tail(waiters)
  BY DEF DispatchStart
<1>4. Slots!HasRoom(u)
  BY RoomBelowTheCaps DEF DispatchStart, Dispatching
<1>5. IdsOf(waiters, u) # << >> /\ Head(IdsOf(waiters, u)) = Head(waiters).id
  BY <1>1, IdsOfTail
<1>6. Head(waiters) = [id |-> Head(queue[u]), ownerSub |-> u]
  <2> DEFINE w == Head(waiters)
  <2>1. w = [id |-> w.id, ownerSub |-> w.ownerSub]
    <3>1. w \in Slot
      BY <1>2
    <3> HIDE DEF w
    <3> QED
      BY <3>1 DEF Slot
  <2>2. Head(queue[u]) = w.id
    BY <1>2, <1>5
  <2> QED
    BY <2>1, <2>2
<1>7. ASSUME NEW v \in Users
      PROVE  IdsOf(waiters', v) = IF v = u THEN Tail(IdsOf(waiters, u)) ELSE IdsOf(waiters, v)
  BY <1>1, <1>3, IdsOfTail
<1>8. [v \in Users |-> IdsOf(waiters', v)] = [queue EXCEPT ![u] = Tail(@)]
  BY <1>2, <1>7
<1>9. queue[u] # << >>
  BY <1>2, <1>5
<1> HIDE DEF u
<1>10. Slots!Grant(u)
  BY <1>3, <1>4, <1>6, <1>8, <1>9 DEF Slots!Grant
<1> QED
  BY <1>2, <1>10

LEMMA QueueStepIsSlotsStep ==
  TypeOK /\ FiniteLimits /\ OneClaimPerJob /\ NoIdleWaiter /\ [Next]_vars
    => [Slots!SlotsNext]_(Slots!slotVars)
<1> SUFFICES ASSUME TypeOK, FiniteLimits, OneClaimPerJob, NoIdleWaiter, [Next]_vars
             PROVE  [Slots!SlotsNext]_(Slots!slotVars)
  OBVIOUS
<1>1. ASSUME NEW id \in Ids, NEW u \in Users, AcquireJobSlot(id, u) PROVE Slots!SlotsNext
  BY <1>1, AcquireIsBeginOrEnqueue DEF Slots!SlotsNext
<1>2. ASSUME NEW id \in Ids, ReleaseJobSlot(id) PROVE Slots!SlotsNext
  BY <1>2, ReleaseIsFinish DEF Slots!SlotsNext
<1>3. CASE DispatchStart
  BY <1>3, StartIsGrant DEF Slots!SlotsNext
<1>4. CASE DispatchRotate
  <2>1. \A u \in Users : IdsOf(waiters', u) = IdsOf(waiters, u)
    BY <1>4, RotationKeepsOrder DEF DispatchRotate
  <2>2. [u \in Users |-> IdsOf(waiters', u)] = [u \in Users |-> IdsOf(waiters, u)]
    BY <2>1
  <2>3. running' = running
    BY <1>4 DEF DispatchRotate
  <2> QED
    BY <2>2, <2>3 DEF Slots!slotVars
<1>5. CASE DispatchEnd
  BY <1>5 DEF DispatchEnd, Slots!slotVars
<1>6. CASE UNCHANGED vars
  BY <1>6 DEF vars, Slots!slotVars
<1> QED
  BY <1>1, <1>2, <1>3, <1>4, <1>5, <1>6 DEF Next

(* Nobody waits at first.                                                  *)
LEMMA InitIsSlotsInit == Init => Slots!SlotsInit
<1> SUFFICES ASSUME Init PROVE Slots!SlotsInit
  OBVIOUS
<1>1. waiters \in Seq(Slot) /\ DOMAIN waiters = {}
  BY DEF Init
<1>2. \A u \in Users : IdsOf(waiters, u) = << >>
  BY <1>1, IdsOfWait
<1>3. [u \in Users |-> IdsOf(waiters, u)] = [u \in Users |-> << >>]
  BY <1>2
<1> QED
  BY <1>3 DEF Init, Slots!SlotsInit

(***************************************************************************)
(* The array with its rotations is no more and no less than JobSlots says: *)
(* every step of jobs.ts is one of a queue per user, or invisible, for all *)
(* ids, users and caps.                                                    *)
(***************************************************************************)
THEOREM QueueImplementsSlots == Spec => ImplementsSlots
<1>1. Spec => []TypeOK
  BY TypeCorrect
<1>2. Spec => []FiniteLimits
  BY LimitsInit, LimitsNext, TypeCorrect, PTL DEF Spec
<1>3. Spec => []OneClaimPerJob /\ []NoIdleWaiter
  BY Claims, NoWaiterLeftBehind
<1> QED
  BY <1>1, <1>2, <1>3, InitIsSlotsInit, QueueStepIsSlotsStep, PTL
     DEF Spec, ImplementsSlots, Slots!SlotsSpec

=============================================================================
