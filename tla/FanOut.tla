------------------------------- MODULE FanOut -------------------------------
(***************************************************************************)
(* A list of calls made by a pool of workers, repeated as a whole when it  *)
(* fails: withRetry(() => mapWithConcurrency(items, limit, fn)), the way   *)
(* the inventory reads the records of all DNS zones.                       *)
(*                                                                         *)
(* The first rejection ends the map for its caller but not the other       *)
(* workers, which go on with items nobody waits for, also while the next   *)
(* attempt runs.                                                           *)
(***************************************************************************)
EXTENDS Naturals, FiniteSets

CONSTANTS
    NumItems,       \* items to map
    PoolLimit,      \* workers of one map
    Attempts        \* attempts of withRetry, the first included

ASSUME FanOutAssumption ==
    /\ NumItems \in Nat
    /\ PoolLimit \in Nat \ {0}
    /\ Attempts \in Nat \ {0}

Items == 1..NumItems
Tries == 1..Attempts

VARIABLES
    attempt,    \* the attempt that runs or ran last
    outcome,    \* of withRetry
    pool        \* the map of each attempt: [next, busy, results, rejected]

fanOutVars == <<attempt, outcome, pool>>

\* Not started: nothing taken.
NoPool == [next |-> 0, busy |-> {}, results |-> {}, rejected |-> FALSE]

\* All workers take their first item in the turn that creates them.
StartedPool ==
    LET taken == IF PoolLimit < NumItems THEN PoolLimit ELSE NumItems
    IN  [next |-> taken, busy |-> 1..taken, results |-> {}, rejected |-> FALSE]

(* Mutant: the counter is read twice before it moves. *)
TakeTwo(p) ==
    IF p.next < NumItems THEN [p EXCEPT !.next = @ + 1, !.busy = @ \cup (p.next..(p.next + 1))] ELSE p

\* A worker whose item is done takes the next one, if there is one.
TakeNext(p) ==
    IF p.next < NumItems THEN [p EXCEPT !.next = @ + 1, !.busy = @ \cup {p.next + 1}] ELSE p

\* The map of attempt a is over for its caller.
Answered(p) == p.rejected \/ p.busy = {}

FanOutInit ==
    /\ attempt = 1
    /\ pool = [a \in Tries |-> IF a = 1 THEN StartedPool ELSE NoPool]
    /\ outcome = IF Answered(StartedPool) THEN "ok" ELSE "running"

(* Mutant: an item that fails counts as done. *)
ItemFailsQuietly(a, i, retryable) ==
    /\ i \in pool[a].busy
    /\ LET p == TakeNext([pool[a] EXCEPT !.busy = @ \ {i}])
       IN  /\ pool' = [pool EXCEPT ![a] = p]
           /\ outcome' = IF a = attempt /\ outcome = "running" /\ p.busy = {} THEN "ok" ELSE outcome
    /\ UNCHANGED attempt

\* Item i of attempt a is done.
ItemDone(a, i) ==
    /\ i \in pool[a].busy
    /\ LET p == TakeNext([pool[a] EXCEPT !.busy = @ \ {i}, !.results = @ \cup {i}])
       IN  /\ pool' = [pool EXCEPT ![a] = p]
           /\ outcome' = IF a = attempt /\ outcome = "running" /\ Answered(p) THEN "ok" ELSE outcome
    /\ UNCHANGED attempt

(* Mutant: one more backoff than there are attempts. *)
ItemFailsOnceMore(a, i, retryable) ==
    /\ i \in pool[a].busy
    /\ pool' = [pool EXCEPT ![a].busy = @ \ {i}, ![a].rejected = TRUE]
    /\ outcome' = IF a = attempt /\ outcome = "running"
                  THEN IF retryable /\ attempt <= Attempts THEN "sleeping" ELSE "failed"
                  ELSE outcome
    /\ UNCHANGED attempt

\* Item i of attempt a fails, and its worker ends.  The first failure of the
\* attempt that is waited for ends the wait.
ItemFails(a, i, retryable) ==
    /\ i \in pool[a].busy
    /\ pool' = [pool EXCEPT ![a].busy = @ \ {i}, ![a].rejected = TRUE]
    /\ outcome' = IF a = attempt /\ outcome = "running"
                  THEN IF retryable /\ attempt < Attempts THEN "sleeping" ELSE "failed"
                  ELSE outcome
    /\ UNCHANGED attempt

\* The backoff is over: the whole map is started again.
NextAttempt ==
    /\ outcome = "sleeping"
    /\ attempt < Attempts
    /\ attempt' = attempt + 1
    /\ pool' = [pool EXCEPT ![attempt + 1] = StartedPool]
    /\ outcome' = IF Answered(StartedPool) THEN "ok" ELSE "running"

Answer(a) == \E i \in Items : ItemDone(a, i) \/ \E retryable \in BOOLEAN : ItemFails(a, i, retryable)

FanOutNext == NextAttempt \/ \E a \in Tries : Answer(a)

FanOutSpec == FanOutInit /\ [][FanOutNext]_fanOutVars

\* Calls have a timeout and timers fire.
FanOutFairness == WF_fanOutVars(NextAttempt) /\ \A a \in Tries : WF_fanOutVars(Answer(a))

-----------------------------------------------------------------------------

\* An answer is whole: when the call succeeds, every item has a result of the
\* attempt that answered, although workers die with their items and earlier
\* attempts still run.  None of these maps has more in flight than the limit.
AnswerIsWhole ==
    /\ outcome = "ok" => pool[attempt].results = Items
    /\ \A a \in Tries : Cardinality(pool[a].busy) <= PoolLimit

\* Every call ends, and so do the workers nobody waits for.
CallEnds == <>[](outcome \in {"ok", "failed"} /\ \A a \in Tries : pool[a].busy = {})

=============================================================================
