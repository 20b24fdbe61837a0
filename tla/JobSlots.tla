------------------------------ MODULE JobSlots ------------------------------
(***************************************************************************)
(* What the in-process job queue of apps/api/src/jobs.ts promises to its   *)
(* callers: at most GlobalLimit terraform jobs at a time, at most          *)
(* PerUserLimit of one user, and the jobs of one user start in the order   *)
(* in which that user asked.  It says nothing of the order between users.  *)
(***************************************************************************)
EXTENDS Naturals, Sequences, FiniteSets

CONSTANTS Ids,          \* the instance ids, one job each at a time
          Users,        \* the owners (ownerSub)
          GlobalLimit,  \* JOB_GLOBAL_LIMIT
          PerUserLimit  \* JOB_PER_USER_LIMIT

VARIABLES active,  \* the jobs that hold a slot
          queue    \* queue[u]: the ids of u that wait for one, oldest first

slotVars == <<active, queue>>

Slot == [id : Ids, ownerSub : Users]

ActiveOf(u) == {s \in active : s.ownerSub = u}

(* A job of u may start: neither cap is reached. *)
HasRoom(u) == /\ Cardinality(active) < GlobalLimit
              /\ Cardinality(ActiveOf(u)) < PerUserLimit

Known(id) == \/ \E s \in active : s.id = id
             \/ \E u \in Users : \E k \in DOMAIN queue[u] : queue[u][k] = id

-----------------------------------------------------------------------------

SlotsInit == /\ active = {}
             /\ queue = [u \in Users |-> << >>]

(* A job that finds room and no older job of its user starts at once. *)
Begin(id, u) == /\ ~ Known(id)
                /\ HasRoom(u)
                /\ queue[u] = << >>
                /\ active' = active \cup {[id |-> id, ownerSub |-> u]}
                /\ UNCHANGED queue

Enqueue(id, u) == /\ ~ Known(id)
                  /\ ~ HasRoom(u)
                  /\ queue' = [queue EXCEPT ![u] = Append(@, id)]
                  /\ UNCHANGED active

Grant(u) == /\ queue[u] # << >>
            /\ HasRoom(u)
            /\ active' = active \cup {[id |-> Head(queue[u]), ownerSub |-> u]}
            /\ queue' = [queue EXCEPT ![u] = Tail(@)]

Finish(s) == /\ s \in active
             /\ active' = active \ {s}
             /\ UNCHANGED queue

SlotsNext == \/ \E id \in Ids, u \in Users : Begin(id, u) \/ Enqueue(id, u)
             \/ \E u \in Users : Grant(u)
             \/ \E s \in active : Finish(s)

SlotsSpec == SlotsInit /\ [][SlotsNext]_slotVars

=============================================================================
