--------------------------- MODULE RegistryProofs ---------------------------
(***************************************************************************)
(* The theorems about RegistryFile: which writes of instances.json survive *)
(* a bulk-destroy and a recovery, for any number of instances, slots and   *)
(* mix of statuses.                                                        *)
(*                                                                         *)
(* A write is lost when another body has seen the file before it and runs  *)
(* after it.  So the invariant says of every instance that is to be kept   *)
(* (Firm) that its status in the file, and in what every body that is yet  *)
(* to write has seen of it, is the last one written (Solid).  A write      *)
(* keeps that when no other body is waiting to write (Alone), or when it   *)
(* writes what is there already.                                           *)
(*                                                                         *)
(* Why no other is waiting is four arguments.  With one slot one job is at *)
(* work (OneSlot).  Once terraform has ended for an instance the loops are *)
(* over and what is queued belongs to one job (Lone).  The first mark of   *)
(* an interrupted apply comes before what is written by the jobs and       *)
(* watchers the recovery has started before it: all of them still wait for *)
(* their first answer (Early, and Passing between two marks).  And as long *)
(* as no job waits for a slot, every job and the loop advance one          *)
(* microtask per round, so that the difference of two of them in rounds is *)
(* that with which they started (Paced): bulk-destroy starts its jobs 4,   *)
(* 7, 8 or more rounds apart, the recovery's only job is multiples of 3    *)
(* apart from its loop, and the writes of the two are neither.  A watcher, *)
(* and a job of the recovery that marks, write what is there already.      *)
(***************************************************************************)
EXTENDS RegistryFile, SequenceFacts

-----------------------------------------------------------------------------
(* What the variables range over; tasks; lists whose pairs are related.    *)

\* What the variables range over.
Owners == Instances \cup {Loop}
States == {"ready", "applying", "destroying", "bootstrapping", "destroyed", "failed"}
Files == [Instances -> States]
Tasks == [who : Owners, does : {"resume", "adopt", "settle"}]
         \cup [who : Owners, does : {"body"}, of : Instances, seen : Files, status : States \cup {"none"}]
\* Where a job that has its slot may be, and where a watcher.
Working == {"slot", "read", "marked", "gone", "failed", "concluded"}
Watching == {"watch", "collect", "probe", "reread", "written"}
Busy == Working \cup Watching

RegistryTypes ==
    /\ turn \in {"bulk", "recovery"}
    /\ file \in Files /\ wrote \in Files /\ listed \in Files
    /\ files \subseteq Instances /\ holds \subseteq Instances
    /\ position \in 0 .. NumInstances + 1
    /\ got \in States \cup {"none"}
    /\ job \in [Instances -> Busy \cup {"none", "terraform"}]
    /\ waiters \in Seq(Instances) /\ microtasks \in Seq(Tasks)

\* The fields of a task.
LEMMA TaskFields ==
    ASSUME NEW t \in Tasks
    PROVE  /\ t.who \in Owners /\ t.does \in {"resume", "adopt", "settle", "body"}
           /\ t.does = "body" => t.of \in Instances /\ t.seen \in Files /\ t.status \in States \cup {"none"}
<1>1. CASE t \in [who : Owners, does : {"resume", "adopt", "settle"}]
  BY <1>1
<1>2. CASE t \in [who : Owners, does : {"body"}, of : Instances, seen : Files, status : States \cup {"none"}]
  BY <1>2
<1> QED
  BY <1>1, <1>2 DEF Tasks

LEMMA SimpleTask ==
    ASSUME NEW w \in Owners, NEW d \in {"resume", "adopt", "settle"}
    PROVE  [who |-> w, does |-> d] \in Tasks
BY DEF Tasks

LEMMA BodyTask ==
    ASSUME NEW w \in Owners, NEW o \in Instances, NEW f \in Files, NEW s \in States \cup {"none"}
    PROVE  [who |-> w, does |-> "body", of |-> o, seen |-> f, status |-> s] \in Tasks
BY DEF Tasks

LEMMA OwnersAre ==
    /\ NumInstances \in Nat \ {0} /\ Slots \in Nat \ {0}
    /\ Loop \in Owners /\ Loop \notin Instances /\ \A i \in Instances : i \in Owners /\ i \in Nat /\ i # 0
    /\ \A w \in Owners : w # Loop => w \in Instances
BY RegistryAssumption DEF Owners, Loop, Instances

LEMMA HeadIs ==
    ASSUME NEW S, NEW q \in Seq(S), q # <<>>
    PROVE  /\ Len(q) \in Nat /\ Len(q) >= 1 /\ DOMAIN q = 1 .. Len(q) /\ 1 \in DOMAIN q
           /\ Head(q) = q[1] /\ Head(q) \in S /\ ToSet(q) = {Head(q)} \cup ToSet(Tail(q))
           /\ ToSet(Tail(q)) = {q[k] : k \in 2 .. Len(q)}
<1>1. /\ Head(q) \in S /\ Tail(q) \in Seq(S) /\ Len(q) \in Nat /\ Len(q) # 0
      /\ Len(Tail(q)) = Len(q) - 1 /\ \A i \in 1 .. Len(Tail(q)) : Tail(q)[i] = q[i + 1]
  BY HeadTailProperties, LenProperties, EmptySeq
<1>2. Head(q) = q[1]
  OBVIOUS
<1>4. Len(q) \in Nat /\ Len(q) # 0
  BY <1>1
<1>5. PICK n \in Nat : n = Len(q)
  BY <1>4
<1>6. n = Len(q) /\ n >= 1
  BY <1>4, <1>5
<1>8. DOMAIN q = 1 .. n /\ DOMAIN Tail(q) = 1 .. n - 1
  BY <1>1, <1>6
<1>9. ToSet(Tail(q)) = {q[k] : k \in 2 .. Len(q)}
  <2>1. ASSUME NEW x \in ToSet(Tail(q)) PROVE x \in {q[k] : k \in 2 .. n}
    <3>1. PICK i \in 1 .. n - 1 : x = Tail(q)[i]
      BY <1>8, <2>1 DEF ToSet
    <3>2. i + 1 \in 2 .. n /\ x = q[i + 1]
      BY <1>1, <1>6, <3>1
    <3> QED
      BY <3>2
  <2>2. ASSUME NEW k \in 2 .. n PROVE q[k] \in ToSet(Tail(q))
    <3>1. k - 1 \in 1 .. n - 1 /\ (k - 1) + 1 = k
      BY <1>6
    <3>2. Tail(q)[k - 1] = q[k]
      BY <1>1, <1>6, <3>1
    <3> QED
      BY <1>8, <3>1, <3>2 DEF ToSet
  <2> QED
    BY <1>6, <2>1, <2>2
<1>10. ToSet(q) = {Head(q)} \cup ToSet(Tail(q))
  <2>1. ToSet(q) = {q[k] : k \in 1 .. n}
    BY <1>8 DEF ToSet
  <2>2. 1 .. n = {1} \cup 2 .. n
    BY <1>6
  <2> QED
    BY <1>2, <1>6, <1>9, <2>1, <2>2
<1> QED
  BY <1>1, <1>2, <1>6, <1>8, <1>9, <1>10

LEMMA PopsIs ==
    ASSUME NEW S, NEW q \in Seq(S), q # <<>>, NEW ts \in Seq(S)
    PROVE  Tail(q) \o ts \in Seq(S) /\ ToSet(Tail(q) \o ts) = ToSet(Tail(q)) \cup ToSet(ts)
<1>1. Tail(q) \in Seq(S)
  BY HeadTailProperties
<1> QED
  BY <1>1, ConcatProperties, ElementsOfConcat, ZenonT(40)

\* Whatever two elements of a list, the first of them is related to the other.
PairsIn(q, R) == \A k, l \in DOMAIN q : k < l => <<q[k], q[l]>> \in R

LEMMA PairsConcat ==
    ASSUME NEW S, NEW s \in Seq(S), NEW t \in Seq(S), NEW R, PairsIn(s, R), PairsIn(t, R),
           \A a \in ToSet(s), b \in ToSet(t) : <<a, b>> \in R
    PROVE  PairsIn(s \o t, R)
<1> DEFINE r == s \o t
<1>1. PICK n \in Nat, m \in Nat : n = Len(s) /\ m = Len(t)
  BY LenProperties
<1>2. Len(r) = n + m /\ \A i \in 1 .. n + m : r[i] = IF i <= n THEN s[i] ELSE t[i - n]
  BY <1>1, ConcatProperties
<1>3. r \in Seq(S)
  BY ConcatProperties
<1> HIDE DEF r
<1>4. DOMAIN s = 1 .. n /\ DOMAIN t = 1 .. m /\ DOMAIN r = 1 .. n + m
  BY <1>1, <1>2, <1>3, LenProperties
<1> SUFFICES ASSUME NEW k \in 1 .. n + m, NEW l \in 1 .. n + m, k < l PROVE <<r[k], r[l]>> \in R
  BY <1>4 DEF PairsIn, r
<1>5. CASE l <= n
  <2>1. k \in DOMAIN s /\ l \in DOMAIN s /\ r[k] = s[k] /\ r[l] = s[l]
    BY <1>2, <1>4, <1>5
  <2> QED
    BY <2>1 DEF PairsIn
<1>6. CASE k > n
  <2>1. k - n \in DOMAIN t /\ l - n \in DOMAIN t /\ k - n < l - n /\ r[k] = t[k - n] /\ r[l] = t[l - n]
    BY <1>2, <1>4, <1>6
  <2> QED
    BY <2>1 DEF PairsIn
<1>7. CASE k <= n /\ l > n
  <2>1. k \in DOMAIN s /\ l - n \in DOMAIN t /\ r[k] = s[k] /\ r[l] = t[l - n]
    BY <1>2, <1>4, <1>7
  <2>2. r[k] \in ToSet(s) /\ r[l] \in ToSet(t)
    BY <2>1 DEF ToSet
  <2> QED
    BY <2>2
<1> QED
  BY <1>5, <1>6, <1>7

LEMMA PairsTail ==
    ASSUME NEW S, NEW q \in Seq(S), q # <<>>, NEW R, PairsIn(q, R)
    PROVE  PairsIn(Tail(q), R) /\ \A o \in ToSet(Tail(q)) : <<Head(q), o>> \in R
<1>1. /\ Len(q) \in Nat /\ Len(q) >= 1 /\ DOMAIN q = 1 .. Len(q)
      /\ Head(q) = q[1] /\ ToSet(Tail(q)) = {q[k] : k \in 2 .. Len(q)}
  BY HeadIs
<1>2. Tail(q) \in Seq(S) /\ Len(Tail(q)) = Len(q) - 1 /\ \A i \in 1 .. Len(Tail(q)) : Tail(q)[i] = q[i + 1]
  BY HeadTailProperties
<1>3. PICK n \in Nat : n = Len(q)
  BY <1>1
<1>4. DOMAIN Tail(q) = 1 .. n - 1 /\ DOMAIN q = 1 .. n
  BY <1>1, <1>2, <1>3, LenProperties
<1>5. PairsIn(Tail(q), R)
  <2> SUFFICES ASSUME NEW k \in 1 .. n - 1, NEW l \in 1 .. n - 1, k < l PROVE <<Tail(q)[k], Tail(q)[l]>> \in R
    BY <1>4 DEF PairsIn
  <2>1. k + 1 \in 1 .. n /\ l + 1 \in 1 .. n /\ k + 1 < l + 1 /\ Tail(q)[k] = q[k + 1] /\ Tail(q)[l] = q[l + 1]
    BY <1>2, <1>3
  <2> QED
    BY <1>4, <2>1 DEF PairsIn
<1>6. ASSUME NEW o \in ToSet(Tail(q)) PROVE <<Head(q), o>> \in R
  <2>1. PICK k \in 2 .. n : o = q[k]
    BY <1>1, <1>3
  <2>2. 1 \in 1 .. n /\ k \in 1 .. n /\ 1 < k
    BY <1>1, <1>3
  <2> QED
    BY <1>1, <1>4, <2>1, <2>2 DEF PairsIn
<1> QED
  BY <1>5, <1>6

LEMMA PairsPops ==
    ASSUME NEW S, NEW q \in Seq(S), q # <<>>, NEW ts \in Seq(S), NEW R, PairsIn(q, R), PairsIn(ts, R),
           \A o \in ToSet(Tail(q)), t \in ToSet(ts) : <<o, t>> \in R
    PROVE  PairsIn(Tail(q) \o ts, R)
BY HeadTailProperties, PairsTail, PairsConcat

LEMMA PairsFew ==
    ASSUME NEW R, NEW a, NEW b
    PROVE  /\ PairsIn(<<>>, R) /\ PairsIn(<<a>>, R)
           /\ <<a, b>> \in R => PairsIn(<<a, b>>, R)
<1>1. DOMAIN <<>> = {} /\ DOMAIN <<a>> = {1} /\ DOMAIN <<a, b>> = {1, 2}
  OBVIOUS
<1> QED
  BY <1>1 DEF PairsIn

LEMMA FewElements ==
    ASSUME NEW a, NEW b
    PROVE  ToSet(<<a>>) = {a} /\ ToSet(<<a, b>>) = {a, b} /\ ToSet(<<>>) = {}
<1>1. DOMAIN <<>> = {} /\ DOMAIN <<a>> = {1} /\ DOMAIN <<a, b>> = {1, 2}
  OBVIOUS
<1> QED
  BY <1>1 DEF ToSet

-----------------------------------------------------------------------------
(* Jobs that are started.                                                  *)

\* The instances in the order of the file, once each.
LEMMA InOrderIs ==
    ASSUME NEW S, S \subseteq Instances
    PROVE  InOrder(S) \in Seq(Instances) /\ ToSet(InOrder(S)) = S /\ IsInjective(InOrder(S))
<1> DEFINE s == [k \in 1 .. NumInstances |-> k]
           OneOn(f) == [i \in 0 .. NumInstances |-> IF i = 0 THEN <<>> ELSE IF i \in S THEN Append(f[i - 1], i) ELSE f[i - 1]]
           F == CHOOSE f : f = OneOn(f)
<1>0. NumInstances \in Nat
  BY RegistryAssumption
<1>1. s \in Seq(Instances) /\ Len(s) = NumInstances /\ DOMAIN s = 1 .. NumInstances /\ \A k \in 1 .. NumInstances : s[k] = k
  BY <1>0 DEF Instances
<1>2. InOrder(S) = F[NumInstances]
  BY DEF InOrder
<1>4. IsInjective(s) /\ ToSet(s) = Instances
  BY <1>1 DEF IsInjective, ToSet, Instances
<1> HIDE DEF s
<1>3. \A f : Keeping(f, s, S, NumInstances) <=> f = OneOn(f)
  <2>1. \A i \in 0 .. NumInstances : i # 0 => s[i] = i
    BY <1>0, <1>1
  <2> QED
    BY <2>1 DEF Keeping
<1>5. \E f : Keeping(f, s, S, NumInstances)
  BY <1>0, <1>1, KeptIs
<1>6. F = OneOn(F)
  <2>1. PICK f : f = OneOn(f)
    BY <1>3, <1>5
  <2> HIDE DEF OneOn
  <2> QED
    BY <2>1
<1> HIDE DEF F
<1>7. Keeping(F, s, S, Len(s))
  BY <1>1, <1>3, <1>6
<1>8. F[Len(s)] = Kept(s, S)
  BY <1>0, <1>1, <1>7, KeptByFilter
<1>9. /\ Kept(s, S) \in Seq(Instances) /\ ToSet(Kept(s, S)) = ToSet(s) \cap S
      /\ IsInjective(s) => IsInjective(Kept(s, S))
  BY <1>1, KeptElements
<1>10. InOrder(S) = Kept(s, S) /\ Instances \cap S = S
  BY <1>1, <1>2, <1>8
<1> QED
  BY <1>4, <1>9, <1>10

\* The smaller of two numbers.
LEMMA MinOfTwo ==
    ASSUME NEW a \in Int, NEW b \in Int
    PROVE  Min({a, b}) = IF a <= b THEN a ELSE b
<1> DEFINE m == IF a <= b THEN a ELSE b
<1>1. m \in {a, b} /\ \A y \in {a, b} : m <= y
  OBVIOUS
<1>2. \A x \in {a, b} : (\A y \in {a, b} : x <= y) => x = m
  OBVIOUS
<1> QED
  BY <1>1, <1>2 DEF Min

LEMMA SomeFinite ==
    ASSUME NEW S, S \subseteq Instances
    PROVE  IsFiniteSet(S) /\ Cardinality(S) \in Nat /\ \A T \in SUBSET S : Cardinality(T) <= Cardinality(S)
<1>1. IsFiniteSet(Instances)
  BY OwnersAre, FS_Interval DEF Instances
<1>2. IsFiniteSet(S)
  BY <1>1, FS_Subset
<1> QED
  BY <1>2, FS_Subset, FS_CardinalityType

\* A list cut in two.
Cut(ids, m, a, w) == a = SubSeq(ids, 1, m) /\ w = SubSeq(ids, Len(a) + 1, Len(ids))

LEMMA CutInTwo ==
    ASSUME NEW ids \in Seq(Instances), NEW m \in Int, NEW a, NEW w, IsInjective(ids), m <= Len(ids), Cut(ids, m, a, w)
    PROVE  /\ a \in Seq(Instances) /\ w \in Seq(Instances) /\ IsInjective(a) /\ IsInjective(w)
           /\ ToSet(a) \cup ToSet(w) = ToSet(ids) /\ ToSet(a) \cap ToSet(w) = {}
           /\ Len(a) = (IF m >= 0 THEN m ELSE 0)
           /\ Len(w) = Len(ids) - Len(a)
<1>1. PICK n \in Nat : n = Len(ids)
  BY LenProperties
<1>2. DOMAIN ids = 1 .. n /\ \A i \in 1 .. n : ids[i] \in Instances
  BY <1>1, LenProperties, ElementOfSeq
<1>3. PICK l \in Nat : l = (IF m >= 0 THEN m ELSE 0)
  OBVIOUS
<1>4. a = [i \in 1 .. l |-> ids[i]]
  <2>1. SubSeq(ids, 1, m) = [i \in 1 .. m - 1 + 1 |-> ids[i + 1 - 1]]
    OBVIOUS
  <2>2. 1 .. m - 1 + 1 = 1 .. l
    BY <1>3
  <2>3. \A i \in 1 .. l : i + 1 - 1 = i
    OBVIOUS
  <2> QED
    BY <2>1, <2>2, <2>3 DEF Cut
<1>5. l <= n /\ \A i \in 1 .. l : i \in 1 .. n
  BY <1>1, <1>3
<1>6. a \in Seq(Instances) /\ Len(a) = l /\ DOMAIN a = 1 .. l /\ \A i \in 1 .. l : a[i] = ids[i]
  BY <1>2, <1>4, <1>5
<1>7. w = [i \in 1 .. n - l |-> ids[l + i]]
  <2>1. SubSeq(ids, l + 1, n) = [i \in 1 .. n - (l + 1) + 1 |-> ids[i + (l + 1) - 1]]
    OBVIOUS
  <2>2. n - (l + 1) + 1 = n - l
    BY <1>5
  <2>3. \A i \in 1 .. n - l : i + (l + 1) - 1 = l + i
    BY <1>5
  <2> QED
    BY ZenonT(40), <1>1, <1>6, <2>1, <2>2, <2>3 DEF Cut
<1>8. \A i \in 1 .. n - l : l + i \in 1 .. n
  BY <1>5
<1>9. n - l \in Nat
  BY <1>5
<1>10. w \in Seq(Instances) /\ DOMAIN w = 1 .. n - l /\ \A i \in 1 .. n - l : w[i] = ids[l + i]
  <2>1. PICK h \in Nat : h = n - l
    BY <1>9
  <2>2. w = [i \in 1 .. h |-> ids[l + i]] /\ \A i \in 1 .. h : ids[l + i] \in Instances
    BY <1>2, <1>7, <1>8, <2>1
  <2>3. w \in Seq(Instances)
    BY <2>2
  <2> QED
    BY <2>1, <2>2, <2>3
<1>11. IsInjective(a) /\ IsInjective(w)
  <2>1. \A i, j \in 1 .. n : ids[i] = ids[j] => i = j
    BY <1>2 DEF IsInjective
  <2>2. ASSUME NEW i \in 1 .. n - l, NEW j \in 1 .. n - l, w[i] = w[j] PROVE i = j
    <3>1. l + i = l + j
      BY <1>8, <1>10, <2>1, <2>2
    <3> QED
      BY <3>1
  <2>3. \A i, j \in 1 .. l : a[i] = a[j] => i = j
    BY <1>5, <1>6, <2>1
  <2>4. IsInjective(a)
    BY <1>6, <2>3 DEF IsInjective
  <2>5. \A i, j \in DOMAIN w : w[i] = w[j] => i = j
    BY <1>10, <2>2
  <2> QED
    BY <2>4, <2>5 DEF IsInjective
<1>12. ASSUME NEW x \in ToSet(ids) PROVE x \in ToSet(a) \cup ToSet(w)
  <2>1. PICK i \in 1 .. n : x = ids[i]
    BY <1>2 DEF ToSet
  <2>2. CASE i <= l
    <3>1. i \in 1 .. l /\ a[i] = x
      BY <1>6, <2>1, <2>2
    <3> QED
      BY <1>6, <3>1 DEF ToSet
  <2>3. CASE i > l
    <3>1. i - l \in 1 .. n - l /\ l + (i - l) = i
      BY <2>1, <2>3
    <3>2. w[i - l] = x
      BY <1>10, <2>1, <3>1
    <3> QED
      BY <1>10, <3>1, <3>2 DEF ToSet
  <2> QED
    BY <2>2, <2>3
<1>13. ToSet(a) \subseteq ToSet(ids)
  BY <1>2, <1>5, <1>6 DEF ToSet
<1>14. ToSet(w) \subseteq ToSet(ids)
  <2>1. ASSUME NEW i \in 1 .. n - l PROVE w[i] \in ToSet(ids)
    BY <1>2, <1>8, <1>10 DEF ToSet
  <2> QED
    BY <1>10, <2>1 DEF ToSet
<1>15. ToSet(a) \cap ToSet(w) = {}
  <2>0. ToSet(a) = {a[i] : i \in 1 .. l} /\ ToSet(w) = {w[j] : j \in 1 .. n - l}
    BY <1>6, <1>10 DEF ToSet
  <2> SUFFICES ASSUME NEW i \in 1 .. l, NEW j \in 1 .. n - l, a[i] = w[j] PROVE FALSE
    BY <2>0
  <2>1. i \in 1 .. n /\ l + j \in 1 .. n /\ i # l + j
    BY <1>5, <1>8
  <2>2. ids[i] = ids[l + j]
    BY <1>6, <1>10
  <2> QED
    BY <1>2, <2>1, <2>2 DEF IsInjective
<1>16. Len(w) = Len(ids) - Len(a)
  <2>1. Len(w) \in Nat /\ DOMAIN w = 1 .. Len(w)
    BY <1>10, LenProperties
  <2>2. PICK h \in Nat : h = n - l
    BY <1>9
  <2>3. Len(w) = h
    BY <1>10, <2>1, <2>2
  <2> QED
    BY <1>1, <1>6, <2>2, <2>3
<1> QED
  BY <1>3, <1>6, <1>10, <1>11, <1>12, <1>13, <1>14, <1>15, <1>16

\* Two tasks of one owner are a body and what follows it.
Apart == {p \in Tasks \X Tasks : p[1].who = p[2].who => p[1].does = "body" /\ p[2].does = "adopt"}

\* A body is followed.
Followed(W) == \A t \in W : t.does = "body" => \E o \in W : o.who = t.who /\ o.does = "adopt"

LEMMA CallIs ==
    ASSUME RegistryTypes, NEW w \in Owners, NEW o \in Instances, NEW s \in States \cup {"none"}
    PROVE  /\ Call(w, o, s) \in Seq(Tasks)
           /\ ToSet(Call(w, o, s)) = {[who |-> w, does |-> "body", of |-> o, seen |-> file, status |-> s], [who |-> w, does |-> "adopt"]}
           /\ PairsIn(Call(w, o, s), Apart)
<1> DEFINE b == [who |-> w, does |-> "body", of |-> o, seen |-> file, status |-> s]
           a == [who |-> w, does |-> "adopt"]
<1>1. a \in Tasks
  BY SimpleTask
<1>2. b \in Tasks
  BY BodyTask DEF RegistryTypes
<1>3. Call(w, o, s) = <<b, a>>
  BY DEF Call
<1>4. b.does = "body" /\ a.does = "adopt"
  OBVIOUS
<1> HIDE DEF a, b
<1>5. <<b, a>> \in Apart
  BY <1>1, <1>2, <1>4 DEF Apart
<1>6. <<b, a>> \in Seq(Tasks)
  BY <1>1, <1>2
<1>7. Call(w, o, s) \in Seq(Tasks) /\ ToSet(Call(w, o, s)) = {b, a} /\ PairsIn(Call(w, o, s), Apart)
  <2>1. ToSet(<<b, a>>) = {b, a}
    BY FewElements
  <2>2. PairsIn(<<b, a>>, Apart)
    BY <1>5, PairsFew
  <2> QED
    BY <1>3, <1>6, <2>1, <2>2
<1> QED
  BY <1>7, Zenon DEF a, b

\* Jobs that are started have a slot, and their first task, or wait.
LEMMA StartsAre ==
    ASSUME RegistryTypes, NEW ids \in Seq(Instances), IsInjective(ids), StartDestroys(ids)
    PROVE  \E a \in Seq(Instances), w \in Seq(Instances) :
               /\ IsInjective(w) /\ ToSet(a) \cup ToSet(w) = ToSet(ids) /\ ToSet(a) \cap ToSet(w) = {}
               /\ Len(a) = (IF Len(ids) <= Slots - Cardinality(holds) THEN Len(ids)
                            ELSE IF Slots - Cardinality(holds) >= 0 THEN Slots - Cardinality(holds) ELSE 0)
               /\ Len(w) = Len(ids) - Len(a)
               /\ waiters' = waiters \o w /\ holds' = holds \cup ToSet(a)
               /\ Resumed(ids) \in Seq(Tasks) /\ PairsIn(Resumed(ids), Apart)
               /\ Len(Resumed(ids)) = Len(a) /\ DOMAIN Resumed(ids) = DOMAIN a
               /\ \A k \in DOMAIN a : Resumed(ids)[k] = Resume(a[k])
               /\ ToSet(Resumed(ids)) = {Resume(i) : i \in ToSet(a)}
<1>1. Cardinality(holds) \in Nat /\ Slots \in Nat /\ Len(ids) \in Nat
  BY SomeFinite, OwnersAre, LenProperties DEF RegistryTypes
<1> DEFINE a == Admitted(ids)
           w == SubSeq(ids, Len(a) + 1, Len(ids))
<1>2. PICK m \in Int : m = (IF Len(ids) <= Slots - Cardinality(holds) THEN Len(ids) ELSE Slots - Cardinality(holds))
  BY <1>1
<1>3. a = SubSeq(ids, 1, m) /\ m <= Len(ids)
  <2>1. Min({Len(ids), Slots - Cardinality(holds)}) = m
    BY <1>1, <1>2, MinOfTwo
  <2>2. a = SubSeq(ids, 1, Min({Len(ids), Slots - Cardinality(holds)}))
    BY Zenon DEF Admitted
  <2> HIDE DEF a
  <2>3. m <= Len(ids)
    BY <1>1, <1>2
  <2> QED
    BY <2>1, <2>2, <2>3
<1>4. waiters' = waiters \o w /\ holds' = holds \cup ToSet(a)
  BY DEF StartDestroys
<1>5. /\ a \in Seq(Instances) /\ w \in Seq(Instances) /\ IsInjective(a) /\ IsInjective(w)
      /\ ToSet(a) \cup ToSet(w) = ToSet(ids) /\ ToSet(a) \cap ToSet(w) = {}
      /\ Len(a) = (IF m >= 0 THEN m ELSE 0)
      /\ Len(w) = Len(ids) - Len(a)
  <2>1. w = SubSeq(ids, Len(a) + 1, Len(ids))
    BY Zenon
  <2> HIDE DEF a, w
  <2> QED
    <3>1. PICK A, W : A = a /\ W = w
      OBVIOUS
    <3>2. A = SubSeq(ids, 1, m) /\ m <= Len(ids) /\ W = SubSeq(ids, Len(A) + 1, Len(ids)) /\ m \in Int
      BY <1>2, <1>3, <2>1, <3>1
    <3>4. Cut(ids, m, A, W)
      BY <3>2 DEF Cut
    <3>3. /\ A \in Seq(Instances) /\ W \in Seq(Instances) /\ IsInjective(A) /\ IsInjective(W)
          /\ ToSet(A) \cup ToSet(W) = ToSet(ids) /\ ToSet(A) \cap ToSet(W) = {}
          /\ Len(A) = (IF m >= 0 THEN m ELSE 0)
          /\ Len(W) = Len(ids) - Len(A)
      <4>1. Len(W) = Len(ids) - Len(A)
        <5>1. ASSUME NEW A1, NEW W1, Cut(ids, m, A1, W1), m <= Len(ids), m \in Int PROVE Len(W1) = Len(ids) - Len(A1)
          BY <5>1, CutInTwo
        <5> QED
          BY <3>2, <3>4, <5>1, Zenon
      <4>2. /\ A \in Seq(Instances) /\ W \in Seq(Instances) /\ IsInjective(A) /\ IsInjective(W)
            /\ ToSet(A) \cup ToSet(W) = ToSet(ids) /\ ToSet(A) \cap ToSet(W) = {}
            /\ Len(A) = (IF m >= 0 THEN m ELSE 0)
        BY <3>2, <3>4, CutInTwo
      <4> QED
        BY <4>1, <4>2
    <3> QED
      BY <3>1, <3>3
<1>6. Len(a) = (IF Len(ids) <= Slots - Cardinality(holds) THEN Len(ids)
                ELSE IF Slots - Cardinality(holds) >= 0 THEN Slots - Cardinality(holds) ELSE 0)
  <2> HIDE DEF a
  <2> QED
    BY <1>1, <1>2, <1>5
<1>7. Resumed(ids) = [k \in DOMAIN a |-> Resume(a[k])]
  BY DEF Resumed
<1> HIDE DEF a, w
<1>8. DOMAIN a = 1 .. Len(a) /\ Len(a) \in Nat /\ \A k \in DOMAIN a : a[k] \in Instances
  BY <1>5, LenProperties, ElementOfSeq
<1>9. \A i \in Instances : Resume(i) \in Tasks /\ Resume(i).who = i /\ Resume(i).does = "resume"
  BY OwnersAre, SimpleTask DEF Resume
<1>10. PICK r : r = Resumed(ids)
  OBVIOUS
<1>11. r \in Seq(Tasks) /\ Len(r) = Len(a) /\ DOMAIN r = DOMAIN a /\ \A k \in DOMAIN a : r[k] = Resume(a[k])
  BY <1>7, <1>8, <1>9, <1>10
<1>12. ToSet(r) = {Resume(i) : i \in ToSet(a)}
  BY <1>11 DEF ToSet
<1>13. PairsIn(r, Apart)
  <2> SUFFICES ASSUME NEW k \in DOMAIN r, NEW l \in DOMAIN r, k < l PROVE <<r[k], r[l]>> \in Apart
    BY DEF PairsIn
  <2>1. k # l
    BY <1>8, <1>11
  <2>2. a[k] # a[l]
    BY <1>5, <1>11, <2>1 DEF IsInjective
  <2>3. r[k] \in Tasks /\ r[l] \in Tasks /\ r[k].who # r[l].who
    BY <1>8, <1>9, <1>11, <2>2
  <2> QED
    BY <2>3 DEF Apart
<1> QED
  BY <1>4, <1>5, <1>6, <1>10, <1>11, <1>12, <1>13

-----------------------------------------------------------------------------
(* The queue: what is in it belongs to a job that has a slot, or to the loop. *)

\* What a job may write, by where it is.
JobWrites(state) ==
    CASE state = "marked" -> {"destroying"}
      [] state = "concluded" -> {"destroyed", "failed"}
      [] state = "written" -> {"bootstrapping"}
      [] state \in {"read", "gone", "failed", "watch", "reread"} -> {"none"}
      [] OTHER -> {}

Queued == ToSet(microtasks)

\* What an instance was listed as that has a job or a watcher there.
ListedFor(state) == IF turn = "bulk" THEN "ready" ELSE IF state \in Watching THEN "bootstrapping" ELSE "destroying"

\* A task of a job or a watcher: the job has a slot, and its body writes what is due at that place.
OfJob(t) ==
    /\ job[t.who] \in Busy /\ (job[t.who] \in Working => t.who \in holds)
    /\ job[t.who] = "slot" => t.does = "resume"
    /\ t.does = "body" => t.of = t.who /\ t.status \in JobWrites(job[t.who])

\* A task of the loop: bulk-destroy only reads, the recovery marks an interrupted apply.
OfLoop(t) ==
    t.does = "body" => /\ t.of = position /\ position \in Instances
                       /\ t.status = (IF turn = "bulk" THEN "none" ELSE "failed")
                       /\ turn = "recovery" => listed[position] = "applying"

\* What is in the queue, the jobs, the slots and those that wait for one agree.
QueueInv ==
    /\ RegistryTypes
    /\ PairsIn(microtasks, Apart) /\ Followed(Queued)
    /\ \A t \in Queued : (t.who \in Instances => OfJob(t)) /\ (t.who = Loop => OfLoop(t))
    /\ \A i \in Instances : job[i] \in Working \ {"slot"} => \E t \in Queued : t.who = i
    /\ \A i \in Instances : job[i] # "none" => i <= position /\ listed[i] = ListedFor(job[i])
    /\ \A i \in Instances : job[i] \in Watching => turn = "recovery"
    /\ \A i \in Instances : job[i] \in {"terraform", "failed"} => i \in files
    /\ \A i \in Instances : job[i] = "terraform" => i \in holds
    /\ \A i \in holds : job[i] \in Working \cup {"terraform"}
    /\ IsInjective(waiters) /\ \A i \in ToSet(waiters) : job[i] = "slot" /\ i \notin holds

LEMMA TailIs ==
    ASSUME QueueInv, microtasks # <<>>
    PROVE  /\ Head(microtasks) \in Tasks /\ Queued = {Head(microtasks)} \cup ToSet(Tail(microtasks))
           /\ Tail(microtasks) \in Seq(Tasks) /\ PairsIn(Tail(microtasks), Apart) /\ Followed(ToSet(Tail(microtasks)))
           /\ \A o \in ToSet(Tail(microtasks)) :
                  o \in Tasks /\ (o.who = Head(microtasks).who => Head(microtasks).does = "body" /\ o.does = "adopt")
           /\ Head(microtasks).does = "body" => \E o \in ToSet(Tail(microtasks)) : o.who = Head(microtasks).who /\ o.does = "adopt"
<1> PICK q : q = microtasks
  OBVIOUS
<1>1. q \in Seq(Tasks) /\ q # <<>> /\ PairsIn(q, Apart) /\ Followed(ToSet(q))
  BY DEF QueueInv, RegistryTypes, Queued
<1>2. Head(q) \in Tasks /\ ToSet(q) = {Head(q)} \cup ToSet(Tail(q)) /\ Tail(q) \in Seq(Tasks)
  BY <1>1, HeadIs, HeadTailProperties
<1>3. PairsIn(Tail(q), Apart) /\ \A o \in ToSet(Tail(q)) : <<Head(q), o>> \in Apart
  BY <1>1, PairsTail
<1>4. \A o \in ToSet(Tail(q)) : o \in Tasks /\ (o.who = Head(q).who => Head(q).does = "body" /\ o.does = "adopt")
  BY <1>3 DEF Apart
<1>5. Head(q).does = "body" => \E o \in ToSet(Tail(q)) : o.who = Head(q).who /\ o.does = "adopt"
  BY <1>1, <1>2 DEF Followed
<1>6. ASSUME NEW t \in ToSet(Tail(q)), t.does = "body" PROVE \E o \in ToSet(Tail(q)) : o.who = t.who /\ o.does = "adopt"
  <2>1. PICK o \in ToSet(q) : o.who = t.who /\ o.does = "adopt"
    BY <1>1, <1>2, <1>6 DEF Followed
  <2>2. o # Head(q)
    BY <1>4, <1>6, <2>1
  <2> QED
    BY <1>2, <2>1, <2>2
<1> QED
  BY <1>2, <1>3, <1>4, <1>5, <1>6 DEF Queued, Followed

\* What is put behind a queue of others.
LEMMA QueueAppends ==
    ASSUME NEW q \in Seq(Tasks), NEW ts \in Seq(Tasks), PairsIn(q, Apart), PairsIn(ts, Apart),
           Followed(ToSet(q)), Followed(ToSet(ts)), \A o \in ToSet(q), t \in ToSet(ts) : o.who # t.who
    PROVE  /\ q \o ts \in Seq(Tasks) /\ PairsIn(q \o ts, Apart) /\ Followed(ToSet(q \o ts))
           /\ ToSet(q \o ts) = ToSet(q) \cup ToSet(ts)
<1>1. PICK r : r = q \o ts
  OBVIOUS
<1>2. r \in Seq(Tasks) /\ ToSet(r) = ToSet(q) \cup ToSet(ts)
  BY <1>1, ConcatProperties, ElementsOfConcat
<1>3. \A o \in ToSet(q) : o \in Tasks
  BY OfItsElements DEF ToSet
<1>4. \A t \in ToSet(ts) : t \in Tasks
  BY OfItsElements DEF ToSet
<1>5. \A o \in ToSet(q), t \in ToSet(ts) : <<o, t>> \in Apart
  BY <1>3, <1>4 DEF Apart
<1>6. PairsIn(r, Apart)
  BY <1>1, <1>5, PairsConcat
<1>7. Followed(ToSet(r))
  BY <1>2 DEF Followed
<1> QED
  BY <1>1, <1>2, <1>6, <1>7

LEMMA QueueGrows ==
    ASSUME NEW ts, QueueInv, microtasks # <<>>, ts \in Seq(Tasks), PairsIn(ts, Apart), Followed(ToSet(ts)),
           \A o \in ToSet(Tail(microtasks)), t \in ToSet(ts) : o.who # t.who, Then(ts)
    PROVE  /\ microtasks' \in Seq(Tasks) /\ PairsIn(microtasks', Apart) /\ Followed(Queued')
           /\ Queued' = ToSet(Tail(microtasks)) \cup ToSet(ts)
<1> PICK q : q = microtasks
  OBVIOUS
<1> PICK r : r = microtasks'
  OBVIOUS
<1>1. q \in Seq(Tasks) /\ q # <<>> /\ r = Tail(q) \o ts
  BY DEF QueueInv, RegistryTypes, Then
<1>2. r \in Seq(Tasks) /\ ToSet(r) = ToSet(Tail(q)) \cup ToSet(ts)
  BY <1>1, PopsIs
<1>3. /\ PairsIn(q, Apart) /\ PairsIn(Tail(q), Apart) /\ Followed(ToSet(Tail(q)))
      /\ \A o \in ToSet(Tail(q)) : o \in Tasks
  BY TailIs DEF QueueInv
<1>4. \A t \in ToSet(ts) : t \in Tasks
  BY OfItsElements DEF ToSet
<1>5. \A o \in ToSet(Tail(q)), t \in ToSet(ts) : <<o, t>> \in Apart
  BY <1>3, <1>4 DEF Apart
<1>6. PairsIn(r, Apart)
  BY <1>1, <1>3, <1>5, PairsPops
<1>7. Followed(ToSet(r))
  BY <1>2, <1>3 DEF Followed
<1> QED
  BY <1>2, <1>6, <1>7 DEF Queued

-----------------------------------------------------------------------------
(* The steps of the jobs and the queue.                                    *)

\* A job goes on to its next call.
Passes(i, from, to, status) ==
    \/ from = "slot" /\ to = "read" /\ status = "none"
    \/ from = "read" /\ to = "marked" /\ status = "destroying"
    \/ from = "marked" /\ to = "gone" /\ status = "none" /\ i \notin files
    \/ from = "gone" /\ to = "concluded" /\ status = "destroyed"
    \/ from = "failed" /\ to = "concluded" /\ status = "failed"
    \/ from = "probe" /\ to = "reread" /\ status = "none"
    \/ from = "reread" /\ to = "written" /\ status = "bootstrapping"

\* It calls the registry and awaits the answer.
JobCalls(i, from, to, status) ==
    Passes(i, from, to, status) /\ JobStep(i, from, to, Call(i, i, status)) /\ UNCHANGED <<holds, waiters>>

LEMMA PassesIs ==
    ASSUME NEW i, NEW from, NEW to, NEW status, Passes(i, from, to, status)
    PROVE  /\ from \in Busy /\ to \in Busy \ {"slot", "failed"} /\ status \in States \cup {"none"}
           /\ status \in JobWrites(to) /\ (from \in Working <=> to \in Working) /\ (from \in Watching <=> to \in Watching)
BY DEF Passes, Working, Watching, Busy, States, JobWrites

\* What a job finds at the head of the queue is its own.
LEMMA JobsTurn ==
    ASSUME NEW i \in Instances, QueueInv, Doing(i, "resume")
    PROVE  /\ microtasks # <<>> /\ Head(microtasks) \in Queued /\ Head(microtasks).who = i
           /\ job[i] \in Busy /\ (job[i] \in Working => i \in holds) /\ i \in Owners /\ i # Loop
           /\ \A o \in ToSet(Tail(microtasks)) : o.who # i /\ o \in Queued /\ o \in Tasks
           /\ \A t \in Queued : t.who # i => t \in ToSet(Tail(microtasks))
<1>1. microtasks # <<>> /\ Head(microtasks).who = i /\ Head(microtasks).does = "resume"
  BY DEF Doing
<1>2. /\ Queued = {Head(microtasks)} \cup ToSet(Tail(microtasks))
      /\ \A o \in ToSet(Tail(microtasks)) : o \in Tasks /\ (o.who = Head(microtasks).who => Head(microtasks).does = "body")
  BY <1>1, TailIs
<1>3. OfJob(Head(microtasks))
  BY <1>1, <1>2 DEF QueueInv
<1> QED
  BY <1>1, <1>2, <1>3, OwnersAre DEF OfJob

LEMMA JobCallsQueue ==
    ASSUME NEW i \in Instances, NEW from, NEW to, NEW status, QueueInv, JobCalls(i, from, to, status)
    PROVE  QueueInv' /\ Queued' = ToSet(Tail(microtasks)) \cup ToSet(Call(i, i, status))
<1>1. /\ Passes(i, from, to, status) /\ Doing(i, "resume") /\ job[i] = from /\ job' = [job EXCEPT ![i] = to]
      /\ Then(Call(i, i, status))
      /\ UNCHANGED <<turn, file, files, listed, position, got, wrote, holds, waiters>>
  BY DEF JobCalls, JobStep
<1>2. /\ from \in Busy /\ to \in Busy \ {"slot", "failed"} /\ status \in States \cup {"none"}
      /\ status \in JobWrites(to) /\ (from \in Working <=> to \in Working) /\ (from \in Watching <=> to \in Watching)
  BY <1>1, PassesIs
<1>3. /\ microtasks # <<>> /\ Head(microtasks) \in Queued /\ Head(microtasks).who = i
      /\ job[i] \in Busy /\ (job[i] \in Working => i \in holds) /\ i \in Owners /\ i # Loop
      /\ \A o \in ToSet(Tail(microtasks)) : o.who # i /\ o \in Queued /\ o \in Tasks
      /\ \A t \in Queued : t.who # i => t \in ToSet(Tail(microtasks))
  BY <1>1, JobsTurn
<1>0. RegistryTypes
  BY DEF QueueInv
<1> PICK ts : ts = Call(i, i, status)
  OBVIOUS
<1> DEFINE b == [who |-> i, does |-> "body", of |-> i, seen |-> file, status |-> status]
           a == [who |-> i, does |-> "adopt"]
<1>4. ts \in Seq(Tasks) /\ ToSet(ts) = {b, a} /\ PairsIn(ts, Apart)
  BY <1>0, <1>2, <1>3, CallIs
<1>5. b.does = "body" /\ b.who = i /\ b.of = i /\ b.status = status /\ a.does = "adopt" /\ a.who = i
  OBVIOUS
<1> HIDE DEF a, b
<1>6. Followed(ToSet(ts))
  BY <1>4, <1>5 DEF Followed
<1>7. \A o \in ToSet(Tail(microtasks)), t \in ToSet(ts) : o.who # t.who
  BY <1>3, <1>4, <1>5
<1>8. /\ microtasks' \in Seq(Tasks) /\ PairsIn(microtasks', Apart) /\ Followed(Queued')
      /\ Queued' = ToSet(Tail(microtasks)) \cup ToSet(ts)
  BY <1>1, <1>3, <1>4, <1>6, <1>7, QueueGrows
<1>9. /\ job' \in [Instances -> Busy \cup {"none", "terraform"}] /\ job'[i] = to
      /\ \A j \in Instances : j # i => job'[j] = job[j]
  BY <1>0, <1>1, <1>2 DEF RegistryTypes
<1>10. RegistryTypes'
  BY <1>0, <1>1, <1>8, <1>9 DEF RegistryTypes
<1>11. ASSUME NEW t \in Queued' PROVE (t.who \in Instances => OfJob(t)') /\ (t.who = Loop => OfLoop(t)')
  <2>1. CASE t \in ToSet(Tail(microtasks))
    <3>1. t \in Queued /\ t.who # i
      BY <1>3, <2>1
    <3>2. (t.who \in Instances => OfJob(t)) /\ (t.who = Loop => OfLoop(t))
      BY <3>1 DEF QueueInv
    <3> QED
      BY <1>1, <1>9, <3>1, <3>2 DEF OfJob, OfLoop
  <2>2. CASE t = b \/ t = a
    BY <1>1, <1>2, <1>3, <1>5, <1>9, <2>2 DEF OfJob
  <2> QED
    BY <1>4, <1>8, <2>1, <2>2
<1>12. ASSUME NEW j \in Instances, job'[j] \in Working \ {"slot"} PROVE \E t \in Queued' : t.who = j
  <2>1. CASE j = i
    BY <1>4, <1>5, <1>8, <2>1
  <2>2. CASE j # i
    <3>1. PICK t \in Queued : t.who = j
      BY <1>9, <1>12, <2>2 DEF QueueInv
    <3> QED
      BY <1>3, <1>8, <2>2, <3>1
  <2> QED
    BY <2>1, <2>2
<1>13. \A j \in Instances : /\ job'[j] # "none" => j <= position /\ listed[j] = ListedFor(job'[j])
                            /\ job'[j] \in Watching => turn = "recovery"
                            /\ job'[j] \in {"terraform", "failed"} => j \in files
  BY <1>1, <1>2, <1>3, <1>9 DEF QueueInv, Working, Watching, Busy, ListedFor
<1>14. /\ \A j \in holds : job'[j] \in Working \cup {"terraform"}
       /\ \A j \in ToSet(waiters) : job'[j] = "slot" /\ j \notin holds
  <2>1. \A j \in ToSet(waiters) : j \in Instances
    BY <1>0, OfItsElements DEF RegistryTypes, ToSet
  <2>2. holds \subseteq Instances
    BY <1>0 DEF RegistryTypes
  <2> QED
    BY <1>1, <1>2, <1>3, <1>9, <2>1, <2>2 DEF QueueInv, Working, Watching, Busy
<1>15. IsInjective(waiters)
  BY DEF QueueInv
<1>16. \A j \in Instances : job'[j] = "terraform" => j \in holds
  BY <1>2, <1>3, <1>9 DEF QueueInv, Working, Watching, Busy
<1> QED
  BY <1>1, <1>8, <1>10, <1>11, <1>12, <1>13, <1>14, <1>15, <1>16 DEF QueueInv, ListedFor

\* Its terraform is started and the turn goes on without it.
JobRuns(i) == i \in files /\ JobStep(i, "marked", "terraform", <<>>) /\ UNCHANGED <<holds, waiters>>

\* It leaves, and nobody waits.
JobLeaves(i) == waiters = <<>> /\ JobStep(i, "concluded", "none", <<>>) /\ holds' = holds \ {i} /\ UNCHANGED waiters

LEMMA NoTasks == <<>> \in Seq(Tasks) /\ ToSet(<<>>) = {} /\ PairsIn(<<>>, Apart) /\ Followed({})
<1>1. ToSet(<<>>) = {}
  BY FewElements
<1>2. PairsIn(<<>>, Apart)
  BY PairsFew
<1> QED
  BY <1>1, <1>2 DEF Followed

LEMMA JobRunsQueue ==
    ASSUME NEW i \in Instances, NEW to, QueueInv, (to = "terraform" /\ i \in files /\ job[i] \in Working) \/ to = "none",
           JobStep(i, job[i], to, <<>>), to = "terraform" => holds' = holds, to = "none" => holds' = holds \ {i},
           job[i] # "slot", UNCHANGED waiters
    PROVE  QueueInv' /\ Queued' = ToSet(Tail(microtasks))
<1>1. /\ Doing(i, "resume") /\ job' = [job EXCEPT ![i] = to] /\ Then(<<>>)
      /\ UNCHANGED <<turn, file, files, listed, position, got, wrote, waiters>>
  BY DEF JobStep
<1>3. /\ microtasks # <<>> /\ Head(microtasks) \in Queued /\ Head(microtasks).who = i
      /\ job[i] \in Busy /\ (job[i] \in Working => i \in holds) /\ i \in Owners /\ i # Loop
      /\ \A o \in ToSet(Tail(microtasks)) : o.who # i /\ o \in Queued /\ o \in Tasks
      /\ \A t \in Queued : t.who # i => t \in ToSet(Tail(microtasks))
  BY <1>1, JobsTurn
<1>0. RegistryTypes
  BY DEF QueueInv
<1>8. /\ microtasks' \in Seq(Tasks) /\ PairsIn(microtasks', Apart) /\ Followed(Queued')
      /\ Queued' = ToSet(Tail(microtasks))
  <2>1. PICK ts : ts = <<>>
    OBVIOUS
  <2>2. ts \in Seq(Tasks) /\ ToSet(ts) = {} /\ PairsIn(ts, Apart) /\ Followed(ToSet(ts)) /\ Then(ts)
    BY <1>1, <2>1, NoTasks
  <2> QED
    BY <1>3, <2>2, QueueGrows
<1>9. /\ job' \in [Instances -> Busy \cup {"none", "terraform"}] /\ job'[i] = to
      /\ \A j \in Instances : j # i => job'[j] = job[j]
  BY <1>0, <1>1 DEF RegistryTypes
<1>2. holds' \subseteq Instances /\ \A j \in Instances : j # i => (j \in holds' <=> j \in holds)
  BY <1>0 DEF RegistryTypes
<1>10. RegistryTypes'
  BY <1>0, <1>1, <1>2, <1>8, <1>9 DEF RegistryTypes
<1>11. ASSUME NEW t \in Queued' PROVE (t.who \in Instances => OfJob(t)') /\ (t.who = Loop => OfLoop(t)')
  <2>1. t \in Queued /\ t.who # i
    BY <1>3, <1>8
  <2>2. (t.who \in Instances => OfJob(t)) /\ (t.who = Loop => OfLoop(t))
    BY <2>1 DEF QueueInv
  <2> QED
    BY <1>1, <1>2, <1>9, <2>1, <2>2 DEF OfJob, OfLoop
<1>12. ASSUME NEW j \in Instances, job'[j] \in Working \ {"slot"} PROVE \E t \in Queued' : t.who = j
  <2>1. j # i
    BY <1>9, <1>12 DEF Working
  <2>2. PICK t \in Queued : t.who = j
    BY <1>9, <1>12, <2>1 DEF QueueInv
  <2> QED
    BY <1>3, <1>8, <2>1, <2>2
<1>13. \A j \in Instances : /\ job'[j] # "none" => j <= position /\ listed[j] = ListedFor(job'[j])
                            /\ job'[j] \in Watching => turn = "recovery"
                            /\ job'[j] \in {"terraform", "failed"} => j \in files
  BY <1>3, <1>9 DEF QueueInv, Working, Watching, Busy, ListedFor
<1>14. /\ \A j \in holds' : job'[j] \in Working \cup {"terraform"}
       /\ \A j \in ToSet(waiters) : job'[j] = "slot" /\ j \notin holds'
  <2>1. \A j \in ToSet(waiters) : j \in Instances
    BY <1>0, OfItsElements DEF RegistryTypes, ToSet
  <2>2. \A j \in ToSet(waiters) : j # i
    BY <1>3 DEF QueueInv
  <2>3. \A j \in holds' : j \in Instances /\ (j # i => job[j] \in Working \cup {"terraform"})
    BY <1>0, <1>2 DEF QueueInv, RegistryTypes
  <2>4. i \in holds' => to = "terraform"
    BY DEF JobStep
  <2> QED
    BY <1>2, <1>9, <2>1, <2>2, <2>3, <2>4 DEF QueueInv
<1>15. IsInjective(waiters)
  BY DEF QueueInv
<1>16. \A j \in Instances : job'[j] = "terraform" => j \in holds'
  BY <1>2, <1>3, <1>9 DEF QueueInv
<1> QED
  BY <1>1, <1>8, <1>10, <1>11, <1>12, <1>13, <1>14, <1>15, <1>16 DEF QueueInv, ListedFor

\* A watcher goes on without a call.
WatchGoes(i, to, t) ==
    /\ job[i] \in Watching /\ to \in {"collect", "probe"}
    /\ t \in Tasks /\ t.who = i /\ t.does \in {"resume", "adopt"}
    /\ JobStep(i, job[i], to, <<t>>) /\ UNCHANGED <<holds, waiters>>

LEMMA WatchGoesQueue ==
    ASSUME NEW i \in Instances, NEW to, NEW t, QueueInv, WatchGoes(i, to, t)
    PROVE  QueueInv' /\ Queued' = ToSet(Tail(microtasks)) \cup {t} /\ microtasks' = Tail(microtasks) \o <<t>>
<1>1. /\ Doing(i, "resume") /\ job[i] \in Watching /\ job' = [job EXCEPT ![i] = to] /\ Then(<<t>>)
      /\ to \in {"collect", "probe"} /\ t \in Tasks /\ t.who = i /\ t.does \in {"resume", "adopt"}
      /\ UNCHANGED <<turn, file, files, listed, position, got, wrote, holds, waiters>>
  BY DEF WatchGoes, JobStep
<1>2. to \in Watching /\ to \in Busy /\ to \notin Working /\ job[i] \notin Working /\ to # "slot"
  BY <1>1 DEF Watching, Busy, Working
<1>3. /\ microtasks # <<>> /\ Head(microtasks) \in Queued /\ Head(microtasks).who = i
      /\ i \in Owners /\ i # Loop
      /\ \A o \in ToSet(Tail(microtasks)) : o.who # i /\ o \in Queued /\ o \in Tasks
      /\ \A o \in Queued : o.who # i => o \in ToSet(Tail(microtasks))
  BY <1>1, JobsTurn
<1>0. RegistryTypes
  BY DEF QueueInv
<1> PICK ts : ts = <<t>>
  OBVIOUS
<1>4. ts \in Seq(Tasks) /\ ToSet(ts) = {t} /\ PairsIn(ts, Apart) /\ Followed(ToSet(ts)) /\ Then(ts)
  <2>1. ToSet(ts) = {t}
    BY FewElements
  <2>2. PairsIn(ts, Apart)
    BY PairsFew
  <2>3. Followed(ToSet(ts))
    BY <1>1, <2>1 DEF Followed
  <2> QED
    BY <1>1, <2>1, <2>2, <2>3
<1>5. /\ microtasks' \in Seq(Tasks) /\ PairsIn(microtasks', Apart) /\ Followed(Queued')
      /\ Queued' = ToSet(Tail(microtasks)) \cup ToSet(ts)
  BY <1>1, <1>3, <1>4, QueueGrows
<1>6. /\ job' \in [Instances -> Busy \cup {"none", "terraform"}] /\ job'[i] = to
      /\ \A j \in Instances : j # i => job'[j] = job[j]
  BY <1>0, <1>1, <1>2 DEF RegistryTypes
<1>7. RegistryTypes'
  BY <1>0, <1>1, <1>5, <1>6 DEF RegistryTypes
<1>8. ASSUME NEW o \in Queued' PROVE (o.who \in Instances => OfJob(o)') /\ (o.who = Loop => OfLoop(o)')
  <2>1. CASE o \in ToSet(Tail(microtasks))
    <3>1. o \in Queued /\ o.who # i
      BY <1>3, <2>1
    <3>2. (o.who \in Instances => OfJob(o)) /\ (o.who = Loop => OfLoop(o))
      BY <3>1 DEF QueueInv
    <3> QED
      BY <1>1, <1>6, <3>1, <3>2 DEF OfJob, OfLoop
  <2>2. CASE o = t
    BY <1>1, <1>2, <1>3, <1>6, <2>2 DEF OfJob
  <2> QED
    BY <1>4, <1>5, <2>1, <2>2
<1>9. ASSUME NEW j \in Instances, job'[j] \in Working \ {"slot"} PROVE \E o \in Queued' : o.who = j
  <2>1. j # i
    BY <1>2, <1>6, <1>9
  <2>2. PICK o \in Queued : o.who = j
    BY <1>6, <1>9, <2>1 DEF QueueInv
  <2> QED
    BY <1>3, <1>5, <2>1, <2>2
<1>10. \A j \in Instances : /\ job'[j] # "none" => j <= position /\ listed[j] = ListedFor(job'[j])
                            /\ job'[j] \in Watching => turn = "recovery"
                            /\ job'[j] \in {"terraform", "failed"} => j \in files
                            /\ job'[j] = "terraform" => j \in holds
  BY <1>1, <1>2, <1>6 DEF QueueInv, ListedFor, Watching
<1>11. /\ \A j \in holds : job'[j] \in Working \cup {"terraform"}
       /\ \A j \in ToSet(waiters) : job'[j] = "slot" /\ j \notin holds
  <2>1. \A j \in ToSet(waiters) : j \in Instances
    BY <1>0, OfItsElements DEF RegistryTypes, ToSet
  <2>2. holds \subseteq Instances
    BY <1>0 DEF RegistryTypes
  <2> QED
    BY <1>1, <1>6, <2>1, <2>2 DEF QueueInv, Working, Watching
<1>12. IsInjective(waiters)
  BY DEF QueueInv
<1>13. QueueInv'
  BY <1>1, <1>5, <1>7, <1>8, <1>9, <1>10, <1>11, <1>12 DEF QueueInv, ListedFor
<1> QED
  BY <1>1, <1>4, <1>5, <1>13 DEF Then

-----------------------------------------------------------------------------
(* Bodies and the queue.                                                   *)

\* A step that starts and ends no job.
Stands(ts) ==
    /\ Then(ts) /\ UNCHANGED <<turn, files, listed, job, holds, waiters>>
    /\ file' \in Files /\ wrote' \in Files /\ got' \in States \cup {"none"}
    /\ position' \in position .. NumInstances + 1
    /\ position' = position \/ \A t \in ToSet(Tail(microtasks)) : t.who # Loop

\* What such a step puts into the queue.
Puts(ts) ==
    /\ ts \in Seq(Tasks) /\ PairsIn(ts, Apart) /\ Followed(ToSet(ts))
    /\ \A o \in ToSet(Tail(microtasks)), t \in ToSet(ts) : o.who # t.who
    /\ \A t \in ToSet(ts) : (t.who \in Instances => OfJob(t)) /\ (t.who = Loop => OfLoop(t)')
    /\ Head(microtasks).who \in Instances => \E t \in ToSet(Tail(microtasks)) \cup ToSet(ts) : t.who = Head(microtasks).who

LEMMA QueueStands ==
    ASSUME NEW ts, QueueInv, microtasks # <<>>, Stands(ts), Puts(ts)
    PROVE  QueueInv' /\ Queued' = ToSet(Tail(microtasks)) \cup ToSet(ts)
<1>0. RegistryTypes
  BY DEF QueueInv
<1>1. /\ Then(ts) /\ UNCHANGED <<turn, files, listed, job, holds, waiters>>
      /\ file' \in Files /\ wrote' \in Files /\ got' \in States \cup {"none"}
      /\ position' \in position .. NumInstances + 1
      /\ position' = position \/ \A t \in ToSet(Tail(microtasks)) : t.who # Loop
  BY DEF Stands
<1>2. position \in Int /\ position' \in Int /\ position' >= position /\ position' \in 0 .. NumInstances + 1
  BY <1>0, <1>1, OwnersAre DEF RegistryTypes
<1>3. /\ microtasks' \in Seq(Tasks) /\ PairsIn(microtasks', Apart) /\ Followed(Queued')
      /\ Queued' = ToSet(Tail(microtasks)) \cup ToSet(ts)
  BY <1>1, QueueGrows DEF Puts
<1>4. RegistryTypes'
  BY <1>0, <1>1, <1>2, <1>3 DEF RegistryTypes
<1>5. Queued = {Head(microtasks)} \cup ToSet(Tail(microtasks))
  BY TailIs
<1>6. ASSUME NEW t \in Queued' PROVE (t.who \in Instances => OfJob(t)') /\ (t.who = Loop => OfLoop(t)')
  <2>1. OfJob(t)' <=> OfJob(t)
    BY <1>1 DEF OfJob
  <2>2. CASE t \in ToSet(ts)
    BY <2>1, <2>2 DEF Puts
  <2>3. CASE t \in ToSet(Tail(microtasks))
    <3>1. (t.who \in Instances => OfJob(t)) /\ (t.who = Loop => OfLoop(t) /\ position' = position)
      BY <1>1, <1>5, <2>3 DEF QueueInv
    <3> QED
      BY <1>1, <2>1, <3>1 DEF OfLoop
  <2> QED
    BY <1>3, <2>2, <2>3
<1>7. ASSUME NEW i \in Instances, job[i] \in Working \ {"slot"} PROVE \E t \in Queued' : t.who = i
  <2>1. PICK t \in Queued : t.who = i
    BY <1>7 DEF QueueInv
  <2>2. CASE t = Head(microtasks)
    BY <1>3, <2>1, <2>2 DEF Puts
  <2> QED
    BY <1>3, <1>5, <2>1, <2>2
<1>8. \A i \in Instances : job[i] # "none" => i <= position'
  BY <1>2, OwnersAre DEF QueueInv
<1> QED
  BY <1>1, <1>3, <1>4, <1>6, <1>7, <1>8 DEF QueueInv, ListedFor

\* The body runs; what follows it is in the queue.
LEMMA BodyQueue ==
    ASSUME NEW who \in Owners, QueueInv, Body(who)
    PROVE  /\ QueueInv' /\ Queued' = ToSet(Tail(microtasks)) /\ microtasks' = Tail(microtasks)
           /\ microtasks # <<>> /\ Head(microtasks) \in Queued /\ Head(microtasks) \in Tasks
           /\ Head(microtasks).who = who /\ Head(microtasks).does = "body"
           /\ \A t \in Queued' : t \in Queued
<1>0. RegistryTypes
  BY DEF QueueInv
<1>1. /\ microtasks # <<>> /\ Head(microtasks).who = who /\ Head(microtasks).does = "body" /\ Then(<<>>)
      /\ UNCHANGED <<turn, files, listed, position, job, holds, waiters>>
  BY DEF Body, Doing
<1>2. /\ Head(microtasks) \in Tasks /\ Queued = {Head(microtasks)} \cup ToSet(Tail(microtasks))
      /\ Tail(microtasks) \in Seq(Tasks)
      /\ \E o \in ToSet(Tail(microtasks)) : o.who = who /\ o.does = "adopt"
  BY <1>1, TailIs
<1> PICK h \in Tasks : h = Head(microtasks)
  BY <1>2
<1>3. h.of \in Instances /\ h.seen \in Files /\ h.status \in States \cup {"none"}
  BY <1>1, TaskFields
<1>4. file' \in Files /\ wrote' \in Files
  <2>1. CASE h.status = "none"
    BY <1>0, <2>1 DEF Body, RegistryTypes
  <2>2. CASE h.status # "none"
    <3>1. h.status \in States
      BY <1>3, <2>2
    <3>2. file' = [h.seen EXCEPT ![h.of] = h.status] /\ wrote' = [wrote EXCEPT ![h.of] = h.status]
      BY <2>2 DEF Body
    <3> QED
      BY <1>0, <1>3, <3>1, <3>2 DEF Files, RegistryTypes
  <2> QED
    BY <2>1, <2>2
<1>5. got' \in States \cup {"none"}
  <2>1. h.seen[h.of] \in States
    BY <1>3 DEF Files
  <2>2. got' = IF who = Loop THEN h.seen[h.of] ELSE got
    BY DEF Body
  <2> QED
    BY <1>0, <2>1, <2>2 DEF RegistryTypes
<1>6. PICK ts : ts = <<>>
  OBVIOUS
<1>7. ts \in Seq(Tasks) /\ ToSet(ts) = {} /\ PairsIn(ts, Apart) /\ Followed(ToSet(ts)) /\ Then(ts)
  BY <1>1, <1>6, NoTasks
<1>8. Stands(ts)
  <2>1. position' \in position .. NumInstances + 1
    BY <1>0, <1>1, OwnersAre DEF RegistryTypes
  <2> QED
    BY <1>1, <1>4, <1>5, <1>7, <2>1 DEF Stands
<1>9. Puts(ts)
  BY <1>2, <1>7, <1>1 DEF Puts
<1>10. QueueInv' /\ Queued' = ToSet(Tail(microtasks)) \cup ToSet(ts)
  BY <1>1, <1>8, <1>9, QueueStands
<1>11. microtasks' = Tail(microtasks)
  BY <1>1, <1>2, ConcatEmptySeq DEF Then
<1> QED
  BY <1>1, <1>2, <1>7, <1>10, <1>11

-----------------------------------------------------------------------------
(* Calls that settle, and the loop.                                        *)

\* What a call is settled in comes at the end of the queue.
LEMMA SettleQueue ==
    ASSUME NEW who \in Owners, QueueInv, Settle(who)
    PROVE  \E t \in Tasks :
               /\ QueueInv' /\ Queued' = ToSet(Tail(microtasks)) \cup {t} /\ microtasks' = Tail(microtasks) \o <<t>>
               /\ microtasks # <<>> /\ Head(microtasks) \in Queued /\ Head(microtasks) \in Tasks /\ Head(microtasks).who = who /\ t.who = who
               /\ \/ Head(microtasks).does = "adopt" /\ t.does = "settle"
                  \/ Head(microtasks).does = "settle" /\ t.does = "resume"
               /\ \A o \in ToSet(Tail(microtasks)) : o \in Queued /\ o.who # who
               /\ UNCHANGED <<turn, file, files, listed, position, got, job, holds, waiters, wrote>>
<1>0. RegistryTypes
  BY DEF QueueInv
<1>1. PICK does \in {"settle", "resume"} :
          /\ microtasks # <<>> /\ Head(microtasks).who = who
          /\ Head(microtasks).does = (IF does = "settle" THEN "adopt" ELSE "settle")
          /\ Then(<<[who |-> who, does |-> does]>>)
          /\ UNCHANGED <<turn, file, files, listed, position, got, job, holds, waiters, wrote>>
  <2>1. CASE Doing(who, "adopt") /\ Then(<<[who |-> who, does |-> "settle"]>>)
    BY <2>1 DEF Settle, Doing
  <2>2. CASE Doing(who, "settle") /\ Then(<<Resume(who)>>)
    BY <2>2 DEF Settle, Doing, Resume
  <2> QED
    BY <2>1, <2>2 DEF Settle
<1>2. /\ Head(microtasks) \in Tasks /\ Queued = {Head(microtasks)} \cup ToSet(Tail(microtasks))
      /\ \A o \in ToSet(Tail(microtasks)) : o.who # who
  BY <1>1, TailIs
<1>3. PICK t \in Tasks : t = [who |-> who, does |-> does]
  BY SimpleTask
<1>4. t.who = who /\ t.does = does
  BY <1>3
<1>5. PICK ts : ts = <<t>>
  OBVIOUS
<1>6. ts \in Seq(Tasks) /\ ToSet(ts) = {t} /\ PairsIn(ts, Apart) /\ Followed(ToSet(ts)) /\ Then(ts)
  <2>1. ToSet(ts) = {t}
    BY <1>5, FewElements
  <2>2. PairsIn(ts, Apart)
    BY <1>5, PairsFew
  <2>3. Followed(ToSet(ts))
    BY <1>4, <2>1 DEF Followed
  <2>4. ts \in Seq(Tasks)
    BY <1>5
  <2> QED
    BY <1>1, <1>3, <1>5, <2>1, <2>2, <2>3, <2>4
<1>7. Stands(ts)
  <2>1. position' \in position .. NumInstances + 1
    BY <1>0, <1>1, OwnersAre DEF RegistryTypes
  <2> QED
    BY <1>0, <1>1, <1>6, <2>1 DEF Stands, RegistryTypes
<1>8. who \in Instances => OfJob(t)
  <2>1. who \in Instances => OfJob(Head(microtasks))
    BY <1>1, <1>2 DEF QueueInv
  <2> QED
    BY <1>1, <1>4, <2>1 DEF OfJob
<1>9. OfLoop(t)'
  BY <1>4 DEF OfLoop
<1>10. Puts(ts)
  BY <1>1, <1>2, <1>4, <1>6, <1>8, <1>9 DEF Puts
<1>11. QueueInv' /\ Queued' = ToSet(Tail(microtasks)) \cup ToSet(ts)
  BY <1>1, <1>7, <1>10, QueueStands
<1>12. microtasks' = Tail(microtasks) \o <<t>>
  BY <1>5, <1>6 DEF Then
<1>13. \/ Head(microtasks).does = "adopt" /\ t.does = "settle"
       \/ Head(microtasks).does = "settle" /\ t.does = "resume"
  BY <1>1, <1>4
<1> QED
  BY <1>1, <1>2, <1>4, <1>6, <1>11, <1>12, <1>13

\* What the loop finds at the head of the queue is its own.
LEMMA LoopsTurn ==
    ASSUME QueueInv, Doing(Loop, "resume")
    PROVE  /\ microtasks # <<>> /\ Head(microtasks) \in Queued /\ Head(microtasks) \in Tasks
           /\ Head(microtasks).who = Loop /\ Head(microtasks).does = "resume"
           /\ \A o \in ToSet(Tail(microtasks)) : o.who # Loop /\ o.who \in Instances /\ o \in Queued /\ o \in Tasks
           /\ Queued = {Head(microtasks)} \cup ToSet(Tail(microtasks))
<1>1. microtasks # <<>> /\ Head(microtasks).who = Loop /\ Head(microtasks).does = "resume"
  BY DEF Doing
<1>2. /\ Queued = {Head(microtasks)} \cup ToSet(Tail(microtasks)) /\ Head(microtasks) \in Tasks
      /\ \A o \in ToSet(Tail(microtasks)) : o \in Tasks /\ o.who # Loop
  BY <1>1, TailIs
<1>3. \A o \in ToSet(Tail(microtasks)) : o.who \in Instances
  BY <1>2, TaskFields, OwnersAre
<1> QED
  BY <1>1, <1>2, <1>3

LEMMA BulkReadsQueue ==
    ASSUME QueueInv, BulkReads
    PROVE  \E b, a \in Tasks :
               /\ QueueInv' /\ Queued' = ToSet(Tail(microtasks)) \cup {b, a} /\ microtasks' = Tail(microtasks) \o <<b, a>>
               /\ b.does = "body" /\ b.seen = file /\ b.status = "none" /\ a.does = "adopt" /\ b.who = Loop /\ a.who = Loop
               /\ position' \in Instances /\ position' = position + 1
<1>0. RegistryTypes
  BY DEF QueueInv
<1>1. /\ turn = "bulk" /\ Doing(Loop, "resume") /\ position < NumInstances /\ position' = position + 1
      /\ Then(Call(Loop, position', "none"))
      /\ UNCHANGED <<turn, file, files, listed, got, job, holds, waiters, wrote>>
  BY DEF BulkReads, GetInstance
<1>2. position' \in Instances /\ position' \in position .. NumInstances + 1
  BY <1>0, <1>1, OwnersAre DEF RegistryTypes, Instances
<1>3. /\ microtasks # <<>> /\ Head(microtasks).who = Loop
      /\ \A o \in ToSet(Tail(microtasks)) : o.who # Loop
  BY <1>1, LoopsTurn
<1> PICK p \in Instances : p = position'
  BY <1>2
<1> PICK ts : ts = Call(Loop, p, "none")
  OBVIOUS
<1>4. PICK b, a : /\ b = [who |-> Loop, does |-> "body", of |-> p, seen |-> file, status |-> "none"]
                  /\ a = [who |-> Loop, does |-> "adopt"]
  OBVIOUS
<1>5. ts \in Seq(Tasks) /\ ToSet(ts) = {b, a} /\ PairsIn(ts, Apart) /\ ts = <<b, a>>
  BY <1>0, <1>4, OwnersAre, CallIs DEF Call
<1>6. /\ b.does = "body" /\ b.seen = file /\ b.status = "none" /\ b.of = p /\ a.does = "adopt" /\ b.who = Loop /\ a.who = Loop
  BY <1>4
<1>7. b \in Tasks /\ a \in Tasks
  <2>1. \A t \in ToSet(ts) : t \in Tasks
    BY <1>5, OfItsElements DEF ToSet
  <2> QED
    BY <1>5, <2>1
<1>8. Followed(ToSet(ts))
  BY <1>5, <1>6 DEF Followed
<1>9. Then(ts)
  BY <1>1
<1>10. Stands(ts)
  BY <1>0, <1>1, <1>2, <1>3, <1>9 DEF Stands, RegistryTypes
<1>11. OfLoop(b)' /\ OfLoop(a)'
  BY <1>1, <1>6 DEF OfLoop
<1>12. Puts(ts)
  BY <1>3, <1>5, <1>6, <1>8, <1>11, OwnersAre DEF Puts
<1>13. QueueInv' /\ Queued' = ToSet(Tail(microtasks)) \cup ToSet(ts)
  BY <1>3, <1>10, <1>12, QueueStands
<1> QED
  BY <1>1, <1>2, <1>5, <1>6, <1>7, <1>9, <1>13 DEF Then

LEMMA LoopEndsQueue ==
    ASSUME QueueInv, BulkEnds \/ RecoverEnds
    PROVE  QueueInv' /\ Queued' = ToSet(Tail(microtasks)) /\ microtasks' = Tail(microtasks)
<1>0. RegistryTypes
  BY DEF QueueInv
<1>1. /\ Doing(Loop, "resume") /\ Then(<<>>)
      /\ UNCHANGED <<turn, file, files, listed, position, got, job, holds, waiters, wrote>>
  BY DEF BulkEnds, RecoverEnds
<1>2. microtasks # <<>> /\ Head(microtasks).who = Loop /\ Loop \notin Instances
  BY <1>1, LoopsTurn, OwnersAre
<1>3. PICK ts : ts = <<>>
  OBVIOUS
<1>4. ts \in Seq(Tasks) /\ ToSet(ts) = {} /\ PairsIn(ts, Apart) /\ Followed(ToSet(ts)) /\ Then(ts)
  BY <1>1, <1>3, NoTasks
<1>5. Stands(ts)
  <2>1. position' \in position .. NumInstances + 1
    BY <1>0, <1>1, OwnersAre DEF RegistryTypes
  <2> QED
    BY <1>0, <1>1, <1>4, <2>1 DEF Stands, RegistryTypes
<1>6. Puts(ts)
  BY <1>2, <1>4 DEF Puts
<1>7. QueueInv' /\ Queued' = ToSet(Tail(microtasks)) \cup ToSet(ts)
  BY <1>2, <1>5, <1>6, QueueStands
<1>8. microtasks' = Tail(microtasks)
  <2>1. Tail(microtasks) \in Seq(Tasks)
    BY <1>2, TailIs
  <2> QED
    BY <1>1, <2>1, ConcatEmptySeq DEF Then
<1> QED
  BY <1>4, <1>7, <1>8

-----------------------------------------------------------------------------
(* Slots that are handed over; terraform.                                  *)

LEMMA TailInjective ==
    ASSUME NEW q \in Seq(Instances), q # <<>>, IsInjective(q)
    PROVE  Tail(q) \in Seq(Instances) /\ IsInjective(Tail(q)) /\ Head(q) \notin ToSet(Tail(q)) /\ ToSet(Tail(q)) \subseteq ToSet(q)
<1>1. /\ Len(q) \in Nat /\ Len(q) >= 1 /\ DOMAIN q = 1 .. Len(q) /\ 1 \in DOMAIN q
      /\ Head(q) = q[1] /\ ToSet(Tail(q)) = {q[k] : k \in 2 .. Len(q)} /\ ToSet(q) = {Head(q)} \cup ToSet(Tail(q))
  BY HeadIs
<1>2. Tail(q) \in Seq(Instances) /\ Len(Tail(q)) = Len(q) - 1 /\ \A i \in 1 .. Len(Tail(q)) : Tail(q)[i] = q[i + 1]
  BY HeadTailProperties
<1>3. PICK n \in Nat : n = Len(q)
  BY <1>1
<1>4. DOMAIN Tail(q) = 1 .. n - 1
  BY <1>2, <1>3, LenProperties
<1>5. \A i, j \in 1 .. n : q[i] = q[j] => i = j
  BY <1>1, <1>3 DEF IsInjective
<1>6. ASSUME NEW i \in 1 .. n - 1, NEW j \in 1 .. n - 1, Tail(q)[i] = Tail(q)[j] PROVE i = j
  <2>1. i + 1 \in 1 .. n /\ j + 1 \in 1 .. n /\ q[i + 1] = q[j + 1]
    BY <1>2, <1>3, <1>6
  <2>2. i + 1 = j + 1
    BY <1>5, <2>1
  <2> QED
    BY <2>2
<1>7. Head(q) \notin ToSet(Tail(q))
  <2> SUFFICES ASSUME NEW k \in 2 .. n, q[k] = q[1] PROVE FALSE
    BY <1>1, <1>3
  <2>1. k \in 1 .. n /\ 1 \in 1 .. n /\ k # 1
    BY <1>1, <1>3
  <2> QED
    BY <1>5, <2>1
<1> QED
  BY <1>1, <1>2, <1>4, <1>6, <1>7 DEF IsInjective

\* A job that releases its slot hands it to the first who waits.
JobHands(i) ==
    /\ waiters # <<>> /\ JobStep(i, "concluded", "none", <<Resume(Head(waiters))>>)
    /\ holds' = (holds \ {i}) \cup {Head(waiters)} /\ waiters' = Tail(waiters)

LEMMA JobHandsQueue ==
    ASSUME NEW i \in Instances, QueueInv, JobHands(i)
    PROVE  \E t \in Tasks :
               /\ QueueInv' /\ Queued' = ToSet(Tail(microtasks)) \cup {t} /\ microtasks' = Tail(microtasks) \o <<t>>
               /\ t.who \in Instances /\ t.who # i /\ t.does = "resume" /\ job[t.who] = "slot" /\ t.who \in ToSet(waiters)
<1>1. /\ Doing(i, "resume") /\ job[i] = "concluded" /\ job' = [job EXCEPT ![i] = "none"] /\ Then(<<Resume(Head(waiters))>>)
      /\ waiters # <<>> /\ holds' = (holds \ {i}) \cup {Head(waiters)} /\ waiters' = Tail(waiters)
      /\ UNCHANGED <<turn, file, files, listed, position, got, wrote>>
  BY DEF JobHands, JobStep
<1>3. /\ microtasks # <<>> /\ Head(microtasks) \in Queued /\ Head(microtasks).who = i
      /\ job[i] \in Busy /\ (job[i] \in Working => i \in holds) /\ i \in Owners /\ i # Loop
      /\ \A o \in ToSet(Tail(microtasks)) : o.who # i /\ o \in Queued /\ o \in Tasks
      /\ \A t \in Queued : t.who # i => t \in ToSet(Tail(microtasks))
  BY <1>1, JobsTurn
<1>0. RegistryTypes
  BY DEF QueueInv
<1> PICK w : w = Head(waiters)
  OBVIOUS
<1>4. /\ Tail(waiters) \in Seq(Instances) /\ IsInjective(Tail(waiters)) /\ w \notin ToSet(Tail(waiters))
      /\ ToSet(Tail(waiters)) \subseteq ToSet(waiters) /\ w \in ToSet(waiters) /\ w \in Instances
  <2>1. waiters \in Seq(Instances) /\ IsInjective(waiters)
    BY <1>0 DEF QueueInv, RegistryTypes
  <2> QED
    BY <1>1, <2>1, TailInjective, HeadIs
<1>5. job[w] = "slot" /\ w \notin holds /\ w # i /\ w \in Owners /\ w # Loop
  BY <1>1, <1>3, <1>4, OwnersAre DEF QueueInv
<1> PICK t \in Tasks : t = Resume(w)
  BY <1>5, SimpleTask DEF Resume
<1>6. t.who = w /\ t.does = "resume"
  BY DEF Resume
<1>7. PICK ts : ts = <<t>>
  OBVIOUS
<1>8. ts \in Seq(Tasks) /\ ToSet(ts) = {t} /\ PairsIn(ts, Apart) /\ Followed(ToSet(ts)) /\ Then(ts)
  <2>1. ToSet(ts) = {t}
    BY <1>7, FewElements
  <2>2. PairsIn(ts, Apart)
    BY <1>7, PairsFew
  <2>3. Followed(ToSet(ts))
    BY <1>6, <2>1 DEF Followed
  <2>4. ts \in Seq(Tasks)
    BY <1>7
  <2> QED
    BY <1>1, <1>7, <2>1, <2>2, <2>3, <2>4
<1>9. \A o \in ToSet(Tail(microtasks)) : o.who # w
  <2>1. \A o \in ToSet(Tail(microtasks)) : o.who = w => OfJob(o)
    BY <1>3, <1>4 DEF QueueInv
  <2> QED
    BY <1>5, <2>1 DEF OfJob, Working
<1>10. /\ microtasks' \in Seq(Tasks) /\ PairsIn(microtasks', Apart) /\ Followed(Queued')
       /\ Queued' = ToSet(Tail(microtasks)) \cup ToSet(ts)
  BY <1>3, <1>6, <1>8, <1>9, QueueGrows
<1>11. /\ job' \in [Instances -> Busy \cup {"none", "terraform"}] /\ job'[i] = "none"
       /\ \A j \in Instances : j # i => job'[j] = job[j]
  BY <1>0, <1>1 DEF RegistryTypes
<1>12. holds' \subseteq Instances /\ \A j \in Instances : j \in holds' <=> (j = w \/ (j \in holds /\ j # i))
  BY <1>0, <1>1, <1>4, <1>5 DEF RegistryTypes
<1>13. RegistryTypes'
  BY <1>0, <1>1, <1>4, <1>10, <1>11, <1>12 DEF RegistryTypes
<1>14. ASSUME NEW o \in Queued' PROVE (o.who \in Instances => OfJob(o)') /\ (o.who = Loop => OfLoop(o)')
  <2>1. CASE o \in ToSet(Tail(microtasks))
    <3>1. o \in Queued /\ o.who # i
      BY <1>3, <2>1
    <3>2. (o.who \in Instances => OfJob(o)) /\ (o.who = Loop => OfLoop(o))
      BY <3>1 DEF QueueInv
    <3> QED
      BY <1>1, <1>11, <1>12, <3>1, <3>2 DEF OfJob, OfLoop
  <2>2. CASE o = t
    BY <1>4, <1>5, <1>6, <1>11, <1>12, <2>2 DEF OfJob, Working
  <2> QED
    BY <1>8, <1>10, <2>1, <2>2
<1>15. ASSUME NEW j \in Instances, job'[j] \in Working \ {"slot"} PROVE \E o \in Queued' : o.who = j
  <2>1. j # i
    BY <1>11, <1>15 DEF Working
  <2>2. PICK o \in Queued : o.who = j
    BY <1>11, <1>15, <2>1 DEF QueueInv
  <2> QED
    BY <1>3, <1>10, <2>1, <2>2
<1>16. \A j \in Instances : /\ job'[j] # "none" => j <= position /\ listed[j] = ListedFor(job'[j])
                            /\ job'[j] \in Watching => turn = "recovery"
                            /\ job'[j] \in {"terraform", "failed"} => j \in files
  BY <1>11 DEF QueueInv, Working, Watching, Busy, ListedFor
<1>17. \A j \in ToSet(waiters') : job'[j] = "slot" /\ j \notin holds'
  <2>1. \A j \in ToSet(waiters) : j \in Instances
    BY <1>0, OfItsElements DEF RegistryTypes, ToSet
  <2> QED
    BY <1>1, <1>3, <1>4, <1>11, <1>12, <2>1 DEF QueueInv
<1>18. \A j \in holds' : job'[j] \in Working \cup {"terraform"}
  BY <1>5, <1>11, <1>12 DEF QueueInv, Working
<1>19. microtasks' = Tail(microtasks) \o <<t>>
  BY <1>7, <1>8 DEF Then
<1>20. \A j \in Instances : job'[j] = "terraform" => j \in holds'
  BY <1>11, <1>12 DEF QueueInv
<1>21. QueueInv'
  BY <1>1, <1>4, <1>10, <1>13, <1>14, <1>15, <1>16, <1>17, <1>18, <1>20 DEF QueueInv, ListedFor
<1> QED
  BY <1>4, <1>5, <1>6, <1>8, <1>10, <1>19, <1>21

\* Terraform ends when the queue is empty.
LEMMA TerraformEndsQueue ==
    ASSUME NEW i \in Instances, QueueInv, TerraformEnds(i)
    PROVE  \E b, a \in Tasks :
               /\ QueueInv' /\ Queued' = {b, a} /\ microtasks' = <<b, a>>
               /\ b.does = "body" /\ b.seen = file /\ b.status = "none" /\ a.does = "adopt" /\ b.who = i /\ a.who = i
               /\ i \in files /\ job'[i] \in {"gone", "failed"} /\ \A j \in Instances : j # i => job'[j] = job[j]
<1>0. RegistryTypes
  BY DEF QueueInv
<1>1. PICK end \in {"gone", "failed"} :
          /\ microtasks = <<>> /\ job[i] = "terraform" /\ job' = [job EXCEPT ![i] = end] /\ microtasks' = Call(i, i, "none")
          /\ UNCHANGED <<turn, file, files, listed, position, got, holds, waiters, wrote>>
  BY DEF TerraformEnds, GetInstance
<1>2. i \in files /\ i \in holds /\ i \in Owners /\ i # Loop
  BY <1>1, OwnersAre DEF QueueInv
<1> PICK ts : ts = Call(i, i, "none")
  OBVIOUS
<1>4. PICK b, a : /\ b = [who |-> i, does |-> "body", of |-> i, seen |-> file, status |-> "none"]
                  /\ a = [who |-> i, does |-> "adopt"]
  OBVIOUS
<1>5. ts \in Seq(Tasks) /\ ToSet(ts) = {b, a} /\ PairsIn(ts, Apart) /\ ts = <<b, a>>
  BY <1>0, <1>2, <1>4, CallIs DEF Call
<1>6. /\ b.does = "body" /\ b.seen = file /\ b.status = "none" /\ b.of = i /\ a.does = "adopt" /\ b.who = i /\ a.who = i
  BY <1>4
<1>7. b \in Tasks /\ a \in Tasks
  <2>1. \A t \in ToSet(ts) : t \in Tasks
    BY <1>5, OfItsElements DEF ToSet
  <2> QED
    BY <1>5, <2>1
<1>8. Followed(ToSet(ts)) /\ microtasks' = ts /\ Queued' = ToSet(ts)
  BY <1>1, <1>5, <1>6 DEF Followed, Queued
<1>9. /\ job' \in [Instances -> Busy \cup {"none", "terraform"}] /\ job'[i] = end
      /\ \A j \in Instances : j # i => job'[j] = job[j]
  BY <1>0, <1>1 DEF RegistryTypes, Working, Busy
<1>10. RegistryTypes'
  BY <1>0, <1>1, <1>5, <1>8, <1>9 DEF RegistryTypes
<1>11. ASSUME NEW t \in Queued' PROVE (t.who \in Instances => OfJob(t)') /\ (t.who = Loop => OfLoop(t)')
  <2>1. t = b \/ t = a
    BY <1>5, <1>8
  <2> QED
    BY <1>1, <1>2, <1>6, <1>9, <2>1 DEF OfJob, Working, JobWrites
<1>12. ASSUME NEW j \in Instances, job'[j] \in Working \ {"slot"} PROVE \E t \in Queued' : t.who = j
  <2>1. CASE j = i
    BY <1>5, <1>6, <1>8, <2>1
  <2>2. CASE j # i
    <3>1. PICK t \in Queued : t.who = j
      BY <1>9, <1>12, <2>2 DEF QueueInv
    <3>2. Queued = {}
      BY <1>1, FewElements DEF Queued
    <3> QED
      BY <3>1, <3>2
  <2> QED
    BY <2>1, <2>2
<1>13. \A j \in Instances : /\ job'[j] # "none" => j <= position /\ listed[j] = ListedFor(job'[j])
                            /\ job'[j] \in Watching => turn = "recovery"
                            /\ job'[j] \in {"terraform", "failed"} => j \in files
  BY <1>1, <1>2, <1>9 DEF QueueInv, Working, Watching, Busy, ListedFor
<1>14. /\ \A j \in holds : job'[j] \in Working \cup {"terraform"}
       /\ \A j \in ToSet(waiters) : job'[j] = "slot" /\ j \notin holds
  <2>1. \A j \in ToSet(waiters) : j \in Instances /\ j # i
    BY <1>0, <1>1, OfItsElements DEF RegistryTypes, ToSet, QueueInv
  <2>2. holds \subseteq Instances
    BY <1>0 DEF RegistryTypes
  <2> QED
    BY <1>9, <2>1, <2>2 DEF QueueInv, Working
<1>15. IsInjective(waiters)
  BY DEF QueueInv
<1>16. \A j \in Instances : job'[j] = "terraform" => j \in holds
  BY <1>2, <1>9 DEF QueueInv
<1>17. QueueInv'
  BY <1>1, <1>5, <1>8, <1>10, <1>11, <1>12, <1>13, <1>14, <1>15, <1>16 DEF QueueInv, ListedFor
<1> QED
  BY <1>2, <1>5, <1>6, <1>7, <1>8, <1>9, <1>17

-----------------------------------------------------------------------------
(* Jobs that the loop starts.                                              *)

\* The loop starts the jobs of some instances and goes on with its own tasks, or at once.
Starts(ids, own, rest) ==
    /\ Doing(Loop, "resume") /\ StartDestroys(ids) /\ microtasks' = rest \o (Resumed(ids) \o own)
    /\ rest = Tail(microtasks) \/ (rest = microtasks /\ own = <<>>)
    /\ UNCHANGED <<turn, file, files, listed, wrote>>
    /\ ids \in Seq(Instances) /\ IsInjective(ids)
    /\ \A i \in ToSet(ids) : job[i] = "none" /\ i <= position' /\ listed[i] = ListedFor("slot")
    /\ own \in Seq(Tasks) /\ PairsIn(own, Apart) /\ Followed(ToSet(own))
    /\ \A t \in ToSet(own) : t.who = Loop /\ OfLoop(t)'
    /\ got' \in States \cup {"none"} /\ position' \in position .. NumInstances + 1

\* Some of them get a slot.
Started(ids, own, rest, a) ==
    /\ ToSet(a) \subseteq ToSet(ids) /\ holds' = holds \cup ToSet(a)
    /\ Cardinality(holds) + Len(ids) <= Slots \/ ids = <<>> => waiters' = waiters /\ ToSet(a) = ToSet(ids)
    /\ Len(a) <= Len(ids) /\ (Slots - Cardinality(holds) >= 0 => Len(a) <= Slots - Cardinality(holds))
    /\ Queued' = ToSet(rest) \cup {Resume(i) : i \in ToSet(a)} \cup ToSet(own)
    /\ microtasks' = rest \o (Resumed(ids) \o own)
    /\ Resumed(ids) \in Seq(Tasks) /\ ToSet(Resumed(ids)) = {Resume(i) : i \in ToSet(a)}
    /\ Len(Resumed(ids)) = Len(a)

LEMMA StartsQueue ==
    ASSUME NEW ids, NEW own, NEW rest, QueueInv, Starts(ids, own, rest)
    PROVE  /\ QueueInv'
           /\ \E a \in Seq(Instances) : Started(ids, own, rest, a)
           /\ \A i \in Instances : job'[i] = IF i \in ToSet(ids) THEN "slot" ELSE job[i]
<1>0. RegistryTypes
  BY DEF QueueInv
<1>1. /\ Doing(Loop, "resume") /\ StartDestroys(ids) /\ microtasks' = rest \o (Resumed(ids) \o own)
      /\ rest = Tail(microtasks) \/ (rest = microtasks /\ own = <<>>)
      /\ UNCHANGED <<turn, file, files, listed, wrote>>
      /\ ids \in Seq(Instances) /\ IsInjective(ids)
      /\ \A i \in ToSet(ids) : job[i] = "none" /\ i <= position' /\ listed[i] = ListedFor("slot")
      /\ own \in Seq(Tasks) /\ PairsIn(own, Apart) /\ Followed(ToSet(own))
      /\ \A t \in ToSet(own) : t.who = Loop /\ OfLoop(t)'
      /\ got' \in States \cup {"none"} /\ position' \in position .. NumInstances + 1
  BY DEF Starts
<1>2. /\ microtasks # <<>> /\ Head(microtasks) \in Queued /\ Head(microtasks).who = Loop
      /\ \A o \in ToSet(Tail(microtasks)) : o.who # Loop /\ o.who \in Instances /\ o \in Queued /\ o \in Tasks
      /\ Queued = {Head(microtasks)} \cup ToSet(Tail(microtasks))
  BY <1>1, LoopsTurn
<1>30. /\ rest \in Seq(Tasks) /\ PairsIn(rest, Apart) /\ Followed(ToSet(rest)) /\ ToSet(Tail(microtasks)) \subseteq ToSet(rest)
       /\ \A o \in ToSet(rest) : o.who \in Instances \/ (o.who = Loop /\ o.does = "resume" /\ own = <<>>)
       /\ \A o \in ToSet(rest) : o \in Queued /\ o \in Tasks
  <2>1. CASE rest = Tail(microtasks)
    BY <1>2, <2>1, TailIs
  <2>2. CASE rest = microtasks /\ own = <<>>
    <3>1. Head(microtasks).does = "resume" /\ Head(microtasks) \in Tasks /\ ToSet(rest) = Queued
      BY <1>1, <2>2, LoopsTurn DEF Queued
    <3> QED
      BY <1>0, <1>2, <2>2, <3>1 DEF QueueInv, RegistryTypes
  <2> QED
    BY <1>1, <2>1, <2>2
<1>3. PICK a \in Seq(Instances), w \in Seq(Instances) :
               /\ IsInjective(w) /\ ToSet(a) \cup ToSet(w) = ToSet(ids) /\ ToSet(a) \cap ToSet(w) = {}
               /\ Len(a) = (IF Len(ids) <= Slots - Cardinality(holds) THEN Len(ids)
                            ELSE IF Slots - Cardinality(holds) >= 0 THEN Slots - Cardinality(holds) ELSE 0)
               /\ Len(w) = Len(ids) - Len(a)
               /\ waiters' = waiters \o w /\ holds' = holds \cup ToSet(a)
               /\ Resumed(ids) \in Seq(Tasks) /\ PairsIn(Resumed(ids), Apart)
               /\ Len(Resumed(ids)) = Len(a)
               /\ ToSet(Resumed(ids)) = {Resume(i) : i \in ToSet(a)}
  <2>1. \E a \in Seq(Instances), w \in Seq(Instances) :
               /\ IsInjective(w) /\ ToSet(a) \cup ToSet(w) = ToSet(ids) /\ ToSet(a) \cap ToSet(w) = {}
               /\ Len(a) = (IF Len(ids) <= Slots - Cardinality(holds) THEN Len(ids)
                            ELSE IF Slots - Cardinality(holds) >= 0 THEN Slots - Cardinality(holds) ELSE 0)
               /\ Len(w) = Len(ids) - Len(a)
               /\ waiters' = waiters \o w /\ holds' = holds \cup ToSet(a)
               /\ Resumed(ids) \in Seq(Tasks) /\ PairsIn(Resumed(ids), Apart)
               /\ Len(Resumed(ids)) = Len(a) /\ DOMAIN Resumed(ids) = DOMAIN a
               /\ \A k \in DOMAIN a : Resumed(ids)[k] = Resume(a[k])
               /\ ToSet(Resumed(ids)) = {Resume(i) : i \in ToSet(a)}
    BY <1>0, <1>1, StartsAre
  <2> QED
    BY <2>1
<1> PICK rs : rs = Resumed(ids)
  OBVIOUS
<1> PICK ts : ts = rs \o own
  OBVIOUS
<1>4. \A i \in ToSet(ids) : i \in Instances
  BY <1>1, OfItsElements DEF ToSet
<1>5. \A i \in ToSet(a) : Resume(i).who = i /\ Resume(i).does = "resume" /\ i \in Instances /\ Resume(i) \in Tasks
  BY <1>3, <1>4, OwnersAre, SimpleTask DEF Resume
<1>6. \A t \in ToSet(rs) : t.who \in ToSet(a) /\ t.does = "resume" /\ t \in Tasks
  BY <1>3, <1>5
<1>7. \A t \in ToSet(own) : t.who = Loop /\ t \in Tasks
  BY <1>1, OfItsElements DEF ToSet
<1>8. ts \in Seq(Tasks) /\ ToSet(ts) = ToSet(rs) \cup ToSet(own) /\ PairsIn(ts, Apart)
  <2>1. \A x \in ToSet(rs), y \in ToSet(own) : <<x, y>> \in Apart
    BY <1>5, <1>6, <1>7, OwnersAre DEF Apart
  <2>2. rs \in Seq(Tasks) /\ PairsIn(rs, Apart) /\ own \in Seq(Tasks) /\ PairsIn(own, Apart)
    BY <1>1, <1>3
  <2>3. rs \o own \in Seq(Tasks) /\ ToSet(rs \o own) = ToSet(rs) \cup ToSet(own)
    BY <2>2, ConcatProperties, ElementsOfConcat
  <2>4. PairsIn(rs \o own, Apart)
    BY <2>1, <2>2, PairsConcat
  <2> QED
    BY <2>3, <2>4
<1>9. Followed(ToSet(ts))
  BY <1>1, <1>6, <1>8 DEF Followed
<1>10. \A i \in ToSet(ids) : i \notin holds /\ i \notin ToSet(waiters)
  BY <1>1 DEF QueueInv, Working
<1>11. \A o \in ToSet(rest), t \in ToSet(ts) : o.who # t.who
  <2>1. \A o \in ToSet(rest) : o.who \in Instances => job[o.who] \in Busy
    BY <1>30 DEF QueueInv, OfJob
  <2>2. \A i \in ToSet(ids) : job[i] \notin Busy
    BY <1>1 DEF Busy, Working, Watching
  <2>3. ASSUME NEW o \in ToSet(rest), NEW t \in ToSet(ts), o.who = Loop, o.who = t.who PROVE FALSE
    <3>1. t \in ToSet(own)
      BY <1>4, <1>6, <1>8, <1>3, <2>3, OwnersAre
    <3>2. ToSet(own) = {}
      BY <1>2, <1>30, <2>3, NoTasks, OwnersAre
    <3> QED
      BY <3>1, <3>2
  <2>4. ASSUME NEW o \in ToSet(rest), NEW t \in ToSet(ts), o.who \in Instances, o.who = t.who PROVE FALSE
    BY <1>3, <1>6, <1>7, <1>8, <2>1, <2>2, <2>4, OwnersAre
  <2> QED
    BY <1>30, <2>3, <2>4
<1>12. /\ microtasks' \in Seq(Tasks) /\ PairsIn(microtasks', Apart) /\ Followed(Queued')
       /\ Queued' = ToSet(rest) \cup ToSet(ts)
  <2>1. microtasks' = rest \o ts
    BY <1>1
  <2> QED
    BY <1>8, <1>9, <1>11, <1>30, <2>1, QueueAppends DEF Queued
<1>13. job' = [i \in Instances |-> IF i \in ToSet(ids) THEN "slot" ELSE job[i]]
  BY <1>1 DEF StartDestroys
<1>14. waiters \in Seq(Instances) /\ IsInjective(waiters) /\ ToSet(waiters) \cap ToSet(w) = {}
  BY <1>0, <1>3, <1>10 DEF RegistryTypes, QueueInv
<1>15. waiters' \in Seq(Instances) /\ IsInjective(waiters') /\ ToSet(waiters') = ToSet(waiters) \cup ToSet(w)
  <2>1. PICK v \in Seq(Instances) : v = waiters
    BY <1>14
  <2>2. IsInjective(v) /\ ToSet(v) \cap ToSet(w) = {} /\ IsInjective(w) /\ waiters' = v \o w
    BY <1>3, <1>14, <2>1
  <2>3. v \o w \in Seq(Instances) /\ IsInjective(v \o w) /\ ToSet(v \o w) = ToSet(v) \cup ToSet(w)
    BY <2>2, InjectiveConcat, ConcatProperties, ElementsOfConcat
  <2> QED
    BY <2>1, <2>2, <2>3
<1>16. position \in Int /\ position' \in Int /\ position' >= position /\ position' \in 0 .. NumInstances + 1
  BY <1>0, <1>1, OwnersAre DEF RegistryTypes
<1>17. RegistryTypes'
  BY <1>0, <1>1, <1>3, <1>4, <1>12, <1>13, <1>15, <1>16 DEF RegistryTypes, Working, Busy
<1>18. ASSUME NEW t \in Queued' PROVE (t.who \in Instances => OfJob(t)') /\ (t.who = Loop => OfLoop(t)')
  <2>1. CASE t \in ToSet(rest) /\ t.who \in Instances
    <3>1. OfJob(t) /\ t.who # Loop
      BY <1>30, <2>1, OwnersAre DEF QueueInv
    <3>2. t.who \notin ToSet(ids) /\ (t.who \in holds => t.who \in holds')
      BY <1>1, <1>3, <3>1 DEF OfJob, Busy, Working, Watching
    <3> QED
      BY <1>13, <2>1, <3>1, <3>2 DEF OfJob
  <2>4. CASE t \in ToSet(rest) /\ t.who \notin Instances
    BY <1>30, <2>4, OwnersAre DEF OfLoop
  <2>2. CASE t \in ToSet(rs)
    BY <1>3, <1>5, <1>6, <1>13, <2>2, OwnersAre DEF OfJob, Working, Busy
  <2>3. CASE t \in ToSet(own)
    BY <1>1, <2>3, OwnersAre
  <2> QED
    BY <1>8, <1>12, <2>1, <2>2, <2>3, <2>4
<1>19. ASSUME NEW i \in Instances, job'[i] \in Working \ {"slot"} PROVE \E t \in Queued' : t.who = i
  <2>1. job[i] \in Working \ {"slot"}
    BY <1>13, <1>19
  <2>2. PICK t \in Queued : t.who = i
    BY <2>1 DEF QueueInv
  <2> QED
    BY <1>2, <1>12, <1>30, <2>2, OwnersAre
<1>20. \A i \in Instances : /\ job'[i] # "none" => i <= position' /\ listed[i] = ListedFor(job'[i])
                            /\ job'[i] \in Watching => turn = "recovery"
                            /\ job'[i] \in {"terraform", "failed"} => i \in files
                            /\ job'[i] = "terraform" => i \in holds'
  <2> SUFFICES ASSUME NEW i \in Instances
               PROVE  /\ job'[i] # "none" => i <= position' /\ listed[i] = ListedFor(job'[i])
                      /\ job'[i] \in Watching => turn = "recovery"
                      /\ job'[i] \in {"terraform", "failed"} => i \in files
                      /\ job'[i] = "terraform" => i \in holds'
    OBVIOUS
  <2>1. CASE i \in ToSet(ids)
    BY <1>1, <1>13, <2>1 DEF Watching
  <2>2. CASE i \notin ToSet(ids)
    <3>1. job'[i] = job[i]
      BY <1>13, <2>2
    <3>2. /\ job[i] # "none" => i <= position /\ listed[i] = ListedFor(job[i])
          /\ job[i] \in Watching => turn = "recovery"
          /\ job[i] \in {"terraform", "failed"} => i \in files
          /\ job[i] = "terraform" => i \in holds
      BY DEF QueueInv
    <3>3. i <= position => i <= position'
      BY <1>16, OwnersAre
    <3> QED
      BY <1>3, <3>1, <3>2, <3>3
  <2> QED
    BY <2>1, <2>2
<1>21. \A i \in holds' : job'[i] \in Working \cup {"terraform"}
  <2>1. holds \subseteq Instances
    BY <1>0 DEF RegistryTypes
  <2> QED
    BY <1>3, <1>4, <1>13, <2>1 DEF QueueInv, Working
<1>22. \A i \in ToSet(waiters') : job'[i] = "slot" /\ i \notin holds'
  <2>1. \A i \in ToSet(waiters) : i \in Instances
    BY <1>14, OfItsElements DEF ToSet
  <2> QED
    BY <1>3, <1>4, <1>10, <1>13, <1>15, <2>1 DEF QueueInv
<1>23. QueueInv'
  BY <1>1, <1>12, <1>15, <1>17, <1>18, <1>19, <1>20, <1>21, <1>22 DEF QueueInv, ListedFor
<1>24. Cardinality(holds) \in Nat /\ Slots \in Nat /\ Len(ids) \in Nat /\ Len(a) \in Nat /\ Len(w) \in Nat
  BY <1>0, <1>1, SomeFinite, OwnersAre, LenProperties DEF RegistryTypes
<1>25. Len(a) <= Len(ids) /\ (Slots - Cardinality(holds) >= 0 => Len(a) <= Slots - Cardinality(holds))
  BY <1>3, <1>24
<1>26. /\ ToSet(a) \subseteq ToSet(ids) /\ holds' = holds \cup ToSet(a)
       /\ Queued' = ToSet(rest) \cup {Resume(i) : i \in ToSet(a)} \cup ToSet(own)
       /\ microtasks' = rest \o (Resumed(ids) \o own)
       /\ Resumed(ids) \in Seq(Tasks) /\ ToSet(Resumed(ids)) = {Resume(i) : i \in ToSet(a)}
       /\ Len(Resumed(ids)) = Len(a)
  <2>1. microtasks' = rest \o (Resumed(ids) \o own)
    BY <1>1
  <2>2. ToSet(rs) = {Resume(i) : i \in ToSet(a)}
    BY <1>3
  <2>3. Queued' = ToSet(rest) \cup {Resume(i) : i \in ToSet(a)} \cup ToSet(own)
    BY <1>8, <1>12, <2>2
  <2> QED
    BY <1>3, <2>1, <2>3
<1>27. Cardinality(holds) + Len(ids) <= Slots \/ ids = <<>> => waiters' = waiters /\ ToSet(a) = ToSet(ids)
  <2> SUFFICES ASSUME Cardinality(holds) + Len(ids) <= Slots \/ ids = <<>> PROVE waiters' = waiters /\ ToSet(a) = ToSet(ids)
    OBVIOUS
  <2>1. Len(w) = 0
    <3>1. CASE Cardinality(holds) + Len(ids) <= Slots
      BY <1>3, <1>24, <3>1
    <3>2. CASE ids = <<>>
      <4>1. Len(ids) = 0
        BY <3>2
      <4> QED
        BY <1>24, <1>25, <1>3, <4>1
    <3> QED
      BY <3>1, <3>2
  <2>2. w = <<>>
    BY <1>3, <2>1, EmptySeq
  <2>3. ToSet(w) = {}
    BY <2>2, FewElements
  <2> QED
    BY <1>3, <1>14, <2>2, <2>3, ConcatEmptySeq
<1>28. \A i \in Instances : job'[i] = IF i \in ToSet(ids) THEN "slot" ELSE job[i]
  BY <1>13
<1>29. Started(ids, own, rest, a)
  BY <1>25, <1>26, <1>27 DEF Started
<1> QED
  BY <1>3, <1>23, <1>28, <1>29

-----------------------------------------------------------------------------
(* The steps of the registry.                                              *)

\* A job is started for the instance that bulk-destroy is at.
LEMMA BulkDestroysStarts ==
    ASSUME QueueInv, BulkDestroys, position \in Instances, job[position] = "none", listed[position] = "ready"
    PROVE  /\ Starts(<<position>>, <<Resume(Loop)>>, Tail(microtasks))
           /\ position' = position /\ turn = "bulk" /\ got # "none" /\ got' = "none"
           /\ ToSet(<<position>>) = {position} /\ Len(<<position>>) = 1
           /\ ToSet(<<Resume(Loop)>>) = {Resume(Loop)} /\ Resume(Loop) \in Tasks
<1>0. RegistryTypes
  BY DEF QueueInv
<1>1. /\ turn = "bulk" /\ Doing(Loop, "resume") /\ got \notin {"none", "destroyed"} /\ got' = "none"
      /\ StartDestroys(<<position>>) /\ Then(Resumed(<<position>>) \o <<Resume(Loop)>>)
      /\ UNCHANGED <<turn, file, files, listed, position, wrote>>
  BY DEF BulkDestroys
<1> PICK p \in Instances : p = position
  OBVIOUS
<1> PICK t \in Tasks : t = Resume(Loop)
  BY OwnersAre, SimpleTask DEF Resume
<1>2. t.who = Loop /\ t.does = "resume"
  BY DEF Resume
<1> PICK ids : ids = <<p>>
  OBVIOUS
<1> PICK own : own = <<t>>
  OBVIOUS
<1>3. ids \in Seq(Instances) /\ IsInjective(ids) /\ ToSet(ids) = {p} /\ Len(ids) = 1
  <2>1. ToSet(ids) = {p}
    BY FewElements
  <2>2. IsInjective(ids)
    BY DEF IsInjective
  <2> QED
    BY <2>1, <2>2
<1>4. own \in Seq(Tasks) /\ PairsIn(own, Apart) /\ ToSet(own) = {t}
  <2>1. PairsIn(own, Apart)
    BY PairsFew
  <2>2. ToSet(own) = {t}
    BY FewElements
  <2> QED
    BY <2>1, <2>2
<1>5. Followed(ToSet(own)) /\ \A x \in ToSet(own) : x.who = Loop /\ OfLoop(x)'
  BY <1>2, <1>4 DEF Followed, OfLoop
<1>6. \A i \in ToSet(ids) : job[i] = "none" /\ i <= position' /\ listed[i] = ListedFor("slot")
  BY <1>1, <1>3, OwnersAre DEF ListedFor
<1>7. got' \in States \cup {"none"} /\ position' \in position .. NumInstances + 1
  BY <1>0, <1>1, OwnersAre DEF RegistryTypes
<1>8. StartDestroys(ids) /\ microtasks' = Tail(microtasks) \o (Resumed(ids) \o own)
  <2>1. ids = <<position>> /\ own = <<Resume(Loop)>>
    OBVIOUS
  <2> QED
    BY <1>1, <2>1 DEF Then
<1>9. Starts(ids, own, Tail(microtasks))
  BY <1>1, <1>3, <1>4, <1>5, <1>6, <1>7, <1>8 DEF Starts
<1> QED
  BY <1>1, <1>3, <1>4, <1>9

\* The recovery has come to an instance.
RecoversTo(p, status) ==
    /\ turn = "recovery" /\ Doing(Loop, "resume") /\ p \in Instances /\ position' = p /\ p = position + 1 /\ listed[p] = status
    /\ UNCHANGED <<turn, file, files, listed, got, wrote>>

LEMMA RecoversIs ==
    ASSUME QueueInv, NEW status, Recovers(status)
    PROVE  /\ RecoversTo(position + 1, status) /\ position + 1 \in position .. NumInstances + 1 /\ position + 1 > position
           /\ job[position + 1] = "none" /\ position \in Int
<1>1. position \in 0 .. NumInstances + 1 /\ position < NumInstances
  BY DEF QueueInv, RegistryTypes, Recovers
<1>2. position + 1 \in Instances /\ position + 1 > position /\ position + 1 \in position .. NumInstances + 1 /\ position \in Int
  BY <1>1, OwnersAre DEF Instances
<1>3. job[position + 1] = "none"
  BY <1>2 DEF QueueInv
<1> QED
  BY <1>2, <1>3 DEF Recovers, RecoversTo

\* It starts a job for it.
LEMMA RecoverStarts ==
    ASSUME QueueInv, RecoverDestroys
    PROVE  \E p \in Instances : /\ RecoversTo(p, "destroying") /\ job[p] = "none"
                                /\ Starts(<<p>>, <<>>, microtasks) /\ ToSet(<<p>>) = {p} /\ Len(<<p>>) = 1
<1> PICK p : p = position + 1
  OBVIOUS
<1>1. /\ RecoversTo(p, "destroying") /\ p \in position .. NumInstances + 1 /\ job[p] = "none" /\ position \in Int
      /\ StartDestroys(<<p>>) /\ microtasks' = microtasks \o Resumed(<<p>>)
  BY RecoversIs DEF RecoverDestroys
<1>0. RegistryTypes
  BY DEF QueueInv
<1>2. /\ turn = "recovery" /\ Doing(Loop, "resume") /\ p \in Instances /\ position' = p /\ listed[p] = "destroying"
      /\ UNCHANGED <<turn, file, files, listed, got, wrote>>
  BY <1>1 DEF RecoversTo
<1> PICK ids : ids = <<p>>
  OBVIOUS
<1>3. ids \in Seq(Instances) /\ IsInjective(ids) /\ ToSet(ids) = {p} /\ Len(ids) = 1
  <2>1. ToSet(ids) = {p}
    BY FewElements
  <2>2. IsInjective(ids)
    BY DEF IsInjective
  <2> QED
    BY <1>2, <2>1, <2>2
<1>4. \A i \in ToSet(ids) : job[i] = "none" /\ i <= position' /\ listed[i] = ListedFor("slot")
  BY <1>1, <1>2, <1>3, OwnersAre DEF ListedFor, Watching
<1>5. Resumed(ids) \in Seq(Tasks) /\ StartDestroys(ids) /\ microtasks' = microtasks \o Resumed(ids)
  <2>1. StartDestroys(ids) /\ microtasks' = microtasks \o Resumed(ids)
    BY <1>1
  <2>2. \E a \in Seq(Instances), w \in Seq(Instances) :
               /\ IsInjective(w) /\ ToSet(a) \cup ToSet(w) = ToSet(ids) /\ ToSet(a) \cap ToSet(w) = {}
               /\ Len(a) = (IF Len(ids) <= Slots - Cardinality(holds) THEN Len(ids)
                            ELSE IF Slots - Cardinality(holds) >= 0 THEN Slots - Cardinality(holds) ELSE 0)
               /\ Len(w) = Len(ids) - Len(a)
               /\ waiters' = waiters \o w /\ holds' = holds \cup ToSet(a)
               /\ Resumed(ids) \in Seq(Tasks) /\ PairsIn(Resumed(ids), Apart)
               /\ Len(Resumed(ids)) = Len(a) /\ DOMAIN Resumed(ids) = DOMAIN a
               /\ \A k \in DOMAIN a : Resumed(ids)[k] = Resume(a[k])
               /\ ToSet(Resumed(ids)) = {Resume(i) : i \in ToSet(a)}
    BY <1>0, <1>3, <2>1, StartsAre
  <2> QED
    BY <2>1, <2>2
<1> PICK own, rs : own = <<>> /\ rs = Resumed(ids)
  OBVIOUS
<1>6. own \in Seq(Tasks) /\ ToSet(own) = {} /\ PairsIn(own, Apart) /\ Followed(ToSet(own)) /\ rs \o own = rs
  BY <1>5, NoTasks, ConcatEmptySeq
<1>7. got' \in States \cup {"none"} /\ position' \in position .. NumInstances + 1
  BY <1>0, <1>1, <1>2 DEF RegistryTypes
<1>8. Starts(ids, own, microtasks)
  BY <1>2, <1>3, <1>4, <1>5, <1>6, <1>7 DEF Starts
<1> QED
  BY <1>1, <1>2, <1>3, <1>8

\* A loop that stays at the head of the queue leaves the others as they are.
LEMMA LoopStays ==
    ASSUME QueueInv, Doing(Loop, "resume")
    PROVE  /\ microtasks \in Seq(Tasks) /\ PairsIn(microtasks, Apart) /\ Followed(Queued)
           /\ \A t \in Queued : t \in Tasks /\ ((t.who \in Instances /\ OfJob(t)) \/ (t.who = Loop /\ t.does = "resume"))
<1>1. /\ Head(microtasks).who = Loop /\ Head(microtasks).does = "resume" /\ Head(microtasks) \in Tasks
      /\ \A o \in ToSet(Tail(microtasks)) : o.who # Loop /\ o.who \in Instances /\ o \in Queued /\ o \in Tasks
      /\ Queued = {Head(microtasks)} \cup ToSet(Tail(microtasks))
  BY LoopsTurn
<1> QED
  BY <1>1 DEF QueueInv, RegistryTypes

LEMMA RecoverPassesQueue ==
    ASSUME QueueInv, RecoverPasses
    PROVE  /\ QueueInv' /\ \E p \in Instances : RecoversTo(p, "ready")
           /\ UNCHANGED <<job, holds, waiters, microtasks>> /\ Queued' = Queued
<1> PICK p : p = position + 1
  OBVIOUS
<1>1. /\ RecoversTo(p, "ready") /\ p \in position .. NumInstances + 1 /\ position \in Int
      /\ UNCHANGED <<job, holds, waiters, microtasks>>
  BY RecoversIs DEF RecoverPasses
<1>2. /\ turn = "recovery" /\ Doing(Loop, "resume") /\ p \in Instances /\ position' = p /\ p = position + 1
      /\ UNCHANGED <<turn, file, files, listed, got, wrote>>
  BY <1>1 DEF RecoversTo
<1>0. RegistryTypes
  BY DEF QueueInv
<1>3. RegistryTypes'
  BY <1>0, <1>1, <1>2, OwnersAre DEF RegistryTypes, Instances
<1>4. Queued' = Queued
  BY <1>1 DEF Queued
<1>5. ASSUME NEW t \in Queued' PROVE (t.who \in Instances => OfJob(t)') /\ (t.who = Loop => OfLoop(t)')
  <2>1. (t.who \in Instances /\ OfJob(t)) \/ (t.who = Loop /\ t.does = "resume")
    BY <1>2, <1>4, <1>5, LoopStays
  <2> QED
    BY <1>1, <1>2, <2>1, OwnersAre DEF OfJob, OfLoop
<1>6. \A i \in Instances : job[i] # "none" => i <= position'
  BY <1>1, <1>2, OwnersAre DEF QueueInv
<1>7. PairsIn(microtasks', Apart) /\ Followed(Queued')
  BY <1>1, <1>4 DEF QueueInv
<1>8. QueueInv'
  BY <1>1, <1>2, <1>3, <1>4, <1>5, <1>6, <1>7 DEF QueueInv, ListedFor
<1> QED
  BY <1>1, <1>2, <1>4, <1>8

\* It starts a watcher for one.
LEMMA RecoverWatchesQueue ==
    ASSUME QueueInv, RecoverWatches
    PROVE  \E p \in Instances, b, a \in Tasks :
               /\ QueueInv' /\ RecoversTo(p, "bootstrapping") /\ job[p] = "none"
               /\ Queued' = Queued \cup {b, a} /\ microtasks' = microtasks \o <<b, a>>
               /\ b.does = "body" /\ b.seen = file /\ b.status = "none" /\ a.does = "adopt" /\ b.who = p /\ a.who = p
               /\ UNCHANGED <<holds, waiters>> /\ job'[p] = "watch" /\ \A j \in Instances : j # p => job'[j] = job[j]
<1> PICK p : p = position + 1
  OBVIOUS
<1>1. /\ RecoversTo(p, "bootstrapping") /\ p \in position .. NumInstances + 1 /\ position \in Int /\ job[p] = "none"
      /\ job' = [job EXCEPT ![p] = "watch"] /\ microtasks' = microtasks \o Call(p, p, "none")
      /\ UNCHANGED <<holds, waiters>>
  BY RecoversIs DEF RecoverWatches, GetInstance
<1>2. /\ turn = "recovery" /\ Doing(Loop, "resume") /\ p \in Instances /\ position' = p /\ p = position + 1
      /\ listed[p] = "bootstrapping" /\ UNCHANGED <<turn, file, files, listed, got, wrote>>
  BY <1>1 DEF RecoversTo
<1>0. RegistryTypes
  BY DEF QueueInv
<1> PICK ts : ts = Call(p, p, "none")
  OBVIOUS
<1>4. PICK b, a : /\ b = [who |-> p, does |-> "body", of |-> p, seen |-> file, status |-> "none"]
                  /\ a = [who |-> p, does |-> "adopt"]
  OBVIOUS
<1>5. ts \in Seq(Tasks) /\ ToSet(ts) = {b, a} /\ PairsIn(ts, Apart) /\ ts = <<b, a>>
  BY <1>0, <1>2, <1>4, OwnersAre, CallIs DEF Call
<1>6. /\ b.does = "body" /\ b.seen = file /\ b.status = "none" /\ b.of = p /\ a.does = "adopt" /\ b.who = p /\ a.who = p
  BY <1>4
<1>7. b \in Tasks /\ a \in Tasks
  <2>1. \A t \in ToSet(ts) : t \in Tasks
    BY <1>5, OfItsElements DEF ToSet
  <2> QED
    BY <1>5, <2>1
<1>8. Followed(ToSet(ts))
  BY <1>5, <1>6 DEF Followed
<1>9. \A o \in Queued : o.who # p
  <2>1. \A o \in Queued : o.who = p => job[p] \in Busy
    BY <1>2, OwnersAre DEF QueueInv, OfJob
  <2> QED
    BY <1>1, <2>1 DEF Busy, Working, Watching
<1>10. /\ microtasks' \in Seq(Tasks) /\ PairsIn(microtasks', Apart) /\ Followed(Queued')
       /\ Queued' = Queued \cup {b, a}
  <2>1. PICK q \in Seq(Tasks) : q = microtasks
    BY <1>0 DEF RegistryTypes
  <2>2. PairsIn(q, Apart) /\ Followed(ToSet(q)) /\ \A o \in ToSet(q), t \in ToSet(ts) : o.who # t.who
    BY <1>5, <1>6, <1>9, <2>1 DEF QueueInv, Queued
  <2>3. /\ q \o ts \in Seq(Tasks) /\ PairsIn(q \o ts, Apart) /\ Followed(ToSet(q \o ts))
        /\ ToSet(q \o ts) = ToSet(q) \cup ToSet(ts)
    BY <1>5, <1>8, <2>2, QueueAppends
  <2>4. microtasks' = q \o ts
    BY <1>1, <2>1
  <2> QED
    BY <1>5, <2>1, <2>3, <2>4 DEF Queued
<1>11. /\ job' \in [Instances -> Busy \cup {"none", "terraform"}] /\ job'[p] = "watch"
       /\ \A j \in Instances : j # p => job'[j] = job[j]
  BY <1>0, <1>1, <1>2 DEF RegistryTypes, Busy, Watching
<1>12. RegistryTypes'
  BY <1>0, <1>1, <1>2, <1>10, <1>11, OwnersAre DEF RegistryTypes, Instances
<1>13. ASSUME NEW t \in Queued' PROVE (t.who \in Instances => OfJob(t)') /\ (t.who = Loop => OfLoop(t)')
  <2>1. CASE t \in Queued
    <3>1. (t.who \in Instances /\ OfJob(t)) \/ (t.who = Loop /\ t.does = "resume")
      BY <1>2, <2>1, LoopStays
    <3> QED
      BY <1>1, <1>2, <1>9, <1>11, <2>1, <3>1, OwnersAre DEF OfJob, OfLoop
  <2>2. CASE t = b \/ t = a
    BY <1>2, <1>6, <1>11, <2>2, OwnersAre DEF OfJob, Busy, Watching, Working, JobWrites
  <2> QED
    BY <1>10, <2>1, <2>2
<1>14. ASSUME NEW j \in Instances, job'[j] \in Working \ {"slot"} PROVE \E t \in Queued' : t.who = j
  <2>1. j # p
    BY <1>11, <1>14 DEF Working
  <2> QED
    BY <1>10, <1>11, <1>14, <2>1 DEF QueueInv
<1>15. \A j \in Instances : /\ job'[j] # "none" => j <= position' /\ listed[j] = ListedFor(job'[j])
                            /\ job'[j] \in Watching => turn = "recovery"
                            /\ job'[j] \in {"terraform", "failed"} => j \in files
                            /\ job'[j] = "terraform" => j \in holds
  <2> SUFFICES ASSUME NEW j \in Instances
               PROVE  /\ job'[j] # "none" => j <= position' /\ listed[j] = ListedFor(job'[j])
                      /\ job'[j] \in Watching => turn = "recovery"
                      /\ job'[j] \in {"terraform", "failed"} => j \in files
                      /\ job'[j] = "terraform" => j \in holds
    OBVIOUS
  <2>1. CASE j = p
    BY <1>2, <1>11, <2>1, OwnersAre DEF ListedFor, Watching
  <2>2. CASE j # p
    <3>1. job'[j] = job[j] /\ j \in Nat
      BY <1>11, <2>2, OwnersAre
    <3>2. j <= position => j <= position'
      BY <1>1, <1>2, <3>1
    <3> QED
      BY <3>1, <3>2 DEF QueueInv
  <2> QED
    BY <2>1, <2>2
<1>16. /\ \A j \in holds : job'[j] \in Working \cup {"terraform"}
       /\ \A j \in ToSet(waiters) : job'[j] = "slot" /\ j \notin holds
  <2>1. \A j \in ToSet(waiters) : j \in Instances
    BY <1>0, OfItsElements DEF RegistryTypes, ToSet
  <2>2. holds \subseteq Instances
    BY <1>0 DEF RegistryTypes
  <2> QED
    BY <1>1, <1>11, <2>1, <2>2 DEF QueueInv, Working
<1>17. IsInjective(waiters)
  BY DEF QueueInv
<1>18. QueueInv'
  BY <1>1, <1>2, <1>10, <1>12, <1>13, <1>14, <1>15, <1>16, <1>17 DEF QueueInv, ListedFor
<1>19. /\ QueueInv' /\ RecoversTo(p, "bootstrapping") /\ job[p] = "none"
       /\ Queued' = Queued \cup {b, a} /\ UNCHANGED <<holds, waiters>>
  BY <1>1, <1>10, <1>18
<1>20. microtasks' = microtasks \o <<b, a>>
  BY <1>1, <1>5
<1>21. job'[p] = "watch" /\ \A j \in Instances : j # p => job'[j] = job[j]
  BY <1>11
<1> QED
  BY <1>2, <1>6, <1>7, <1>19, <1>20, <1>21

\* It marks an apply that was cut off, and waits for the mark.
LEMMA RecoverMarksQueue ==
    ASSUME QueueInv, RecoverMarks
    PROVE  \E p \in Instances, b, a \in Tasks :
               /\ QueueInv' /\ RecoversTo(p, "applying")
               /\ Queued' = ToSet(Tail(microtasks)) \cup {b, a} /\ microtasks' = Tail(microtasks) \o <<b, a>>
               /\ b.does = "body" /\ b.seen = file /\ b.of = p /\ a.does = "adopt" /\ b.who = Loop /\ a.who = Loop
               /\ UNCHANGED <<job, holds, waiters>>
<1> PICK p : p = position + 1
  OBVIOUS
<1>1. /\ RecoversTo(p, "applying") /\ p \in position .. NumInstances + 1 /\ position \in Int
      /\ Then(Call(Loop, p, "failed")) /\ UNCHANGED <<job, holds, waiters>>
  BY RecoversIs DEF RecoverMarks
<1>2. /\ turn = "recovery" /\ Doing(Loop, "resume") /\ p \in Instances /\ position' = p
      /\ listed[p] = "applying" /\ UNCHANGED <<turn, file, files, listed, got, wrote>>
  BY <1>1 DEF RecoversTo
<1>0. RegistryTypes
  BY DEF QueueInv
<1>3. /\ microtasks # <<>> /\ Head(microtasks).who = Loop
      /\ \A o \in ToSet(Tail(microtasks)) : o.who # Loop
  BY <1>2, LoopsTurn
<1> PICK ts : ts = Call(Loop, p, "failed")
  OBVIOUS
<1>4. PICK b, a : /\ b = [who |-> Loop, does |-> "body", of |-> p, seen |-> file, status |-> "failed"]
                  /\ a = [who |-> Loop, does |-> "adopt"]
  OBVIOUS
<1>5. ts \in Seq(Tasks) /\ ToSet(ts) = {b, a} /\ PairsIn(ts, Apart) /\ ts = <<b, a>>
  <2>1. "failed" \in States \cup {"none"}
    BY DEF States
  <2> QED
    BY <1>0, <1>2, <1>4, <2>1, OwnersAre, CallIs DEF Call
<1>6. /\ b.does = "body" /\ b.seen = file /\ b.status = "failed" /\ b.of = p /\ a.does = "adopt" /\ b.who = Loop /\ a.who = Loop
  BY <1>4
<1>7. b \in Tasks /\ a \in Tasks
  <2>1. \A t \in ToSet(ts) : t \in Tasks
    BY <1>5, OfItsElements DEF ToSet
  <2> QED
    BY <1>5, <2>1
<1>8. Followed(ToSet(ts))
  BY <1>5, <1>6 DEF Followed
<1>9. Then(ts)
  BY <1>1
<1>10. Stands(ts)
  BY <1>0, <1>1, <1>2, <1>3, <1>9 DEF Stands, RegistryTypes
<1>11. OfLoop(b)' /\ OfLoop(a)'
  BY <1>2, <1>6 DEF OfLoop
<1>12. Puts(ts)
  BY <1>3, <1>5, <1>6, <1>8, <1>11, OwnersAre DEF Puts
<1>13. QueueInv' /\ Queued' = ToSet(Tail(microtasks)) \cup ToSet(ts)
  BY <1>3, <1>10, <1>12, QueueStands
<1> QED
  BY <1>1, <1>2, <1>5, <1>6, <1>7, <1>9, <1>13 DEF Then

\* A watcher that sleeps leaves the queue.
LEMMA SleepsQueue ==
    ASSUME NEW i \in Instances, QueueInv, WatchSleeps(i)
    PROVE  QueueInv' /\ Queued' = ToSet(Tail(microtasks))
<1>1. /\ JobStep(i, job[i], "none", <<>>) /\ job[i] \in Watching /\ job[i] \notin Working /\ UNCHANGED <<holds, waiters>>
      /\ job[i] # "slot" /\ job[i] # "terraform"
  BY DEF WatchSleeps, WatchStep, JobStep, Watching, Working
<1>2. holds' = holds \ {i}
  BY <1>1 DEF QueueInv
<1> QED
  BY <1>1, <1>2, JobRunsQueue

\* The steps of the registry.
LEMMA StepsAre ==
    ASSUME QueueInv, RegistryNext
    PROVE  \/ RecoverPasses \/ RecoverDestroys \/ RecoverWatches \/ RecoverMarks \/ RecoverEnds
           \/ BulkReads \/ BulkDestroys \/ BulkEnds
           \/ \E who \in Owners : Body(who) \/ Settle(who)
           \/ \E i \in Instances : JobRuns(i) \/ JobLeaves(i) \/ JobHands(i) \/ TerraformEnds(i) \/ WatchSleeps(i)
           \/ \E i \in Instances : \E from, to, status : JobCalls(i, from, to, status)
           \/ \E i \in Instances : \E to, t : WatchGoes(i, to, t)
<1>1. ASSUME NEW i \in Instances, DestroyReads(i) PROVE JobCalls(i, "slot", "read", "none")
  BY <1>1 DEF DestroyReads, JobCalls, Passes, GetInstance
<1>2. ASSUME NEW i \in Instances, DestroyMarks(i) PROVE JobCalls(i, "read", "marked", "destroying")
  BY <1>2 DEF DestroyMarks, JobCalls, Passes
<1>3. ASSUME NEW i \in Instances, DestroyRuns(i) PROVE JobRuns(i) \/ JobCalls(i, "marked", "gone", "none")
  BY <1>3 DEF DestroyRuns, JobRuns, JobCalls, Passes, GetInstance
<1>4. ASSUME NEW i \in Instances, DestroyConcludes(i)
      PROVE JobCalls(i, "gone", "concluded", "destroyed") \/ JobCalls(i, "failed", "concluded", "failed")
  BY <1>4 DEF DestroyConcludes, JobCalls, Passes
<1>5. ASSUME NEW i \in Instances, DestroyReleases(i) PROVE JobLeaves(i) \/ JobHands(i)
  BY <1>5 DEF DestroyReleases, JobLeaves, JobHands
<1>6. ASSUME NEW i \in Instances, WatchReads(i) PROVE JobCalls(i, "probe", "reread", "none")
  BY <1>6 DEF WatchReads, WatchStep, JobCalls, Passes, GetInstance
<1>7. ASSUME NEW i \in Instances, WatchWrites(i) PROVE JobCalls(i, "reread", "written", "bootstrapping")
  BY <1>7 DEF WatchWrites, WatchStep, JobCalls, Passes
<1>8. ASSUME NEW i \in Instances, WatchAsks(i) PROVE \E to, t : WatchGoes(i, to, t)
  <2>1. i \in Owners
    BY OwnersAre
  <2>2. CASE WatchStep(i, "watch", "collect", <<Resume(i)>>)
    <3>1. PICK t : t = Resume(i)
      OBVIOUS
    <3>2. t \in Tasks /\ t.who = i /\ t.does = "resume"
      BY <2>1, <3>1, SimpleTask DEF Resume
    <3>3. WatchGoes(i, "collect", t)
      BY <2>2, <3>1, <3>2 DEF WatchGoes, WatchStep, JobStep, Watching
    <3> QED
      BY <3>3
  <2>3. ASSUME NEW from \in {"watch", "collect"}, WatchStep(i, from, "probe", <<[who |-> i, does |-> "adopt"]>>)
        PROVE  \E to, t : WatchGoes(i, to, t)
    <3>1. PICK t : t = [who |-> i, does |-> "adopt"]
      OBVIOUS
    <3>2. t \in Tasks /\ t.who = i /\ t.does = "adopt"
      BY <2>1, <3>1, SimpleTask
    <3>3. WatchGoes(i, "probe", t)
      BY <2>3, <3>1, <3>2 DEF WatchGoes, WatchStep, JobStep, Watching
    <3> QED
      BY <3>3
  <2> QED
    BY <1>8, <2>2, <2>3 DEF WatchAsks
<1> QED
  BY <1>1, <1>2, <1>3, <1>4, <1>5, <1>6, <1>7, <1>8 DEF RegistryNext, Owners

-----------------
(* What is true of every step.                                             *)

WriteBody(t) == t.does = "body" /\ t.status # "none"

\* A body writes.
Writing ==
    /\ microtasks # <<>> /\ Head(microtasks) \in Queued /\ WriteBody(Head(microtasks))
    /\ file' = [Head(microtasks).seen EXCEPT ![Head(microtasks).of] = Head(microtasks).status]
    /\ wrote' = [wrote EXCEPT ![Head(microtasks).of] = Head(microtasks).status]
    /\ UNCHANGED <<position, job>> /\ Queued' = ToSet(Tail(microtasks))

\* No body writes.
Untouched == UNCHANGED <<file, wrote>> /\ (microtasks # <<>> => ~WriteBody(Head(microtasks)))

\* How a job moves.
Moves(i) ==
    \/ job[i] = "none" /\ job'[i] = "slot" /\ wrote[i] = listed[i]
    \/ job[i] = "slot" /\ job'[i] = "read"
    \/ job[i] = "read" /\ job'[i] = "marked"
    \/ job[i] = "marked" /\ job'[i] = "gone" /\ i \notin files
    \/ job[i] = "marked" /\ job'[i] = "terraform" /\ i \in files
    \/ job[i] = "terraform" /\ job'[i] \in {"gone", "failed"} /\ i \in files /\ \A t \in Queued' : t.who = i
    \/ job[i] \in {"gone", "failed"} /\ job'[i] = "concluded" /\ \E t \in Queued' : t.who = i /\ t.does = "body"
    \/ job[i] = "concluded" /\ job'[i] = "none" /\ \A t \in Queued : t.who = i => t.does # "body"
    \/ job[i] = "none" /\ job'[i] = "watch"
    \/ job[i] \in Watching /\ job'[i] \in (Watching \ {"watch"}) \cup {"none"}

\* What is true of every step.
Frame ==
    /\ UNCHANGED <<turn, files, listed>>
    /\ Writing \/ Untouched
    /\ \A t \in Queued' : t.does = "body" => t \in Queued \/ (t.seen = file /\ Untouched)
    /\ \A t \in Queued : t \in Queued' \/ (microtasks # <<>> /\ t = Head(microtasks))
    /\ \A i \in Instances : job'[i] = job[i] \/ (Moves(i) /\ Untouched)
    /\ position' \in Int /\ position' >= position

\* A destroy has come to its end.
Done == {"destroyed", "failed"}

\* What the instances ahead, and those whose job has not marked yet, have is what was listed.
Unwritten ==
    \A i \in Instances :
        \/ job[i] \in {"slot", "read"}
        \/ turn = "recovery" /\ job[i] \in {"marked", "terraform", "gone", "failed"}
        \/ turn = "recovery" /\ listed[i] = "bootstrapping"
        \/ i > position
        => wrote[i] = listed[i]

\* What may be listed, and that only what can be destroyed has files.
ListedAre ==
    /\ \A i \in Instances : listed[i] \in (IF turn = "bulk" THEN {"ready", "destroyed"} ELSE {"ready", "applying", "destroying", "bootstrapping"})
    /\ \A i \in files : listed[i] = (IF turn = "bulk" THEN "ready" ELSE "destroying")

\* The instance that bulk-destroy is at has no job and is as it was listed.
Fresh(i) == i \in Instances /\ job[i] = "none" /\ wrote[i] = listed[i]
\* One that bulk-destroy is done with: it is destroyed, or has a job, or its job is over.
Reached(i) == i \in Instances /\ (listed[i] = "destroyed" \/ job[i] # "none" \/ wrote[i] \in Done)

\* What bulk-destroy knows of the instance it is at.
LoopAt(t) ==
    /\ t.does = "body" => Fresh(position) /\ t.seen[position] = listed[position]
    /\ t.does = "adopt" => Fresh(position) /\ (got = listed[position] \/ \E u \in Queued : u.who = Loop /\ u.does = "body")
    /\ t.does = "settle" => Fresh(position) /\ got = listed[position]
    /\ t.does = "resume" => \/ got = "none" /\ (position = 0 \/ Reached(position))
                            \/ Fresh(position) /\ got = listed[position]

\* Where the loops are.
LoopInv ==
    \A t \in Queued : t.who = Loop =>
        IF turn = "bulk" THEN LoopAt(t) /\ position <= NumInstances
        ELSE position = 0 \/ (position \in Instances /\ listed[position] = "applying") \/ Doing(Loop, "resume")

LEMMA StartsFrame ==
    ASSUME NEW ids, NEW own, NEW rest, QueueInv, Starts(ids, own, rest), \A t \in ToSet(own) : t.does = "body" => t.seen = file,
           \A i \in ToSet(ids) : wrote[i] = listed[i]
    PROVE  Frame
<1>0. RegistryTypes
  BY DEF QueueInv
<1>1. /\ \E a \in Seq(Instances) : Started(ids, own, rest, a)
      /\ \A i \in Instances : job'[i] = IF i \in ToSet(ids) THEN "slot" ELSE job[i]
  BY StartsQueue
<1>2. PICK a \in Seq(Instances) : Queued' = ToSet(rest) \cup {Resume(i) : i \in ToSet(a)} \cup ToSet(own)
  BY <1>1 DEF Started
<1>3. /\ Doing(Loop, "resume") /\ UNCHANGED <<turn, file, files, listed, wrote>>
      /\ \A i \in ToSet(ids) : job[i] = "none"
      /\ position' \in position .. NumInstances + 1
      /\ rest = Tail(microtasks) \/ rest = microtasks
  BY DEF Starts
<1>4. /\ microtasks # <<>> /\ Head(microtasks).does = "resume" /\ Queued = {Head(microtasks)} \cup ToSet(Tail(microtasks))
  BY <1>3, LoopsTurn
<1>11. ToSet(rest) = ToSet(Tail(microtasks)) \/ ToSet(rest) = Queued
  BY <1>3 DEF Queued
<1>5. Untouched
  BY <1>3, <1>4 DEF Untouched, WriteBody
<1>6. \A i : Resume(i).does = "resume"
  BY DEF Resume
<1>7. ASSUME NEW t \in Queued', t.does = "body" PROVE t \in Queued \/ t.seen = file
  BY <1>2, <1>4, <1>6, <1>7, <1>11
<1>8. position' \in Int /\ position' >= position
  BY <1>0, <1>3, OwnersAre DEF RegistryTypes
<1>9. \A i \in Instances : job'[i] = job[i] \/ Moves(i)
  BY <1>1, <1>3 DEF Moves
<1>10. \A t \in Queued : t \in Queued' \/ (microtasks # <<>> /\ t = Head(microtasks))
  BY <1>2, <1>4, <1>11
<1> QED
  BY <1>3, <1>5, <1>7, <1>8, <1>9, <1>10 DEF Frame

LEMMA BodyFrame ==
    ASSUME NEW who \in Owners, QueueInv, Body(who)
    PROVE  Frame
<1>0. position \in Int
  BY OwnersAre DEF QueueInv, RegistryTypes
<1>1. /\ Queued' = ToSet(Tail(microtasks)) /\ microtasks # <<>> /\ Head(microtasks) \in Queued
      /\ Head(microtasks).does = "body" /\ \A t \in Queued' : t \in Queued
  BY BodyQueue
<1>2. UNCHANGED <<turn, files, listed, position, job>>
  BY DEF Body
<1>3. Writing \/ Untouched
  <2>1. CASE Head(microtasks).status = "none"
    BY <1>1, <2>1 DEF Body, Untouched, WriteBody
  <2>2. CASE Head(microtasks).status # "none"
    BY <1>1, <1>2, <2>2 DEF Body, Writing, WriteBody
  <2> QED
    BY <2>1, <2>2
<1>4. Queued = {Head(microtasks)} \cup ToSet(Tail(microtasks))
  BY <1>1, TailIs
<1>5. position' \in Int /\ position' >= position
  BY <1>0, <1>2
<1> QED
  BY <1>1, <1>2, <1>3, <1>4, <1>5 DEF Frame

\* A step whose head is not a body, and that changes no file.
LEMMA QuietFrame ==
    ASSUME NEW W, QueueInv, microtasks # <<>>, Head(microtasks).does # "body",
           Queued' = ToSet(Tail(microtasks)) \cup W, \A t \in W : t.does = "body" => t.seen = file,
           UNCHANGED <<turn, file, files, listed, wrote>>, \A i \in Instances : job'[i] = job[i] \/ Moves(i),
           position' \in Int, position' >= position
    PROVE  Frame
<1>1. Untouched
  BY DEF Untouched, WriteBody
<1>2. Queued = {Head(microtasks)} \cup ToSet(Tail(microtasks))
  BY TailIs
<1> QED
  BY <1>1, <1>2 DEF Frame

LEMMA FrameIs ==
    ASSUME QueueInv, RegistryNext, Unwritten, ListedAre, LoopInv
    PROVE  QueueInv' /\ Frame
<1>0. RegistryTypes /\ position \in Int /\ position >= position
  BY OwnersAre DEF QueueInv, RegistryTypes
<1>1. ASSUME RecoverDestroys PROVE QueueInv' /\ Frame
  <2>1. PICK p \in Instances : /\ RecoversTo(p, "destroying") /\ job[p] = "none"
                               /\ Starts(<<p>>, <<>>, microtasks) /\ ToSet(<<p>>) = {p} /\ Len(<<p>>) = 1
    BY <1>1, RecoverStarts
  <2>2. \A t \in ToSet(<<>>) : t.does = "body" => t.seen = file
    BY NoTasks
  <2>3. p > position /\ wrote[p] = listed[p]
    BY <1>0, <2>1, OwnersAre DEF RecoversTo, Unwritten
  <2>4. \A i \in ToSet(<<p>>) : wrote[i] = listed[i]
    BY <2>1, <2>3
  <2> QED
    BY <2>1, <2>2, <2>4, StartsQueue, StartsFrame
<1>11. ASSUME RecoverPasses PROVE QueueInv' /\ Frame
  <2>1. QueueInv' /\ Queued' = Queued /\ \E p \in Instances : RecoversTo(p, "ready")
    BY <1>11, RecoverPassesQueue
  <2>2. PICK p \in Instances : RecoversTo(p, "ready")
    BY <2>1
  <2>3. microtasks # <<>> /\ Head(microtasks).does = "resume" /\ Head(microtasks) \in Queued
    BY <2>2, LoopsTurn DEF RecoversTo
  <2>4. PICK W : W = {Head(microtasks)}
    OBVIOUS
  <2>5. Queued' = ToSet(Tail(microtasks)) \cup W
    BY <2>1, <2>3, <2>4, TailIs
  <2>6. position' \in Int /\ position' >= position /\ UNCHANGED <<turn, file, files, listed, wrote>>
    BY <1>0, <2>2, OwnersAre DEF RecoversTo
  <2>7. \A i \in Instances : job'[i] = job[i] \/ Moves(i)
    BY <1>11 DEF RecoverPasses
  <2>8. Head(microtasks).does # "body" /\ \A t \in W : t.does = "body" => t.seen = file
    BY <2>3, <2>4
  <2> QED
    BY <2>1, <2>3, <2>5, <2>6, <2>7, <2>8, QuietFrame
<1>12. ASSUME RecoverWatches PROVE QueueInv' /\ Frame
  <2>1. PICK p \in Instances, b, a \in Tasks :
               /\ QueueInv' /\ RecoversTo(p, "bootstrapping") /\ job[p] = "none"
               /\ Queued' = Queued \cup {b, a} /\ microtasks' = microtasks \o <<b, a>>
               /\ b.does = "body" /\ b.seen = file /\ b.status = "none" /\ a.does = "adopt" /\ b.who = p /\ a.who = p
               /\ UNCHANGED <<holds, waiters>> /\ job'[p] = "watch" /\ \A j \in Instances : j # p => job'[j] = job[j]
    BY <1>12, RecoverWatchesQueue
  <2>3. microtasks # <<>> /\ Head(microtasks).does = "resume" /\ Head(microtasks) \in Queued
    BY <2>1, LoopsTurn DEF RecoversTo
  <2>4. PICK W : W = {Head(microtasks), b, a}
    OBVIOUS
  <2>5. Queued' = ToSet(Tail(microtasks)) \cup W
    BY <2>1, <2>3, <2>4, TailIs
  <2>6. position' \in Int /\ position' >= position /\ UNCHANGED <<turn, file, files, listed, wrote>>
    BY <1>0, <2>1, OwnersAre DEF RecoversTo
  <2>7. \A i \in Instances : job'[i] = job[i] \/ Moves(i)
    BY <2>1 DEF Moves
  <2>8. Head(microtasks).does # "body" /\ \A t \in W : t.does = "body" => t.seen = file
    BY <2>1, <2>3, <2>4
  <2> QED
    BY <2>1, <2>3, <2>5, <2>6, <2>7, <2>8, QuietFrame
<1>13. ASSUME RecoverMarks PROVE QueueInv' /\ Frame
  <2>1. PICK p \in Instances, b, a \in Tasks :
               /\ QueueInv' /\ RecoversTo(p, "applying")
               /\ Queued' = ToSet(Tail(microtasks)) \cup {b, a} /\ microtasks' = Tail(microtasks) \o <<b, a>>
               /\ b.does = "body" /\ b.seen = file /\ b.of = p /\ a.does = "adopt" /\ b.who = Loop /\ a.who = Loop
               /\ UNCHANGED <<job, holds, waiters>>
    BY <1>13, RecoverMarksQueue
  <2>2. microtasks # <<>> /\ Head(microtasks).does # "body"
    BY <2>1 DEF RecoversTo, Doing
  <2>3. PICK W : W = {b, a}
    OBVIOUS
  <2>4. position' \in Int /\ position' >= position /\ UNCHANGED <<turn, file, files, listed, wrote>>
    BY <1>0, <2>1, OwnersAre DEF RecoversTo
  <2>5. Queued' = ToSet(Tail(microtasks)) \cup W /\ \A t \in W : t.does = "body" => t.seen = file
    BY <2>1, <2>3
  <2>6. \A i \in Instances : job'[i] = job[i] \/ Moves(i)
    BY <2>1
  <2> QED
    BY <2>1, <2>2, <2>4, <2>5, <2>6, QuietFrame
<1>2. ASSUME BulkReads PROVE QueueInv' /\ Frame
  <2>1. PICK b, a \in Tasks :
               /\ QueueInv' /\ Queued' = ToSet(Tail(microtasks)) \cup {b, a} /\ b.seen = file /\ a.does = "adopt"
               /\ position' \in Instances /\ position' = position + 1
    <3>1. \E b, a \in Tasks :
               /\ QueueInv' /\ Queued' = ToSet(Tail(microtasks)) \cup {b, a} /\ microtasks' = Tail(microtasks) \o <<b, a>>
               /\ b.does = "body" /\ b.seen = file /\ b.status = "none" /\ a.does = "adopt" /\ b.who = Loop /\ a.who = Loop
               /\ position' \in Instances /\ position' = position + 1
      BY <1>2, BulkReadsQueue
    <3> QED
      BY <3>1
  <2>2. /\ UNCHANGED <<turn, file, files, listed, wrote, job>> /\ Doing(Loop, "resume")
    BY <1>2 DEF BulkReads
  <2>3. microtasks # <<>> /\ Head(microtasks).does # "body"
    BY <2>2 DEF Doing
  <2>4. position' \in Int /\ position' >= position
    BY <1>0, <2>1
  <2>5. PICK W : W = {b, a}
    OBVIOUS
  <2>6. /\ Queued' = ToSet(Tail(microtasks)) \cup W /\ \A t \in W : t.does = "body" => t.seen = file
    BY <2>1, <2>5
  <2>7. \A i \in Instances : job'[i] = job[i] \/ Moves(i)
    BY <2>2
  <2> QED
    BY <2>1, <2>2, <2>3, <2>4, <2>6, <2>7, QuietFrame
<1>3. ASSUME BulkDestroys PROVE QueueInv' /\ Frame
  <2>1. /\ turn = "bulk" /\ Doing(Loop, "resume") /\ got \notin {"none", "destroyed"}
    BY <1>3 DEF BulkDestroys
  <2>2. LoopAt(Head(microtasks))
    BY <2>1, LoopsTurn DEF LoopInv
  <2>3. Fresh(position) /\ got = listed[position]
    BY <2>1, <2>2 DEF LoopAt, Doing
  <2>4. position \in Instances /\ job[position] = "none" /\ listed[position] = "ready" /\ wrote[position] = listed[position]
    BY <2>1, <2>3 DEF Fresh, ListedAre
  <2>5. /\ Starts(<<position>>, <<Resume(Loop)>>, Tail(microtasks)) /\ ToSet(<<position>>) = {position} /\ ToSet(<<Resume(Loop)>>) = {Resume(Loop)}
    BY <1>3, <2>4, BulkDestroysStarts
  <2>6. \A t \in ToSet(<<Resume(Loop)>>) : t.does = "body" => t.seen = file
    BY <2>5 DEF Resume
  <2>7. \A i \in ToSet(<<position>>) : wrote[i] = listed[i]
    BY <2>4, <2>5
  <2> QED
    BY <2>5, <2>6, <2>7, StartsQueue, StartsFrame
<1>4. ASSUME BulkEnds \/ RecoverEnds PROVE QueueInv' /\ Frame
  <2>1. QueueInv' /\ Queued' = ToSet(Tail(microtasks)) \cup {}
    BY <1>4, LoopEndsQueue
  <2>2. /\ UNCHANGED <<turn, file, files, listed, wrote, job, position>> /\ microtasks # <<>> /\ Head(microtasks).does # "body"
    BY <1>4 DEF BulkEnds, RecoverEnds, Doing
  <2> QED
    BY <1>0, <2>1, <2>2, QuietFrame
<1>5. ASSUME NEW who \in Owners, Body(who) PROVE QueueInv' /\ Frame
  BY <1>5, BodyQueue, BodyFrame
<1>6. ASSUME NEW who \in Owners, Settle(who) PROVE QueueInv' /\ Frame
  <2>1. PICK t \in Tasks :
               /\ QueueInv' /\ Queued' = ToSet(Tail(microtasks)) \cup {t} /\ microtasks # <<>>
               /\ \/ Head(microtasks).does = "adopt" /\ t.does = "settle"
                  \/ Head(microtasks).does = "settle" /\ t.does = "resume"
               /\ UNCHANGED <<turn, file, files, listed, position, job, wrote>>
    <3>1. \E t \in Tasks :
               /\ QueueInv' /\ Queued' = ToSet(Tail(microtasks)) \cup {t} /\ microtasks' = Tail(microtasks) \o <<t>>
               /\ microtasks # <<>> /\ Head(microtasks) \in Queued /\ Head(microtasks) \in Tasks /\ Head(microtasks).who = who /\ t.who = who
               /\ \/ Head(microtasks).does = "adopt" /\ t.does = "settle"
                  \/ Head(microtasks).does = "settle" /\ t.does = "resume"
               /\ \A o \in ToSet(Tail(microtasks)) : o \in Queued /\ o.who # who
               /\ UNCHANGED <<turn, file, files, listed, position, got, job, holds, waiters, wrote>>
      BY <1>6, SettleQueue
    <3> QED
      BY <3>1
  <2>2. PICK W : W = {t}
    OBVIOUS
  <2>3. /\ Queued' = ToSet(Tail(microtasks)) \cup W /\ \A u \in W : u.does = "body" => u.seen = file
    BY <2>1, <2>2
  <2>4. Head(microtasks).does # "body" /\ \A i \in Instances : job'[i] = job[i] \/ Moves(i)
    BY <2>1
  <2> QED
    BY <1>0, <2>1, <2>3, <2>4, QuietFrame
<1>7. ASSUME NEW i \in Instances, NEW from, NEW to, NEW status, JobCalls(i, from, to, status) PROVE QueueInv' /\ Frame
  <2>1. QueueInv' /\ Queued' = ToSet(Tail(microtasks)) \cup ToSet(Call(i, i, status))
    BY <1>7, JobCallsQueue
  <2>2. /\ Passes(i, from, to, status) /\ Doing(i, "resume") /\ job[i] = from /\ job' = [job EXCEPT ![i] = to]
        /\ UNCHANGED <<turn, file, files, listed, position, wrote>>
    BY <1>7 DEF JobCalls, JobStep
  <2>3. \A j \in Instances : job'[j] = IF j = i THEN to ELSE job[j]
    BY <1>0, <2>2 DEF RegistryTypes
  <2> DEFINE b == [who |-> i, does |-> "body", of |-> i, seen |-> file, status |-> status]
             a == [who |-> i, does |-> "adopt"]
  <2>4. ToSet(Call(i, i, status)) = {b, a}
    <3>1. status \in States \cup {"none"} /\ i \in Owners
      BY <2>2, PassesIs, OwnersAre
    <3> QED
      BY <1>0, <3>1, CallIs
  <2>5. b.who = i /\ b.does = "body" /\ b.seen = file /\ a.does = "adopt"
    OBVIOUS
  <2> HIDE DEF a, b
  <2>6. \A t \in ToSet(Call(i, i, status)) : t.does = "body" => t.seen = file
    BY <2>4, <2>5
  <2>7. Moves(i)
    BY <2>1, <2>2, <2>3, <2>4, <2>5 DEF Passes, Moves, Watching
  <2>8. \A j \in Instances : job'[j] = job[j] \/ Moves(j)
    BY <2>3, <2>7
  <2>9. microtasks # <<>> /\ Head(microtasks).does # "body"
    BY <2>2 DEF Doing
  <2> QED
    BY <1>0, <2>1, <2>2, <2>6, <2>8, <2>9, QuietFrame
<1>8. ASSUME NEW i \in Instances, JobRuns(i) PROVE QueueInv' /\ Frame
  <2>1. /\ i \in files /\ Doing(i, "resume") /\ job[i] = "marked" /\ job' = [job EXCEPT ![i] = "terraform"]
        /\ UNCHANGED <<turn, file, files, listed, position, wrote>> /\ UNCHANGED <<holds, waiters>>
        /\ JobStep(i, job[i], "terraform", <<>>) /\ job[i] \in Working
    BY <1>8 DEF JobRuns, JobStep, Working
  <2>2. QueueInv' /\ Queued' = ToSet(Tail(microtasks)) \cup {}
    BY <2>1, JobRunsQueue
  <2>3. \A j \in Instances : job'[j] = IF j = i THEN "terraform" ELSE job[j]
    BY <1>0, <2>1 DEF RegistryTypes
  <2>4. \A j \in Instances : job'[j] = job[j] \/ Moves(j)
    BY <2>1, <2>3 DEF Moves
  <2>5. microtasks # <<>> /\ Head(microtasks).does # "body"
    BY <2>1 DEF Doing
  <2> QED
    BY <1>0, <2>1, <2>2, <2>4, <2>5, QuietFrame
<1>9. ASSUME NEW i \in Instances, JobLeaves(i) \/ JobHands(i) PROVE QueueInv' /\ Frame
  <2>1. /\ Doing(i, "resume") /\ job[i] = "concluded" /\ job' = [job EXCEPT ![i] = "none"]
        /\ UNCHANGED <<turn, file, files, listed, position, wrote>>
    BY <1>9 DEF JobLeaves, JobHands, JobStep
  <2>2. PICK W : QueueInv' /\ Queued' = ToSet(Tail(microtasks)) \cup W /\ \A t \in W : t.does = "resume"
    <3>1. CASE JobLeaves(i)
      <4>1. /\ JobStep(i, job[i], "none", <<>>) /\ holds' = holds \ {i} /\ waiters = <<>> /\ UNCHANGED waiters
            /\ job[i] # "slot"
        BY <3>1 DEF JobLeaves, JobStep
      <4>2. PICK W : W = {}
        OBVIOUS
      <4>3. QueueInv' /\ Queued' = ToSet(Tail(microtasks)) \cup W /\ \A t \in W : t.does = "resume"
        BY <4>1, <4>2, JobRunsQueue
      <4> QED
        BY <4>3
    <3>2. CASE JobHands(i)
      <4>1. \E t \in Tasks :
               /\ QueueInv' /\ Queued' = ToSet(Tail(microtasks)) \cup {t} /\ microtasks' = Tail(microtasks) \o <<t>>
               /\ t.who \in Instances /\ t.who # i /\ t.does = "resume" /\ job[t.who] = "slot" /\ t.who \in ToSet(waiters)
        BY <3>2, JobHandsQueue
      <4>2. PICK t \in Tasks : QueueInv' /\ Queued' = ToSet(Tail(microtasks)) \cup {t} /\ t.does = "resume"
        BY <4>1
      <4>3. PICK W : W = {t}
        OBVIOUS
      <4>4. QueueInv' /\ Queued' = ToSet(Tail(microtasks)) \cup W /\ \A u \in W : u.does = "resume"
        BY <4>2, <4>3
      <4> QED
        BY <4>4
    <3> QED
      BY <1>9, <3>1, <3>2
  <2>3. \A j \in Instances : job'[j] = IF j = i THEN "none" ELSE job[j]
    BY <1>0, <2>1 DEF RegistryTypes
  <2>4. \A t \in Queued : t.who = i => t.does # "body"
    <3>1. \A o \in ToSet(Tail(microtasks)) : o.who # i
      BY <2>1, JobsTurn
    <3>2. Queued = {Head(microtasks)} \cup ToSet(Tail(microtasks)) /\ Head(microtasks).does = "resume"
      BY <2>1, TailIs DEF Doing
    <3> QED
      BY <3>1, <3>2
  <2>5. \A j \in Instances : job'[j] = job[j] \/ Moves(j)
    BY <2>1, <2>3, <2>4 DEF Moves
  <2>6. microtasks # <<>> /\ Head(microtasks).does # "body"
    BY <2>1 DEF Doing
  <2>7. \A t \in W : t.does = "body" => t.seen = file
    BY <2>2
  <2> QED
    BY <1>0, <2>1, <2>2, <2>5, <2>6, <2>7, QuietFrame
<1>10. ASSUME NEW i \in Instances, TerraformEnds(i) PROVE QueueInv' /\ Frame
  <2>1. PICK b, a \in Tasks :
               /\ QueueInv' /\ Queued' = {b, a} /\ b.seen = file /\ a.does = "adopt" /\ b.who = i /\ a.who = i
               /\ i \in files /\ job'[i] \in {"gone", "failed"} /\ \A j \in Instances : j # i => job'[j] = job[j]
    <3>1. \E b, a \in Tasks :
               /\ QueueInv' /\ Queued' = {b, a} /\ microtasks' = <<b, a>>
               /\ b.does = "body" /\ b.seen = file /\ b.status = "none" /\ a.does = "adopt" /\ b.who = i /\ a.who = i
               /\ i \in files /\ job'[i] \in {"gone", "failed"} /\ \A j \in Instances : j # i => job'[j] = job[j]
      BY <1>10, TerraformEndsQueue
    <3> QED
      BY <3>1
  <2>2. /\ microtasks = <<>> /\ job[i] = "terraform" /\ UNCHANGED <<turn, file, files, listed, position, wrote>>
    BY <1>10 DEF TerraformEnds
  <2>3. Untouched /\ Queued = {}
    BY <2>2, FewElements DEF Untouched, Queued
  <2>4. Moves(i)
    BY <2>1, <2>2 DEF Moves
  <2>5. \A j \in Instances : job'[j] = job[j] \/ Moves(j)
    BY <2>1, <2>4
  <2> QED
    BY <1>0, <2>1, <2>2, <2>3, <2>5 DEF Frame
<1>14. ASSUME NEW i \in Instances, WatchSleeps(i) PROVE QueueInv' /\ Frame
  <2>1. /\ Doing(i, "resume") /\ job[i] = "written" /\ job' = [job EXCEPT ![i] = "none"]
        /\ UNCHANGED <<turn, file, files, listed, position, wrote>> /\ job[i] \in Watching
    BY <1>14 DEF WatchSleeps, WatchStep, JobStep, Watching
  <2>2. PICK W : W = {}
    OBVIOUS
  <2>3. QueueInv' /\ Queued' = ToSet(Tail(microtasks)) \cup W /\ \A t \in W : t.does = "body" => t.seen = file
    BY <1>14, <2>2, SleepsQueue
  <2>4. \A j \in Instances : job'[j] = IF j = i THEN "none" ELSE job[j]
    BY <1>0, <2>1 DEF RegistryTypes
  <2>5. \A j \in Instances : job'[j] = job[j] \/ Moves(j)
    BY <2>1, <2>4 DEF Moves
  <2>6. microtasks # <<>> /\ Head(microtasks).does # "body"
    BY <2>1 DEF Doing
  <2> QED
    BY <1>0, <2>1, <2>3, <2>5, <2>6, QuietFrame
<1>15. ASSUME NEW i \in Instances, NEW to, NEW t, WatchGoes(i, to, t) PROVE QueueInv' /\ Frame
  <2>1. /\ Doing(i, "resume") /\ job[i] \in Watching /\ job' = [job EXCEPT ![i] = to] /\ to \in {"collect", "probe"}
        /\ t.does \in {"resume", "adopt"} /\ UNCHANGED <<turn, file, files, listed, position, wrote>>
    BY <1>15 DEF WatchGoes, JobStep
  <2>2. QueueInv' /\ Queued' = ToSet(Tail(microtasks)) \cup {t}
    BY <1>15, WatchGoesQueue
  <2>3. \A j \in Instances : job'[j] = IF j = i THEN to ELSE job[j]
    BY <1>0, <2>1 DEF RegistryTypes
  <2>4. \A j \in Instances : job'[j] = job[j] \/ Moves(j)
    BY <2>1, <2>3 DEF Moves, Watching
  <2>5. microtasks # <<>> /\ Head(microtasks).does # "body"
    BY <2>1 DEF Doing
  <2>6. PICK W : W = {t}
    OBVIOUS
  <2>7. Queued' = ToSet(Tail(microtasks)) \cup W /\ \A u \in W : u.does = "body" => u.seen = file
    BY <2>1, <2>2, <2>6
  <2> QED
    BY <1>0, <2>1, <2>2, <2>4, <2>5, <2>7, QuietFrame
<1> QED
  BY <1>1, <1>2, <1>3, <1>4, <1>5, <1>6, <1>7, <1>8, <1>9, <1>10, <1>11, <1>12, <1>13, <1>14, <1>15, StepsAre

-----------------------------------------------------------------------------
(* What is written, and by whom.                                           *)

\* Who writes what.
LEMMA WriterIs ==
    ASSUME QueueInv, NEW t \in Queued, WriteBody(t)
    PROVE  /\ t.does = "body" /\ t.of \in Instances /\ t.seen \in Files /\ t.status \in States /\ t.who \in Owners
           /\ t.who \in Instances => /\ t.of = t.who /\ job[t.of] \in {"marked", "concluded", "written"}
                                     /\ job[t.of] = "marked" => t.status = "destroying"
                                     /\ job[t.of] = "concluded" => t.status \in Done
                                     /\ job[t.of] = "written" => t.status = "bootstrapping" /\ turn = "recovery"
                                     /\ t.of <= position /\ listed[t.of] = ListedFor(job[t.of])
           /\ t.who = Loop => /\ turn = "recovery" /\ t.of = position /\ t.status = "failed"
                              /\ listed[t.of] = "applying" /\ job[t.of] = "none"
           /\ t.who \in Instances \/ t.who = Loop
<1>1. t \in Tasks /\ turn \in {"bulk", "recovery"}
  BY OfItsElements DEF QueueInv, RegistryTypes, Queued, ToSet
<1>2. t.who \in Owners /\ t.does = "body" /\ t.of \in Instances /\ t.seen \in Files /\ t.status \in States
  BY <1>1, TaskFields DEF WriteBody
<1>3. ASSUME t.who \in Instances
      PROVE  /\ t.of = t.who /\ job[t.of] \in {"marked", "concluded", "written"}
             /\ job[t.of] = "marked" => t.status = "destroying"
             /\ job[t.of] = "concluded" => t.status \in Done
             /\ job[t.of] = "written" => t.status = "bootstrapping" /\ turn = "recovery"
             /\ t.of <= position /\ listed[t.of] = ListedFor(job[t.of])
  <2>1. OfJob(t)
    BY <1>3 DEF QueueInv
  <2>2. job[t.who] \in Busy /\ t.of = t.who /\ t.status \in JobWrites(job[t.who]) /\ t.status # "none"
    BY <1>2, <2>1 DEF OfJob, WriteBody
  <2>3. job[t.of] # "none"
    BY <2>2 DEF Busy, Working, Watching
  <2>4. t.of <= position /\ listed[t.of] = ListedFor(job[t.of]) /\ (job[t.of] \in Watching => turn = "recovery")
    BY <1>2, <2>3 DEF QueueInv
  <2>5. job[t.of] \in {"marked", "concluded", "written"}
    BY <2>2 DEF Busy, Working, Watching, JobWrites
  <2> QED
    BY <2>2, <2>4, <2>5 DEF JobWrites, Done, Watching
<1>4. ASSUME t.who = Loop
      PROVE  turn = "recovery" /\ t.of = position /\ t.status = "failed" /\ listed[t.of] = "applying" /\ job[t.of] = "none"
  <2>1. OfLoop(t)
    BY <1>4 DEF QueueInv
  <2>2. turn = "recovery" /\ t.of = position /\ t.status = "failed" /\ listed[t.of] = "applying"
    BY <1>1, <1>2, <2>1 DEF OfLoop, WriteBody
  <2> QED
    BY <1>2, <2>2 DEF QueueInv, ListedFor
<1> QED
  BY <1>2, <1>3, <1>4, OwnersAre

\* What is written, and what not.
LEMMA WritingIs ==
    ASSUME QueueInv, Writing, NEW h, h = Head(microtasks)
    PROVE  /\ h \in Queued /\ WriteBody(h) /\ h.of \in Instances
           /\ \A i \in Instances : i # h.of => wrote'[i] = wrote[i] /\ file'[i] = h.seen[i]
           /\ wrote'[h.of] = h.status /\ file'[h.of] = h.status
           /\ UNCHANGED <<position, job>>
<1>1. /\ h \in Queued /\ WriteBody(h) /\ UNCHANGED <<position, job>>
      /\ file' = [h.seen EXCEPT ![h.of] = h.status] /\ wrote' = [wrote EXCEPT ![h.of] = h.status]
  BY DEF Writing
<1>2. h.of \in Instances /\ h.seen \in Files
  BY <1>1, WriterIs
<1>3. wrote \in Files
  BY DEF QueueInv, RegistryTypes
<1> QED
  BY <1>1, <1>2, <1>3 DEF Files

LEMMA UnwrittenStep ==
    ASSUME QueueInv, Frame, Unwritten
    PROVE  Unwritten'
<1> DEFINE Early(i) == \/ job[i] \in {"slot", "read"}
                       \/ turn = "recovery" /\ job[i] \in {"marked", "terraform", "gone", "failed"}
                       \/ turn = "recovery" /\ listed[i] = "bootstrapping"
                       \/ i > position
<1> SUFFICES ASSUME NEW i \in Instances, Early(i)' PROVE wrote'[i] = listed'[i]
  BY DEF Unwritten
<1>1. turn' = turn /\ listed' = listed /\ position' \in Int /\ position' >= position
  BY DEF Frame
<1>2. position \in Int /\ i \in Int
  BY OwnersAre DEF QueueInv, RegistryTypes
<1>3. i > position' => i > position
  BY <1>1, <1>2
<1>4. Early(i) => wrote[i] = listed[i]
  BY DEF Unwritten
<1>5. CASE Untouched
  <2>1. wrote'[i] = wrote[i]
    BY <1>5 DEF Untouched
  <2>2. CASE job'[i] = job[i]
    BY <1>1, <1>3, <1>4, <2>1, <2>2
  <2>3. CASE Moves(i)
    BY <1>1, <1>3, <1>4, <2>1, <2>3 DEF Moves, Watching
  <2> QED
    BY <2>2, <2>3 DEF Frame
<1>6. CASE Writing
  <2>1. PICK h : h = Head(microtasks)
    OBVIOUS
  <2>2. /\ h \in Queued /\ WriteBody(h) /\ h.of \in Instances
        /\ i # h.of => wrote'[i] = wrote[i]
        /\ wrote'[h.of] = h.status
        /\ UNCHANGED <<position, job>>
    BY <1>6, <2>1, WritingIs
  <2>3. CASE i # h.of
    BY <1>1, <1>4, <2>2, <2>3
  <2>4. CASE i = h.of /\ h.who \in Instances
    <3>1. /\ job[i] \in {"marked", "concluded", "written"} /\ (job[i] = "marked" => h.status = "destroying")
          /\ job[i] = "written" => h.status = "bootstrapping" /\ turn = "recovery"
          /\ i <= position /\ listed[i] = ListedFor(job[i])
      BY <2>2, <2>4, WriterIs
    <3>2. ~(i > position)
      BY <1>2, <3>1
    <3>3. CASE job[i] = "written"
      BY <1>1, <2>2, <2>4, <3>1, <3>3 DEF ListedFor, Watching
    <3>4. CASE job[i] # "written"
      <4>1. listed[i] = IF turn = "bulk" THEN "ready" ELSE "destroying"
        BY <3>1, <3>4 DEF ListedFor, Watching
      <4>2. turn = "recovery" /\ job[i] = "marked"
        BY <1>1, <2>2, <3>1, <3>2, <3>4, <4>1
      <4> QED
        BY <1>1, <2>2, <2>4, <3>1, <4>1, <4>2
    <3> QED
      BY <3>3, <3>4
  <2>5. CASE i = h.of /\ h.who = Loop
    <3>1. i = position /\ job[i] = "none" /\ listed[i] = "applying"
      BY <2>2, <2>5, WriterIs
    <3> QED
      BY <1>1, <1>2, <2>2, <3>1
  <2> QED
    BY <2>2, <2>3, <2>4, <2>5, WriterIs
<1> QED
  BY <1>5, <1>6 DEF Frame

\* A job that has concluded has written its end, or is about to.
Concluded ==
    \A i \in Instances : job[i] = "concluded" => wrote[i] \in Done \/ \E t \in Queued : t.who = i /\ t.does = "body"

LEMMA ConcludedStep ==
    ASSUME QueueInv, Frame, Concluded
    PROVE  Concluded'
<1> SUFFICES ASSUME NEW i \in Instances, job'[i] = "concluded"
             PROVE  wrote'[i] \in Done \/ \E t \in Queued' : t.who = i /\ t.does = "body"
  BY DEF Concluded
<1>1. CASE job'[i] # job[i]
  BY <1>1 DEF Frame, Moves, Watching
<1>2. CASE job[i] = "concluded"
  <2>1. PICK h : h = Head(microtasks)
    OBVIOUS
  <2>2. wrote[i] \in Done \/ \E t \in Queued : t.who = i /\ t.does = "body"
    BY <1>2 DEF Concluded
  <2>3. CASE Writing
    <3>1. /\ h \in Queued /\ WriteBody(h) /\ h.of \in Instances
          /\ i # h.of => wrote'[i] = wrote[i]
          /\ wrote'[h.of] = h.status
      BY <2>1, <2>3, WritingIs
    <3>2. h.of = i => h.status \in Done
      BY <1>2, <3>1, WriterIs
    <3>3. h.who = i => h.of = i
      BY <3>1, WriterIs
    <3>4. \A t \in Queued : t \in Queued' \/ t = h
      BY <2>1 DEF Frame
    <3> QED
      BY <2>2, <3>1, <3>2, <3>3, <3>4
  <2>4. CASE Untouched
    <3>1. wrote'[i] = wrote[i] /\ (microtasks # <<>> => ~WriteBody(h))
      BY <2>1, <2>4 DEF Untouched
    <3>2. ASSUME NEW t \in Queued, t.who = i, t.does = "body" PROVE WriteBody(t)
      <4>1. OfJob(t)
        BY <3>2 DEF QueueInv
      <4>2. t.status \in JobWrites("concluded")
        BY <1>2, <3>2, <4>1 DEF OfJob
      <4> QED
        BY <3>2, <4>2 DEF JobWrites, WriteBody
    <3>3. \A t \in Queued : t \in Queued' \/ (microtasks # <<>> /\ t = h)
      BY <2>1 DEF Frame
    <3> QED
      BY <2>2, <3>1, <3>2, <3>3
  <2> QED
    BY <2>3, <2>4 DEF Frame
<1> QED
  BY <1>1, <1>2

\* An instance that bulk-destroy has left keeps what was listed, or has come to its end.
Settled ==
    turn = "bulk" => \A i \in Instances : /\ job[i] = "none" => wrote[i] = listed[i] \/ wrote[i] \in Done
                                          /\ listed[i] = "destroyed" => wrote[i] = "destroyed"

LEMMA BulkWrites ==
    ASSUME QueueInv, Frame, turn = "bulk", NEW i \in Instances, wrote'[i] # wrote[i]
    PROVE  job[i] # "none" /\ job'[i] = job[i] /\ listed[i] = "ready"
<1>1. PICK h : h = Head(microtasks)
  OBVIOUS
<1>2. Writing
  BY DEF Frame, Untouched
<1>3. h \in Queued /\ WriteBody(h) /\ i = h.of /\ job' = job
  BY <1>1, <1>2, WritingIs
<1>4. h.who # Loop
  BY <1>3, WriterIs
<1>5. h.who \in Instances
  BY <1>3, <1>4, WriterIs
<1>6. job[i] # "none" /\ listed[i] = ListedFor(job[i])
  BY <1>3, <1>5, WriterIs
<1> QED
  BY <1>3, <1>6 DEF ListedFor

LEMMA SettledStep ==
    ASSUME QueueInv, Frame, Concluded, Settled
    PROVE  Settled'
<1> SUFFICES ASSUME turn = "bulk", NEW i \in Instances
             PROVE  /\ job'[i] = "none" => wrote'[i] = listed[i] \/ wrote'[i] \in Done
                    /\ listed[i] = "destroyed" => wrote'[i] = "destroyed"
  BY DEF Settled, Frame
<1>1. /\ job[i] = "none" => wrote[i] = listed[i] \/ wrote[i] \in Done
      /\ listed[i] = "destroyed" => wrote[i] = "destroyed"
  BY DEF Settled
<1>2. wrote'[i] # wrote[i] => job[i] # "none" /\ job'[i] = job[i] /\ listed[i] = "ready"
  BY BulkWrites
<1>3. job'[i] = "none" /\ job[i] # "none" => wrote[i] \in Done
  <2>1. job'[i] = "none" /\ job[i] # "none" => job[i] = "concluded" /\ \A t \in Queued : t.who = i => t.does # "body"
    BY DEF Frame, Moves, QueueInv
  <2> QED
    BY <2>1 DEF Concluded
<1> QED
  BY <1>1, <1>2, <1>3

LEMMA ReachedStep ==
    ASSUME QueueInv, Frame, Concluded, turn = "bulk", NEW i, Reached(i)
    PROVE  Reached(i)'
<1>1. i \in Instances /\ listed' = listed
  BY DEF Reached, Frame
<1>2. wrote'[i] # wrote[i] => job[i] # "none" /\ job'[i] = job[i]
  BY <1>1, BulkWrites
<1>3. job'[i] = "none" /\ job[i] # "none" => wrote[i] \in Done
  <2>1. job'[i] = "none" /\ job[i] # "none" => job[i] = "concluded" /\ \A t \in Queued : t.who = i => t.does # "body"
    BY <1>1 DEF Frame, Moves, QueueInv
  <2> QED
    BY <1>1, <2>1 DEF Concluded
<1> QED
  BY <1>1, <1>2, <1>3 DEF Reached

LEMMA FreshStep ==
    ASSUME QueueInv, Frame, turn = "bulk", NEW i, Fresh(i), job'[i] = "none"
    PROVE  Fresh(i)'
<1>1. i \in Instances /\ listed' = listed
  BY DEF Fresh, Frame
<1>2. wrote'[i] # wrote[i] => job[i] # "none"
  BY <1>1, BulkWrites
<1> QED
  BY <1>1, <1>2 DEF Fresh

-----------------------------------------------------------------------------
(* The loop of bulk-destroy.                                               *)

\* The steps of the recovery.
Recovering == RecoverPasses \/ RecoverDestroys \/ RecoverWatches \/ RecoverMarks \/ RecoverEnds

\* A step that is not of the loop.
Others ==
    /\ UNCHANGED <<position, got>> /\ ~Doing(Loop, "resume")
    /\ \A t : t.who = Loop => (t \in Queued' <=> t \in Queued)
    /\ \A i \in Instances : job[i] = "none" => job'[i] = "none"

LEMMA OthersAre ==
    ASSUME QueueInv, RegistryNext
    PROVE  Others \/ Recovering \/ BulkReads \/ BulkDestroys \/ BulkEnds \/ Body(Loop) \/ Settle(Loop)
<1>0. RegistryTypes
  BY DEF QueueInv
<1>1. ASSUME NEW who \in Instances, Body(who) PROVE Others
  <2>1. /\ Queued' = ToSet(Tail(microtasks)) /\ microtasks # <<>> /\ Head(microtasks).who = who
    BY <1>1, OwnersAre, BodyQueue
  <2>2. Queued = {Head(microtasks)} \cup ToSet(Tail(microtasks))
    BY <2>1, TailIs
  <2>3. who # Loop
    BY OwnersAre
  <2>4. UNCHANGED <<position, got, job>>
    BY <1>1, <2>3 DEF Body
  <2> QED
    BY <2>1, <2>2, <2>3, <2>4 DEF Others, Doing
<1>2. ASSUME NEW who \in Instances, Settle(who) PROVE Others
  <2>1. PICK t \in Tasks :
               /\ Queued' = ToSet(Tail(microtasks)) \cup {t} /\ microtasks # <<>> /\ Head(microtasks).who = who /\ t.who = who
               /\ UNCHANGED <<position, got, job>>
    <3>1. \E t \in Tasks :
               /\ QueueInv' /\ Queued' = ToSet(Tail(microtasks)) \cup {t} /\ microtasks' = Tail(microtasks) \o <<t>>
               /\ microtasks # <<>> /\ Head(microtasks) \in Queued /\ Head(microtasks) \in Tasks /\ Head(microtasks).who = who /\ t.who = who
               /\ \/ Head(microtasks).does = "adopt" /\ t.does = "settle"
                  \/ Head(microtasks).does = "settle" /\ t.does = "resume"
               /\ \A o \in ToSet(Tail(microtasks)) : o \in Queued /\ o.who # who
               /\ UNCHANGED <<turn, file, files, listed, position, got, job, holds, waiters, wrote>>
      BY <1>2, OwnersAre, SettleQueue
    <3> QED
      BY <3>1
  <2>2. Queued = {Head(microtasks)} \cup ToSet(Tail(microtasks))
    BY <2>1, TailIs
  <2>3. who # Loop
    BY OwnersAre
  <2> QED
    BY <2>1, <2>2, <2>3 DEF Others, Doing
<1>3. ASSUME NEW i \in Instances, NEW from, NEW to, NEW status, JobCalls(i, from, to, status) PROVE Others
  <2>1. Queued' = ToSet(Tail(microtasks)) \cup ToSet(Call(i, i, status))
    BY <1>3, JobCallsQueue
  <2>2. /\ Passes(i, from, to, status) /\ Doing(i, "resume") /\ job[i] = from /\ job' = [job EXCEPT ![i] = to]
        /\ UNCHANGED <<position, got>>
    BY <1>3 DEF JobCalls, JobStep
  <2>3. \A t \in ToSet(Call(i, i, status)) : t.who = i
    <3>1. status \in States \cup {"none"} /\ i \in Owners
      BY <2>2, PassesIs, OwnersAre
    <3>2. PICK b, a : /\ b = [who |-> i, does |-> "body", of |-> i, seen |-> file, status |-> status]
                      /\ a = [who |-> i, does |-> "adopt"]
      OBVIOUS
    <3>3. ToSet(Call(i, i, status)) = {b, a}
      BY <1>0, <3>1, <3>2, CallIs
    <3>4. b.who = i /\ a.who = i
      BY <3>2
    <3> QED
      BY <3>3, <3>4
  <2>4. Queued = {Head(microtasks)} \cup ToSet(Tail(microtasks)) /\ Head(microtasks).who = i /\ i # Loop
    BY <2>2, TailIs, OwnersAre DEF Doing
  <2>5. \A j \in Instances : job[j] = "none" => job'[j] = "none"
    <3>1. from # "none"
      BY <2>2 DEF Passes
    <3> QED
      BY <1>0, <2>2, <3>1 DEF RegistryTypes
  <2> QED
    BY <2>1, <2>2, <2>3, <2>4, <2>5 DEF Others, Doing
<1>4. ASSUME NEW i \in Instances, JobRuns(i) \/ JobLeaves(i) \/ WatchSleeps(i) PROVE Others
  <2>1. PICK to : /\ Doing(i, "resume") /\ job[i] # "none" /\ job' = [job EXCEPT ![i] = to] /\ UNCHANGED <<position, got>>
                  /\ Queued' = ToSet(Tail(microtasks))
    <3>1. CASE JobRuns(i)
      <4>1. /\ Doing(i, "resume") /\ job[i] # "none" /\ job' = [job EXCEPT ![i] = "terraform"] /\ UNCHANGED <<position, got>>
            /\ JobStep(i, job[i], "terraform", <<>>) /\ i \in files /\ UNCHANGED <<holds, waiters>>
            /\ job[i] \in Working /\ job[i] # "slot"
        BY <3>1 DEF JobRuns, JobStep, Working
      <4>2. Queued' = ToSet(Tail(microtasks))
        BY <4>1, JobRunsQueue
      <4> QED
        BY <4>1, <4>2
    <3>2. CASE JobLeaves(i)
      <4>1. /\ Doing(i, "resume") /\ job[i] # "none" /\ job' = [job EXCEPT ![i] = "none"] /\ UNCHANGED <<position, got>>
            /\ JobStep(i, job[i], "none", <<>>) /\ holds' = holds \ {i} /\ waiters = <<>> /\ UNCHANGED waiters
            /\ job[i] # "slot"
        BY <3>2 DEF JobLeaves, JobStep
      <4>2. Queued' = ToSet(Tail(microtasks))
        BY <4>1, JobRunsQueue
      <4> QED
        BY <4>1, <4>2
    <3>3. CASE WatchSleeps(i)
      <4>1. /\ Doing(i, "resume") /\ job[i] # "none" /\ job' = [job EXCEPT ![i] = "none"] /\ UNCHANGED <<position, got>>
        BY <3>3 DEF WatchSleeps, WatchStep, JobStep
      <4>2. Queued' = ToSet(Tail(microtasks))
        BY <3>3, SleepsQueue
      <4> QED
        BY <4>1, <4>2
    <3> QED
      BY <1>4, <3>1, <3>2, <3>3
  <2>2. Queued = {Head(microtasks)} \cup ToSet(Tail(microtasks)) /\ Head(microtasks).who = i /\ i # Loop
    BY <2>1, TailIs, OwnersAre DEF Doing
  <2>3. \A j \in Instances : job[j] = "none" => job'[j] = "none"
    BY <1>0, <2>1 DEF RegistryTypes
  <2> QED
    BY <2>1, <2>2, <2>3 DEF Others, Doing
<1>5. ASSUME NEW i \in Instances, JobHands(i) PROVE Others
  <2>1. PICK t \in Tasks : Queued' = ToSet(Tail(microtasks)) \cup {t} /\ t.who \in Instances
    <3>1. \E t \in Tasks :
               /\ QueueInv' /\ Queued' = ToSet(Tail(microtasks)) \cup {t} /\ microtasks' = Tail(microtasks) \o <<t>>
               /\ t.who \in Instances /\ t.who # i /\ t.does = "resume" /\ job[t.who] = "slot" /\ t.who \in ToSet(waiters)
      BY <1>5, JobHandsQueue
    <3> QED
      BY <3>1
  <2>2. /\ Doing(i, "resume") /\ job' = [job EXCEPT ![i] = "none"] /\ UNCHANGED <<position, got>>
    BY <1>5 DEF JobHands, JobStep
  <2>3. Queued = {Head(microtasks)} \cup ToSet(Tail(microtasks)) /\ Head(microtasks).who = i /\ i # Loop /\ t.who # Loop
    BY <2>1, <2>2, TailIs, OwnersAre DEF Doing
  <2>4. \A j \in Instances : job[j] = "none" => job'[j] = "none"
    BY <1>0, <2>2 DEF RegistryTypes
  <2> QED
    BY <2>1, <2>2, <2>3, <2>4 DEF Others, Doing
<1>6. ASSUME NEW i \in Instances, TerraformEnds(i) PROVE Others
  <2>1. PICK b, a \in Tasks : Queued' = {b, a} /\ b.who = i /\ a.who = i
    <3>1. \E b, a \in Tasks :
               /\ QueueInv' /\ Queued' = {b, a} /\ microtasks' = <<b, a>>
               /\ b.does = "body" /\ b.seen = file /\ b.status = "none" /\ a.does = "adopt" /\ b.who = i /\ a.who = i
               /\ i \in files /\ job'[i] \in {"gone", "failed"} /\ \A j \in Instances : j # i => job'[j] = job[j]
      BY <1>6, TerraformEndsQueue
    <3> QED
      BY <3>1
  <2>2. microtasks = <<>> /\ job[i] = "terraform" /\ UNCHANGED <<position, got>> /\ \A j \in Instances : j # i => job'[j] = job[j]
    BY <1>0, <1>6 DEF TerraformEnds, RegistryTypes
  <2>3. Queued = {} /\ i # Loop
    BY <2>2, FewElements, OwnersAre DEF Queued
  <2> QED
    BY <2>1, <2>2, <2>3 DEF Others, Doing
<1>7. ASSUME NEW i \in Instances, NEW to, NEW t, WatchGoes(i, to, t) PROVE Others
  <2>1. /\ Doing(i, "resume") /\ job[i] \in Watching /\ job' = [job EXCEPT ![i] = to] /\ t.who = i /\ UNCHANGED <<position, got>>
    BY <1>7 DEF WatchGoes, JobStep
  <2>2. Queued' = ToSet(Tail(microtasks)) \cup {t}
    BY <1>7, WatchGoesQueue
  <2>3. Queued = {Head(microtasks)} \cup ToSet(Tail(microtasks)) /\ Head(microtasks).who = i /\ i # Loop
    BY <2>1, TailIs, OwnersAre DEF Doing
  <2>4. \A j \in Instances : job[j] = "none" => job'[j] = "none"
    BY <1>0, <2>1 DEF RegistryTypes, Watching
  <2> QED
    BY <2>1, <2>2, <2>3, <2>4 DEF Others, Doing
<1> QED
  BY <1>1, <1>2, <1>3, <1>4, <1>5, <1>6, <1>7, StepsAre, OwnersAre DEF Recovering

\* bulk-destroy has come past the instances behind it, and past all when it is over.
Swept ==
    turn = "bulk" =>
        /\ \A i \in Instances : i < position => Reached(i)
        /\ (\A t \in Queued : t.who # Loop) => position = NumInstances /\ Reached(position)

\* The instances that bulk-destroy has not come to are as they were listed.
Ahead == turn = "bulk" => \A i \in Instances : i > position => file[i] = listed[i]

LEMMA LoopAtStep ==
    ASSUME QueueInv, Frame, Concluded, turn = "bulk", Others, NEW t \in Queued, t.who = Loop, LoopAt(t)
    PROVE  LoopAt(t)'
<1>1. /\ UNCHANGED <<position, got, listed, turn>>
      /\ \A u : u.who = Loop => (u \in Queued' <=> u \in Queued)
      /\ \A i \in Instances : job[i] = "none" => job'[i] = "none"
  BY DEF Others, Frame
<1>2. Fresh(position) => Fresh(position)'
  <2>1. PICK p : p = position
    OBVIOUS
  <2>2. Fresh(p) => Fresh(p)'
    BY <1>1, FreshStep DEF Fresh
  <2>3. position' = p
    BY <1>1, <2>1
  <2> QED
    BY <2>1, <2>2, <2>3 DEF Fresh
<1>3. Reached(position) => Reached(position)'
  <2>1. PICK p : p = position
    OBVIOUS
  <2>2. Reached(p) => Reached(p)'
    BY ReachedStep
  <2>3. position' = p
    BY <1>1, <2>1
  <2> QED
    BY <2>1, <2>2, <2>3 DEF Reached
<1>4. (\E u \in Queued : u.who = Loop /\ u.does = "body") => \E u \in Queued' : u.who = Loop /\ u.does = "body"
  BY <1>1
<1>5. position' = position /\ got' = got /\ listed' = listed
  BY <1>1
<1> QED
  BY <1>2, <1>3, <1>4, <1>5 DEF LoopAt

-----------------------------------------------------------------------------
(* Where the loops are.                                                    *)

\* Where the loops are, and what they have left behind.
Places == LoopInv /\ Swept

LEMMA SweptBelow ==
    ASSUME QueueInv, Frame, Concluded, Swept, turn = "bulk", NEW i \in Instances, i < position
    PROVE  Reached(i)'
BY ReachedStep DEF Swept

\* The loop goes on to the next instance when it is done with the one it is at.
LEMMA LoopGoesOn ==
    ASSUME QueueInv, LoopInv, turn = "bulk", Doing(Loop, "resume"), got \in {"none", "destroyed"}
    PROVE  position = 0 \/ Reached(position)
<1>1. LoopAt(Head(microtasks)) /\ Head(microtasks).does = "resume"
  BY LoopsTurn DEF LoopInv
<1>2. \/ got = "none" /\ (position = 0 \/ Reached(position))
      \/ Fresh(position) /\ got = listed[position]
  BY <1>1 DEF LoopAt
<1>3. Fresh(position) => listed[position] \in States
  BY DEF Fresh, QueueInv, RegistryTypes, Files
<1> QED
  BY <1>2, <1>3 DEF Fresh, Reached, States

LEMMA PlacesOthers ==
    ASSUME QueueInv, Frame, Concluded, Places, Others
    PROVE  Places'
<1>1. /\ UNCHANGED <<position, got, listed, turn>>
      /\ \A u : u.who = Loop => (u \in Queued' <=> u \in Queued)
  BY DEF Others, Frame
<1>2. LoopInv'
  <2> SUFFICES ASSUME NEW t \in Queued', t.who = Loop
               PROVE  IF turn = "bulk" THEN LoopAt(t)' /\ position <= NumInstances
                      ELSE position = 0 \/ (position \in Instances /\ listed[position] = "applying") \/ Doing(Loop, "resume")'
    BY <1>1 DEF LoopInv
  <2>1. t \in Queued
    BY <1>1
  <2>2. IF turn = "bulk" THEN LoopAt(t) /\ position <= NumInstances
        ELSE position = 0 \/ (position \in Instances /\ listed[position] = "applying")
    BY <2>1 DEF Places, LoopInv, Others
  <2> QED
    BY <2>1, <2>2, LoopAtStep
<1>3. Swept'
  <2> SUFFICES ASSUME turn = "bulk"
               PROVE  /\ \A i \in Instances : i < position => Reached(i)'
                      /\ (\A t \in Queued' : t.who # Loop) => position = NumInstances /\ Reached(position)'
    BY <1>1 DEF Swept
  <2>1. \A i \in Instances : i < position => Reached(i)'
    BY SweptBelow DEF Places
  <2>2. (\A t \in Queued' : t.who # Loop) => position = NumInstances /\ Reached(position)'
    <3> SUFFICES ASSUME \A t \in Queued' : t.who # Loop PROVE position = NumInstances /\ Reached(position)'
      OBVIOUS
    <3>1. position = NumInstances /\ Reached(position)
      BY <1>1 DEF Places, Swept
    <3>2. PICK p : p = position
      OBVIOUS
    <3>3. Reached(p)'
      BY <3>1, <3>2, ReachedStep
    <3> QED
      BY <1>1, <3>1, <3>2, <3>3 DEF Reached
  <2> QED
    BY <2>1, <2>2
<1> QED
  BY <1>2, <1>3 DEF Places

LEMMA PlacesBody ==
    ASSUME QueueInv, Frame, Concluded, Places, Body(Loop)
    PROVE  Places'
<1>1. /\ Queued' = ToSet(Tail(microtasks)) /\ microtasks # <<>> /\ Head(microtasks) \in Queued
      /\ Head(microtasks).who = Loop /\ Head(microtasks).does = "body" /\ \A t \in Queued' : t \in Queued
  BY OwnersAre, BodyQueue
<1>2. UNCHANGED <<position, job, listed, turn>> /\ got' = Head(microtasks).seen[Head(microtasks).of]
  BY DEF Body
<1>3. OfLoop(Head(microtasks))
  BY <1>1 DEF QueueInv
<1>4. Head(microtasks).of = position
  BY <1>1, <1>3 DEF OfLoop
<1>5. \A o \in Queued' : o.who = Loop => o.does = "adopt"
  BY <1>1, TailIs
<1>6. \E o \in Queued' : o.who = Loop
  BY <1>1, TailIs
<1>7. ASSUME turn = "bulk" PROVE Fresh(position) /\ Fresh(position)' /\ got' = listed[position] /\ position <= NumInstances
  <2>1. LoopAt(Head(microtasks)) /\ position <= NumInstances
    BY <1>1, <1>7 DEF Places, LoopInv
  <2>2. Fresh(position) /\ got' = listed[position]
    BY <1>1, <1>2, <1>4, <2>1 DEF LoopAt
  <2>3. PICK p : p = position
    OBVIOUS
  <2>4. Fresh(p)'
    BY <1>2, <1>7, <2>2, <2>3, FreshStep DEF Fresh
  <2> QED
    BY <1>2, <2>1, <2>2, <2>3, <2>4 DEF Fresh
<1>8. LoopInv'
  <2> SUFFICES ASSUME NEW t \in Queued', t.who = Loop
               PROVE  IF turn = "bulk" THEN LoopAt(t)' /\ position <= NumInstances
                      ELSE position = 0 \/ (position \in Instances /\ listed[position] = "applying") \/ Doing(Loop, "resume")'
    BY <1>2 DEF LoopInv
  <2>1. turn = "bulk" => LoopAt(t)' /\ position <= NumInstances
    BY <1>2, <1>5, <1>7 DEF LoopAt
  <2>2. turn # "bulk" => position = 0 \/ (position \in Instances /\ listed[position] = "applying")
    BY <1>1 DEF Places, LoopInv, Doing
  <2> QED
    BY <2>1, <2>2
<1>9. Swept'
  <2>1. turn = "bulk" => \A i \in Instances : i < position => Reached(i)'
    BY SweptBelow DEF Places
  <2> QED
    BY <1>2, <1>6, <2>1 DEF Swept
<1> QED
  BY <1>8, <1>9 DEF Places

LEMMA PlacesSettle ==
    ASSUME QueueInv, Frame, Concluded, Places, Settle(Loop)
    PROVE  Places'
<1>1. PICK t \in Tasks :
           /\ Queued' = ToSet(Tail(microtasks)) \cup {t}
           /\ microtasks # <<>> /\ Head(microtasks) \in Queued /\ Head(microtasks).who = Loop /\ t.who = Loop
           /\ \/ Head(microtasks).does = "adopt" /\ t.does = "settle"
              \/ Head(microtasks).does = "settle" /\ t.does = "resume"
           /\ \A o \in ToSet(Tail(microtasks)) : o \in Queued /\ o.who # Loop
           /\ UNCHANGED <<turn, listed, position, got, job>>
  <2>1. \E t \in Tasks :
               /\ QueueInv' /\ Queued' = ToSet(Tail(microtasks)) \cup {t} /\ microtasks' = Tail(microtasks) \o <<t>>
               /\ microtasks # <<>> /\ Head(microtasks) \in Queued /\ Head(microtasks) \in Tasks /\ Head(microtasks).who = Loop /\ t.who = Loop
               /\ \/ Head(microtasks).does = "adopt" /\ t.does = "settle"
                  \/ Head(microtasks).does = "settle" /\ t.does = "resume"
               /\ \A o \in ToSet(Tail(microtasks)) : o \in Queued /\ o.who # Loop
               /\ UNCHANGED <<turn, file, files, listed, position, got, job, holds, waiters, wrote>>
    BY OwnersAre, SettleQueue
  <2> QED
    BY <2>1
<1>2. Queued = {Head(microtasks)} \cup ToSet(Tail(microtasks))
  BY <1>1, TailIs
<1>3. ASSUME turn = "bulk" PROVE Fresh(position)' /\ got = listed[position] /\ position <= NumInstances
  <2>1. LoopAt(Head(microtasks)) /\ position <= NumInstances
    BY <1>1, <1>3 DEF Places, LoopInv
  <2>2. ~ \E u \in Queued : u.who = Loop /\ u.does = "body"
    BY <1>1, <1>2
  <2>3. Fresh(position) /\ got = listed[position]
    BY <1>1, <2>1, <2>2 DEF LoopAt
  <2>4. PICK p : p = position
    OBVIOUS
  <2>5. Fresh(p)'
    BY <1>1, <1>3, <2>3, <2>4, FreshStep DEF Fresh
  <2> QED
    BY <1>1, <2>1, <2>3, <2>4, <2>5 DEF Fresh
<1>4. LoopInv'
  <2> SUFFICES ASSUME NEW u \in Queued', u.who = Loop
               PROVE  IF turn = "bulk" THEN LoopAt(u)' /\ position <= NumInstances
                      ELSE position = 0 \/ (position \in Instances /\ listed[position] = "applying") \/ Doing(Loop, "resume")'
    BY <1>1 DEF LoopInv
  <2>1. u = t
    BY <1>1
  <2>2. turn = "bulk" => LoopAt(u)' /\ position <= NumInstances
    BY <1>1, <1>3, <2>1 DEF LoopAt
  <2>3. turn # "bulk" => position = 0 \/ (position \in Instances /\ listed[position] = "applying")
    BY <1>1 DEF Places, LoopInv, Doing
  <2> QED
    BY <2>2, <2>3
<1>5. Swept'
  <2>1. turn = "bulk" => \A i \in Instances : i < position => Reached(i)'
    BY SweptBelow DEF Places
  <2> QED
    BY <1>1, <2>1 DEF Swept
<1> QED
  BY <1>4, <1>5 DEF Places

LEMMA PlacesReads ==
    ASSUME QueueInv, Frame, Concluded, Places, Unwritten, Ahead, BulkReads
    PROVE  Places'
<1>1. PICK b, a \in Tasks :
           /\ Queued' = ToSet(Tail(microtasks)) \cup {b, a}
           /\ b.does = "body" /\ b.seen = file /\ a.does = "adopt" /\ b.who = Loop /\ a.who = Loop
           /\ position' \in Instances /\ position' = position + 1
  <2>1. \E b, a \in Tasks :
               /\ QueueInv' /\ Queued' = ToSet(Tail(microtasks)) \cup {b, a} /\ microtasks' = Tail(microtasks) \o <<b, a>>
               /\ b.does = "body" /\ b.seen = file /\ b.status = "none" /\ a.does = "adopt" /\ b.who = Loop /\ a.who = Loop
               /\ position' \in Instances /\ position' = position + 1
    BY BulkReadsQueue
  <2> QED
    BY <2>1
<1>2. /\ turn = "bulk" /\ Doing(Loop, "resume") /\ got \in {"none", "destroyed"}
      /\ UNCHANGED <<turn, file, listed, got, job, wrote>>
  BY DEF BulkReads
<1>3. \A o \in ToSet(Tail(microtasks)) : o.who # Loop
  BY <1>2, LoopsTurn
<1> PICK p \in Instances : p = position'
  BY <1>1
<1>4. position \in Int /\ p \in Int /\ p > position /\ p <= NumInstances
  BY <1>1, OwnersAre DEF QueueInv, RegistryTypes, Instances
<1>5. job[p] = "none" /\ wrote[p] = listed[p] /\ file[p] = listed[p]
  <2>1. job[p] # "none" => p <= position
    BY DEF QueueInv
  <2> QED
    BY <1>2, <1>4, <2>1 DEF Unwritten, Ahead
<1>6. Fresh(position)' /\ b.seen[position'] = listed[position']
  BY <1>1, <1>2, <1>5 DEF Fresh
<1>7. LoopInv'
  <2> SUFFICES ASSUME NEW u \in Queued', u.who = Loop PROVE LoopAt(u)' /\ position' <= NumInstances
    BY <1>2 DEF LoopInv
  <2>1. u = b \/ u = a
    BY <1>1, <1>3
  <2>2. b \in Queued'
    BY <1>1
  <2> QED
    BY <1>1, <1>2, <1>4, <1>6, <2>1, <2>2 DEF LoopAt
<1>8. Swept'
  <2>1. \A i \in Instances : i < position => Reached(i)'
    BY <1>2, SweptBelow DEF Places
  <2>2. position = 0 \/ Reached(position)
    BY <1>2, LoopGoesOn DEF Places
  <2>3. PICK q : q = position
    OBVIOUS
  <2>4. q = 0 \/ Reached(q)'
    BY <1>2, <2>2, <2>3, ReachedStep
  <2>5. ASSUME NEW i \in Instances, i < position' PROVE Reached(i)'
    <3>1. i \in Int /\ i # 0 /\ (i < position \/ i = position)
      BY <1>1, <1>4, <2>5, OwnersAre
    <3> QED
      BY <2>1, <2>3, <2>4, <3>1
  <2>6. \E t \in Queued' : t.who = Loop
    BY <1>1
  <2> QED
    BY <2>5, <2>6 DEF Swept
<1> QED
  BY <1>7, <1>8 DEF Places

-----------------------------------------------------------------------------
(* Where the loops are: the steps that start jobs; one slot.               *)

LEMMA PlacesEnds ==
    ASSUME QueueInv, Frame, Concluded, Places, BulkEnds
    PROVE  Places'
<1>1. Queued' = ToSet(Tail(microtasks))
  BY LoopEndsQueue
<1>2. /\ turn = "bulk" /\ Doing(Loop, "resume") /\ got \in {"none", "destroyed"} /\ position = NumInstances
      /\ UNCHANGED <<turn, position>>
  BY DEF BulkEnds
<1>3. \A o \in Queued' : o.who # Loop
  BY <1>1, <1>2, LoopsTurn
<1>4. LoopInv'
  BY <1>3 DEF LoopInv
<1>5. Swept'
  <2>1. \A i \in Instances : i < position => Reached(i)'
    BY <1>2, SweptBelow DEF Places
  <2>2. Reached(position)
    BY <1>2, LoopGoesOn, OwnersAre DEF Places
  <2>3. PICK q : q = position
    OBVIOUS
  <2>4. Reached(q)'
    BY <1>2, <2>2, <2>3, ReachedStep
  <2>5. Reached(position)'
    BY <1>2, <2>3, <2>4 DEF Reached
  <2> QED
    BY <1>2, <2>1, <2>5 DEF Swept
<1> QED
  BY <1>4, <1>5 DEF Places

\* The instance that bulk-destroy starts a job for.
LEMMA AtDestroys ==
    ASSUME QueueInv, LoopInv, ListedAre, BulkDestroys
    PROVE  /\ turn = "bulk" /\ position \in Instances /\ position <= NumInstances
           /\ job[position] = "none" /\ listed[position] = "ready" /\ wrote[position] = listed[position]
<1>1. /\ turn = "bulk" /\ Doing(Loop, "resume") /\ got \notin {"none", "destroyed"}
  BY DEF BulkDestroys
<1>2. LoopAt(Head(microtasks)) /\ position <= NumInstances
  BY <1>1, LoopsTurn DEF LoopInv
<1>3. Fresh(position) /\ got = listed[position]
  BY <1>1, <1>2 DEF LoopAt, Doing
<1> QED
  BY <1>1, <1>2, <1>3 DEF Fresh, ListedAre

LEMMA PlacesDestroys ==
    ASSUME QueueInv, Frame, Concluded, Places, ListedAre, BulkDestroys
    PROVE  Places'
<1>1. /\ turn = "bulk" /\ position \in Instances /\ position <= NumInstances
      /\ job[position] = "none" /\ listed[position] = "ready"
  BY AtDestroys DEF Places
<1> PICK ids : ids = <<position>>
  OBVIOUS
<1> PICK own : own = <<Resume(Loop)>>
  OBVIOUS
<1>2. /\ Starts(ids, own, Tail(microtasks)) /\ position' = position /\ turn = "bulk" /\ got' = "none"
      /\ ToSet(ids) = {position} /\ ToSet(own) = {Resume(Loop)}
  BY <1>1, BulkDestroysStarts
<1>3. /\ \E a \in Seq(Instances) : Started(ids, own, Tail(microtasks), a)
      /\ \A i \in Instances : job'[i] = IF i \in ToSet(ids) THEN "slot" ELSE job[i]
  BY <1>2, StartsQueue
<1>4. PICK a \in Seq(Instances) :
           /\ ToSet(a) \subseteq ToSet(ids)
           /\ Queued' = ToSet(Tail(microtasks)) \cup {Resume(i) : i \in ToSet(a)} \cup ToSet(own)
  BY <1>3 DEF Started
<1>5. \A o \in ToSet(Tail(microtasks)) : o.who # Loop
  BY <1>2, LoopsTurn DEF Starts
<1>6. \A i \in ToSet(a) : Resume(i).who # Loop
  BY <1>1, <1>2, <1>4, OwnersAre DEF Resume
<1>7. Resume(Loop).who = Loop /\ Resume(Loop).does = "resume"
  BY DEF Resume
<1>8. \A u \in Queued' : u.who = Loop => u = Resume(Loop)
  BY <1>2, <1>4, <1>5, <1>6
<1>9. Reached(position)'
  BY <1>1, <1>2, <1>3 DEF Reached
<1>10. turn' = turn
  BY DEF Frame
<1>11. LoopInv'
  <2> SUFFICES ASSUME NEW u \in Queued', u.who = Loop PROVE LoopAt(u)' /\ position' <= NumInstances
    BY <1>2, <1>10 DEF LoopInv
  <2>1. u.does = "resume"
    BY <1>7, <1>8
  <2> QED
    BY <1>1, <1>2, <1>9, <2>1 DEF LoopAt
<1>12. Swept'
  <2>1. \A i \in Instances : i < position => Reached(i)'
    BY <1>2, SweptBelow DEF Places
  <2>2. Resume(Loop) \in Queued'
    BY <1>2, <1>4
  <2> QED
    BY <1>2, <1>7, <2>1, <2>2 DEF Swept
<1> QED
  BY <1>11, <1>12 DEF Places

LEMMA HeadStays ==
    ASSUME NEW q \in Seq(Tasks), NEW r \in Seq(Tasks), q # <<>>
    PROVE  q \o r # <<>> /\ Head(q \o r) = Head(q) /\ q \o r \in Seq(Tasks)
<1>1. Len(q) \in Nat /\ Len(q) # 0 /\ Len(r) \in Nat
  BY EmptySeq, LenProperties
<1>2. q \o r \in Seq(Tasks) /\ Len(q \o r) = Len(q) + Len(r) /\ (q \o r)[1] = q[1]
  BY <1>1, ConcatProperties
<1>3. Len(q \o r) # 0
  BY <1>1, <1>2
<1> QED
  BY <1>2, <1>3, EmptySeq, HeadTailProperties

\* A task of what the recovery has just started.
Starting(o) == job[o.who] = "slot" \/ (job[o.who] = "watch" /\ o.does \in {"body", "adopt"})

\* It goes on at once, having started a job or a watcher or nothing, or it awaits its mark, or is over.
GoesOn ==
    /\ Doing(Loop, "resume")' /\ position' >= position
    /\ \A o \in Queued' : o \in Queued \/ (o.who \in Instances /\ job[o.who] = "none" /\ Starting(o)')
    /\ \A o \in Queued' : o.who = Loop => o.does = "resume"
    /\ \A i \in Instances : job[i] # "none" => job'[i] = job[i]

Pauses ==
    \A o \in Queued' : o.who = Loop => o.does # "resume" /\ position' \in Instances /\ listed[position'] = "applying"

LEMMA RecoveringIs ==
    ASSUME QueueInv, Recovering
    PROVE  /\ turn = "recovery" /\ Doing(Loop, "resume") /\ UNCHANGED <<turn, listed>>
           /\ GoesOn \/ (Pauses /\ (RecoverMarks \/ RecoverEnds))
<1>0. RegistryTypes
  BY DEF QueueInv
<1>1. turn = "recovery" /\ Doing(Loop, "resume") /\ UNCHANGED <<turn, listed>>
  BY DEF Recovering, RecoverPasses, RecoverDestroys, RecoverWatches, RecoverMarks, RecoverEnds, Recovers
<1>2. /\ microtasks # <<>> /\ Head(microtasks).who = Loop /\ Head(microtasks).does = "resume" /\ microtasks \in Seq(Tasks)
      /\ \A o \in ToSet(Tail(microtasks)) : o.who # Loop
      /\ \A o \in Queued : o.who = Loop => o.does = "resume"
  BY <1>1, LoopsTurn, LoopStays, OwnersAre
<1>3. CASE RecoverPasses
  <2>1. Queued' = Queued /\ UNCHANGED <<job, microtasks>> /\ \E p \in Instances : RecoversTo(p, "ready")
    BY <1>3, RecoverPassesQueue
  <2>2. position' >= position
    BY <1>0, <2>1, OwnersAre DEF RecoversTo, RegistryTypes
  <2> QED
    BY <1>1, <1>2, <2>1, <2>2 DEF GoesOn, Doing
<1>4. CASE RecoverDestroys
  <2>1. PICK p \in Instances : /\ RecoversTo(p, "destroying") /\ job[p] = "none"
                               /\ Starts(<<p>>, <<>>, microtasks) /\ ToSet(<<p>>) = {p} /\ Len(<<p>>) = 1
    BY <1>4, RecoverStarts
  <2>2. /\ \E a \in Seq(Instances) : Started(<<p>>, <<>>, microtasks, a)
        /\ \A i \in Instances : job'[i] = IF i \in ToSet(<<p>>) THEN "slot" ELSE job[i]
    BY <2>1, StartsQueue
  <2>3. PICK a \in Seq(Instances) :
             /\ ToSet(a) \subseteq ToSet(<<p>>)
             /\ Queued' = ToSet(microtasks) \cup {Resume(i) : i \in ToSet(a)} \cup ToSet(<<>>)
             /\ Resumed(<<p>>) \in Seq(Tasks) /\ microtasks' = microtasks \o (Resumed(<<p>>) \o <<>>)
    BY <2>2 DEF Started
  <2>4. PICK rs : rs = Resumed(<<p>>)
    OBVIOUS
  <2>5. microtasks' = microtasks \o rs /\ rs \in Seq(Tasks)
    BY <2>3, <2>4, ConcatEmptySeq
  <2>6. Doing(Loop, "resume")'
    BY <1>2, <2>5, HeadStays DEF Doing
  <2>7. \A o \in Queued' : o \in Queued \/ o = Resume(p)
    BY <2>1, <2>3, NoTasks DEF Queued
  <2>8. Resume(p).who = p /\ p # Loop
    BY OwnersAre DEF Resume
  <2>9. position' >= position
    BY <1>0, <2>1, OwnersAre DEF RecoversTo, RegistryTypes
  <2>10. job'[p] = "slot" /\ \A i \in Instances : job[i] # "none" => job'[i] = job[i]
    BY <2>1, <2>2
  <2> QED
    BY <1>1, <1>2, <2>1, <2>6, <2>7, <2>8, <2>9, <2>10 DEF GoesOn, Starting
<1>5. CASE RecoverWatches
  <2>1. PICK p \in Instances, b, a \in Tasks :
               /\ QueueInv' /\ RecoversTo(p, "bootstrapping") /\ job[p] = "none"
               /\ Queued' = Queued \cup {b, a} /\ microtasks' = microtasks \o <<b, a>>
               /\ b.does = "body" /\ b.seen = file /\ b.status = "none" /\ a.does = "adopt" /\ b.who = p /\ a.who = p
               /\ UNCHANGED <<holds, waiters>> /\ job'[p] = "watch" /\ \A j \in Instances : j # p => job'[j] = job[j]
    BY <1>5, RecoverWatchesQueue
  <2>2. PICK rs : rs = <<b, a>>
    OBVIOUS
  <2>3. rs \in Seq(Tasks) /\ microtasks' = microtasks \o rs
    BY <2>1, <2>2
  <2>4. Doing(Loop, "resume")'
    BY <1>2, <2>3, HeadStays DEF Doing
  <2>5. position' >= position /\ p # Loop
    BY <1>0, <2>1, OwnersAre DEF RecoversTo, RegistryTypes
  <2> QED
    BY <1>1, <1>2, <2>1, <2>4, <2>5 DEF GoesOn, Starting
<1>6. CASE RecoverMarks
  <2>1. PICK p \in Instances, b, a \in Tasks :
               /\ QueueInv' /\ RecoversTo(p, "applying")
               /\ Queued' = ToSet(Tail(microtasks)) \cup {b, a} /\ microtasks' = Tail(microtasks) \o <<b, a>>
               /\ b.does = "body" /\ b.seen = file /\ b.of = p /\ a.does = "adopt" /\ b.who = Loop /\ a.who = Loop
               /\ UNCHANGED <<job, holds, waiters>>
    BY <1>6, RecoverMarksQueue
  <2>2. position' = p /\ listed[p] = "applying"
    BY <2>1 DEF RecoversTo
  <2> QED
    BY <1>1, <1>2, <1>6, <2>1, <2>2 DEF Pauses
<1>7. CASE RecoverEnds
  <2>1. Queued' = ToSet(Tail(microtasks))
    BY <1>7, LoopEndsQueue
  <2> QED
    BY <1>1, <1>2, <1>7, <2>1 DEF Pauses
<1> QED
  BY <1>3, <1>4, <1>5, <1>6, <1>7 DEF Recovering

LEMMA PlacesRecover ==
    ASSUME QueueInv, Frame, Recovering
    PROVE  Places'
<1>1. turn = "recovery" /\ UNCHANGED <<turn, listed>> /\ (GoesOn \/ Pauses)
  BY RecoveringIs
<1> QED
  BY <1>1 DEF Places, LoopInv, Swept, GoesOn, Pauses

LEMMA PlacesStep ==
    ASSUME QueueInv, RegistryNext, Frame, Concluded, Places, Unwritten, Ahead, ListedAre
    PROVE  Places'
BY OthersAre, PlacesOthers, PlacesBody, PlacesSettle, PlacesReads, PlacesDestroys, PlacesEnds, PlacesRecover

\* When the recovery comes back from a mark, every task it finds is of an instance it has passed before.
Passing ==
    turn = "recovery" /\ Doing(Loop, "resume") =>
        \A o \in Queued : o.who \in Instances =>
            Starting(o) \/ \E j \in Instances : o.who < j /\ j <= position /\ listed[j] = "applying"

LEMMA PassingStep ==
    ASSUME QueueInv, QueueInv', RegistryNext, Frame, LoopInv, Passing
    PROVE  Passing'
<1> SUFFICES ASSUME turn' = "recovery", Doing(Loop, "resume")', NEW o \in Queued', o.who \in Instances
             PROVE  Starting(o)' \/ \E j \in Instances : o.who < j /\ j <= position' /\ listed'[j] = "applying"
  BY DEF Passing
<1>0. position \in Int /\ position' \in Int /\ position' >= position /\ listed' = listed /\ turn = "recovery" /\ turn' = turn
  BY OwnersAre DEF QueueInv, RegistryTypes, Frame
<1>1. \A i \in Instances : i \in Int
  BY OwnersAre
<1>2. /\ Head(microtasks') \in Queued' /\ Head(microtasks').who = Loop /\ Head(microtasks').does = "resume"
  <2>1. microtasks' # <<>> /\ microtasks' \in Seq(Tasks)
    BY DEF Doing, QueueInv, RegistryTypes
  <2>2. PICK q : q = microtasks'
    OBVIOUS
  <2>3. q # <<>> /\ q \in Seq(Tasks) /\ Queued' = ToSet(q)
    BY <2>1, <2>2 DEF Queued
  <2>4. ToSet(q) = {Head(q)} \cup ToSet(Tail(q))
    BY <2>3, HeadIs
  <2> QED
    BY <2>2, <2>3, <2>4 DEF Doing
<1>3. CASE Others
  <2>1. Head(microtasks') \in Queued /\ ~Doing(Loop, "resume") /\ position' = position
    BY <1>2, <1>3 DEF Others
  <2>2. position = 0 \/ (position \in Instances /\ listed[position] = "applying")
    BY <1>0, <1>2, <2>1 DEF LoopInv
  <2>3. job'[o.who] # "none"
    <3>1. OfJob(o)'
      BY DEF QueueInv
    <3> QED
      BY <3>1 DEF OfJob, Busy, Working, Watching
  <2>4. job[o.who] # "none"
    BY <1>3, <2>3 DEF Others
  <2>5. o.who <= position /\ listed[o.who] # "applying"
    BY <1>0, <2>4 DEF QueueInv, ListedFor
  <2>6. o.who >= 1
    BY OwnersAre DEF Instances
  <2> QED
    BY <1>0, <1>1, <2>1, <2>2, <2>5, <2>6
<1>4. CASE Recovering
  <2>1. Doing(Loop, "resume") /\ (GoesOn \/ Pauses)
    BY <1>4, RecoveringIs
  <2>2. GoesOn
    BY <1>2, <2>1 DEF Pauses
  <2>3. CASE o \in Queued
    <3>1. Starting(o) \/ \E j \in Instances : o.who < j /\ j <= position /\ listed[j] = "applying"
      BY <1>0, <2>1, <2>3 DEF Passing
    <3>2. Starting(o) => Starting(o)'
      BY <2>2 DEF GoesOn, Starting
    <3> QED
      BY <1>0, <1>1, <3>1, <3>2
  <2> QED
    BY <2>2, <2>3 DEF GoesOn
<1>5. CASE BulkReads \/ BulkDestroys \/ BulkEnds
  BY <1>0, <1>5 DEF BulkReads, BulkDestroys, BulkEnds
<1>6. CASE Body(Loop)
  <2>1. /\ Queued' = ToSet(Tail(microtasks)) /\ microtasks # <<>> /\ Head(microtasks).who = Loop
    BY <1>6, OwnersAre, BodyQueue
  <2>2. \A u \in ToSet(Tail(microtasks)) : u.who = Head(microtasks).who => u.does = "adopt"
    BY <1>6, <2>1, TailIs DEF Body, Doing
  <2> QED
    BY <1>2, <2>1, <2>2
<1>7. CASE Settle(Loop)
  <2>1. PICK t \in Tasks :
             /\ microtasks' = Tail(microtasks) \o <<t>> /\ microtasks # <<>> /\ t.who = Loop
             /\ \A u \in ToSet(Tail(microtasks)) : u \in Queued /\ u.who # Loop
    <3>1. \E t \in Tasks :
               /\ QueueInv' /\ Queued' = ToSet(Tail(microtasks)) \cup {t} /\ microtasks' = Tail(microtasks) \o <<t>>
               /\ microtasks # <<>> /\ Head(microtasks) \in Queued /\ Head(microtasks) \in Tasks /\ Head(microtasks).who = Loop /\ t.who = Loop
               /\ \/ Head(microtasks).does = "adopt" /\ t.does = "settle"
                  \/ Head(microtasks).does = "settle" /\ t.does = "resume"
               /\ \A u \in ToSet(Tail(microtasks)) : u \in Queued /\ u.who # Loop
               /\ UNCHANGED <<turn, file, files, listed, position, got, job, holds, waiters, wrote>>
      BY <1>7, OwnersAre, SettleQueue
    <3> QED
      BY <3>1
  <2>2. Tail(microtasks) \in Seq(Tasks) /\ <<t>> \in Seq(Tasks)
    BY <2>1, TailIs
  <2>3. Tail(microtasks) = <<>>
    <3>1. CASE Tail(microtasks) # <<>>
      <4>1. PICK r : r = <<t>>
        OBVIOUS
      <4>2. Head(microtasks') = Head(Tail(microtasks))
        BY <2>1, <2>2, <3>1, <4>1, HeadStays
      <4>3. Head(Tail(microtasks)) \in ToSet(Tail(microtasks))
        BY <2>2, <3>1, HeadIs
      <4> QED
        BY <1>2, <2>1, <4>2, <4>3
    <3> QED
      BY <3>1
  <2>4. Queued' = {t}
    <3>1. microtasks' = <<t>>
      BY <2>1, <2>2, <2>3, ConcatEmptySeq
    <3> QED
      BY <3>1, FewElements DEF Queued
  <2> QED
    BY <2>1, <2>4, OwnersAre
<1> QED
  BY <1>3, <1>4, <1>5, <1>6, <1>7, OthersAre

\* With one slot at most one job has it.
OneSlot == Slots = 1 => \A i, j \in holds : i = j

LEMMA FewOfThem ==
    ASSUME NEW S, S \subseteq Instances, \A i, j \in S : i = j
    PROVE  (S = {} /\ Cardinality(S) = 0) \/ Cardinality(S) = 1
<1>1. CASE S = {}
  BY <1>1, FS_EmptySet
<1>2. CASE S # {}
  <2>1. PICK x \in S : TRUE
    BY <1>2
  <2>2. S = {x}
    BY <2>1
  <2> QED
    BY <2>2, FS_Singleton
<1> QED
  BY <1>1, <1>2

LEMMA ShortSequence ==
    ASSUME NEW S, NEW a \in Seq(S), Len(a) <= 1
    PROVE  \A i, j \in ToSet(a) : i = j
<1>1. DOMAIN a = 1 .. Len(a) /\ Len(a) \in Nat
  BY LenProperties
<1>2. \A k \in DOMAIN a : k = 1
  BY <1>1
<1> QED
  BY <1>2 DEF ToSet

LEMMA EmptySequence ==
    ASSUME NEW S, NEW a \in Seq(S), Len(a) <= 0
    PROVE  ToSet(a) = {}
<1>1. DOMAIN a = 1 .. Len(a) /\ Len(a) \in Nat
  BY LenProperties
<1>2. Len(a) = 0
  BY <1>1
<1>3. DOMAIN a = {}
  BY <1>1, <1>2
<1> QED
  BY <1>3 DEF ToSet

LEMMA OneSlotStarts ==
    ASSUME NEW ids, NEW own, NEW rest, QueueInv, OneSlot, Starts(ids, own, rest)
    PROVE  OneSlot'
<1> SUFFICES ASSUME Slots = 1 PROVE \A i, j \in holds' : i = j
  BY DEF OneSlot
<1>1. \E a \in Seq(Instances) : Started(ids, own, rest, a)
  BY StartsQueue
<1>2. PICK a \in Seq(Instances) : /\ holds' = holds \cup ToSet(a) /\ (Slots - Cardinality(holds) >= 0 => Len(a) <= Slots - Cardinality(holds))
  BY <1>1 DEF Started
<1>3. holds \subseteq Instances /\ \A i, j \in holds : i = j
  BY DEF OneSlot, QueueInv, RegistryTypes
<1>4. Len(a) \in Nat
  BY LenProperties
<1>5. CASE holds = {} /\ Cardinality(holds) = 0
  <2>1. Len(a) <= 1
    BY <1>2, <1>4, <1>5
  <2> QED
    BY <1>2, <1>5, <2>1, ShortSequence
<1>6. CASE Cardinality(holds) = 1
  <2>1. Len(a) <= 0
    BY <1>2, <1>4, <1>6
  <2>2. ToSet(a) = {}
    BY <2>1, EmptySequence
  <2> QED
    BY <1>2, <1>3, <2>2
<1> QED
  BY <1>3, <1>5, <1>6, FewOfThem

LEMMA OneSlotStep ==
    ASSUME QueueInv, RegistryNext, OneSlot, LoopInv, ListedAre
    PROVE  OneSlot'
<1>1. ASSUME holds' \subseteq holds PROVE OneSlot'
  BY <1>1 DEF OneSlot
<1>2. ASSUME RecoverDestroys PROVE OneSlot'
  <2>1. \E p \in Instances : Starts(<<p>>, <<>>, microtasks)
    BY <1>2, RecoverStarts
  <2> QED
    BY <2>1, OneSlotStarts
<1>3. ASSUME BulkDestroys PROVE OneSlot'
  <2>1. Starts(<<position>>, <<Resume(Loop)>>, Tail(microtasks))
    BY <1>3, AtDestroys, BulkDestroysStarts
  <2> QED
    BY <2>1, OneSlotStarts
<1>4. ASSUME NEW i \in Instances, JobHands(i) PROVE OneSlot'
  <2>1. i \in holds /\ holds' = (holds \ {i}) \cup {Head(waiters)}
    BY <1>4, JobsTurn DEF JobHands, JobStep, Working
  <2> QED
    BY <2>1 DEF OneSlot
<1>5. ASSUME NEW i \in Instances, JobRuns(i) \/ JobLeaves(i) PROVE holds' \subseteq holds
  BY <1>5 DEF JobRuns, JobLeaves
<1>6. ASSUME NEW i \in Instances, TerraformEnds(i) PROVE holds' \subseteq holds
  BY <1>6 DEF TerraformEnds
<1>7. ASSUME NEW i \in Instances, NEW from, NEW to, NEW status, JobCalls(i, from, to, status) PROVE holds' \subseteq holds
  BY <1>7 DEF JobCalls
<1>8. ASSUME NEW who \in Owners, Body(who) \/ Settle(who) PROVE holds' \subseteq holds
  BY <1>8 DEF Body, Settle
<1>9. ASSUME BulkReads \/ BulkEnds \/ RecoverPasses \/ RecoverWatches \/ RecoverMarks \/ RecoverEnds PROVE holds' \subseteq holds
  BY <1>9 DEF BulkReads, BulkEnds, RecoverPasses, RecoverWatches, RecoverMarks, RecoverEnds
<1>10. ASSUME NEW i \in Instances, WatchSleeps(i) \/ \E to, t : WatchGoes(i, to, t) PROVE holds' \subseteq holds
  BY <1>10 DEF WatchSleeps, WatchStep, WatchGoes
<1> QED
  BY <1>1, <1>2, <1>3, <1>4, <1>5, <1>6, <1>7, <1>8, <1>9, <1>10, StepsAre

-----------------------------------------------------------------------------
(* One job at a time once terraform has ended; writes that are safe.       *)

\* All that is queued belongs to one job.
One == \E w \in Instances : \A t \in Queued : t.who = w

\* Terraform has ended for some instance; then the loop is over and the jobs go on one at a time.
Past == \E i \in files : job[i] \in {"gone", "failed", "concluded"} \/ wrote[i] \in Done
\* From then on one job at a time is in the queue.
Lone == Past => One

LEMMA PastStep ==
    ASSUME QueueInv, ListedAre, Frame, Past'
    PROVE  Past \/ One'
<1>1. files' = files /\ files \subseteq Instances
  BY DEF Frame, QueueInv, RegistryTypes
<1>2. PICK i \in files : job'[i] \in {"gone", "failed", "concluded"} \/ wrote'[i] \in Done
  BY <1>1 DEF Past
<1>3. i \in Instances
  BY <1>1
<1>4. CASE wrote'[i] \in Done /\ wrote'[i] # wrote[i]
  <2>1. PICK h : h = Head(microtasks)
    OBVIOUS
  <2>2. Writing
    BY <1>4 DEF Frame, Untouched
  <2>3. h \in Queued /\ WriteBody(h) /\ i = h.of /\ wrote'[i] = h.status
    BY <1>3, <1>4, <2>1, <2>2, WritingIs
  <2>4. CASE h.who = Loop
    <3>1. listed[i] = "applying" /\ turn = "recovery"
      BY <2>3, <2>4, WriterIs
    <3> QED
      BY <3>1 DEF ListedAre
  <2>5. CASE h.who \in Instances
    <3>1. /\ job[i] \in {"marked", "concluded", "written"} /\ (job[i] = "marked" => h.status = "destroying")
          /\ job[i] = "written" => h.status = "bootstrapping"
      BY <2>3, <2>5, WriterIs
    <3>2. job[i] = "concluded"
      BY <1>4, <2>3, <3>1 DEF Done
    <3> QED
      BY <3>2 DEF Past
  <2> QED
    BY <2>3, <2>4, <2>5, WriterIs
<1>5. CASE job'[i] \in {"gone", "failed", "concluded"} /\ job'[i] # job[i]
  <2>1. Moves(i)
    BY <1>3, <1>5 DEF Frame
  <2>2. job[i] \in {"gone", "failed"} \/ \A t \in Queued' : t.who = i
    BY <1>5, <2>1 DEF Moves, Watching
  <2> QED
    BY <1>3, <2>2 DEF Past, One
<1>6. CASE job[i] \in {"gone", "failed", "concluded"} \/ wrote[i] \in Done
  BY <1>6 DEF Past
<1> QED
  BY <1>2, <1>4, <1>5, <1>6

LEMMA OneStep ==
    ASSUME QueueInv, RegistryNext, One
    PROVE  One'
<1>0. RegistryTypes
  BY DEF QueueInv
<1>1. PICK w \in Instances : \A t \in Queued : t.who = w
  BY DEF One
<1>2. ~Doing(Loop, "resume")
  BY <1>1, LoopsTurn, OwnersAre
<1>3. ASSUME NEW who \in Owners, Body(who) PROVE One'
  BY <1>1, <1>3, BodyQueue DEF One
<1>4. ASSUME NEW who \in Owners, Settle(who) PROVE One'
  <2>1. PICK t \in Tasks :
               /\ Queued' = ToSet(Tail(microtasks)) \cup {t} /\ Head(microtasks) \in Queued /\ Head(microtasks).who = who /\ t.who = who
               /\ \A o \in ToSet(Tail(microtasks)) : o \in Queued
    <3>1. \E t \in Tasks :
               /\ QueueInv' /\ Queued' = ToSet(Tail(microtasks)) \cup {t} /\ microtasks' = Tail(microtasks) \o <<t>>
               /\ microtasks # <<>> /\ Head(microtasks) \in Queued /\ Head(microtasks) \in Tasks /\ Head(microtasks).who = who /\ t.who = who
               /\ \/ Head(microtasks).does = "adopt" /\ t.does = "settle"
                  \/ Head(microtasks).does = "settle" /\ t.does = "resume"
               /\ \A o \in ToSet(Tail(microtasks)) : o \in Queued /\ o.who # who
               /\ UNCHANGED <<turn, file, files, listed, position, got, job, holds, waiters, wrote>>
      BY <1>4, SettleQueue
    <3> QED
      BY <3>1
  <2>2. \A u \in Queued' : u.who = w
    BY <1>1, <2>1
  <2> QED
    BY <2>2 DEF One
<1>5. ASSUME NEW i \in Instances, NEW from, NEW to, NEW status, JobCalls(i, from, to, status) PROVE One'
  <2>1. Queued' = ToSet(Tail(microtasks)) \cup ToSet(Call(i, i, status))
    BY <1>5, JobCallsQueue
  <2>2. Passes(i, from, to, status) /\ Doing(i, "resume")
    BY <1>5 DEF JobCalls, JobStep
  <2>3. Head(microtasks) \in Queued /\ Head(microtasks).who = i /\ \A o \in ToSet(Tail(microtasks)) : o \in Queued
    BY <2>2, JobsTurn
  <2>4. PICK b, a : /\ b = [who |-> i, does |-> "body", of |-> i, seen |-> file, status |-> status]
                    /\ a = [who |-> i, does |-> "adopt"]
    OBVIOUS
  <2>5. ToSet(Call(i, i, status)) = {b, a}
    BY <1>0, <2>2, <2>4, PassesIs, OwnersAre, CallIs
  <2>6. b.who = i /\ a.who = i
    BY <2>4
  <2>7. \A u \in Queued' : u.who = w
    BY <1>1, <2>1, <2>3, <2>5, <2>6
  <2> QED
    BY <2>7 DEF One
<1>6. ASSUME NEW i \in Instances, JobRuns(i) \/ JobLeaves(i) \/ WatchSleeps(i) PROVE One'
  <2>1. Doing(i, "resume") /\ Queued' = ToSet(Tail(microtasks))
    <3>1. CASE JobRuns(i)
      <4>1. /\ JobStep(i, job[i], "terraform", <<>>) /\ i \in files /\ UNCHANGED <<holds, waiters>> /\ Doing(i, "resume")
            /\ job[i] \in Working /\ job[i] # "slot"
        BY <3>1 DEF JobRuns, JobStep, Working
      <4> QED
        BY <4>1, JobRunsQueue
    <3>2. CASE JobLeaves(i)
      <4>1. /\ JobStep(i, job[i], "none", <<>>) /\ holds' = holds \ {i} /\ waiters = <<>> /\ UNCHANGED waiters /\ Doing(i, "resume")
            /\ job[i] # "slot"
        BY <3>2 DEF JobLeaves, JobStep
      <4> QED
        BY <4>1, JobRunsQueue
    <3>3. CASE WatchSleeps(i)
      BY <3>3, SleepsQueue DEF WatchSleeps, WatchStep, JobStep
    <3> QED
      BY <1>6, <3>1, <3>2, <3>3
  <2>2. \A o \in ToSet(Tail(microtasks)) : o \in Queued
    BY <2>1, JobsTurn
  <2> QED
    BY <1>1, <2>1, <2>2 DEF One
<1>7. ASSUME NEW i \in Instances, JobHands(i) PROVE One'
  <2>1. PICK t \in Tasks : Queued' = ToSet(Tail(microtasks)) \cup {t} /\ t.who \in Instances
    <3>1. \E t \in Tasks :
               /\ QueueInv' /\ Queued' = ToSet(Tail(microtasks)) \cup {t} /\ microtasks' = Tail(microtasks) \o <<t>>
               /\ t.who \in Instances /\ t.who # i /\ t.does = "resume" /\ job[t.who] = "slot" /\ t.who \in ToSet(waiters)
      BY <1>7, JobHandsQueue
    <3> QED
      BY <3>1
  <2>2. Doing(i, "resume")
    BY <1>7 DEF JobHands, JobStep
  <2>3. Head(microtasks) \in Queued /\ Head(microtasks).who = i /\ \A o \in ToSet(Tail(microtasks)) : o \in Queued /\ o.who # i
    BY <2>2, JobsTurn
  <2>4. \A u \in Queued' : u.who = t.who
    BY <1>1, <2>1, <2>3
  <2> QED
    BY <2>1, <2>4 DEF One
<1>8. ASSUME NEW i \in Instances, TerraformEnds(i) PROVE One'
  <2>1. PICK b, a \in Tasks : Queued' = {b, a} /\ b.who = i /\ a.who = i
    <3>1. \E b, a \in Tasks :
               /\ QueueInv' /\ Queued' = {b, a} /\ microtasks' = <<b, a>>
               /\ b.does = "body" /\ b.seen = file /\ b.status = "none" /\ a.does = "adopt" /\ b.who = i /\ a.who = i
               /\ i \in files /\ job'[i] \in {"gone", "failed"} /\ \A j \in Instances : j # i => job'[j] = job[j]
      BY <1>8, TerraformEndsQueue
    <3> QED
      BY <3>1
  <2>2. \A u \in Queued' : u.who = i
    BY <2>1
  <2> QED
    BY <2>2 DEF One
<1>9. ~Recovering /\ ~BulkReads /\ ~BulkDestroys /\ ~BulkEnds
  BY <1>2, RecoveringIs DEF BulkReads, BulkDestroys, BulkEnds
<1>10. ASSUME NEW i \in Instances, NEW to, NEW u, WatchGoes(i, to, u) PROVE One'
  <2>1. Doing(i, "resume") /\ u.who = i
    BY <1>10 DEF WatchGoes, JobStep
  <2>2. Queued' = ToSet(Tail(microtasks)) \cup {u}
    BY <1>10, WatchGoesQueue
  <2>3. Head(microtasks) \in Queued /\ Head(microtasks).who = i /\ \A o \in ToSet(Tail(microtasks)) : o \in Queued
    BY <2>1, JobsTurn
  <2>4. \A o \in Queued' : o.who = w
    BY <1>1, <2>1, <2>2, <2>3
  <2> QED
    BY <2>4 DEF One
<1> QED
  BY <1>3, <1>4, <1>5, <1>6, <1>7, <1>8, <1>9, <1>10, StepsAre DEF Recovering

LEMMA LoneStep ==
    ASSUME QueueInv, RegistryNext, Frame, ListedAre, Lone
    PROVE  Lone'
BY PastStep, OneStep DEF Lone

-----------------------------------------------------------------------------
\* What is kept of an instance, and which instances are.
Sound(i) == file[i] = wrote[i] /\ \A t \in Queued : WriteBody(t) => t.seen[i] = wrote[i]

\* The recovery starts neither a job nor a watcher for any other.
Single(i) == \A d \in Instances : Taken(d) => d = i
Exempt(i) ==
    \/ listed[i] = "applying" /\ Preceded(i)
    \/ listed[i] = "destroying" /\ i \notin files /\ ~Single(i)

Firm(i) ==
    IF turn = "bulk" THEN ~Crowded \/ wrote[i] = listed[i] \/ (i \in files /\ wrote[i] \in Done)
    ELSE ~Exempt(i)

\* The invariant: what must be kept is kept, in the file and in what those who are about to write have seen.
Solid == \A i \in Instances : Firm(i) => Sound(i)

\* What makes a write safe: nobody is about to write what he saw before it, or it changes nothing.
Alone == \A t \in Queued' : ~WriteBody(t)
\* A write of o that must be kept.
SafeWrite(o, s) == Firm(o)' => Alone \/ (Firm(o) /\ s = wrote[o])

LEMMA FirmIs ==
    ASSUME Frame, NEW i, wrote'[i] = wrote[i]
    PROVE  Firm(i)' <=> Firm(i)
<1>1. turn' = turn /\ files' = files /\ listed' = listed
  BY DEF Frame
<1>2. (Crowded' <=> Crowded) /\ (Exempt(i)' <=> Exempt(i))
  BY <1>1 DEF Crowded, Exempt, Preceded, Single, Taken
<1> QED
  BY <1>1, <1>2 DEF Firm

LEMMA SolidStep ==
    ASSUME QueueInv, Frame, Solid, NEW h, h = Head(microtasks), Writing => SafeWrite(h.of, h.status)
    PROVE  Solid'
<1> SUFFICES ASSUME NEW i \in Instances, Firm(i)' PROVE Sound(i)'
  BY DEF Solid
<1>1. CASE Untouched
  <2>1. file' = file /\ wrote' = wrote
    BY <1>1 DEF Untouched
  <2>2. Sound(i)
    BY <2>1, FirmIs DEF Solid
  <2>3. ASSUME NEW t \in Queued', WriteBody(t) PROVE t.seen[i] = wrote[i]
    <3>1. t \in Queued \/ t.seen = file
      BY <2>3 DEF Frame, WriteBody
    <3> QED
      BY <2>2, <2>3, <3>1 DEF Sound
  <2> QED
    BY <2>1, <2>2, <2>3 DEF Sound
<1>2. CASE Writing
  <2>1. /\ h \in Queued /\ WriteBody(h) /\ h.of \in Instances
        /\ i # h.of => wrote'[i] = wrote[i] /\ file'[i] = h.seen[i]
        /\ wrote'[h.of] = h.status /\ file'[h.of] = h.status
    BY <1>2, WritingIs
  <2>2. Queued' = ToSet(Tail(microtasks)) /\ microtasks # <<>>
    BY <1>2 DEF Writing
  <2>3. \A t \in Queued' : t \in Queued
    BY <2>2, TailIs
  <2>4. CASE i # h.of
    <3>1. Sound(i)
      BY <2>1, <2>4, FirmIs DEF Solid
    <3> QED
      BY <2>1, <2>3, <2>4, <3>1 DEF Sound
  <2>5. CASE i = h.of
    <3>1. Alone \/ (Firm(i) /\ h.status = wrote[i])
      BY <1>2, <2>5 DEF SafeWrite
    <3>2. CASE Alone
      BY <2>1, <2>5, <3>2 DEF Sound, Alone
    <3>3. CASE Firm(i) /\ h.status = wrote[i]
      <4>1. Sound(i)
        BY <3>3 DEF Solid
      <4> QED
        BY <2>1, <2>3, <2>5, <3>3, <4>1 DEF Sound
    <3> QED
      BY <3>1, <3>2, <3>3
  <2> QED
    BY <2>4, <2>5
<1> QED
  BY <1>1, <1>2 DEF Frame

-----------------------------------------------------------------------------
(* The mark of an interrupted apply.                                       *)

\* The recovery is about to write its mark.
LoopBody(t) == t.who = Loop /\ t.does = "body"

\* Before the body of the loop is nothing of its own, and nobody's answer.
BeforeLoop == {p \in Tasks \X Tasks : LoopBody(p[2]) => p[1].who # Loop /\ p[1].does # "settle"}

\* A task of a job or a watcher whose first answer is still to come.
Young(t) == t.who # Loop => job[t.who] = "slot" \/ (job[t.who] \in {"read", "watch"} /\ t.does # "resume")

\* The first mark after the jobs and watchers that the recovery has started is written before theirs.
Early ==
    turn = "recovery" /\ ~Preceded(position) /\ (\E t \in Queued : LoopBody(t)) =>
        (\A u \in Queued : Young(u)) /\ PairsIn(microtasks, BeforeLoop)

LEMMA NoLoopBody ==
    ASSUME NEW s \in Seq(Tasks), \A t \in ToSet(s) : ~LoopBody(t)
    PROVE  PairsIn(s, BeforeLoop)
<1> SUFFICES ASSUME NEW k \in DOMAIN s, NEW l \in DOMAIN s, k < l PROVE <<s[k], s[l]>> \in BeforeLoop
  BY DEF PairsIn
<1>1. s[k] \in Tasks /\ s[l] \in Tasks /\ s[l] \in ToSet(s)
  BY OfItsElements DEF ToSet
<1> QED
  BY <1>1 DEF BeforeLoop

LEMMA BeforePops ==
    ASSUME NEW q \in Seq(Tasks), q # <<>>, PairsIn(q, BeforeLoop), NEW ts \in Seq(Tasks), \A t \in ToSet(ts) : ~LoopBody(t)
    PROVE  PairsIn(Tail(q) \o ts, BeforeLoop)
<1>1. PairsIn(ts, BeforeLoop)
  BY NoLoopBody
<1>2. \A o \in ToSet(Tail(q)) : o \in Tasks
  BY HeadTailProperties, OfItsElements DEF ToSet
<1>3. \A t \in ToSet(ts) : t \in Tasks
  BY OfItsElements DEF ToSet
<1>4. \A o \in ToSet(Tail(q)), t \in ToSet(ts) : <<o, t>> \in BeforeLoop
  BY <1>2, <1>3 DEF BeforeLoop
<1> QED
  BY <1>1, <1>4, PairsPops

\* How the queue of a step looks.
Pushes ==
    \/ microtasks = <<>> /\ microtasks' \in Seq(Tasks) /\ \A t \in Queued' : ~LoopBody(t)
    \/ microtasks # <<>> /\ \E ts \in Seq(Tasks) : microtasks' = Tail(microtasks) \o ts /\ \A t \in ToSet(ts) : ~LoopBody(t)

LEMMA BeforeStep ==
    ASSUME QueueInv, Pushes, PairsIn(microtasks, BeforeLoop)
    PROVE  PairsIn(microtasks', BeforeLoop)
<1>1. PICK q \in Seq(Tasks) : q = microtasks
  BY DEF QueueInv, RegistryTypes
<1>2. PICK r : r = microtasks'
  OBVIOUS
<1>3. CASE q = <<>>
  <2>1. r \in Seq(Tasks) /\ \A t \in ToSet(r) : ~LoopBody(t)
    BY <1>1, <1>2, <1>3 DEF Pushes, Queued
  <2> QED
    BY <1>2, <2>1, NoLoopBody
<1>4. CASE q # <<>>
  <2>1. PICK ts \in Seq(Tasks) : r = Tail(q) \o ts /\ \A t \in ToSet(ts) : ~LoopBody(t)
    BY <1>1, <1>2, <1>4 DEF Pushes
  <2>2. PairsIn(q, BeforeLoop)
    BY <1>1
  <2> QED
    BY <1>2, <1>4, <2>1, <2>2, BeforePops
<1> QED
  BY <1>3, <1>4

LEMMA PushesAre ==
    ASSUME QueueInv, RegistryNext
    PROVE  Pushes \/ Recovering \/ BulkReads \/ BulkDestroys \/ BulkEnds
<1>0. RegistryTypes
  BY DEF QueueInv
<1>1. ASSUME microtasks # <<>>, NEW t \in Tasks, microtasks' = Tail(microtasks) \o <<t>>, ~LoopBody(t) PROVE Pushes
  <2>1. PICK ts : ts = <<t>>
    OBVIOUS
  <2>0. ts \in Seq(Tasks)
    BY <1>1, <2>1
  <2>2. ts \in Seq(Tasks) /\ ToSet(ts) = {t}
    BY <2>0, <2>1, FewElements
  <2>3. microtasks' = Tail(microtasks) \o ts /\ \A u \in ToSet(ts) : ~LoopBody(u)
    BY <1>1, <2>1, <2>2
  <2> QED
    BY <1>1, <2>2, <2>3 DEF Pushes
<1>2. ASSUME microtasks # <<>>, Then(<<>>) PROVE Pushes
  <2>1. PICK ts : ts = <<>>
    OBVIOUS
  <2>2. ts \in Seq(Tasks) /\ ToSet(ts) = {}
    BY <2>1, NoTasks
  <2> QED
    BY <1>2, <2>1, <2>2 DEF Pushes, Then
<1>3. ASSUME NEW who \in Owners, Body(who) PROVE Pushes
  BY <1>2, <1>3 DEF Body, Doing
<1>4. ASSUME NEW who \in Owners, Settle(who) PROVE Pushes
  <2>1. PICK t \in Tasks : microtasks' = Tail(microtasks) \o <<t>> /\ microtasks # <<>> /\ t.does # "body"
    <3>1. \E t \in Tasks :
               /\ QueueInv' /\ Queued' = ToSet(Tail(microtasks)) \cup {t} /\ microtasks' = Tail(microtasks) \o <<t>>
               /\ microtasks # <<>> /\ Head(microtasks) \in Queued /\ Head(microtasks) \in Tasks /\ Head(microtasks).who = who /\ t.who = who
               /\ \/ Head(microtasks).does = "adopt" /\ t.does = "settle"
                  \/ Head(microtasks).does = "settle" /\ t.does = "resume"
               /\ \A o \in ToSet(Tail(microtasks)) : o \in Queued /\ o.who # who
               /\ UNCHANGED <<turn, file, files, listed, position, got, job, holds, waiters, wrote>>
      BY <1>4, SettleQueue
    <3> QED
      BY <3>1
  <2> QED
    BY <1>1, <2>1 DEF LoopBody
<1>5. ASSUME NEW i \in Instances, NEW from, NEW to, NEW status, JobCalls(i, from, to, status) PROVE Pushes
  <2>1. Passes(i, from, to, status) /\ Doing(i, "resume") /\ Then(Call(i, i, status))
    BY <1>5 DEF JobCalls, JobStep
  <2>2. PICK b, a : /\ b = [who |-> i, does |-> "body", of |-> i, seen |-> file, status |-> status]
                    /\ a = [who |-> i, does |-> "adopt"]
    OBVIOUS
  <2>3. Call(i, i, status) \in Seq(Tasks) /\ ToSet(Call(i, i, status)) = {b, a}
    BY <1>0, <2>1, <2>2, PassesIs, OwnersAre, CallIs
  <2>4. b.who = i /\ a.who = i /\ i # Loop
    BY <2>2, OwnersAre
  <2>5. \A t \in ToSet(Call(i, i, status)) : ~LoopBody(t)
    BY <2>3, <2>4 DEF LoopBody
  <2> QED
    BY <2>1, <2>3, <2>5 DEF Pushes, Then, Doing
<1>6. ASSUME NEW i \in Instances, JobRuns(i) \/ JobLeaves(i) \/ WatchSleeps(i) PROVE Pushes
  BY <1>2, <1>6 DEF JobRuns, JobLeaves, WatchSleeps, WatchStep, JobStep, Doing
<1>7. ASSUME NEW i \in Instances, JobHands(i) PROVE Pushes
  <2>1. PICK t \in Tasks : microtasks' = Tail(microtasks) \o <<t>> /\ t.does = "resume"
    <3>1. \E t \in Tasks :
               /\ QueueInv' /\ Queued' = ToSet(Tail(microtasks)) \cup {t} /\ microtasks' = Tail(microtasks) \o <<t>>
               /\ t.who \in Instances /\ t.who # i /\ t.does = "resume" /\ job[t.who] = "slot" /\ t.who \in ToSet(waiters)
      BY <1>7, JobHandsQueue
    <3> QED
      BY <3>1
  <2>2. microtasks # <<>>
    BY <1>7 DEF JobHands, JobStep, Doing
  <2> QED
    BY <1>1, <2>1, <2>2 DEF LoopBody
<1>8. ASSUME NEW i \in Instances, TerraformEnds(i) PROVE Pushes
  <2>1. PICK b, a \in Tasks : Queued' = {b, a} /\ microtasks' = <<b, a>> /\ b.who = i /\ a.who = i
    <3>1. \E b, a \in Tasks :
               /\ QueueInv' /\ Queued' = {b, a} /\ microtasks' = <<b, a>>
               /\ b.does = "body" /\ b.seen = file /\ b.status = "none" /\ a.does = "adopt" /\ b.who = i /\ a.who = i
               /\ i \in files /\ job'[i] \in {"gone", "failed"} /\ \A j \in Instances : j # i => job'[j] = job[j]
      BY <1>8, TerraformEndsQueue
    <3> QED
      BY <3>1
  <2>2. \A t \in Queued' : ~LoopBody(t)
    BY <2>1, OwnersAre DEF LoopBody
  <2>3. microtasks = <<>> /\ microtasks' \in Seq(Tasks)
    BY <1>8, <2>1 DEF TerraformEnds
  <2> QED
    BY <2>2, <2>3 DEF Pushes
<1>9. ASSUME NEW i \in Instances, NEW to, NEW t, WatchGoes(i, to, t) PROVE Pushes
  <2>1. microtasks # <<>> /\ t \in Tasks /\ t.does # "body"
    BY <1>9 DEF WatchGoes, JobStep, Doing
  <2>2. microtasks' = Tail(microtasks) \o <<t>>
    BY <1>9, WatchGoesQueue
  <2> QED
    BY <1>1, <2>1, <2>2 DEF LoopBody
<1> QED
  BY <1>3, <1>4, <1>5, <1>6, <1>7, <1>8, <1>9, StepsAre DEF Recovering

\* When the recovery comes to such an apply, what it has started is only starting.
LEMMA AllStarting ==
    ASSUME QueueInv, Passing, turn = "recovery", Doing(Loop, "resume"),
           NEW p \in Instances, p = position + 1, ~Preceded(p), NEW o \in ToSet(Tail(microtasks))
    PROVE  o \in Tasks /\ o.who # Loop /\ Starting(o) /\ (job[o.who] = "slot" => o.does = "resume")
<1>1. o \in Queued /\ o.who \in Instances /\ o.who # Loop /\ o \in Tasks
  BY LoopsTurn
<1>2. OfJob(o)
  BY <1>1 DEF QueueInv
<1>3. job[o.who] # "none"
  BY <1>2 DEF OfJob, Busy, Working, Watching
<1>4. Taken(o.who)
  BY <1>1, <1>3 DEF QueueInv, ListedFor, Taken
<1>5. ASSUME NEW j \in Instances, o.who < j, j <= position, listed[j] = "applying" PROVE FALSE
  <2>1. o.who \in Int /\ j \in Int /\ position \in Int /\ o.who >= 1
    BY <1>1, OwnersAre DEF QueueInv, RegistryTypes, Instances
  <2>2. o.who \in 1 .. p - 1 /\ j \in 1 .. p - 1
    BY <1>5, <2>1
  <2> QED
    BY <1>4, <1>5, <2>2 DEF Preceded
<1> QED
  BY <1>1, <1>2, <1>5 DEF Passing, OfJob

LEMMA EarlyMarks ==
    ASSUME QueueInv, Passing, RecoverMarks
    PROVE  Early'
<1>1. PICK p \in Instances, b, a \in Tasks :
           /\ QueueInv' /\ RecoversTo(p, "applying")
           /\ Queued' = ToSet(Tail(microtasks)) \cup {b, a} /\ microtasks' = Tail(microtasks) \o <<b, a>>
           /\ b.does = "body" /\ b.seen = file /\ b.of = p /\ a.does = "adopt" /\ b.who = Loop /\ a.who = Loop
           /\ UNCHANGED <<job, holds, waiters>>
  BY RecoverMarksQueue
<1>2. turn = "recovery" /\ Doing(Loop, "resume") /\ position' = p /\ p = position + 1 /\ listed' = listed
  BY <1>1 DEF RecoversTo
<1> SUFFICES ASSUME ~Preceded(p) PROVE (\A u \in Queued' : Young(u)') /\ PairsIn(microtasks', BeforeLoop)
  BY <1>2 DEF Early, Preceded, Taken
<1>3. ASSUME NEW o \in ToSet(Tail(microtasks))
      PROVE  o \in Tasks /\ o.who # Loop /\ Starting(o) /\ (job[o.who] = "slot" => o.does = "resume")
  BY <1>2, <1>3, AllStarting
<1>4. \A o \in ToSet(Tail(microtasks)) : Young(o)
  BY <1>3 DEF Starting, Young
<1>5. \A u \in Queued' : Young(u)'
  BY <1>1, <1>4 DEF Young
<1>6. PairsIn(microtasks', BeforeLoop)
  <2>1. PICK q, ts : q = Tail(microtasks) /\ ts = <<b, a>>
    OBVIOUS
  <2>2. q \in Seq(Tasks) /\ ts \in Seq(Tasks) /\ ToSet(ts) = {b, a}
    <3>1. q \in Seq(Tasks) /\ ts \in Seq(Tasks)
      BY <1>2, <2>1, TailIs DEF Doing
    <3> QED
      BY <2>1, <3>1, FewElements
  <2>3. PairsIn(q, BeforeLoop)
    <3>1. \A t \in ToSet(q) : ~LoopBody(t)
      BY <1>3, <2>1 DEF LoopBody
    <3> QED
      BY <2>2, <3>1, NoLoopBody
  <2>4. PairsIn(ts, BeforeLoop)
    <3>1. <<b, a>> \in BeforeLoop
      BY <1>1 DEF BeforeLoop, LoopBody
    <3> QED
      BY <2>1, <3>1, PairsFew
  <2>5. \A x \in ToSet(q), y \in ToSet(ts) : <<x, y>> \in BeforeLoop
    <3> SUFFICES ASSUME NEW x \in ToSet(q), NEW y \in ToSet(ts) PROVE <<x, y>> \in BeforeLoop
      OBVIOUS
    <3>1. y \in Tasks
      BY <1>1, <2>2
    <3>2. x \in Tasks /\ x.who # Loop /\ x.does # "settle"
      BY <1>3, <2>1 DEF Starting
    <3> QED
      BY <3>1, <3>2 DEF BeforeLoop
  <2>6. PairsIn(q \o ts, BeforeLoop)
    BY <2>2, <2>3, <2>4, <2>5, PairsConcat
  <2> QED
    BY <1>1, <2>1, <2>6
<1> QED
  BY <1>5, <1>6

\* As long as the mark waits for its turn, the jobs and watchers that have theirs write nothing.
LEMMA YoungStep ==
    ASSUME QueueInv, RegistryNext, Others, PairsIn(microtasks, BeforeLoop),
           NEW b \in Queued', LoopBody(b), \A u \in Queued : Young(u)
    PROVE  \A u \in Queued' : Young(u)'
<1>0. RegistryTypes
  BY DEF QueueInv
<1>1. b \in Queued /\ b.who = Loop /\ b.does = "body"
  BY DEF Others, LoopBody
<1>2. microtasks # <<>>
  BY <1>1, FewElements DEF Queued
<1> PICK h \in Tasks : h = Head(microtasks)
  BY <1>2, TailIs
<1>3. Queued = {h} \cup ToSet(Tail(microtasks)) /\ h \in Queued /\ \A o \in ToSet(Tail(microtasks)) : o \in Queued /\ o \in Tasks
  BY <1>2, TailIs
<1>4. h.who # Loop
  <2> SUFFICES ASSUME h.who = Loop PROVE FALSE
    OBVIOUS
  <2>1. h = b
    <3>1. \A o \in ToSet(Tail(microtasks)) : o.who = Loop => o.does = "adopt"
      BY <1>2, TailIs
    <3> QED
      BY <1>1, <1>3, <3>1
  <2>2. \A o \in ToSet(Tail(microtasks)) : o.who = Loop => o.does = "adopt"
    BY <1>2, TailIs
  <2>3. Body(Loop)
    <3>1. ASSUME NEW i \in Instances, NEW d, Doing(i, d) PROVE FALSE
      BY <3>1, OwnersAre DEF Doing
    <3>2. ASSUME NEW who \in Instances, Body(who) \/ Settle(who) PROVE FALSE
      BY <3>1, <3>2 DEF Body, Settle
    <3>3. ASSUME NEW i \in Instances, JobRuns(i) \/ JobLeaves(i) \/ JobHands(i) \/ WatchSleeps(i) PROVE FALSE
      BY <3>1, <3>3 DEF JobRuns, JobLeaves, JobHands, WatchSleeps, WatchStep, JobStep
    <3>4. ASSUME NEW i \in Instances, TerraformEnds(i) PROVE FALSE
      BY <1>2, <3>4 DEF TerraformEnds
    <3>5. ASSUME NEW i \in Instances, NEW from, NEW to, NEW status, JobCalls(i, from, to, status) PROVE FALSE
      BY <3>1, <3>5 DEF JobCalls, JobStep
    <3>6. ASSUME NEW i \in Instances, NEW to, NEW t, WatchGoes(i, to, t) PROVE FALSE
      BY <3>1, <3>6 DEF WatchGoes, JobStep
    <3>7. ~Doing(Loop, "resume") /\ ~Settle(Loop)
      BY <1>1, <2>1 DEF Doing, Settle
    <3>8. ~Recovering /\ ~BulkReads /\ ~BulkDestroys /\ ~BulkEnds
      BY <3>7, RecoveringIs DEF BulkReads, BulkDestroys, BulkEnds
    <3> QED
      BY <3>2, <3>3, <3>4, <3>5, <3>6, <3>7, <3>8, StepsAre, OwnersAre DEF Recovering
  <2>4. Queued' = ToSet(Tail(microtasks))
    BY <2>3, BodyQueue, OwnersAre
  <2> QED
    BY <1>1, <2>2, <2>4
<1>5. h.does # "settle" /\ h.who \in Instances
  <2>1. b \in ToSet(Tail(microtasks))
    BY <1>1, <1>3, <1>4
  <2>2. PICK q \in Seq(Tasks) : q = microtasks
    BY <1>0 DEF RegistryTypes
  <2>3. <<h, b>> \in BeforeLoop
    BY <1>2, <2>1, <2>2, PairsTail
  <2> QED
    BY <1>4, <2>3, TaskFields, OwnersAre DEF BeforeLoop
<1>6. OfJob(h) /\ Young(h) /\ h.does \in {"resume", "adopt", "body"}
  BY <1>3, <1>5, TaskFields DEF QueueInv
<1> PICK i \in Instances : i = h.who
  BY <1>5
<1>7. \A j \in Owners : \A d : Doing(j, d) => j = i /\ d = h.does
  BY <1>5 DEF Doing
<1>18. Loop # i /\ Loop \in Owners /\ \A j \in Instances : j \in Owners
  BY OwnersAre
<1>19. (\E status : JobCalls(i, "slot", "read", status)) \/ Body(i) \/ Settle(i)
  <2>1. ~Recovering /\ ~BulkReads /\ ~BulkDestroys /\ ~BulkEnds /\ ~Body(Loop) /\ ~Settle(Loop)
    BY <1>7, <1>18, RecoveringIs DEF BulkReads, BulkDestroys, BulkEnds, Body, Settle
  <2>2. ASSUME NEW who \in Instances, Body(who) \/ Settle(who) PROVE Body(i) \/ Settle(i)
    BY <1>7, <1>18, <2>2 DEF Body, Settle
  <2>3. ASSUME NEW j \in Instances, Doing(j, "resume") PROVE job[j] = "slot" /\ j = i
    BY <1>5, <1>6, <1>7, <1>18, <2>3 DEF Young
  <2>4. ASSUME NEW j \in Instances, JobRuns(j) \/ JobLeaves(j) \/ JobHands(j) \/ WatchSleeps(j) PROVE FALSE
    BY <2>3, <2>4 DEF JobRuns, JobLeaves, JobHands, WatchSleeps, WatchStep, JobStep
  <2>5. ASSUME NEW j \in Instances, TerraformEnds(j) PROVE FALSE
    BY <1>2, <2>5 DEF TerraformEnds
  <2>6. ASSUME NEW j \in Instances, NEW from, NEW to, NEW status, JobCalls(j, from, to, status)
        PROVE  JobCalls(i, "slot", "read", status)
    <3>1. Doing(j, "resume") /\ job[j] = from /\ Passes(j, from, to, status)
      BY <2>6 DEF JobCalls, JobStep
    <3>2. j = i /\ from = "slot"
      BY <2>3, <3>1
    <3>3. to = "read"
      BY <3>1, <3>2 DEF Passes
    <3> QED
      BY <2>6, <3>2, <3>3
  <2>7. ASSUME NEW j \in Instances, NEW to, NEW t, WatchGoes(j, to, t) PROVE FALSE
    BY <2>3, <2>7 DEF WatchGoes, JobStep, Watching
  <2> QED
    BY <2>1, <2>2, <2>4, <2>5, <2>6, <2>7, StepsAre, OwnersAre DEF Recovering
<1>20. CASE Body(i)
  <2>1. Queued' = ToSet(Tail(microtasks)) /\ job' = job
    BY <1>18, <1>20, BodyQueue DEF Body
  <2> QED
    BY <1>3, <2>1 DEF Young
<1>21. CASE Settle(i)
  <2>1. PICK t \in Tasks : /\ Queued' = ToSet(Tail(microtasks)) \cup {t} /\ job' = job /\ t.who = i
                           /\ \/ Head(microtasks).does = "adopt" /\ t.does = "settle"
                              \/ Head(microtasks).does = "settle" /\ t.does = "resume"
    <3>1. \E t \in Tasks :
               /\ QueueInv' /\ Queued' = ToSet(Tail(microtasks)) \cup {t} /\ microtasks' = Tail(microtasks) \o <<t>>
               /\ microtasks # <<>> /\ Head(microtasks) \in Queued /\ Head(microtasks) \in Tasks /\ Head(microtasks).who = i /\ t.who = i
               /\ \/ Head(microtasks).does = "adopt" /\ t.does = "settle"
                  \/ Head(microtasks).does = "settle" /\ t.does = "resume"
               /\ \A o \in ToSet(Tail(microtasks)) : o \in Queued /\ o.who # i
               /\ UNCHANGED <<turn, file, files, listed, position, got, job, holds, waiters, wrote>>
      BY <1>18, <1>21, SettleQueue
    <3> QED
      BY <3>1
  <2>2. t.does = "settle" /\ job[i] # "slot"
    BY <1>5, <1>6, <2>1 DEF OfJob
  <2>3. Young(t)
    BY <1>4, <1>6, <2>1, <2>2 DEF Young
  <2> QED
    BY <1>3, <2>1, <2>3 DEF Young
<1>22. CASE \E status : JobCalls(i, "slot", "read", status)
  <2>9. PICK status : JobCalls(i, "slot", "read", status)
    BY <1>22
  <2>10. Queued' = ToSet(Tail(microtasks)) \cup ToSet(Call(i, i, status))
    BY <2>9, JobCallsQueue
  <2>11. Passes(i, "slot", "read", status) /\ job' = [job EXCEPT ![i] = "read"] /\ Doing(i, "resume")
    BY <2>9 DEF JobCalls, JobStep
  <2>12. \A j \in Instances : job'[j] = IF j = i THEN "read" ELSE job[j]
    BY <1>0, <2>11 DEF RegistryTypes
  <2>13. PICK c, a : /\ c = [who |-> i, does |-> "body", of |-> i, seen |-> file, status |-> status]
                     /\ a = [who |-> i, does |-> "adopt"]
    OBVIOUS
  <2>14. ToSet(Call(i, i, status)) = {c, a}
    BY <1>0, <2>11, <2>13, PassesIs, OwnersAre, CallIs
  <2>15. c.who = i /\ a.who = i /\ c.does = "body" /\ a.does = "adopt"
    BY <2>13
  <2>16. ASSUME NEW u \in ToSet(Tail(microtasks)) PROVE Young(u)'
    <3>1. Young(u) /\ u.who # i /\ u \in Tasks
      BY <1>3, <2>11, <2>16, JobsTurn
    <3>2. u.who # Loop => u.who \in Instances
      BY <3>1, TaskFields, OwnersAre
    <3> QED
      BY <2>12, <3>1, <3>2 DEF Young
  <2>17. Young(c)' /\ Young(a)'
    BY <2>12, <2>15 DEF Young
  <2> QED
    BY <2>10, <2>14, <2>16, <2>17
<1> QED
  BY <1>19, <1>20, <1>21, <1>22

LEMMA EarlyStep ==
    ASSUME QueueInv, RegistryNext, Passing, Frame, Early
    PROVE  Early'
<1>1. turn' = turn /\ listed' = listed
  BY DEF Frame
<1> SUFFICES ASSUME turn = "recovery", ~Preceded(position)', NEW t \in Queued', LoopBody(t) PROVE Early'
  BY <1>1 DEF Early
<1>2. CASE Recovering
  <2>1. GoesOn \/ RecoverMarks \/ RecoverEnds
    BY <1>2, RecoveringIs
  <2>2. ~GoesOn
    BY DEF GoesOn, LoopBody
  <2>3. ~RecoverEnds
    <3>1. ASSUME RecoverEnds PROVE FALSE
      <4>1. Queued' = ToSet(Tail(microtasks)) /\ Doing(Loop, "resume")
        BY <3>1, LoopEndsQueue DEF RecoverEnds
      <4> QED
        BY <4>1, LoopsTurn DEF LoopBody
    <3> QED
      BY <3>1
  <2> QED
    BY <2>1, <2>2, <2>3, EarlyMarks
<1>3. CASE Others
  <2>1. t \in Queued /\ position' = position
    BY <1>3 DEF Others, LoopBody
  <2>2. ~Preceded(position)
    BY <1>1, <2>1 DEF Preceded, Taken
  <2>3. (\A u \in Queued : Young(u)) /\ PairsIn(microtasks, BeforeLoop)
    BY <2>1, <2>2 DEF Early
  <2>4. \A u \in Queued' : Young(u)'
    BY <1>3, <2>3, YoungStep
  <2>5. Pushes
    <3>1. ~BulkReads /\ ~BulkDestroys /\ ~BulkEnds
      BY DEF BulkReads, BulkDestroys, BulkEnds
    <3>2. ~Recovering
      BY <1>3, RecoveringIs DEF Others
    <3> QED
      BY <3>1, <3>2, PushesAre
  <2>6. PairsIn(microtasks', BeforeLoop)
    BY <2>3, <2>5, BeforeStep
  <2> QED
    BY <2>4, <2>6 DEF Early
<1>4. CASE Body(Loop)
  <2>1. /\ Queued' = ToSet(Tail(microtasks)) /\ microtasks # <<>> /\ Head(microtasks).who = Loop
    BY <1>4, BodyQueue, OwnersAre
  <2>2. t.does = "adopt"
    BY <2>1, TailIs DEF LoopBody
  <2> QED
    BY <2>2 DEF LoopBody
<1>5. CASE Settle(Loop)
  <2>1. PICK s \in Tasks :
             /\ Queued' = ToSet(Tail(microtasks)) \cup {s} /\ s.does # "body"
             /\ \A o \in ToSet(Tail(microtasks)) : o.who # Loop
    <3>1. \E s \in Tasks :
               /\ QueueInv' /\ Queued' = ToSet(Tail(microtasks)) \cup {s} /\ microtasks' = Tail(microtasks) \o <<s>>
               /\ microtasks # <<>> /\ Head(microtasks) \in Queued /\ Head(microtasks) \in Tasks /\ Head(microtasks).who = Loop /\ s.who = Loop
               /\ \/ Head(microtasks).does = "adopt" /\ s.does = "settle"
                  \/ Head(microtasks).does = "settle" /\ s.does = "resume"
               /\ \A o \in ToSet(Tail(microtasks)) : o \in Queued /\ o.who # Loop
               /\ UNCHANGED <<turn, file, files, listed, position, got, job, holds, waiters, wrote>>
      BY <1>5, SettleQueue, OwnersAre
    <3> QED
      BY <3>1
  <2> QED
    BY <2>1 DEF LoopBody
<1>6. ~BulkReads /\ ~BulkDestroys /\ ~BulkEnds
  BY DEF BulkReads, BulkDestroys, BulkEnds
<1> QED
  BY <1>2, <1>3, <1>4, <1>5, <1>6, OthersAre

-----------------------------------------------------------------------------
(* The pace of the jobs.                                                   *)

\* How far a task is: a job counts from its slot, the loop up to it.
Base(state) == IF state = "marked" THEN 3 ELSE IF state \in {"gone", "failed"} THEN 6 ELSE IF state = "concluded" THEN 9 ELSE 0
Phase(does) == IF does = "settle" THEN 2 ELSE IF does = "resume" THEN 3 ELSE 1
Age(t) ==
    IF t.who = Loop THEN (IF turn = "bulk" /\ t.does = "resume" /\ got = "none" THEN -4 ELSE Phase(t.does) - 4)
    ELSE IF job[t.who] = "slot" THEN 0 ELSE Base(job[t.who]) + Phase(t.does)

\* The rounds that lie between two of those that started in the order of the file.
Gap(n) == IF turn = "bulk" THEN n = 4 \/ n = 7 \/ n >= 8 ELSE \E k \in Int : n = 3 * k
\* The jobs are started in the order of the file, before the loop goes on.
Before(o, p) == o # Loop /\ (p = Loop \/ o < p)
\* By how many rounds one is ahead of the other.
Delay(a, b) == IF Before(a.who, b.who) THEN Age(a) - Age(b) ELSE Age(b) - Age(a) - 1
Timed == {p \in Tasks \X Tasks : p[1].who # p[2].who => Gap(Delay(p[1], p[2]))}

\* No job waits for a slot, or there is one job at most and no watcher.
Calm ==
    IF turn = "bulk" THEN Slots > 1 /\ ~Crowded
    ELSE \A i, j \in Instances : Taken(i) /\ Taken(j) => i = j /\ listed[i] = "destroying"

\* Then nobody waits, and whatever two tasks of two owners, their delay is one of those.
Paced == Calm => waiters = <<>> /\ PairsIn(microtasks, Timed)

LEMMA AgeIs == \A t : Age(t) \in Int
BY DEF Age, Base, Phase

LEMMA NoWatcher ==
    ASSUME QueueInv, Calm, NEW i \in Instances
    PROVE  job[i] \notin Watching
<1> SUFFICES ASSUME job[i] \in Watching PROVE FALSE
  OBVIOUS
<1>1. turn = "recovery" /\ listed[i] = "bootstrapping"
  BY DEF QueueInv, ListedFor, Watching
<1> QED
  BY <1>1 DEF Calm, Taken

LEMMA OrderIs ==
    ASSUME NEW o \in Owners, NEW p \in Owners, o # p
    PROVE  Before(o, p) <=> ~Before(p, o)
BY OwnersAre DEF Before

LEMMA PairsMono ==
    ASSUME NEW S, NEW s \in Seq(S), NEW R, NEW R2, PairsIn(s, R),
           \A a, b \in ToSet(s) : <<a, b>> \in R => <<a, b>> \in R2
    PROVE  PairsIn(s, R2)
<1> SUFFICES ASSUME NEW k \in DOMAIN s, NEW l \in DOMAIN s, k < l PROVE <<s[k], s[l]>> \in R2
  BY DEF PairsIn
<1>1. s[k] \in ToSet(s) /\ s[l] \in ToSet(s) /\ <<s[k], s[l]>> \in R
  BY DEF ToSet, PairsIn
<1> QED
  BY <1>1

\* The tasks that are left are as far as they were.
LEMMA TimedTail ==
    ASSUME QueueInv, microtasks # <<>>, PairsIn(microtasks, Timed), turn' = turn,
           \A o \in ToSet(Tail(microtasks)) : Age(o)' = Age(o)
    PROVE  PairsIn(Tail(microtasks), Timed')
<1>1. PICK q \in Seq(Tasks) : q = microtasks
  BY DEF QueueInv, RegistryTypes
<1>2. PICK R, R2 : R = Timed /\ R2 = Timed'
  OBVIOUS
<1>3. Tail(q) \in Seq(Tasks) /\ PairsIn(Tail(q), R)
  BY <1>1, <1>2, PairsTail, HeadTailProperties
<1>4. ASSUME NEW a \in ToSet(Tail(q)), NEW b \in ToSet(Tail(q)), <<a, b>> \in R PROVE <<a, b>> \in R2
  <2>1. Age(a)' = Age(a) /\ Age(b)' = Age(b)
    BY <1>1
  <2>2. Delay(a, b)' = Delay(a, b)
    BY <2>1 DEF Delay
  <2>3. Gap(Delay(a, b)) => Gap(Delay(a, b))'
    BY <2>2 DEF Gap
  <2> QED
    BY <1>2, <1>4, <2>3 DEF Timed
<1> QED
  BY <1>1, <1>2, <1>3, <1>4, PairsMono

\* A step whose new tasks have the same delay keeps all delays.
LEMMA TimedPushes ==
    ASSUME NEW ts \in Seq(Tasks), QueueInv, microtasks # <<>>, PairsIn(microtasks, Timed), turn' = turn,
           \A o \in ToSet(Tail(microtasks)) : Age(o)' = Age(o),
           microtasks' = Tail(microtasks) \o ts, PairsIn(ts, Timed'),
           \A o \in ToSet(Tail(microtasks)), t \in ToSet(ts) : <<o, t>> \in Timed'
    PROVE  PairsIn(microtasks', Timed')
<1>1. PICK q \in Seq(Tasks) : q = Tail(microtasks)
  BY TailIs
<1>2. PICK R2 : R2 = Timed'
  OBVIOUS
<1>3. PairsIn(q, R2)
  BY <1>1, <1>2, TimedTail
<1>4. PairsIn(q \o ts, R2)
  BY <1>1, <1>2, <1>3, PairsConcat
<1> QED
  BY <1>1, <1>2, <1>4

\* The head goes one round on.
LEMMA Advances ==
    ASSUME QueueInv, microtasks # <<>>, PairsIn(microtasks, Timed), turn' = turn,
           NEW o \in ToSet(Tail(microtasks)), o.who # Head(microtasks).who, Age(o)' = Age(o),
           NEW t \in Tasks, t.who = Head(microtasks).who, Age(t)' = Age(Head(microtasks)) + 1
    PROVE  <<o, t>> \in Timed'
<1>1. PICK q \in Seq(Tasks) : q = microtasks
  BY DEF QueueInv, RegistryTypes
<1>2. PICK h \in Tasks : h = Head(microtasks)
  BY TailIs
<1>3. o \in Tasks /\ h.who \in Owners /\ o.who \in Owners
  BY <1>2, TailIs, TaskFields
<1>4. PICK R : R = Timed
  OBVIOUS
<1>5. <<h, o>> \in Timed
  BY <1>1, <1>2, <1>4, PairsTail
<1>6. Gap(Delay(h, o))
  BY <1>2, <1>3, <1>5 DEF Timed
<1>7. Age(h) \in Int /\ Age(o) \in Int
  BY AgeIs
<1>8. Delay(o, t)' = Delay(h, o)
  <2>1. Before(o.who, h.who) <=> ~Before(h.who, o.who)
    BY <1>2, <1>3, OrderIs
  <2>2. Delay(o, t)' = IF Before(o.who, h.who) THEN Age(o) - (Age(h) + 1) ELSE (Age(h) + 1) - Age(o) - 1
    BY <1>2 DEF Delay
  <2>3. Delay(h, o) = IF Before(h.who, o.who) THEN Age(h) - Age(o) ELSE Age(o) - Age(h) - 1
    BY DEF Delay
  <2> QED
    BY <1>7, <2>1, <2>2, <2>3
<1>9. Gap(Delay(o, t))'
  BY <1>6, <1>8 DEF Gap
<1> QED
  BY <1>3, <1>9 DEF Timed

\* Tasks of one owner have no delay.
LEMMA TimedCall ==
    ASSUME NEW b \in Tasks, NEW a \in Tasks, a.who = b.who
    PROVE  PairsIn(<<b, a>>, Timed') /\ PairsIn(<<b>>, Timed') /\ PairsIn(<<>>, Timed')
<1>1. PICK R2 : R2 = Timed'
  OBVIOUS
<1>2. <<b, a>> \in R2
  BY <1>1 DEF Timed
<1> QED
  BY <1>1, <1>2, PairsFew

-----------------------------------------------------------------------------
(* The pace: the steps of the jobs.                                        *)

LEMMA TailAges ==
    ASSUME QueueInv, microtasks # <<>>, turn' = turn, got' = got \/ Head(microtasks).who = Loop,
           \A j \in Instances : job'[j] = job[j] \/ job[j] = "none" \/ (j = Head(microtasks).who /\ Head(microtasks).does # "body"),
           NEW o \in ToSet(Tail(microtasks))
    PROVE  Age(o)' = Age(o)
<1>1. o \in Tasks /\ o \in Queued /\ (o.who = Head(microtasks).who => Head(microtasks).does = "body" /\ o.does = "adopt")
  BY TailIs
<1>2. CASE o.who = Loop
  BY <1>1, <1>2 DEF Age, Phase
<1>3. CASE o.who \in Instances
  <2>1. OfJob(o)
    BY <1>1, <1>3 DEF QueueInv
  <2>2. job[o.who] # "none"
    BY <2>1 DEF OfJob, Busy, Working, Watching
  <2>3. job'[o.who] = job[o.who]
    BY <1>1, <1>3, <2>2
  <2>4. o.who # Loop
    BY <1>3, OwnersAre
  <2> QED
    BY <2>3, <2>4 DEF Age
<1> QED
  BY <1>1, <1>2, <1>3, TaskFields, OwnersAre

\* The pace after a step.
Pace == waiters' = <<>> /\ PairsIn(microtasks', Timed')

LEMMA PaceIs ==
    ASSUME Calm, Paced
    PROVE  waiters = <<>> /\ PairsIn(microtasks, Timed)
BY DEF Paced

LEMMA PaceBody ==
    ASSUME QueueInv, Frame, Calm, Paced, NEW who \in Owners, Body(who)
    PROVE  Pace
<1>1. microtasks' = Tail(microtasks) /\ microtasks # <<>> /\ Head(microtasks).who = who
  BY BodyQueue
<1>2. turn' = turn /\ waiters' = waiters /\ job' = job /\ (got' = got \/ who = Loop)
  BY DEF Body
<1>3. \A o \in ToSet(Tail(microtasks)) : Age(o)' = Age(o)
  BY <1>1, <1>2, TailAges
<1>4. PairsIn(Tail(microtasks), Timed')
  BY <1>1, <1>2, <1>3, PaceIs, TimedTail
<1> QED
  BY <1>1, <1>2, <1>4, PaceIs DEF Pace

LEMMA PaceSettle ==
    ASSUME QueueInv, Frame, LoopInv, ListedAre, Calm, Paced, NEW who \in Owners, Settle(who)
    PROVE  Pace
<1>1. PICK t \in Tasks :
           /\ microtasks' = Tail(microtasks) \o <<t>>
           /\ microtasks # <<>> /\ Head(microtasks) \in Queued /\ Head(microtasks).who = who /\ t.who = who
           /\ \/ Head(microtasks).does = "adopt" /\ t.does = "settle"
              \/ Head(microtasks).does = "settle" /\ t.does = "resume"
           /\ \A o \in ToSet(Tail(microtasks)) : o.who # who
           /\ UNCHANGED <<turn, got, job, waiters, position, listed>>
  <2>1. \E t \in Tasks :
               /\ QueueInv' /\ Queued' = ToSet(Tail(microtasks)) \cup {t} /\ microtasks' = Tail(microtasks) \o <<t>>
               /\ microtasks # <<>> /\ Head(microtasks) \in Queued /\ Head(microtasks) \in Tasks /\ Head(microtasks).who = who /\ t.who = who
               /\ \/ Head(microtasks).does = "adopt" /\ t.does = "settle"
                  \/ Head(microtasks).does = "settle" /\ t.does = "resume"
               /\ \A o \in ToSet(Tail(microtasks)) : o \in Queued /\ o.who # who
               /\ UNCHANGED <<turn, file, files, listed, position, got, job, holds, waiters, wrote>>
    BY SettleQueue
  <2> QED
    BY <2>1
<1> PICK h : h = Head(microtasks)
  OBVIOUS
<1>2. \A o \in ToSet(Tail(microtasks)) : Age(o)' = Age(o)
  BY <1>1, TailAges
<1>3. Age(t)' = Age(h) + 1
  <2>1. CASE who = Loop
    <3>1. turn = "bulk" /\ h.does = "settle" => got # "none"
      <4>1. turn = "bulk" => LoopAt(h)
        BY <1>1, <2>1 DEF LoopInv
      <4>2. turn = "bulk" /\ h.does = "settle" => position \in Instances /\ got = listed[position]
        BY <4>1 DEF LoopAt, Fresh
      <4> QED
        BY <4>2 DEF ListedAre
    <3>2. h.does = "adopt" => Age(h) = -3 /\ Age(t)' = -2
      BY <1>1, <2>1 DEF Age, Phase
    <3>3. h.does = "settle" => Age(h) = -2 /\ Age(t)' = -1
      BY <1>1, <2>1, <3>1 DEF Age, Phase
    <3> QED
      BY <1>1, <3>2, <3>3
  <2>2. CASE who # Loop
    <3>1. who \in Instances
      BY <2>2, OwnersAre
    <3>2. OfJob(h)
      BY <1>1, <3>1 DEF QueueInv
    <3>3. job[who] # "slot"
      BY <1>1, <3>2 DEF OfJob
    <3>4. Age(h) = Base(job[who]) + Phase(h.does) /\ Age(t)' = Base(job[who]) + Phase(t.does)
      BY <1>1, <2>2, <3>3 DEF Age
    <3>5. Phase(t.does) = Phase(h.does) + 1 /\ Phase(h.does) \in Int /\ Base(job[who]) \in Int
      BY <1>1 DEF Phase, Base
    <3> QED
      BY <3>4, <3>5
  <2> QED
    BY <2>1, <2>2
<1>4. \A o \in ToSet(Tail(microtasks)) : <<o, t>> \in Timed'
  BY <1>1, <1>2, <1>3, PaceIs, Advances
<1> PICK ts : ts = <<t>>
  OBVIOUS
<1>5. ts \in Seq(Tasks)
  BY <1>1
<1>6. ToSet(ts) = {t} /\ PairsIn(ts, Timed')
  BY <1>1, FewElements, TimedCall
<1>7. PairsIn(microtasks', Timed')
  BY <1>1, <1>2, <1>4, <1>5, <1>6, PaceIs, TimedPushes
<1> QED
  BY <1>1, <1>7, PaceIs DEF Pace

LEMMA PaceCalls ==
    ASSUME QueueInv, Frame, Calm, Paced, NEW i \in Instances, NEW from, NEW to, NEW status, JobCalls(i, from, to, status)
    PROVE  Pace
<1>0. RegistryTypes
  BY DEF QueueInv
<1>1. /\ Passes(i, from, to, status) /\ Doing(i, "resume") /\ job[i] = from /\ job' = [job EXCEPT ![i] = to]
      /\ Then(Call(i, i, status))
      /\ UNCHANGED <<turn, got, waiters>>
  BY DEF JobCalls, JobStep
<1> PICK h : h = Head(microtasks)
  OBVIOUS
<1>2. microtasks # <<>> /\ h.who = i /\ h.does = "resume" /\ i # Loop /\ \A o \in ToSet(Tail(microtasks)) : o.who # i
  BY <1>1, JobsTurn DEF Doing
<1>3. \A j \in Instances : job'[j] = IF j = i THEN to ELSE job[j]
  BY <1>0, <1>1 DEF RegistryTypes
<1>4. \A o \in ToSet(Tail(microtasks)) : Age(o)' = Age(o)
  BY <1>1, <1>2, <1>3, TailAges
<1>5. PICK b, a : /\ b = [who |-> i, does |-> "body", of |-> i, seen |-> file, status |-> status]
                  /\ a = [who |-> i, does |-> "adopt"]
  OBVIOUS
<1> PICK ts : ts = Call(i, i, status)
  OBVIOUS
<1>6. ts \in Seq(Tasks) /\ ToSet(ts) = {b, a} /\ ts = <<b, a>>
  BY <1>0, <1>1, <1>5, PassesIs, OwnersAre, CallIs DEF Call
<1>7. /\ b.does = "body" /\ b.who = i /\ a.does = "adopt" /\ a.who = i
  BY <1>5
<1>8. b \in Tasks /\ a \in Tasks
  <2>1. \A t \in ToSet(ts) : t \in Tasks
    BY <1>6, OfItsElements DEF ToSet
  <2> QED
    BY <1>6, <2>1
<1>9. Age(b)' = Age(h) + 1 /\ Age(a)' = Age(h) + 1
  <2>1. Age(h) = IF from = "slot" THEN 0 ELSE Base(from) + 3
    BY <1>1, <1>2 DEF Age, Phase
  <2>2. Age(b)' = Base(to) + 1 /\ Age(a)' = Base(to) + 1
    <3>1. to # "slot"
      BY <1>1, PassesIs
    <3> QED
      BY <1>2, <1>3, <1>7, <3>1 DEF Age, Phase
  <2>3. Base(to) = IF from = "slot" THEN 0 ELSE Base(from) + 3
    <3>1. from \notin {"probe", "reread"}
      BY <1>1, NoWatcher DEF Watching
    <3> QED
      BY <1>1, <3>1 DEF Passes, Base
  <2>4. Base(from) \in Int
    BY DEF Base
  <2> QED
    BY <2>1, <2>2, <2>3, <2>4
<1>10. \A o \in ToSet(Tail(microtasks)) : <<o, b>> \in Timed' /\ <<o, a>> \in Timed'
  BY <1>1, <1>2, <1>4, <1>7, <1>8, <1>9, PaceIs, Advances
<1>11. PairsIn(ts, Timed')
  BY <1>6, <1>7, <1>8, TimedCall
<1>12. microtasks' = Tail(microtasks) \o ts
  BY <1>1 DEF Then
<1>13. PairsIn(microtasks', Timed')
  BY <1>1, <1>2, <1>4, <1>6, <1>10, <1>11, <1>12, PaceIs, TimedPushes
<1> QED
  BY <1>1, <1>13, PaceIs DEF Pace

LEMMA PacePops ==
    ASSUME QueueInv, Frame, Calm, Paced, NEW i \in Instances, JobRuns(i) \/ JobLeaves(i)
    PROVE  Pace
<1>0. RegistryTypes
  BY DEF QueueInv
<1>1. PICK to : /\ Doing(i, "resume") /\ job' = [job EXCEPT ![i] = to] /\ Then(<<>>)
                /\ UNCHANGED <<turn, got, waiters>>
  BY DEF JobRuns, JobLeaves, JobStep
<1>2. microtasks # <<>> /\ Head(microtasks).who = i /\ Head(microtasks).does = "resume"
  BY <1>1 DEF Doing
<1>3. \A j \in Instances : job'[j] = IF j = i THEN to ELSE job[j]
  BY <1>0, <1>1 DEF RegistryTypes
<1>4. \A o \in ToSet(Tail(microtasks)) : Age(o)' = Age(o)
  BY <1>1, <1>2, <1>3, TailAges
<1>5. PairsIn(Tail(microtasks), Timed')
  BY <1>1, <1>2, <1>4, PaceIs, TimedTail
<1>6. microtasks' = Tail(microtasks)
  <2>1. Tail(microtasks) \in Seq(Tasks)
    BY <1>2, TailIs
  <2> QED
    BY <1>1, <2>1, ConcatEmptySeq DEF Then
<1> QED
  BY <1>1, <1>5, <1>6, PaceIs DEF Pace

LEMMA PaceTerraform ==
    ASSUME QueueInv, Frame, Calm, Paced, NEW i \in Instances, TerraformEnds(i)
    PROVE  Pace
<1>1. PICK b, a \in Tasks : microtasks' = <<b, a>> /\ b.who = i /\ a.who = i
  <2>1. \E b, a \in Tasks :
               /\ QueueInv' /\ Queued' = {b, a} /\ microtasks' = <<b, a>>
               /\ b.does = "body" /\ b.seen = file /\ b.status = "none" /\ a.does = "adopt" /\ b.who = i /\ a.who = i
               /\ i \in files /\ job'[i] \in {"gone", "failed"} /\ \A j \in Instances : j # i => job'[j] = job[j]
    BY TerraformEndsQueue
  <2> QED
    BY <2>1
<1>2. waiters' = waiters
  BY DEF TerraformEnds
<1>3. PairsIn(<<b, a>>, Timed')
  BY <1>1, TimedCall
<1> QED
  BY <1>1, <1>2, <1>3, PaceIs DEF Pace

-----------------------------------------------------------------------------
(* The pace: the steps of the loops.                                       *)

LEMMA TimedAlike ==
    ASSUME NEW s \in Seq(Tasks), \A a, b \in ToSet(s) : a.who = b.who
    PROVE  PairsIn(s, Timed')
<1>1. PICK R2 : R2 = Timed'
  OBVIOUS
<1> SUFFICES ASSUME NEW k \in DOMAIN s, NEW l \in DOMAIN s, k < l PROVE <<s[k], s[l]>> \in R2
  BY <1>1 DEF PairsIn
<1>2. s[k] \in ToSet(s) /\ s[l] \in ToSet(s) /\ s[k] \in Tasks /\ s[l] \in Tasks
  BY DEF ToSet
<1> QED
  BY <1>1, <1>2 DEF Timed

\* The loop is not held up by the jobs, nor they by it.
LEMMA LoopDelay ==
    ASSUME QueueInv, Doing(Loop, "resume"), PairsIn(microtasks, Timed),
           turn' = turn, NEW o \in ToSet(Tail(microtasks)), Age(o)' = Age(o),
           NEW t \in Tasks, t.who = Loop, Age(t)' = Age(Head(microtasks)) + 1 \/ Age(t)' = -3 \/ (turn = "bulk" /\ Age(t)' = -4 /\ Age(Head(microtasks)) = -1),
           Age(Head(microtasks)) = -1 \/ (turn = "bulk" /\ Age(Head(microtasks)) = -4)
    PROVE  <<o, t>> \in Timed'
<1>0. PICK q \in Seq(Tasks) : q = microtasks
  BY DEF QueueInv, RegistryTypes
<1>1. PICK h \in Tasks : h = Head(microtasks) /\ h.who = Loop /\ q # <<>>
  BY <1>0, LoopsTurn
<1>2. o \in Tasks /\ o.who \in Instances /\ o.who # Loop
  BY LoopsTurn
<1>3. PICK R : R = Timed
  OBVIOUS
<1>4. <<h, o>> \in R
  BY <1>0, <1>1, <1>3, PairsTail
<1>5. Gap(Delay(h, o))
  BY <1>1, <1>2, <1>3, <1>4 DEF Timed
<1>6. Age(h) \in Int /\ Age(o) \in Int
  BY AgeIs
<1>7. Delay(h, o) = Age(o) - Age(h) - 1
  BY <1>1, <1>2 DEF Delay, Before
<1>8. Delay(o, t)' = Age(o) - Age(t)'
  BY <1>2 DEF Delay, Before
<1>9. Gap(Delay(o, t))'
  <2>1. CASE Age(t)' = Age(h) + 1
    <3>1. Delay(o, t)' = Delay(h, o)
      BY <2>1, <1>6, <1>7, <1>8
    <3> QED
      BY <1>5, <3>1 DEF Gap
  <2>2. CASE turn = "bulk" /\ ~(Age(t)' = Age(h) + 1)
    <3>1. Delay(h, o) \in Int /\ (Delay(h, o) = 4 \/ Delay(h, o) = 7 \/ Delay(h, o) >= 8)
      BY <1>5, <1>6, <1>7, <2>2 DEF Gap
    <3>2. Delay(o, t)' = Delay(h, o) + 3 \/ Delay(o, t)' = Delay(h, o) + 4 \/ Delay(o, t)' = Delay(h, o)
      BY <1>1, <1>6, <1>7, <1>8, <2>2
    <3>3. Delay(o, t)' = 4 \/ Delay(o, t)' = 7 \/ Delay(o, t)' >= 8
      BY <3>1, <3>2
    <3> QED
      BY <2>2, <3>3 DEF Gap
  <2>3. CASE turn # "bulk" /\ ~(Age(t)' = Age(h) + 1)
    <3>1. PICK k \in Int : Delay(h, o) = 3 * k
      BY <1>5, <2>3 DEF Gap
    <3>2. Delay(o, t)' = 3 * (k + 1) /\ k + 1 \in Int
      BY <1>1, <1>6, <1>7, <1>8, <2>3, <3>1
    <3> QED
      BY <2>3, <3>2 DEF Gap
  <2> QED
    BY <2>1, <2>2, <2>3
<1> QED
  BY <1>2, <1>9 DEF Timed

LEMMA PaceReads ==
    ASSUME QueueInv, Frame, Calm, Paced, BulkReads \/ RecoverMarks
    PROVE  Pace
<1>1. PICK b, a \in Tasks :
           /\ microtasks' = Tail(microtasks) \o <<b, a>>
           /\ b.does = "body" /\ a.does = "adopt" /\ b.who = Loop /\ a.who = Loop
  <2>1. CASE BulkReads
    <3>1. \E b, a \in Tasks :
                 /\ QueueInv' /\ Queued' = ToSet(Tail(microtasks)) \cup {b, a} /\ microtasks' = Tail(microtasks) \o <<b, a>>
                 /\ b.does = "body" /\ b.seen = file /\ b.status = "none" /\ a.does = "adopt" /\ b.who = Loop /\ a.who = Loop
                 /\ position' \in Instances /\ position' = position + 1
      BY <2>1, BulkReadsQueue
    <3> QED
      BY <3>1
  <2>2. CASE RecoverMarks
    <3>1. \E p \in Instances, b, a \in Tasks :
                 /\ QueueInv' /\ RecoversTo(p, "applying")
                 /\ Queued' = ToSet(Tail(microtasks)) \cup {b, a} /\ microtasks' = Tail(microtasks) \o <<b, a>>
                 /\ b.does = "body" /\ b.seen = file /\ b.of = p /\ a.does = "adopt" /\ b.who = Loop /\ a.who = Loop
                 /\ UNCHANGED <<job, holds, waiters>>
      BY <2>2, RecoverMarksQueue
    <3> QED
      BY <3>1
  <2> QED
    BY <2>1, <2>2
<1>2. /\ turn' = turn /\ got' = got /\ job' = job /\ waiters' = waiters /\ Doing(Loop, "resume")
      /\ turn = "bulk" \/ turn = "recovery"
  BY DEF BulkReads, RecoverMarks, Recovers
<1> PICK h : h = Head(microtasks)
  OBVIOUS
<1>3. microtasks # <<>> /\ h.who = Loop /\ h.does = "resume"
  BY <1>2, LoopsTurn
<1>4. \A o \in ToSet(Tail(microtasks)) : Age(o)' = Age(o)
  BY <1>2, <1>3, TailAges
<1>5. Age(h) = -1 \/ (turn = "bulk" /\ Age(h) = -4)
  BY <1>2, <1>3 DEF Age, Phase
<1>6. Age(b)' = -3 /\ Age(a)' = -3
  BY <1>1, <1>2 DEF Age, Phase
<1>7. \A o \in ToSet(Tail(microtasks)) : <<o, b>> \in Timed' /\ <<o, a>> \in Timed'
  BY <1>1, <1>2, <1>4, <1>5, <1>6, PaceIs, LoopDelay
<1> PICK ts : ts = <<b, a>>
  OBVIOUS
<1>8. ts \in Seq(Tasks)
  BY <1>1
<1>9. ToSet(ts) = {b, a} /\ PairsIn(ts, Timed')
  BY <1>1, FewElements, TimedCall
<1>10. PairsIn(microtasks', Timed')
  BY <1>1, <1>2, <1>3, <1>4, <1>7, <1>8, <1>9, PaceIs, TimedPushes
<1> QED
  BY <1>2, <1>10, PaceIs DEF Pace

LEMMA PaceEnds ==
    ASSUME QueueInv, Frame, Calm, Paced, BulkEnds \/ RecoverEnds
    PROVE  Pace
<1>1. /\ turn' = turn /\ got' = got /\ job' = job /\ waiters' = waiters /\ Doing(Loop, "resume")
  BY DEF BulkEnds, RecoverEnds
<1>2. microtasks' = Tail(microtasks)
  BY LoopEndsQueue
<1>3. microtasks # <<>> /\ Head(microtasks).who = Loop
  BY <1>1, LoopsTurn
<1>4. \A o \in ToSet(Tail(microtasks)) : Age(o)' = Age(o)
  BY <1>1, <1>3, TailAges
<1>5. PairsIn(Tail(microtasks), Timed')
  BY <1>1, <1>3, <1>4, PaceIs, TimedTail
<1> QED
  BY <1>1, <1>2, <1>5, PaceIs DEF Pace

\* The pace of a loop that starts jobs.
LEMMA PaceStarts ==
    ASSUME QueueInv, Calm, Paced, NEW ids, NEW own, Starts(ids, own, Tail(microtasks)),
           NEW a \in Seq(Instances), Started(ids, own, Tail(microtasks), a),
           Cardinality(holds) + Len(ids) <= Slots \/ ids = <<>>,
           \A i, j \in ToSet(ids) : i = j, PairsIn(own, Timed'),
           \A o \in ToSet(Tail(microtasks)) : Age(o)' = Age(o),
           \A o \in ToSet(Tail(microtasks)), t \in ToSet(own) : <<o, t>> \in Timed',
           \A o \in ToSet(Tail(microtasks)), i \in ToSet(ids) : <<o, Resume(i)>> \in Timed',
           \A i \in ToSet(ids), t \in ToSet(own) : <<Resume(i), t>> \in Timed'
    PROVE  Pace
<1>1. /\ ToSet(a) \subseteq ToSet(ids) /\ waiters' = waiters
      /\ microtasks' = Tail(microtasks) \o (Resumed(ids) \o own)
      /\ Resumed(ids) \in Seq(Tasks) /\ ToSet(Resumed(ids)) = {Resume(i) : i \in ToSet(a)}
  BY DEF Started
<1>2. own \in Seq(Tasks) /\ turn' = turn /\ Doing(Loop, "resume")
  BY DEF Starts
<1>3. microtasks # <<>>
  BY <1>2 DEF Doing
<1>4. PICK r \in Seq(Tasks) : r = Resumed(ids)
  BY <1>1
<1>5. \A t \in ToSet(r) : \E i \in ToSet(ids) : t = Resume(i)
  BY <1>1, <1>4
<1>6. PairsIn(r, Timed')
  <2>1. \A x, y \in ToSet(r) : x.who = y.who
    BY <1>5 DEF Resume
  <2> QED
    BY <2>1, TimedAlike
<1>7. PICK R2 : R2 = Timed'
  OBVIOUS
<1>8. \A x \in ToSet(r), t \in ToSet(own) : <<x, t>> \in R2
  BY <1>5, <1>7
<1>9. PICK o2 \in Seq(Tasks) : o2 = own
  BY <1>2
<1>10. PairsIn(r \o o2, R2)
  BY <1>6, <1>7, <1>8, <1>9, PairsConcat
<1>11. PICK ts \in Seq(Tasks) : ts = r \o o2
  BY ConcatProperties
<1>12. ToSet(ts) = ToSet(r) \cup ToSet(o2)
  BY <1>11, ElementsOfConcat
<1>13. \A o \in ToSet(Tail(microtasks)), t \in ToSet(ts) : <<o, t>> \in R2
  BY <1>5, <1>7, <1>9, <1>12
<1>14. PairsIn(ts, Timed') /\ microtasks' = Tail(microtasks) \o ts
  BY <1>1, <1>4, <1>7, <1>9, <1>10, <1>11
<1>15. \A o \in ToSet(Tail(microtasks)), t \in ToSet(ts) : <<o, t>> \in Timed'
  BY <1>7, <1>13
<1>16. PairsIn(microtasks', Timed')
  BY <1>2, <1>3, <1>14, <1>15, PaceIs, TimedPushes
<1> QED
  BY <1>1, <1>16, PaceIs DEF Pace

-----------------------------------------------------------------------------
(* The pace: the starts.                                                   *)

LEMMA PaceDestroys ==
    ASSUME QueueInv, LoopInv, ListedAre, Frame, Calm, Paced, BulkDestroys
    PROVE  Pace
<1>0. RegistryTypes
  BY DEF QueueInv
<1>1. /\ turn = "bulk" /\ position \in Instances /\ job[position] = "none" /\ listed[position] = "ready"
  BY AtDestroys
<1> PICK ids : ids = <<position>>
  OBVIOUS
<1> PICK own : own = <<Resume(Loop)>>
  OBVIOUS
<1>2. /\ Starts(ids, own, Tail(microtasks)) /\ position' = position /\ got # "none" /\ got' = "none"
      /\ ToSet(ids) = {position} /\ Len(ids) = 1
      /\ ToSet(own) = {Resume(Loop)} /\ Resume(Loop) \in Tasks
  BY <1>1, BulkDestroysStarts
<1>3. PICK a \in Seq(Instances) : Started(ids, own, Tail(microtasks), a)
  <2>1. \E a \in Seq(Instances) : Started(ids, own, Tail(microtasks), a)
    BY <1>2, StartsQueue
  <2> QED
    BY <2>1
<1>4. \A i \in Instances : job'[i] = IF i = position THEN "slot" ELSE job[i]
  <2>1. \A i \in Instances : job'[i] = IF i \in ToSet(ids) THEN "slot" ELSE job[i]
    BY <1>2, StartsQueue
  <2> QED
    BY <1>2, <2>1
<1>5. turn' = turn /\ Doing(Loop, "resume")
  BY <1>2 DEF Starts
<1> PICK h : h = Head(microtasks)
  OBVIOUS
<1>6. microtasks # <<>> /\ h.who = Loop /\ h.does = "resume"
  BY <1>5, LoopsTurn
<1>7. \A o \in ToSet(Tail(microtasks)) : Age(o)' = Age(o)
  BY <1>1, <1>4, <1>5, <1>6, TailAges
<1>8. Age(h) = -1
  BY <1>1, <1>2, <1>6 DEF Age, Phase
<1>9. position # Loop /\ position \in Owners
  BY <1>1, OwnersAre
<1>10. PICK p : p = Resume(position)
  OBVIOUS
<1>11. PICK l : l = Resume(Loop)
  OBVIOUS
<1>12. p.who = position /\ p.does = "resume" /\ p \in Tasks /\ l.who = Loop /\ l.does = "resume" /\ l \in Tasks
  BY <1>2, <1>9, <1>10, <1>11, SimpleTask DEF Resume
<1>13. Age(p)' = 0
  BY <1>1, <1>4, <1>9, <1>12 DEF Age
<1>14. Age(l)' = -4
  BY <1>1, <1>2, <1>5, <1>12 DEF Age
<1>15. <<p, l>> \in Timed'
  <2>1. Delay(p, l)' = 4
    BY <1>9, <1>12, <1>13, <1>14 DEF Delay, Before
  <2>2. Gap(Delay(p, l))'
    BY <1>1, <1>5, <2>1 DEF Gap
  <2> QED
    BY <1>12, <2>2 DEF Timed
<1>16. \A o \in ToSet(Tail(microtasks)) : <<o, l>> \in Timed'
  BY <1>1, <1>5, <1>7, <1>8, <1>12, <1>14, PaceIs, LoopDelay
<1>17. ASSUME NEW o \in ToSet(Tail(microtasks)) PROVE <<o, p>> \in Timed'
  <2>1. o \in Tasks /\ o.who \in Instances /\ o \in Queued /\ o.who # Loop
    BY <1>5, LoopsTurn
  <2>2. OfJob(o)
    BY <2>1 DEF QueueInv
  <2>3. job[o.who] # "none" /\ o.who # position
    BY <1>1, <2>2 DEF OfJob, Busy, Working, Watching
  <2>4. o.who <= position
    BY <2>1, <2>3 DEF QueueInv
  <2>5. Before(o.who, position) /\ ~Before(Loop, o.who)
    BY <2>1, <2>3, <2>4, <1>1, OwnersAre DEF Before
  <2>6. PICK q \in Seq(Tasks) : q = microtasks
    BY <1>0 DEF RegistryTypes
  <2>7. PICK R : R = Timed
    OBVIOUS
  <2>8. <<h, o>> \in R
    BY <2>6, <2>7, <1>6, PaceIs, PairsTail
  <2>9. Gap(Delay(h, o))
    BY <1>6, <2>1, <2>7, <2>8 DEF Timed
  <2>10. Delay(h, o) = Age(o) - (-1) - 1
    BY <1>6, <1>8, <2>5 DEF Delay
  <2>11. Delay(o, p)' = Age(o) - 0
    BY <1>7, <1>12, <1>13, <2>5 DEF Delay
  <2>12. Age(o) \in Int
    BY AgeIs
  <2>13. Delay(o, p)' = Delay(h, o)
    BY <2>10, <2>11, <2>12
  <2>14. Gap(Delay(o, p))'
    BY <1>5, <2>9, <2>13 DEF Gap
  <2> QED
    BY <1>12, <2>1, <2>14 DEF Timed
<1>18. Cardinality(holds) + Len(ids) <= Slots
  <2>1. PICK F : F = {i \in Instances : listed[i] = "ready"}
    OBVIOUS
  <2>2. Cardinality(F) <= Slots /\ F \subseteq Instances
    <3>1. Slots > 1 /\ ~(Slots > 1 /\ Cardinality({i \in Instances : listed[i] = "ready"}) > Slots)
      BY <1>1 DEF Calm, Crowded
    <3>2. ~(Cardinality(F) > Slots)
      BY <2>1, <3>1
    <3> QED
      BY <2>1, <3>2, SomeFinite, OwnersAre
  <2>3. \A i \in holds : i \in F /\ i # position
    <3>1. \A i \in holds : i \in Instances /\ job[i] # "none"
      BY <1>0 DEF QueueInv, RegistryTypes, Working
    <3>2. \A i \in holds : listed[i] = "ready"
      BY <1>1, <3>1 DEF QueueInv, ListedFor
    <3> QED
      BY <1>1, <2>1, <3>1, <3>2
  <2>4. position \in F /\ position \notin holds /\ holds \subseteq F
    BY <1>1, <2>1, <2>3
  <2>5. IsFiniteSet(holds) /\ IsFiniteSet(F) /\ Cardinality(holds) \in Nat /\ Cardinality(F) \in Nat
    BY <2>2, <2>4, SomeFinite
  <2>6. PICK G : G = holds \cup {position}
    OBVIOUS
  <2>7. Cardinality(G) = Cardinality(holds) + 1
    BY <2>4, <2>5, <2>6, FS_AddElement
  <2>8. G \subseteq F
    BY <2>4, <2>6
  <2>9. Cardinality(G) <= Cardinality(F)
    BY <2>2, <2>8, SomeFinite
  <2> QED
    BY <1>2, <2>2, <2>5, <2>7, <2>9, OwnersAre
<1>19. PairsIn(own, Timed')
  BY <1>2, <1>11, <1>12, TimedCall
<1>20. \A i, j \in ToSet(ids) : i = j
  BY <1>2
<1>21. \A o \in ToSet(Tail(microtasks)), t \in ToSet(own) : <<o, t>> \in Timed'
  BY <1>2, <1>11, <1>16
<1>22. \A o \in ToSet(Tail(microtasks)), i \in ToSet(ids) : <<o, Resume(i)>> \in Timed'
  BY <1>2, <1>10, <1>17
<1>23. \A i \in ToSet(ids), t \in ToSet(own) : <<Resume(i), t>> \in Timed'
  BY <1>2, <1>10, <1>11, <1>15
<1> QED
  BY <1>2, <1>3, <1>7, <1>18, <1>19, <1>20, <1>21, <1>22, <1>23, PaceStarts

\* The recovery goes on, having started nothing.
LEMMA PaceStays ==
    ASSUME QueueInv, Frame, Calm, Paced, RecoverPasses
    PROVE  Pace
<1>1. /\ UNCHANGED <<turn, got, job, waiters, microtasks>>
  BY DEF RecoverPasses, Recovers
<1>2. Timed' = Timed
  BY <1>1 DEF Timed, Delay, Age, Gap
<1> QED
  BY <1>1, <1>2, PaceIs DEF Pace

\* The only job of the recovery is started.
LEMMA PaceRecovers ==
    ASSUME QueueInv, Frame, Calm, Paced, RecoverDestroys
    PROVE  Pace
<1>0. RegistryTypes
  BY DEF QueueInv
<1>1. PICK p \in Instances : /\ RecoversTo(p, "destroying") /\ job[p] = "none"
                             /\ Starts(<<p>>, <<>>, microtasks) /\ ToSet(<<p>>) = {p} /\ Len(<<p>>) = 1
  BY RecoverStarts
<1>2. /\ \E a \in Seq(Instances) : Started(<<p>>, <<>>, microtasks, a)
      /\ \A i \in Instances : job'[i] = IF i \in ToSet(<<p>>) THEN "slot" ELSE job[i]
  BY <1>1, StartsQueue
<1>3. turn = "recovery" /\ turn' = turn /\ got' = got /\ listed[p] = "destroying" /\ Doing(Loop, "resume")
  BY <1>1 DEF RecoversTo
<1>4. \A i \in Instances : job[i] = "none"
  <2> SUFFICES ASSUME NEW i \in Instances, job[i] # "none" PROVE FALSE
    OBVIOUS
  <2>1. Taken(i)
    BY <1>3 DEF QueueInv, ListedFor, Taken
  <2>2. i = p
    BY <1>3, <2>1 DEF Calm, Taken
  <2> QED
    BY <1>1, <2>2
<1>5. holds = {}
  BY <1>0, <1>4 DEF QueueInv, RegistryTypes, Working
<1>6. PICK ids : ids = <<p>>
  OBVIOUS
<1>7. PICK a \in Seq(Instances) : Started(ids, <<>>, microtasks, a)
  BY <1>2, <1>6
<1>8. /\ waiters' = waiters
      /\ Resumed(ids) \in Seq(Tasks) /\ microtasks' = microtasks \o (Resumed(ids) \o <<>>)
      /\ ToSet(Resumed(ids)) = {Resume(i) : i \in ToSet(a)} /\ ToSet(a) \subseteq {p}
  <2>1. Cardinality(holds) + Len(ids) <= Slots
    BY <1>1, <1>5, <1>6, FS_EmptySet, OwnersAre
  <2>2. waiters' = waiters
    BY <1>7, <2>1 DEF Started
  <2>3. /\ Resumed(ids) \in Seq(Tasks) /\ microtasks' = microtasks \o (Resumed(ids) \o <<>>)
        /\ ToSet(Resumed(ids)) = {Resume(i) : i \in ToSet(a)} /\ ToSet(a) \subseteq ToSet(ids)
    BY <1>7 DEF Started
  <2>4. ToSet(ids) = {p}
    BY <1>1, <1>6
  <2> QED
    BY <2>2, <2>3, <2>4
<1>9. PICK r \in Seq(Tasks) : r = Resumed(ids)
  BY <1>8
<1>10. microtasks' = microtasks \o r /\ \A x \in ToSet(r) : x = Resume(p)
  BY <1>8, <1>9, ConcatEmptySeq
<1>11. p # Loop /\ p \in Owners
  BY OwnersAre
<1> PICK h : h = Head(microtasks)
  OBVIOUS
<1>12. /\ microtasks # <<>> /\ h.who = Loop /\ h.does = "resume" /\ h \in Tasks
       /\ \A o \in ToSet(Tail(microtasks)) : o.who \in Instances /\ o \in Queued
       /\ Queued = {h} \cup ToSet(Tail(microtasks))
  BY <1>3, LoopsTurn
<1>13. Queued = {h}
  <2> SUFFICES ASSUME NEW o \in ToSet(Tail(microtasks)) PROVE FALSE
    BY <1>12
  <2>1. o.who \in Instances /\ OfJob(o)
    BY <1>12 DEF QueueInv
  <2> QED
    BY <1>4, <2>1 DEF OfJob, Busy, Working, Watching
<1>14. PICK e : e = Resume(p)
  OBVIOUS
<1>15. e \in Tasks /\ e.who = p
  BY <1>11, <1>14, SimpleTask DEF Resume
<1>16. Age(e)' = 0 /\ Age(h)' = -1
  BY <1>1, <1>2, <1>3, <1>11, <1>12, <1>15 DEF Age, Phase
<1>17. <<h, e>> \in Timed'
  <2>1. Delay(h, e)' = 3 * 0
    BY <1>11, <1>12, <1>15, <1>16 DEF Delay, Before
  <2>2. Gap(Delay(h, e))'
    BY <1>3, <2>1 DEF Gap
  <2> QED
    BY <1>12, <1>15, <2>2 DEF Timed
<1>18. PICK q \in Seq(Tasks) : q = microtasks
  BY <1>0 DEF RegistryTypes
<1>19. PairsIn(q, Timed')
  <2>1. \A x, y \in ToSet(q) : x.who = y.who
    BY <1>13, <1>18 DEF Queued
  <2> QED
    BY <2>1, TimedAlike
<1>20. PairsIn(r, Timed')
  <2>1. \A x, y \in ToSet(r) : x.who = y.who
    BY <1>10
  <2> QED
    BY <2>1, TimedAlike
<1>21. PICK R2 : R2 = Timed'
  OBVIOUS
<1>22. \A x \in ToSet(q), y \in ToSet(r) : <<x, y>> \in R2
  BY <1>10, <1>13, <1>14, <1>17, <1>18, <1>21 DEF Queued
<1>23. PairsIn(q \o r, R2)
  BY <1>19, <1>20, <1>21, <1>22, PairsConcat
<1> QED
  BY <1>8, <1>10, <1>18, <1>21, <1>23, PaceIs DEF Pace

\* The recovery with one job at most has nothing to watch.
LEMMA PaceRecover ==
    ASSUME QueueInv, Frame, Calm, Paced, Recovering
    PROVE  Pace
<1>1. ~RecoverWatches
  <2> SUFFICES ASSUME RecoverWatches PROVE FALSE
    OBVIOUS
  <2>1. PICK p \in Instances : listed[p] = "bootstrapping" /\ turn = "recovery"
    <3>1. \E p \in Instances, b, a \in Tasks :
               /\ QueueInv' /\ RecoversTo(p, "bootstrapping") /\ job[p] = "none"
               /\ Queued' = Queued \cup {b, a} /\ microtasks' = microtasks \o <<b, a>>
               /\ b.does = "body" /\ b.seen = file /\ b.status = "none" /\ a.does = "adopt" /\ b.who = p /\ a.who = p
               /\ UNCHANGED <<holds, waiters>> /\ job'[p] = "watch" /\ \A j \in Instances : j # p => job'[j] = job[j]
      BY RecoverWatchesQueue
    <3> QED
      BY <3>1 DEF RecoversTo
  <2> QED
    BY <2>1 DEF Calm, Taken
<1> QED
  BY <1>1, PaceStays, PaceRecovers, PaceReads, PaceEnds DEF Recovering

LEMMA PacedStep ==
    ASSUME QueueInv, RegistryNext, LoopInv, ListedAre, Frame, Paced
    PROVE  Paced'
<1>1. Calm' <=> Calm
  BY DEF Frame, Calm, Crowded, Taken
<1> SUFFICES ASSUME Calm PROVE Pace
  BY <1>1 DEF Paced, Pace
<1>2. CASE Recovering
  BY <1>2, PaceRecover
<1>3. CASE BulkReads
  BY <1>3, PaceReads
<1>4. CASE BulkDestroys
  BY <1>4, PaceDestroys
<1>5. CASE BulkEnds
  BY <1>5, PaceEnds
<1>6. ASSUME NEW who \in Owners, Body(who) \/ Settle(who) PROVE Pace
  BY <1>6, PaceBody, PaceSettle
<1>7. ASSUME NEW i \in Instances, JobRuns(i) \/ JobLeaves(i) \/ JobHands(i) \/ TerraformEnds(i) PROVE Pace
  <2>1. ~JobHands(i)
    BY PaceIs DEF JobHands
  <2> QED
    BY <1>7, <2>1, PacePops, PaceTerraform
<1>8. ASSUME NEW i \in Instances, NEW from, NEW to, NEW status, JobCalls(i, from, to, status) PROVE Pace
  BY <1>8, PaceCalls
<1>9. ASSUME NEW i \in Instances PROVE ~WatchSleeps(i) /\ \A to, t : ~WatchGoes(i, to, t)
  BY NoWatcher DEF WatchSleeps, WatchStep, JobStep, WatchGoes, Watching
<1> QED
  BY <1>2, <1>3, <1>4, <1>5, <1>6, <1>7, <1>8, <1>9, StepsAre DEF Recovering

-----------------------------------------------------------------------------
(* Every write of an instance that must be kept is safe.                   *)

\* Another that is about to write belongs to somebody else.
LEMMA OtherWriter ==
    ASSUME QueueInv, Frame, Writing, NEW h, h = Head(microtasks), NEW t \in Queued', WriteBody(t)
    PROVE  /\ t \in Queued /\ t \in ToSet(Tail(microtasks)) /\ t \in Tasks /\ h \in Tasks /\ t.who # h.who
           /\ t.does = "body" /\ h.does = "body"
BY TailIs DEF Writing, WriteBody

\* Writers keep the pace.
LEMMA WriterPaced ==
    ASSUME QueueInv, Frame, Writing, Paced, Calm, NEW h, h = Head(microtasks), NEW t \in Queued', WriteBody(t)
    PROVE  Gap(Delay(h, t))
<1>1. PICK q \in Seq(Tasks) : q = microtasks /\ q # <<>>
  BY DEF QueueInv, RegistryTypes, Writing
<1>2. PICK R : R = Timed
  OBVIOUS
<1>3. t \in ToSet(Tail(q)) /\ t.who # h.who
  BY <1>1, OtherWriter
<1>4. <<h, t>> \in R
  BY <1>1, <1>2, <1>3, PaceIs, PairsTail
<1> QED
  BY <1>2, <1>3, <1>4 DEF Timed

\* One job writes at a time when terraform has ended for some instance.
LEMMA LoneWriter ==
    ASSUME QueueInv, Frame, Writing, Lone, Past
    PROVE  Alone
<1> SUFFICES ASSUME NEW t \in Queued', WriteBody(t) PROVE FALSE
  BY DEF Alone
<1>1. PICK h : h = Head(microtasks)
  OBVIOUS
<1>2. t \in Queued /\ t.who # h.who
  BY <1>1, OtherWriter
<1>3. h \in Queued
  BY <1>1 DEF Writing
<1> QED
  BY <1>2, <1>3 DEF Lone, One

LEMMA BulkSafe ==
    ASSUME QueueInv, Frame, Writing, OneSlot, Lone, Paced, turn = "bulk", NEW h, h = Head(microtasks), Firm(h.of)'
    PROVE  Alone
<1>1. /\ h \in Queued /\ WriteBody(h) /\ h.of \in Instances /\ wrote'[h.of] = h.status
  BY WritingIs
<1>2. /\ h.who \in Instances /\ h.of = h.who /\ job[h.of] \in {"marked", "concluded"} /\ listed[h.of] = "ready"
      /\ job[h.of] = "marked" => h.status = "destroying"
      /\ job[h.of] = "concluded" => h.status \in Done
  BY <1>1, WriterIs DEF ListedFor
<1>3. turn' = turn /\ files' = files /\ listed' = listed
  BY DEF Frame
<1>4. ~Crowded \/ (h.of \in files /\ h.status \in Done)
  <2>1. Crowded' <=> Crowded
    BY <1>3 DEF Crowded
  <2>2. h.status # listed[h.of]
    BY <1>2 DEF Done
  <2> QED
    BY <1>1, <1>3, <2>1, <2>2 DEF Firm
<1>5. CASE h.of \in files /\ h.status \in Done
  <2>1. job[h.of] = "concluded"
    BY <1>2, <1>5 DEF Done
  <2>2. Past
    BY <1>5, <2>1 DEF Past
  <2> QED
    BY <2>2, LoneWriter
<1>6. CASE ~Crowded
  <2> SUFFICES ASSUME NEW t \in Queued', WriteBody(t) PROVE FALSE
    BY DEF Alone
  <2>1. t \in Queued /\ t.who # h.who /\ t.does = "body" /\ h.does = "body"
    BY OtherWriter
  <2>2. t.who \in Instances /\ job[t.who] \in {"marked", "concluded"}
    <3>1. /\ t.who \in Instances => t.of = t.who /\ job[t.of] \in {"marked", "concluded", "written"}
          /\ t.who \in Instances /\ job[t.of] = "written" => turn = "recovery"
          /\ t.who = Loop => turn = "recovery"
          /\ t.who \in Instances \/ t.who = Loop
      BY <2>1, WriterIs
    <3> QED
      BY <3>1
  <2>3. OfJob(t) /\ OfJob(h)
    BY <1>1, <1>2, <2>1, <2>2 DEF QueueInv
  <2>4. CASE Slots = 1
    BY <1>2, <2>1, <2>2, <2>3, <2>4 DEF OneSlot, OfJob, Working
  <2>5. CASE Slots # 1
    <3>1. Calm
      BY <1>6, <2>5, OwnersAre DEF Calm
    <3>2. Gap(Delay(h, t))
      BY <3>1, WriterPaced
    <3>3. Age(h) \in {4, 10}
      <4>1. h.who # Loop
        BY <1>2, OwnersAre
      <4> QED
        BY <1>2, <2>1, <4>1 DEF Age, Base, Phase
    <3>4. Age(t) \in {4, 10}
      <4>1. t.who # Loop
        BY <2>2, OwnersAre
      <4> QED
        BY <2>1, <2>2, <4>1 DEF Age, Base, Phase
    <3>5. Delay(h, t) = Age(h) - Age(t) \/ Delay(h, t) = Age(t) - Age(h) - 1
      BY DEF Delay
    <3>6. Delay(h, t) \in Int /\ Delay(h, t) # 4 /\ Delay(h, t) # 7 /\ ~(Delay(h, t) >= 8)
      BY <3>3, <3>4, <3>5
    <3> QED
      BY <3>2, <3>6 DEF Gap
  <2> QED
    BY <2>4, <2>5
<1> QED
  BY <1>4, <1>5, <1>6

LEMMA RecoverySafe ==
    ASSUME QueueInv, Frame, Writing, Unwritten, LoopInv, Early, Lone, Paced, turn = "recovery",
           NEW h, h = Head(microtasks), Firm(h.of)'
    PROVE  Alone \/ (Firm(h.of) /\ h.status = wrote[h.of])
<1>1. /\ h \in Queued /\ WriteBody(h) /\ h.of \in Instances /\ wrote'[h.of] = h.status
  BY WritingIs
<1>2. /\ h.who \in Instances => /\ h.of = h.who /\ job[h.of] \in {"marked", "concluded", "written"}
                                /\ job[h.of] = "marked" => h.status = "destroying" /\ listed[h.of] = "destroying"
                                /\ job[h.of] = "concluded" => listed[h.of] = "destroying"
                                /\ job[h.of] = "written" => h.status = "bootstrapping" /\ listed[h.of] = "bootstrapping"
      /\ h.who = Loop => h.of = position /\ listed[h.of] = "applying"
      /\ h.who \in Instances \/ h.who = Loop
      /\ h.does = "body"
  BY <1>1, WriterIs DEF ListedFor, Watching
<1>3. turn' = turn /\ files' = files /\ listed' = listed
  BY DEF Frame
<1>4. ~Exempt(h.of)
  <2>1. ~Exempt(h.of)'
    BY <1>3 DEF Firm
  <2> QED
    BY <1>3, <2>1 DEF Exempt, Preceded, Single, Taken
<1>5. CASE h.who = Loop
  <2>1. position \in Instances /\ ~Preceded(position)
    BY <1>1, <1>2, <1>4, <1>5 DEF Exempt
  <2>2. \A u \in Queued : Young(u)
    BY <1>1, <1>2, <1>5, <2>1 DEF Early, LoopBody
  <2>3. ASSUME NEW t \in Queued', WriteBody(t) PROVE FALSE
    <3>1. t \in Queued /\ t.who # h.who /\ t.does = "body"
      BY <2>3, OtherWriter
    <3>2. t.who \in Instances /\ t.of = t.who /\ job[t.of] \in {"marked", "concluded", "written"}
      BY <1>5, <2>3, <3>1, WriterIs
    <3>3. t.who # Loop
      BY <3>2, OwnersAre
    <3> QED
      BY <2>2, <3>1, <3>2, <3>3 DEF Young
  <2> QED
    BY <2>3 DEF Alone
<1>6. CASE h.who \in Instances /\ job[h.of] = "marked"
  <2>1. h.status = "destroying" /\ listed[h.of] = "destroying"
    BY <1>2, <1>6
  <2>2. wrote[h.of] = listed[h.of]
    BY <1>1, <1>6 DEF Unwritten
  <2>3. h.status = wrote[h.of]
    BY <2>1, <2>2
  <2>4. Firm(h.of)
    BY <1>1, <2>3, FirmIs
  <2> QED
    BY <2>3, <2>4
<1>7. CASE h.who \in Instances /\ job[h.of] = "concluded" /\ h.of \in files
  <2>1. Past
    BY <1>7 DEF Past
  <2> QED
    BY <2>1, LoneWriter
<1>8. CASE h.who \in Instances /\ job[h.of] = "concluded" /\ h.of \notin files
  <2>1. Single(h.of)
    BY <1>2, <1>4, <1>8 DEF Exempt
  <2>2. ASSUME NEW t \in Queued', WriteBody(t) PROVE FALSE
    <3>1. t \in Queued /\ t.who # h.who /\ t.does = "body"
      BY <2>2, OtherWriter
    <3>2. t.who \notin Instances
      <4> SUFFICES ASSUME t.who \in Instances PROVE FALSE
        OBVIOUS
      <4>1. t.of = t.who /\ Taken(t.of)
        BY <2>2, <3>1, WriterIs DEF ListedFor, Taken
      <4> QED
        BY <1>2, <1>8, <2>1, <3>1, <4>1 DEF Single
    <3>3. t.who = Loop
      BY <2>2, <3>1, <3>2, WriterIs
    <3>4. Calm
      BY <1>2, <1>8, <2>1 DEF Calm, Single
    <3>5. Gap(Delay(h, t))
      BY <2>2, <3>4, WriterPaced
    <3>6. h.who # Loop
      BY <1>8, OwnersAre
    <3>7. Age(h) = 10
      BY <1>2, <1>8, <3>6 DEF Age, Base, Phase
    <3>8. Age(t) = -3
      BY <3>1, <3>3 DEF Age, Phase
    <3>9. Delay(h, t) = 13
      BY <3>3, <3>6, <3>7, <3>8 DEF Delay, Before
    <3>10. PICK k \in Int : 13 = 3 * k
      BY <3>5, <3>9 DEF Gap
    <3> QED
      BY <3>10
  <2> QED
    BY <2>2 DEF Alone
<1>9. CASE h.who \in Instances /\ job[h.of] = "written"
  <2>1. h.status = wrote[h.of]
    BY <1>1, <1>2, <1>9 DEF Unwritten
  <2>2. Firm(h.of)
    BY <1>1, <2>1, FirmIs
  <2> QED
    BY <2>1, <2>2
<1> QED
  BY <1>2, <1>5, <1>6, <1>7, <1>8, <1>9

LEMMA WritesSafe ==
    ASSUME QueueInv, Frame, Writing, Unwritten, LoopInv, Early, Lone, OneSlot, Paced, NEW h, h = Head(microtasks)
    PROVE  SafeWrite(h.of, h.status)
<1>1. turn \in {"bulk", "recovery"}
  BY DEF QueueInv, RegistryTypes
<1> QED
  BY <1>1, BulkSafe, RecoverySafe DEF SafeWrite

LEMMA SolidKept ==
    ASSUME QueueInv, Frame, Unwritten, LoopInv, Early, Lone, OneSlot, Paced, Solid
    PROVE  Solid'
<1>1. PICK h : h = Head(microtasks)
  OBVIOUS
<1>2. Writing => SafeWrite(h.of, h.status)
  BY <1>1, WritesSafe
<1> QED
  BY <1>1, <1>2, SolidStep

-----------------------------------------------------------------------------
(* The invariant and the theorem.                                          *)

\* The inductive invariant.
RegistryInv ==
    /\ QueueInv /\ Unwritten /\ ListedAre /\ Places /\ Passing /\ Concluded /\ Settled
    /\ OneSlot /\ Lone /\ Early /\ Paced /\ Solid

LEMMA RegistryStarts ==
    ASSUME RegistryInit
    PROVE  RegistryInv
<1>1. /\ turn \in {"bulk", "recovery"} /\ file \in [Instances -> IF turn = "bulk" THEN {"ready", "destroyed"} ELSE {"ready", "applying", "destroying", "bootstrapping"}]
      /\ files \subseteq Instances /\ \A i \in files : file[i] = (IF turn = "bulk" THEN "ready" ELSE "destroying")
      /\ listed = file /\ wrote = file /\ position = 0 /\ got = "none"
      /\ \A i \in Instances : job[i] = "none"
      /\ holds = {} /\ waiters = <<>> /\ microtasks = <<Resume(Loop)>>
  BY DEF RegistryInit
<1>2. job \in [Instances -> Busy \cup {"none", "terraform"}]
  BY DEF RegistryInit
<1>3. file \in Files /\ \A i \in Instances : file[i] \in (IF turn = "bulk" THEN {"ready", "destroyed"} ELSE {"ready", "applying", "destroying", "bootstrapping"})
  <2>1. \A i \in Instances : file[i] \in (IF turn = "bulk" THEN {"ready", "destroyed"} ELSE {"ready", "applying", "destroying", "bootstrapping"})
    BY <1>1
  <2> QED
    BY <1>1, <2>1 DEF Files, States
<1>4. PICK t : t = Resume(Loop)
  OBVIOUS
<1>5. t \in Tasks /\ t.who = Loop /\ t.does = "resume" /\ Loop \notin Instances
  BY <1>4, SimpleTask, OwnersAre DEF Resume
<1>6. Queued = {t}
  BY <1>1, <1>4, FewElements DEF Queued
<1>7. microtasks \in Seq(Tasks) /\ waiters \in Seq(Instances)
  BY <1>1, <1>4, <1>5
<1>8. QueueInv
  <2>1. RegistryTypes
    BY <1>1, <1>2, <1>3, <1>7, OwnersAre DEF RegistryTypes, States
  <2>2. PairsIn(microtasks, Apart)
    BY <1>1, PairsFew
  <2>3. Followed(Queued)
    BY <1>5, <1>6 DEF Followed
  <2>4. \A u \in Queued : (u.who \in Instances => OfJob(u)) /\ (u.who = Loop => OfLoop(u))
    BY <1>5, <1>6 DEF OfLoop
  <2>5. IsInjective(waiters) /\ ToSet(waiters) = {}
    BY <1>1, NoElements DEF IsInjective
  <2> QED
    BY <1>1, <2>1, <2>2, <2>3, <2>4, <2>5 DEF QueueInv, Busy, Working, Watching
<1>9. Unwritten /\ Concluded
  BY <1>1 DEF Unwritten, Concluded
<1>10. ListedAre /\ Settled
  <2>1. ListedAre
    BY <1>1, <1>3 DEF ListedAre
  <2> QED
    BY <1>1, <2>1 DEF Settled
<1>11. LoopInv
  <2>1. LoopAt(t)
    BY <1>1, <1>5 DEF LoopAt
  <2> QED
    BY <1>1, <1>6, <2>1, OwnersAre DEF LoopInv
<1>12. Swept
  <2>1. \A i \in Instances : ~(i < position)
    BY <1>1, OwnersAre
  <2>2. \E u \in Queued : u.who = Loop
    BY <1>5, <1>6
  <2> QED
    BY <2>1, <2>2 DEF Swept
<1>13. OneSlot /\ Lone
  <2>1. ~Past
    BY <1>1 DEF Past, Done
  <2> QED
    BY <1>1, <2>1 DEF OneSlot, Lone
<1>14. Passing /\ Early
  <2>1. \A u \in Queued : u.who \notin Instances /\ ~LoopBody(u)
    BY <1>5, <1>6 DEF LoopBody
  <2> QED
    BY <2>1 DEF Passing, Early
<1>15. Paced
  BY <1>1, PairsFew DEF Paced
<1>16. Solid
  BY <1>1, <1>5, <1>6 DEF Solid, Sound, WriteBody
<1> QED
  BY <1>8, <1>9, <1>10, <1>11, <1>12, <1>13, <1>14, <1>15, <1>16 DEF RegistryInv, Places

\* What bulk-destroy has not come to is as it was listed.
LEMMA AheadIs ==
    ASSUME Unwritten, Solid
    PROVE  Ahead
BY DEF Unwritten, Solid, Ahead, Firm, Sound

LEMMA RegistryStep ==
    ASSUME RegistryInv, RegistryNext
    PROVE  RegistryInv'
<1>1. /\ QueueInv /\ Unwritten /\ ListedAre /\ Places /\ LoopInv /\ Passing /\ Concluded /\ Settled
      /\ OneSlot /\ Lone /\ Early /\ Paced /\ Solid
  BY DEF RegistryInv, Places
<1>2. QueueInv' /\ Frame
  BY <1>1, FrameIs
<1>3. ListedAre'
  BY <1>1, <1>2 DEF ListedAre, Frame
<1>4. Unwritten' /\ Concluded' /\ Settled'
  BY <1>1, <1>2, UnwrittenStep, ConcludedStep, SettledStep
<1>5. Places'
  BY <1>1, <1>2, AheadIs, PlacesStep
<1>6. OneSlot' /\ Lone'
  BY <1>1, <1>2, OneSlotStep, LoneStep
<1>7. Passing' /\ Early' /\ Paced'
  BY <1>1, <1>2, PassingStep, EarlyStep, PacedStep
<1>8. Solid'
  BY <1>1, <1>2, SolidKept
<1> QED
  BY <1>2, <1>3, <1>4, <1>5, <1>6, <1>7, <1>8 DEF RegistryInv

LEMMA RegistryStutters ==
    ASSUME RegistryInv, UNCHANGED registryVars
    PROVE  RegistryInv'
<1>1. UNCHANGED <<turn, file, files, listed, position, got, job, holds, waiters, microtasks, wrote>>
  BY DEF registryVars
<1>2. Queued' = Queued /\ \A t : OfJob(t)' = OfJob(t) /\ OfLoop(t)' = OfLoop(t)
  BY <1>1 DEF Queued, OfJob, OfLoop
<1>3. QueueInv'
  BY <1>1, <1>2 DEF RegistryInv, QueueInv, RegistryTypes, ListedFor
<1>4. Unwritten' /\ ListedAre' /\ Concluded' /\ Settled'
  BY <1>1, <1>2 DEF RegistryInv, Unwritten, ListedAre, Concluded, Settled
<1>5. Places'
  <2>1. \A i : Reached(i)' = Reached(i) /\ Fresh(i)' = Fresh(i)
    BY <1>1 DEF Reached, Fresh
  <2>2. \A t : LoopAt(t)' = LoopAt(t)
    BY <1>1, <1>2, <2>1 DEF LoopAt
  <2> QED
    BY <1>1, <1>2, <2>1, <2>2 DEF RegistryInv, Places, LoopInv, Swept, Doing
<1>6. OneSlot' /\ Lone'
  BY <1>1, <1>2 DEF RegistryInv, OneSlot, Lone, One, Past
<1>7. Passing' /\ Early'
  <2>1. Passing'
    BY <1>1, <1>2 DEF RegistryInv, Passing, Starting, Doing
  <2> QED
    BY <1>1, <1>2, <2>1 DEF RegistryInv, Early, Young, Preceded, Taken, LoopBody
<1>8. Paced'
  <2>1. Timed' = Timed
    BY <1>1 DEF Timed, Delay, Age, Gap
  <2>2. Calm' = Calm
    BY <1>1 DEF Calm, Crowded, Taken
  <2> QED
    BY <1>1, <2>1, <2>2 DEF RegistryInv, Paced
<1>9. Solid'
  BY <1>1, <1>2 DEF RegistryInv, Solid, Firm, Sound, Crowded, Exempt, Single, Preceded, Taken
<1> QED
  BY <1>3, <1>4, <1>5, <1>6, <1>7, <1>8, <1>9 DEF RegistryInv

LEMMA RegistryInvKeeps ==
    ASSUME RegistryInv
    PROVE  BulkKeeps /\ RecoveryKeeps
<1>1. QueueInv /\ RegistryTypes /\ Unwritten /\ ListedAre /\ Swept /\ Settled /\ Solid
  BY DEF RegistryInv, QueueInv, Places
<1>2. ASSUME NEW i \in Instances, file[i] # wrote[i] PROVE ~Firm(i)
  BY <1>1, <1>2 DEF Solid, Sound
<1>3. CASE turn = "bulk"
  <2>1. microtasks = <<>> => Queued = {}
    BY NoElements DEF Queued
  <2>2. ASSUME NEW i \in Instances, Lost(i) PROVE Crowded /\ (job[i] = "terraform" \/ i \notin files)
    <3>1. Crowded /\ wrote[i] # listed[i] /\ ~(i \in files /\ wrote[i] \in Done)
      BY <1>2, <1>3, <2>2 DEF Lost, Firm
    <3>2. job[i] # "none" \/ i \notin files
      BY <1>1, <1>3, <3>1 DEF Settled
    <3>3. job[i] # "slot"
      BY <1>1, <3>1 DEF Unwritten
    <3>4. job[i] \notin Working /\ job[i] \notin Watching
      BY <1>1, <1>3, <2>1, <2>2, <3>3 DEF Lost, QueueInv
    <3>5. job[i] \in Busy \cup {"none", "terraform"}
      BY <1>1 DEF RegistryTypes
    <3> QED
      BY <3>1, <3>2, <3>4, <3>5 DEF Busy
  <2>3. ASSUME microtasks = <<>>, \A i \in Instances : job[i] = "none", NEW i \in Instances
        PROVE  file[i] \in {"destroyed", "failed"} \/ (Crowded /\ listed[i] = "ready" /\ i \notin files)
    <3>1. position = NumInstances /\ Reached(position) /\ \A j \in Instances : j < position => Reached(j)
      BY <1>1, <1>3, <2>1, <2>3 DEF Swept
    <3>2. i = position \/ i < position
      BY <3>1, OwnersAre DEF Instances
    <3>3. Reached(i)
      BY <3>1, <3>2
    <3>4. listed[i] = "destroyed" => wrote[i] = "destroyed"
      BY <1>1, <1>3 DEF Settled
    <3>5. wrote[i] \in Done
      BY <2>3, <3>3, <3>4 DEF Reached, Done
    <3>6. CASE file[i] = wrote[i]
      BY <3>5, <3>6 DEF Done
    <3>7. CASE file[i] # wrote[i]
      <4>1. Crowded /\ wrote[i] # listed[i] /\ i \notin files
        BY <1>2, <1>3, <3>5, <3>7 DEF Firm
      <4>2. listed[i] \in {"ready", "destroyed"}
        BY <1>1, <1>3 DEF ListedAre
      <4> QED
        BY <3>4, <4>1, <4>2
    <3> QED
      BY <3>6, <3>7
  <2> QED
    BY <1>3, <2>2, <2>3 DEF BulkKeeps, RecoveryKeeps
<1>4. CASE turn # "bulk"
  <2>1. ASSUME NEW i \in Instances, Lost(i) PROVE Exempt(i)
    BY <1>2, <1>4, <2>1 DEF Lost, Firm
  <2> QED
    BY <1>4, <2>1 DEF BulkKeeps, RecoveryKeeps, Exempt, Single
<1> QED
  BY <1>3, <1>4

\* What bulk-destroy writes of one instance survives what it writes of
\* another, although dbUpsertInstance of db.ts writes the whole file as it
\* was before an await, but for the marks and ends of more instances than
\* slots that BulkKeeps names.
THEOREM BulkKeepsCorrect == RegistrySpec => []BulkKeeps
<1>1. RegistryInit => RegistryInv
  BY RegistryStarts
<1>2. RegistryInv /\ [RegistryNext]_registryVars => RegistryInv'
  BY RegistryStep, RegistryStutters
<1>3. RegistryInv => BulkKeeps
  BY RegistryInvKeeps
<1> QED
  BY <1>1, <1>2, <1>3, PTL DEF RegistrySpec

\* What the recovery of index.ts writes, the destroys it takes up and the
\* watchers it starts survives as well, but for a mark and for the end of a
\* destroy without files beside others, which RecoveryKeeps names.
THEOREM RecoveryKeepsCorrect == RegistrySpec => []RecoveryKeeps
<1>1. RegistryInit => RegistryInv
  BY RegistryStarts
<1>2. RegistryInv /\ [RegistryNext]_registryVars => RegistryInv'
  BY RegistryStep, RegistryStutters
<1>3. RegistryInv => RecoveryKeeps
  BY RegistryInvKeeps
<1> QED
  BY <1>1, <1>2, <1>3, PTL DEF RegistrySpec

=============================================================================
