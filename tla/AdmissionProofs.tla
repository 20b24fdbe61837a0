--------------------------- MODULE AdmissionProofs ---------------------------
(***************************************************************************)
(* The theorems about Admission, for any deployments, owners and limits.   *)
(* The quota of quotas.ts holds but for what it cannot see: the invariant  *)
(* says it of every set of deployments that a user has standing, for some  *)
(* may be deleted and come back by a retry, and says of a request that the *)
(* quota has let pass that there is room for it beside all it has counted. *)
(* And what preflight.ts lets pass fails of nothing that it could have     *)
(* said: the invariant says of every part of the preflight what it has     *)
(* settled, of the project as it is and as others have changed it since.   *)
(***************************************************************************)
EXTENDS Admission, SequenceFacts

-----------------------------------------------------------------------------
(* Counting.                                                               *)

\* What the proofs need of what is asked for.
WishOK == IsFiniteSet(DOMAIN wish) /\ \A d \in DOMAIN wish : WellFormed(wish[d])

LEMMA CountIsNat ==
  ASSUME WishOK, NEW d \in DOMAIN wish
  PROVE  CountRedisClusters(wish[d]) \in Nat
<1>1. wish[d].clusters \in Seq(ToSet(wish[d].clusters))
  BY DEF WishOK, WellFormed
<1>2. Len(wish[d].clusters) \in Nat
  BY <1>1, LenProperties
<1> QED
  BY <1>2 DEF CountRedisClusters

\* Some deployments have finitely many clusters.
LEMMA ClustersFinite ==
  ASSUME WishOK, NEW E, E \subseteq DOMAIN wish
  PROVE  IsFiniteSet(ClustersOf(E)) /\ Cardinality(ClustersOf(E)) \in Nat
<1> DEFINE Of(d) == {d} \X (1 .. CountRedisClusters(wish[d]))
           C == {Of(d) : d \in E}
<1>1. IsFiniteSet(E)
  BY FS_Subset DEF WishOK
<1>2. IsFiniteSet(C)
  <2> DEFINE f == [d \in E |-> Of(d)]
  <2>1. f \in [E -> C] /\ \A c \in C : \E d \in E : f[d] = c
    OBVIOUS
  <2> HIDE DEF f, C
  <2>2. f \in Surjection(E, C)
    BY <2>1, Z3 DEF Surjection
  <2> QED
    BY <1>1, <2>2, FS_Surjection
<1>3. \A d \in E : IsFiniteSet(Of(d))
  <2> SUFFICES ASSUME NEW d \in E PROVE IsFiniteSet(Of(d))
    OBVIOUS
  <2> DEFINE n == CountRedisClusters(wish[d])
  <2>1. 1 \in Int /\ n \in Int
    BY CountIsNat
  <2>2. IsFiniteSet(1 .. n) /\ IsFiniteSet({d})
    <3> HIDE DEF n
    <3> QED
      BY <2>1, FS_Interval, FS_Singleton
  <2> QED
    BY <2>2, FS_Product
<1>4. IsFiniteSet(UNION C)
  BY <1>2, <1>3, FS_UNION
<1>5. ClustersOf(E) = UNION C
  BY DEF ClustersOf
<1> QED
  BY <1>4, <1>5, FS_CardinalityType

\* More deployments, more clusters.
LEMMA MoreClusters ==
  ASSUME WishOK, NEW F, F \subseteq DOMAIN wish, NEW E, E \subseteq F
  PROVE  Cardinality(ClustersOf(E)) <= Cardinality(ClustersOf(F))
<1>1. ClustersOf(E) \subseteq ClustersOf(F)
  BY DEF ClustersOf
<1> QED
  BY <1>1, ClustersFinite, FS_Subset

\* One deployment more has its own clusters more.
LEMMA OneMore ==
  ASSUME WishOK, NEW E, E \subseteq DOMAIN wish, NEW d \in DOMAIN wish
  PROVE  Cardinality(ClustersOf(E \cup {d})) <= Cardinality(ClustersOf(E)) + CountRedisClusters(wish[d])
<1> DEFINE n == CountRedisClusters(wish[d])
           D == {d} \X (1 .. n)
           C == ClustersOf(E)
<1>1. ClustersOf(E \cup {d}) = C \cup D
  BY DEF ClustersOf
<1>2. IsFiniteSet(C) /\ Cardinality(C) \in Nat
  BY ClustersFinite
<1>3. n \in Nat
  BY CountIsNat
<1> HIDE DEF n, C
<1>4. IsFiniteSet(D) /\ Cardinality(D) = n
  <2>1. IsFiniteSet(1 .. n) /\ Cardinality(1 .. n) = n /\ IsFiniteSet({d}) /\ Cardinality({d}) = 1
    <3>1. 1 \in Int /\ n \in Int
      BY <1>3
    <3>2. IsFiniteSet(1 .. n) /\ Cardinality(1 .. n) = IF 1 > n THEN 0 ELSE n - 1 + 1
      BY <3>1, FS_Interval
    <3>3. IsFiniteSet({d}) /\ Cardinality({d}) = 1
      BY FS_Singleton
    <3> QED
      BY <1>3, <3>2, <3>3
  <2>2. IsFiniteSet(D) /\ Cardinality(D) = 1 * n
    BY <2>1, FS_Product
  <2> QED
    BY <1>3, <2>2
<1> HIDE DEF D
<1>5. Cardinality(C \cap D) \in Nat
  BY <1>2, FS_Intersection, FS_CardinalityType
<1>6. Cardinality(C \cup D) = Cardinality(C) + Cardinality(D) - Cardinality(C \cap D)
  BY <1>2, <1>4, FS_Union
<1>7. Cardinality(C \cup D) <= Cardinality(C) + n
  BY <1>2, <1>3, <1>4, <1>5, <1>6
<1> QED
  BY <1>1, <1>7 DEF n, C

-----------------------------------------------------------------------------
(* The invariant.                                                          *)

\* The deployments of a user that are made or stand.
Mine(owner) == {d \in DOMAIN deploys : wish[d].owner = owner /\ deploys[d].status \in {"applying", "ready"}}

\* One of them came in beside the quota, or while another had it counted.
Excused(E) == \E e \in E : deploys[e].how = "retried" \/ deploys[e].joined \cap E # {}

Fits(E) == Cardinality(ClustersOf(E)) <= MaxLiveClusters

\* A request that the quota has let pass.
Pending == {"name", "region", "dns", "names", "services", "write"}

\* Who has no record asks for one; an entry has its fields.
EntryOK(r) ==
    /\ DOMAIN r = DOMAIN Unasked
    /\ r.step # "idle" => r.status \in {"none", "destroyed"}

\* Not only all of them, any of them: some may go and come back.
KeptBy(owner) == \A E \in SUBSET Mine(owner) : Excused(E) \/ Fits(E)

\* There is room for the request beside all that it has counted.
RoomFor(d) == \A E \in SUBSET (Mine(wish[d].owner) \ deploys[d].joined) : Fits(E \cup {d})

EntriesOK == DOMAIN deploys = DOMAIN wish /\ \A d \in DOMAIN wish : EntryOK(deploys[d])

QuotaInv ==
    /\ WishOK /\ EntriesOK
    /\ \A d \in DOMAIN wish :
        wish[d].owner \notin Admins => KeptBy(wish[d].owner) /\ (deploys[d].step \in Pending => RoomFor(d))

-----------------------------------------------------------------------------
(* The steps.                                                              *)

\* A step that lets nobody in and counts nothing.
Quiet ==
    /\ wish' = wish /\ DOMAIN deploys' = DOMAIN deploys
    /\ \A e \in DOMAIN wish :
        /\ EntryOK(deploys'[e])
        /\ deploys'[e].status \in {"applying", "ready"} =>
            /\ deploys[e].status \in {"applying", "ready"}
            /\ deploys'[e].how = deploys[e].how /\ deploys'[e].joined = deploys[e].joined
        /\ deploys'[e].step \in Pending => deploys[e].step \in Pending /\ deploys'[e].joined = deploys[e].joined

\* Nobody's wish changes, and so neither what a set of deployments comes to.
LEMMA FitsKept == wish' = wish => \A E : Fits(E)' <=> Fits(E)
BY DEF Fits, ClustersOf, CountRedisClusters, ClustersRefused

\* The wishes stay finite.
LEMMA WishKept == wish' = wish /\ WishOK => WishOK'
BY DEF WishOK

\* Such a step keeps the invariant.
LEMMA QuietKeeps == QuotaInv /\ Quiet => QuotaInv'
<1> SUFFICES ASSUME QuotaInv, Quiet PROVE QuotaInv'
  OBVIOUS
<1>1. /\ wish' = wish /\ DOMAIN deploys' = DOMAIN wish /\ DOMAIN deploys = DOMAIN wish
      /\ \A E : Fits(E)' <=> Fits(E)
  BY FitsKept DEF QuotaInv, EntriesOK, Quiet
<1>2. WishOK' /\ EntriesOK'
  BY <1>1, WishKept DEF QuotaInv, EntriesOK, Quiet
<1>3. ASSUME NEW o PROVE Mine(o)' \subseteq Mine(o)
  BY <1>1 DEF Mine, Quiet
<1>4. ASSUME NEW o, KeptBy(o) PROVE KeptBy(o)'
  <2> SUFFICES ASSUME NEW E, E \subseteq Mine(o)' PROVE Excused(E)' \/ Fits(E)'
    BY DEF KeptBy
  <2>1. Excused(E) \/ Fits(E)
    BY <1>3, <1>4 DEF KeptBy
  <2>2. Excused(E) => Excused(E)'
    <3>1. \A e \in E : deploys'[e].how = deploys[e].how /\ deploys'[e].joined = deploys[e].joined
      BY <1>1 DEF Mine, Quiet
    <3> QED
      BY <3>1 DEF Excused
  <2> QED
    BY <1>1, <2>1, <2>2
<1>5. ASSUME NEW d \in DOMAIN wish, deploys'[d].step \in Pending, RoomFor(d) PROVE RoomFor(d)'
  <2>1. deploys'[d].joined = deploys[d].joined
    BY <1>5 DEF Quiet
  <2>2. Mine(wish[d].owner)' \subseteq Mine(wish[d].owner)
    BY <1>1, <1>3
  <2> QED
    BY <1>1, <1>5, <2>1, <2>2 DEF RoomFor
<1>6. ASSUME NEW d \in DOMAIN wish, wish[d].owner \notin Admins
      PROVE  KeptBy(wish[d].owner)' /\ (deploys'[d].step \in Pending => RoomFor(d)')
  <2>1. KeptBy(wish[d].owner) /\ (deploys[d].step \in Pending => RoomFor(d))
    BY <1>6 DEF QuotaInv
  <2>2. deploys'[d].step \in Pending => deploys[d].step \in Pending
    BY DEF Quiet
  <2>3. KeptBy(wish[d].owner)'
    BY <1>1, <1>4, <2>1
  <2> QED
    BY <1>5, <2>1, <2>2, <2>3
<1> QED
  BY <1>1, <1>2, <1>6 DEF QuotaInv

\* A deployment gets its record: nobody had it counted who is still at it,
\* and what it has counted itself leaves room for it.
LEMMA JoinKeeps ==
  ASSUME QuotaInv, NEW d \in DOMAIN wish, NEW how, wish' = wish, Joins(d, how),
         how = "retried" \/ deploys[d].step = "write"
  PROVE  QuotaInv'
<1>1. /\ DOMAIN deploys = DOMAIN wish /\ DOMAIN deploys' = DOMAIN wish
      /\ \A E : Fits(E)' <=> Fits(E)
  BY FitsKept DEF QuotaInv, EntriesOK, Joins
<1>2. /\ deploys'[d].status = "applying" /\ deploys'[d].step = "idle" /\ deploys'[d].how = how
      /\ deploys'[d].joined = deploys[d].joined /\ DOMAIN deploys'[d] = DOMAIN Unasked
  <2>1. DOMAIN deploys[d] = DOMAIN Unasked
    BY DEF QuotaInv, EntriesOK, EntryOK
  <2>2. deploys'[d] = [deploys[d] EXCEPT !.status = "applying", !.step = "idle", !.how = how]
    BY <1>1 DEF Joins
  <2> QED
    BY <2>1, <2>2 DEF Unasked
<1>3. ASSUME NEW e \in DOMAIN wish, e # d
      PROVE  /\ deploys'[e].status = deploys[e].status /\ deploys'[e].step = deploys[e].step
             /\ deploys'[e].how = deploys[e].how /\ DOMAIN deploys'[e] = DOMAIN Unasked
             /\ deploys'[e].joined = deploys[e].joined \/ deploys'[e].joined = deploys[e].joined \cup {d}
             /\ deploys[e].step # "idle" => deploys'[e].joined = deploys[e].joined \cup {d}
  <2>1. DOMAIN deploys[e] = DOMAIN Unasked
    BY DEF QuotaInv, EntriesOK, EntryOK
  <2> DEFINE j == IF deploys[e].step = "idle" THEN deploys[e].joined ELSE deploys[e].joined \cup {d}
  <2>2. deploys'[e] = [deploys[e] EXCEPT !.joined = j]
    BY <1>1, <1>3 DEF Joins
  <2>3. /\ j = deploys[e].joined \/ j = deploys[e].joined \cup {d}
        /\ deploys[e].step # "idle" => j = deploys[e].joined \cup {d}
    OBVIOUS
  <2> HIDE DEF j
  <2> QED
    BY <2>1, <2>2, <2>3 DEF Unasked
<1>4. EntriesOK' /\ WishOK'
  <2>1. \A e \in DOMAIN wish : EntryOK(deploys'[e])
    BY <1>2, <1>3 DEF EntryOK, QuotaInv, EntriesOK
  <2> QED
    BY <1>1, <2>1, WishKept DEF EntriesOK, QuotaInv
<1>5. ASSUME NEW o PROVE Mine(o)' \ {d} \subseteq Mine(o)
  BY <1>1, <1>3 DEF Mine
<1>6. ASSUME NEW o, KeptBy(o), deploys[d].step = "write" /\ wish[d].owner = o => RoomFor(d)
      PROVE  KeptBy(o)'
  <2> SUFFICES ASSUME NEW E, E \subseteq Mine(o)' PROVE Excused(E)' \/ Fits(E)'
    BY DEF KeptBy
  <2>0. E \subseteq DOMAIN wish
    BY <1>1 DEF Mine
  <2>1. CASE d \notin E
    <3>1. Excused(E) \/ Fits(E)
      BY <1>5, <1>6, <2>1 DEF KeptBy
    <3>2. Excused(E) => Excused(E)'
      BY <1>3, <2>0, <2>1 DEF Excused
    <3> QED
      BY <1>1, <3>1, <3>2
  <2>2. CASE d \in E /\ how = "retried"
    BY <1>2, <2>2 DEF Excused
  <2>3. CASE d \in E /\ deploys[d].step = "write"
    <3>1. wish[d].owner = o
      BY <1>1, <2>3 DEF Mine
    <3>2. CASE deploys[d].joined \cap E # {}
      BY <1>2, <2>3, <3>2 DEF Excused
    <3>3. CASE deploys[d].joined \cap E = {}
      <4>1. E \ {d} \subseteq Mine(o) \ deploys[d].joined
        BY <1>5, <3>3
      <4>2. Fits((E \ {d}) \cup {d})
        BY <1>6, <2>3, <3>1, <4>1 DEF RoomFor
      <4>3. (E \ {d}) \cup {d} = E
        BY <2>3
      <4> QED
        BY <1>1, <4>2, <4>3
    <3> QED
      BY <3>2, <3>3
  <2> QED
    BY <2>1, <2>2, <2>3
<1>7. ASSUME NEW e \in DOMAIN wish, deploys'[e].step \in Pending, RoomFor(e) PROVE RoomFor(e)'
  <2>1. e # d /\ deploys'[e].joined = deploys[e].joined \cup {d}
    BY <1>2, <1>3, <1>7 DEF Pending
  <2>2. Mine(wish[e].owner)' \ deploys'[e].joined \subseteq Mine(wish[e].owner) \ deploys[e].joined
    BY <1>5, <2>1
  <2> QED
    BY <1>1, <1>7, <2>2 DEF RoomFor
<1>8. ASSUME NEW e \in DOMAIN wish, wish[e].owner \notin Admins
      PROVE  KeptBy(wish[e].owner)' /\ (deploys'[e].step \in Pending => RoomFor(e)')
  <2>1. KeptBy(wish[e].owner) /\ (deploys[e].step \in Pending => RoomFor(e))
    BY <1>8 DEF QuotaInv
  <2>2. deploys[d].step = "write" /\ wish[d].owner = wish[e].owner => RoomFor(d)
    BY <1>8 DEF QuotaInv, Pending
  <2>3. deploys'[e].step \in Pending => deploys[e].step \in Pending
    BY <1>2, <1>3 DEF Pending
  <2> QED
    BY <1>6, <1>7, <2>1, <2>2, <2>3
<1> QED
  BY <1>1, <1>4, <1>8 DEF QuotaInv

\* The quota is asked: what stands and what is asked for are not too much.
LEMMA AskKeeps ==
  ASSUME QuotaInv, NEW d \in DOMAIN wish, AskQuota(d)
  PROVE  QuotaInv'
<1> DEFINE s == IF CheckCreateQuota(wish[d]) THEN "idle" ELSE IF deploys[d].how = "forced" THEN "write" ELSE "name"
<1>1. /\ wish' = wish /\ DOMAIN deploys' = DOMAIN wish /\ DOMAIN deploys = DOMAIN wish
      /\ \A e \in DOMAIN wish : deploys'[e] = IF e = d THEN [deploys[d] EXCEPT !.step = s] ELSE deploys[e]
      /\ deploys[d].step = "quota"
  BY DEF QuotaInv, EntriesOK, AskQuota, Turn
<1>2. s \in {"idle", "write", "name"} /\ (s # "idle" => ~CheckCreateQuota(wish[d]))
  OBVIOUS
<1> HIDE DEF s
<1>3. \A e \in DOMAIN wish :
        /\ DOMAIN deploys'[e] = DOMAIN Unasked
        /\ deploys'[e].status = deploys[e].status /\ deploys'[e].how = deploys[e].how
        /\ deploys'[e].joined = deploys[e].joined
        /\ deploys'[e].step = IF e = d THEN s ELSE deploys[e].step
  <2>1. \A e \in DOMAIN wish : DOMAIN deploys[e] = DOMAIN Unasked
    BY DEF QuotaInv, EntriesOK, EntryOK
  <2> QED
    BY <1>1, <2>1 DEF Unasked
<1>4. WishOK' /\ EntriesOK'
  BY <1>1, <1>2, <1>3, WishKept DEF QuotaInv, EntriesOK, EntryOK
<1>5. \A E : Fits(E)' <=> Fits(E)
  BY <1>1, FitsKept
<1>6. \A o : Mine(o)' = Mine(o)
  BY <1>1, <1>3 DEF Mine
<1>7. ASSUME NEW o, KeptBy(o) PROVE KeptBy(o)'
  <2> SUFFICES ASSUME NEW E, E \subseteq Mine(o)' PROVE Excused(E)' \/ Fits(E)'
    BY DEF KeptBy
  <2>1. E \subseteq DOMAIN wish /\ (Excused(E) \/ Fits(E))
    BY <1>1, <1>6, <1>7 DEF KeptBy, Mine
  <2>2. Excused(E) => Excused(E)'
    BY <1>3, <2>1 DEF Excused
  <2> QED
    BY <1>5, <2>1, <2>2
<1>8. ASSUME NEW e \in DOMAIN wish, RoomFor(e) PROVE RoomFor(e)'
  BY <1>1, <1>3, <1>5, <1>6, <1>8 DEF RoomFor
<1>9. ASSUME wish[d].owner \notin Admins, s # "idle" PROVE RoomFor(d)
  <2> DEFINE o == wish[d].owner
             n == CountRedisClusters(wish[d])
  <2>1. Cardinality(ClustersOf(LiveOf(o))) + n <= MaxLiveClusters
    <3>1. ~(LiveClusters(o) + n > MaxLiveClusters)
      BY <1>2, <1>9 DEF CheckCreateQuota
    <3>2. LiveClusters(o) \in Nat /\ n \in Nat /\ MaxLiveClusters \in Nat
      <4>1. LiveOf(o) \subseteq DOMAIN wish
        BY <1>1 DEF LiveOf
      <4> QED
        BY <4>1, ClustersFinite, CountIsNat, AdmissionAssumption DEF QuotaInv, LiveClusters
    <3> QED
      BY <3>1, <3>2 DEF LiveClusters
  <2> SUFFICES ASSUME NEW E, E \subseteq Mine(o) PROVE Fits(E \cup {d})
    BY DEF RoomFor
  <2>2. E \subseteq LiveOf(o) /\ LiveOf(o) \subseteq DOMAIN wish
    BY <1>1 DEF Mine, LiveOf, Standing
  <2>3. Cardinality(ClustersOf(E)) <= Cardinality(ClustersOf(LiveOf(o)))
    BY <2>2, MoreClusters DEF QuotaInv
  <2>4. Cardinality(ClustersOf(E \cup {d})) <= Cardinality(ClustersOf(E)) + n
    BY <2>2, OneMore DEF QuotaInv
  <2>5. /\ Cardinality(ClustersOf(E \cup {d})) \in Nat /\ Cardinality(ClustersOf(E)) \in Nat
        /\ Cardinality(ClustersOf(LiveOf(o))) \in Nat /\ n \in Nat /\ MaxLiveClusters \in Nat
    <3>1. E \cup {d} \subseteq DOMAIN wish /\ E \subseteq DOMAIN wish
      BY <2>2
    <3> QED
      BY <2>2, <3>1, ClustersFinite, CountIsNat, AdmissionAssumption DEF QuotaInv
  <2> HIDE DEF n
  <2> QED
    BY <2>1, <2>3, <2>4, <2>5 DEF Fits
<1>10. ASSUME NEW e \in DOMAIN wish, wish[e].owner \notin Admins
       PROVE  KeptBy(wish[e].owner)' /\ (deploys'[e].step \in Pending => RoomFor(e)')
  <2>1. KeptBy(wish[e].owner) /\ (deploys[e].step \in Pending => RoomFor(e))
    BY <1>10 DEF QuotaInv
  <2>2. deploys'[e].step \in Pending => RoomFor(e)
    BY <1>3, <1>9, <1>10, <2>1 DEF Pending
  <2>3. KeptBy(wish[e].owner)'
    BY <1>1, <1>7, <2>1
  <2> QED
    BY <1>8, <2>2, <2>3
<1> QED
  BY <1>1, <1>4, <1>10 DEF QuotaInv

\* A step of one deployment is quiet if what becomes of that one is.
LEMMA TurnIsQuiet ==
  ASSUME QuotaInv, NEW d \in DOMAIN wish, NEW r, EntryOK(r), wish' = wish, Turn(d, r),
         r.status \in {"applying", "ready"} =>
            deploys[d].status \in {"applying", "ready"} /\ r.how = deploys[d].how /\ r.joined = deploys[d].joined,
         r.step \in Pending => deploys[d].step \in Pending /\ r.joined = deploys[d].joined
  PROVE  Quiet
<1>1. DOMAIN deploys' = DOMAIN deploys /\ \A e \in DOMAIN wish : deploys'[e] = IF e = d THEN r ELSE deploys[e]
  BY DEF QuotaInv, EntriesOK, Turn
<1> QED
  BY <1>1 DEF Quiet, QuotaInv, EntriesOK

\* A request that begins has counted nothing yet.
LEMMA BeginIsQuiet ==
  ASSUME QuotaInv, NEW d \in DOMAIN wish, NEW how, BeginOrder(d, how)
  PROVE  Quiet
<1> DEFINE r == [Unasked EXCEPT !.status = deploys[d].status, !.step = "quota", !.how = how]
<1>1. Turn(d, r) /\ wish' = wish /\ deploys[d].status \in {"none", "destroyed"}
  BY DEF BeginOrder
<1>2. r.status = deploys[d].status /\ r.step = "quota" /\ DOMAIN r = DOMAIN Unasked
  BY DEF Unasked
<1> HIDE DEF r
<1>3. EntryOK(r)
  BY <1>1, <1>2 DEF EntryOK
<1>4. r.status \notin {"applying", "ready"} /\ r.step \notin Pending
  BY <1>1, <1>2 DEF Pending
<1> QED
  BY <1>1, <1>3, <1>4, TurnIsQuiet

\* The preflight goes on or gives up.
LEMMA ChecksAreQuiet ==
  ASSUME QuotaInv, NEW d \in DOMAIN wish, deploys[d].step \in DOMAIN CallsOf, RunChecks(d)
  PROVE  Quiet
<1>0. EntryOK(deploys[d])
  BY DEF QuotaInv, EntriesOK
<1>1. deploys[d].step \in {"name", "region", "dns", "names", "services"}
  BY DEF CallsOf
<1>2. PICK found :
        \/ Turn(d, [deploys[d] EXCEPT !.step = "idle", !.checks = {}])
        \/ Turn(d, [deploys[d] EXCEPT !.step = StepAfter[deploys[d].step], !.checks = found])
  BY DEF RunChecks
<1>3. wish' = wish
  BY DEF RunChecks
<1>4. CASE Turn(d, [deploys[d] EXCEPT !.step = "idle", !.checks = {}])
  <2> DEFINE r == [deploys[d] EXCEPT !.step = "idle", !.checks = {}]
  <2>1. /\ r.step = "idle" /\ r.status = deploys[d].status /\ r.how = deploys[d].how
        /\ r.joined = deploys[d].joined /\ DOMAIN r = DOMAIN Unasked
    BY <1>0 DEF EntryOK, Unasked
  <2>2. Turn(d, r)
    BY <1>4
  <2> HIDE DEF r
  <2>3. EntryOK(r) /\ r.step \notin Pending
    BY <2>1 DEF EntryOK, Pending
  <2> QED
    BY <1>3, <2>1, <2>2, <2>3, TurnIsQuiet
<1>5. CASE Turn(d, [deploys[d] EXCEPT !.step = StepAfter[deploys[d].step], !.checks = found])
  <2> DEFINE r == [deploys[d] EXCEPT !.step = StepAfter[deploys[d].step], !.checks = found]
  <2>1. /\ r.status = deploys[d].status /\ r.how = deploys[d].how
        /\ r.joined = deploys[d].joined /\ DOMAIN r = DOMAIN Unasked
    BY <1>0 DEF EntryOK, Unasked
  <2>2. Turn(d, r)
    BY <1>5
  <2> HIDE DEF r
  <2>3. EntryOK(r) /\ deploys[d].step \in Pending
    BY <1>0, <1>1, <2>1 DEF EntryOK, Pending
  <2> QED
    BY <1>3, <2>1, <2>2, <2>3, TurnIsQuiet
<1> QED
  BY <1>2, <1>4, <1>5

\* Terraform is done: whom it was for stands, or has failed.
LEMMA ApplyIsQuiet ==
  ASSUME QuotaInv, NEW d \in DOMAIN wish, Apply(d)
  PROVE  Quiet
<1>0. DOMAIN deploys = DOMAIN wish /\ \A e \in DOMAIN wish : EntryOK(deploys[e])
  BY DEF QuotaInv, EntriesOK
<1>1. wish' = wish /\ deploys[d].status = "applying"
  BY DEF Apply
<1>2. PICK built, trouble, status : status \in {"ready", "failed"} /\ ApplyResult(d, built, trouble, status)
  <2>1. CASE ApplyResult(d, Made(wish[d]), {}, "ready")
    BY <2>1
  <2>2. CASE \E built \in {deploys[d].built, Made(wish[d]) \ TakenFor(d)} : ApplyResult(d, built, Trouble(d), "failed")
    BY <2>2
  <2> QED
    BY <2>1, <2>2 DEF Apply
<1>3. /\ DOMAIN deploys' = DOMAIN deploys
      /\ deploys'[d] = [deploys[d] EXCEPT !.status = status, !.built = built, !.trouble = trouble]
  BY <1>0, <1>2 DEF ApplyResult
<1>4. /\ deploys'[d].status = status /\ deploys'[d].step = deploys[d].step /\ deploys'[d].how = deploys[d].how
      /\ deploys'[d].joined = deploys[d].joined /\ DOMAIN deploys'[d] = DOMAIN Unasked
  BY <1>0, <1>3 DEF EntryOK, Unasked
<1>5. ASSUME NEW e \in DOMAIN wish, e # d
      PROVE  /\ deploys'[e].status = deploys[e].status /\ deploys'[e].step = deploys[e].step
             /\ deploys'[e].how = deploys[e].how /\ deploys'[e].joined = deploys[e].joined
             /\ DOMAIN deploys'[e] = DOMAIN Unasked
  <2> DEFINE b == IF deploys[e].step = "idle" /\ deploys[e].status # "applying" THEN deploys[e].builders
                  ELSE deploys[e].builders \cup {d}
  <2>1. deploys'[e] = [deploys[e] EXCEPT !.builders = b]
    BY <1>0, <1>2, <1>5 DEF ApplyResult
  <2> HIDE DEF b
  <2> QED
    BY <1>0, <2>1 DEF EntryOK, Unasked
<1>6. \A e \in DOMAIN wish : EntryOK(deploys'[e])
  BY <1>0, <1>1, <1>4, <1>5 DEF EntryOK
<1> QED
  BY <1>0, <1>1, <1>2, <1>3, <1>4, <1>5, <1>6 DEF Quiet

\* What ends: a request that is refused at last, a deployment that goes.
LEMMA EndsAreQuiet ==
  ASSUME QuotaInv, NEW d \in DOMAIN wish,
         \/ WriteRecord(d) /\ Turn(d, [deploys[d] EXCEPT !.step = "idle"])
         \/ Delete(d)
         \/ Destroyed(d)
  PROVE  Quiet
<1>0. EntryOK(deploys[d])
  BY DEF QuotaInv, EntriesOK
<1>1. wish' = wish
  BY DEF WriteRecord, Delete, Destroyed
<1>2. CASE WriteRecord(d) /\ Turn(d, [deploys[d] EXCEPT !.step = "idle"])
  <2> DEFINE r == [deploys[d] EXCEPT !.step = "idle"]
  <2>1. /\ r.step = "idle" /\ r.status = deploys[d].status /\ r.how = deploys[d].how
        /\ r.joined = deploys[d].joined /\ DOMAIN r = DOMAIN Unasked
    BY <1>0 DEF EntryOK, Unasked
  <2>2. Turn(d, r)
    BY <1>2
  <2> HIDE DEF r
  <2>3. EntryOK(r) /\ r.step \notin Pending
    BY <2>1 DEF EntryOK, Pending
  <2> QED
    BY <1>1, <2>1, <2>2, <2>3, TurnIsQuiet
<1>3. CASE Delete(d)
  <2> DEFINE r == [deploys[d] EXCEPT !.status = "destroying"]
  <2>1. /\ r.step = deploys[d].step /\ r.status = "destroying" /\ DOMAIN r = DOMAIN Unasked
    BY <1>0 DEF EntryOK, Unasked
  <2>2. Turn(d, r) /\ deploys[d].step = "idle"
    BY <1>3 DEF Delete
  <2> HIDE DEF r
  <2>3. EntryOK(r) /\ r.step \notin Pending /\ r.status \notin {"applying", "ready"}
    BY <2>1, <2>2 DEF EntryOK, Pending
  <2> QED
    BY <1>1, <2>2, <2>3, TurnIsQuiet
<1>4. CASE Destroyed(d)
  <2> DEFINE r == [Unasked EXCEPT !.status = "destroyed"]
  <2>1. r.step = "idle" /\ r.status = "destroyed" /\ DOMAIN r = DOMAIN Unasked
    BY DEF Unasked
  <2>2. Turn(d, r)
    BY <1>4 DEF Destroyed
  <2> HIDE DEF r
  <2>3. EntryOK(r) /\ r.step \notin Pending /\ r.status \notin {"applying", "ready"}
    BY <2>1 DEF EntryOK, Pending
  <2> QED
    BY <1>1, <2>2, <2>3, TurnIsQuiet
<1> QED
  BY <1>2, <1>3, <1>4

-----------------------------------------------------------------------------

\* Nobody has anything at first.
LEMMA QuotaInvInit == AdmissionInit => QuotaInv
<1> SUFFICES ASSUME AdmissionInit PROVE QuotaInv
  OBVIOUS
<1>1. WishOK
  BY AdmissionAssumption DEF AdmissionInit, WishOK
<1>2. /\ DOMAIN deploys = DOMAIN wish
      /\ \A d \in DOMAIN wish : /\ deploys[d].status = "none" /\ deploys[d].step = "idle"
                                /\ DOMAIN deploys[d] = DOMAIN Unasked
  BY DEF AdmissionInit, Unasked
<1>3. EntriesOK
  BY <1>2 DEF EntriesOK, EntryOK
<1>4. ASSUME NEW o PROVE KeptBy(o)
  <2>1. Mine(o) = {}
    BY <1>2 DEF Mine
  <2>2. Fits({})
    <3>1. ClustersOf({}) = {}
      BY DEF ClustersOf
    <3>2. Cardinality({}) = 0 /\ MaxLiveClusters \in Nat
      BY FS_EmptySet, AdmissionAssumption
    <3> QED
      BY <3>1, <3>2 DEF Fits
  <2> QED
    BY <2>1, <2>2 DEF KeptBy
<1> QED
  BY <1>1, <1>2, <1>3, <1>4 DEF QuotaInv, Pending

\* Every step keeps the invariant.
LEMMA QuotaInvNext == QuotaInv /\ [AdmissionNext]_admissionVars => QuotaInv'
<1> SUFFICES ASSUME QuotaInv, [AdmissionNext]_admissionVars PROVE QuotaInv'
  OBVIOUS
<1>0. DOMAIN deploys = DOMAIN wish
  BY DEF QuotaInv, EntriesOK
<1>1. ASSUME NEW d \in DOMAIN wish, NEW how, BeginOrder(d, how) PROVE QuotaInv'
  BY <1>1, BeginIsQuiet, QuietKeeps
<1>2. ASSUME NEW d \in DOMAIN wish, AskQuota(d) PROVE QuotaInv'
  BY <1>2, AskKeeps
<1>3. ASSUME NEW d \in DOMAIN wish, deploys[d].step \in DOMAIN CallsOf, RunChecks(d) PROVE QuotaInv'
  BY <1>3, ChecksAreQuiet, QuietKeeps
<1>4. ASSUME NEW d \in DOMAIN wish, WriteRecord(d) PROVE QuotaInv'
  <2>1. CASE Joins(d, deploys[d].how)
    <3>1. wish' = wish /\ deploys[d].step = "write"
      BY <1>4 DEF WriteRecord
    <3> QED
      BY <2>1, <3>1, JoinKeeps
  <2>2. CASE Turn(d, [deploys[d] EXCEPT !.step = "idle"])
    BY <1>4, <2>2, EndsAreQuiet, QuietKeeps
  <2> QED
    BY <1>4, <2>1, <2>2 DEF WriteRecord
<1>5. ASSUME NEW d \in DOMAIN wish, Retry(d) PROVE QuotaInv'
  <2>1. wish' = wish /\ Joins(d, "retried")
    BY <1>5 DEF Retry
  <2> QED
    BY <2>1, JoinKeeps
<1>6. ASSUME NEW d \in DOMAIN wish, Apply(d) PROVE QuotaInv'
  BY <1>6, ApplyIsQuiet, QuietKeeps
<1>7. ASSUME NEW d \in DOMAIN wish, Delete(d) \/ Destroyed(d) PROVE QuotaInv'
  BY <1>7, EndsAreQuiet, QuietKeeps
<1>8. CASE UNCHANGED admissionVars
  <2>1. Quiet
    BY <1>8 DEF admissionVars, Quiet, QuotaInv, EntriesOK
  <2> QED
    BY <2>1, QuietKeeps
<1> QED
  BY <1>0, <1>1, <1>2, <1>3, <1>4, <1>5, <1>6, <1>7, <1>8 DEF AdmissionNext

\* The quota is the case of all that a user has.
LEMMA QuotaInvImplies == QuotaInv => QuotaHolds
<1> SUFFICES ASSUME QuotaInv, NEW d \in DOMAIN wish, wish[d].owner \notin Admins
             PROVE  LET mine == {e \in LiveOf(wish[d].owner) : deploys[e].status # "destroying"}
                    IN  \/ Cardinality(ClustersOf(mine)) <= MaxLiveClusters
                        \/ \E e \in mine : deploys[e].how = "retried" \/ deploys[e].joined \cap mine # {}
  BY DEF QuotaHolds, QuotaInv, EntriesOK
<1>1. {e \in LiveOf(wish[d].owner) : deploys[e].status # "destroying"} = Mine(wish[d].owner)
  BY DEF LiveOf, Standing, Mine
<1>2. KeptBy(wish[d].owner)
  BY DEF QuotaInv
<1> QED
  BY <1>1, <1>2 DEF KeptBy, Excused, Fits

\* The quota of quotas.ts: what a user has made or standing is never more
\* clusters than the limit, however requests, retries and deletes fall,
\* unless one came in between the count and the record of another, or by a
\* retry.  For any deployments, owners and limits.
THEOREM QuotaHoldsCorrect == AdmissionSpec => []QuotaHolds
<1>1. AdmissionSpec => []QuotaInv
  BY QuotaInvInit, QuotaInvNext, PTL DEF AdmissionSpec
<1> QED
  BY <1>1, QuotaInvImplies, PTL

-----------------------------------------------------------------------------
(* Finite unions, and the processors in use.                               *)

\* Values of a function on a set, and elements of its values.
ValuesOf(f, S, T) == \A t \in T : \E x \in S : t = f[x]
ElementsOf(f, S, U) == (\A x \in S : IsFiniteSet(f[x])) /\ \A u \in U : \E x \in S : u \in f[x]

\* On a finite set there are finitely many.
LEMMA FiniteValues ==
  ASSUME NEW S, NEW T, NEW f, IsFiniteSet(S), ValuesOf(f, S, T)
  PROVE  IsFiniteSet(T)
<1> DEFINE g == [x \in S |-> f[x]]
           V == {f[x] : x \in S}
<1>1. g \in [S -> V] /\ (\A t \in V : \E x \in S : g[x] = t) /\ T \subseteq V
  BY DEF ValuesOf
<1> HIDE DEF g, V
<1>2. g \in Surjection(S, V)
  BY <1>1, Z3 DEF Surjection
<1> QED
  BY <1>1, <1>2, FS_Surjection, FS_Subset

LEMMA FiniteElements ==
  ASSUME NEW S, NEW U, NEW f, IsFiniteSet(S), ElementsOf(f, S, U)
  PROVE  IsFiniteSet(U)
<1> DEFINE V == {f[x] : x \in S}
<1>1. ValuesOf(f, S, V) /\ (\A t \in V : IsFiniteSet(t)) /\ U \subseteq UNION V
  BY DEF ElementsOf, ValuesOf
<1> HIDE DEF V
<1> QED
  BY <1>1, FiniteValues, FS_UNION, FS_Subset

\* The places of a sequence.
LEMMA FinitePlaces ==
  ASSUME NEW S, NEW s \in Seq(S)
  PROVE  IsFiniteSet(DOMAIN s)
<1> DEFINE n == Len(s)
<1>1. DOMAIN s = 1 .. n /\ 1 \in Int /\ n \in Int
  BY LenProperties
<1> HIDE DEF n
<1>2. IsFiniteSet(1 .. n)
  BY <1>1, FS_Interval
<1> QED
  BY <1>1, <1>2

\* A deployment has finitely many machines, all of types there are.
LEMMA MachinesFinite ==
  ASSUME NEW a, WellFormed(a)
  PROVE  LET machines == CountedMachines(a) \cup FurtherMachines(a)
         IN  IsFiniteSet(machines) /\ \A m \in machines : m[3] \in DOMAIN MachineInfo
<1> DEFINE Pool == {<<"pool", <<n>>, a.gke.machine>> : n \in 1 .. a.gke.nodes}
           Clusters == UNION {ClusterMachines(a, i) : i \in DOMAIN a.clusters}
           Vms == {<<"vm", <<i>>, a.vms[i]>> : i \in DOMAIN a.vms}
           Apps == {<<"app", <<i>>, a.apps[i].machine>> : i \in DOMAIN a.apps}
           Rdi == {<<"rdi", <<>>, r.machine>> : r \in a.rdi}
<1>1. /\ \A i \in DOMAIN a.clusters : a.clusters[i] \in ToSet(a.clusters)
      /\ \A i \in DOMAIN a.apps : a.apps[i] \in ToSet(a.apps)
  BY DEF ToSet
<1>2. /\ IsFiniteSet(DOMAIN a.clusters) /\ IsFiniteSet(DOMAIN a.vms) /\ IsFiniteSet(DOMAIN a.apps)
      /\ IsFiniteSet(a.rdi) /\ \A i \in DOMAIN a.vms : a.vms[i] \in DOMAIN MachineInfo
  BY FinitePlaces, ElementOfSeq, LenProperties DEF WellFormed
<1>3. IsFiniteSet(Pool)
  <2>1. ValuesOf([n \in 1 .. a.gke.nodes |-> <<"pool", <<n>>, a.gke.machine>>], 1 .. a.gke.nodes, Pool)
    BY DEF ValuesOf
  <2>2. IsFiniteSet(1 .. a.gke.nodes)
    BY FS_Interval DEF WellFormed
  <2> HIDE DEF Pool
  <2> QED
    BY <2>1, <2>2, FiniteValues
<1>4. ASSUME NEW i \in DOMAIN a.clusters PROVE IsFiniteSet(ClusterMachines(a, i))
  <2> DEFINE S == 1 .. a.clusters[i].nodes
             T == ClusterMachines(a, i)
  <2>1. ValuesOf([n \in S |-> <<"cluster", <<i, n>>, a.clusters[i].machine>>], S, T)
    BY DEF ValuesOf, ClusterMachines
  <2>2. IsFiniteSet(S)
    <3> DEFINE n == a.clusters[i].nodes
    <3>1. 1 \in Int /\ n \in Int
      BY <1>1 DEF WellFormed
    <3> HIDE DEF n
    <3>2. IsFiniteSet(1 .. n)
      BY <3>1, FS_Interval
    <3> QED
      BY <3>2 DEF n
  <2> HIDE DEF S, T
  <2>3. IsFiniteSet(T)
    BY <2>1, <2>2, FiniteValues
  <2> QED
    BY <2>3 DEF T
<1>5. IsFiniteSet(Clusters)
  <2> DEFINE f == [i \in DOMAIN a.clusters |-> ClusterMachines(a, i)]
  <2>1. ElementsOf(f, DOMAIN a.clusters, Clusters)
    <3>1. \A i \in DOMAIN a.clusters : IsFiniteSet(f[i])
      BY <1>4
    <3>2. \A u \in Clusters : \E i \in DOMAIN a.clusters : u \in f[i]
      OBVIOUS
    <3> HIDE DEF f, Clusters
    <3> QED
      BY <3>1, <3>2 DEF ElementsOf
  <2> HIDE DEF f, Clusters
  <2> QED
    BY <1>2, <2>1, FiniteElements
<1>6. IsFiniteSet(Vms) /\ IsFiniteSet(Apps) /\ IsFiniteSet(Rdi)
  <2>1. /\ ValuesOf([i \in DOMAIN a.vms |-> <<"vm", <<i>>, a.vms[i]>>], DOMAIN a.vms, Vms)
        /\ ValuesOf([i \in DOMAIN a.apps |-> <<"app", <<i>>, a.apps[i].machine>>], DOMAIN a.apps, Apps)
        /\ ValuesOf([r \in a.rdi |-> <<"rdi", <<>>, r.machine>>], a.rdi, Rdi)
    BY DEF ValuesOf
  <2> HIDE DEF Vms, Apps, Rdi
  <2> QED
    BY <1>2, <2>1, FiniteValues
<1>7. /\ \A m \in Pool : m[3] = a.gke.machine
      /\ \A m \in Clusters : \E i \in DOMAIN a.clusters : m[3] = a.clusters[i].machine
      /\ \A m \in Vms : \E i \in DOMAIN a.vms : m[3] = a.vms[i]
      /\ \A m \in Apps : \E i \in DOMAIN a.apps : m[3] = a.apps[i].machine
      /\ \A m \in Rdi : \E r \in a.rdi : m[3] = r.machine
  BY DEF ClusterMachines
<1>8. CountedMachines(a) \cup FurtherMachines(a) = IF a.mode = "gke" THEN Pool ELSE ((Clusters \cup Vms) \cup Apps) \cup Rdi
  <2>1. CountedMachines(a) = IF a.mode = "gke" THEN Pool ELSE Clusters \cup Vms
    <3>1. CASE a.mode = "gke"
      BY <3>1 DEF CountedMachines
    <3>2. CASE a.mode # "gke"
      BY <3>2 DEF CountedMachines
    <3> QED
      BY <3>1, <3>2
  <2>2. FurtherMachines(a) = IF a.mode = "gke" THEN {} ELSE Apps \cup Rdi
    BY Zenon DEF FurtherMachines
  <2> HIDE DEF Pool, Clusters, Vms, Apps, Rdi
  <2> QED
    BY <2>1, <2>2
<1> HIDE DEF Pool, Clusters, Vms, Apps, Rdi
<1>9. IsFiniteSet(((Clusters \cup Vms) \cup Apps) \cup Rdi)
  BY <1>5, <1>6, FS_Union
<1>10. \A m \in Pool \cup Clusters \cup Vms \cup Apps \cup Rdi : m[3] \in DOMAIN MachineInfo
  BY <1>1, <1>2, <1>7 DEF WellFormed
<1> QED
  BY <1>3, <1>8, <1>9, <1>10

\* Finitely many machines have finitely many processors.
LEMMA CpusFinite ==
  ASSUME NEW M, IsFiniteSet(M), \A m \in M : m[3] \in DOMAIN MachineInfo
  PROVE  IsFiniteSet(Cpus(M))
<1> DEFINE f == [m \in M |-> {m} \X (1 .. MachineInfo[m[3]].cpus)]
<1>1. \A m \in M : IsFiniteSet(f[m])
  <2> SUFFICES ASSUME NEW m \in M PROVE IsFiniteSet({m} \X (1 .. MachineInfo[m[3]].cpus))
    OBVIOUS
  <2> DEFINE n == MachineInfo[m[3]].cpus
  <2>1. 1 \in Int /\ n \in Int
    BY AdmissionAssumption
  <2>2. IsFiniteSet(1 .. n) /\ IsFiniteSet({m})
    <3> HIDE DEF n
    <3> QED
      BY <2>1, FS_Interval, FS_Singleton
  <2> QED
    BY <2>2, FS_Product
<1>2. \A u \in Cpus(M) : \E m \in M : u \in f[m]
  BY DEF Cpus
<1> HIDE DEF f
<1>3. ElementsOf(f, M, Cpus(M))
  BY <1>1, <1>2 DEF ElementsOf
<1> QED
  BY <1>3, FiniteElements

\* The processors of the deployments that have something.
InUse(E) == UNION {{e} \X Cpus(CountedMachines(wish[e]) \cup FurtherMachines(wish[e])) : e \in E}

LEMMA InUseFinite ==
  ASSUME WishOK, NEW E, E \subseteq DOMAIN wish
  PROVE  IsFiniteSet(InUse(E)) /\ Cardinality(InUse(E)) \in Nat
<1> DEFINE f == [e \in E |-> {e} \X Cpus(CountedMachines(wish[e]) \cup FurtherMachines(wish[e]))]
<1>1. \A e \in E : IsFiniteSet(f[e])
  <2> SUFFICES ASSUME NEW e \in E PROVE IsFiniteSet({e} \X Cpus(CountedMachines(wish[e]) \cup FurtherMachines(wish[e])))
    OBVIOUS
  <2> DEFINE M == CountedMachines(wish[e]) \cup FurtherMachines(wish[e])
  <2>1. WellFormed(wish[e])
    BY DEF WishOK
  <2>2. IsFiniteSet(M) /\ \A m \in M : m[3] \in DOMAIN MachineInfo
    BY <2>1, MachinesFinite
  <2> HIDE DEF M
  <2>3. IsFiniteSet(Cpus(M)) /\ IsFiniteSet({e})
    BY <2>2, CpusFinite, FS_Singleton
  <2>4. IsFiniteSet({e} \X Cpus(M))
    BY <2>3, FS_Product
  <2> QED
    BY <2>4 DEF M
<1>2. \A u \in InUse(E) : \E e \in E : u \in f[e]
  BY DEF InUse
<1>3. IsFiniteSet(E)
  BY FS_Subset DEF WishOK
<1> HIDE DEF f
<1>4. ElementsOf(f, E, InUse(E))
  BY <1>1, <1>2 DEF ElementsOf
<1> QED
  BY <1>3, <1>4, FiniteElements, FS_CardinalityType

\* Fewer deployments use no more.
LEMMA FewerUseLess ==
  ASSUME WishOK, NEW F, F \subseteq DOMAIN wish, NEW E, E \subseteq F
  PROVE  Cardinality(InUse(E)) <= Cardinality(InUse(F))
<1>1. InUse(E) \subseteq InUse(F)
  BY DEF InUse
<1> QED
  BY <1>1, InUseFinite, FS_Subset

-----------------------------------------------------------------------------
(* What the preflight has settled.                                         *)

\* The parts of the preflight that come after each.
Later == [name |-> {"region", "dns", "names", "services", "write"}, region |-> {"dns", "names", "services", "write"},
          dns |-> {"names", "services", "write"}, names |-> {"services", "write"}, services |-> {"write"}]

\* A part that a request has behind it.
Past(d, p) == deploys[d].status = "applying" \/ deploys[d].step \in Later[p]

\* What is said against a request: nothing that fails; that a check could
\* not tell, or that it was passed over.
Clear(checks) == \A c \in checks : c[2] # "fail"

Said(checks, id) == <<id, "warn">> \in checks

SaidOrSkipped(checks, id) == Said(checks, id) \/ <<id, "skipped">> \in checks

\* Another deployment that has been made meanwhile has the name.
TookName(d, n) == \E e \in deploys[d].builders : n \in Made(wish[e])

\* A machine of the type can be made in the zone.
Sound(type, zone) == <<"machine", type, zone>> \notin lacking /\ ~MachineInfo[type].arm

NameSettled == <<"project">> \notin lacking /\ <<"credentials">> \notin lacking

ZonesSettled(a) == \A i \in DOMAIN a.zones : <<"zone", a.zones[i]>> \notin lacking

MachinesSettled(a) ==
    IF a.mode = "gke"
    THEN /\ ~MachineInfo[a.gke.machine].arm
         /\ a.zones = <<>> \/ a.zones[1] = "b" => <<"zone", "b">> \notin lacking /\ Sound(a.gke.machine, "b")
    ELSE \A c \in ToSet(a.clusters), i \in DOMAIN a.zones : Sound(c.machine, a.zones[i])

ApisSettled(d, checks) == \A s \in RequiredServices(wish[d]) : <<"api", s>> \notin lacking \/ Said(checks, "apis")

CpusSettled(d, checks) ==
    \/ Said(checks, "quota") \/ deploys[d].builders # {}
    \/ ~(CpusOf(CountedMachines(wish[d])) > RegionCpus - CpusInUse(d))

DnsSettled(d, checks) ==
    wish[d].mode # "gke" =>
        /\ wish[d].mode = "vm" => <<"dns-zone">> \notin lacking \/ Said(checks, "dns")
        /\ \A n \in PlannedHosts(wish[d]) \cap TakenFor(d) : Said(checks, "dns") \/ Said(checks, "dns_records") \/ TookName(d, n)

NetworkSettled(d, checks) ==
    \A n \in {NetworkName(wish[d])} \cup (IF wish[d].mode = "gke" THEN {GkeName(wish[d])} ELSE {}) :
        n \in TakenFor(d) => Said(checks, "collision") \/ TookName(d, n)

VmsSettled(a) ==
    a.mode # "gke" /\ a.zones # <<>> =>
        /\ \A m \in ToSet(a.vms) : Sound(m, a.zones[1])
        /\ \A app \in ToSet(a.apps) : Sound(app.machine, a.zones[1])

BucketsSettled(d, checks) ==
    wish[d].buckets # <<>> =>
        /\ \A n \in BucketNames(wish[d]) \cap TakenFor(d) : Said(checks, "storage") \/ TookName(d, n)
        /\ <<"api", "storage">> \notin lacking \/ SaidOrSkipped(checks, "storage_api")
        /\ <<"iam", "storage.buckets.create">> \notin lacking \/ Said(checks, "storage_iam")

ServicesSettled(d, checks) ==
    /\ <<"terraform">> \notin lacking
    /\ wish[d].topics # <<>> =>
        /\ <<"api", "pubsub">> \notin lacking \/ SaidOrSkipped(checks, "pubsub_api")
        /\ <<"iam", "pubsub.topics.create">> \notin lacking \/ Said(checks, "pubsub_iam")
    /\ wish[d].sqls # <<>> => <<"api", "sqladmin">> \notin lacking \/ SaidOrSkipped(checks, "sqladmin_api")

Settled(d, p, checks) ==
    CASE p = "name" -> NameSettled
      [] p = "region" -> ApisSettled(d, checks) /\ ZonesSettled(wish[d]) /\ MachinesSettled(wish[d]) /\ CpusSettled(d, checks)
      [] p = "dns" -> DnsSettled(d, checks)
      [] p = "names" -> NetworkSettled(d, checks) /\ VmsSettled(wish[d])
      [] p = "services" -> BucketsSettled(d, checks) /\ ServicesSettled(d, checks)

Foreseen(d, o) == Overtaken(d, o) \/ \E c \in deploys[d].checks : c[2] # "fail" /\ Announces(c[1], o)

\* The parts behind a request are settled unless one has found what fails,
\* which ends it before the record; what made a deployment fail was foreseen.
ForeseenOf(d) ==
    deploys[d].how = "checked" =>
        /\ Clear(deploys[d].checks) => \A p \in DOMAIN CallsOf : Past(d, p) => Settled(d, p, deploys[d].checks)
        /\ deploys[d].step = "write" \/ deploys[d].status = "applying" => Clear(deploys[d].checks)
        /\ deploys[d].status = "failed" => \A o \in deploys[d].trouble \ Unchecked(wish[d]) : Foreseen(d, o)

\* Who stands has only what is his.
ForeseenInv == QuotaInv /\ \A d \in DOMAIN wish : deploys[d].built \subseteq Made(wish[d]) /\ ForeseenOf(d)

-----------------------------------------------------------------------------
(* What each part of the preflight settles, if it finds nothing that fails. *)

\* The zones are all the region's: the first is probed, all are checked.
LEMMA AllZones ==
  ASSUME NEW a, WellFormed(a), NEW out, UsableZones(a, out) = DOMAIN a.zones
  PROVE  /\ a.zones = <<>> => ProbeZone(a, out) = "b"
         /\ a.zones # <<>> => /\ 1 \in DOMAIN a.zones
                              /\ ProbeZone(a, out) = a.zones[1]
                              /\ ZonesToCheck(a, out) = {a.zones[i] : i \in DOMAIN a.zones}
<1>1. CASE a.zones = <<>>
  <2>1. DOMAIN a.zones = {}
    BY <1>1
  <2> QED
    BY <1>1, <2>1 DEF ProbeZone
<1>2. CASE a.zones # <<>>
  <2>1. a.zones \in Seq(ToSet(a.zones))
    BY DEF WellFormed
  <2>2. Len(a.zones) \in Nat /\ Len(a.zones) # 0 /\ DOMAIN a.zones = 1 .. Len(a.zones)
    BY <1>2, <2>1, EmptySeq, LenProperties
  <2>3. 1 \in DOMAIN a.zones /\ DOMAIN a.zones \subseteq Int /\ \A i \in DOMAIN a.zones : 1 <= i
    BY <2>2
  <2>4. Min(DOMAIN a.zones) = 1
    BY <2>3 DEF Min
  <2> QED
    BY <1>2, <2>3, <2>4 DEF ProbeZone, ZonesToCheck
<1> QED
  BY <1>1, <1>2

\* Without a word against them the zones are all the region's.
LEMMA ZonesSettledUsable ==
  ASSUME NEW a, NEW out, "region" \notin out, ZonesSettled(a)
  PROVE  UsableZones(a, out) = DOMAIN a.zones
BY DEF UsableZones, ZonesSettled, Misses

LEMMA NameSettles ==
  ASSUME NEW d, NEW out, NEW S, Checks(d, "name", out) \subseteq S, Clear(S)
  PROVE  Settled(d, "name", S)
<1>1. <<"credentials", "fail">> \notin S /\ <<"project", "fail">> \notin S
  BY DEF Clear
<1>2. CredentialsCheck \subseteq S /\ ProjectCheck(out) \subseteq S
  BY DEF Checks
<1> QED
  BY <1>1, <1>2 DEF CredentialsCheck, ProjectCheck, FailIf, Misses, Settled, NameSettled

LEMMA RegionSettles ==
  ASSUME NEW d, WellFormed(wish[d]), NEW out, NEW S, Checks(d, "region", out) \subseteq S, Clear(S)
  PROVE  Settled(d, "region", S)
<1> DEFINE a == wish[d]
<1>0. WellFormed(a)
  OBVIOUS
<1>1. /\ <<"apis", "fail">> \notin S /\ <<"zones", "fail">> \notin S
      /\ <<"machine_type", "fail">> \notin S /\ <<"quota", "fail">> \notin S
  BY DEF Clear
<1>2. ApisCheck(a, out) \subseteq S /\ ZonesCheck(d, a, out) \subseteq S /\ MachineCheck(a, out) \subseteq S
  BY DEF Checks
<1>3. ApisSettled(d, S)
  <2>1. Said(S, "apis") \/ ~LacksApi(RequiredServices(a))
    BY <1>1, <1>2 DEF ApisCheck, Verified, FailIf, Said
  <2> QED
    BY <2>1 DEF ApisSettled, LacksApi, Misses
<1> HIDE DEF a
<1>4. "region" \notin out
  BY <1>1, <1>2 DEF ZonesCheck
<1>5. UsableZones(a, out) = DOMAIN a.zones /\ CpuCheck(d, a, out) \subseteq S
  BY <1>1, <1>2, <1>4 DEF ZonesCheck, FailIf
<1>6. ZonesSettled(a)
  BY <1>4, <1>5 DEF UsableZones, ZonesSettled, Misses
<1>7. Said(S, "quota") \/ ~(CpusOf(CountedMachines(a)) > RegionCpus - CpusInUse(d))
  BY <1>1, <1>5 DEF CpuCheck, FailIf, Said
<1>8. MachinesSettled(a)
  <2>1. CASE a.mode = "gke"
    <3>1. Runs(a.gke.machine, ProbeZone(a, out), out)
      BY <1>1, <1>2, <2>1 DEF MachineCheck, FailIf
    <3>2. a.zones = <<>> \/ a.zones[1] = "b" => ProbeZone(a, out) = "b"
      BY <1>0, <1>5, AllZones
    <3> QED
      BY <2>1, <3>1, <3>2 DEF MachinesSettled, Runs, GetMachineType, Misses, Sound
  <2>2. CASE a.mode # "gke"
    <3>1. \A c \in ToSet(a.clusters), z \in ZonesToCheck(a, out) : Runs(c.machine, z, out)
      BY <1>1, <1>2, <2>2 DEF MachineCheck, FailIf
    <3>2. ASSUME NEW i \in DOMAIN a.zones PROVE a.zones[i] \in ZonesToCheck(a, out)
      BY <1>5 DEF ZonesToCheck
    <3> QED
      BY <2>2, <3>1, <3>2 DEF MachinesSettled, Runs, GetMachineType, Misses, Sound
  <2> QED
    BY <2>1, <2>2
<1> QED
  BY <1>3, <1>6, <1>7, <1>8 DEF Settled, CpusSettled, a

LEMMA DnsSettles ==
  ASSUME NEW d, NEW out, NEW S, Checks(d, "dns", out) \subseteq S, Clear(S)
  PROVE  Settled(d, "dns", S)
<1> DEFINE a == wish[d]
<1>1. <<"dns", "fail">> \notin S /\ <<"dns_records", "fail">> \notin S
  BY DEF Clear
<1>2. DnsCheck(d, a, out) \subseteq S
  BY DEF Checks
<1> HIDE DEF a
<1> SUFFICES ASSUME a.mode # "gke"
             PROVE  /\ a.mode = "vm" => <<"dns-zone">> \notin lacking \/ Said(S, "dns")
                    /\ \A n \in PlannedHosts(a) \cap TakenFor(d) : Said(S, "dns") \/ Said(S, "dns_records") \/ TookName(d, n)
  BY DEF Settled, DnsSettled, a
<1>3. CASE a.mode = "vm" /\ "dns" \in out
  BY <1>2, <1>3 DEF DnsCheck, Said
<1>4. CASE a.mode = "vm" /\ "dns" \notin out /\ Misses(<<"dns-zone">>)
  BY <1>1, <1>2, <1>4 DEF DnsCheck
<1>5. CASE ~(a.mode = "vm" /\ ("dns" \in out \/ Misses(<<"dns-zone">>)))
  <2>1. Verified("records", out, "dns_records", PlannedHosts(a) \cap TakenFor(d) # {}) \subseteq S
    BY <1>2, <1>5 DEF DnsCheck
  <2>2. Said(S, "dns_records") \/ PlannedHosts(a) \cap TakenFor(d) = {}
    BY <1>1, <2>1 DEF Verified, FailIf, Said
  <2> QED
    BY <1>5, <2>2 DEF Misses
<1> QED
  BY <1>3, <1>4, <1>5

LEMMA NamesSettles ==
  ASSUME NEW d, WellFormed(wish[d]), NEW out, NEW S, Checks(d, "names", out) \subseteq S, Clear(S),
         "region" \notin out, ZonesSettled(wish[d])
  PROVE  Settled(d, "names", S)
<1> DEFINE a == wish[d]
<1>0. WellFormed(a) /\ ZonesSettled(a)
  OBVIOUS
<1>1. <<"collision", "fail">> \notin S /\ <<"app_vms", "fail">> \notin S /\ <<"applications", "fail">> \notin S
  BY DEF Clear
<1>2. CollisionCheck(d, a, out) \subseteq S /\ AppVmsCheck(a, out) \subseteq S /\ ApplicationsCheck(a, out) \subseteq S
  BY DEF Checks
<1>3. NetworkSettled(d, S)
  <2>1. \/ Said(S, "collision")
        \/ ~(NetworkName(a) \in TakenFor(d) \/ (a.mode = "gke" /\ GkeName(a) \in TakenFor(d)))
    BY <1>1, <1>2 DEF CollisionCheck, Verified, FailIf, Said
  <2> QED
    BY <2>1 DEF NetworkSettled
<1> HIDE DEF a
<1>4. VmsSettled(a)
  <2> SUFFICES ASSUME a.mode # "gke", a.zones # <<>>
               PROVE  /\ \A m \in ToSet(a.vms) : Sound(m, a.zones[1])
                      /\ \A app \in ToSet(a.apps) : Sound(app.machine, a.zones[1])
    BY DEF VmsSettled
  <2>1. ProbeZone(a, out) = a.zones[1]
    BY <1>0, AllZones, ZonesSettledUsable
  <2>2. \A m \in ToSet(a.vms) : Runs(m, ProbeZone(a, out), out)
    BY <1>1, <1>2 DEF AppVmsCheck, FailIf
  <2>3. \A app \in ToSet(a.apps) : Runs(app.machine, ProbeZone(a, out), out)
    BY <1>1, <1>2 DEF ApplicationsCheck, FailIf
  <2> QED
    BY <2>1, <2>2, <2>3 DEF Runs, GetMachineType, Misses, Sound
<1> QED
  BY <1>3, <1>4 DEF Settled, a

LEMMA ServicesSettles ==
  ASSUME NEW d, NEW out, NEW S, Checks(d, "services", out) \subseteq S, Clear(S)
  PROVE  Settled(d, "services", S)
<1> DEFINE a == wish[d]
<1>1. /\ <<"storage", "fail">> \notin S /\ <<"storage_api", "fail">> \notin S /\ <<"storage_iam", "fail">> \notin S
      /\ <<"pubsub", "fail">> \notin S /\ <<"pubsub_api", "fail">> \notin S /\ <<"pubsub_iam", "fail">> \notin S
      /\ <<"cloudsql", "fail">> \notin S /\ <<"sqladmin_api", "fail">> \notin S /\ <<"terraform", "fail">> \notin S
  BY DEF Clear
<1>2. /\ StorageCheck(d, a, out) \subseteq S /\ PubsubCheck(a, out) \subseteq S
      /\ CloudSqlCheck(a, out) \subseteq S /\ TerraformCheck \subseteq S
  BY DEF Checks
<1>3. BucketsSettled(d, S)
  <2> SUFFICES ASSUME a.buckets # <<>>
               PROVE  /\ \A n \in BucketNames(a) \cap TakenFor(d) : Said(S, "storage") \/ TookName(d, n)
                      /\ <<"api", "storage">> \notin lacking \/ SaidOrSkipped(S, "storage_api")
                      /\ <<"iam", "storage.buckets.create">> \notin lacking \/ Said(S, "storage_iam")
    BY DEF BucketsSettled
  <2> DEFINE more == IF Connected(a, "storage") THEN {"storage.buckets.setIamPolicy"} ELSE {}
  <2> HIDE DEF a
  <2>1. /\ Verified("buckets", out, "storage", BucketNames(a) \cap TakenFor(d) # {}) \subseteq S
        /\ VerifiedQuietly("serviceusage", out, "storage_api", LacksApi({"storage"})) \subseteq S
        /\ Verified("iam", out, "storage_iam", LacksPermission({"storage.buckets.create"} \cup more)) \subseteq S
    BY <1>1, <1>2 DEF StorageCheck
  <2> HIDE DEF more
  <2>2. Said(S, "storage") \/ BucketNames(a) \cap TakenFor(d) = {}
    BY <1>1, <2>1 DEF Verified, FailIf, Said
  <2>3. SaidOrSkipped(S, "storage_api") \/ ~LacksApi({"storage"})
    BY <1>1, <2>1 DEF VerifiedQuietly, FailIf, SaidOrSkipped
  <2>4. Said(S, "storage_iam") \/ ~LacksPermission({"storage.buckets.create"} \cup more)
    BY <1>1, <2>1 DEF Verified, FailIf, Said
  <2> QED
    BY <2>2, <2>3, <2>4 DEF LacksApi, LacksPermission, Misses
<1> HIDE DEF a
<1>4. a.topics # <<>> =>
        /\ <<"api", "pubsub">> \notin lacking \/ SaidOrSkipped(S, "pubsub_api")
        /\ <<"iam", "pubsub.topics.create">> \notin lacking \/ Said(S, "pubsub_iam")
  <2> SUFFICES ASSUME a.topics # <<>>
               PROVE  /\ <<"api", "pubsub">> \notin lacking \/ SaidOrSkipped(S, "pubsub_api")
                      /\ <<"iam", "pubsub.topics.create">> \notin lacking \/ Said(S, "pubsub_iam")
    OBVIOUS
  <2> DEFINE more == IF Connected(a, "pubsub") THEN {"pubsub.topics.setIamPolicy"} ELSE {}
  <2>1. /\ VerifiedQuietly("serviceusage", out, "pubsub_api", LacksApi({"pubsub"})) \subseteq S
        /\ Verified("iam", out, "pubsub_iam", LacksPermission({"pubsub.topics.create"} \cup more)) \subseteq S
    BY <1>1, <1>2 DEF PubsubCheck
  <2> HIDE DEF more
  <2>2. SaidOrSkipped(S, "pubsub_api") \/ ~LacksApi({"pubsub"})
    BY <1>1, <2>1 DEF VerifiedQuietly, FailIf, SaidOrSkipped
  <2>3. Said(S, "pubsub_iam") \/ ~LacksPermission({"pubsub.topics.create"} \cup more)
    BY <1>1, <2>1 DEF Verified, FailIf, Said
  <2> QED
    BY <2>2, <2>3 DEF LacksApi, LacksPermission, Misses
<1>5. a.sqls # <<>> => <<"api", "sqladmin">> \notin lacking \/ SaidOrSkipped(S, "sqladmin_api")
  <2> SUFFICES ASSUME a.sqls # <<>> PROVE <<"api", "sqladmin">> \notin lacking \/ SaidOrSkipped(S, "sqladmin_api")
    OBVIOUS
  <2> DEFINE services == {"sqladmin"} \cup IF a.private THEN {"servicenetworking"} ELSE {}
  <2>1. VerifiedQuietly("serviceusage", out, "sqladmin_api", LacksApi(services)) \subseteq S
    BY <1>1, <1>2 DEF CloudSqlCheck
  <2>2. "sqladmin" \in services
    OBVIOUS
  <2> HIDE DEF services
  <2>3. SaidOrSkipped(S, "sqladmin_api") \/ ~LacksApi(services)
    BY <1>1, <2>1 DEF VerifiedQuietly, FailIf, SaidOrSkipped
  <2> QED
    BY <2>2, <2>3 DEF LacksApi, Misses
<1>6. <<"terraform">> \notin lacking
  BY <1>1, <1>2 DEF TerraformCheck, FailIf, Misses
<1> QED
  BY <1>3, <1>4, <1>5, <1>6 DEF Settled, ServicesSettled, a

-----------------------------------------------------------------------------
(* What is settled stays so.                                               *)

\* A step that takes nothing back from a deployment, and after which
\* another has more only if it has been made meanwhile.
Steady(d) ==
    /\ wish' = wish /\ lacking' = lacking
    /\ deploys[d].builders \subseteq deploys'[d].builders
    /\ \A n \in TakenFor(d)' : n \in TakenFor(d) \/ \E e \in deploys'[d].builders : n \in Made(wish[e])
    /\ deploys'[d].builders # {} \/ (CpusInUse(d)' \in Nat /\ CpusInUse(d)' <= CpusInUse(d))

\* What others have of a step that only some of those made meanwhile gain by.
LEMMA OthersSteady ==
  ASSUME WishOK, DOMAIN deploys = DOMAIN wish, DOMAIN deploys' = DOMAIN wish, wish' = wish, lacking' = lacking,
         NEW d \in DOMAIN wish, deploys[d].builders \subseteq deploys'[d].builders,
         \A e \in DOMAIN wish \ {d} :
            \/ deploys'[e].built \subseteq deploys[e].built
            \/ e \in deploys'[d].builders /\ deploys'[e].built \subseteq Made(wish[e])
  PROVE  Steady(d)
<1>1. ASSUME NEW n \in TakenFor(d)' PROVE n \in TakenFor(d) \/ \E e \in deploys'[d].builders : n \in Made(wish[e])
  BY <1>1 DEF TakenFor
<1>2. CASE deploys'[d].builders # {}
  BY <1>1, <1>2 DEF Steady
<1>3. CASE deploys'[d].builders = {}
  <2> DEFINE E == {e \in DOMAIN deploys' \ {d} : deploys'[e].built # {}}
             F == {e \in DOMAIN deploys \ {d} : deploys[e].built # {}}
  <2>1. E \subseteq F /\ F \subseteq DOMAIN wish
    BY <1>3
  <2>2. CpusInUse(d) = Cardinality(InUse(F)) /\ CpusInUse(d)' = Cardinality(InUse(E))
    BY DEF CpusInUse, InUse, CountedMachines, FurtherMachines, ClusterMachines, Cpus
  <2> HIDE DEF E, F
  <2>3. Cardinality(InUse(E)) <= Cardinality(InUse(F)) /\ Cardinality(InUse(E)) \in Nat
    BY <2>1, FewerUseLess, InUseFinite
  <2> QED
    BY <1>1, <2>2, <2>3 DEF Steady
<1> QED
  BY <1>2, <1>3

\* Numbers of processors.
LEMMA CpusAreNumbers ==
  ASSUME WishOK, DOMAIN deploys = DOMAIN wish, NEW d \in DOMAIN wish
  PROVE  CpusInUse(d) \in Nat /\ CpusOf(CountedMachines(wish[d])) \in Nat
<1> DEFINE F == {e \in DOMAIN deploys \ {d} : deploys[e].built # {}}
           C == CountedMachines(wish[d])
           M == C \cup FurtherMachines(wish[d])
<1>1. CpusInUse(d) = Cardinality(InUse(F)) /\ F \subseteq DOMAIN wish
  BY DEF CpusInUse, InUse
<1>2. WellFormed(wish[d])
  BY DEF WishOK
<1>3. IsFiniteSet(M) /\ (\A m \in M : m[3] \in DOMAIN MachineInfo) /\ C \subseteq M
  BY <1>2, MachinesFinite
<1> HIDE DEF F, M, C
<1>4. CpusInUse(d) \in Nat
  BY <1>1, InUseFinite
<1>5. IsFiniteSet(C) /\ \A m \in C : m[3] \in DOMAIN MachineInfo
  BY <1>3, FS_Subset
<1>6. CpusOf(C) \in Nat
  BY <1>5, CpusFinite, FS_CardinalityType DEF CpusOf
<1> QED
  BY <1>4, <1>6 DEF C

\* A part that is settled stays settled, whatever more is said.
LEMMA SettledStays ==
  ASSUME WishOK, DOMAIN deploys = DOMAIN wish, NEW d \in DOMAIN wish, Steady(d),
         NEW p \in DOMAIN CallsOf, NEW S, NEW T, S \subseteq T, Settled(d, p, S)
  PROVE  Settled(d, p, T)'
<1> DEFINE a == wish[d]
<1>1. wish' = wish /\ lacking' = lacking /\ \A id : (Said(S, id) => Said(T, id)) /\ (SaidOrSkipped(S, id) => SaidOrSkipped(T, id))
  BY DEF Steady, Said, SaidOrSkipped
<1>2. \A n : TookName(d, n)' <=> \E e \in deploys'[d].builders : n \in Made(wish[e])
  BY <1>1 DEF TookName
<1>3. /\ \A n : TookName(d, n) => TookName(d, n)'
      /\ \A n : n \in TakenFor(d)' => n \in TakenFor(d) \/ TookName(d, n)'
  BY <1>2 DEF Steady, TookName
<1>4. p \in {"name", "region", "dns", "names", "services"}
  BY DEF CallsOf
<1>5. CASE p = "name"
  BY <1>1, <1>5 DEF Settled, NameSettled
<1>6. CASE p = "region"
  <2>1. ApisSettled(d, S) /\ ZonesSettled(a) /\ MachinesSettled(a) /\ CpusSettled(d, S)
    BY <1>6 DEF Settled
  <2>2. ApisSettled(d, T)'
    BY <1>1, <2>1 DEF ApisSettled
  <2>3. ZonesSettled(wish[d])' /\ MachinesSettled(wish[d])'
    BY <1>1, <2>1 DEF ZonesSettled, MachinesSettled, Sound
  <2>4. CpusSettled(d, T)'
    <3> DEFINE n == CpusOf(CountedMachines(a))
    <3>1. n \in Nat /\ CpusInUse(d) \in Nat /\ RegionCpus \in Nat
      BY CpusAreNumbers, AdmissionAssumption
    <3>2. CpusSettled(d, T)' <=> \/ Said(T, "quota") \/ deploys'[d].builders # {}
                                \/ ~(n > RegionCpus - CpusInUse(d)')
      BY <1>1 DEF CpusSettled
    <3>3. Said(S, "quota") \/ deploys[d].builders # {} \/ ~(n > RegionCpus - CpusInUse(d))
      BY <2>1 DEF CpusSettled
    <3> HIDE DEF n
    <3> QED
      BY <1>1, <3>1, <3>2, <3>3 DEF Steady
  <2> QED
    BY <1>6, <2>2, <2>3, <2>4 DEF Settled
<1>7. CASE p = "dns"
  <2>1. DnsSettled(d, S)
    BY <1>7 DEF Settled
  <2>2. DnsSettled(d, T)'
    BY <1>1, <1>3, <2>1 DEF DnsSettled
  <2> QED
    BY <1>7, <2>2 DEF Settled
<1>8. CASE p = "names"
  <2>1. NetworkSettled(d, S) /\ VmsSettled(a)
    BY <1>8 DEF Settled
  <2>2. NetworkSettled(d, T)'
    BY <1>1, <1>3, <2>1 DEF NetworkSettled
  <2>3. VmsSettled(wish[d])'
    BY <1>1, <2>1 DEF VmsSettled, Sound
  <2> QED
    BY <1>8, <2>2, <2>3 DEF Settled
<1>9. CASE p = "services"
  <2>1. BucketsSettled(d, S) /\ ServicesSettled(d, S)
    BY <1>9 DEF Settled
  <2>2. BucketsSettled(d, T)'
    BY <1>1, <1>3, <2>1 DEF BucketsSettled
  <2>3. ServicesSettled(d, T)'
    BY <1>1, <2>1 DEF ServicesSettled
  <2> QED
    BY <1>9, <2>2, <2>3 DEF Settled
<1> QED
  BY <1>4, <1>5, <1>6, <1>7, <1>8, <1>9

-----------------------------------------------------------------------------
(* What makes terraform fail.                                              *)

\* Where and of what type a machine is made.
LEMMA MachineMade ==
  ASSUME NEW a, WellFormed(a), NEW m \in MachinesMade(a)
  PROVE  \/ a.mode = "gke" /\ m = <<a.gke.machine, "b">>
         \/ /\ a.mode # "gke" /\ a.zones # <<>>
            /\ \E k, type :
                /\ k \in DOMAIN a.zones
                /\ m = <<type, a.zones[k]>>
                /\ \/ \E c \in ToSet(a.clusters) : type = c.machine
                   \/ k = 1 /\ \/ type \in ToSet(a.vms)
                               \/ \E app \in ToSet(a.apps) : type = app.machine
                               \/ \E r \in a.rdi : type = r.machine
<1>1. CASE a.mode = "gke"
  BY <1>1 DEF MachinesMade
<1>2. CASE a.mode # "gke"
  <2>0. a.zones # <<>>
    BY <1>2 DEF MachinesMade
  <2>1. a.zones \in Seq(ToSet(a.zones))
    BY DEF WellFormed
  <2>2. Len(a.zones) \in Nat /\ Len(a.zones) # 0 /\ DOMAIN a.zones = 1 .. Len(a.zones)
    BY <2>0, <2>1, EmptySeq, LenProperties
  <2>3. 1 \in DOMAIN a.zones
    BY <2>2
  <2>4. \/ \E c \in ToSet(a.clusters) : \E n \in 0 .. (c.nodes - 1) : m = <<c.machine, a.zones[(n % Len(a.zones)) + 1]>>
        \/ \E x \in FurtherMachines(a) \cup {x \in CountedMachines(a) : x[1] = "vm"} : m = <<x[3], a.zones[1]>>
    BY <1>2, <2>0 DEF MachinesMade
  <2>5. CASE \E c \in ToSet(a.clusters) : \E n \in 0 .. (c.nodes - 1) : m = <<c.machine, a.zones[(n % Len(a.zones)) + 1]>>
    <3>1. PICK c \in ToSet(a.clusters) : \E n \in 0 .. (c.nodes - 1) : m = <<c.machine, a.zones[(n % Len(a.zones)) + 1]>>
      BY <2>5
    <3>2. c.nodes \in Nat
      BY DEF WellFormed
    <3>3. PICK n \in 0 .. (c.nodes - 1) : m = <<c.machine, a.zones[(n % Len(a.zones)) + 1]>>
      BY <3>1
    <3>4. n \in Nat
      BY <3>2
    <3>5. (n % Len(a.zones)) + 1 \in DOMAIN a.zones
      <4> DEFINE l == Len(a.zones)
                 r == n % l
      <4>1. r \in 0 .. (l - 1)
        <5>1. n \in Nat /\ l \in Nat /\ l > 0
          BY <2>2, <3>4
        <5> HIDE DEF l
        <5> QED
          BY <5>1
      <4> HIDE DEF r
      <4>2. r + 1 \in 1 .. l
        BY <2>2, <4>1
      <4> QED
        BY <2>2, <4>2 DEF r
    <3> QED
      BY <1>2, <2>0, <3>3, <3>5
  <2>6. CASE \E x \in FurtherMachines(a) \cup {x \in CountedMachines(a) : x[1] = "vm"} : m = <<x[3], a.zones[1]>>
    <3>1. PICK x \in FurtherMachines(a) \cup {x \in CountedMachines(a) : x[1] = "vm"} : m = <<x[3], a.zones[1]>>
      BY <2>6
    <3>2. CASE x \in FurtherMachines(a)
      <4>1. \/ \E i \in DOMAIN a.apps : x[3] = a.apps[i].machine
            \/ \E r \in a.rdi : x[3] = r.machine
        BY <3>2, <1>2 DEF FurtherMachines
      <4>2. (\E app \in ToSet(a.apps) : x[3] = app.machine) \/ \E r \in a.rdi : x[3] = r.machine
        BY <4>1 DEF ToSet
      <4> QED
        BY <1>2, <2>0, <2>3, <3>1, <4>2
    <3>3. CASE x \in CountedMachines(a) /\ x[1] = "vm"
      <4>1. \E i \in DOMAIN a.vms : x[3] = a.vms[i]
        BY <3>3, <1>2 DEF CountedMachines, ClusterMachines
      <4>2. x[3] \in ToSet(a.vms)
        BY <4>1 DEF ToSet
      <4> QED
        BY <1>2, <2>0, <2>3, <3>1, <4>2
    <3> QED
      BY <3>1, <3>2, <3>3
  <2> QED
    BY <2>4, <2>5, <2>6
<1> QED
  BY <1>1, <1>2

\* Such a machine is found sound, or is one that nobody looks for.
LEMMA MachineForeseen ==
  ASSUME NEW a, WellFormed(a), ZonesSettled(a), MachinesSettled(a), VmsSettled(a), NEW m \in MachinesMade(a)
  PROVE  /\ <<"zone", m[2]>> \in lacking => <<"zone", m[2]>> \in Unchecked(a)
         /\ <<"machine", m[1], m[2]>> \in lacking => <<"machine", m[1], m[2]>> \in Unchecked(a)
         /\ MachineInfo[m[1]].arm => <<"arm", m[1]>> \in Unchecked(a)
<1>1. CASE a.mode = "gke" /\ m = <<a.gke.machine, "b">>
  BY <1>1 DEF MachinesSettled, Sound, Unchecked
<1>2. CASE a.mode # "gke" /\ a.zones # <<>>
            /\ \E k, type :
                /\ k \in DOMAIN a.zones
                /\ m = <<type, a.zones[k]>>
                /\ \/ \E c \in ToSet(a.clusters) : type = c.machine
                   \/ k = 1 /\ \/ type \in ToSet(a.vms)
                               \/ \E app \in ToSet(a.apps) : type = app.machine
                               \/ \E r \in a.rdi : type = r.machine
  <2>1. PICK k, type :
                /\ k \in DOMAIN a.zones
                /\ m = <<type, a.zones[k]>>
                /\ \/ \E c \in ToSet(a.clusters) : type = c.machine
                   \/ k = 1 /\ \/ type \in ToSet(a.vms)
                               \/ \E app \in ToSet(a.apps) : type = app.machine
                               \/ \E r \in a.rdi : type = r.machine
    BY <1>2
  <2>2. m[1] = type /\ m[2] = a.zones[k] /\ <<"zone", a.zones[k]>> \notin lacking
    BY <2>1 DEF ZonesSettled
  <2>3. CASE \E r \in a.rdi : type = r.machine
    <3>1. a.zones[k] \in ToSet(a.zones)
      BY <2>1 DEF ToSet
    <3>2. PICK r \in a.rdi : type = r.machine
      BY <2>3
    <3>3. <<"machine", type, a.zones[k]>> \in Unchecked(a) /\ <<"arm", type>> \in Unchecked(a)
      BY <3>1, <3>2 DEF Unchecked
    <3> QED
      BY <2>2, <3>3
  <2>4. CASE ~\E r \in a.rdi : type = r.machine
    <3>1. Sound(type, a.zones[k])
      BY <1>2, <2>1, <2>4 DEF MachinesSettled, VmsSettled
    <3> QED
      BY <2>2, <3>1 DEF Sound
  <2> QED
    BY <2>3, <2>4
<1> QED
  BY <1>1, <1>2, MachineMade

\* What is settled leaves only what is foreseen.
LEMMA TroubleForeseen ==
  ASSUME WishOK, NEW d \in DOMAIN wish, NEW S, S = deploys[d].checks, Clear(S),
         \A p \in DOMAIN CallsOf : Settled(d, p, S),
         NEW o \in Trouble(d), o \notin Unchecked(wish[d])
  PROVE  Foreseen(d, o)
<1> DEFINE a == wish[d]
<1>0. WellFormed(a)
  BY DEF WishOK
<1>1. /\ NameSettled
      /\ ApisSettled(d, S) /\ ZonesSettled(a) /\ MachinesSettled(a) /\ CpusSettled(d, S)
      /\ DnsSettled(d, S)
      /\ NetworkSettled(d, S) /\ VmsSettled(a)
      /\ BucketsSettled(d, S) /\ ServicesSettled(d, S)
  <2>1. /\ Settled(d, "name", S) /\ Settled(d, "region", S) /\ Settled(d, "dns", S)
        /\ Settled(d, "names", S) /\ Settled(d, "services", S)
    BY DEF CallsOf
  <2> QED
    BY <2>1 DEF Settled
<1>2. ASSUME NEW id, SaidOrSkipped(S, id), Announces(id, o) PROVE Foreseen(d, o)
  <2>1. PICK c \in S : c[1] = id /\ c[2] # "fail"
    BY <1>2 DEF SaidOrSkipped, Said
  <2> QED
    BY <1>2, <2>1 DEF Foreseen
<1>3. ASSUME NEW id, Said(S, id), Announces(id, o) PROVE Foreseen(d, o)
  BY <1>2, <1>3 DEF SaidOrSkipped
<1>4. CASE o \in Needs(a) \cap lacking
  <2>1. o \notin {<<"project">>, <<"credentials">>, <<"terraform">>}
    BY <1>1, <1>4 DEF NameSettled, ServicesSettled
  <2>2. ASSUME NEW s, o = <<"api", s>>,
                \/ s \in RequiredServices(a)
                \/ s = "storage" /\ a.buckets # <<>>
                \/ s = "pubsub" /\ a.topics # <<>>
                \/ s = "sqladmin" /\ a.sqls # <<>>
        PROVE  Foreseen(d, o)
    <3>1. \/ Said(S, "apis")
          \/ s = "storage" /\ SaidOrSkipped(S, "storage_api")
          \/ s = "pubsub" /\ SaidOrSkipped(S, "pubsub_api")
          \/ s = "sqladmin" /\ SaidOrSkipped(S, "sqladmin_api")
      BY <1>1, <1>4, <2>2 DEF ApisSettled, BucketsSettled, ServicesSettled
    <3> QED
      BY <1>2, <1>3, <2>2, <3>1 DEF Announces, ApiChecks
  <2>3. ASSUME NEW p, o = <<"iam", p>>,
                \/ p = "storage.buckets.create" /\ a.buckets # <<>>
                \/ p = "pubsub.topics.create" /\ a.topics # <<>>
        PROVE  Foreseen(d, o)
    <3>1. Said(S, "storage_iam") \/ Said(S, "pubsub_iam")
      BY <1>1, <1>4, <2>3 DEF BucketsSettled, ServicesSettled
    <3> QED
      BY <1>3, <2>3, <3>1 DEF Announces
  <2>4. ASSUME a.mode = "vm", o = <<"dns-zone">> PROVE Foreseen(d, o)
    <3>1. Said(S, "dns")
      BY <1>1, <1>4, <2>4 DEF DnsSettled
    <3> QED
      BY <1>3, <2>4, <3>1 DEF Announces
  <2>5. ASSUME NEW m \in MachinesMade(a), o = <<"zone", m[2]>> \/ o = <<"machine", m[1], m[2]>> PROVE Foreseen(d, o)
    BY <1>0, <1>1, <1>4, <2>5, MachineForeseen
  <2>6. \/ \E s : /\ o = <<"api", s>>
                  /\ \/ s \in RequiredServices(a)
                     \/ s = "storage" /\ a.buckets # <<>>
                     \/ s = "pubsub" /\ a.topics # <<>>
                     \/ s = "sqladmin" /\ a.sqls # <<>>
        \/ \E p : /\ o = <<"iam", p>>
                  /\ \/ p = "storage.buckets.create" /\ a.buckets # <<>>
                     \/ p = "pubsub.topics.create" /\ a.topics # <<>>
        \/ a.mode = "vm" /\ o = <<"dns-zone">>
        \/ \E m \in MachinesMade(a) : o = <<"zone", m[2]>> \/ o = <<"machine", m[1], m[2]>>
    <3> HIDE DEF a
    <3> QED
      BY <1>4, <2>1 DEF Needs
  <2> QED
    BY <2>2, <2>3, <2>4, <2>5, <2>6
<1>5. CASE o \in {<<"name", n>> : n \in Made(a) \cap TakenFor(d)}
  <2>1. PICK n \in Made(a) \cap TakenFor(d) : o = <<"name", n>>
    BY <1>5
  <2>2. n \notin FurtherHosts(a) /\ n \notin FurtherNames(a)
    BY <2>1 DEF Unchecked
  <2>3. ASSUME TookName(d, n) PROVE Foreseen(d, o)
    BY <2>1, <2>3 DEF TookName, Foreseen, Overtaken
  <2>4. CASE n = NetworkName(a) \/ (a.mode = "gke" /\ n = GkeName(a))
    <3>1. Said(S, "collision") \/ TookName(d, n)
      BY <1>1, <2>1, <2>4 DEF NetworkSettled
    <3>2. n[1] \in {"vpc", "gke"}
      BY <2>4 DEF NetworkName, GkeName
    <3> QED
      BY <1>3, <2>1, <2>3, <3>1, <3>2 DEF Announces
  <2>5. CASE n \in BucketNames(a)
    <3>1. a.buckets # <<>>
      BY <2>5 DEF BucketNames, ToSet
    <3>2. Said(S, "storage") \/ TookName(d, n)
      BY <1>1, <2>1, <2>5, <3>1 DEF BucketsSettled
    <3>3. n[1] = "bucket"
      BY <2>5 DEF BucketNames
    <3> QED
      BY <1>3, <2>1, <2>3, <3>2, <3>3 DEF Announces
  <2>6. CASE a.mode # "gke" /\ n \in PlannedHosts(a)
    <3>1. Said(S, "dns") \/ Said(S, "dns_records") \/ TookName(d, n)
      BY <1>1, <2>1, <2>6 DEF DnsSettled
    <3>2. n[1] = "dns"
      <4>1. CASE \E i \in DOMAIN a.clusters : n \in ClusterHosts(a, i)
        <5>1. PICK i \in DOMAIN a.clusters : n \in ClusterHosts(a, i)
          BY <4>1
        <5>2. \E x : n = <<"dns", x>>
          BY <5>1, Zenon DEF ClusterHosts
        <5> QED
          BY <5>2
      <4>2. CASE n \in {VmHost(a, "app", i) : i \in DOMAIN a.vms}
        BY <4>2 DEF VmHost
      <4> QED
        BY <2>6, <4>1, <4>2 DEF PlannedHosts
    <3> QED
      BY <1>3, <2>1, <2>3, <3>1, <3>2 DEF Announces
  <2> QED
    BY <2>1, <2>2, <2>4, <2>5, <2>6 DEF Made
<1>6. CASE o \in {<<"arm", m[1]>> : m \in {m \in MachinesMade(a) : MachineInfo[m[1]].arm}}
  BY <1>0, <1>1, <1>6, MachineForeseen
<1>7. CASE o = <<"cpus">> /\ CpusOf(CountedMachines(a) \cup FurtherMachines(a)) > RegionCpus - CpusInUse(d)
  <2>1. FurtherMachines(a) = {}
    BY <1>7 DEF Unchecked
  <2>2. CountedMachines(a) \cup FurtherMachines(a) = CountedMachines(a)
    BY <2>1
  <2>3. Said(S, "quota") \/ deploys[d].builders # {}
    BY <1>1, <1>7, <2>2 DEF CpusSettled
  <2>4. CASE deploys[d].builders # {}
    BY <1>7, <2>4 DEF Foreseen, Overtaken
  <2>5. CASE Said(S, "quota")
    BY <1>3, <1>7, <2>5 DEF Announces
  <2> QED
    BY <2>3, <2>4, <2>5
<1>8. o # <<"lb">> /\ o # <<"zones">>
  BY DEF Unchecked
<1> QED
  BY <1>4, <1>5, <1>6, <1>7, <1>8 DEF Trouble

-----------------------------------------------------------------------------
(* The steps.                                                              *)

\* Who has nothing behind him, or was never checked.
LEMMA NothingToForesee ==
  ASSUME NEW d, \/ deploys'[d].how # "checked"
                \/ deploys'[d].step \in {"idle", "quota", "name"} /\ deploys'[d].status \notin {"applying", "failed"}
  PROVE  ForeseenOf(d)'
<1>1. CASE deploys'[d].how # "checked"
  BY <1>1 DEF ForeseenOf
<1>2. CASE deploys'[d].step \in {"idle", "quota", "name"} /\ deploys'[d].status \notin {"applying", "failed"}
  <2>1. \A p \in DOMAIN CallsOf : deploys'[d].step \notin Later[p]
    BY <1>2 DEF CallsOf, Later
  <2> QED
    BY <1>2, <2>1 DEF ForeseenOf, Past
<1> QED
  BY <1>1, <1>2

\* Another deployment moves: what is settled here is still settled, if the
\* other counts as made meanwhile when it has gained.
LEMMA BystanderKeeps ==
  ASSUME ForeseenInv, wish' = wish, lacking' = lacking, DOMAIN deploys' = DOMAIN wish, NEW d \in DOMAIN wish,
         deploys'[d].how = deploys[d].how, deploys'[d].status = deploys[d].status, deploys'[d].step = deploys[d].step,
         deploys'[d].checks = deploys[d].checks, deploys'[d].trouble = deploys[d].trouble,
         deploys[d].builders \subseteq deploys'[d].builders,
         deploys[d].step # "idle" \/ deploys[d].status = "applying" =>
            \A e \in DOMAIN wish \ {d} :
                \/ deploys'[e].built \subseteq deploys[e].built
                \/ e \in deploys'[d].builders /\ deploys'[e].built \subseteq Made(wish[e])
  PROVE  ForeseenOf(d)'
<1>1. ForeseenOf(d) /\ WishOK /\ DOMAIN deploys = DOMAIN wish
  BY DEF ForeseenInv, QuotaInv, EntriesOK
<1>2. PICK S : S = deploys[d].checks
  OBVIOUS
<1>3. S = deploys'[d].checks
  BY <1>2
<1>4. ASSUME NEW o, Foreseen(d, o) PROVE Foreseen(d, o)'
  BY <1>4 DEF Foreseen, Overtaken
<1>5. ASSUME deploys[d].how = "checked", NEW p \in DOMAIN CallsOf, Past(d, p)', Clear(S) PROVE Settled(d, p, S)'
  <2>1. Past(d, p) /\ "idle" \notin Later[p]
    BY <1>5 DEF CallsOf, Later, Past
  <2>2. Steady(d)
    BY <1>1, <2>1, OthersSteady DEF Past
  <2>3. Settled(d, p, S)
    BY <1>1, <1>2, <1>5, <2>1 DEF ForeseenOf
  <2> QED
    BY <1>1, <2>2, <2>3, SettledStays
<1>6. \A p : Settled(d, p, S)' => Settled(d, p, deploys[d].checks)'
  BY <1>3
<1>7. deploys[d].how = "checked" =>
        /\ deploys[d].step = "write" \/ deploys[d].status = "applying" => Clear(S)
        /\ deploys[d].status = "failed" => \A o \in deploys[d].trouble \ Unchecked(wish[d]) : Foreseen(d, o)
  BY <1>1, <1>2 DEF ForeseenOf
<1> QED
  BY <1>3, <1>4, <1>5, <1>6, <1>7 DEF ForeseenOf

\* Everybody's part of the invariant but the quota's.
AllForeseen == \A d \in DOMAIN wish : deploys[d].built \subseteq Made(wish[d]) /\ ForeseenOf(d)

\* One deployment moves, and gains nothing.
LEMMA TurnKeeps ==
  ASSUME ForeseenInv, NEW d \in DOMAIN wish, NEW r, Turn(d, r), wish' = wish, lacking' = lacking,
         r.built \subseteq deploys[d].built, ForeseenOf(d)'
  PROVE  AllForeseen'
<1>1. /\ DOMAIN deploys = DOMAIN wish /\ DOMAIN deploys' = DOMAIN wish
      /\ deploys'[d] = r /\ \A x \in DOMAIN wish \ {d} : deploys'[x] = deploys[x]
  BY DEF ForeseenInv, QuotaInv, EntriesOK, Turn
<1>2. \A x \in DOMAIN wish : deploys'[x].built \subseteq deploys[x].built /\ deploys[x].built \subseteq Made(wish[x])
  BY <1>1 DEF ForeseenInv
<1>3. ASSUME NEW x \in DOMAIN wish, x # d PROVE ForeseenOf(x)'
  <2>1. deploys'[x] = deploys[x]
    BY <1>1, <1>3
  <2> QED
    BY <1>1, <1>2, <2>1, BystanderKeeps
<1> QED
  BY <1>2, <1>3 DEF AllForeseen

\* One deployment gets its record.
LEMMA JoinsKeeps ==
  ASSUME ForeseenInv, NEW d \in DOMAIN wish, NEW how, Joins(d, how), wish' = wish, lacking' = lacking, ForeseenOf(d)'
  PROVE  AllForeseen'
<1>1. /\ DOMAIN deploys = DOMAIN wish /\ DOMAIN deploys' = DOMAIN wish
      /\ \A x \in DOMAIN wish : EntryOK(deploys[x]) /\ deploys[x].built \subseteq Made(wish[x])
  BY DEF ForeseenInv, QuotaInv, EntriesOK, Joins
<1>2. ASSUME NEW x \in DOMAIN wish, x # d
      PROVE  /\ deploys'[x].how = deploys[x].how /\ deploys'[x].status = deploys[x].status
             /\ deploys'[x].step = deploys[x].step /\ deploys'[x].checks = deploys[x].checks
             /\ deploys'[x].trouble = deploys[x].trouble /\ deploys'[x].builders = deploys[x].builders
             /\ deploys'[x].built = deploys[x].built
  <2> DEFINE j == IF deploys[x].step = "idle" THEN deploys[x].joined ELSE deploys[x].joined \cup {d}
  <2>1. deploys'[x] = [deploys[x] EXCEPT !.joined = j] /\ DOMAIN deploys[x] = DOMAIN Unasked
    BY <1>1, <1>2 DEF Joins, EntryOK
  <2> HIDE DEF j
  <2> QED
    BY <2>1 DEF Unasked
<1>3. deploys'[d].built = deploys[d].built
  <2>1. /\ deploys'[d] = [deploys[d] EXCEPT !.status = "applying", !.step = "idle", !.how = how]
        /\ DOMAIN deploys[d] = DOMAIN Unasked
    BY <1>1 DEF Joins, EntryOK
  <2> QED
    BY <2>1 DEF Unasked
<1>4. ASSUME NEW x \in DOMAIN wish, x # d PROVE ForeseenOf(x)'
  <2>1. \A e \in DOMAIN wish \ {x} : deploys'[e].built \subseteq deploys[e].built
    BY <1>2, <1>3
  <2> QED
    BY <1>1, <1>2, <1>4, <2>1, BystanderKeeps
<1> QED
  BY <1>1, <1>2, <1>3, <1>4 DEF AllForeseen

\* Terraform is done with one deployment: the others that are at it know.
LEMMA ResultKeeps ==
  ASSUME ForeseenInv, NEW d \in DOMAIN wish, NEW b, NEW trouble, NEW status, ApplyResult(d, b, trouble, status),
         wish' = wish, lacking' = lacking, b \subseteq Made(wish[d]), ForeseenOf(d)'
  PROVE  AllForeseen'
<1>1. /\ DOMAIN deploys = DOMAIN wish /\ DOMAIN deploys' = DOMAIN wish
      /\ \A x \in DOMAIN wish : EntryOK(deploys[x]) /\ deploys[x].built \subseteq Made(wish[x])
  BY DEF ForeseenInv, QuotaInv, EntriesOK, ApplyResult
<1>2. ASSUME NEW x \in DOMAIN wish, x # d
      PROVE  /\ deploys'[x].how = deploys[x].how /\ deploys'[x].status = deploys[x].status
             /\ deploys'[x].step = deploys[x].step /\ deploys'[x].checks = deploys[x].checks
             /\ deploys'[x].trouble = deploys[x].trouble /\ deploys'[x].built = deploys[x].built
             /\ deploys[x].builders \subseteq deploys'[x].builders
             /\ deploys[x].step # "idle" \/ deploys[x].status = "applying" => d \in deploys'[x].builders
  <2> DEFINE k == IF deploys[x].step = "idle" /\ deploys[x].status # "applying" THEN deploys[x].builders
                  ELSE deploys[x].builders \cup {d}
  <2>1. deploys'[x] = [deploys[x] EXCEPT !.builders = k] /\ DOMAIN deploys[x] = DOMAIN Unasked
    BY <1>1, <1>2 DEF ApplyResult, EntryOK
  <2>2. deploys[x].builders \subseteq k /\ (deploys[x].step # "idle" \/ deploys[x].status = "applying" => d \in k)
    OBVIOUS
  <2> HIDE DEF k
  <2> QED
    BY <2>1, <2>2 DEF Unasked
<1>3. deploys'[d].built = b
  <2>1. /\ deploys'[d] = [deploys[d] EXCEPT !.status = status, !.built = b, !.trouble = trouble]
        /\ DOMAIN deploys[d] = DOMAIN Unasked
    BY <1>1 DEF ApplyResult, EntryOK
  <2> QED
    BY <2>1 DEF Unasked
<1>4. ASSUME NEW x \in DOMAIN wish, x # d PROVE ForeseenOf(x)'
  <2>1. deploys[x].step # "idle" \/ deploys[x].status = "applying" =>
          \A e \in DOMAIN wish \ {x} :
             \/ deploys'[e].built \subseteq deploys[e].built
             \/ e \in deploys'[x].builders /\ deploys'[e].built \subseteq Made(wish[e])
    BY <1>2, <1>3, <1>4
  <2> QED
    BY <1>1, <1>2, <1>4, <2>1, BystanderKeeps
<1> QED
  BY <1>1, <1>2, <1>3, <1>4 DEF AllForeseen

\* A part of the preflight.
LEMMA ChecksKeep ==
  ASSUME ForeseenInv, NEW d \in DOMAIN wish, deploys[d].step \in DOMAIN CallsOf, RunChecks(d)
  PROVE  AllForeseen'
<1>0. /\ EntryOK(deploys[d]) /\ WishOK /\ WellFormed(wish[d]) /\ ForeseenOf(d)
      /\ DOMAIN deploys = DOMAIN wish /\ DOMAIN deploys' = DOMAIN wish
  BY DEF ForeseenInv, QuotaInv, EntriesOK, WishOK, RunChecks, Turn
<1>1. PICK p : p = deploys[d].step
  OBVIOUS
<1>2. p \in {"name", "region", "dns", "names", "services"} /\ p \in DOMAIN CallsOf
  BY <1>1 DEF CallsOf
<1>3. wish' = wish /\ lacking' = lacking
  BY DEF RunChecks
<1>4. PICK out, S :
        /\ out \in SUBSET CallsOf[p] /\ S = deploys[d].checks \cup Checks(d, p, out)
        /\ Turn(d, IF (\E c \in S : c[2] = "fail") /\ p \in {"name", "services"}
                   THEN [deploys[d] EXCEPT !.step = "idle", !.checks = {}]
                   ELSE [deploys[d] EXCEPT !.step = StepAfter[p], !.checks = S])
  BY <1>1 DEF RunChecks
<1>5. CASE Turn(d, [deploys[d] EXCEPT !.step = "idle", !.checks = {}])
  <2> DEFINE r == [deploys[d] EXCEPT !.step = "idle", !.checks = {}]
  <2>1. r.step = "idle" /\ r.status = deploys[d].status /\ r.built = deploys[d].built
    BY <1>0 DEF EntryOK, Unasked
  <2>2. Turn(d, r)
    BY <1>5
  <2> HIDE DEF r
  <2>3. deploys'[d] = r
    BY <1>0, <2>2 DEF Turn
  <2>4. r.status \notin {"applying", "failed"}
    BY <1>0, <1>1, <1>2, <2>1 DEF EntryOK
  <2> QED
    BY <1>3, <2>1, <2>2, <2>3, <2>4, NothingToForesee, TurnKeeps
<1>6. CASE /\ Turn(d, [deploys[d] EXCEPT !.step = StepAfter[p], !.checks = S])
           /\ (\E c \in S : c[2] = "fail") => p \notin {"name", "services"}
  <2> DEFINE r == [deploys[d] EXCEPT !.step = StepAfter[p], !.checks = S]
  <2>1. /\ r.step = StepAfter[p] /\ r.checks = S /\ r.status = deploys[d].status /\ r.how = deploys[d].how
        /\ r.built = deploys[d].built /\ r.builders = deploys[d].builders
    BY <1>0 DEF EntryOK, Unasked
  <2>2. Turn(d, r)
    BY <1>6
  <2> HIDE DEF r
  <2>3. deploys'[d] = r /\ \A x \in DOMAIN wish \ {d} : deploys'[x] = deploys[x]
    BY <1>0, <2>2 DEF Turn
  <2>4. r.status \notin {"applying", "failed"} /\ deploys[d].status \notin {"applying", "failed"}
    BY <1>0, <1>1, <1>2, <2>1 DEF EntryOK
  <2>5. Steady(d)
    BY <1>0, <1>3, <2>1, <2>3, OthersSteady
  <2>6. ASSUME r.how = "checked", Clear(S), NEW q \in DOMAIN CallsOf, r.step \in Later[q] PROVE Settled(d, q, S)'
    <3>1. q = p \/ p \in Later[q]
      BY <1>2, <2>1, <2>6 DEF CallsOf, Later, StepAfter
    <3>2. CASE p \in Later[q]
      <4>1. PICK T : T = deploys[d].checks
        OBVIOUS
      <4>2. T \subseteq S /\ Clear(T)
        BY <1>4, <2>6, <4>1 DEF Clear
      <4>3. Settled(d, q, T)
        BY <1>0, <1>1, <2>1, <2>6, <3>2, <4>1, <4>2 DEF ForeseenOf, Past
      <4> QED
        BY <1>0, <2>5, <2>6, <4>2, <4>3, SettledStays
    <3>3. CASE q = p
      <4>1. Checks(d, p, out) \subseteq S
        BY <1>4
      <4>2. p = "names" => ZonesSettled(wish[d]) /\ "region" \notin out
        <5>1. "names" \in Later["region"] /\ "region" \in DOMAIN CallsOf /\ "region" \notin CallsOf["names"]
          BY DEF Later, CallsOf
        <5>2. Clear(deploys[d].checks)
          BY <1>4, <2>6 DEF Clear
        <5>3. p = "names" => Settled(d, "region", deploys[d].checks)
          BY <1>0, <1>1, <2>1, <2>6, <5>1, <5>2 DEF ForeseenOf, Past
        <5> QED
          BY <1>4, <5>1, <5>3 DEF Settled
      <4>3. Settled(d, p, S)
        BY <1>0, <1>2, <2>6, <4>1, <4>2, NameSettles, RegionSettles, DnsSettles, NamesSettles, ServicesSettles
      <4> QED
        BY <1>0, <1>2, <2>5, <3>3, <4>3, SettledStays
    <3> QED
      BY <3>1, <3>2, <3>3
  <2>7. r.step = "write" => p = "services"
    BY <1>2, <2>1 DEF StepAfter
  <2>8. r.step = "write" => Clear(S)
    BY <1>6, <2>7 DEF Clear
  <2>9. \A q : Settled(d, q, S)' => Settled(d, q, deploys[d].checks)'
    BY <2>1, <2>3
  <2>10. ForeseenOf(d)'
    BY <2>1, <2>3, <2>4, <2>6, <2>8, <2>9 DEF ForeseenOf, Past
  <2> QED
    BY <1>3, <2>1, <2>2, <2>10, TurnKeeps
<1> QED
  BY <1>4, <1>5, <1>6

\* The record of a request that every part of the preflight has let pass.
LEMMA RecordKeeps ==
  ASSUME ForeseenInv, NEW d \in DOMAIN wish, WriteRecord(d)
  PROVE  AllForeseen'
<1>0. /\ EntryOK(deploys[d]) /\ WishOK /\ ForeseenOf(d) /\ DOMAIN deploys = DOMAIN wish
      /\ wish' = wish /\ lacking' = lacking /\ deploys[d].step = "write"
  BY DEF ForeseenInv, QuotaInv, EntriesOK, WriteRecord
<1>1. CASE Turn(d, [deploys[d] EXCEPT !.step = "idle"])
  <2> DEFINE r == [deploys[d] EXCEPT !.step = "idle"]
  <2>1. r.step = "idle" /\ r.status = deploys[d].status /\ r.built = deploys[d].built
    BY <1>0 DEF EntryOK, Unasked
  <2>2. Turn(d, r)
    BY <1>1
  <2> HIDE DEF r
  <2>3. deploys'[d] = r
    BY <1>0, <2>2 DEF Turn
  <2>4. r.status \notin {"applying", "failed"}
    BY <1>0, <2>1 DEF EntryOK
  <2> QED
    BY <1>0, <2>1, <2>2, <2>3, <2>4, NothingToForesee, TurnKeeps
<1>2. CASE Joins(d, deploys[d].how)
  <2>1. PICK how : how = deploys[d].how
    OBVIOUS
  <2>2. Joins(d, how)
    BY <1>2, <2>1
  <2>3. /\ deploys'[d].status = "applying" /\ deploys'[d].step = "idle" /\ deploys'[d].how = deploys[d].how
        /\ deploys'[d].checks = deploys[d].checks /\ deploys'[d].builders = deploys[d].builders
    <3>1. /\ deploys'[d] = [deploys[d] EXCEPT !.status = "applying", !.step = "idle", !.how = how]
          /\ DOMAIN deploys[d] = DOMAIN Unasked
      BY <1>0, <2>2 DEF Joins, EntryOK
    <3> QED
      BY <2>1, <3>1 DEF Unasked
  <2>4. DOMAIN deploys' = DOMAIN wish /\ \A x \in DOMAIN wish \ {d} : deploys'[x].built \subseteq deploys[x].built
    <3>1. ASSUME NEW x \in DOMAIN wish, x # d PROVE deploys'[x].built = deploys[x].built
      <4> DEFINE j == IF deploys[x].step = "idle" THEN deploys[x].joined ELSE deploys[x].joined \cup {d}
      <4>1. deploys'[x] = [deploys[x] EXCEPT !.joined = j] /\ DOMAIN deploys[x] = DOMAIN Unasked
        BY <1>0, <2>2, <3>1 DEF Joins, EntryOK, ForeseenInv, QuotaInv, EntriesOK
      <4> HIDE DEF j
      <4> QED
        BY <4>1 DEF Unasked
    <3> QED
      BY <1>0, <2>2, <3>1 DEF Joins
  <2>5. Steady(d)
    BY <1>0, <2>3, <2>4, OthersSteady
  <2>6. PICK S : S = deploys[d].checks
    OBVIOUS
  <2>7. deploys[d].how = "checked" => Clear(S) /\ \A q \in DOMAIN CallsOf : Settled(d, q, S)
    <3>1. \A q \in DOMAIN CallsOf : "write" \in Later[q]
      BY DEF CallsOf, Later
    <3> QED
      BY <1>0, <2>6, <3>1 DEF ForeseenOf, Past
  <2>8. deploys[d].how = "checked" => \A q \in DOMAIN CallsOf : Settled(d, q, S)'
    BY <1>0, <2>5, <2>7, SettledStays
  <2>9. \A q : Settled(d, q, S)' => Settled(d, q, deploys[d].checks)'
    BY <2>3, <2>6
  <2>10. ForeseenOf(d)'
    BY <2>3, <2>6, <2>7, <2>8, <2>9 DEF ForeseenOf
  <2> QED
    BY <1>0, <2>2, <2>10, JoinsKeeps
<1> QED
  BY <1>1, <1>2 DEF WriteRecord

\* Terraform is done: what it failed of was foreseen.
LEMMA ApplyKeeps ==
  ASSUME ForeseenInv, NEW d \in DOMAIN wish, Apply(d)
  PROVE  AllForeseen'
<1>0. /\ EntryOK(deploys[d]) /\ WishOK /\ ForeseenOf(d) /\ DOMAIN deploys = DOMAIN wish
      /\ wish' = wish /\ lacking' = lacking /\ deploys[d].status = "applying"
      /\ deploys[d].built \subseteq Made(wish[d])
  BY DEF ForeseenInv, QuotaInv, EntriesOK, Apply
<1>1. deploys[d].step = "idle"
  BY <1>0 DEF EntryOK
<1>2. PICK b, trouble, status :
        /\ ApplyResult(d, b, trouble, status) /\ b \subseteq Made(wish[d])
        /\ status = "ready" \/ (status = "failed" /\ trouble = Trouble(d))
  <2>1. CASE ApplyResult(d, Made(wish[d]), {}, "ready")
    BY <2>1
  <2>2. CASE \E built \in {deploys[d].built, Made(wish[d]) \ TakenFor(d)} : ApplyResult(d, built, Trouble(d), "failed")
    <3>1. PICK built \in {deploys[d].built, Made(wish[d]) \ TakenFor(d)} : ApplyResult(d, built, Trouble(d), "failed")
      BY <2>2
    <3>2. built \subseteq Made(wish[d])
      BY <1>0
    <3> QED
      BY <3>1, <3>2
  <2> QED
    BY <2>1, <2>2 DEF Apply
<1>3. /\ deploys'[d].status = status /\ deploys'[d].step = deploys[d].step /\ deploys'[d].how = deploys[d].how
      /\ deploys'[d].trouble = trouble /\ deploys'[d].checks = deploys[d].checks
      /\ deploys'[d].builders = deploys[d].builders
  <2>1. /\ deploys'[d] = [deploys[d] EXCEPT !.status = status, !.built = b, !.trouble = trouble]
        /\ DOMAIN deploys[d] = DOMAIN Unasked
    BY <1>0, <1>2 DEF ApplyResult, EntryOK
  <2> QED
    BY <2>1 DEF Unasked
<1>4. CASE status = "ready"
  <2>1. ForeseenOf(d)'
    BY <1>1, <1>3, <1>4, NothingToForesee
  <2> QED
    BY <1>0, <1>2, <2>1, ResultKeeps
<1>5. CASE status = "failed" /\ trouble = Trouble(d)
  <2>1. PICK S : S = deploys[d].checks
    OBVIOUS
  <2>2. deploys[d].how = "checked" => Clear(S) /\ \A q \in DOMAIN CallsOf : Settled(d, q, S)
    BY <1>0, <2>1 DEF ForeseenOf, Past
  <2>3. ASSUME deploys[d].how = "checked", NEW o \in Trouble(d), o \notin Unchecked(wish[d]) PROVE Foreseen(d, o)'
    <3>1. Foreseen(d, o)
      BY <1>0, <2>1, <2>2, <2>3, TroubleForeseen
    <3> QED
      BY <1>0, <1>3, <3>1 DEF Foreseen, Overtaken
  <2>4. \A q \in DOMAIN CallsOf : "idle" \notin Later[q]
    BY DEF CallsOf, Later
  <2>5. ForeseenOf(d)'
    BY <1>0, <1>1, <1>3, <1>5, <2>3, <2>4 DEF ForeseenOf, Past
  <2> QED
    BY <1>0, <1>2, <2>5, ResultKeeps
<1> QED
  BY <1>2, <1>4, <1>5

\* What asks for nothing, or nothing more.
LEMMA OthersKeep ==
  ASSUME ForeseenInv, NEW d \in DOMAIN wish,
         (\E how : BeginOrder(d, how)) \/ AskQuota(d) \/ Retry(d) \/ Delete(d) \/ Destroyed(d)
  PROVE  AllForeseen'
<1>0. EntryOK(deploys[d]) /\ DOMAIN deploys = DOMAIN wish /\ wish' = wish /\ lacking' = lacking
  BY DEF ForeseenInv, QuotaInv, EntriesOK, BeginOrder, AskQuota, Retry, Delete, Destroyed
<1>1. ASSUME NEW r, Turn(d, r), r.built \subseteq deploys[d].built,
             r.how # "checked" \/ (r.step \in {"idle", "quota", "name"} /\ r.status \notin {"applying", "failed"})
      PROVE  AllForeseen'
  <2>1. deploys'[d] = r
    BY <1>0, <1>1 DEF Turn
  <2>2. ForeseenOf(d)'
    BY <1>1, <2>1, NothingToForesee
  <2> QED
    BY <1>0, <1>1, <2>2, TurnKeeps
<1>2. ASSUME NEW how, BeginOrder(d, how) PROVE AllForeseen'
  <2> DEFINE r == [Unasked EXCEPT !.status = deploys[d].status, !.step = "quota", !.how = how]
  <2>1. r.step = "quota" /\ r.status = deploys[d].status /\ r.built = {}
    BY DEF Unasked
  <2>2. Turn(d, r) /\ deploys[d].status \in {"none", "destroyed"}
    BY <1>2 DEF BeginOrder
  <2> HIDE DEF r
  <2> QED
    BY <1>1, <2>1, <2>2
<1>3. CASE AskQuota(d)
  <2> DEFINE s == IF CheckCreateQuota(wish[d]) THEN "idle" ELSE IF deploys[d].how = "forced" THEN "write" ELSE "name"
             r == [deploys[d] EXCEPT !.step = s]
  <2>1. s \in {"idle", "name"} \/ (s = "write" /\ deploys[d].how = "forced")
    OBVIOUS
  <2>2. Turn(d, r) /\ deploys[d].step = "quota"
    BY <1>3 DEF AskQuota
  <2> HIDE DEF s
  <2>3. r.step = s /\ r.status = deploys[d].status /\ r.built = deploys[d].built /\ r.how = deploys[d].how
    BY <1>0 DEF EntryOK, Unasked
  <2> HIDE DEF r
  <2>4. r.status \notin {"applying", "failed"}
    BY <1>0, <2>2, <2>3 DEF EntryOK
  <2> QED
    BY <1>1, <2>1, <2>2, <2>3, <2>4
<1>4. CASE Retry(d)
  <2>1. Joins(d, "retried")
    BY <1>4 DEF Retry
  <2>2. deploys'[d].how = "retried"
    <3>1. /\ deploys'[d] = [deploys[d] EXCEPT !.status = "applying", !.step = "idle", !.how = "retried"]
          /\ DOMAIN deploys[d] = DOMAIN Unasked
      BY <1>0, <2>1 DEF Joins, EntryOK
    <3> QED
      BY <3>1 DEF Unasked
  <2>3. ForeseenOf(d)'
    BY <2>2, NothingToForesee
  <2> QED
    BY <1>0, <2>1, <2>3, JoinsKeeps
<1>5. CASE Delete(d)
  <2> DEFINE r == [deploys[d] EXCEPT !.status = "destroying"]
  <2>1. r.step = deploys[d].step /\ r.status = "destroying" /\ r.built = deploys[d].built
    BY <1>0 DEF EntryOK, Unasked
  <2>2. Turn(d, r) /\ deploys[d].step = "idle"
    BY <1>5 DEF Delete
  <2> HIDE DEF r
  <2> QED
    BY <1>1, <2>1, <2>2
<1>6. CASE Destroyed(d)
  <2> DEFINE r == [Unasked EXCEPT !.status = "destroyed"]
  <2>1. r.step = "idle" /\ r.status = "destroyed" /\ r.built = {}
    BY DEF Unasked
  <2>2. Turn(d, r)
    BY <1>6 DEF Destroyed
  <2> HIDE DEF r
  <2> QED
    BY <1>1, <2>1, <2>2
<1> QED
  BY <1>2, <1>3, <1>4, <1>5, <1>6

-----------------------------------------------------------------------------

\* Nobody has asked for anything at first.
LEMMA ForeseenInvInit == AdmissionInit => ForeseenInv
<1> SUFFICES ASSUME AdmissionInit PROVE ForeseenInv
  OBVIOUS
<1>1. ASSUME NEW d \in DOMAIN wish PROVE deploys[d].built \subseteq Made(wish[d]) /\ ForeseenOf(d)
  <2>1. deploys[d].built = {} /\ deploys[d].step = "idle" /\ deploys[d].status = "none"
    BY DEF AdmissionInit, Unasked
  <2>2. \A p \in DOMAIN CallsOf : "idle" \notin Later[p]
    BY DEF CallsOf, Later
  <2> QED
    BY <2>1, <2>2 DEF ForeseenOf, Past
<1> QED
  BY <1>1, QuotaInvInit DEF ForeseenInv

\* Every step keeps it.
LEMMA ForeseenInvNext == ForeseenInv /\ [AdmissionNext]_admissionVars => ForeseenInv'
<1> SUFFICES ASSUME ForeseenInv, [AdmissionNext]_admissionVars PROVE ForeseenInv'
  OBVIOUS
<1>1. QuotaInv' /\ DOMAIN deploys = DOMAIN wish
  BY QuotaInvNext DEF ForeseenInv, QuotaInv, EntriesOK
<1>2. ASSUME NEW d \in DOMAIN wish, NEW how, BeginOrder(d, how) PROVE AllForeseen'
  BY <1>2, OthersKeep
<1>3. ASSUME NEW d \in DOMAIN wish, AskQuota(d) \/ Retry(d) \/ Delete(d) \/ Destroyed(d) PROVE AllForeseen'
  BY <1>3, OthersKeep
<1>4. ASSUME NEW d \in DOMAIN wish, deploys[d].step \in DOMAIN CallsOf, RunChecks(d) PROVE AllForeseen'
  BY <1>4, ChecksKeep
<1>5. ASSUME NEW d \in DOMAIN wish, WriteRecord(d) PROVE AllForeseen'
  BY <1>5, RecordKeeps
<1>6. ASSUME NEW d \in DOMAIN wish, Apply(d) PROVE AllForeseen'
  BY <1>6, ApplyKeeps
<1>7. CASE UNCHANGED admissionVars
  <2>1. wish' = wish /\ lacking' = lacking /\ deploys' = deploys
    BY <1>7 DEF admissionVars
  <2>2. ASSUME NEW d \in DOMAIN wish PROVE ForeseenOf(d)'
    BY <1>1, <2>1, BystanderKeeps
  <2> QED
    BY <1>1, <2>1, <2>2 DEF ForeseenInv
<1>8. CASE AllForeseen'
  BY <1>1, <1>8 DEF AllForeseen, ForeseenInv
<1> QED
  BY <1>1, <1>2, <1>3, <1>4, <1>5, <1>6, <1>7, <1>8 DEF AdmissionNext

\* The preflight of preflight.ts, on the way of POST /instances: whatever
\* terraform then fails of, the preflight had said that it could not tell,
\* or another deployment took it since the request began, or it is one of
\* the things that no check looks for.  For any deployments, any project and
\* any calls to Google that fail.
THEOREM FailureIsForeseenCorrect == AdmissionSpec => []FailureIsForeseen
<1>1. AdmissionSpec => []ForeseenInv
  BY ForeseenInvInit, ForeseenInvNext, PTL DEF AdmissionSpec
<1>2. ForeseenInv => FailureIsForeseen
  BY DEF ForeseenInv, QuotaInv, EntriesOK, ForeseenOf, Foreseen, FailureIsForeseen
<1> QED
  BY <1>1, <1>2, PTL
==============================================================================
