---------------------------- MODULE ResourceScan ----------------------------
(***************************************************************************)
(* The scan of a project for live resources (GET /gcp/resources): sources  *)
(* are listed by a small pool of workers, priced, billed, attributed to    *)
(* instances by the longest matching id, and kept in a cache.  Meanwhile   *)
(* resources come and go, instances are registered and forgotten, and      *)
(* other scans of the same project run.                                    *)
(***************************************************************************)
EXTENDS Naturals, Sequences, SequencesExt, FiniteSetsExt

CONSTANTS
    ScanRequests,   \* requests for a scan
    SourceList,     \* the sources, in the order of the table
    ScanPool,       \* workers of the enumeration
    Ids,            \* ids of instances: sequences of name parts
    GkeParts,       \* the parts of a name that begin with gke
    GcpResources,   \* [source, name, by]: what may exist, and which instance made it
    Unowned,        \* the group of what matches no instance
    NoScan,         \* nothing in the cache
    MaxScanEvents   \* bound on what happens outside of the scans

ASSUME ScanAssumption ==
    /\ ScanPool \in Nat \ {0}
    /\ SourceList \in Seq(STRING)
    /\ Ids \subseteq Seq(STRING) /\ Unowned \notin Ids
    /\ MaxScanEvents \in Nat
    /\ \A x \in GcpResources : x.source \in Range(SourceList) /\ x.name \in Seq(STRING) /\ x.by \in Ids

VARIABLES
    live,       \* what exists in the project
    known,      \* ids in the registry
    scan,       \* the requests
    cached,     \* the last scan, and whether it is younger than the TTL
    events      \* what has happened outside so far

scanVars == <<live, known, scan, cached, events>>

-----------------------------------------------------------------------------
(* Attribution.                                                            *)

\* The name of a Kubernetes node carries the id after gke, and before whatever
\* begins with gke.
IsNodeOf(name, id) == \E part \in GkeParts : IsPrefix(<<"gke">> \o id \o <<part>>, name)

NameMatchesInstance(name, id) == IsPrefix(id, name) \/ IsNodeOf(name, id)

(* Mutant: the first match in the order of the ids, whatever its length. *)
AttributeShortest(x, ids) ==
    LET matches == {id \in ids : NameMatchesInstance(x.name, id)}
    IN  IF matches = {} THEN Unowned
        ELSE CHOOSE id \in matches : \A other \in matches : Len(other) >= Len(id)

\* The longest id that matches.
AttributeOne(x, ids) ==
    LET matches == {id \in ids : NameMatchesInstance(x.name, id)}
    IN  IF matches = {} THEN Unowned
        ELSE CHOOSE id \in matches : \A other \in matches : Len(other) <= Len(id)

AttributeResources(found, ids) ==
    [key \in ids \cup {Unowned} |-> {x \in found : AttributeOne(x, ids) = key}]

-----------------------------------------------------------------------------
(* Requests.  always and ever are history: what existed during all of the  *)
(* scan, and at some time of it.                                           *)

IdleScan == [pc |-> "idle", next |-> 0, busy |-> {}, found |-> {}, missing |-> {},
             warned |-> {}, always |-> {}, ever |-> {}]

ScanSources == 1..Len(SourceList)

ScanStarted ==
    LET taken == Min({ScanPool, Len(SourceList)})
    IN  [IdleScan EXCEPT !.pc = "listing", !.next = taken, !.busy = 1..taken,
                         !.always = live, !.ever = live]

CacheFresh == cached # NoScan /\ cached.fresh

\* A request that does not ask for a refresh is answered from a fresh cache,
\* which changes nothing.
ScanBegin(r, refresh) ==
    /\ scan[r].pc = "idle"
    /\ refresh \/ ~CacheFresh
    /\ scan' = [scan EXCEPT ![r] = ScanStarted]
    /\ UNCHANGED <<live, known, cached, events>>

\* A worker goes on to the next source, or the enumeration is over.
SourceTaken(q) ==
    LET more == q.next < Len(SourceList)
        busy == IF more THEN q.busy \cup {q.next + 1} ELSE q.busy
    IN  [q EXCEPT !.next = IF more THEN @ + 1 ELSE @,
                  !.busy = busy,
                  !.pc = IF busy = {} THEN "pricing" ELSE @]

ListedBy(s) == {x \in live : x.source = SourceList[s]}

(* Mutant: a source that fails after its retries leaves no trace. *)
SourceAnswersQuietly(r, s, outcome) ==
    /\ scan[r].pc = "listing" /\ s \in scan[r].busy
    /\ LET q == [scan[r] EXCEPT !.busy = @ \ {s}]
       IN  scan' = [scan EXCEPT ![r] = SourceTaken(
             CASE outcome = "listed" -> [q EXCEPT !.found = @ \cup ListedBy(s)]
               [] outcome = "denied" -> [q EXCEPT !.missing = @ \cup {SourceList[s]}]
               [] outcome = "failed" -> q)]
    /\ UNCHANGED <<live, known, cached, events>>

\* A source is listed, or denied, or fails for good after its retries: the
\* scan goes on in each case.
SourceAnswers(r, s, outcome) ==
    /\ scan[r].pc = "listing" /\ s \in scan[r].busy
    /\ LET q == [scan[r] EXCEPT !.busy = @ \ {s}]
       IN  scan' = [scan EXCEPT ![r] = SourceTaken(
             CASE outcome = "listed" -> [q EXCEPT !.found = @ \cup ListedBy(s)]
               [] outcome = "denied" -> [q EXCEPT !.missing = @ \cup {SourceList[s]}]
               [] outcome = "failed" -> [q EXCEPT !.warned = @ \cup {SourceList[s]}])]
    /\ UNCHANGED <<live, known, cached, events>>

\* Prices and bills are added if they come; the registry is read only now,
\* and the answer replaces whatever the cache holds.
ScanAnswered(r, priced, billed) ==
    /\ scan[r].pc = "pricing"
    /\ LET q == scan[r]
           failures == (IF priced THEN {} ELSE {"pricing"}) \cup (IF billed THEN {} ELSE {"billing"})
       IN  cached' = [fresh |-> TRUE,
                      groups |-> AttributeResources(q.found, known),
                      ids |-> known,
                      missing |-> q.missing,
                      warned |-> q.warned \cup failures,
                      always |-> q.always,
                      ever |-> q.ever]
    /\ scan' = [scan EXCEPT ![r] = IdleScan]
    /\ UNCHANGED <<live, known, events>>

-----------------------------------------------------------------------------
(* Outside.                                                                *)

ScanEvent == events < MaxScanEvents /\ events' = events + 1

\* An instance is registered before it makes anything.
ResourceMade(x) ==
    /\ ScanEvent
    /\ x \notin live /\ x.by \in known
    /\ live' = live \cup {x}
    /\ scan' = [r \in ScanRequests |->
          IF scan[r].pc = "listing" THEN [scan[r] EXCEPT !.ever = @ \cup {x}] ELSE scan[r]]
    /\ UNCHANGED <<known, cached>>

ResourceGone(x) ==
    /\ ScanEvent
    /\ x \in live
    /\ live' = live \ {x}
    /\ scan' = [r \in ScanRequests |->
          IF scan[r].pc = "listing" THEN [scan[r] EXCEPT !.always = @ \ {x}] ELSE scan[r]]
    /\ UNCHANGED <<known, cached>>

IdRegistered(id) ==
    /\ ScanEvent
    /\ id \notin known
    /\ known' = known \cup {id}
    /\ UNCHANGED <<live, scan, cached>>

\* A failed instance may be forgotten with its resources still there.
IdForgotten(id) ==
    /\ ScanEvent
    /\ id \in known
    /\ known' = known \ {id}
    /\ UNCHANGED <<live, scan, cached>>

CacheAges ==
    /\ CacheFresh
    /\ cached' = [cached EXCEPT !.fresh = FALSE]
    /\ UNCHANGED <<live, known, scan, events>>

-----------------------------------------------------------------------------

ScanInit ==
    /\ live \in SUBSET GcpResources
    /\ known = Ids
    /\ scan = [r \in ScanRequests |-> IdleScan]
    /\ cached = NoScan
    /\ events = 0

ScanNext ==
    \/ \E r \in ScanRequests :
          \/ \E refresh \in BOOLEAN : ScanBegin(r, refresh)
          \/ \E s \in ScanSources, outcome \in {"listed", "denied", "failed"} : SourceAnswers(r, s, outcome)
          \/ \E priced, billed \in BOOLEAN : ScanAnswered(r, priced, billed)
    \/ \E x \in GcpResources : ResourceMade(x) \/ ResourceGone(x)
    \/ \E id \in Ids : IdRegistered(id) \/ IdForgotten(id)
    \/ CacheAges

ScanSpec == ScanInit /\ [][ScanNext]_scanVars

-----------------------------------------------------------------------------

\* A scan accounts for everything: what existed while it ran is in a group or
\* its source is named as denied or failed, and nothing is shown that did not
\* exist at some time of the scan.
ScanAccounts ==
    cached # NoScan =>
        LET shown == UNION Range(cached.groups)
        IN  /\ \A x \in cached.always : x \in shown \/ x.source \in cached.missing \cup cached.warned
            /\ shown \subseteq cached.ever

\* What an instance made and named after itself is shown under that instance
\* or under one whose id is longer and matches too: never under a shorter id,
\* and never as unowned, as long as the instance is in the registry.  The DNS
\* records of a cluster, which begin with the name of a host, are not named
\* after it.
OwnerOrLonger ==
    cached # NoScan =>
        \A key \in DOMAIN cached.groups : \A x \in cached.groups[key] :
            x.by \in cached.ids /\ NameMatchesInstance(x.name, x.by) => key # Unowned /\ Len(key) >= Len(x.by)

=============================================================================
