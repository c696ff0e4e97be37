------------------------- MODULE SnapRecordsProofs -------------------------
(***************************************************************************)
(* Facts about the pure operators of snap.py, for all names, channels and  *)
(* versions: the normalisers build AppVersions objects, get_app merges the *)
(* two lookups by the spec's rule (§8), and a failed store query is read   *)
(* differently by a single-app lookup and by the wildcard listing.        *)
(***************************************************************************)
EXTENDS SnapRecords, FiniteSetTheorems, SequenceTheorems, TLAPS

\* _installed_app and _available_app turn a raw snapd record into an
\* AppVersions object with the version on its side and None on the other.
LEMMA NormalisedRecords ==
    ASSUME NEW r \in RawRecord
    PROVE  /\ InstalledApp(r) \in AppVersions
           /\ AvailableApp(r) \in AppVersions
           /\ InstalledApp(r).installed_version = r.version
           /\ InstalledApp(r).current_version = None
           /\ AvailableApp(r).installed_version = None
           /\ AvailableApp(r).current_version = r.version
    BY DEF InstalledApp, AvailableApp, to_app, RawRecord, AppVersions, AppRec

(***************************************************************************)
(* get_app's merge, for any two lookup results (an AppVersions object or   *)
(* None each): it raises AppNotFound exactly when both sides are None; a   *)
(* one-sided app is that side's record; an app on both sides keeps the     *)
(* installed record and takes the store's version.                         *)
(***************************************************************************)
THEOREM GetAppMerge ==
    ASSUME NEW existing_app \in AppVersions \cup {None},
           NEW store_app \in AppVersions \cup {None}
    PROVE  LET r == get_app(existing_app, store_app) IN
           /\ (r = NotFound) <=> (existing_app = None /\ store_app = None)
           /\ store_app = None /\ existing_app # None => r = existing_app
           /\ existing_app = None /\ store_app # None => r = store_app
           /\ existing_app # None /\ store_app # None =>
                /\ r \in AppVersions
                /\ r.app = existing_app.app
                /\ r.installed_version = existing_app.installed_version
                /\ r.current_version = store_app.current_version
<1>1. NotFound \notin AppVersions
    BY SentinelAssumption
<1>2. CASE existing_app # None /\ store_app # None
    <2>1. existing_app \in AppVersions /\ store_app \in AppVersions
        BY <1>2
    <2>2. get_app(existing_app, store_app)
            = [existing_app EXCEPT !.current_version = store_app.current_version]
        BY <1>2 DEF get_app
    <2> DEFINE m == [existing_app EXCEPT !.current_version = store_app.current_version]
    <2>3. /\ m \in AppVersions
          /\ m.app = existing_app.app
          /\ m.installed_version = existing_app.installed_version
          /\ m.current_version = store_app.current_version
        BY <2>1 DEF AppVersions
    <2>4. m # NotFound
        BY <1>1, <2>3
    <2>5. QED
        BY <1>2, <2>2, <2>3, <2>4
<1>3. CASE existing_app = None \/ store_app = None
    BY <1>1, <1>3 DEF get_app
<1>4. QED
    BY <1>2, <1>3

(***************************************************************************)
(* A store query snapd answers with an error: find_in_store(app_id) for an *)
(* id reads it as "not in the store" (None), so get_app falls back on the  *)
(* installed side; the wildcard query of the listing raises (the error    *)
(* object is sorted as a list of snaps), whatever was read before.        *)
(***************************************************************************)
THEOREM StoreErrorOutcome ==
    ASSUME NEW query \in Queries, NEW resp, resp.status # "OK"
    PROVE  /\ query # Wildcard => find_in_store(query, resp) = None
           /\ query = Wildcard => find_in_store(query, resp) = Crash
                                  /\ available_snaps(query, resp) = Crash
<1>1. Crash # << >>
    BY SentinelAssumption, EmptySeq
<1>2. QED
    BY <1>1 DEF find_in_store, available_snaps

(***************************************************************************)
(* sorted(apps, key=name) as SortedByName: the rank of an element is one   *)
(* more than the number of elements that go before it (a smaller name, or  *)
(* the same name and an earlier position).                                 *)
(***************************************************************************)
Before(s, j, i) == \/ s[j].name < s[i].name
                   \/ s[j].name = s[i].name /\ j < i
Earlier(s, i) == {j \in 1..Len(s) : Before(s, j, i)}

LEMMA NameIsNat ==
    ASSUME NEW s \in Seq(RawRecord), NEW i \in 1..Len(s)
    PROVE  s[i].name \in Nat
    <1>1. s[i] \in RawRecord
        BY ElementOfSeq
    <1>2. QED
        BY <1>1, NamesAssumption DEF RawRecord

\* Two distinct positions are ordered one way or the other, and "before"
\* is transitive.
LEMMA BeforeOrder ==
    ASSUME NEW s \in Seq(RawRecord), NEW i \in 1..Len(s), NEW j \in 1..Len(s)
    PROVE  /\ ~Before(s, i, i)
           /\ i # j => Before(s, i, j) \/ Before(s, j, i)
           /\ \A k \in 1..Len(s) : Before(s, k, i) /\ Before(s, i, j) => Before(s, k, j)
    <1>1. \A k \in 1..Len(s) : s[k].name \in Nat
        BY NameIsNat
    <1>2. QED
        BY <1>1 DEF Before

LEMMA EarlierCount ==
    ASSUME NEW s \in Seq(RawRecord), NEW i \in 1..Len(s)
    PROVE  /\ IsFiniteSet(Earlier(s, i))
           /\ Cardinality(Earlier(s, i)) \in 0..(Len(s) - 1)
    <1> DEFINE n == Len(s)
    <1>1. Earlier(s, i) \subseteq (1..n) \ {i}
        BY BeforeOrder DEF Earlier
    <1>2. IsFiniteSet(1..n) /\ Cardinality(1..n) = n
        <2>1. n \in Nat
            BY LenProperties
        <2>2. QED
            BY <2>1, FS_Interval
    <1>3. IsFiniteSet((1..n) \ {i}) /\ Cardinality((1..n) \ {i}) = n - 1
        BY <1>2, FS_RemoveElement
    <1>4. IsFiniteSet(Earlier(s, i)) /\ Cardinality(Earlier(s, i)) <= n - 1
        BY <1>1, <1>3, FS_Subset
    <1>5. Cardinality(Earlier(s, i)) \in Nat
        BY <1>4, FS_CardinalityType
    <1>6. QED
        BY <1>4, <1>5

LEMMA RankIsCount ==
    ASSUME NEW s, NEW i
    PROVE  SortRank(s, i) = 1 + Cardinality(Earlier(s, i))
    BY DEF SortRank, Earlier, Before

LEMMA RankRange ==
    ASSUME NEW s \in Seq(RawRecord), NEW i \in 1..Len(s)
    PROVE  SortRank(s, i) \in 1..Len(s)
    BY RankIsCount, EarlierCount

\* An element that goes before another gets a smaller rank.
LEMMA RankMonotone ==
    ASSUME NEW s \in Seq(RawRecord), NEW i \in 1..Len(s), NEW j \in 1..Len(s),
           Before(s, i, j)
    PROVE  SortRank(s, i) < SortRank(s, j)
    <1>1. Earlier(s, i) \cup {i} \subseteq Earlier(s, j)
        BY BeforeOrder DEF Earlier
    <1>2. i \notin Earlier(s, i)
        BY BeforeOrder DEF Earlier
    <1>3. /\ IsFiniteSet(Earlier(s, i) \cup {i})
          /\ Cardinality(Earlier(s, i) \cup {i}) = Cardinality(Earlier(s, i)) + 1
        BY <1>2, EarlierCount, FS_AddElement
    <1>4. Cardinality(Earlier(s, i)) + 1 <= Cardinality(Earlier(s, j))
        BY <1>1, <1>3, EarlierCount, FS_Subset
    <1>5. QED
        BY <1>4, EarlierCount, RankIsCount

LEMMA RankInjective ==
    ASSUME NEW s \in Seq(RawRecord), NEW i \in 1..Len(s), NEW j \in 1..Len(s),
           i # j
    PROVE  SortRank(s, i) # SortRank(s, j)
    <1>1. Before(s, i, j) \/ Before(s, j, i)
        BY BeforeOrder
    <1>2. CASE Before(s, i, j)
        BY <1>2, RankMonotone, RankRange
    <1>3. CASE Before(s, j, i)
        BY <1>3, RankMonotone, RankRange
    <1>4. QED
        BY <1>1, <1>2, <1>3

\* Every position 1..Len(s) of the result is the rank of exactly one element.
LEMMA RankOnto ==
    ASSUME NEW s \in Seq(RawRecord), NEW k \in 1..Len(s)
    PROVE  \E i \in 1..Len(s) : SortRank(s, i) = k
    <1> DEFINE n == Len(s)
               r == [i \in 1..n |-> SortRank(s, i)]
    <1>1. r \in Injection(1..n, 1..n)
        BY RankRange, RankInjective DEF Injection, IsInjective
    <1>2. IsFiniteSet(1..n)
        BY LenProperties, FS_Interval
    <1>3. r \in Surjection(1..n, 1..n)
        BY <1>1, <1>2, FS_Injection
    <1>4. QED
        BY <1>3 DEF Surjection

(***************************************************************************)
(* SortedByName is Python's stable sort by name: it has the length of its  *)
(* input, every element lands at its rank (so the result is a permutation  *)
(* of the input), names never decrease along the result, and elements of   *)
(* the same name keep their order.  find_in_store's "first match" and the  *)
(* order join_apps inserts in rest on this.                                *)
(***************************************************************************)
THEOREM SortedByNameSorts ==
    ASSUME NEW s \in Seq(RawRecord)
    PROVE  LET t == SortedByName(s) IN
           /\ DOMAIN t = 1..Len(s)
           /\ \A i \in 1..Len(s) : t[SortRank(s, i)] = s[i]
           /\ \A k \in 1..Len(s) : \E i \in 1..Len(s) : t[k] = s[i]
           /\ \A k, l \in 1..Len(s) : k < l => t[k].name <= t[l].name
           /\ \A i, j \in 1..Len(s) :
                 s[i].name = s[j].name /\ i < j => SortRank(s, i) < SortRank(s, j)
<1> DEFINE n == Len(s)
           t == SortedByName(s)
           pick(k) == CHOOSE i \in 1..n : SortRank(s, i) = k
<1>1. \A k \in 1..n : pick(k) \in 1..n /\ SortRank(s, pick(k)) = k
    BY RankOnto
<1>2. \A k \in 1..n : t[k] = s[pick(k)]
    BY DEF SortedByName
<1>3. \A i \in 1..n : pick(SortRank(s, i)) = i
    BY <1>1, RankRange, RankInjective
<1>4. \A i \in 1..n : t[SortRank(s, i)] = s[i]
    BY <1>2, <1>3, RankRange
<1>5. ASSUME NEW k \in 1..n, NEW l \in 1..n, k < l
      PROVE  t[k].name <= t[l].name
    <2>1. ~Before(s, pick(l), pick(k))
        BY <1>1, <1>5, RankMonotone
    <2>2. s[pick(k)].name \in Nat /\ s[pick(l)].name \in Nat
        BY <1>1, NameIsNat
    <2>3. t[k] = s[pick(k)] /\ t[l] = s[pick(l)]
        BY <1>2
    <2>4. ~(s[pick(l)].name < s[pick(k)].name)
        BY <2>1 DEF Before
    <2>5. QED
        BY <2>2, <2>3, <2>4
<1>6. QED
    BY <1>1, <1>2, <1>4, <1>5, RankMonotone DEF SortedByName, Before

=============================================================================
