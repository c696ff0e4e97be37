------------------------ MODULE MCSnapRecordsProofs ------------------------
(***************************************************************************)
(* get_app(id) against the spec's §8, proved for every daemon answer: any  *)
(* installed listing with distinct names (snapd's /v2/snaps) and any store *)
(* listing (/v2/find), of any length, over any names, channels and        *)
(* versions.  MCSnapRecords checks the same property by enumeration.       *)
(***************************************************************************)
EXTENDS MCSnapRecords, SnapRecordsProofs

\* The positions of S at or before i.
Below(S, i) == {j \in S : j <= i}

LEMMA BelowCount ==
    ASSUME NEW S \in SUBSET Nat, IsFiniteSet(S), NEW i \in S
    PROVE  /\ IsFiniteSet(Below(S, i))
           /\ Cardinality(Below(S, i)) \in 1..Cardinality(S)
<1>1. IsFiniteSet(Below(S, i)) /\ Cardinality(Below(S, i)) <= Cardinality(S)
    BY FS_Subset DEF Below
<1>2. {i} \subseteq Below(S, i)
    BY DEF Below
<1>3. Cardinality({i}) <= Cardinality(Below(S, i))
    BY <1>1, <1>2, FS_Subset
<1>4. Cardinality(Below(S, i)) \in Nat /\ Cardinality(S) \in Nat
    BY <1>1, FS_CardinalityType
<1>5. Cardinality({i}) = 1
    BY FS_Singleton
<1>6. QED
    BY <1>1, <1>3, <1>4, <1>5

\* A later position of S has more positions of S at or before it.
LEMMA BelowMonotone ==
    ASSUME NEW S \in SUBSET Nat, IsFiniteSet(S), NEW i \in S, NEW l \in S,
           i < l
    PROVE  Cardinality(Below(S, i)) < Cardinality(Below(S, l))
<1>0. i \in Nat /\ l \in Nat /\ \A j \in S : j \in Nat
    OBVIOUS
<1>1. Below(S, i) \cup {l} \subseteq Below(S, l)
    <2> SUFFICES ASSUME NEW j \in Below(S, i) \cup {l}
                 PROVE  j \in S /\ j <= l
        BY DEF Below
    <2>1. CASE j = l
        BY <2>1, <1>0
    <2>2. CASE j \in Below(S, i)
        <3>1. j \in S /\ j <= i
            BY <2>2 DEF Below
        <3>2. QED
            BY <3>1, <1>0
    <2>3. QED
        BY <2>1, <2>2
<1>2. l \notin Below(S, i)
    BY <1>0 DEF Below
<1>3. /\ IsFiniteSet(Below(S, i) \cup {l})
      /\ Cardinality(Below(S, i) \cup {l}) = Cardinality(Below(S, i)) + 1
    BY <1>2, BelowCount, FS_AddElement
<1>4. Cardinality(Below(S, i)) + 1 <= Cardinality(Below(S, l))
    BY <1>1, <1>3, BelowCount, FS_Subset
<1>5. QED
    BY <1>4, BelowCount

\* Counting the positions at or before it numbers the elements of a finite
\* set of positions 1..Cardinality(S), each number used once.
LEMMA BelowOnto ==
    ASSUME NEW S \in SUBSET Nat, IsFiniteSet(S), NEW k \in 1..Cardinality(S)
    PROVE  \E i \in S : Cardinality(Below(S, i)) = k
<1> DEFINE c == Cardinality(S)
           r == [i \in S |-> Cardinality(Below(S, i))]
<1>1. c \in Nat
    BY FS_CardinalityType
<1>2. r \in [S -> 1..c]
    BY BelowCount
<1>3. ASSUME NEW i \in S, NEW l \in S, r[i] = r[l]
      PROVE  i = l
    <2>1. r[i] = Cardinality(Below(S, i)) /\ r[l] = Cardinality(Below(S, l))
        OBVIOUS
    <2>2. Cardinality(Below(S, i)) \in Nat /\ Cardinality(Below(S, l)) \in Nat
        BY BelowCount
    <2>3. ~(i < l)
        BY <2>1, <2>2, <1>3, BelowMonotone
    <2>4. ~(l < i)
        BY <2>1, <2>2, <1>3, BelowMonotone
    <2>5. i \in Nat /\ l \in Nat
        OBVIOUS
    <2>6. QED
        BY <2>3, <2>4, <2>5
<1>4. r \in Injection(S, 1..c)
    BY <1>2, <1>3 DEF Injection, IsInjective
<1>5. IsFiniteSet(1..c) /\ Cardinality(1..c) = c
    BY <1>1, FS_Interval
<1>6. r \in Surjection(S, 1..c)
    BY <1>4, <1>5, FS_Injection
<1>7. QED
    BY <1>6 DEF Surjection

\* The answer to /v2/find?name=q is a list of store records of id q, empty
\* exactly when the store has none.
LEMMA StoreHitsFacts ==
    ASSUME rawStore \in Seq(RawRecord), NEW q
    PROVE  /\ StoreHits(q) \in Seq(RawRecord)
           /\ (StoreHits(q) = << >>) <=> (q \notin NamesOf(rawStore))
           /\ \A k \in 1..Len(StoreHits(q)) :
                 \E i \in HitsOf(q) : StoreHits(q)[k] = rawStore[i]
<1> DEFINE H == HitsOf(q)
           c == Cardinality(H)
           h == StoreHits(q)
<1>1. Len(rawStore) \in Nat /\ H \subseteq 1..Len(rawStore)
    BY LenProperties DEF HitsOf
<1>2. H \subseteq Nat /\ IsFiniteSet(H) /\ c \in Nat
    <2>1. IsFiniteSet(1..Len(rawStore))
        BY <1>1, FS_Interval
    <2>2. IsFiniteSet(H)
        BY <1>1, <2>1, FS_Subset
    <2>3. QED
        BY <1>1, <2>2, FS_CardinalityType
<1>3. \A k \in 1..c : \E i \in H : HitRank(q, i) = k
    BY <1>2, BelowOnto DEF HitRank, Below
<1>4. \A k \in 1..c : \E i \in H : h[k] = rawStore[i]
    BY <1>3 DEF StoreHits
<1>5. h \in [1..c -> RawRecord]
    <2>1. \A i \in H : rawStore[i] \in RawRecord
        BY <1>1, ElementOfSeq
    <2>2. QED
        BY <2>1, <1>4 DEF StoreHits
<1>6. h \in Seq(RawRecord) /\ Len(h) = c
    BY <1>2, <1>5, SeqDef
<1>7. (c = 0) <=> (q \notin NamesOf(rawStore))
    <2>1. (c = 0) <=> (H = {})
        BY <1>2, FS_EmptySet
    <2>2. QED
        BY <2>1 DEF HitsOf, NamesOf
<1>8. (h = << >>) <=> (c = 0)
    BY <1>2, <1>6
<1>9. QED
    BY <1>4, <1>6, <1>7, <1>8

\* snapd lists each installed snap once.
DistinctNames(s) == \A i, j \in 1..Len(s) : s[i].name = s[j].name => i = j

\* find_installed(id) on /v2/snaps/{id}: the record of the installed snap
\* of that id (its first, and only, occurrence in the listing), or None on
\* the 404 of a snap that is not installed.
LEMMA InstalledLookup ==
    ASSUME rawInst \in Seq(RawRecord), DistinctNames(rawInst), NEW q
    PROVE  /\ q \in NamesOf(rawInst) =>
                /\ \E i \in 1..Len(rawInst) : FirstOf(rawInst, q) = rawInst[i]
                /\ FirstOf(rawInst, q).name = q
                /\ find_installed(SnapResponse(q)) = InstalledApp(FirstOf(rawInst, q))
           /\ q \notin NamesOf(rawInst) => find_installed(SnapResponse(q)) = None
<1>1. ASSUME q \in NamesOf(rawInst)
      PROVE  /\ \E i \in 1..Len(rawInst) : FirstOf(rawInst, q) = rawInst[i]
             /\ FirstOf(rawInst, q).name = q
             /\ find_installed(SnapResponse(q)) = InstalledApp(FirstOf(rawInst, q))
    <2>1. PICK i0 \in 1..Len(rawInst) : rawInst[i0].name = q
        BY <1>1 DEF NamesOf
    <2>2. \A i \in 1..Len(rawInst) : rawInst[i].name = q => i = i0
        BY <2>1 DEF DistinctNames
    <2>3. \A j \in 1..i0 - 1 : rawInst[j].name # q
        BY <2>2
    <2>4. FirstOf(rawInst, q) = rawInst[i0]
        BY <2>1, <2>2, <2>3 DEF FirstOf
    <2>5. SnapResponse(q) = [code |-> 200, result |-> rawInst[i0]]
        BY <2>1, <2>2 DEF SnapResponse
    <2>6. QED
        BY <2>1, <2>4, <2>5 DEF find_installed
<1>2. ASSUME q \notin NamesOf(rawInst)
      PROVE  find_installed(SnapResponse(q)) = None
    BY <1>2 DEF NamesOf, SnapResponse, find_installed
<1>3. QED
    BY <1>1, <1>2

\* find_in_store(id) on /v2/find?name={id}: None when the store has no
\* record of the id, otherwise the normalised form of one of its records.
LEMMA StoreLookup ==
    ASSUME rawStore \in Seq(RawRecord), NEW q \in Names
    PROVE  /\ q \notin NamesOf(rawStore) => find_in_store(q, FindResponse(q)) = None
           /\ q \in NamesOf(rawStore) =>
                \E i \in HitsOf(q) :
                    find_in_store(q, FindResponse(q)) = AvailableApp(rawStore[i])
<1> DEFINE h == StoreHits(q)
<1>1. q # Wildcard /\ q \in Queries
    BY WildcardAssumption DEF Queries
<1>2. FindResponse(q) = IF h # << >> THEN [status |-> "OK", result |-> h]
                                    ELSE [status |-> "Error", result |-> << >>]
    BY <1>1 DEF FindResponse
<1>3. ASSUME q \notin NamesOf(rawStore)
      PROVE  find_in_store(q, FindResponse(q)) = None
    <2>1. FindResponse(q).status # "OK"
        BY <1>2, <1>3, StoreHitsFacts
    <2>2. QED
        BY <1>1, <2>1, StoreErrorOutcome
<1>4. ASSUME q \in NamesOf(rawStore)
      PROVE  \E i \in HitsOf(q) :
                find_in_store(q, FindResponse(q)) = AvailableApp(rawStore[i])
    <2> DEFINE t == SortedByName(h)
    <2>1. h \in Seq(RawRecord) /\ h # << >>
        BY <1>4, StoreHitsFacts
    <2>2. Len(h) \in Nat \ {0}
        BY <2>1, EmptySeq
    <2>3. available_snaps(q, FindResponse(q)) = t
        BY <1>1, <1>2, <2>1 DEF available_snaps
    <2>4. /\ DOMAIN t = 1..Len(h)
          /\ \A k \in 1..Len(h) : \E i \in 1..Len(h) : t[k] = h[i]
        BY <2>1, SortedByNameSorts
    <2>5. PICK i1 \in 1..Len(h) : t[1] = h[i1]
        BY <2>2, <2>4
    <2>6. PICK i2 \in HitsOf(q) : h[i1] = rawStore[i2]
        BY <2>1, StoreHitsFacts
    <2>7. t \in Seq(RawRecord)
        <3>1. \A k \in 1..Len(h) : t[k] \in RawRecord
            BY <2>1, <2>4, ElementOfSeq
        <3>2. t \in [1..Len(h) -> RawRecord]
            BY <2>4, <3>1 DEF SortedByName
        <3>3. QED
            BY <2>2, <3>2, SeqDef
    <2>8. t # Crash /\ t # << >>
        <3>1. t # Crash
            BY <2>7, SentinelAssumption
        <3>2. 1 \in DOMAIN t
            BY <2>2, <2>4
        <3>3. QED
            BY <3>1, <3>2
    <2>9. find_in_store(q, FindResponse(q)) = AvailableApp(t[1])
        BY <2>3, <2>8 DEF find_in_store
    <2>10. QED
        BY <2>5, <2>6, <2>9
<1>5. QED
    BY <1>3, <1>4

\* What the proof uses of the daemon's answer: two lists of raw records,
\* the installed one without repeated names.
MCInv == /\ rawInst \in Seq(RawRecord) /\ DistinctNames(rawInst)
         /\ rawStore \in Seq(RawRecord)

LEMMA InitMCInv == Init => MCInv
<1> SUFFICES ASSUME Init PROVE MCInv
    OBVIOUS
<1>1. ASSUME NEW S \in SUBSET RawRecord, NEW m \in Nat, NEW s \in Seqs(S, m)
      PROVE  s \in Seq(RawRecord)
    <2>1. PICK k \in 0..m : s \in [1..k -> S]
        BY DEF Seqs
    <2>2. s \in [1..k -> RawRecord]
        BY <2>1
    <2>3. QED
        BY <2>2, SeqDef
<1>2. InstalledRaw \subseteq RawRecord /\ StoreRaw \subseteq RawRecord
    BY DEF InstalledRaw, StoreRaw
<1>3. rawInst \in Seq(RawRecord) /\ DistinctNames(rawInst)
    BY <1>1, <1>2, BoundsAssumption DEF Init, InstalledListings, DistinctNames
<1>4. rawStore \in Seq(RawRecord)
    BY <1>1, <1>2, BoundsAssumption DEF Init, StoreListings
<1>5. QED
    BY <1>3, <1>4 DEF MCInv

LEMMA NextMCInv == MCInv /\ [Next]_vars => MCInv'
    BY DEF MCInv, DistinctNames, Next, vars

LEMMA GetAppCorrect == MCInv => GetAppMatchesSpec
<1> SUFFICES ASSUME MCInv, NEW n \in Names
             PROVE  LET r == GetApp(n)
                        inst == n \in NamesOf(rawInst)
                        store == n \in NamesOf(rawStore)
                    IN /\ (r = NotFound) <=> (~inst /\ ~store)
                       /\ inst /\ ~store => r = InstalledApp(FirstOf(rawInst, n))
                       /\ ~inst /\ store =>
                            /\ r.app.id = n /\ r.installed_version = None
                            /\ r.current_version \in StoreVersionsOf(n)
                       /\ inst /\ store =>
                            /\ r.app = InstalledApp(FirstOf(rawInst, n)).app
                            /\ r.installed_version = FirstOf(rawInst, n).version
                            /\ r.current_version \in StoreVersionsOf(n)
    BY DEF GetAppMatchesSpec
<1> DEFINE e == find_installed(SnapResponse(n))
           st == find_in_store(n, FindResponse(n))
           inst == n \in NamesOf(rawInst)
           store == n \in NamesOf(rawStore)
<1>1. rawInst \in Seq(RawRecord) /\ DistinctNames(rawInst) /\ rawStore \in Seq(RawRecord)
    BY DEF MCInv
<1>2. GetApp(n) = get_app(e, st)
    BY DEF GetApp
<1>3. None \notin AppVersions
    BY SentinelAssumption
\* The installed side.
<1>4. inst => /\ FirstOf(rawInst, n) \in RawRecord
              /\ e = InstalledApp(FirstOf(rawInst, n))
              /\ e \in AppVersions /\ e # None
              /\ e.installed_version = FirstOf(rawInst, n).version
    <2>1. ASSUME inst PROVE FirstOf(rawInst, n) \in RawRecord
        BY <1>1, <2>1, InstalledLookup, ElementOfSeq
    <2>2. QED
        BY <1>1, <1>3, <2>1, InstalledLookup, NormalisedRecords
<1>5. ~inst => e = None
    BY <1>1, InstalledLookup
\* The store side.
<1>6. store => /\ st \in AppVersions /\ st # None
               /\ st.app.id = n /\ st.installed_version = None
               /\ st.current_version \in StoreVersionsOf(n)
    <2> SUFFICES ASSUME store
                 PROVE  /\ st \in AppVersions /\ st # None
                        /\ st.app.id = n /\ st.installed_version = None
                        /\ st.current_version \in StoreVersionsOf(n)
        OBVIOUS
    <2>1. PICK i \in HitsOf(n) : st = AvailableApp(rawStore[i])
        BY <1>1, StoreLookup
    <2>2. i \in 1..Len(rawStore) /\ rawStore[i].name = n
        BY DEF HitsOf
    <2>3. rawStore[i] \in RawRecord
        BY <1>1, <2>2, ElementOfSeq
    <2>4. AvailableApp(rawStore[i]).app.id = rawStore[i].name
        BY DEF AvailableApp, to_app
    <2>5. rawStore[i].version \in StoreVersionsOf(n)
        BY <2>2 DEF StoreVersionsOf
    <2>6. QED
        BY <1>3, <2>1, <2>2, <2>3, <2>4, <2>5, NormalisedRecords
<1>7. ~store => st = None
    BY <1>1, StoreLookup
\* get_app's merge of the two.
<1>8. e \in AppVersions \cup {None} /\ st \in AppVersions \cup {None}
    BY <1>4, <1>5, <1>6, <1>7
<1>9. QED
    BY <1>2, <1>4, <1>5, <1>6, <1>7, <1>8, GetAppMerge

(***************************************************************************)
(* get_app(id) follows the spec's §8 for every daemon answer and every id: *)
(* AppNotFound exactly when neither snapd's installed listing nor the     *)
(* store knows the id; the installed record when only snapd has it; a     *)
(* store record of the id, without an installed version, when only the     *)
(* store has it; and the installed record with a version the store offers  *)
(* for that id when both do.                                              *)
(***************************************************************************)
THEOREM GetAppFollowsSpec == Spec => []GetAppMatchesSpec
<1>1. Spec => []MCInv
    BY InitMCInv, NextMCInv, PTL DEF Spec
<1>2. QED
    BY <1>1, GetAppCorrect, PTL

=============================================================================
