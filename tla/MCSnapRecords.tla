--------------------------- MODULE MCSnapRecords ---------------------------
(***************************************************************************)
(* Checks the reconciler and get_app of SnapRecords against the rules of   *)
(* the spec, over every daemon answer TLC can enumerate: every list of     *)
(* installed snaps with distinct names (snapd's /v2/snaps) of length at    *)
(* most MaxInstalled, and every store listing (/v2/find) of length at most *)
(* MaxStore, duplicates of one name on several channels included.  The     *)
(* state is the daemon's answer; it never changes.                         *)
(***************************************************************************)
EXTENDS SnapRecords, Functions

CONSTANTS MaxInstalled, MaxStore

ASSUME BoundsAssumption == MaxInstalled \in Nat /\ MaxStore \in Nat

VARIABLES rawInst, rawStore
vars == <<rawInst, rawStore>>

Seqs(S, n) == UNION {[1..k -> S] : k \in 0..n}

InstalledRaw == {r \in RawRecord : r.summary = "installed"}
StoreRaw == {r \in RawRecord : r.summary = "store"}

\* snapd lists each installed snap once.
InstalledListings ==
    {s \in Seqs(InstalledRaw, MaxInstalled) :
        \A i, j \in 1..Len(s) : s[i].name = s[j].name => i = j}

\* The positions of the store records of id q, and the place of each among
\* them: /v2/find?name=q lists the matches in the store's order.
HitsOf(q) == {i \in 1..Len(rawStore) : rawStore[i].name = q}
HitRank(q, i) == Cardinality({j \in HitsOf(q) : j <= i})
StoreHits(q) == [k \in 1..Cardinality(HitsOf(q)) |->
                   rawStore[CHOOSE i \in HitsOf(q) : HitRank(q, i) = k]]

\* The daemon's answers, built from the two listings.
SnapsResponse == [status |-> "OK", result |-> rawInst]
SnapResponse(q) ==
    IF \E i \in 1..Len(rawInst) : rawInst[i].name = q
    THEN [code |-> 200,
          result |-> rawInst[CHOOSE i \in 1..Len(rawInst) : rawInst[i].name = q]]
    ELSE [code |-> 404]
FindResponse(q) ==
    LET hits == IF q = Wildcard THEN rawStore
                ELSE StoreHits(q)
    IN IF q = Wildcard \/ hits # << >>
       THEN [status |-> "OK", result |-> hits]
       ELSE [status |-> "Error", result |-> << >>]

\* The two operations of the client on this answer.
ListAllApps ==
    join_apps(installed_all_apps(SnapsResponse.result),
              AvailableApps(available_snaps(Wildcard, FindResponse(Wildcard))))
GetApp(q) ==
    get_app(find_installed(SnapResponse(q)), find_in_store(q, FindResponse(q)))

\* The store lists a snap at most once per channel.
StoreListings ==
    {s \in Seqs(StoreRaw, MaxStore) :
        \A i, j \in 1..Len(s) :
            s[i].name = s[j].name /\ s[i].channel = s[j].channel => i = j}

Init ==
    /\ rawInst \in InstalledListings
    /\ rawStore \in StoreListings

Next == UNCHANGED vars

Spec == Init /\ [][Next]_vars

(***************************************************************************)
(* The reference: the spec's reconciliation rule, written over sets.       *)
(***************************************************************************)
NamesOf(s) == {s[i].name : i \in 1..Len(s)}
FirstOf(s, n) == s[CHOOSE i \in 1..Len(s) :
                     s[i].name = n /\ \A j \in 1..i - 1 : s[j].name # n]
LastOf(s, n) == s[CHOOSE i \in 1..Len(s) :
                    s[i].name = n /\ \A j \in i + 1..Len(s) : s[j].name # n]
StoreVersionsOf(n) == {rawStore[i].version : i \in {j \in 1..Len(rawStore) : rawStore[j].name = n}}

\* One record per id: an installed app keeps its own descriptive fields and
\* takes the version of the last store record of its id; a store-only app
\* is its first store record with the version of its last one.
Reconciled(n) ==
    IF n \in NamesOf(rawInst)
    THEN [InstalledApp(FirstOf(rawInst, n)) EXCEPT !.current_version =
             IF n \in NamesOf(rawStore) THEN LastOf(rawStore, n).version ELSE None]
    ELSE [AvailableApp(FirstOf(rawStore, n)) EXCEPT !.current_version =
             LastOf(rawStore, n).version]

(***************************************************************************)
(* join_apps, fed by installed_all_apps and the sorted wildcard listing,   *)
(* yields exactly one record per id that is installed or in the store      *)
(* (|I|+|S|+|O| records), each as the spec's rule says: installed          *)
(* descriptive fields win, the store adds only its last version.  This is  *)
(* the dict-keyed merge of join_apps and the stable sort of                *)
(* _available_snaps working together.                                      *)
(***************************************************************************)
ListMatchesReference ==
    LET L == ListAllApps
        ids == NamesOf(rawInst) \cup NamesOf(rawStore)
    IN /\ Len(L) = Cardinality(ids)
       /\ Range(L) = {Reconciled(n) : n \in ids}

(***************************************************************************)
(* get_app(id), for every id, against the spec's §8: it raises "not found" *)
(* exactly when neither side knows the id; an installed-only app has no    *)
(* available version and is the installed record; a store-only app has no *)
(* installed version; an app on both sides keeps the installed record and *)
(* takes a version the store offers for that id.                           *)
(***************************************************************************)
GetAppMatchesSpec ==
    \A n \in Names :
        LET r == GetApp(n)
            inst == n \in NamesOf(rawInst)
            store == n \in NamesOf(rawStore)
        IN /\ (r = NotFound) <=> (~inst /\ ~store)
           /\ inst /\ ~store => r = InstalledApp(FirstOf(rawInst, n))
           /\ ~inst /\ store =>
                /\ r.app.id = n /\ r.installed_version = None
                /\ r.current_version \in StoreVersionsOf(n)
           /\ inst /\ store =>
                /\ r.app = InstalledApp(FirstOf(rawInst, n)).app
                /\ r.installed_version = FirstOf(rawInst, n).version
                /\ r.current_version \in StoreVersionsOf(n)

(***************************************************************************)
(* The spec (§4.4) says get_app returns the record of §3's merge, the one  *)
(* join_apps puts in the full listing for the same daemon state.  With     *)
(* several store records of one id (one per channel), find_in_store takes  *)
(* the first and join_apps keeps the last: the two disagree.               *)
(***************************************************************************)
GetAppAgreesWithList ==
    \A n \in Names :
        GetApp(n) = IF n \in NamesOf(rawInst) \cup NamesOf(rawStore)
                    THEN Reconciled(n) ELSE NotFound

=============================================================================
