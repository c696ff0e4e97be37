---------------------------- MODULE SnapRecords ----------------------------
(***************************************************************************)
(* The pure half of src/syncloud_platform/snap/snap.py: what the client    *)
(* makes of the package daemon's (snapd's) answers.                        *)
(*                                                                         *)
(*   - the raw records snapd returns and the normaliser to_app, with       *)
(*     _installed_app and _available_app on top of it;                     *)
(*   - the query helpers _available_snaps, find_in_store, find_installed   *)
(*     (everything after the socket round trip);                           *)
(*   - get_app's merge and the reconciler join_apps.                       *)
(*                                                                         *)
(* Snap names stand for the alphanumeric identifiers; they are natural     *)
(* numbers so that Python's sort by name is the order < on them.  The      *)
(* display URL info.url(id) is a function of the id alone and is left out; *)
(* the icon path "/rest/app_image?channel={0}&app={1}" is kept as the pair *)
(* it is built from, since the template is injective in (channel, id).     *)
(* The summary of a record is abstracted to the side it came from, which   *)
(* is all the merge rule of join_apps and get_app tells apart.             *)
(***************************************************************************)
EXTENDS Naturals, Sequences, FiniteSets

CONSTANTS
    Names,      \* snap names (app ids); sorted by <
    Channels,   \* store channels ("stable", "beta", ...)
    Versions,   \* version strings
    None,       \* Python's None
    Wildcard,   \* the query "*" of _available_snaps
    Crash,      \* _available_snaps raising (see below)
    NotFound    \* the exception get_app raises when no side knows the app

ASSUME NamesAssumption == Names \subseteq Nat
ASSUME NoneAssumption == None \notin Versions \cup Names
ASSUME WildcardAssumption == Wildcard \notin Names
ASSUME OutcomeAssumption == Crash # NotFound

\* A query of find_in_store / _available_snaps: an app id or "*".
Queries == Names \cup {Wildcard}

\* The raw JSON objects of /v2/snaps and /v2/find, reduced to the fields
\* the client reads: name, summary, channel, version.
RawRecord == [name: Names, summary: {"installed", "store"},
              channel: Channels, version: Versions]

\* The App/AppVersions objects built by to_app.
AppRec == [id: Names, name: {"installed", "store"},
           icon: [channel: Channels, app: Names]]
AppVersions == [app: AppRec,
                installed_version: Versions \cup {None},
                current_version: Versions \cup {None}]

\* None, the exception get_app raises and the TypeError of
\* _available_snaps are not AppVersions objects, and the TypeError is not
\* a list of snaps.
ASSUME SentinelAssumption ==
    /\ {None, NotFound, Crash} \cap AppVersions = {}
    /\ Crash \notin Seq(RawRecord)

\* to_app(id, name, channel, installed_version, store_version)
to_app(id, name, channel, installed_version, store_version) ==
    [app |-> [id |-> id, name |-> name,
              icon |-> [channel |-> channel, app |-> id]],
     installed_version |-> installed_version,
     current_version |-> store_version]

\* Mutant of InstalledApp: summary and channel passed in swapped order.
InstalledAppSwapped(r) == to_app(r.name, r.channel, r.summary, r.version, None)

\* _installed_app: a record of /v2/snaps carries the installed version.
InstalledApp(r) == to_app(r.name, r.summary, r.channel, r.version, None)

\* _available_app: a record of /v2/find carries the store version.
AvailableApp(r) == to_app(r.name, r.summary, r.channel, None, r.version)

\* sorted(apps, key=lambda app: app['name']): Python's sort is stable, so
\* the element at position i goes to 1 + the number of elements before it
\* in the result: those with a smaller name, and those with the same name
\* that came earlier.
SortRank(s, i) ==
    1 + Cardinality({j \in 1..Len(s) :
                        \/ s[j].name < s[i].name
                        \/ s[j].name = s[i].name /\ j < i})
SortedByName(s) ==
    [k \in 1..Len(s) |-> s[CHOOSE i \in 1..Len(s) : SortRank(s, i) = k]]

\* A snapd response: its "status" and its "result".  An error response's
\* result is an error object, not a list of snaps.
Response == [status: {"OK", "Error"}, result: Seq(RawRecord)]

\* _available_snaps(query) after the GET of /v2/find?name={query}.  It is
\* Crash when it raises: an error result is a dict, and sorted() over its
\* keys fails on app['name'] (TypeError).
available_snaps(query, resp) ==
    IF query # Wildcard /\ resp.status # "OK" THEN << >>
    ELSE IF resp.status # "OK" THEN Crash
    ELSE SortedByName(resp.result)

\* find_in_store(app_id): the first normalised match, or None.  A Crash of
\* _available_snaps propagates unchanged.
find_in_store(query, resp) ==
    LET snaps == available_snaps(query, resp) IN
    IF snaps = Crash THEN Crash
    ELSE IF snaps = << >> THEN None
    ELSE AvailableApp(snaps[1])

\* find_installed(app_id) after GET /v2/snaps/{app_id}: a 404 is None,
\* anything else is the normalised result.
find_installed(resp) ==
    IF resp.code = 404 THEN None ELSE InstalledApp(resp.result)

\* Mutant of get_app: the store record wins when both sides know the app.
GetAppStoreFirst(existing_app, store_app) ==
    IF existing_app = None /\ store_app = None THEN NotFound
    ELSE IF store_app = None THEN existing_app
    ELSE store_app

\* get_app's merge of the two lookups (lines after the two calls).
get_app(existing_app, store_app) ==
    IF existing_app = None /\ store_app = None THEN NotFound
    ELSE IF store_app = None THEN existing_app
    ELSE IF existing_app = None THEN store_app
    ELSE [existing_app EXCEPT !.current_version = store_app.current_version]

(***************************************************************************)
(* join_apps.  A Python dict keeps its keys in insertion order, so it is   *)
(* a sequence of AppVersions with distinct ids; list(d.values()) is the    *)
(* sequence itself.                                                        *)
(***************************************************************************)
HasId(d, id) == \E i \in 1..Len(d) : d[i].app.id = id
IndexOf(d, id) == CHOOSE i \in 1..Len(d) : d[i].app.id = id

\* dict([(app.app.id, app) for app in installed_apps])
DictOf(apps) ==
    LET D[n \in 0..Len(apps)] ==
          IF n = 0 THEN << >>
          ELSE IF HasId(D[n - 1], apps[n].app.id)
               THEN [D[n - 1] EXCEPT ![IndexOf(D[n - 1], apps[n].app.id)] = apps[n]]
               ELSE Append(D[n - 1], apps[n])
    IN D[Len(apps)]

\* Mutant of join_apps: a plain dict update, the store record replacing
\* the installed one (the last-write-wins merge the spec rules out).
JoinAppsLastWins(installed_apps, store_apps) ==
    LET J[n \in 0..Len(store_apps)] ==
          IF n = 0 THEN DictOf(installed_apps)
          ELSE LET s == store_apps[n] IN
               IF HasId(J[n - 1], s.app.id)
               THEN [J[n - 1] EXCEPT ![IndexOf(J[n - 1], s.app.id)] = s]
               ELSE Append(J[n - 1], s)
    IN J[Len(store_apps)]

\* The loop over store_apps: overwrite current_version of a known id,
\* insert the store record otherwise.
join_apps(installed_apps, store_apps) ==
    LET J[n \in 0..Len(store_apps)] ==
          IF n = 0 THEN DictOf(installed_apps)
          ELSE LET s == store_apps[n] IN
               IF HasId(J[n - 1], s.app.id)
               THEN [J[n - 1] EXCEPT
                        ![IndexOf(J[n - 1], s.app.id)].current_version =
                            s.current_version]
               ELSE Append(J[n - 1], s)
    IN J[Len(store_apps)]

\* installed_all_apps() and the normalised store listing of a response.
installed_all_apps(snaps) == [i \in 1..Len(snaps) |-> InstalledApp(SortedByName(snaps)[i])]
AvailableApps(snaps) == [i \in 1..Len(snaps) |-> AvailableApp(snaps[i])]

=============================================================================
