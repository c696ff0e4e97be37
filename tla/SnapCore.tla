------------------------------ MODULE SnapCore ------------------------------
(***************************************************************************)
(* The Snap class of src/syncloud_platform/snap/snap.py against a live     *)
(* package daemon (snapd).                                                 *)
(*                                                                         *)
(* snapd is the environment: it owns the installed snaps, the store        *)
(* versions, and one pending change per snap, which it completes or fails  *)
(* on its own time.  It may go down (connection refused) or hang (accepts  *)
(* the connection and never answers), and the store behind it may be       *)
(* offline.  Its acceptance rules are snapd's: an operation on a snap with *)
(* a change in progress conflicts; install needs the snap absent and in    *)
(* the store; refresh needs it installed and a different version on its    *)
(* channel; remove needs it installed.                                     *)
(*                                                                         *)
(* Each client is one request handler calling a Snap method.  Every socket *)
(* round trip of the method is one step, taken when snapd serves it; the   *)
(* Python code between two round trips touches no shared state and is part *)
(* of the step it follows.  Normalisation and merging are the pure         *)
(* operators of SnapRecords, applied to what the client saw.               *)
(***************************************************************************)
EXTENDS SnapRecords

CONSTANTS
    Clients,        \* concurrent request handlers
    StoreCat,       \* the store's catalogue: one entry per (snap, channel)
    ClientQueries   \* the app ids callers pass in

ASSUME VersionsAssumption == Versions \subseteq Nat /\ Versions # {}
ASSUME StoreCatAssumption ==
    StoreCat \in Seq([name: Names, channel: Channels])
ASSUME ClientQueriesAssumption == ClientQueries \subseteq Queries
\* None (a snap that is not installed) is not an installed snap's record.
ASSUME NoneRecordAssumption == None \notin [channel: Channels, version: Versions]

VARIABLES
    installed,  \* snapd: snap -> [channel, version] or None
    change,     \* snapd: the change in progress per snap
    storeVer,   \* store: version of each catalogue entry
    online,     \* store reachable from snapd
    daemon,     \* snapd process: "up", "down" (refused) or "hung"
    pc,         \* client: the round trip it waits on, or "idle"
    op,         \* client: the Snap method it runs
    arg,        \* client: its app_id
    seenApp,    \* client: existing_app of get_app
    seenAll,    \* client: the /v2/snaps answer of a listing
    seenStore,  \* client: the store as snapd saw it when answering /v2/find
    outcome     \* client: how the last method ended

daemonVars == <<installed, change, storeVer, online, daemon>>
clientVars == <<pc, op, arg, seenApp, seenAll, seenStore, outcome>>
vars == <<daemonVars, clientVars>>

StoreIdx == 1..Len(StoreCat)
AnyVersion == CHOOSE v \in Versions : TRUE
StoreNow == [online |-> online, ver |-> storeVer]
InstalledRec == [channel: Channels, version: Versions]
Changes == {"none", "install", "refresh", "remove"}
Ops == {"install", "upgrade", "remove", "get_app", "list"}
Calls == {"install", "refresh", "remove", "find_installed", "find_in_store",
          "installed_snaps", "available_snaps"}
Outcomes == {"none", "ok", "rejected", "not_found", "error", "unreachable"}

\* The Snap method a caller invokes and the first round trip it makes.
FirstCall(o) ==
    IF o = "upgrade" THEN "refresh"
    ELSE IF o = "get_app" THEN "find_installed"
    ELSE IF o = "list" THEN "installed_snaps"
    ELSE o

\* The Snap method a round trip belongs to.
OpOf(call) ==
    IF call = "refresh" THEN "upgrade"
    ELSE IF call \in {"find_installed", "find_in_store"} THEN "get_app"
    ELSE IF call \in {"installed_snaps", "available_snaps"} THEN "list"
    ELSE call

\* What snapd's answer to a /v2/find depends on: whether the store is
\* reachable and the versions it offers.
StoreView == [online: BOOLEAN, ver: [StoreIdx -> Versions]]
NoView == [online |-> FALSE, ver |-> [i \in StoreIdx |-> AnyVersion]]

(***************************************************************************)
(* snapd's answers (environment, not code of this repository).             *)
(***************************************************************************)
InStore(a) == \E i \in StoreIdx : StoreCat[i].name = a
CanInstall(a) ==
    /\ a \in Names /\ installed[a] = None /\ change[a] = "none"
    /\ online /\ InStore(a)
CanRefresh(a) ==
    /\ a \in Names /\ installed[a] # None /\ change[a] = "none" /\ online
    /\ \E i \in StoreIdx : /\ StoreCat[i].name = a
                           /\ StoreCat[i].channel = installed[a].channel
                           /\ storeVer[i] # installed[a].version
CanRemove(a) == a \in Names /\ installed[a] # None /\ change[a] = "none"

\* GET /v2/snaps/{a}: the snap, or a 404.
SnapResponse(a) ==
    IF a \in Names /\ installed[a] # None
    THEN [code |-> 200,
          result |-> [name |-> a, summary |-> "installed",
                      channel |-> installed[a].channel,
                      version |-> installed[a].version]]
    ELSE [code |-> 404]

\* GET /v2/find?name={q}: exact name, or every snap for "*"; "Error" when
\* nothing matches or the store is offline.
StoreRecord(v, i) == [name |-> StoreCat[i].name, summary |-> "store",
                      channel |-> StoreCat[i].channel, version |-> v.ver[i]]
FindResponse(q, v) ==
    LET all == [i \in StoreIdx |-> StoreRecord(v, i)]
        hits == IF q = Wildcard THEN all
                ELSE SelectSeq(all, LAMBDA r : r.name = q)
    IN IF v.online /\ (q = Wildcard \/ hits # << >>)
       THEN [status |-> "OK", result |-> hits]
       ELSE [status |-> "Error", result |-> << >>]

(***************************************************************************)
(* The daemon's own steps.                                                 *)
(***************************************************************************)
CompleteChange(a) ==
    /\ daemon = "up" /\ change[a] # "none"
    /\ \/ /\ change[a] = "install" /\ online
          /\ \E i \in StoreIdx :
                /\ StoreCat[i].name = a
                /\ installed' = [installed EXCEPT ![a] =
                                   [channel |-> StoreCat[i].channel,
                                    version |-> storeVer[i]]]
       \/ /\ change[a] = "refresh" /\ online
          /\ \E i \in StoreIdx :
                /\ StoreCat[i].name = a
                /\ StoreCat[i].channel = installed[a].channel
                /\ installed' = [installed EXCEPT ![a].version = storeVer[i]]
       \/ /\ change[a] = "remove"
          /\ installed' = [installed EXCEPT ![a] = None]
    /\ change' = [change EXCEPT ![a] = "none"]
    /\ UNCHANGED <<storeVer, online, daemon, clientVars>>

FailChange(a) ==
    /\ daemon = "up" /\ change[a] # "none"
    /\ change' = [change EXCEPT ![a] = "none"]
    /\ UNCHANGED <<installed, storeVer, online, daemon, clientVars>>

Publish(i) ==
    /\ \E v \in Versions : v > storeVer[i] /\ storeVer' = [storeVer EXCEPT ![i] = v]
    /\ UNCHANGED <<installed, change, online, daemon, clientVars>>

ToggleOnline ==
    /\ online' = ~online
    /\ UNCHANGED <<installed, change, storeVer, daemon, clientVars>>

\* snapd stops, restarts, or stops answering; a hung snapd only comes back
\* by being killed (which resets its connections); its changes survive.
DaemonState ==
    /\ \/ daemon = "up" /\ daemon' \in {"down", "hung"}
       \/ daemon = "down" /\ daemon' = "up"
       \/ daemon = "hung" /\ daemon' = "down"
    /\ UNCHANGED <<installed, change, storeVer, online, clientVars>>

(***************************************************************************)
(* The client.                                                             *)
(***************************************************************************)
\* A handler calls a Snap method; nothing is sent yet.
Call(c) ==
    /\ pc[c] = "idle"
    /\ \E o \in Ops, q \in ClientQueries :
          /\ op' = [op EXCEPT ![c] = o]
          /\ arg' = [arg EXCEPT ![c] = IF o = "list" THEN Wildcard ELSE q]
          /\ pc' = [pc EXCEPT ![c] = FirstCall(o)]
    /\ outcome' = [outcome EXCEPT ![c] = "none"]
    /\ seenApp' = [seenApp EXCEPT ![c] = None]
    /\ seenAll' = [seenAll EXCEPT ![c] = [n \in Names |-> None]]
    /\ seenStore' = [seenStore EXCEPT ![c] = NoView]
    /\ UNCHANGED daemonVars

\* Any round trip to a stopped snapd raises a ConnectionError.
Refused(c) ==
    /\ pc[c] # "idle" /\ daemon = "down"
    /\ pc' = [pc EXCEPT ![c] = "idle"]
    /\ outcome' = [outcome EXCEPT ![c] = "unreachable"]
    /\ UNCHANGED <<daemonVars, op, arg, seenApp, seenAll, seenStore>>

\* The three POSTs to /v2/snaps/{app_id}: snapd creates a change or
\* answers with an error.
Post(c, action, ok) ==
    /\ pc[c] = action /\ daemon = "up"
    /\ change' = IF ok THEN [change EXCEPT ![arg[c]] = action] ELSE change
    /\ pc' = [pc EXCEPT ![c] = "idle"]
    /\ UNCHANGED <<installed, storeVer, online, daemon,
                   op, arg, seenApp, seenAll, seenStore>>

\* install: the response is only logged.
Install(c) ==
    /\ Post(c, "install", CanInstall(arg[c]))
    /\ outcome' = [outcome EXCEPT ![c] = "ok"]

\* upgrade: anything but "Accepted" raises with snapd's message.
Upgrade(c) ==
    /\ Post(c, "refresh", CanRefresh(arg[c]))
    /\ outcome' = [outcome EXCEPT ![c] =
                     IF CanRefresh(arg[c]) THEN "ok" ELSE "rejected"]

\* remove: the response is dropped.
Remove(c) ==
    /\ Post(c, "remove", CanRemove(arg[c]))
    /\ outcome' = [outcome EXCEPT ![c] = "ok"]

\* get_app, first round trip: find_installed(app_id).
FindInstalled(c) ==
    /\ pc[c] = "find_installed" /\ daemon = "up"
    /\ seenApp' = [seenApp EXCEPT ![c] = find_installed(SnapResponse(arg[c]))]
    /\ pc' = [pc EXCEPT ![c] = "find_in_store"]
    /\ UNCHANGED <<daemonVars, op, arg, seenAll, seenStore, outcome>>

\* get_app, second round trip: find_in_store(app_id), then the merge or
\* the "not found" exception.
FindInStore(c) ==
    /\ pc[c] = "find_in_store" /\ daemon = "up"
    /\ LET store_app == find_in_store(arg[c], FindResponse(arg[c], StoreNow))
       IN /\ seenStore' = [seenStore EXCEPT ![c] = StoreNow]
          /\ outcome' = [outcome EXCEPT ![c] =
                IF store_app = Crash THEN "error"
                ELSE IF get_app(seenApp[c], store_app) = NotFound THEN "not_found"
                ELSE "ok"]
    /\ pc' = [pc EXCEPT ![c] = "idle"]
    /\ UNCHANGED <<daemonVars, op, arg, seenApp, seenAll>>

\* Listing, first round trip: _installed_snaps().
InstalledSnaps(c) ==
    /\ pc[c] = "installed_snaps" /\ daemon = "up"
    /\ seenAll' = [seenAll EXCEPT ![c] = installed]
    /\ pc' = [pc EXCEPT ![c] = "available_snaps"]
    /\ UNCHANGED <<daemonVars, op, arg, seenApp, seenStore, outcome>>

\* Listing, second round trip: _available_snaps('*'); the reconciliation
\* itself is ListResult below.
AvailableSnaps(c) ==
    /\ pc[c] = "available_snaps" /\ daemon = "up"
    /\ seenStore' = [seenStore EXCEPT ![c] = StoreNow]
    /\ outcome' = [outcome EXCEPT ![c] =
          IF available_snaps(Wildcard, FindResponse(Wildcard, StoreNow)) = Crash
          THEN "error" ELSE "ok"]
    /\ pc' = [pc EXCEPT ![c] = "idle"]
    /\ UNCHANGED <<daemonVars, op, arg, seenApp, seenAll>>

\* What the two reading methods return, from what the client saw.
GetResult(c) ==
    get_app(seenApp[c], find_in_store(arg[c], FindResponse(arg[c], seenStore[c])))
InstalledListing(c) ==
    [k \in 1..Cardinality({n \in Names : seenAll[c][n] # None}) |->
        LET n == CHOOSE m \in Names :
                   /\ seenAll[c][m] # None
                   /\ Cardinality({p \in Names : seenAll[c][p] # None /\ p < m}) = k - 1
        IN [name |-> n, summary |-> "installed",
            channel |-> seenAll[c][n].channel, version |-> seenAll[c][n].version]]
ListResult(c) ==
    join_apps(installed_all_apps(InstalledListing(c)),
              AvailableApps(available_snaps(Wildcard,
                                            FindResponse(Wildcard, seenStore[c]))))

Init ==
    /\ installed \in [Names -> InstalledRec \cup {None}]
    /\ change = [a \in Names |-> "none"]
    /\ storeVer \in [StoreIdx -> Versions]
    /\ online = TRUE
    /\ daemon = "up"
    /\ pc = [c \in Clients |-> "idle"]
    /\ op = [c \in Clients |-> "list"]
    /\ arg = [c \in Clients |-> Wildcard]
    /\ seenApp = [c \in Clients |-> None]
    /\ seenAll = [c \in Clients |-> [n \in Names |-> None]]
    /\ seenStore = [c \in Clients |-> NoView]
    /\ outcome = [c \in Clients |-> "none"]

Daemon ==
    \/ \E a \in Names : CompleteChange(a) \/ FailChange(a)
    \/ \E i \in StoreIdx : Publish(i)
    \/ ToggleOnline
    \/ DaemonState

Client(c) ==
    \/ Call(c) \/ Refused(c)
    \/ Install(c) \/ Upgrade(c) \/ Remove(c)
    \/ FindInstalled(c) \/ FindInStore(c)
    \/ InstalledSnaps(c) \/ AvailableSnaps(c)

Next == Daemon \/ \E c \in Clients : Client(c)

\* A handler thread blocked in a round trip moves on whenever snapd serves
\* it or refuses it: the round trips after Call are strongly fair, since
\* snapd may come and go while the thread waits.  Callers, snapd and the
\* store are not fair.
Fairness == \A c \in Clients : SF_vars(Client(c) /\ pc[c] # "idle")

Spec == Init /\ [][Next]_vars /\ Fairness

(***************************************************************************)
(* Properties.                                                             *)
(***************************************************************************)
TypeOK ==
    /\ installed \in [Names -> InstalledRec \cup {None}]
    /\ change \in [Names -> Changes]
    /\ storeVer \in [StoreIdx -> Versions]
    /\ online \in BOOLEAN
    /\ daemon \in {"up", "down", "hung"}
    /\ pc \in [Clients -> Calls \cup {"idle"}]
    /\ op \in [Clients -> Ops]
    /\ arg \in [Clients -> Queries]
    /\ seenApp \in [Clients -> AppVersions \cup {None}]
    /\ seenAll \in [Clients -> [Names -> InstalledRec \cup {None}]]
    /\ seenStore \in [Clients -> StoreView]
    /\ outcome \in [Clients -> Outcomes]

\* A handler waits only on a round trip of the method it runs.
PcMatchesOp == \A c \in Clients : pc[c] # "idle" => op[c] = OpOf(pc[c])

\* snapd's changes fit the snap's state: an install is of an absent snap,
\* a refresh or a removal of an installed one.
ChangeFitsSnap ==
    \A a \in Names :
        /\ change[a] = "install" => installed[a] = None
        /\ change[a] \in {"refresh", "remove"} => installed[a] # None

(***************************************************************************)
(* A record get_app returns is the record of the app asked for.  The spec  *)
(* (§8) says an id that neither side knows fails with AppNotFound; for the *)
(* id "*", find_in_store runs the wildcard query and get_app returns the   *)
(* first app of the store.                                                 *)
(***************************************************************************)
GetAppIdentity ==
    \A c \in Clients :
        op[c] = "get_app" /\ outcome[c] = "ok" => GetResult(c).app.id = arg[c]

(***************************************************************************)
(* Every Snap method a handler calls eventually returns or raises.  The    *)
(* spec (§5) requires a bounded timeout on every socket call, surfaced as  *)
(* DaemonUnreachable; the requests_unixsocket sessions of snap.py set      *)
(* none, so a snapd that accepts the connection and never answers blocks   *)
(* the handler for ever.                                                   *)
(***************************************************************************)
CallsReturn ==
    \A c \in Clients : pc[c] # "idle" ~> pc[c] = "idle"

(***************************************************************************)
(* The inductive invariant behind TypeOK: a refresh completes on an       *)
(* installed snap, because snapd refuses a removal while the refresh is    *)
(* pending, and a handler only ever waits on a round trip of its own      *)
(* method.                                                                 *)
(***************************************************************************)
IInv == TypeOK /\ ChangeFitsSnap /\ PcMatchesOp

=============================================================================
