--------------------------- MODULE SnapCoreProofs ---------------------------
(***************************************************************************)
(* Proofs about SnapCore for every value of the constants: the type        *)
(* invariant, from the inductive invariant IInv.                           *)
(***************************************************************************)
EXTENDS SnapCore, SequenceTheorems, TLAPS

(***************************************************************************)
(* Lemmas on the operators the client is built from.                       *)
(***************************************************************************)

\* _installed_app turns a raw /v2/snaps record into an AppVersions.
LEMMA InstalledAppType ==
    ASSUME NEW r \in RawRecord
    PROVE  InstalledApp(r) \in AppVersions
BY DEF InstalledApp, to_app, RawRecord, AppVersions, AppRec

\* find_installed on snapd's answer is an AppVersions or None.
LEMMA FindInstalledType ==
    ASSUME TypeOK, NEW a \in Queries
    PROVE  find_installed(SnapResponse(a)) \in AppVersions \cup {None}
<1>1. CASE a \in Names /\ installed[a] # None
    <2>1. installed[a] \in InstalledRec
        BY <1>1 DEF TypeOK
    <2>2. SnapResponse(a).result \in RawRecord
        BY <1>1, <2>1 DEF SnapResponse, RawRecord, InstalledRec
    <2>3. SnapResponse(a).code # 404
        BY <1>1 DEF SnapResponse
    <2>. QED
        BY <2>2, <2>3, InstalledAppType DEF find_installed
<1>2. CASE ~(a \in Names /\ installed[a] # None)
    BY <1>2 DEF find_installed, SnapResponse
<1>. QED
    BY <1>1, <1>2

\* The store as snapd sees it, and the placeholder a handler starts with.
LEMMA StoreViewType ==
    ASSUME TypeOK
    PROVE  /\ StoreNow \in StoreView
           /\ NoView \in StoreView
<1>1. AnyVersion \in Versions
    BY VersionsAssumption DEF AnyVersion
<1>. QED
    BY <1>1 DEF TypeOK, StoreNow, NoView, StoreView

\* The first round trip of a method belongs to that method.
LEMMA FirstCallType ==
    ASSUME NEW o \in Ops
    PROVE  /\ FirstCall(o) \in Calls
           /\ OpOf(FirstCall(o)) = o
BY DEF FirstCall, OpOf, Ops, Calls

(***************************************************************************)
(* IInv holds initially and is preserved by every step.                    *)
(***************************************************************************)
LEMMA InitIInv == Init => IInv
<1>. SUFFICES ASSUME Init PROVE IInv
    OBVIOUS
<1>1. TypeOK
    <2>1. NoView \in StoreView
        BY VersionsAssumption DEF NoView, StoreView, AnyVersion
    <2>. QED
        BY <2>1, WildcardAssumption
        DEF Init, TypeOK, Changes, Ops, Queries, Outcomes
<1>2. ChangeFitsSnap
    BY DEF Init, ChangeFitsSnap
<1>3. PcMatchesOp
    BY DEF Init, PcMatchesOp
<1>. QED
    BY <1>1, <1>2, <1>3 DEF IInv

\* The daemon's steps leave the handlers alone.
LEMMA DaemonIInv ==
    ASSUME IInv, Daemon
    PROVE  IInv'
<1>1. UNCHANGED clientVars
    BY DEF Daemon, CompleteChange, FailChange, Publish, ToggleOnline,
           DaemonState, clientVars
<1>2. PcMatchesOp'
    BY <1>1 DEF IInv, clientVars, PcMatchesOp
<1>. SUFFICES TypeOK' /\ ChangeFitsSnap'
    BY <1>2 DEF IInv
<1>. USE DEF IInv
<1>3. CASE \E a \in Names : CompleteChange(a)
    <2>. PICK a \in Names : CompleteChange(a)
        BY <1>3
    <2>1. CASE change[a] = "install" /\ online
              /\ \E i \in StoreIdx :
                    /\ StoreCat[i].name = a
                    /\ installed' = [installed EXCEPT ![a] =
                                       [channel |-> StoreCat[i].channel,
                                        version |-> storeVer[i]]]
        <3>. PICK i \in StoreIdx :
                    /\ StoreCat[i].name = a
                    /\ installed' = [installed EXCEPT ![a] =
                                       [channel |-> StoreCat[i].channel,
                                        version |-> storeVer[i]]]
            BY <2>1
        <3>1. StoreCat[i].channel \in Channels
            <4>1. StoreCat[i] \in [name: Names, channel: Channels]
                BY StoreCatAssumption, ElementOfSeq DEF StoreIdx
            <4>. QED
                BY <4>1
        <3>2. storeVer[i] \in Versions
            BY DEF TypeOK
        <3>. QED
            BY <1>1, <3>1, <3>2
            DEF CompleteChange, TypeOK, ChangeFitsSnap, InstalledRec,
                Changes, clientVars
    <2>2. CASE change[a] = "refresh" /\ online
              /\ \E i \in StoreIdx :
                    /\ StoreCat[i].name = a
                    /\ StoreCat[i].channel = installed[a].channel
                    /\ installed' = [installed EXCEPT ![a].version = storeVer[i]]
        <3>. PICK i \in StoreIdx :
                    /\ installed' = [installed EXCEPT ![a].version = storeVer[i]]
            BY <2>2
        <3>1. installed[a] \in InstalledRec
            BY <2>2 DEF TypeOK, ChangeFitsSnap
        <3>2. storeVer[i] \in Versions
            BY DEF TypeOK
        <3>. QED
            BY <1>1, <2>2, <3>1, <3>2
            DEF CompleteChange, TypeOK, ChangeFitsSnap, InstalledRec,
                Changes, clientVars
    <2>3. CASE change[a] = "remove" /\ installed' = [installed EXCEPT ![a] = None]
        BY <1>1, <2>3
        DEF CompleteChange, TypeOK, ChangeFitsSnap, Changes, clientVars
    <2>. QED
        BY <2>1, <2>2, <2>3 DEF CompleteChange
<1>4. CASE \E a \in Names : FailChange(a)
    BY <1>1, <1>2, <1>4 DEF FailChange, TypeOK, ChangeFitsSnap, Changes, clientVars
<1>5. CASE \E i \in StoreIdx : Publish(i)
    BY <1>1, <1>2, <1>5 DEF Publish, TypeOK, ChangeFitsSnap, clientVars
<1>6. CASE ToggleOnline
    BY <1>1, <1>2, <1>6 DEF ToggleOnline, TypeOK, ChangeFitsSnap, clientVars
<1>7. CASE DaemonState
    BY <1>1, <1>2, <1>7 DEF DaemonState, TypeOK, ChangeFitsSnap, clientVars
<1>. QED
    BY <1>3, <1>4, <1>5, <1>6, <1>7 DEF Daemon

\* A handler's step changes only its own entries and snapd's changes.
LEMMA ClientIInv ==
    ASSUME IInv, NEW c \in Clients, Client(c)
    PROVE  IInv'
<1>. USE DEF IInv
<1>1. CASE Call(c)
    <2>0. PICK o \in Ops, q \in ClientQueries :
              /\ op' = [op EXCEPT ![c] = o]
              /\ arg' = [arg EXCEPT ![c] = IF o = "list" THEN Wildcard ELSE q]
              /\ pc' = [pc EXCEPT ![c] = FirstCall(o)]
        BY <1>1 DEF Call
    <2>1. /\ FirstCall(o) \in Calls
          /\ OpOf(FirstCall(o)) = o
        BY FirstCallType
    <2>2. (IF o = "list" THEN Wildcard ELSE q) \in Queries
        BY ClientQueriesAssumption DEF Queries
    <2>3. NoView \in StoreView
        BY StoreViewType
    <2>4. TypeOK'
        <3>1. UNCHANGED daemonVars
            BY <1>1 DEF Call
        <3>2. /\ op' \in [Clients -> Ops]
              /\ arg' \in [Clients -> Queries]
              /\ pc' \in [Clients -> Calls \cup {"idle"}]
            BY <2>0, <2>1, <2>2 DEF TypeOK
        <3>3. /\ seenApp' \in [Clients -> AppVersions \cup {None}]
              /\ seenAll' \in [Clients -> [Names -> InstalledRec \cup {None}]]
              /\ seenStore' \in [Clients -> StoreView]
              /\ outcome' \in [Clients -> Outcomes]
            BY <1>1, <2>3 DEF Call, TypeOK, Outcomes
        <3>. QED
            BY <3>1, <3>2, <3>3 DEF TypeOK, daemonVars
    <2>5. ChangeFitsSnap'
        BY <1>1 DEF Call, ChangeFitsSnap, daemonVars
    <2>6. PcMatchesOp'
        BY <1>1, <2>0, <2>1 DEF Call, PcMatchesOp, TypeOK
    <2>. QED
        BY <2>4, <2>5, <2>6
<1>2. CASE Refused(c)
    BY <1>2 DEF Refused, TypeOK, ChangeFitsSnap, PcMatchesOp,
                daemonVars, Outcomes
<1>3. CASE Install(c)
    <2>1. op[c] = "install"
        BY <1>3 DEF Install, Post, PcMatchesOp, OpOf
    <2>. QED
        BY <1>3, <2>1 DEF Install, Post, CanInstall, TypeOK, ChangeFitsSnap,
                          PcMatchesOp, Changes, Outcomes
<1>4. CASE Upgrade(c)
    <2>1. op[c] = "upgrade"
        BY <1>4 DEF Upgrade, Post, PcMatchesOp, OpOf
    <2>. QED
        BY <1>4, <2>1 DEF Upgrade, Post, CanRefresh, TypeOK, ChangeFitsSnap,
                          PcMatchesOp, Changes, Outcomes
<1>5. CASE Remove(c)
    <2>1. op[c] = "remove"
        BY <1>5 DEF Remove, Post, PcMatchesOp, OpOf
    <2>. QED
        BY <1>5, <2>1 DEF Remove, Post, CanRemove, TypeOK, ChangeFitsSnap,
                          PcMatchesOp, Changes, Outcomes
<1>6. CASE FindInstalled(c)
    <2>1. find_installed(SnapResponse(arg[c])) \in AppVersions \cup {None}
        BY FindInstalledType DEF TypeOK
    <2>2. op[c] = "get_app"
        BY <1>6 DEF FindInstalled, PcMatchesOp, OpOf
    <2>. QED
        BY <1>6, <2>1, <2>2 DEF FindInstalled, TypeOK, ChangeFitsSnap, PcMatchesOp,
                                daemonVars, Calls, OpOf
<1>7. CASE FindInStore(c)
    <2>1. StoreNow \in StoreView
        BY StoreViewType
    <2>2. op[c] = "get_app"
        BY <1>7 DEF FindInStore, PcMatchesOp, OpOf
    <2>. QED
        BY <1>7, <2>1, <2>2 DEF FindInStore, TypeOK, ChangeFitsSnap, PcMatchesOp,
                                daemonVars, Outcomes
<1>8. CASE InstalledSnaps(c)
    <2>1. op[c] = "list"
        BY <1>8 DEF InstalledSnaps, PcMatchesOp, OpOf
    <2>. QED
        BY <1>8, <2>1 DEF InstalledSnaps, TypeOK, ChangeFitsSnap, PcMatchesOp,
                          daemonVars, Calls, OpOf
<1>9. CASE AvailableSnaps(c)
    <2>1. StoreNow \in StoreView
        BY StoreViewType
    <2>2. op[c] = "list"
        BY <1>9 DEF AvailableSnaps, PcMatchesOp, OpOf
    <2>. QED
        BY <1>9, <2>1, <2>2 DEF AvailableSnaps, TypeOK, ChangeFitsSnap, PcMatchesOp,
                                daemonVars, Outcomes
<1>. QED
    BY <1>1, <1>2, <1>3, <1>4, <1>5, <1>6, <1>7, <1>8, <1>9 DEF Client

LEMMA NextIInv == IInv /\ [Next]_vars => IInv'
<1>. SUFFICES ASSUME IInv, [Next]_vars PROVE IInv'
    OBVIOUS
<1>1. CASE Daemon
    BY <1>1, DaemonIInv
<1>2. CASE \E c \in Clients : Client(c)
    BY <1>2, ClientIInv
<1>3. CASE UNCHANGED vars
    BY <1>3 DEF vars, daemonVars, clientVars, IInv, TypeOK, ChangeFitsSnap,
                PcMatchesOp
<1>. QED
    BY <1>1, <1>2, <1>3 DEF Next

(***************************************************************************)
(* The theorems.                                                           *)
(***************************************************************************)

\* Every reachable state is well typed: snapd's state, the handlers' control
\* state, and what each handler has seen of snapd.
THEOREM TypeCorrect == Spec => []TypeOK
<1>1. Spec => []IInv
    BY InitIInv, NextIInv, PTL DEF Spec
<1>. QED
    BY <1>1, PTL DEF IInv

=============================================================================
