---------------------------- MODULE RoutesProofs ----------------------------
(***************************************************************************)
(* Proofs about the public routes, for any browsers, users and bound on   *)
(* activations.                                                            *)
(***************************************************************************)
EXTENDS Routes, TLAPS

\* SessionsAreAuthenticated alone is not inductive: login reads the owner
\* of the current activation, which is a user only once the device has
\* been activated at least once.
IInv == /\ TypeOK
        /\ activated => epoch >= 1
        /\ SessionsAreAuthenticated

LEMMA InitIInv == Init => IInv
<1> SUFFICES ASSUME Init PROVE IInv
    OBVIOUS
<1>1. epoch \in 0..MaxEpoch /\ (activated => epoch >= 1)
    <2>1. epoch \in {0, 1} /\ (activated => epoch = 1)
        BY Zenon DEF Init
    <2>2. QED
        BY <2>1, RoutesAssumption
<1>2. last \in [Browsers -> Response]
    BY <1>1 DEF Init, Response, GatedRoutes, Status
<1>3. cookie \in [Browsers -> Session \cup {NoSession}]
    BY DEF Init
<1>4. QED
    BY <1>1, <1>2, <1>3 DEF Init, IInv, TypeOK, SessionsAreAuthenticated

\* A response record is a Response when its fields are.
LEMMA RespondType ==
    ASSUME TypeOK, NEW b \in Browsers, NEW r, NEW s, NEW as,
           r \in GatedRoutes \cup {"login", "logout", "activate", "status"},
           s \in Status, as \in Users \cup {UserRoute, NoUser},
           Respond(b, r, s, as)
    PROVE  last' \in [Browsers -> Response]
    BY DEF TypeOK, Respond, Response

LEMMA NextIInv == IInv /\ [Next]_vars => IInv'
<1> SUFFICES ASSUME IInv, [Next]_vars PROVE IInv'
    OBVIOUS
<1> USE RoutesAssumption
<1>1. ASSUME NEW b \in Browsers, login(b) PROVE IInv'
    <2>1. CASE ~activated /\ Respond(b, "login", "not_activated", NoUser)
                          /\ UNCHANGED cookie
        BY <1>1, <2>1, RespondType
           DEF login, IInv, TypeOK, SessionsAreAuthenticated, Status
    <2>2. CASE activated
        <3>a. PICK u \in Users, fields \in BOOLEAN, password \in BOOLEAN :
                IF fields /\ u = Owner /\ password
                THEN /\ cookie' = [cookie EXCEPT ![b] = [user |-> u, epoch |-> epoch]]
                     /\ last' = [last EXCEPT ![b] = [route |-> "login",
                                   status |-> "redirect", as |-> u,
                                   session |-> cookie'[b], at |-> epoch]]
                ELSE /\ Respond(b, "login", "bad_request", NoUser)
                     /\ UNCHANGED cookie
            BY <1>1, <2>2 DEF login
        <3>b. CASE fields /\ u = Owner /\ password
            <4>1. epoch \in 1..MaxEpoch /\ u = owners[epoch]
                BY <2>2, <3>b DEF IInv, TypeOK, Owner
            <4>2. cookie' \in [Browsers -> Session \cup {NoSession}]
                BY <3>a, <3>b, <4>1 DEF IInv, TypeOK, Session
            <4>3. last' \in [Browsers -> Response]
                BY <3>a, <3>b, <4>1, <4>2 DEF IInv, TypeOK, Response, Status
            <4>4. SessionsAreAuthenticated'
                BY <1>1, <3>a, <3>b, <4>1
                   DEF login, IInv, TypeOK, SessionsAreAuthenticated
            <4>5. QED
                BY <1>1, <4>2, <4>3, <4>4 DEF login, IInv, TypeOK
        <3>c. CASE ~(fields /\ u = Owner /\ password)
            BY <1>1, <3>a, <3>c, RespondType
               DEF login, IInv, TypeOK, SessionsAreAuthenticated, Status
        <3>d. QED
            BY <3>b, <3>c
    <2>3. QED
        BY <1>1, <2>1, <2>2 DEF login
<1>2. ASSUME NEW b \in Browsers, logout(b) PROVE IInv'
    BY <1>2, RespondType
       DEF logout, load_user, Authorised, IInv, TypeOK,
           SessionsAreAuthenticated, Status, Session
<1>3. ASSUME NEW b \in Browsers, Gated(b) PROVE IInv'
    <2>1. PICK r \in GatedRoutes :
            \/ /\ ~activated
               /\ Respond(b, r, "not_activated", NoUser)
               /\ UNCHANGED activated
            \/ /\ activated /\ ~Authorised(b)
               /\ Respond(b, r, "unauthorised", NoUser)
               /\ UNCHANGED activated
            \/ /\ activated /\ Authorised(b)
               /\ \E e \in Raised :
                    IF e = "none"
                    THEN /\ Respond(b, r, "ok", load_user(cookie[b].user))
                         /\ activated' = (r # "deactivate")
                    ELSE /\ Respond(b, r, handle_exception(e), load_user(cookie[b].user))
                         /\ UNCHANGED activated
        BY <1>3 DEF Gated
    <2>2. last' \in [Browsers -> Response]
        BY <2>1, RespondType DEF IInv, Status, load_user, handle_exception
    <2>3. activated' \in BOOLEAN /\ (activated' => activated)
        <3>1. CASE activated /\ Authorised(b)
            <4>1. PICK e \in Raised :
                    IF e = "none"
                    THEN /\ Respond(b, r, "ok", load_user(cookie[b].user))
                         /\ activated' = (r # "deactivate")
                    ELSE /\ Respond(b, r, handle_exception(e), load_user(cookie[b].user))
                         /\ UNCHANGED activated
                BY <2>1, <3>1
            <4>2. QED
                BY <3>1, <4>1 DEF IInv, TypeOK
        <3>2. CASE ~(activated /\ Authorised(b))
            BY <2>1, <3>2 DEF IInv, TypeOK
        <3>3. QED
            BY <3>1, <3>2
    <2>4. QED
        BY <1>3, <2>2, <2>3
           DEF Gated, IInv, TypeOK, SessionsAreAuthenticated
<1>4. ASSUME NEW b \in Browsers, Activate(b) PROVE IInv'
    <2>1. CASE activated /\ Respond(b, "activate", "activated", NoUser)
                         /\ UNCHANGED <<activated, epoch, owners>>
        BY <1>4, <2>1, RespondType
           DEF Activate, IInv, TypeOK, SessionsAreAuthenticated, Status
    <2>2. CASE ~activated /\ epoch < MaxEpoch
        <3>a. PICK u \in Users :
                /\ owners' = [owners EXCEPT ![epoch + 1] = u]
                /\ epoch' = epoch + 1
                /\ activated' = TRUE
                /\ Respond(b, "activate", "ok", NoUser)
            BY <1>4, <2>2 DEF Activate
        <3>b. last' \in [Browsers -> Response]
            BY <3>a, RespondType DEF IInv, Status
        <3>c. \A e \in 1..epoch : owners'[e] = owners[e]
            BY <3>a DEF IInv, TypeOK
        <3>d. QED
            BY <1>4, <2>2, <3>a, <3>b, <3>c
               DEF Activate, IInv, TypeOK, SessionsAreAuthenticated, Session
    <2>3. QED
        BY <1>4, <2>1, <2>2 DEF Activate
<1>5. ASSUME NEW b \in Browsers, Status_(b) PROVE IInv'
    BY <1>5, RespondType
       DEF Status_, IInv, TypeOK, SessionsAreAuthenticated, Status
<1>6. CASE UNCHANGED vars
    BY <1>6 DEF vars, IInv, TypeOK, SessionsAreAuthenticated
<1>7. QED
    BY <1>1, <1>2, <1>3, <1>4, <1>5, <1>6 DEF Next

(***************************************************************************)
(* Every session cookie public.py's login hands out names the owner        *)
(* ldap_auth authenticated in the activation it was opened in, across any  *)
(* number of browsers, logins, logouts, deactivations and activations.     *)
(***************************************************************************)
THEOREM SessionsAuthenticated == Spec => []SessionsAreAuthenticated
<1>1. Spec => []IInv
    BY InitIInv, NextIInv, PTL DEF Spec
<1>2. QED
    BY <1>1, PTL DEF IInv

=============================================================================
