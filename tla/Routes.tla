------------------------------ MODULE Routes ------------------------------
(***************************************************************************)
(* src/syncloud_platform/rest/public.py: the public Flask app, with the    *)
(* error handler it shares in form with rest/api.py.                       *)
(*                                                                         *)
(* Browsers hold a session cookie signed with the web secret key; a        *)
(* request is one handler run.  Every route is gated the way its           *)
(* decorators say: fail_if_not_activated (refused while the device is not  *)
(* activated), login_required (401 unless the session names a user that   *)
(* load_user turns into a user), fail_if_activated (refused once           *)
(* activated).  The backend behind backend_request is the environment; of *)
(* what it does only activation and deactivation change what the routes    *)
(* see.  The directory server (ldap_auth) accepts the device owner's       *)
(* password.                                                               *)
(*                                                                         *)
(* Each activation is numbered (epoch); owners[e] is the owner the device  *)
(* was activated for the e-th time.  A cookie records who logged in and   *)
(* in which epoch; the epoch is a ghost, the cookie itself carries only    *)
(* the user id.                                                            *)
(***************************************************************************)
EXTENDS Naturals

CONSTANTS
    Browsers,   \* clients holding a session cookie
    Users,      \* user names
    UserRoute,  \* the view function `user` of public.py
    NoSession,  \* a browser without a session cookie
    NoUser,     \* no owner (not activated yet)
    MaxEpoch    \* bound on the number of activations

ASSUME RoutesAssumption ==
    /\ MaxEpoch \in Nat \ {0}
    /\ {UserRoute, NoUser} \cap Users = {}

\* Routes behind fail_if_not_activated and login_required, and what
\* answers them: /rest/user, /rest/send_log, /rest/app_image, the backend
\* proxy (backend_proxy_activated), and /rest/deactivate among its paths.
GatedRoutes == {"user", "send_log", "app_image", "proxy", "deactivate"}

Status == {"ok", "redirect", "bad_request", "unauthorised", "not_activated",
           "activated", "error_200", "error_500"}

\* What a handler may raise: nothing, syncloudlib's PassthroughJsonError,
\* ServiceException, or anything else (a backend connection error).
Raised == {"none", "PassthroughJsonError", "ServiceException", "Other"}

\* handle_exception: 200 for a ServiceException, 500 otherwise (the
\* PassthroughJsonError's own JSON, or the message).  rest/api.py's handler
\* answers 500 to everything.
handle_exception(e) == IF e = "ServiceException" THEN "error_200" ELSE "error_500"

Session == [user: Users, epoch: 1..MaxEpoch]

VARIABLES
    activated,  \* backend: the device is activated
    epoch,      \* ghost: the number of activations so far
    owners,     \* ghost: the owner of each activation
    cookie,     \* browser: its session
    last        \* ghost: the last response of each browser

vars == <<activated, epoch, owners, cookie, last>>

Response == [route: GatedRoutes \cup {"login", "logout", "activate", "status"},
             status: Status, as: Users \cup {UserRoute, NoUser},
             session: Session \cup {NoSession}, at: 0..MaxEpoch]

Respond(b, r, s, as) ==
    last' = [last EXCEPT ![b] = [route |-> r, status |-> s, as |-> as,
                                 session |-> cookie[b], at |-> epoch]]

\* load_user(user_id): `FlaskUser(User(user))`, built from the view
\* function `user`, not from user_id; never None.
load_user(user_id) == UserRoute

\* The owner of the current activation.
Owner == IF epoch = 0 THEN NoUser ELSE owners[epoch]

\* Mutant of login: login_user called before ldap_auth.authenticate, so a
\* failed password still leaves a session behind the 400.
loginBeforeAuth(b) ==
    /\ activated
    /\ \E u \in Users, password \in BOOLEAN :
         /\ cookie' = [cookie EXCEPT ![b] = [user |-> u, epoch |-> epoch]]
         /\ last' = [last EXCEPT ![b] = [route |-> "login",
                       status |-> IF u = Owner /\ password THEN "redirect"
                                  ELSE "bad_request",
                       as |-> u, session |-> cookie'[b], at |-> epoch]]
    /\ UNCHANGED <<activated, epoch, owners>>

(***************************************************************************)
(* POST /rest/login.  With both fields present the directory checks the    *)
(* password; on success login_user stores the user id in the session and  *)
(* the answer is a redirect, on failure the exception's message with 400. *)
(***************************************************************************)
login(b) ==
    /\ \/ /\ ~activated
          /\ Respond(b, "login", "not_activated", NoUser)
          /\ UNCHANGED cookie
       \/ /\ activated
          /\ \E u \in Users, fields \in BOOLEAN, password \in BOOLEAN :
               IF fields /\ u = Owner /\ password
               THEN /\ cookie' = [cookie EXCEPT ![b] = [user |-> u, epoch |-> epoch]]
                    /\ last' = [last EXCEPT ![b] = [route |-> "login",
                                  status |-> "redirect", as |-> u,
                                  session |-> cookie'[b], at |-> epoch]]
               ELSE /\ Respond(b, "login", "bad_request", NoUser)
                    /\ UNCHANGED cookie
    /\ UNCHANGED <<activated, epoch, owners>>

\* login_required: a session the user_loader accepts.
Authorised(b) == cookie[b] # NoSession

\* POST /rest/logout: logout_user clears the session.
logout(b) ==
    /\ \/ /\ ~activated
          /\ Respond(b, "logout", "not_activated", NoUser)
          /\ UNCHANGED cookie
       \/ /\ activated /\ ~Authorised(b)
          /\ Respond(b, "logout", "unauthorised", NoUser)
          /\ UNCHANGED cookie
       \/ /\ activated /\ Authorised(b)
          /\ Respond(b, "logout", "ok", load_user(cookie[b].user))
          /\ cookie' = [cookie EXCEPT ![b] = NoSession]
    /\ UNCHANGED <<activated, epoch, owners>>

(***************************************************************************)
(* A route behind fail_if_not_activated and login_required, run as         *)
(* current_user (load_user of the session's id).  /rest/deactivate is      *)
(* forwarded to the backend, which deactivates the device; a handler that  *)
(* raises goes to handle_exception and changes nothing.                    *)
(***************************************************************************)
Gated(b) ==
    /\ \E r \in GatedRoutes :
         \/ /\ ~activated
            /\ Respond(b, r, "not_activated", NoUser)
            /\ UNCHANGED activated
         \/ /\ activated /\ ~Authorised(b)
            /\ Respond(b, r, "unauthorised", NoUser)
            /\ UNCHANGED activated
         \/ /\ activated /\ Authorised(b)
            /\ \E e \in Raised :
                 IF e = "none"
                 THEN /\ Respond(b, r, "ok", load_user(cookie[b].user))
                      /\ activated' = (r # "deactivate")
                 ELSE /\ Respond(b, r, handle_exception(e), load_user(cookie[b].user))
                      /\ UNCHANGED activated
    /\ UNCHANGED <<epoch, owners, cookie>>

(***************************************************************************)
(* /rest/activate/managed and /rest/activate/custom, behind                *)
(* fail_if_activated: the backend activates the device for a new owner.    *)
(***************************************************************************)
Activate(b) ==
    /\ \/ /\ activated
          /\ Respond(b, "activate", "activated", NoUser)
          /\ UNCHANGED <<activated, epoch, owners>>
       \/ /\ ~activated /\ epoch < MaxEpoch
          /\ \E u \in Users :
               /\ owners' = [owners EXCEPT ![epoch + 1] = u]
               /\ epoch' = epoch + 1
               /\ activated' = TRUE
               /\ Respond(b, "activate", "ok", NoUser)
    /\ UNCHANGED cookie

\* /rest/activation/status and /rest/id: forwarded without any gate.
Status_(b) ==
    /\ Respond(b, "status", "ok", NoUser)
    /\ UNCHANGED <<activated, epoch, owners, cookie>>

Init ==
    /\ epoch \in {0, 1}
    /\ activated = (epoch = 1)
    /\ owners \in [1..MaxEpoch -> Users]
    /\ cookie = [b \in Browsers |-> NoSession]
    /\ last = [b \in Browsers |-> [route |-> "status", status |-> "ok",
                                   as |-> NoUser, session |-> NoSession,
                                   at |-> epoch]]

Next == \E b \in Browsers :
            login(b) \/ logout(b) \/ Gated(b) \/ Activate(b) \/ Status_(b)

Spec == Init /\ [][Next]_vars

TypeOK ==
    /\ activated \in BOOLEAN
    /\ epoch \in 0..MaxEpoch
    /\ owners \in [1..MaxEpoch -> Users]
    /\ cookie \in [Browsers -> Session \cup {NoSession}]
    /\ last \in [Browsers -> Response]

(***************************************************************************)
(* A session cookie exists only for the user ldap_auth accepted when it    *)
(* was opened: whatever logins, logouts, deactivations and re-activations  *)
(* happened since, every browser's session names the owner of the          *)
(* activation it was opened in (login stores the session only after       *)
(* authenticate returned).                                                 *)
(***************************************************************************)
SessionsAreAuthenticated ==
    \A b \in Browsers :
        cookie[b] # NoSession =>
            /\ cookie[b].epoch <= epoch
            /\ cookie[b].user = owners[cookie[b].epoch]

(***************************************************************************)
(* A route behind login_required is served only on a session opened in the *)
(* current activation.  Neither deactivation nor a new activation ends the *)
(* sessions of earlier ones, and load_user accepts any id, so a browser    *)
(* logged in as the old owner keeps using the device after it has been     *)
(* deactivated and activated for someone else.                             *)
(***************************************************************************)
GatedServedInCurrentActivation ==
    \A b \in Browsers :
        last[b].route \in GatedRoutes /\ last[b].status = "ok"
            => last[b].session.epoch = last[b].at

=============================================================================
