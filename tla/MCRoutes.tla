----------------------------- MODULE MCRoutes -----------------------------
(***************************************************************************)
(* Routes with two browsers, two users and two activations: enough for a  *)
(* browser to log in, the device to be deactivated and re-activated for    *)
(* the other user, and the first browser to come back.                     *)
(***************************************************************************)
EXTENDS Routes

CONSTANTS b1, b2, u1, u2

MCBrowsers == {b1, b2}
MCUsers == {u1, u2}

=============================================================================
