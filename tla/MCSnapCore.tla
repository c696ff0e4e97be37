----------------------------- MODULE MCSnapCore -----------------------------
(***************************************************************************)
(* SnapCore for TLC: two snaps, snap 1 on two channels in the store, snap  *)
(* 2 on one, two versions, so that installs, refreshes to a new version,   *)
(* store-only and installed-only apps and per-channel duplicates all occur. *)
(***************************************************************************)
EXTENDS SnapCore

MCStoreCat ==
    << [name |-> 1, channel |-> "stable"],
       [name |-> 1, channel |-> "beta"],
       [name |-> 2, channel |-> "stable"] >>

=============================================================================
