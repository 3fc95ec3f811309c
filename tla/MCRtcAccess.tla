---------------------------- MODULE MCRtcAccess ----------------------------
(* Small instances of RtcAccess for TLC. *)
EXTENDS RtcAccess, TLC

Symmetric == Permutations(Tab)
=============================================================================
