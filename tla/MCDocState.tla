---------------------------- MODULE MCDocState ----------------------------
(* Small instances of DocState for TLC. *)
EXTENDS DocState, TLC

CONSTANTS u1, u2, u3, b1, b2

MCAuthorOf == [u \in Update |-> IF u = u2 THEN "ann" ELSE "bob"]

BindingSymmetry == Permutations(Binding)
=============================================================================
