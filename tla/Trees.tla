------------------------------- MODULE Trees -------------------------------
(***************************************************************************)
(* Trees kept as parent pointers: up[x] is x's parent, or None for a root. *)
(* Nothing keeps such a map acyclic but the checks made before a move.     *)
(***************************************************************************)
EXTENDS Naturals, FiniteSets

\* The nodes a walk of n steps up from x meets, x included.
Walk(up, x, n, None) ==
  LET at[i \in 0 .. n] == IF i = 0 THEN x ELSE IF at[i-1] = None THEN None ELSE up[at[i-1]]
  IN  {at[i] : i \in 0 .. n} \ {None}

Size(up) == Cardinality(DOMAIN up)

Subtree(up, x, None) == {y \in DOMAIN up : x \in Walk(up, y, Size(up), None)}
OnCycle(up, x, None) == up[x] # None /\ x \in Walk(up, up[x], Size(up), None)

\* assertNoDocCycle, assertNoCycle: p and at most `depth` - 1 ancestors of it
\* are compared with x.
NoCycle(up, x, p, depth, None) == p # x /\ (depth > 0 => x \notin Walk(up, p, depth - 1, None))
=============================================================================
