--------------------------- MODULE MCMembership ---------------------------
\* The organisation and one workspace, on a small set of users.
EXTENDS Membership, TLC

CONSTANTS o, u1, u2, s1, s2

Symmetry == Permutations({u1, u2}) \cup Permutations({s1, s2})
=============================================================================
