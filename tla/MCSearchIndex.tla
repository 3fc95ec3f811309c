--------------------------- MODULE MCSearchIndex ---------------------------
(***************************************************************************)
(* A small instance of SearchIndex for TLC: one worker with all the faults *)
(* there may be, or two workers whose sweeps overlap and nothing fails.    *)
(***************************************************************************)
EXTENDS SearchIndex

CONSTANTS d1, w1, w2

MCInit ==
  /\ Init
  /\ boot[w1] = "down"
  /\ faults = IF boot[w2] = "absent" THEN 0 ELSE MaxFaults

MCSpec == MCInit /\ [][Next]_vars /\ Fairness
=============================================================================
