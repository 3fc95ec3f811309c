------------------------------- MODULE RowLog -------------------------------
(***************************************************************************)
(* What compaction promises about one document's update log: rows are      *)
(* appended at the end, and several rows that a snapshot has stood for may  *)
(* become one, which holds all they held, in one step.  No row is dropped. *)
(***************************************************************************)
EXTENDS Integers

CONSTANT MaxSeq

VARIABLES
  log,       \* seq -> the edits its row holds, {} where there is no row
  covered    \* the highest seq a stored snapshot has stood for

Seqs == 1 .. MaxSeq

TypeOK == log \in [Seqs -> SUBSET Seqs] /\ covered \in 0 .. MaxSeq

Init == log = [s \in Seqs |-> {}] /\ covered = 0

\* The edits are numbered in the order of their appends.
AppendEdit(e) ==
  /\ \A s \in Seqs : s >= e => log[s] = {}
  /\ log' = [log EXCEPT ![e] = {e}]
  /\ UNCHANGED covered

Cover ==
  /\ \E s \in Seqs : log[s] # {} /\ covered' = s
  /\ covered' > covered
  /\ UNCHANGED log

Merge(S, last) ==
  /\ last \in S
  /\ \A s \in S : s <= last /\ s <= covered /\ log[s] # {}
  /\ log' = [s \in Seqs |-> IF s = last THEN UNION {log[r] : r \in S}
                            ELSE IF s \in S THEN {} ELSE log[s]]
  /\ UNCHANGED covered

Next ==
  \/ \E e \in Seqs : AppendEdit(e)
  \/ Cover
  \/ \E S \in SUBSET Seqs, last \in Seqs : Merge(S, last)

Spec == Init /\ [][Next]_<<log, covered>>
=============================================================================
