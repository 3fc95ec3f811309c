----------------------------- MODULE DurableDoc -----------------------------
(***************************************************************************)
(* What a document promises to its clients, whatever the server does with  *)
(* snapshots, rows, compaction and crashes.                                *)
(***************************************************************************)
CONSTANTS Update, Legacy

VARIABLES
  taken,   \* the updates clients have made
  stored,  \* those that are safe from a crash
  open,    \* the document is being served
  view     \* what the clients of an open document see

dvars == <<taken, stored, open, view>>

Init == taken = Legacy /\ stored = Legacy /\ open = FALSE /\ view = {}

\* A client edits; its peers see the edit at once if the document is served.
Take(u) ==
  /\ u \notin taken
  /\ taken' = taken \cup {u}
  /\ view' = IF open THEN view \cup {u} ELSE view
  /\ UNCHANGED <<stored, open>>

\* Some edits become safe, for good.
Store ==
  /\ \E S \in SUBSET taken : stored' = stored \cup S
  /\ UNCHANGED <<taken, open, view>>

\* The document is served from what is stored, at least.
Serve ==
  /\ ~open
  /\ open' = TRUE
  /\ stored \subseteq view' /\ view' \in SUBSET taken
  /\ UNCHANGED <<taken, stored>>

\* The last client leaves, or the server dies.
Leave ==
  /\ open
  /\ open' = FALSE
  /\ view' = {}
  /\ UNCHANGED <<taken, stored>>

Next == Store \/ Serve \/ Leave \/ \E u \in Update : Take(u)

Spec == Init /\ [][Next]_dvars
=============================================================================
