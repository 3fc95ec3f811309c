------------------------------ MODULE DocCache ------------------------------
(***************************************************************************)
(* The backend's cache of document rows and of child lists, beside the     *)
(* table it mirrors.  A call loads its document through the cache, writes  *)
(* the table, refreshes the row, and then throws away the child lists that *)
(* show the document or count it.  A database call is two steps, what it   *)
(* does there and what its caller does with the answer: anything may run   *)
(* in between.  `width` calls may be in progress at once.                  *)
(***************************************************************************)
EXTENDS Trees, Sequences

CONSTANTS
  Doc,
  None,
  Slot,         \* numbers: calls that may be in progress at once
  Chain,        \* the forests of documents the runs start from
  MaxCalls,     \* bound on the calls made
  MAX_DEPTH     \* how far a parent chain is walked

VARIABLES
  row,      \* row[d]: the document in the table; v counts its writes
  cache,    \* cache[d]: the store, d's row or None
  kids,     \* kids[d]: the childrenSnapshotStore, d's children or None
  call,     \* call[s]: a call in progress
  fresh,    \* ids not yet given to a document
  untold,   \* documents deleted by the daily purge: the cache is not told
  begun, width

vars == <<row, cache, kids, call, fresh, untold, begun, width>>

Absent == [v |-> 0, parent |-> None]
Row    == [v : 1 .. MaxCalls + 1, parent : Doc \cup {None}]
Node   == [id : Doc, v : 1 .. MaxCalls + 1, count : 0 .. Cardinality(Doc)]
Idle   == [op |-> "idle", at |-> "idle", id |-> None, to |-> None,
           doc |-> Absent, got |-> Absent,
           list |-> {}, ids |-> {}, left |-> << >>]

Up == [d \in Doc |-> row[d].parent]
ChildIds(p) == {d \in Doc : row[d].parent = p}

\* What the query of loadDirectChildren returns.
Children(p) == {[id |-> d, v |-> row[d].v, count |-> Cardinality(ChildIds(d))] : d \in ChildIds(p)}

TypeOK ==
  /\ row \in [Doc -> Row \cup {Absent}]
  /\ cache \in [Doc -> Row \cup {None}]
  /\ kids \in [Doc -> SUBSET Node \cup {None}]
  /\ call \in [Slot -> [op : {"idle", "get", "children", "create", "update", "move", "remove"},
                        at : {"idle", "gate", "gateFill", "kidsFill", "write", "written", "kids", "parentFill"},
                        id : Doc \cup {None}, to : Doc \cup {None},
                        doc : Row \cup {Absent}, got : Row \cup {Absent}, list : SUBSET Node,
                        ids : SUBSET Doc, left : {<< >>} \cup (Doc \X Doc) \cup {<<d>> : d \in Doc}]]
  /\ fresh \subseteq Doc /\ untold \subseteq Doc
  /\ begun \in 0 .. MaxCalls
  /\ width \in 1 .. Cardinality(Slot)

\* The cache holds every document and child list as it is; entries may expire.
Init ==
  /\ \E up \in Chain : row = [d \in Doc |-> IF up[d] = d THEN Absent ELSE [v |-> 1, parent |-> up[d]]]
  /\ cache = [d \in Doc |-> IF row[d] = Absent THEN None ELSE row[d]]
  /\ kids = [d \in Doc |-> IF row[d] = Absent THEN None ELSE Children(d)]
  /\ call = [s \in Slot |-> Idle]
  /\ fresh = {d \in Doc : row[d] = Absent}
  /\ untold = {}
  /\ begun = 0
  /\ width \in 1 .. Cardinality(Slot)

\* Slots are alike: a call takes the first free one.
Begin(s, c) ==
  /\ call[s] = Idle /\ begun < MaxCalls
  /\ \A t \in Slot : t < s => call[t] # Idle
  /\ Cardinality({t \in Slot : call[t] # Idle}) < width
  /\ call' = [call EXCEPT ![s] = c]
  /\ begun' = begun + 1
  /\ UNCHANGED <<row, cache, kids, fresh, untold, width>>

\* Every call on a document loads its row first.
Start(s, op, d, to) == Begin(s, [Idle EXCEPT !.op = op, !.at = "gate", !.id = d, !.to = to])

\* A new id; the parent is looked up, not loaded.
StartCreate(s, d, to) ==
  /\ d \in fresh
  /\ to # None => row[to] # Absent
  /\ Begin(s, [Idle EXCEPT !.op = "create", !.at = "write", !.id = d, !.to = to])

Rest == UNCHANGED <<fresh, untold, begun, width>>
-----------------------------------------------------------------------------
(***************************************************************************)
(* Loading.                                                                *)
(***************************************************************************)

\* The call goes on with its document's row, or ends where there is none.
GoOn(c, got) ==
  IF got = Absent \/ c.op = "get" THEN Idle
  ELSE [c EXCEPT !.at = "write", !.doc = got, !.got = Absent,
                 !.ids = IF c.op = "remove" THEN Subtree(Up, c.id, None) ELSE {}]

Gate(s) ==
  LET c == call[s] IN
  /\ c.at = "gate"
  /\ call' = [call EXCEPT ![s] = IF cache[c.id] # None THEN GoOn(c, cache[c.id])
                                 ELSE [c EXCEPT !.at = "gateFill", !.got = row[c.id]]]
  /\ UNCHANGED <<row, cache, kids>> /\ Rest

\* cache.set: the row of a document, not the lack of one.
Filled(d, got) == IF got = Absent THEN cache ELSE [cache EXCEPT ![d] = got]

GateFill(s) ==
  LET c == call[s] IN
  /\ c.at = "gateFill"
  /\ cache' = Filled(c.id, c.got)
  /\ call' = [call EXCEPT ![s] = GoOn(c, c.got)]
  /\ UNCHANGED <<row, kids>> /\ Rest

\* The hierarchy's child lists: read, then stored.
ReadChildren(s) ==
  LET c == call[s] IN
  /\ c.op = "children" /\ c.at = "write"
  /\ call' = [call EXCEPT ![s] = IF kids[c.id] # None THEN Idle
                                 ELSE [c EXCEPT !.at = "kidsFill", !.list = Children(c.id)]]
  /\ UNCHANGED <<row, cache, kids>> /\ Rest

KidsFill(s) ==
  LET c == call[s] IN
  /\ c.at = "kidsFill"
  /\ kids' = [kids EXCEPT ![c.id] = c.list]
  /\ call' = [call EXCEPT ![s] = Idle]
  /\ UNCHANGED <<row, cache>> /\ Rest
-----------------------------------------------------------------------------
(***************************************************************************)
(* Writing.                                                                *)
(***************************************************************************)

Listed(p) == IF p = None THEN << >> ELSE <<p>>

\* The row a create, an update or a move leaves.
NewRow(c) == [v |-> row[c.id].v + 1, parent |-> IF c.op = "update" THEN row[c.id].parent ELSE c.to]

Allowed(c) ==
  /\ c.op \in {"create", "update", "move"}
  /\ IF c.op = "create" THEN c.id \in fresh ELSE row[c.id] # Absent
  /\ c.op \in {"create", "move"} /\ c.to # None => row[c.to] # Absent

\* The table first: a write that fails ends the call.
Store(s) ==
  LET c == call[s] IN
  /\ c.at = "write" /\ Allowed(c)
  /\ row' = [row EXCEPT ![c.id] = NewRow(c)]
  /\ call' = [call EXCEPT ![s].at = "written", ![s].got = NewRow(c)]
  /\ fresh' = fresh \ {c.id}
  /\ UNCHANGED <<cache, kids, untold, begun, width>>

Delete(s) ==
  LET c == call[s] IN
  /\ c.op = "remove" /\ c.at = "write" /\ row[c.id] # Absent
  /\ row' = [d \in Doc |-> IF d \in Subtree(Up, c.id, None) THEN Absent ELSE row[d]]
  /\ call' = [call EXCEPT ![s].at = "written"]
  /\ UNCHANGED <<cache, kids>> /\ Rest

Fail(s) ==
  /\ call[s].at = "write"
  /\ call' = [call EXCEPT ![s] = Idle]
  /\ UNCHANGED <<row, cache, kids>> /\ Rest

\* The row is set, or the deleted rows and their child lists thrown away; then
\* the child lists of the parents left and joined are.  An update throws away
\* the list it is in at once.
Refresh(s) ==
  LET c    == call[s]
      left == CASE c.op = "create" -> Listed(c.to)
                [] c.op = "move"   -> Listed(c.doc.parent) \o Listed(c.to)
                [] c.op = "remove" -> Listed(c.doc.parent)
                [] OTHER           -> << >>
  IN
  /\ c.at = "written"
  /\ cache' = IF c.op = "remove" THEN [d \in Doc |-> IF d \in c.ids THEN None ELSE cache[d]]
              ELSE [cache EXCEPT ![c.id] = c.got]
  /\ kids' = [d \in Doc |-> IF d \in c.ids \/ (c.op = "update" /\ d = c.doc.parent) THEN None ELSE kids[d]]
  /\ call' = [call EXCEPT ![s] = IF left = << >> THEN Idle
                                 ELSE [Idle EXCEPT !.op = c.op, !.at = "kids", !.left = left]]
  /\ UNCHANGED row /\ Rest

\* invalidateChildSet of one parent: its own list, and the list that counts
\* its children, once the parent's row is loaded.
NextParent(c) == IF Len(c.left) = 1 THEN Idle
                 ELSE [c EXCEPT !.at = "kids", !.left = Tail(c.left), !.got = Absent]

Without(lists) == [d \in Doc |-> IF d \in lists THEN None ELSE kids[d]]

ThrowLists(s) ==
  LET c == call[s]
      p == Head(c.left)
  IN
  /\ c.at = "kids"
  /\ IF cache[p] # None
     THEN kids' = Without({p, cache[p].parent}) /\ call' = [call EXCEPT ![s] = NextParent(c)]
     ELSE /\ kids' = Without({p})
          /\ call' = [call EXCEPT ![s].at = "parentFill", ![s].got = row[p]]
  /\ UNCHANGED <<row, cache>> /\ Rest

ParentFill(s) ==
  LET c == call[s]
      p == Head(c.left)
  IN
  /\ c.at = "parentFill"
  /\ cache' = Filled(p, c.got)
  /\ kids' = Without({c.got.parent})
  /\ call' = [call EXCEPT ![s] = NextParent(c)]
  /\ UNCHANGED row /\ Rest

\* The daily purge deletes a document of an expired folder and what is nested
\* in it, and a deleted workspace all of its documents: the cache is not told.
Purge(d) ==
  /\ row[d] # Absent /\ row[d].parent = None /\ begun < MaxCalls
  /\ Cardinality({t \in Slot : call[t] # Idle}) < width
  /\ row' = [x \in Doc |-> IF x \in Subtree(Up, d, None) THEN Absent ELSE row[x]]
  /\ untold' = untold \cup Subtree(Up, d, None)
  /\ begun' = begun + 1
  /\ UNCHANGED <<cache, kids, call, fresh, width>>

\* A row's five minutes are over: get or sweep drops it.
ExpireRow(d) ==
  /\ cache[d] # None
  /\ cache' = [cache EXCEPT ![d] = None]
  /\ UNCHANGED <<row, kids, call>> /\ Rest

\* Mutation: the sweep forgets the child lists.
ExpireNoList(d) == kids[d] # None /\ UNCHANGED <<kids, row, cache, call>> /\ Rest

ExpireList(d) ==
  /\ kids[d] # None
  /\ kids' = [kids EXCEPT ![d] = None]
  /\ UNCHANGED <<row, cache, call>> /\ Rest
-----------------------------------------------------------------------------
StartCall(s) ==
  \E d \in Doc :
    \/ \E op \in {"get", "children", "update", "remove"} : row[d] # Absent /\ Start(s, op, d, None)
    \/ \E to \in Doc \cup {None} :
         \/ StartCreate(s, d, to)
         \/ /\ row[d] # Absent
            /\ to # None => row[to] # Absent /\ NoCycle(Up, d, to, MAX_DEPTH, None)
            /\ Start(s, "move", d, to)

Step(s) ==
  \/ Gate(s) \/ GateFill(s) \/ ReadChildren(s) \/ KidsFill(s)
  \/ Store(s) \/ Delete(s) \/ Fail(s) \/ Refresh(s) \/ ThrowLists(s) \/ ParentFill(s)

Next ==
  \/ \E s \in Slot : StartCall(s) \/ Step(s)
  \/ \E d \in Doc : Purge(d) \/ ExpireRow(d) \/ ExpireList(d)

\* Every query is answered or fails; time goes on.
Fairness ==
  /\ \A s \in Slot : WF_vars(Step(s))
  /\ \A d \in Doc : WF_vars(ExpireRow(d)) /\ WF_vars(ExpireList(d))

Spec == Init /\ [][Next]_vars
FairSpec == Spec /\ Fairness
-----------------------------------------------------------------------------
(***************************************************************************)
(* Properties.                                                             *)
(***************************************************************************)

ExactAt(d) == cache[d] \in {None, row[d]} /\ kids[d] \in {None, Children(d)}

\* Of calls one after another: once a call is over, what the cache holds is
\* what the table holds, child counts included; the purge is left out.
CacheExact ==
  (width = 1 /\ \A s \in Slot : call[s] = Idle) => \A d \in Doc \ untold : ExactAt(d)

\* documents.service.ts:128: a failed write never poisons the cache.  However
\* calls interleave, a cached row is one the table held.
CachedWasWritten ==
  \A d \in Doc : cache[d] # None /\ row[d] # Absent =>
    cache[d].v <= row[d].v /\ (cache[d].v = row[d].v => cache[d] = row[d])

\* However the calls interleaved: once they stop, the cache comes to agree
\* with the table and stays so.
CacheHeals == <>[](\A d \in Doc : ExactAt(d))
=============================================================================
