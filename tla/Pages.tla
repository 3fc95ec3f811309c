------------------------------- MODULE Pages -------------------------------
(***************************************************************************)
(* The pages of a workspace as one member's browser shows them: the list   *)
(* behind the side panel (an infinite query paged by offset), the page     *)
(* that is open (taken from the list, or fetched alone when the list does  *)
(* not hold it), and the stream of workspace events that has the list      *)
(* fetched again.  Renaming, starring and the full-width switch patch the  *)
(* caches in place; creating and deleting fetch the list again.            *)
(*                                                                         *)
(* A refetch of the list reads its pages one after another, each at its    *)
(* own time; a fetch of one more page starts from the pages as they are    *)
(* when it begins.  A page fetched alone does not grow old here.           *)
(***************************************************************************)
EXTENDS Integers, Sequences, FiniteSetsExt

CONSTANTS
  Doc,          \* ids of pages
  None, Gone,   \* no page yet; a page that was deleted
  DOCS_PAGE,    \* rows per fetch of the list
  Slot,         \* the calls this client makes
  MaxEvents     \* bound on clicks, calls, refusals, foreign changes and lost streams, together

VARIABLES
  rows,         \* the documents, as the server has them
  clock,        \* the last updatedAt
  pages, query, \* the cached list: its pages; the query [step, next, got, want]
  single, squery,   \* the pages fetched alone [row, stale, err]; their queries
  open,         \* the page in ?doc=
  expanded, folded, \* the rows expanded; history: one was collapsed since the last reveal
  up, ring,     \* the event stream: connected; events on their way
  call,         \* the calls, in flight or over
  mine,         \* history: pages this client deleted
  unheard,      \* history: why the list may miss a change until it is next read
  events

server == <<rows, clock>>
client == <<pages, query, single, squery, open, expanded, folded>>
vars   == <<server, client, up, ring, call, mine, unheard, events>>

Live  == {d \in Doc : rows[d] \notin {None, Gone}}
Title == {"a", "b"}
Row(d, parent) == [id |-> d, title |-> "a", wide |-> FALSE, star |-> FALSE, at |-> 0, parent |-> parent]

IdleList == [step |-> "idle", next |-> FALSE, got |-> <<>>, want |-> 0]
Idle     == [step |-> "idle", got |-> None]
Due      == [Idle EXCEPT !.step = "due"]
NoSingle == [row |-> None, stale |-> FALSE, err |-> FALSE]
NoCall   == [op |-> "none", id |-> 0, val |-> "a", step |-> "none", alone |-> TRUE]

TypeOK ==
  /\ \A d \in Live : rows[d].id = d /\ rows[d].at <= clock /\ rows[d].parent \in Doc \cup {0}
  /\ query.step \in {"idle", "due", "read"} /\ Len(query.got) <= Cardinality(Doc) + 1
  /\ open \in Doc \cup {0} /\ expanded \subseteq Doc /\ up \in BOOLEAN /\ ring \in Nat
  /\ \A d \in Doc : squery[d].step \in {"idle", "due", "read"}
  /\ \A s \in Slot : call[s].step \in {"none", "sent", "done", "failed", "over"}
  /\ unheard \subseteq {"stream", "scroll", "order", "load"} /\ mine \subseteq Doc

\* A member enters the workspace by its address or by a link to a page: every
\* page stands under the one before it, the last is not created yet.
Init ==
  /\ rows = [d \in Doc |-> IF d + 1 \in Doc THEN Row(d, d - 1) ELSE None]
  /\ clock = 0
  /\ pages = <<>> /\ query = [IdleList EXCEPT !.step = "due", !.want = 1]
  /\ open \in {0} \cup Live
  /\ single = [d \in Doc |-> NoSingle]
  /\ squery = [d \in Doc |-> IF d = open THEN Due ELSE Idle]
  /\ expanded = {d \in Doc : d = open} /\ folded = FALSE
  /\ up = TRUE /\ ring = 0
  /\ call = [s \in Slot |-> NoCall] /\ mine = {} /\ unheard = {} /\ events = 0
-----------------------------------------------------------------------------
(***************************************************************************)
(* The list and the tree made of it.                                       *)
(***************************************************************************)

\* The workspace's documents, newest first, and the page of them at an offset.
Newer(d, e) == rows[d].at > rows[e].at \/ (rows[d].at = rows[e].at /\ d > e)
Listing == [n \in 1..Cardinality(Live) |->
              rows[CHOOSE d \in Live : Cardinality({e \in Live : Newer(e, d)}) = n - 1]]
Offset(skip) == SubSeq(Listing, skip + 1, Min({skip + DOCS_PAGE, Len(Listing)}))

\* Every page but the last is full.
HasNext(ps) == ps # <<>> /\ Len(ps[Len(ps)]) = DOCS_PAGE

Ids(p)     == {p[j].id : j \in DOMAIN p}
Listed(ps) == UNION {Ids(ps[i]) : i \in DOMAIN ps}
\* Of a row that two pages hold, the first.
RowOf(ps, d) == LET p == ps[Min({i \in DOMAIN ps : d \in Ids(ps[i])})]
                IN p[CHOOSE j \in DOMAIN p : p[j].id = d]

\* A page whose parent is not in the list is a root.
ParentOf(ps, d) == IF d \in Listed(ps) /\ RowOf(ps, d).parent \in Listed(ps) THEN RowOf(ps, d).parent ELSE 0

\* The page and its ancestors, as far as the list knows them.
Ancestors(ps, d) ==
  LET parent == [e \in Doc |-> ParentOf(ps, e)]
      spine[n \in 0..Cardinality(Doc)] ==
        IF n = 0 THEN {d} ELSE spine[n - 1] \cup ({parent[a] : a \in spine[n - 1]} \ {0})
  IN spine[Cardinality(Doc)]

\* The rows of the side panel: every ancestor is expanded, up to a root.
Visible == {d \in Listed(pages) :
              /\ Ancestors(pages, d) \ {d} \subseteq expanded
              /\ \E r \in Ancestors(pages, d) : ParentOf(pages, r) = 0}

\* What the reader shows, and when it says that there is no such page.
InList == open \in Listed(pages)
Shown  == open # 0 /\ (InList \/ single[open].row # None)
NotFound == open # 0 /\ ~InList /\ single[open].row = None /\ single[open].err
ShownRow == IF InList THEN RowOf(pages, open) ELSE single[open].row
-----------------------------------------------------------------------------
(***************************************************************************)
(* The caches.                                                             *)
(***************************************************************************)

\* The open page is fetched alone while the list does not hold it.
Alone(ps, o, d) == o = d /\ d \notin Listed(ps)

\* Every change of the caches or of the address: the fetch of a page that is
\* now needed alone, and the reveal of the open page in the tree.
Render(ps, o, sg, sq) ==
  /\ pages' = ps /\ open' = o /\ single' = sg
  /\ squery' = [d \in Doc |->
       IF Alone(ps, o, d) /\ ~Alone(pages, open, d) /\ sq[d].step = "idle" /\ (sg[d].row = None \/ sg[d].stale)
       THEN Due ELSE sq[d]]
  /\ IF o = 0 \/ (ps = pages /\ o = open)
     THEN UNCHANGED <<expanded, folded>>
     ELSE expanded' = expanded \cup Ancestors(ps, o) /\ folded' = FALSE

\* invalidateQueries on the list; a first load under way is left alone.
Restarted == [IdleList EXCEPT !.step = "due", !.want = Len(pages)]
Invalidate ==
  IF pages # <<>> THEN query' = Restarted /\ UNCHANGED unheard
  ELSE /\ UNCHANGED query
       /\ unheard' = IF query.step = "read" THEN unheard \cup {"load"} ELSE unheard

ReadPage ==
  LET got == Append(query.got, Offset(DOCS_PAGE * Len(query.got)))
      all == Len(got) >= query.want \/ ~HasNext(got)
  IN
  /\ query.step = "due"
  /\ query' = [query EXCEPT !.got = got, !.step = IF all THEN "read" ELSE "due"]
  /\ unheard' = IF query.got = <<>> THEN {} ELSE unheard
  /\ UNCHANGED <<server, pages, single, squery, open, expanded, folded, up, ring, call, mine, events>>

ArrivePages ==
  /\ query.step = "read" /\ query' = IdleList
  /\ Render(query.got, open, single, squery)
  /\ UNCHANGED <<server, up, ring, call, mine, unheard, events>>

\* The side panel nears its end: one more page, whatever else is being fetched.
LoadMore ==
  /\ HasNext(pages) /\ ~query.next
  /\ query' = [step |-> "due", next |-> TRUE, got |-> pages, want |-> Len(pages) + 1]
  /\ unheard' = IF query.step = "idle" THEN unheard ELSE unheard \cup {"scroll"}
  /\ UNCHANGED <<server, pages, single, squery, open, expanded, folded, up, ring, call, mine, events>>

ReadSingle(d) ==
  /\ squery[d].step = "due"
  /\ squery' = [squery EXCEPT ![d] = [step |-> "read", got |-> IF d \in Live THEN rows[d] ELSE Gone]]
  /\ UNCHANGED <<server, pages, query, single, open, expanded, folded, up, ring, call, mine, unheard, events>>

\* A page that is no more has no row; a row cached before stays.
ArriveSingle(d) ==
  LET got == squery[d].got IN
  /\ squery[d].step = "read"
  /\ Render(pages, open,
            [single EXCEPT ![d] = IF got = Gone THEN [@ EXCEPT !.err = TRUE] ELSE [NoSingle EXCEPT !.row = got]],
            [squery EXCEPT ![d] = Idle])
  /\ UNCHANGED <<server, query, up, ring, call, mine, unheard, events>>

SelectPage(d) ==
  /\ d # open /\ d \in Listed(pages) \cup {0}
  /\ events < MaxEvents /\ events' = events + 1
  /\ Render(pages, d, single, squery)
  /\ UNCHANGED <<server, query, up, ring, call, mine, unheard>>

Toggle(d) ==
  /\ events < MaxEvents /\ events' = events + 1
  /\ d \in Visible
  /\ expanded' = IF d \in expanded THEN expanded \ {d} ELSE expanded \cup {d}
  /\ folded' = (folded \/ d \in expanded)
  /\ UNCHANGED <<server, pages, query, single, squery, open, up, ring, call, mine, unheard>>
-----------------------------------------------------------------------------
(***************************************************************************)
(* The event stream: what is published while it is down is lost.           *)
(***************************************************************************)
Publish ==
  /\ ring' = IF up THEN ring + 1 ELSE ring
  /\ unheard' = IF up THEN unheard ELSE unheard \cup {"stream"}

Connect == ~up /\ up' = TRUE /\ UNCHANGED <<server, client, ring, call, mine, unheard, events>>

Drop ==
  /\ up /\ events < MaxEvents /\ events' = events + 1
  /\ up' = FALSE /\ ring' = 0
  /\ unheard' = IF ring > 0 THEN unheard \cup {"stream"} ELSE unheard
  /\ UNCHANGED <<server, client, call, mine>>

OnMessage ==
  /\ ring > 0 /\ ring' = ring - 1
  /\ Invalidate
  /\ UNCHANGED <<server, pages, single, squery, open, expanded, folded, up, call, mine, events>>
-----------------------------------------------------------------------------
(***************************************************************************)
(* The server's side of a change.                                          *)
(***************************************************************************)
Subtree(d) == {e \in Live : LET up1[n \in 0..Cardinality(Doc)] ==
                                  IF n = 0 THEN {e} ELSE up1[n - 1] \cup {rows[a].parent : a \in up1[n - 1] \cap Live}
                            IN d \in up1[Cardinality(Doc)]}

\* A write of the row is the newest change of the workspace.
write(d, row) == rows' = [rows EXCEPT ![d] = [row EXCEPT !.at = clock + 1]] /\ clock' = clock + 1

create(d)         == write(d, Row(d, 0))
update(d, key, v) == write(d, [rows[d] EXCEPT ![key] = v])
move(d, p)        == write(d, [rows[d] EXCEPT !.parent = p])
star(d, v)        == rows' = [rows EXCEPT ![d].star = v] /\ UNCHANGED clock
remove(d)         == rows' = [e \in Doc |-> IF e \in Subtree(d) THEN Gone ELSE rows[e]] /\ UNCHANGED clock

InFlight(c) == c.step \in {"sent", "done", "failed"}

\* A call on a page that is changed meanwhile is no longer alone.
Meets(c, d) == IF c.id = d /\ InFlight(c) THEN [c EXCEPT !.alone = FALSE] ELSE c

\* Another member changes a page.
Elsewhere ==
  /\ events < MaxEvents /\ events' = events + 1
  /\ \E d \in Doc :
       /\ \/ \E t \in Title : d \in Live /\ rows[d].title # t /\ update(d, "title", t)
          \/ \E p \in Live \cup {0} : /\ d \in Live /\ p # rows[d].parent /\ p \notin Subtree(d)
                                      /\ move(d, p)
          \/ d \in Live /\ remove(d)
          \/ rows[d] = None /\ create(d)
       /\ call' = [s \in Slot |-> Meets(call[s], d)]
  /\ Publish
  /\ UNCHANGED <<client, up, mine>>
-----------------------------------------------------------------------------
(***************************************************************************)
(* The calls of this client.                                               *)
(***************************************************************************)

\* The patch goes into every cached list and into the page cached alone.
Patched(d, P(_)) ==
  /\ Render([i \in DOMAIN pages |-> [j \in DOMAIN pages[i] |->
               IF pages[i][j].id = d THEN P(pages[i][j]) ELSE pages[i][j]]],
            open,
            IF single[d].row = None THEN single ELSE [single EXCEPT ![d].row = P(@)],
            squery)

\* The menu of a row of the side panel; the title above an open page and the
\* actions in the top bar, by the row they show.
MenuOffers(op, d) ==
  CASE op = "rename" -> {t \in Title : d \in Listed(pages) /\ RowOf(pages, d).title # t}
    [] op = "star"   -> IF d \in Listed(pages) THEN {~RowOf(pages, d).star} ELSE {}
    [] op = "delete" -> IF d \in Listed(pages) THEN {"a"} ELSE {}
    [] OTHER         -> {}

TitleOffers(op, d) == IF op = "rename" /\ d = open /\ Shown THEN {t \in Title : ShownRow.title # t} ELSE {}

BarOffers(op, d) ==
  CASE op = "wide"   -> IF d = open /\ Shown THEN {~ShownRow.wide} ELSE {}
    [] op = "delete" -> IF d = open /\ Shown THEN {"a"} ELSE {}
    [] op = "create" -> IF rows[d] = None THEN {"a"} ELSE {}
    [] OTHER         -> {}

Offers(op, d) == MenuOffers(op, d) \cup TitleOffers(op, d) \cup BarOffers(op, d)

Start(s, op, d, v) ==
  /\ events < MaxEvents /\ events' = events + 1
  /\ call[s].step = "none" /\ (\A z \in Slot : z < s => call[z].step # "none")
  /\ LET others == \A z \in Slot : InFlight(call[z]) => call[z].id # d
         c == [op |-> op, id |-> d, val |-> v, step |-> "sent", alone |-> others]
     IN call' = [z \in Slot |-> IF z = s THEN c ELSE Meets(call[z], d)]
  /\ IF op = "wide" THEN Patched(d, LAMBDA r : [r EXCEPT !.wide = v])
     ELSE UNCHANGED <<pages, single, squery, open, expanded, folded>>
  /\ UNCHANGED <<server, query, up, ring, mine, unheard>>

Serve(s) ==
  LET c == call[s] IN
  /\ c.step = "sent"
  /\ IF c.id \in Live \/ (c.op = "create" /\ rows[c.id] = None)
     THEN /\ CASE c.op = "rename" -> update(c.id, "title", c.val)
            [] c.op = "wide"   -> update(c.id, "wide", c.val)
            [] c.op = "star"   -> star(c.id, c.val)
            [] c.op = "delete" -> remove(c.id)
            [] c.op = "create" -> create(c.id)
          /\ call' = [call EXCEPT ![s].step = "done"]
          /\ IF c.op = "star" THEN UNCHANGED <<ring, unheard>> ELSE Publish
     ELSE call' = [call EXCEPT ![s].step = "failed"] /\ UNCHANGED <<server, ring, unheard>>
  /\ UNCHANGED <<client, up, mine, events>>

Refuse(s) ==
  /\ call[s].step = "sent" /\ events < MaxEvents /\ events' = events + 1
  /\ call' = [call EXCEPT ![s].step = "failed"]
  /\ UNCHANGED <<server, client, up, ring, mine, unheard>>

\* An answer that met another change of its page, or the fetch of one more
\* page, and a star during any fetch of the list, leave a value that only the
\* next reading corrects.
Late(c) == ~c.alone \/ query.next \/ (c.op = "star" /\ query.step # "idle")

Answered(s) ==
  /\ call[s].step \in {"done", "failed"}
  /\ call' = [z \in Slot |-> IF z = s THEN [NoCall EXCEPT !.step = "over"] ELSE Meets(call[z], call[s].id)]
  /\ UNCHANGED <<server, up, ring, events>>

Toggled(s) ==
  LET c == call[s] IN
  /\ c.op = "star" /\ c.step = "done" /\ Answered(s)
  /\ Patched(c.id, LAMBDA r : [r EXCEPT !.star = c.val])
  /\ unheard' = IF Late(c) THEN unheard \cup {"order"} ELSE unheard
  /\ UNCHANGED <<query, mine>>

\* Renamed, the page's own query is fetched again, now or when it is next needed.
Renamed(s) ==
  LET c == call[s]
      titled(r) == [r EXCEPT !.title = c.val, !.at = IF c.id \in Live THEN rows[c.id].at ELSE @]
      ps == [i \in DOMAIN pages |-> [j \in DOMAIN pages[i] |->
               IF pages[i][j].id = c.id THEN titled(pages[i][j]) ELSE pages[i][j]]]
      sg == IF single[c.id].row = None THEN single
            ELSE [single EXCEPT ![c.id].row = titled(@), ![c.id].stale = ~Alone(pages, open, c.id)]
  IN
  /\ c.op = "rename" /\ c.step = "done" /\ Answered(s)
  /\ Render(ps, open, sg, IF Alone(pages, open, c.id) THEN [squery EXCEPT ![c.id] = Due] ELSE squery)
  /\ unheard' = IF Late(c) THEN unheard \cup {"order"} ELSE unheard
  /\ UNCHANGED <<query, mine>>

\* The switch: settled on success, rolled back on an error.
WidthSet(s) ==
  LET c == call[s] IN
  /\ c.op = "wide" /\ Answered(s)
  /\ Patched(c.id, LAMBDA r : [r EXCEPT !.wide = IF c.step = "done" THEN c.val ELSE ~c.val,
                                        !.at = IF c.step = "done" /\ c.id \in Live THEN rows[c.id].at ELSE @])
  /\ unheard' = IF Late(c) THEN unheard \cup {"order"} ELSE unheard
  /\ UNCHANGED <<query, mine>>

\* Mutation: the page fetched alone stays cached.
DeletedKept(s) ==
  LET c == call[s] IN
  /\ c.op = "delete" /\ c.step = "done" /\ Answered(s)
  /\ Invalidate
  /\ mine' = mine \cup {c.id}
  /\ UNCHANGED <<pages, open, single, squery, expanded, folded>>

\* Deleted: its own query is dropped, the list fetched again.
Deleted(s) ==
  LET c == call[s] IN
  /\ c.op = "delete" /\ c.step = "done" /\ Answered(s)
  /\ Invalidate
  /\ Render(pages, open, [single EXCEPT ![c.id] = NoSingle],
            [squery EXCEPT ![c.id] = IF Alone(pages, open, c.id) THEN Due ELSE Idle])
  /\ mine' = mine \cup {c.id}

\* Created: the list is fetched again and the new page opened.
Created(s) ==
  LET c == call[s] IN
  /\ c.op = "create" /\ c.step = "done" /\ Answered(s)
  /\ Invalidate
  /\ Render(pages, c.id, single, squery)
  /\ UNCHANGED mine

Failed(s) ==
  /\ call[s].step = "failed" /\ call[s].op # "wide" /\ Answered(s)
  /\ UNCHANGED <<client, mine, unheard>>

Next ==
  \/ ReadPage \/ ArrivePages \/ LoadMore
  \/ \E d \in Doc : ReadSingle(d) \/ ArriveSingle(d) \/ Toggle(d)
  \/ \E d \in Doc \cup {0} : SelectPage(d)
  \/ Connect \/ Drop \/ OnMessage \/ Elsewhere
  \/ \E s \in Slot, op \in {"rename", "star", "wide", "delete", "create"}, d \in Doc :
       \E v \in Offers(op, d) : Start(s, op, d, v)
  \/ \E s \in Slot : \/ Serve(s) \/ Refuse(s) \/ Toggled(s) \/ Renamed(s) \/ WidthSet(s)
                     \/ Deleted(s) \/ Created(s) \/ Failed(s)

Spec == Init /\ [][Next]_vars
-----------------------------------------------------------------------------
(***************************************************************************)
(* Properties.                                                             *)
(***************************************************************************)
\* Nothing is on its way.
Rest == /\ query.step = "idle" /\ pages # <<>> /\ up /\ ring = 0
        /\ \A s \in Slot : ~InFlight(call[s])
        /\ \A d \in Doc : squery[d].step = "idle"

\* The list holds the newest rows as they are, and all of them once it ends.
True ==
  LET n == Cardinality(Listed(pages)) IN
  /\ {RowOf(pages, d) : d \in Listed(pages)} = {Listing[i] : i \in 1..n}
  /\ HasNext(pages) \/ n = Len(Listing)

\* However fetches, events, patches and roll-backs interleaved, a list at rest
\* is the server's, but for what the stream lost and for answers that met
\* another change of the page (usePages.ts:118-138, useWorkspaceEvents.ts:40).
ListSettles == Rest /\ unheard = {} => True

\* With the stream up and this client only reading, the list follows the
\* changes of others (useWorkspaceEvents.ts:16 "so the sidebar reflects
\* document changes made by other members live").
LiveList == Rest /\ unheard \subseteq {"scroll"} => True

\* "Page not found" is said of no page that exists, and a page that exists is
\* shown, whether the list holds it or not (usePages.ts:56-66).
PageFound == open # 0 => /\ NotFound => open \notin Live
                         /\ Rest /\ open \in Live => Shown

\* A page this client deleted is no longer shown (usePages.ts:242-244).
OwnDeleteLeaves == Rest /\ unheard = {} /\ open \in mine => ~Shown

\* The open page stands in the side panel, with every page above it expanded,
\* unless the user has since collapsed one (usePagesSection.ts:75-87).
OpenIsRevealed == Rest /\ unheard = {} /\ InList /\ ~folded => open \in Visible
=============================================================================
