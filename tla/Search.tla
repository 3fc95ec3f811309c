------------------------------- MODULE Search -------------------------------
(***************************************************************************)
(* The search dialog: what is typed is looked for once the typing rests,   *)
(* in the titles and the indexed text of the documents the caller may      *)
(* read, newest first, one page after another from the last row shown.     *)
(* The answers are cached by term; a term that refines the one before it   *)
(* keeps the rows of that one on the screen until its own arrive.          *)
(*                                                                         *)
(* Documents are changed, indexed, shared and withdrawn in between.  A     *)
(* fetch is read page by page; it is answered, or fails for good, later.   *)
(***************************************************************************)
EXTENDS Integers, SequencesExt, FiniteSetsExt

CONSTANTS
  Doc,              \* ids of documents
  Term,             \* what may be typed: sequences of characters, not empty
  Space,            \* workspaces
  None,
  DOC_SEARCH_PAGE,  \* rows per page
  MaxEvents         \* bound on terms typed, keys, changes, failures and time

VARIABLES
  docs,             \* the documents [at, match: the terms they hold, space]
  clock,            \* the last updatedAt
  scope,            \* the workspace the dialog was opened in, or None
  member, granted,  \* the caller's workspaces; the documents shared with them
  typed, debounced, \* the trimmed text; the term looked for
  data,             \* the cached answer of a term [pages, stale, missed]
  err,              \* the terms whose last fetch failed
  fetch,            \* the fetch of a term [step, next, got, want, missed]
  last,             \* the last term that had an answer on the screen
  selected,         \* the row under the cursor, from 0
  events

server == <<docs, clock, scope, member, granted>>
vars   == <<server, typed, debounced, data, err, fetch, last, selected, events>>

Idle == [step |-> "idle", next |-> FALSE, got |-> <<>>, want |-> 0, missed |-> {}]

TypeOK ==
  /\ \A d \in Doc : docs[d].at \in 0..clock /\ docs[d].match \subseteq Term /\ docs[d].space \in Space
  /\ member \subseteq Space /\ granted \subseteq Doc /\ scope \in Space \cup {None}
  /\ {typed, debounced} \subseteq Term \cup {<<>>}
  /\ \A t \in Term : /\ ~(data[t] # None /\ data[t].pages = <<>>)
                     /\ fetch[t].step \in {"idle", "due", "read"}
                     /\ Len(fetch[t].got) <= fetch[t].want
  /\ err \subseteq Term /\ last \in Term \cup {<<>>} /\ selected \in 0..Cardinality(Doc)

\* Every document holds every term, the last lives in another workspace; the
\* caller is a member or a guest of the first, where the dialog opens unless it
\* opens outside of any.
Init ==
  /\ LET home == Min(Space) IN
       /\ docs = [d \in Doc |-> [at |-> 0, match |-> Term,
                                 space |-> IF d = Max(Doc) THEN Max(Space) ELSE home]]
       /\ member \in {{home}, {}} /\ scope \in {home, None}
       /\ granted \in {Doc, {}}
  /\ clock = 0
  /\ typed = <<>> /\ debounced = <<>>
  /\ data = [t \in Term |-> None] /\ err = {} /\ fetch = [t \in Term |-> Idle]
  /\ last = <<>> /\ selected = 0 /\ events = 0

Spend == events < MaxEvents /\ events' = events + 1
-----------------------------------------------------------------------------
(***************************************************************************)
(* One page of an answer.                                                  *)
(***************************************************************************)

\* A member of the workspace searches all of it, a guest what was shared with
\* them; outside of a workspace, all that is either.
AccessFilter ==
  IF scope = None THEN {d \in Doc : docs[d].space \in member \/ d \in granted}
  ELSE {d \in Doc : docs[d].space = scope /\ (scope \in member \/ d \in granted)}

MatchWhere(t) == {d \in AccessFilter : t \in docs[d].match}

\* A row as it was read: its id and the time that a cursor after it holds.
Row(d) == [id |-> d, at |-> docs[d].at]

\* Strictly after the cursor, newest first, ids breaking ties.
Seek(d, cur) == cur = None \/ docs[d].at < cur.at \/ (docs[d].at = cur.at /\ d < cur.id)

Newer(d, e) == docs[d].at > docs[e].at \/ (docs[d].at = docs[e].at /\ d > e)

search(t, cur) ==
  LET found == {d \in MatchWhere(t) : Seek(d, cur)}
      rank(d) == Cardinality({e \in found : Newer(e, d)}) + 1
  IN [n \in 1..Min({DOC_SEARCH_PAGE, Cardinality(found)}) |-> Row(CHOOSE d \in found : rank(d) = n)]

\* The cursor after the pages read; a page that is not full has none.
Cursor(pages)  == IF pages = <<>> THEN None ELSE Last(Last(pages))
HasNext(pages) == Len(Last(pages)) = DOC_SEARCH_PAGE

\* A change of a document counts for the answers read before it.
Miss(d) == /\ data' = [t \in Term |-> IF data[t] = None THEN None ELSE [data[t] EXCEPT !.missed = @ \cup {d}]]
           /\ fetch' = [t \in Term |-> IF fetch[t].got = <<>> THEN fetch[t]
                                       ELSE [fetch[t] EXCEPT !.missed = @ \cup {d}]]
           /\ UNCHANGED <<typed, debounced, err, last, selected>>

\* A document is renamed or moved up; its text is indexed, which leaves its
\* place; it is shared with the caller, or taken away.
Change(d) ==
  /\ Spend /\ Miss(d)
  /\ \/ /\ docs' = [docs EXCEPT ![d].at = clock + 1] /\ clock' = clock + 1
        /\ UNCHANGED <<scope, member, granted>>
     \/ /\ docs' = [docs EXCEPT ![d].match = IF @ = Term THEN {} ELSE Term]
        /\ UNCHANGED <<clock, scope, member, granted>>
     \/ /\ granted' = IF d \in granted THEN granted \ {d} ELSE granted \cup {d}
        /\ UNCHANGED <<docs, clock, scope, member>>
-----------------------------------------------------------------------------
(***************************************************************************)
(* The query of the term looked for.                                       *)
(***************************************************************************)
HasData(t) == t # <<>> /\ data[t] # None

\* The rows of an earlier term stay while a related one is looked for.
Placeholder ==
  /\ debounced # <<>> /\ ~HasData(debounced) /\ debounced \notin err /\ HasData(last)
  /\ IsPrefix(last, debounced) \/ IsPrefix(debounced, last)

Results == IF HasData(debounced) THEN FlattenSeq(data[debounced].pages)
           ELSE IF Placeholder THEN FlattenSeq(data[last].pages)
           ELSE <<>>

IsSearching == \/ typed # debounced
               \/ debounced # <<>> /\ fetch[debounced].step # "idle" /\ ~fetch[debounced].next

Type(t) ==
  /\ t # typed /\ Spend
  /\ typed' = t /\ selected' = 0
  /\ UNCHANGED <<server, debounced, data, err, fetch, last>>

Started(t, next) ==
  LET pages == IF HasData(t) THEN data[t].pages ELSE <<>> IN
  IF next THEN [step |-> "due", next |-> TRUE, got |-> pages, want |-> Len(pages) + 1, missed |-> data[t].missed]
  ELSE [Idle EXCEPT !.step = "due", !.want = Max({1, Len(pages)})]

\* The typing has rested: the term is fetched unless a fresh answer is cached.
Debounce ==
  /\ typed # debounced /\ debounced' = typed
  /\ fetch' = IF typed # <<>> /\ fetch[typed].step = "idle" /\ ~(HasData(typed) /\ ~data[typed].stale)
              THEN [fetch EXCEPT ![typed] = Started(typed, FALSE)] ELSE fetch
  /\ last' = IF HasData(typed) THEN typed ELSE last
  /\ err' = IF HasData(typed) THEN err ELSE err \ {typed}
  /\ UNCHANGED <<server, typed, data, selected, events>>

\* One more page, when the list nears its end or by the pill under it.
LoadMore ==
  /\ HasData(debounced) /\ HasNext(data[debounced].pages)
  /\ ~(fetch[debounced].step # "idle" /\ fetch[debounced].next)
  /\ fetch' = [fetch EXCEPT ![debounced] = Started(debounced, TRUE)]
  /\ UNCHANGED <<server, typed, debounced, data, err, last, selected, events>>

TryAgain ==
  /\ debounced \in err /\ ~HasData(debounced) /\ fetch[debounced].step = "idle"
  /\ fetch' = [fetch EXCEPT ![debounced] = Started(debounced, FALSE)] /\ err' = err \ {debounced}
  /\ UNCHANGED <<server, typed, debounced, data, last, selected, events>>

ReadPage(t) ==
  LET f == fetch[t]
      got == Append(f.got, search(t, Cursor(f.got)))
      all == Len(got) = f.want \/ ~HasNext(got)
  IN
  /\ f.step = "due"
  /\ scope = None \/ scope \in member \/ \E d \in granted : docs[d].space = scope
  /\ fetch' = [fetch EXCEPT ![t].got = got, ![t].step = IF all THEN "read" ELSE "due"]
  /\ UNCHANGED <<server, typed, debounced, data, err, last, selected, events>>

\* Mutation: whatever arrives, the cursor goes back to the first row.
ArriveResets(t) ==
  /\ fetch[t].step = "read"
  /\ data' = [data EXCEPT ![t] = [pages |-> fetch[t].got, stale |-> FALSE, missed |-> fetch[t].missed]]
  /\ fetch' = [fetch EXCEPT ![t] = Idle] /\ err' = err \ {t}
  /\ last' = IF t = debounced THEN t ELSE last
  /\ selected' = 0
  /\ UNCHANGED <<server, typed, debounced, events>>

Arrive(t) ==
  /\ fetch[t].step = "read"
  /\ data' = [data EXCEPT ![t] = [pages |-> fetch[t].got, stale |-> FALSE, missed |-> fetch[t].missed]]
  /\ fetch' = [fetch EXCEPT ![t] = Idle] /\ err' = err \ {t}
  /\ last' = IF t = debounced THEN t ELSE last
  /\ UNCHANGED <<server, typed, debounced, selected, events>>

\* A fetch fails, its retry too; a guest with nothing shared any more is refused.
Fail(t) ==
  /\ fetch[t].step # "idle" /\ Spend
  /\ fetch' = [fetch EXCEPT ![t] = Idle] /\ err' = err \cup {t}
  /\ UNCHANGED <<server, typed, debounced, data, last, selected>>

\* Half a minute passes.
Age ==
  /\ Spend
  /\ data' = [t \in Term |-> IF data[t] = None THEN None ELSE [data[t] EXCEPT !.stale = TRUE]]
  /\ UNCHANGED <<server, typed, debounced, err, fetch, last, selected>>
-----------------------------------------------------------------------------
(***************************************************************************)
(* The rows.                                                               *)
(***************************************************************************)
ActiveIndex == Min({selected, Max({0, Len(Results) - 1})})
Selected    == IF Results = <<>> THEN None ELSE Results[ActiveIndex + 1].id

\* Arrow down, arrow up.
Key ==
  /\ Results # <<>> /\ Spend
  /\ \E step \in {1, Len(Results) - 1} : selected' = (ActiveIndex + step) % Len(Results)
  /\ UNCHANGED <<server, typed, debounced, data, err, fetch, last>>

Next ==
  \/ \E d \in Doc : Change(d)
  \/ \E t \in Term \cup {<<>>} : Type(t)
  \/ \E t \in Term : ReadPage(t) \/ Arrive(t) \/ Fail(t)
  \/ Debounce \/ LoadMore \/ TryAgain \/ Age \/ Key

Spec == Init /\ [][Next]_vars
-----------------------------------------------------------------------------
(***************************************************************************)
(* Properties.                                                             *)
(***************************************************************************)
Ids(s) == {s[i].id : i \in DOMAIN s}

\* No document is listed twice, whatever moved up between two pages: the rows
\* are keyed by id and nobody removes duplicates (documents.service.ts:266-275).
NoDuplicates == IsInjective([i \in DOMAIN Results |-> Results[i].id])

\* An answer read to its end holds every document that matched throughout the
\* reading and was not itself changed since (documents.service.ts:202-203).
NothingSkipped ==
  \A t \in Term : HasData(t) /\ ~HasNext(data[t].pages)
    => MatchWhere(t) \ data[t].missed \subseteq Ids(FlattenSeq(data[t].pages))

\* Rows of another term are on the screen only while the dialog says that it
\* is searching (useDocSearch.ts:50-51).
ShownFits == ~IsSearching /\ Results # <<>> => HasData(typed) /\ Results = FlattenSeq(data[typed].pages)

\* A page appended does not move the cursor to another document, unless it
\* stood on a row that only an earlier, longer list had (SearchModal.tsx:112-117).
Appended == /\ debounced # <<>> /\ fetch[debounced].next
            /\ data' # data /\ fetch'[debounced] = Idle
KeepsSelected == Appended /\ selected < Len(Results) => Selected' = Selected
=============================================================================
