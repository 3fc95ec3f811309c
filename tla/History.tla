------------------------------ MODULE History ------------------------------
(***************************************************************************)
(* Version history: the edit sessions the rtc server reads off the update  *)
(* log and the preview at a seq (history/sessions.service.ts,              *)
(* versions.service.ts), and the browser's history mode with its restore   *)
(* (features/workspace/history, ConfirmRestoreVersionModal.tsx).           *)
(*                                                                         *)
(* A row holds edits.  Each builds on the one before it, and Yjs holds an  *)
(* update back until those it builds on are there: a replay gives what the *)
(* edits without a gap leave.  Compaction (the module of that name) takes  *)
(* one step here, and may fail between two of its merges.                  *)
(***************************************************************************)
EXTENDS Integers, Sequences, FiniteSets, FiniteSetsExt, SequencesExt

CONSTANTS Sub, Me,         \* authors, and the one with the browser
          Kinds,           \* of documents
          Text, Key, Val,  \* contents: of a DOC; cells or elements and their values
          Gap,             \* RTC_SESSION_GAP_MS
          Started,         \* logs of a DOC it may begin with: who left which text
          MaxEdits, MaxNow, MaxMerges,
          None

VARIABLES kind,     \* of the document
          rows,     \* of the log, by seq
          now,      \* of the last row: between two the time may pass a session's gap
          reading,  \* GET sessions under way: the rows it has listed
          list,     \* the sessions the browser holds, newest first
          url,      \* history=, v= and diff=
          shown,    \* the version on screen
          modal,    \* ConfirmRestoreVersionModal
          was,      \* the content after each edit, for the properties
          merges,   \* compactions so far
          lost      \* what a restore replaced, None before one

vars == <<kind, rows, now, reading, list, url, shown, modal, was, merges, lost>>

NoUrl == [on |-> FALSE, v |-> None, diff |-> FALSE]

\* A document nobody has opened, and what edits write: only an element of a
\* whiteboard can be "deleted", only a value of a sheet "null".
Nothing  == [text |-> "", cells |-> [k \in Key |-> None]]
Contents ==
  IF kind = "DOC" THEN {[Nothing EXCEPT !.text = t] : t \in Text}
  ELSE LET vs == Val \ {IF kind = "SHEET" THEN "deleted" ELSE "null"}
       IN {[Nothing EXCEPT !.cells = c] : c \in [Key -> vs \cup {None}]}
-----------------------------------------------------------------------------
(***************************************************************************)
(* The rtc server.                                                         *)
(***************************************************************************)

WasAt(s) == IF s = 0 THEN Nothing ELSE was[s]

\* Replay of the rows up to a seq.
At(log, s) ==
  LET held == UNION {log[i].edits : i \in {j \in DOMAIN log : log[j].seq <= s}}
  IN WasAt(Max({n \in 0 .. Len(was) : 1 .. n \subseteq held}))

HeadSeq(log) == IF log = << >> THEN 0 ELSE Last(log).seq

\* versionFingerprint: a whiteboard's elements that are not deleted.
Fingerprint(c) ==
  IF kind # "WHITEBOARD" THEN c
  ELSE [c EXCEPT !.cells = [k \in Key |-> IF @[k] = "deleted" THEN None ELSE @[k]]]

\* isVisuallyEmpty: never opened, or the paragraph the editor starts with.
IsVisuallyEmpty(c) == kind = "DOC" /\ c.text \in {"", "empty"}

Noop(b, a) == \/ Fingerprint(b) = Fingerprint(a)
              \/ IsVisuallyEmpty(b) /\ IsVisuallyEmpty(a)

\* cellRepr: a blank cell is one without a value.
Repr(v) == IF v = "null" THEN None ELSE v

\* diffSheetCells: each key is a row of one column, None a row that is not there.
DiffSheetCells(b, a) ==
  IF kind # "SHEET" THEN {}
  ELSE {k \in Key : a.cells[k] # None /\ Repr(a.cells[k]) # Repr(b.cells[k])}

\* buildSessions: u goes on the group before it.
Continues(g, u) ==
  /\ g.sub = u.sub
  /\ u.at - g.endedAt <= Gap
  /\ ~g.archive /\ u.origin # "archive"

Counts(u) == u.count

Grouped(log) ==
  LET Open(u) == [firstSeq |-> u.seq, lastSeq |-> u.seq, sub |-> u.sub, endedAt |-> u.at,
                  count |-> Counts(u), archive |-> u.origin = "archive"]
      Add(gs, u) ==
        IF gs # << >> /\ Continues(Last(gs), u)
        THEN [gs EXCEPT ![Len(gs)].lastSeq = u.seq, ![Len(gs)].endedAt = u.at,
                        ![Len(gs)].count = @ + Counts(u)]
        ELSE Append(gs, Open(u))
  IN FoldLeft(Add, << >>, log)

\* The sessions of the rows listed, compared by a replay of the rows as they are
\* by then; a session that changed nothing is left out, an archive is not.
Session(g, log) ==
  LET b == At(log, g.firstSeq - 1)
      a == At(log, g.lastSeq)
  IN [firstSeq |-> g.firstSeq, lastSeq |-> g.lastSeq, sub |-> g.sub, count |-> g.count,
      archive |-> g.archive, noop |-> Noop(b, a), cells |-> DiffSheetCells(b, a)]

AllSessions(listed, log) ==
  LET gs == Grouped(listed) IN [i \in DOMAIN gs |-> Session(gs[i], log)]

BuildSessions(listed, log) ==
  SelectSeq(AllSessions(listed, log), LAMBDA s : ~s.noop \/ s.archive)

\* Mutation: the baseline is the row at or below the seq asked for.
BaseSeqDown(target, asked) ==
  LET below == {rows[i].seq : i \in {j \in DOMAIN rows : rows[j].seq <= asked}}
  IN IF below = {} THEN 0 ELSE Max(below)

\* previewAtSeq: the baseline is up at the row that absorbed the seq asked for.
BaseSeq(target, asked) ==
  LET above == {rows[i].seq : i \in {j \in DOMAIN rows : rows[j].seq \in asked .. target}}
  IN IF asked = 0 THEN 0 ELSE IF above = {} THEN target ELSE Min(above)

\* An author's rows were merged from around another's: a replay to between them
\* lacks the first.
Torn(s) == \E i, j \in DOMAIN rows : /\ rows[i].seq <= s /\ s < rows[j].seq
                                     /\ Min(rows[j].edits) < rows[i].seq

\* A baseline that does not render is compared as the empty document, unless it
\* is the version itself, which is rendered once.
PreviewAtSeq(seq, against, fails) ==
  LET target == Min({seq, HeadSeq(rows)})
      base   == IF against = None THEN target ELSE BaseSeq(target, Min({against, target}))
      failed == fails /\ base # target
  IN [v |-> seq, merges |-> merges, content |-> At(rows, target), against |-> against,
      failed |-> failed, torn |-> Torn(base) \/ Torn(target),
      base |-> IF against = None THEN None ELSE IF failed THEN Nothing ELSE At(rows, base)]
-----------------------------------------------------------------------------
(***************************************************************************)
(* The log.                                                                *)
(***************************************************************************)

Append1(sub, c) ==
  /\ Len(was) < MaxEdits
  /\ now' \in now .. MaxNow
  /\ rows' = Append(rows, [seq |-> Len(was) + 1, sub |-> sub, at |-> now', origin |-> "raw",
                           count |-> 1, edits |-> {Len(was) + 1}])
  /\ was' = Append(was, c)

Edit(sub, c) ==
  /\ c # WasAt(Len(was)) /\ Append1(sub, c)
  /\ UNCHANGED <<kind, reading, list, url, shown, modal, merges, lost>>

\* The rows of these seqs become one at the last of them.
Replaced(seqs, origin, count) ==
  LET gone == {i \in DOMAIN rows : rows[i].seq \in seqs}
      kept == SelectSeq(rows, LAMBDA r : r.seq \notin seqs \ {Max(seqs)})
      Merged(r) == [r EXCEPT !.origin = origin, !.count = count,
                             !.edits = UNION {rows[i].edits : i \in gone},
                             !.sub = IF origin = "archive" THEN None ELSE @]
  IN [i \in DOMAIN kept |-> IF kept[i].seq = Max(seqs) THEN Merged(kept[i]) ELSE kept[i]]

\* groupBySession: neighbours among the raw rows, whatever was merged between.
SameGroup(raw, k) ==
  /\ k \in 1 .. Len(raw) - 1
  /\ raw[k].sub = raw[k + 1].sub /\ raw[k + 1].at - raw[k].at <= Gap

\* Tier 1: a group of the raw rows up to row j becomes the last of them.
MergeSession(j) ==
  LET raw == SelectSeq(SubSeq(rows, 1, j), LAMBDA r : r.origin = "raw") IN
  \E a, b \in DOMAIN raw :
    /\ a < b /\ \A k \in a .. b - 1 : SameGroup(raw, k)
    /\ ~SameGroup(raw, a - 1) /\ ~SameGroup(raw, b)
    /\ rows' = Replaced({raw[k].seq : k \in a .. b}, "session-compacted", b - a + 1)

\* Tier 2: the oldest rows become an archive.
Archive(j) ==
  /\ j > 1 \/ rows[j].origin # "archive"
  /\ rows' = Replaced({rows[i].seq : i \in 1 .. j}, "archive", 1)

Compact ==
  /\ merges < MaxMerges /\ merges' = merges + 1
  /\ \E j \in DOMAIN rows : Archive(j) \/ MergeSession(j)
  /\ UNCHANGED <<kind, now, reading, list, url, shown, modal, was, lost>>
-----------------------------------------------------------------------------
(***************************************************************************)
(* The browser.                                                            *)
(***************************************************************************)

\* useDocHistory: rows are listed, then replayed.
AskSessions ==
  /\ url.on /\ reading = None
  /\ reading' = [rows |-> rows, merges |-> merges]
  /\ UNCHANGED <<kind, rows, now, list, url, shown, modal, was, merges, lost>>

\* The backend gives them newest first; a version on screen is asked for again.
GetSessions ==
  /\ reading # None
  /\ list' = [sessions |-> Reverse(BuildSessions(reading.rows, rows)),
              merges |-> IF reading.merges = merges THEN merges ELSE None]
  /\ reading' = None
  /\ shown' = None
  /\ UNCHANGED <<kind, rows, now, url, modal, was, merges, lost>>

\* useHistoryMode: only a DOC has it; a link may name any version.
SetUrl(u) ==
  /\ ~(modal # None /\ modal.pending)
  /\ u # url /\ url' = u /\ shown' = None /\ modal' = None
  /\ UNCHANGED <<kind, rows, now, reading, list, was, merges, lost>>

Enter         == kind = "DOC" /\ SetUrl([NoUrl EXCEPT !.on = TRUE])
Exit          == url.on /\ SetUrl(NoUrl)
SetDiff(on)   == url.on /\ SetUrl([url EXCEPT !.diff = on])
Select(s)     == /\ url.on /\ list # None
                 /\ \E i \in DOMAIN list.sessions : list.sessions[i].lastSeq = s
                 /\ SetUrl([url EXCEPT !.v = s])
FollowLink(s) == kind = "DOC" /\ SetUrl([on |-> TRUE, v |-> s, diff |-> TRUE])

\* useVersionSelection
EffectiveSeq == IF url.v # None THEN url.v
                ELSE IF list.sessions = << >> THEN None ELSE list.sessions[1].lastSeq
SelectedIdx  == {i \in DOMAIN list.sessions : list.sessions[i].lastSeq = EffectiveSeq}

\* DocHistoryView: the next older session, the empty document for the oldest.
DiffBaseline ==
  IF SelectedIdx = {} THEN None
  ELSE IF Max(SelectedIdx) = Len(list.sessions) THEN 0
  ELSE list.sessions[Max(SelectedIdx) + 1].lastSeq

Show ==
  /\ url.on /\ list # None /\ shown = None
  /\ EffectiveSeq # None
  /\ \E fails \in BOOLEAN :
       shown' = PreviewAtSeq(EffectiveSeq, IF url.diff THEN DiffBaseline ELSE None, fails)
  /\ UNCHANGED <<kind, rows, now, reading, list, url, modal, was, merges, lost>>

OpenRestore ==
  /\ shown # None /\ modal = None
  /\ SelectedIdx # {}
  /\ modal' = [seq |-> shown.v, got |-> None, exact |-> FALSE, pending |-> FALSE]
  /\ UNCHANGED <<kind, rows, now, reading, list, url, shown, was, merges, lost>>

Cancel ==
  /\ modal # None /\ ~modal.pending
  /\ modal' = None
  /\ UNCHANGED <<kind, rows, now, reading, list, url, shown, was, merges, lost>>

\* The modal's own query, without a baseline; a document without content is an error.
GetVersion ==
  /\ modal # None /\ modal.got = None
  /\ LET version == PreviewAtSeq(modal.seq, None, FALSE) IN
     /\ version.content # Nothing
     /\ modal' = [modal EXCEPT !.got = version.content,
                               !.exact = list # None /\ list.merges = merges /\ ~version.torn]
  /\ UNCHANGED <<kind, rows, now, reading, list, url, shown, was, merges, lost>>

Submit ==
  /\ modal # None /\ modal.got # None /\ ~modal.pending
  /\ modal' = [modal EXCEPT !.pending = TRUE]
  /\ UNCHANGED <<kind, rows, now, reading, list, url, shown, was, merges, lost>>

RestoreFails ==
  /\ modal # None /\ modal.pending
  /\ modal' = [modal EXCEPT !.pending = FALSE]
  /\ UNCHANGED <<kind, rows, now, reading, list, url, shown, was, merges, lost>>

\* restoreCollabDocContent writes the version as an edit of this user; the
\* history is read again and left.
Restore ==
  /\ modal # None /\ modal.pending
  /\ Append1(Me, modal.got)
  /\ lost' = [content |-> At(rows, Len(was)), seq |-> Len(was), of |-> modal.seq,
              exact |-> modal.exact]
  /\ list' = None /\ reading' = None
  /\ url' = NoUrl /\ shown' = None /\ modal' = None
  /\ UNCHANGED <<kind, merges>>
-----------------------------------------------------------------------------
Init ==
  /\ kind \in Kinds
  /\ now = 0 /\ merges = 0
  /\ \E log \in Started :
       /\ was = [i \in DOMAIN log |-> [Nothing EXCEPT !.text = log[i].text]]
       /\ rows = [i \in DOMAIN log |-> [seq |-> i, sub |-> log[i].sub, at |-> 0, origin |-> "raw",
                                        count |-> 1, edits |-> {i}]]
  /\ reading = None /\ list = None /\ url = NoUrl /\ shown = None /\ modal = None
  /\ lost = None

\* Behaviours end with the first restore.
Next ==
  /\ lost = None
  /\ \/ \E sub \in Sub, c \in Contents : Edit(sub, c)
     \/ Compact \/ AskSessions \/ GetSessions \/ Enter \/ Exit \/ Show
     \/ \E on \in BOOLEAN : SetDiff(on)
     \/ \E s \in 1 .. Len(was) : Select(s) \/ FollowLink(s)
     \/ OpenRestore \/ Cancel \/ GetVersion \/ Submit \/ RestoreFails \/ Restore

Spec == Init /\ [][Next]_vars
-----------------------------------------------------------------------------
(***************************************************************************)
(* Properties.                                                             *)
(***************************************************************************)

TypeOK ==
  /\ kind \in Kinds /\ now \in 0 .. MaxNow /\ merges \in 0 .. MaxMerges
  /\ Len(was) <= MaxEdits /\ \A i \in DOMAIN was : was[i] \in Contents
  /\ \A i \in DOMAIN rows : /\ rows[i].origin \in {"raw", "session-compacted", "archive"}
                            /\ rows[i].sub \in Sub \cup {None} /\ rows[i].edits \subseteq 1 .. rows[i].seq
  /\ url.on \in BOOLEAN /\ url.diff \in BOOLEAN

Current  == AllSessions(rows, rows)

\* Every row is in one session, of its author, and the edits that are not
\* archived are each counted once, merged or not (sessions.service.ts:158).
SessionsCover ==
  LET all == Current
      archived == UNION {rows[i].edits : i \in {j \in DOMAIN rows : rows[j].origin = "archive"}}
  IN /\ \A i \in DOMAIN rows :
          Cardinality({j \in DOMAIN all :
            rows[i].seq \in all[j].firstSeq .. all[j].lastSeq /\ rows[i].sub = all[j].sub}) = 1
     /\ FoldLeft(LAMBDA n, g : IF g.archive THEN n ELSE n + g.count, 0, all) =
          Cardinality((DOMAIN was) \ archived)

Alike(b, a) == b = a \/ (IsVisuallyEmpty(b) /\ IsVisuallyEmpty(a))

\* A comparison shows what the session did: the older version is the one the
\* session began with, whatever sessions in between the list leaves out
\* (DocHistoryView.tsx:77, sessions.service.ts:194). Compaction since the list was
\* read and a merge from around another author's rows are excepted, and for the
\* older version one that did not render.
ShownIsTheSession ==
  shown # None /\ list # None /\ list.merges = merges /\ shown.merges = merges /\ ~shown.torn =>
    \A i \in DOMAIN list.sessions :
      list.sessions[i].lastSeq = shown.v =>
        /\ shown.content = WasAt(shown.v)
        /\ shown.base # None /\ ~shown.failed =>
             Alike(shown.base, At(rows, list.sessions[i].firstSeq - 1))

\* Whatever was merged or archived since the list was read, a comparison marks
\* no change older than the baseline it was asked for ("clamping down could
\* degrade to the empty doc and mark the whole doc added",
\* versions.service.ts:188), where that baseline renders and no merge took an
\* author's rows from around another's (compaction.service.ts:56).
BaselineNeverOlder ==
  shown # None /\ shown.base # None /\ ~shown.failed /\ ~shown.torn =>
    \/ shown.base = shown.content
    \/ \E k \in shown.against .. shown.v : shown.base = WasAt(k)

\* What a restore writes is the version that was chosen, unless compaction
\* rewrote the log after the list was read or tore the version before
\* (ConfirmRestoreVersionModal.tsx:36).
RestoredIsTheVersion ==
  lost # None /\ lost.exact => was[lost.seq + 1] = was[lost.of]

\* A cell that differs between two versions is among the changed cells of a
\* session between them, where its row was there at every boundary.
CellsAccounted ==
  kind = "SHEET" =>
    LET all == Current IN
    \A i, j \in DOMAIN all, k \in Key :
      /\ i <= j
      /\ \A m \in i .. j : At(rows, all[m].lastSeq).cells[k] # None
      /\ Repr(At(rows, all[i].firstSeq - 1).cells[k]) # Repr(At(rows, all[j].lastSeq).cells[k])
      => \E m \in i .. j : k \in all[m].cells

\* "The current content isn't lost - it stays available in version history"
\* (ConfirmRestoreVersionModal.tsx:86): what a restore replaced is a version
\* one can choose.
CurrentStaysAvailable ==
  lost # None /\ merges = 0 =>
    \E i \in DOMAIN Current : At(rows, Current[i].lastSeq) = lost.content
=============================================================================
