------------------------------ MODULE MCContent ------------------------------
(***************************************************************************)
(* What a document holds and what its history shows, in one run: the       *)
(* sheet, its labels, the diff of two versions, the history and its        *)
(* restore. They share no state: the initial state picks the scene, and    *)
(* the variables of the others are off.                                    *)
(***************************************************************************)
EXTENDS Naturals

CONSTANTS None

VARIABLES scene,
  replica, server, conn, pasting, seeds, edits, serial,    \* Sheet
  selected, online, columns,    \* SheetLabels
  before, after, merged,    \* DocDiff
  kind, rows, now, reading, list, url, shown, modal, was, merges, lost    \* History

\* Blocks of documents.
Node(type, text, attr, kids) ==
  [type |-> type, text |-> text, attr |-> attr, loose |-> 0, kids |-> kids]
Word(w)     == Node("text", w, 0, <<>>)
Bold(w)     == Node("text", w, 1, <<>>)
Para(kids)  == Node("paragraph", "", 0, kids)
Image(s)    == Node("image", s, 0, <<>>)
Each(F(_), ws) == [i \in DOMAIN ws |-> F(ws[i])]
Holder(type, ws) == Each(LAMBDA w : Node(type, "", 0, <<Para(<<Word(w)>>)>>), ws)
TableOf(lines) ==
  Node("table", "", 0, Each(LAMBDA ws : Node("tablerow", "", 0, Holder("custom-table-cell", ws)), lines))
Columns(ws) == Node("layout-container", "", 0, Holder("layout-item", ws))

p0 == Para(<<>>)
p1 == Para(<<Word("a"), Word(" "), Word("b")>>)
p2 == Para(<<Word("b"), Bold(" "), Word("a"), Word(" "), Word("b")>>)
p3 == Para(<<Bold("a"), Word(" "), Word("c")>>)
p4 == [p1 EXCEPT !.attr = 1]
p5 == [p3 EXCEPT !.loose = 1]
t1 == TableOf(<< <<"a", "b">>, <<"c", "d">> >>)
t2 == TableOf(<< <<"c", "d">> >>)
t3 == TableOf(<< <<"a">>, <<"c">> >>)
t4 == TableOf(<< <<"a", "x">>, <<"c", "d">> >>)
t5 == [t1 EXCEPT !.attr = 1]
l1 == Columns(<<"a", "b">>)
l2 == Columns(<<"a", "c">>)
Versions == {<<>>, <<p1>>, <<p2>>, <<p3>>, <<p0>>, <<p1, p2>>, <<p1, Image("s")>>, <<t1>>,
             <<p1, t2>>, <<t3, p0>>, <<l1>>, <<p3, l2>>, <<p1, p1, p3>>}
Blocks   == {p0, p1, p2, p3, p4, p5, Image("s"), Image("r"), t1, t2, t3, t4, t5, l1, l2}

Sheets == INSTANCE Sheet WITH Client <- {1, 2}, RowId <- {1, 2}, ColId <- {1, 2, 3},
                              SetId <- {1, 2}, SeedRows <- 1, SeedCols <- 2, Scale <- 8,
                              MaxEdits <- 2
Labels == INSTANCE SheetLabels WITH Client <- {1, 2}, Row <- 0..2, Col <- {0, 1},
                                    ALPHABET_SIZE <- 3, MAX_PRESENCE_CELLS <- 3,
                                    MaxColumns <- 60
Diff == INSTANCE DocDiff WITH MAX_DP_CELLS <- 16, MAX_REGION_PAIRING <- 4,
                              MaxBlocks <- 3, Base <- Versions, Block <- Blocks
Hist == INSTANCE History WITH Sub <- {1, 2}, Me <- 1,
                              Kinds <- {"DOC", "SHEET", "WHITEBOARD"},
                              Text <- {"empty", "a"}, Key <- {"k"},
                              Val <- {"x", "null", "deleted"}, Gap <- 0,
                              Started <- {<<>>}, MaxEdits <- 3, MaxNow <- 1, MaxMerges <- 1
\* Two rows of the second author, which may be merged, between two of the first.
Left(sub, text) == [sub |-> sub, text |-> text]
Between == <<Left(1, "a"), Left(2, "b"), Left(2, "a"), Left(1, "b")>>
Long == INSTANCE History WITH Sub <- {1, 2}, Me <- 1, Kinds <- {"DOC"},
                              Text <- {"a", "b"}, Key <- {"k"}, Val <- {"x"}, Gap <- 0,
                              Started <- {Between}, MaxEdits <- 5, MaxNow <- 0, MaxMerges <- 2

sheetVars == <<replica, server, conn, pasting, seeds, edits, serial>>
labelsVars == <<selected, online, columns>>
diffVars == <<before, after, merged>>
historyVars == <<kind, rows, now, reading, list, url, shown, modal, was, merges, lost>>
vars == <<scene, sheetVars, labelsVars, diffVars, historyVars>>

\* The variables no module of the scene uses hold None.
SheetsOff == replica = None /\ server = None /\ conn = None /\ pasting = None /\
             seeds = None /\ edits = None /\ serial = None
LabelsOff == selected = None /\ online = None /\ columns = None
DiffOff == before = None /\ after = None /\ merged = None
HistOff == kind = None /\ rows = None /\ now = None /\ reading = None /\ list = None /\
           url = None /\ shown = None /\ modal = None /\ was = None /\ merges = None /\
           lost = None

Init ==
  \/ /\ scene = "sheet" /\ Sheets!Init
     /\ LabelsOff /\ DiffOff /\ HistOff
  \/ /\ scene = "labels" /\ Labels!Init
     /\ SheetsOff /\ DiffOff /\ HistOff
  \/ /\ scene = "diff" /\ Diff!Init
     /\ SheetsOff /\ LabelsOff /\ HistOff
  \/ /\ \/ scene = "history" /\ Hist!Init
        \/ scene = "long" /\ Long!Init
     /\ SheetsOff /\ LabelsOff /\ DiffOff

\* A scene is never left, and the others' variables stay off.
SheetsOnly == scene = "sheet" /\ UNCHANGED <<scene, labelsVars, diffVars, historyVars>>
LabelsOnly == scene = "labels" /\ UNCHANGED <<scene, sheetVars, diffVars, historyVars>>
DiffOnly == scene = "diff" /\ UNCHANGED <<scene, sheetVars, labelsVars, historyVars>>
HistOnly == scene = "history" /\ UNCHANGED <<scene, sheetVars, labelsVars, diffVars>>
LongOnly == scene = "long" /\ UNCHANGED <<scene, sheetVars, labelsVars, diffVars>>

Next ==
  \/ SheetsOnly /\ Sheets!Next
  \/ LabelsOnly /\ Labels!Next
  \/ DiffOnly /\ Diff!Next
  \/ HistOnly /\ Hist!Next
  \/ LongOnly /\ Long!Next

Spec == Init /\ [][Next]_vars
-----------------------------------------------------------------------------
\* A sheet is seeded once, keeps no value of a column that is gone and has the
\* options its dropdowns show, and what is inserted lands between its neighbours;
\* a selection's label names the selected cells and no others, and the marks on a
\* cell are those of the other clients (sheetModel.ts:155-360, 652-760,
\* SheetEditor.tsx:243).
SheetSafe ==
  /\ scene = "sheet" => /\ Sheets!TypeOK
                        /\ Sheets!SeededOnce /\ Sheets!NoOrphans
                        /\ Sheets!HasItsOptions /\ Sheets!InsertsBetween
  /\ scene = "labels" => /\ Labels!TypeOK
                         /\ Labels!LettersInvert /\ Labels!LabelIsExact /\ Labels!MarksAreOthers

\* A diff shows the newer version whole, drops nothing of the older one, is silent
\* only where nothing changed, and marks no more than it must (doc-diff.ts:84-543).
DiffSafe ==
  scene = "diff" => /\ Diff!TypeOK
                    /\ Diff!AfterSurvives /\ Diff!NothingDropped
                    /\ Diff!NeverSilent /\ Diff!FewestMarks

\* The listed sessions cover the log, each shows its own edits over a baseline
\* that is never older than asked for, and a restore brings back the version
\* that was shown (sessions.service.ts:142-160, versions.service.ts:180-190).
HistorySafe ==
  /\ scene = "history" => /\ Hist!TypeOK
                          /\ Hist!SessionsCover /\ Hist!ShownIsTheSession
                          /\ Hist!BaselineNeverOlder /\ Hist!RestoredIsTheVersion
                          /\ Hist!CellsAccounted
  /\ scene = "long" => /\ Long!TypeOK
                       /\ Long!SessionsCover /\ Long!ShownIsTheSession
                       /\ Long!BaselineNeverOlder /\ Long!RestoredIsTheVersion
=============================================================================
