-------------------------------- MODULE Sheet --------------------------------
(***************************************************************************)
(* A SHEET document edited by several clients: rows, columns, cells with   *)
(* their type, and option lists that cells share.  Each client edits a     *)
(* Yjs replica of its own; replicas merge through the server.              *)
(***************************************************************************)
EXTENDS Integers, FiniteSets, Sequences, SequencesExt

CONSTANTS
  Client,      \* numbers: Yjs lets the highest win
  RowId, ColId, SetId,   \* numbers: random ids, in the order ties are broken
  SeedRows, SeedCols,
  Scale,       \* between two seeded columns: 1 in units of the last digit of a double
  MaxEdits,
  None

VARIABLES
  replica,     \* replica[c]: the document of client c
  server,
  conn,        \* conn[c]: "out", "opening" (not synced yet), "synced"
  pasting,     \* pasting[c]: the cell a paste waits for the clipboard to write
  seeds,       \* history: of each seeding, whether the server had had rows
  edits,
  serial       \* an edit begins when every replica has the last one

vars == <<replica, server, conn, pasting, seeds, edits, serial>>

Cell == RowId \X ColId
Label == {"x", "Option"}
\* A value: a text, a state, or an option of a list.
Value == [of : SetId \cup {None}, label : Label \cup {"checked"}]
\* The type of a cell, with its list or its picker.
Meta == [type : {"text", "checkbox", "dateTime", "dropdown", "tag"}, list : SetId \cup {None},
         picker : {"dateTime", "time"}]
Plain(type) == [type |-> type, list |-> None, picker |-> "dateTime"]

(***************************************************************************)
(* Yjs.  An entry of a Y.Map is the last item of a chain: an item extends  *)
(* the chain its client saw, and of concurrent ones the higher client's    *)
(* is last.  An item is deleted by a mark.                                 *)
(***************************************************************************)

Absent == [path |-> <<>>, val |-> None, dead |-> TRUE]
Set(i, c, v) == [path |-> Append(i.path, c), val |-> v, dead |-> FALSE]
Delete(i) == [i EXCEPT !.dead = TRUE]
Get(i) == IF i.dead THEN None ELSE i.val

Before(p, q) ==
  \/ IsStrictPrefix(p, q)
  \/ \E n \in DOMAIN p \cap DOMAIN q : p[n] < q[n] /\ \A m \in 1 .. n - 1 : p[m] = q[m]

Later(i, j) == CASE Before(i.path, j.path) -> j
                [] Before(j.path, i.path) -> i
                [] OTHER -> [i EXCEPT !.dead = i.dead \/ j.dead]

NewDoc == [rows |-> [r \in RowId |-> 0],       \* 0 never, 1 there, 2 deleted
           cols |-> [k \in ColId |-> Absent], sets |-> [s \in SetId |-> Absent],
           cell |-> [x \in Cell |-> Absent], meta |-> [x \in Cell |-> Absent]]

\* What a deleted row held goes with it.
Merge(d, e) ==
  LET rows == [r \in RowId |-> IF d.rows[r] > e.rows[r] THEN d.rows[r] ELSE e.rows[r]]
      Held(f, g) == [x \in Cell |-> IF rows[x[1]] = 2 THEN Absent ELSE Later(f[x], g[x])] IN
  [rows |-> rows, cols |-> [k \in ColId |-> Later(d.cols[k], e.cols[k])],
   sets |-> [s \in SetId |-> Later(d.sets[s], e.sets[s])],
   cell |-> Held(d.cell, e.cell), meta |-> Held(d.meta, e.meta)]

Replicas == {server} \cup {replica[c] : c \in Client}
Rows(d) == {r \in RowId : d.rows[r] = 1}
Cols(d) == {k \in ColId : Get(d.cols[k]) # None}
FreeRows == {r \in RowId : \A d \in Replicas : d.rows[r] = 0}
FreeCols == {k \in ColId : \A d \in Replicas : d.cols[k] = Absent}
FreeSets == {s \in SetId : \A d \in Replicas : d.sets[s] = Absent}

\* The lowest n ids of a set: row ids and set ids are all alike.
Lowest(S, n) == {x \in S : Cardinality({y \in S : y < x}) < n}
-----------------------------------------------------------------------------
(***************************************************************************)
(* Columns, and their order.                                               *)
(***************************************************************************)

OrderOf(d, k) == Get(d.cols[k])

\* readColumnIds: by order, then by id.
ColumnIds(d) == SetToSortSeq(Cols(d), LAMBDA a, b :
                     OrderOf(d, a) < OrderOf(d, b) \/ (OrderOf(d, a) = OrderOf(d, b) /\ a < b))

PutColumn(d, c, k, order) == [d EXCEPT !.cols[k] = Set(@, c, order)]

AppendSheetColumn(c, d) ==
  LET next == IF Cols(d) = {} THEN 0
              ELSE Scale + OrderOf(d, CHOOSE k \in Cols(d) : \A j \in Cols(d) : OrderOf(d, j) <= OrderOf(d, k))
  IN {PutColumn(d, c, k, next) : k \in FreeCols}

\* The midpoint; of two neighbouring numbers it rounds to one of them.
OrderBetween(left, right) ==
  CASE left = None -> right - Scale
    [] right = None -> left + Scale
    [] OTHER -> (left + right) \div 2

\* The order of a column inserted beside anchor.
InsertOrder(d, anchor, side) ==
  LET ids == ColumnIds(d)
      at == CHOOSE n \in DOMAIN ids : ids[n] = anchor
      left == IF side = "left" THEN at - 1 ELSE at
      Of(n) == IF n \in DOMAIN ids THEN OrderOf(d, ids[n]) ELSE None
  IN [left |-> Of(left), new |-> OrderBetween(Of(left), Of(left + 1)), right |-> Of(left + 1)]

InsertSheetColumn(c, d) ==
  {PutColumn(d, c, k, InsertOrder(d, a, side).new) : k \in FreeCols, a \in Cols(d), side \in {"left", "right"}}

\* Mutation: cell types stay behind.
ValuesOfColumn(d, k) ==
  [d EXCEPT !.cols[k] = Delete(@), !.cell = [x \in Cell |-> IF x[2] = k THEN Delete(@[x]) ELSE @[x]]]

WithoutColumn(d, k) ==
  [d EXCEPT !.cols[k] = Delete(@),
            !.cell = [x \in Cell |-> IF x[2] = k THEN Delete(@[x]) ELSE @[x]],
            !.meta = [x \in Cell |-> IF x[2] = k THEN Delete(@[x]) ELSE @[x]]]

DeleteSheetColumn(d) ==
  IF Cardinality(Cols(d)) <= 1 THEN {} ELSE {WithoutColumn(d, k) : k \in Cols(d)}
-----------------------------------------------------------------------------
(***************************************************************************)
(* Rows.                                                                   *)
(***************************************************************************)

\* appendSheetRow and insertSheetRow, wherever the row goes.
AddSheetRow(d) == {[d EXCEPT !.rows[r] = 1] : r \in Lowest(FreeRows, 1)}

WithoutRow(d, r) == Merge([d EXCEPT !.rows[r] = 2], NewDoc)

DeleteSheetRow(d) ==
  IF Cardinality(Rows(d)) <= 1 THEN {} ELSE {WithoutRow(d, r) : r \in Rows(d)}

\* clearSheetRow, clearSheetColumn, clearSheetCell: types stay.
Clear(d) ==
  LET Cleared(S) == [d EXCEPT !.cell = [x \in Cell |-> IF x \in S THEN Delete(@[x]) ELSE @[x]]] IN
  {Cleared({x}) : x \in Rows(d) \X Cols(d)}
  \cup {Cleared({r} \X ColId) : r \in Rows(d)} \cup {Cleared(Rows(d) \X {k}) : k \in Cols(d)}

SeedSheet(c, d) ==
  LET k == Lowest(FreeCols, SeedCols)
      Order(x) == Scale * Cardinality({y \in k : y < x}) IN
  [d EXCEPT !.rows = [r \in RowId |-> IF r \in Lowest(FreeRows, SeedRows) THEN 1 ELSE @[r]],
            !.cols = [x \in ColId |-> IF x \in k THEN Set(@[x], c, Order(x)) ELSE @[x]]]
-----------------------------------------------------------------------------
(***************************************************************************)
(* Cells.                                                                  *)
(***************************************************************************)

TypeAt(d, x) == IF Get(d.meta[x]) = None THEN "text" ELSE Get(d.meta[x]).type
Lists(type) == type \in {"dropdown", "tag"}

\* Cells a menu or a panel may act on: those shown, or those of a moment ago.
Picked(d) == Rows(d) \X IF serial THEN Cols(d) ELSE {k \in ColId : d.cols[k] # Absent}
Selections(d) == ({{x} : x \in Picked(d)} \cup {{x \in Picked(d) : x[1] = r} : r \in Rows(d)}) \ {{}}

Text(l) == [of |-> None, label |-> l]
SetSheetCell(c, d, x, v) == [d EXCEPT !.cell[x] = Set(@, c, v)]
SetMeta(c, d, S, Of(_)) == [d EXCEPT !.meta = [x \in Cell |-> IF x \in S THEN Set(@[x], c, Of(x)) ELSE @[x]]]

\* applySheetEdits.
Edit(c, d) ==
  {SetSheetCell(c, d, x, v) : x \in {y \in Picked(d) : TypeAt(d, y) = "text"}, v \in {Text("x")}}
  \cup {SetSheetCell(c, d, x, Text("checked")) : x \in {y \in Picked(d) : TypeAt(d, y) = "checkbox"}}
  \cup UNION {{SetSheetCell(c, d, x, [of |-> Get(d.meta[x]).list, label |-> l]) :
                 l \in Get(d.sets[Get(d.meta[x]).list]).options} :
              x \in {y \in Picked(d) : Lists(TypeAt(d, y))}}

\* The one option list of all the cells.
SharedOptionSetId(d, S) ==
  IF \E s \in SetId : \A x \in S : Lists(TypeAt(d, x)) /\ Get(d.meta[x]).list = s
  THEN Get(d.meta[CHOOSE x \in S : TRUE]).list ELSE None

SeedLabel(d, x) ==
  CASE TypeAt(d, x) = "text" /\ Get(d.cell[x]) = Text("x") -> "x"
    [] OTHER -> None           \* the labels of booleans are left out

PutOptionSet(c, d, s, options) == [d EXCEPT !.sets[s] = Set(@, c, [options |-> options])]

\* To a dropdown or tag: cells keep their list if they share one, or get a new
\* one of their values, or of placeholders.
ApplyOptionSetCellType(c, d, S, type) ==
  LET shared == SharedOptionSetId(d, S)
      labels == {SeedLabel(d, x) : x \in S} \ {None}
      Point(e, s) == SetMeta(c, e, S, LAMBDA x : [Plain(type) EXCEPT !.list = s])
      Keep(e, s) == [e EXCEPT !.cell = [x \in Cell |-> IF x \in S /\ SeedLabel(d, x) # None
                                                       THEN Set(@[x], c, [of |-> s, label |-> SeedLabel(d, x)]) ELSE @[x]]] IN
  IF shared # None THEN {Point(d, shared)}
  ELSE {Keep(Point(PutOptionSet(c, d, s, IF labels = {} THEN {"Option"} ELSE labels), s), s)
          : s \in Lowest(FreeSets, 1)}

SetSheetCellType(c, d) ==
  UNION {{SetMeta(c, d, S, LAMBDA x : Plain(type)) : type \in {"text", "checkbox"}}
         \cup {SetMeta(c, d, S, LAMBDA x :
                 IF TypeAt(d, x) = "dateTime" THEN Get(d.meta[x]) ELSE Plain("dateTime"))}
         \cup ApplyOptionSetCellType(c, d, S, "dropdown") : S \in Selections(d)}

SetSheetDateTimeVariant(c, d) ==
  {SetMeta(c, d, {x \in S : TypeAt(d, x) = "dateTime"}, LAMBDA x : [Plain("dateTime") EXCEPT !.picker = "time"]) :
     S \in {T \in Selections(d) : \E x \in T : TypeAt(d, x) = "dateTime"}}

\* The options form: a list that all cells share is changed in place, else cells get a new one.
SaveDropdownOptions(c, d) ==
  UNION {LET shared == SharedOptionSetId(d, S)
             To(s) == PutOptionSet(c, d, s, {"Option"}) IN
         IF shared # None THEN {To(shared)}
         ELSE {SetMeta(c, To(s), S, LAMBDA x :
                         [Plain(IF Lists(TypeAt(d, x)) THEN TypeAt(d, x) ELSE "dropdown") EXCEPT !.list = s]) : s \in Lowest(FreeSets, 1)} :
         S \in {T \in Selections(d) : \E x \in T : Lists(TypeAt(d, x))}}
-----------------------------------------------------------------------------
(***************************************************************************)
(* Clients.                                                                *)
(***************************************************************************)

TypeOK ==
  /\ \A d \in Replicas :
       /\ d.rows \in [RowId -> 0 .. 2]
       /\ \A x \in Cell : Get(d.cell[x]) \in Value \cup {None} /\ Get(d.meta[x]) \in Meta \cup {None}
       /\ \A k \in ColId : Get(d.cols[k]) \in Int \cup {None}
       /\ \A s \in SetId : Get(d.sets[s]) \in [options : SUBSET Label] \cup {None}
  /\ conn \in [Client -> {"out", "opening", "synced"}]
  /\ pasting \in [Client -> Cell \cup {None}]
  /\ seeds \in Seq(BOOLEAN) /\ edits \in 0 .. MaxEdits /\ serial \in BOOLEAN

Init ==
  /\ server = NewDoc
  /\ replica = [c \in Client |-> NewDoc]
  /\ conn = [c \in Client |-> "out"]
  /\ pasting = [c \in Client |-> None]
  /\ seeds = <<>> /\ edits = 0 /\ serial \in BOOLEAN

\* Every client that is there has what the server has, and nothing is under way.
InStep == \A c \in Client : conn[c] # "opening" /\ pasting[c] = None
                            /\ (conn[c] = "synced" => replica[c] = server)

Open(c) ==
  /\ conn[c] = "out"
  /\ conn' = [conn EXCEPT ![c] = "opening"]
  /\ UNCHANGED <<replica, server, pasting, seeds, edits, serial>>

\* The server's answer arrives; an editor that finds no rows seeds the sheet.
OnSync(c) ==
  LET d == Merge(replica[c], server) IN
  /\ conn[c] = "opening"
  /\ conn' = [conn EXCEPT ![c] = "synced"]
  /\ IF Rows(d) = {} /\ Len(seeds) < 2 /\ FreeRows # {} /\ FreeCols # {}      \* two are enough to see a second
     THEN replica' = [replica EXCEPT ![c] = SeedSheet(c, d)]
          /\ seeds' = Append(seeds, \E r \in RowId : server.rows[r] # 0)
     ELSE replica' = [replica EXCEPT ![c] = d] /\ seeds' = seeds
  /\ UNCHANGED <<server, pasting, edits, serial>>

\* The page is left, and its document with it, when it has nothing to send.
Leave(c) ==
  /\ conn[c] # "out" /\ InStep
  /\ conn' = [conn EXCEPT ![c] = "out"]
  /\ replica' = [replica EXCEPT ![c] = NewDoc]
  /\ pasting' = [pasting EXCEPT ![c] = None]
  /\ UNCHANGED <<server, seeds, edits, serial>>

\* Updates travel both ways.
Exchange(c) ==
  /\ conn[c] = "synced" /\ replica[c] # server
  /\ server' = Merge(replica[c], server)
  /\ replica' = [replica EXCEPT ![c] = server']
  /\ UNCHANGED <<conn, pasting, seeds, edits, serial>>

Begins == edits < MaxEdits /\ (serial => InStep) /\ edits' = edits + 1

Edits(c, d) ==
  AddSheetRow(d) \cup DeleteSheetRow(d) \cup Clear(d) \cup Edit(c, d)
  \cup AppendSheetColumn(c, d) \cup InsertSheetColumn(c, d) \cup DeleteSheetColumn(d)
  \cup SetSheetCellType(c, d) \cup SetSheetDateTimeVariant(c, d) \cup SaveDropdownOptions(c, d)

\* Before it is synced the page shows no cells, but it can add rows and columns.
EditSheet(c) ==
  /\ Begins
  /\ \/ conn[c] = "synced" /\ \E e \in Edits(c, replica[c]) : replica' = [replica EXCEPT ![c] = e]
     \/ /\ conn[c] = "opening"
        /\ \E e \in AddSheetRow(replica[c]) \cup AppendSheetColumn(c, replica[c]) :
             replica' = [replica EXCEPT ![c] = e]
  /\ UNCHANGED <<server, conn, pasting, seeds, serial>>

\* A paste asks the clipboard, and writes to the cell when it answers.
PasteBegins(c) ==
  /\ conn[c] = "synced" /\ pasting[c] = None /\ Begins
  /\ \E x \in Rows(replica[c]) \X Cols(replica[c]) : pasting' = [pasting EXCEPT ![c] = x]
  /\ UNCHANGED <<replica, server, conn, seeds, serial>>

PasteIntoCell(c) ==
  LET x == pasting[c] IN
  /\ x # None
  /\ \/ replica' = replica                              \* the browser refuses
     \/ x[1] \in Rows(replica[c]) /\ replica' = [replica EXCEPT ![c] = SetSheetCell(c, @, x, Text("x"))]
  /\ pasting' = [pasting EXCEPT ![c] = None]
  /\ UNCHANGED <<server, conn, seeds, edits, serial>>

Next == \E c \in Client : \/ Open(c) \/ OnSync(c) \/ Leave(c) \/ Exchange(c)
                          \/ EditSheet(c) \/ PasteBegins(c) \/ PasteIntoCell(c)

Spec == Init /\ [][Next]_vars
-----------------------------------------------------------------------------
(***************************************************************************)
(* Properties.                                                             *)
(***************************************************************************)

\* SheetEditor.tsx:239 seeds a sheet once, whose rows "are never duplicated":
\* of edits one after another, nobody seeds a sheet whose rows have reached the
\* server, and it has rows and columns ever after. Editors that open an empty
\* sheet together may each seed it, before the rows of the other arrive.
SeededOnce == serial => /\ \A i \in DOMAIN seeds : ~seeds[i]
                        /\ seeds # <<>> /\ InStep /\ (\E c \in Client : conn[c] = "synced")
                             => Rows(server) # {} /\ Cols(server) # {}

\* sheetModel.ts:771: a deleted column leaves no value or type behind, of edits
\* one after another.
NoOrphans == serial => \A d \in Replicas : \A x \in Cell :
               Get(d.cell[x]) # None \/ Get(d.meta[x]) # None => x[1] \in Rows(d) /\ x[2] \in Cols(d)

\* However edits merge, a dropdown or tag cell has its list.
HasItsOptions == \A d \in Replicas : \A x \in Cell :
                   Get(d.meta[x]) # None /\ Lists(Get(d.meta[x]).type) => Get(d.sets[Get(d.meta[x]).list]) # None

\* sheetModel.ts:740: a column inserted beside another sorts between the two
\* neighbours, of edits one after another, on a sheet seeded once, until halving
\* the distance between two columns has used up the digits of a double.
InsertsBetween ==
  serial /\ Len(seeds) <= 1 /\ 2 ^ (edits + 1) <= Scale => \A d \in Replicas : \A k \in Cols(d), side \in {"left", "right"} :
    LET o == InsertOrder(d, k, side) IN
    (o.left # None => o.left < o.new) /\ (o.right # None => o.new < o.right)
=============================================================================
