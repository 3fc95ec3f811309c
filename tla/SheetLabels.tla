----------------------------- MODULE SheetLabels -----------------------------
(***************************************************************************)
(* What a sheet's page says of selections: the letters of columns, the     *)
(* label of the selected cells, and the marks of the cells that others     *)
(* have selected.                                                          *)
(***************************************************************************)
EXTENDS Naturals, FiniteSets, Sequences, SequencesExt, FiniteSetsExt

CONSTANTS
  Client,            \* numbers
  Row, Col,          \* numbers, from 0
  ALPHABET_SIZE, MAX_PRESENCE_CELLS,
  MaxColumns         \* bound on the columns, which are all added before the page opens

VARIABLES
  selected,          \* selected[c]: the cells, <<col, row>>, client c has selected
  online,
  columns            \* how many columns there are

vars == <<selected, online, columns>>

TypeOK == selected \in [Client -> SUBSET (Col \X Row)] /\ online \in [Client -> BOOLEAN]
          /\ columns \in 0 .. MaxColumns

Init == selected = [c \in Client |-> {}] /\ online = [c \in Client |-> FALSE] /\ columns = 0

Connect(c) == ~online[c] /\ columns = MaxColumns /\ online' = [online EXCEPT ![c] = TRUE] /\ UNCHANGED <<selected, columns>>
Disconnect(c) ==
  /\ online[c]
  /\ online' = [online EXCEPT ![c] = FALSE] /\ selected' = [selected EXCEPT ![c] = {}]
  /\ UNCHANGED columns
Select(c, x) ==
  /\ online[c]
  /\ selected' = [selected EXCEPT ![c] = (@ \ {x}) \cup ({x} \ @)]
  /\ UNCHANGED <<online, columns>>

AddColumn ==
  /\ columns < MaxColumns /\ columns' = columns + 1
  /\ UNCHANGED <<selected, online>>

Next == AddColumn \/ \E c \in Client : Connect(c) \/ Disconnect(c) \/ \E x \in Col \X Row : Select(c, x)

Spec == Init /\ [][Next]_vars
-----------------------------------------------------------------------------
(***************************************************************************)
(* Letters: digits 1 .. ALPHABET_SIZE, no zero.                            *)
(***************************************************************************)

\* The letters of a position that starts at 1, the last one found first.
Letters[position \in 0 .. MaxColumns] ==
  IF position = 0 THEN <<>>
  ELSE Append(Letters[(position - 1) \div ALPHABET_SIZE], ((position - 1) % ALPHABET_SIZE) + 1)

IndexToColumnId(index) == Letters[index + 1]

ColumnIdToIndex(label) == FoldLeft(LAMBDA p, letter : p * ALPHABET_SIZE + letter, 0, label) - 1
-----------------------------------------------------------------------------
(***************************************************************************)
(* The label of a selection: ranges, from a cell to a cell.                *)
(***************************************************************************)

Sorted(S) == SetToSortSeq(S, LAMBDA x, y : x[1] < y[1] \/ (x[1] = y[1] /\ x[2] < y[2]))

ExtendsRun(previous, x) == x[1] = previous[1] /\ x[2] = previous[2] + 1

\* Scattered cells, as vertical runs.
ScatteredSelection(S) ==
  LET cells == Sorted(S)
      Add(acc, x) == IF ExtendsRun(acc.previous, x) THEN [acc EXCEPT !.previous = x]
                     ELSE [runs |-> Append(acc.runs, <<acc.start, acc.previous>>), start |-> x, previous |-> x]
      end == FoldLeft(Add, [runs |-> <<>>, start |-> cells[1], previous |-> cells[1]], Tail(cells))
  IN Append(end.runs, <<end.start, end.previous>>)

SelectionRange(S) ==
  LET cols == {x[1] : x \in S} rows == {x[2] : x \in S}
      corner == <<Min(cols), Min(rows)>> opposite == <<Max(cols), Max(rows)>> IN
  IF S = {} THEN <<>>
  ELSE IF Cardinality(S) = (opposite[1] - corner[1] + 1) * (opposite[2] - corner[2] + 1)
       THEN <<<<corner, opposite>>>> ELSE ScatteredSelection(S)

\* What a reader takes a range to mean.
Meant(range) == (range[1][1] .. range[2][1]) \X (range[1][2] .. range[2][2])
-----------------------------------------------------------------------------
(***************************************************************************)
(* Presence: a client publishes some of its cells, the others mark them.   *)
(***************************************************************************)

Published(c) == ToSet(SubSeq(Sorted(selected[c]), 1, Min({MAX_PRESENCE_CELLS, Cardinality(selected[c])})))

PresenceAt(viewer, x) == {c \in Client \ {viewer} : online[c] /\ x \in Published(c)}
-----------------------------------------------------------------------------
(***************************************************************************)
(* Properties.                                                             *)
(***************************************************************************)

\* sheetModel.ts:155: a column's letters name it and no other column.
LettersInvert == \A n \in 0 .. columns - 1 : ColumnIdToIndex(IndexToColumnId(n)) = n

\* sheetModel.ts:137: the label names exactly the selected cells, each once,
\* and by no more ranges than they have vertical runs.
LabelIsExact ==
  \A c \in Client :
    LET ranges == SelectionRange(selected[c]) IN
    /\ UNION {Meant(ranges[i]) : i \in DOMAIN ranges} = selected[c]
    /\ \A i, j \in DOMAIN ranges : i # j => Meant(ranges[i]) \cap Meant(ranges[j]) = {}
    /\ Len(ranges) <= Cardinality({x \in selected[c] : <<x[1], x[2] - 1>> \notin selected[c] \/ x[2] = 0})

\* sheetModel.ts:318: a mark stands for another client that is there and has
\* selected the cell, and a selection within the cap is marked whole.
MarksAreOthers ==
  \A v \in Client, x \in Col \X Row :
    /\ \A c \in PresenceAt(v, x) : c # v /\ online[c] /\ x \in selected[c]
    /\ \A c \in Client \ {v} :
         online[c] /\ x \in selected[c] /\ Cardinality(selected[c]) <= MAX_PRESENCE_CELLS => c \in PresenceAt(v, x)
=============================================================================
