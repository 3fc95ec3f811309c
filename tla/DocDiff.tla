------------------------------ MODULE DocDiff ------------------------------
(***************************************************************************)
(* The comparison of two versions of a DOC (rtc-server, history/           *)
(* doc-diff.ts): two editor states are merged into one whose changed runs, *)
(* blocks and cells carry a mark.                                          *)
(*                                                                         *)
(* A node is a record: its type, the text (of a word, an image's source,   *)
(* of a cell the background), attr for the other attributes a signature    *)
(* has (format, alignment, ...), loose for those it leaves out (direction, *)
(* version, uploadId, ...), and its children.  Texts are cut in words and  *)
(* blanks from the start, and a run of one class stays cut: joining pieces *)
(* into text nodes changes no word, class or format.                       *)
(***************************************************************************)
EXTENDS Integers, Sequences, FiniteSets, FiniteSetsExt, SequencesExt

CONSTANTS MAX_DP_CELLS,        \* of an alignment
          MAX_REGION_PAIRING,  \* removed x added blocks of a region
          Base, Block,         \* versions to start from, blocks an edit writes
          MaxBlocks,           \* of a document
          None

VARIABLES before, after,  \* the lists of blocks below the two roots
          merged          \* what was last shown

vars == <<before, after, merged>>

Node(type, text, attr, kids) ==
  [type |-> type, text |-> text, attr |-> attr, loose |-> 0, kids |-> kids]
Blank       == " "
IsBlank(t)  == t.type = "text" /\ t.text = Blank
SimpleTypes == {"paragraph", "heading", "quote"}

\* isSimpleTextBlock: words, blanks and inline nodes without children.
IsSimple(b) == b.type \in SimpleTypes /\ \A i \in DOMAIN b.kids : b.kids[i].kids = << >>

\* wrapRun, wrapBlock.
Mark(variant, kids) == Node("diff-mark", variant, 0, kids)

Map(f(_), s) == [i \in DOMAIN s |-> f(s[i])]

RECURSIVE Signature(_)
\* nodeSignature: the node without what is loose, below it too.
Signature(n) == [n EXCEPT !.loose = 0, !.kids = Map(Signature, n.kids)]

\* tokenKey: a blank has no format.
TokenKey(t) == IF IsBlank(t) THEN Node("text", Blank, 0, << >>) ELSE Signature(t)
-----------------------------------------------------------------------------
\* lcsAlign: pairs, None for a side that has no counterpart.
LcsAlign(B, A, kb, ka) ==
  LET least == Min({Len(B), Len(A)})
      lo == Max({p \in 0 .. least : \A i \in 1 .. p : kb[i] = ka[i]})
      up == Max({s \in 0 .. least - lo :
                   \A k \in 0 .. s - 1 : kb[Len(B) - k] = ka[Len(A) - k]})
      n == Len(B) - up
      m == Len(A) - up
      Both(i, j) == <<[before |-> B[i], after |-> A[j]]>>
      Gone(i)    == <<[before |-> B[i], after |-> None]>>
      New(j)     == <<[before |-> None, after |-> A[j]]>>
      dp[i \in lo + 1 .. n + 1, j \in lo + 1 .. m + 1] ==
        IF i > n \/ j > m THEN 0
        ELSE IF kb[i] = ka[j] THEN 1 + dp[i + 1, j + 1]
        ELSE Max({dp[i + 1, j], dp[i, j + 1]})
      walk[i \in lo + 1 .. n + 1, j \in lo + 1 .. m + 1] ==
        IF i > n THEN FlattenSeq([k \in 1 .. m + 1 - j |-> New(j + k - 1)])
        ELSE IF j > m THEN FlattenSeq([k \in 1 .. n + 1 - i |-> Gone(i + k - 1)])
        ELSE IF kb[i] = ka[j] THEN Both(i, j) \o walk[i + 1, j + 1]
        ELSE IF dp[i + 1, j] >= dp[i, j + 1] THEN Gone(i) \o walk[i + 1, j]
        ELSE New(j) \o walk[i, j + 1]
      middle == IF (n - lo + 1) * (m - lo + 1) > MAX_DP_CELLS
                THEN FlattenSeq([k \in 1 .. n - lo |-> Gone(lo + k)])
                     \o FlattenSeq([k \in 1 .. m - lo |-> New(lo + k)])
                ELSE walk[lo + 1, lo + 1]
  IN FlattenSeq([i \in 1 .. lo |-> Both(i, i)]) \o middle
     \o FlattenSeq([k \in 1 .. up |-> Both(n + k, m + k)])

IsBoth(p) == p.before # None /\ p.after # None
-----------------------------------------------------------------------------
(***************************************************************************)
(* The words of a block.                                                   *)
(***************************************************************************)

Token(p) == IF IsBoth(p) THEN p.after
            ELSE IF p.after # None THEN Mark("added", <<p.after>>)
            ELSE Mark("removed", <<p.before>>)

\* diffSimpleTextBlock, and the pair of blocks where only attributes differ.
DiffSimpleTextBlock(b, a) ==
  LET pairs == LcsAlign(b.kids, a.kids, Map(TokenKey, b.kids), Map(TokenKey, a.kids))
  IN IF \E i \in DOMAIN pairs : ~IsBoth(pairs[i])
     THEN <<[a EXCEPT !.kids = Map(Token, pairs)]>>
     ELSE <<Mark("removed", <<b>>), Mark("added", <<a>>)>>

RECURSIVE Leaves(_)
\* The leaves below a node, in order.
Leaves(n) == IF n.kids = << >> THEN <<n>> ELSE FlattenSeq(Map(Leaves, n.kids))

Words(n) == {t.text : t \in {u \in ToSet(Leaves(n)) : u.type = "text" /\ u.text # Blank}}

\* cellText: the words of the cell's texts, one blank between them.
CellText(c) == Map(LAMBDA t : t.text, SelectSeq(Leaves(c), LAMBDA t : t.type = "text" /\ t.text # Blank))

\* jaccard >= BLOCK_PAIR_THRESHOLD, and the order of two scores.
Overlap(b, a) == IF Words(b) \cup Words(a) = {} THEN <<1, 1>>
                 ELSE <<Cardinality(Words(b) \cap Words(a)), Cardinality(Words(b) \cup Words(a))>>
Score(b, a)     == IF IsSimple(b) /\ IsSimple(a) THEN Overlap(b, a) ELSE <<1, 1>>
MoreThan(s, t)  == s[1] * t[2] > t[1] * s[2]
LeastOverlap(s) == 4 * s[1] >= s[2]
-----------------------------------------------------------------------------
(***************************************************************************)
(* Blocks, tables and layouts.                                             *)
(***************************************************************************)

\* The pairing of a change region: each removed block in turn takes the most
\* similar added block of its type that is left, the first among equals.
Pairing(removed, added) ==
  LET Best(b, free) ==
        CHOOSE j \in {i \in free : added[i].type = b.type} :
          \A i \in {k \in free : added[k].type = b.type} :
            ~MoreThan(Score(b, added[i]), Score(b, added[j]))
            /\ (i < j => MoreThan(Score(b, added[j]), Score(b, added[i])))
      Free(f) == DOMAIN added \ {f[i] : i \in DOMAIN f}
      Pair(b, f) ==
        IF \A i \in Free(f) : added[i].type # b.type THEN f \o <<0>>
        ELSE LET j == Best(b, Free(f)) IN
             f \o <<IF LeastOverlap(Score(b, added[j])) THEN j ELSE 0>>
  IN IF Len(removed) * Len(added) > MAX_REGION_PAIRING THEN [i \in DOMAIN removed |-> 0]
     ELSE FoldLeft(LAMBDA f, b : Pair(b, f), << >>, removed)

\* tintCell
TintCell(c, variant) == [c EXCEPT !.text = variant]

RECURSIVE MergeBlockLists(_, _)

\* diffCell
DiffCell(b, a) == IF Signature(b) = Signature(a) THEN a ELSE [a EXCEPT !.kids = MergeBlockLists(b.kids, a.kids)]

\* rectDims
IsGrid(t) == /\ t.kids # << >>
             /\ \A i \in DOMAIN t.kids :
                  /\ t.kids[i].type = "tablerow" /\ t.kids[i].kids # << >>
                  /\ Len(t.kids[i].kids) = Len(t.kids[1].kids)
                  /\ \A c \in DOMAIN t.kids[i].kids : t.kids[i].kids[c].type = "custom-table-cell"

\* Rows aligned by what they say.
DiffRows(b, a) ==
  LET Key(r) == FlattenSeq(Map(CellText, r.kids))
      pairs  == LcsAlign(b.kids, a.kids, Map(Key, b.kids), Map(Key, a.kids))
      Row(p) == IF IsBoth(p)
                THEN [p.after EXCEPT !.kids =
                        [c \in DOMAIN p.after.kids |-> DiffCell(p.before.kids[c], p.after.kids[c])]]
                ELSE IF p.after # None
                THEN [p.after EXCEPT !.kids = Map(LAMBDA c : TintCell(c, "added"), p.after.kids)]
                ELSE [p.before EXCEPT !.kids = Map(LAMBDA c : TintCell(c, "removed"), p.before.kids)]
  IN [a EXCEPT !.kids = Map(Row, pairs)]

\* Columns aligned by what they say; colWidths are not modelled.
DiffColumns(b, a) ==
  LET Column(t) == [c \in DOMAIN t.kids[1].kids |-> [r \in DOMAIN t.kids |-> t.kids[r].kids[c]]]
      Key(col)  == FlattenSeq(Map(CellText, col))
      pairs     == LcsAlign(Column(b), Column(a), Map(Key, Column(b)), Map(Key, Column(a)))
      Cell(p, r) == IF IsBoth(p) THEN DiffCell(p.before[r], p.after[r])
                    ELSE IF p.after # None THEN TintCell(p.after[r], "added")
                    ELSE TintCell(p.before[r], "removed")
  IN [a EXCEPT !.kids =
        [r \in DOMAIN a.kids |-> [a.kids[r] EXCEPT !.kids = [i \in DOMAIN pairs |-> Cell(pairs[i], r)]]]]

DiffCells(b, a) ==
  [a EXCEPT !.kids =
     [r \in DOMAIN a.kids |-> [a.kids[r] EXCEPT !.kids =
        [c \in DOMAIN a.kids[r].kids |-> DiffCell(b.kids[r].kids[c], a.kids[r].kids[c])]]]]

\* diffTable: None where the blocks are compared whole.
DiffTable(b, a) ==
  IF ~IsGrid(b) \/ ~IsGrid(a) THEN None
  ELSE LET sameRows == Len(b.kids) = Len(a.kids)
           sameCols == Len(b.kids[1].kids) = Len(a.kids[1].kids)
       IN CASE sameCols /\ sameRows  -> DiffCells(b, a)
            [] sameCols /\ ~sameRows -> DiffRows(b, a)
            [] ~sameCols /\ sameRows -> DiffColumns(b, a)
            [] OTHER                 -> None

\* diffLayout
DiffLayout(b, a) ==
  IF Len(b.kids) # Len(a.kids) THEN None
  ELSE [a EXCEPT !.kids =
          [i \in DOMAIN a.kids |-> [a.kids[i] EXCEPT
             !.kids = MergeBlockLists(b.kids[i].kids, a.kids[i].kids)]]]

\* emitMatchedBlock
EmitMatchedBlock(b, a) ==
  LET granular == CASE b.type = "table"            -> DiffTable(b, a)
                    [] b.type = "layout-container" -> DiffLayout(b, a)
                    [] OTHER                       -> None
  IN IF Signature(b) = Signature(a) THEN <<a>>
     ELSE IF IsSimple(b) /\ IsSimple(a) THEN DiffSimpleTextBlock(b, a)
     ELSE IF granular # None THEN <<granular>>
     ELSE <<Mark("removed", <<b>>), Mark("added", <<a>>)>>

\* Mutation: the blocks that were removed are shown only where they have a pair.
EmitChangeRegionKept(removed, added) ==
  LET pair == Pairing(removed, added)
  IN FlattenSeq([j \in DOMAIN added |->
       IF \E i \in DOMAIN removed : pair[i] = j
       THEN EmitMatchedBlock(removed[CHOOSE i \in DOMAIN removed : pair[i] = j], added[j])
       ELSE <<Mark("added", <<added[j]>>)>>])

\* emitChangeRegion
EmitChangeRegion(removed, added) ==
  LET pair == Pairing(removed, added)
  IN FlattenSeq([i \in DOMAIN removed |->
       IF pair[i] = 0 THEN <<Mark("removed", <<removed[i]>>)>> ELSE << >>])
     \o FlattenSeq([j \in DOMAIN added |->
       IF \E i \in DOMAIN removed : pair[i] = j
       THEN EmitMatchedBlock(removed[CHOOSE i \in DOMAIN removed : pair[i] = j], added[j])
       ELSE <<Mark("added", <<added[j]>>)>>])

\* mergeBlockLists: what is alike anchors the lists, between two anchors is a region.
MergeBlockLists(b, a) ==
  LET pairs == LcsAlign(b, a, Map(Signature, b), Map(Signature, a))
      Sides(reg) == EmitChangeRegion(reg.removed, reg.added)
      Fresh == [out |-> << >>, removed |-> << >>, added |-> << >>]
      Take(acc, p) ==
        IF IsBoth(p) THEN [Fresh EXCEPT !.out = acc.out \o Sides(acc) \o <<p.after>>]
        ELSE IF p.after # None THEN [acc EXCEPT !.added = Append(@, p.after)]
        ELSE [acc EXCEPT !.removed = Append(@, p.before)]
      end == FoldLeft(Take, Fresh, pairs)
  IN end.out \o Sides(end)
-----------------------------------------------------------------------------
Init == before \in Base /\ after = before /\ merged = << >>

\* Someone edits: a block comes, goes or is replaced.
Edit ==
  /\ merged = << >>
  /\ \/ \E i \in 1 .. Len(after) + 1, b \in Block :
          Len(after) < MaxBlocks /\ after' = InsertAt(after, i, b)
     \/ \E i \in DOMAIN after : after' = RemoveAt(after, i)
     \/ \E i \in DOMAIN after, b \in Block : after' = ReplaceAt(after, i, b)
  /\ UNCHANGED <<before, merged>>

\* diffEditorStates
DiffEditorStates ==
  /\ merged = << >>
  /\ merged' = MergeBlockLists(before, after)
  /\ UNCHANGED <<before, after>>

Next == Edit \/ DiffEditorStates

Spec == Init /\ [][Next]_vars
-----------------------------------------------------------------------------
(***************************************************************************)
(* Properties.                                                             *)
(***************************************************************************)

RECURSIVE Without(_, _)
\* A merged node with one variant's marks gone and the other's taken off.
Without(variant, n) ==
  LET rest == FlattenSeq(Map(LAMBDA k : Without(variant, k), n.kids)) IN
  CASE n.type = "diff-mark" -> IF n.text = variant THEN << >> ELSE n.kids
    [] n.type = "custom-table-cell" ->
         IF n.text = variant THEN << >> ELSE <<[n EXCEPT !.text = "", !.kids = rest]>>
    [] n.type = "tablerow" -> IF rest = << >> THEN << >> ELSE <<[n EXCEPT !.kids = rest]>>
    [] OTHER -> <<[n EXCEPT !.kids = rest]>>

Side(variant) == FlattenSeq(Map(LAMBDA n : Without(variant, n), merged))

TypeOK == /\ before \in Base /\ Len(after) <= MaxBlocks
          /\ \A i \in DOMAIN merged : DOMAIN merged[i] = {"type", "text", "attr", "loose", "kids"}

Shown == merged # << >>

\* Without what is marked removed, the version that was asked for is left, every
\* block and word in its place ("added content keeps its real position",
\* doc-diff.ts:598).
AfterSurvives == Shown => Side("removed") = after

\* Without what is marked added, every word of the old version is left as
\* often as it was there: nothing that was deleted goes unshown
\* ("removes are re-inserted as removed", doc-diff.ts:686).
Said(s) == LET said == SelectSeq(FlattenSeq(Map(Leaves, s)), LAMBDA t : t.text # "")
           IN [w \in {t.text : t \in ToSet(said)} |->
                 Cardinality({i \in DOMAIN said : said[i].text = w})]
NothingDropped == Shown => Said(Side("added")) = Said(before)

RECURSIVE Marked(_)
Marked(n) == \/ n.type = "diff-mark"
             \/ n.type = "custom-table-cell" /\ n.text # ""
             \/ \E i \in DOMAIN n.kids : Marked(n.kids[i])

RECURSIVE Bare(_)
\* A node without the attributes a granular comparison does not tint: of a
\* table, its rows and cells, a layout and its columns (doc-diff.ts:364).
Bare(n) == [n EXCEPT !.kids = Map(Bare, n.kids),
              !.loose = 0, !.attr = IF IsSimple(n) \/ n.kids = << >> THEN @ ELSE 0]

\* An edit is never shown as no change, and no change never as an edit ("so the
\* edit is never rendered as no change", doc-diff.ts:543).
NeverSilent ==
  Shown => LET marked == \E i \in DOMAIN merged : Marked(merged[i]) IN
           /\ Map(Bare, before) # Map(Bare, after) => marked
           /\ Map(Signature, before) = Map(Signature, after) => ~marked

\* A word that is in both versions at its place is not struck and written
\* again: the words shown unmarked are the longest run the two paragraphs have
\* in common, while the matrix is small enough (doc-diff.ts:86).
Common(b, a) ==
  LET kb == Map(TokenKey, b)
      ka == Map(TokenKey, a)
      Pick(s, S) == FoldLeft(LAMBDA acc, i : IF i \in S THEN Append(acc, s[i]) ELSE acc,
                             << >>, [i \in DOMAIN s |-> i])
  IN Max({Cardinality(S) : S \in {T \in SUBSET DOMAIN kb :
            \E U \in SUBSET DOMAIN ka : Pick(kb, T) = Pick(ka, U)}})
FewestMarks ==
  Shown /\ Len(before) = 1 /\ Len(after) = 1 /\ Len(merged) = 1
        /\ IsSimple(before[1]) /\ IsSimple(after[1])
        /\ (Len(before[1].kids) + 1) * (Len(after[1].kids) + 1) <= MAX_DP_CELLS
    => Cardinality({i \in DOMAIN merged[1].kids : merged[1].kids[i].type # "diff-mark"})
         = Common(before[1].kids, after[1].kids)
=============================================================================
