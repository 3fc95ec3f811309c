-------------------------- MODULE CompactionProofs --------------------------
(***************************************************************************)
(* Proofs about Compaction, for any log, authors, ages and number of runs. *)
(* Whether or not runs overlap, and in whatever order snapshots commit:     *)
(* types, rows above every snapshot so far, the head of the log and         *)
(* attribution are safe.  Where they do not: history   *)
(* keeps every edit, and the steps of a run amount to RowLog's one step.   *)
(***************************************************************************)
EXTENDS Compaction, FiniteSetTheorems, SequenceTheorems, WellFoundedInduction, TLAPS

\* What the proofs use of the constants.
LEMMA ConstantFacts ==
  /\ MaxSeq \in Nat /\ MaxNow \in Nat /\ MaxFaults \in Nat /\ Overlap \in BOOLEAN
  /\ None \notin Sub
BY ConstantsAssumption DEF ConstantsAssumption

\* A set of numbers has a least member.
LEMMA Least ==
  ASSUME NEW T, T \subseteq Nat, T # {} PROVE \E x \in T : \A y \in T : x <= y
<1>1. PICK x \in T : \A y \in T : ~(<<y, x>> \in OpToRel(<, Nat))
  BY WFMin, NatLessThanWellFounded
<1>2. \A y \in T : <<y, x>> \in OpToRel(<, Nat) <=> y < x
  BY DEF OpToRel
<1>3. \A y \in T : ~(y < x) BY <1>1, <1>2, Zenon
<1>4. \A y \in T : x <= y BY <1>3
<1> QED BY <1>4

\* A set of seqs has a largest member.
LEMMA Largest ==
  ASSUME NEW T, T \subseteq Seqs, T # {} PROVE \E x \in T : \A y \in T : y <= x
<1> DEFINE U == {MaxSeq - t : t \in T}
<1>1. U \subseteq Nat /\ U # {}
  <2>1. \A t \in T : MaxSeq - t \in Nat BY ConstantFacts DEF Seqs
  <2> QED BY <2>1
<1> HIDE DEF U
<1>2. PICK u \in U : \A v \in U : u <= v BY <1>1, Least
<1> USE DEF U
<1>3. PICK x \in T : u = MaxSeq - x OBVIOUS
<1>4. \A y \in T : MaxSeq - x <= MaxSeq - y BY <1>2, <1>3
<1>5. \A y \in T : y <= x BY <1>4, ConstantFacts DEF Seqs
<1> QED BY <1>5

\* Edits are counted by a natural number, and appended at the end.
LEMMA EditsType == TypeOK => edits \in 0 .. MaxSeq
BY LenProperties, ConstantFacts DEF TypeOK, edits

LEMMA AppendBy ==
  ASSUME TypeOK, NEW c \in Sub, by' = Append(by, c)
  PROVE  /\ by' \in Seq(Sub) /\ edits' = edits + 1
         /\ \A e \in 1 .. edits : by'[e] = by[e]
         /\ by'[edits + 1] = c
BY AppendProperties DEF TypeOK, edits

(***************************************************************************)
(* Sessions: what groupBySession returns.                                  *)
(***************************************************************************)
\* Candidates linked to each other have the same sub: by the first one that
\* differs, whose predecessor among the candidates it does not follow.
LEMMA LinkedSub ==
  ASSUME NEW C \in SUBSET Seqs, NEW a \in C, NEW b \in C, Linked(C, a, b)
  PROVE  rows[b].sub = rows[a].sub
<1> DEFINE T == {c \in C : a <= c /\ c <= b /\ rows[c].sub # rows[a].sub}
<1>1. SUFFICES ASSUME T # {} PROVE FALSE
  BY DEF Linked, Seqs
<1>0. \A c \in C : c \in Seqs /\ c \in Nat BY ConstantFacts DEF Seqs
<1>2. T \subseteq Nat BY <1>0
<1> HIDE DEF T
<1>3. PICK m \in T : \A y \in T : m <= y BY <1>1, <1>2, Least
<1> USE DEF T
<1> DEFINE P == {c \in C : a <= c /\ c < m}
<1>4. P \subseteq Seqs /\ a \in P
  <2>1. m # a /\ a <= m /\ m \in C BY <1>3
  <2>2. a < m BY <1>0, <2>1
  <2> QED BY <1>0, <2>2
<1> HIDE DEF P
<1>5. PICK p \in P : \A y \in P : y <= p BY <1>4, Largest
<1> USE DEF P
<1>6. rows[p].sub = rows[a].sub BY <1>3, <1>5 DEF Seqs
<1>7. Joined(C, p) BY <1>3, <1>5 DEF Linked, Seqs
<1>8. \A e \in C : e <= p \/ e >= m BY <1>5 DEF Seqs
<1>9. rows[m].sub = rows[p].sub BY <1>3, <1>5, <1>7, <1>8 DEF Joined, Seqs
<1> QED BY <1>3, <1>6, <1>9

\* A session ends in its last candidate, has one sub, and shares no row with
\* another session.
LEMMA SessionOfFacts ==
  ASSUME NEW C \in SUBSET Seqs, NEW a \in C, \A c \in SessionOf(C, a) : c <= a
  PROVE  /\ SessionOf(C, a) \subseteq C /\ a \in SessionOf(C, a)
         /\ \A c \in SessionOf(C, a) : rows[c].sub = rows[a].sub
         /\ \A b \in C : b # a /\ (\A c \in SessionOf(C, b) : c <= b)
              => SessionOf(C, a) \cap SessionOf(C, b) = {}
<1>1. SessionOf(C, a) \subseteq C BY DEF SessionOf
<1>2. Linked(C, a, a) BY DEF Linked, Seqs
<1>3. a \in SessionOf(C, a) BY <1>2 DEF SessionOf
<1>4. \A c \in SessionOf(C, a) : rows[c].sub = rows[a].sub
  BY LinkedSub DEF SessionOf
<1>5. ASSUME NEW b \in C, b # a, \A c \in SessionOf(C, b) : c <= b,
             NEW x \in SessionOf(C, a), x \in SessionOf(C, b)
      PROVE  FALSE
  <2>1. x \in C /\ x <= a /\ x <= b BY <1>5 DEF SessionOf
  <2>2. Linked(C, x, a) /\ Linked(C, x, b)
    BY <1>2, <1>5, <2>1 DEF SessionOf, Linked, Seqs
  <2>3. CASE a < b
    <3>1. Linked(C, a, b) BY <2>1, <2>2, <2>3 DEF Linked, Seqs
    <3>2. b \in SessionOf(C, a) BY <3>1 DEF SessionOf
    <3> QED BY <2>3, <3>2 DEF Seqs
  <2>4. CASE b < a
    <3>1. Linked(C, b, a) BY <2>1, <2>2, <2>4 DEF Linked, Seqs
    <3>2. a \in SessionOf(C, b) BY <3>1 DEF SessionOf
    <3> QED BY <1>5, <2>4, <3>2 DEF Seqs
  <2> QED BY <1>5, <2>3, <2>4 DEF Seqs
<1> QED BY <1>1, <1>3, <1>4, <1>5
-----------------------------------------------------------------------------
(***************************************************************************)
(* Types.                                                                  *)
(***************************************************************************)
LEMMA CandidatesType ==
  ASSUME NEW r, NEW kinds, NEW age PROVE Candidates(r, kinds, age) \in SUBSET Seqs
BY DEF Candidates

LEMMA MergedType ==
  ASSUME TypeOK, NEW S \in SUBSET Seqs, NEW last \in Seqs, NEW sub \in Sub \cup {None},
         NEW kind \in Kinds, NEW count \in Nat
  PROVE  Merged(S, last, kind, sub, count) \in Group
<1>1. UNION {rows[s].holds : s \in S} \in SUBSET Seqs
  BY DEF TypeOK, Row
<1>2. rows[last].at \in 0 .. MaxNow BY DEF TypeOK, Row
<1> QED BY <1>1, <1>2 DEF Merged, Group, Row

LEMMA SessionsType ==
  ASSUME TypeOK, NEW C \in SUBSET Seqs PROVE Sessions(C) \in SUBSET Group
<1>1. SUFFICES ASSUME NEW a \in C
      PROVE Merged(SessionOf(C, a), a, "session-compacted", rows[a].sub,
                   Cardinality(SessionOf(C, a))) \in Group
  BY DEF Sessions
<1>2. SessionOf(C, a) \in SUBSET Seqs BY DEF SessionOf
<1>3. Cardinality(SessionOf(C, a)) \in Nat
  <2>1. IsFiniteSet(Seqs) BY ConstantFacts, FS_Interval DEF Seqs
  <2>2. IsFiniteSet(SessionOf(C, a)) BY <1>2, <2>1, FS_Subset
  <2> QED BY <2>2, FS_CardinalityType
<1>4. rows[a].sub \in Sub \cup {None} BY DEF TypeOK, Row
<1> QED BY <1>2, <1>3, <1>4, MergedType DEF Kinds

LEMMA ArchivesType ==
  ASSUME TypeOK, NEW C \in SUBSET Seqs PROVE Archives(C) \in SUBSET Group
<1>1. SUFFICES ASSUME NEW last \in C PROVE Merged(C, last, "archive", None, 1) \in Group
  BY DEF Archives
<1> QED BY MergedType DEF Kinds

\* A run moves to a step with other groups to do.
LEMMA SetRun ==
  ASSUME NEW x \in Run, NEW t \in SUBSET Group,
         NEW p \in {"idle", "list1", "merge1", "list2", "merge2"}
  PROVE  [x EXCEPT !.todo = t, !.pc = p] \in Run
BY DEF Run

LEMMA AfterType ==
  ASSUME TypeOK, NEW r \in Runner, NEW g PROVE After(r, g) \in [Runner -> Run]
<1> DEFINE p == IF run[r].todo # {g} THEN run[r].pc
                ELSE IF run[r].pc = "merge1" /\ run[r].mode = "auto" THEN "list2" ELSE "idle"
           x == [run[r] EXCEPT !.todo = @ \ {g}, !.pc = p]
<1>1. run[r] \in Run BY DEF TypeOK
<1>2. run[r].todo \ {g} \in SUBSET Group
      /\ p \in {"idle", "list1", "merge1", "list2", "merge2"}
  BY <1>1 DEF Run
<1>3. x \in Run BY <1>1, <1>2, SetRun
<1>4. After(r, g) = [run EXCEPT ![r] = x] BY DEF After
<1> HIDE DEF x
<1> QED BY <1>3, <1>4 DEF TypeOK

LEMMA IdleType == Idle \in Run
BY ConstantFacts DEF Idle, Run, Modes

LEMMA InitType == Init => TypeOK
<1>1. NoRow \in Row BY ConstantFacts DEF NoRow, Row, Kinds
<1>2. << >> \in Seq(Sub) /\ Len(<< >>) = 0 BY EmptySeq
<1> QED BY <1>1, <1>2, IdleType, ConstantFacts DEF Init, TypeOK

LEMMA NextType == TypeOK /\ [Next]_vars => TypeOK'
<1> SUFFICES ASSUME TypeOK, [Next]_vars PROVE TypeOK'
  OBVIOUS
<1> USE ConstantFacts
<1>1. ASSUME NEW c \in Sub, NEW s \in Seqs, AppendDocUpdate(c, s) PROVE TypeOK'
  <2>1. [kind |-> "raw", holds |-> {edits + 1}, sub |-> c, at |-> now, count |-> 1] \in Row
    BY <1>1, EditsType DEF AppendDocUpdate, Row, Kinds, Seqs, TypeOK
  <2>2. by' \in Seq(Sub) /\ Len(by') <= MaxSeq
    BY <1>1, AppendBy, EditsType DEF AppendDocUpdate, edits
  <2>3. rows' \in [Seqs -> Row] BY <1>1, <2>1 DEF AppendDocUpdate, TypeOK
  <2> QED BY <1>1, <2>2, <2>3 DEF AppendDocUpdate, TypeOK
<1>2. ASSUME NEW s \in Seqs, WriteSnapshot(s) PROVE TypeOK'
  BY <1>2 DEF WriteSnapshot, TypeOK, Seqs
<1>3. CASE Tick
  BY <1>3 DEF Tick, TypeOK
<1>4. CASE Crash
  BY <1>4, IdleType DEF Crash, TypeOK
<1>5. ASSUME NEW r \in Runner, NEW m \in Modes, Begin(r, m) PROVE TypeOK'
  <2>1. [pc |-> IF m = "force2" THEN "list2" ELSE "list1",
         mode |-> m, upTo |-> snapSeq, start |-> now, todo |-> {}] \in Run
    BY DEF TypeOK, Run
  <2> QED BY <1>5, <2>1 DEF Begin, TypeOK
<1>6. ASSUME NEW r \in Runner, ListTier1(r) PROVE TypeOK'
  <2> DEFINE C == Candidates(r, {"raw"}, Tier1Age)
             p == IF Sessions(C) # {} THEN "merge1"
                  ELSE IF run[r].mode = "auto" THEN "list2" ELSE "idle"
             x == [run[r] EXCEPT !.todo = Sessions(C), !.pc = p]
  <2>1. Sessions(C) \in SUBSET Group BY CandidatesType, SessionsType
  <2>2. p \in {"idle", "list1", "merge1", "list2", "merge2"} OBVIOUS
  <2>3. run[r] \in Run BY DEF TypeOK
  <2> HIDE DEF p, C
  <2>4. x \in Run BY <2>1, <2>2, <2>3, SetRun
  <2>5. run' = [run EXCEPT ![r] = x] BY <1>6 DEF ListTier1, p, C
  <2> HIDE DEF x
  <2> QED BY <1>6, <2>4, <2>5 DEF ListTier1, TypeOK
<1>7. ASSUME NEW r \in Runner, ListTier2(r) PROVE TypeOK'
  <2> DEFINE C == Candidates(r, Kinds \ {"none"}, Tier2Age)
             p == IF Archives(C) # {} THEN "merge2" ELSE "idle"
             x == [run[r] EXCEPT !.todo = Archives(C), !.pc = p]
  <2>1. Archives(C) \in SUBSET Group BY CandidatesType, ArchivesType
  <2>2. p \in {"idle", "list1", "merge1", "list2", "merge2"} OBVIOUS
  <2>3. run[r] \in Run BY DEF TypeOK
  <2> HIDE DEF p, C
  <2>4. x \in Run BY <2>1, <2>2, <2>3, SetRun
  <2>5. run' = [run EXCEPT ![r] = x] BY <1>7 DEF ListTier2, p, C
  <2> HIDE DEF x
  <2> QED BY <1>7, <2>4, <2>5 DEF ListTier2, TypeOK
<1>8. ASSUME NEW r \in Runner, Merge(r) PROVE TypeOK'
  <2>1. PICK g \in run[r].todo : ReplaceSeqsWithMerged(g) /\ run' = After(r, g)
    BY <1>8 DEF Merge
  <2>2. g.row \in Row BY DEF TypeOK, Run, Group
  <2>3. NoRow \in Row BY DEF NoRow, Row, Kinds
  <2>4. rows' \in [Seqs -> Row] BY <2>1, <2>2, <2>3 DEF ReplaceSeqsWithMerged, TypeOK
  <2> QED BY <1>8, <2>1, <2>4, AfterType DEF Merge, TypeOK
<1>9. ASSUME NEW r \in Runner, MergeFails(r) PROVE TypeOK'
  <2>1. run' \in [Runner -> Run] BY <1>9, AfterType DEF MergeFails
  <2> QED BY <1>9, <2>1 DEF MergeFails, TypeOK
<1>10. CASE UNCHANGED vars
  BY <1>10 DEF TypeOK, vars
<1> QED BY <1>1, <1>2, <1>3, <1>4, <1>5, <1>6, <1>7, <1>8, <1>9, <1>10 DEF Next, Step

\* Rows, runs and what runs have listed keep their types, however many runs
\* overlap.
THEOREM TypeCorrect == Spec => []TypeOK
BY InitType, NextType, PTL DEF Spec
-----------------------------------------------------------------------------
(***************************************************************************)
(* What holds whether or not runs overlap.                                 *)
(***************************************************************************)
RowsInv == TailUntouched /\ HeadKept /\ RowsAttributable /\ snapSeq <= peak /\ peak <= edits
           /\ \A s \in Seqs : RowSound(s)

LEMMA SoundParts == SoundInv <=> RowsInv /\ \A r \in Runner : RunSound(r)
BY DEF SoundInv, RowsInv

\* A run of the type.
LEMMA RunType ==
  ASSUME TypeOK, NEW r \in Runner
  PROVE  /\ run[r] \in Run /\ run[r].upTo \in Nat
         /\ \A g \in run[r].todo : /\ g \in Group /\ g.seqs \in SUBSET Seqs /\ g.last \in Seqs
                                   /\ g.row \in Row
BY ConstantFacts DEF TypeOK, Run, Group

LEMMA InitSound == Init => SoundInv
<1> SUFFICES ASSUME Init PROVE SoundInv OBVIOUS
<1>1. edits = 0 BY EmptySeq DEF Init, edits
<1>2. \A s \in Seqs : rows[s] = NoRow BY DEF Init
<1>3. \A s \in Seqs : rows[s].kind = "none" /\ rows[s].holds = {} BY <1>2 DEF NoRow
<1>4. RowsInv
  <2>1. TailUntouched BY <1>1, ConstantFacts DEF TailUntouched, Init, Seqs
  <2> QED BY <1>1, <1>3, <2>1 DEF Init, RowsInv, HeadKept, RowsAttributable, RowSound, Exists
<1>5. \A r \in Runner : RunSound(r) BY DEF Init, RunSound, Idle
<1> QED BY <1>4, <1>5, SoundParts

\* What a run lists in tier 1 is sound.
LEMMA SessionsSound ==
  ASSUME TypeOK, SoundInv, NEW r \in Runner, NEW C \in SUBSET Seqs,
         \A s \in C : rows[s].kind = "raw" /\ s <= run[r].upTo,
         NEW g \in Sessions(C)
  PROVE  GroupSound(r, g)
<1>1. PICK a \in C : /\ \A c \in SessionOf(C, a) : c <= a
                     /\ g = Merged(SessionOf(C, a), a, "session-compacted", rows[a].sub,
                                   Cardinality(SessionOf(C, a)))
  BY DEF Sessions
<1>2. /\ SessionOf(C, a) \subseteq C /\ a \in SessionOf(C, a)
      /\ \A c \in SessionOf(C, a) : rows[c].sub = rows[a].sub
  BY <1>1, SessionOfFacts
<1>3. /\ g.seqs = SessionOf(C, a) /\ g.last = a
      /\ g.row.kind = "session-compacted" /\ g.row.sub = rows[a].sub
      /\ g.row.holds = UNION {rows[s].holds : s \in SessionOf(C, a)}
  BY <1>1 DEF Merged
<1>4. \A s \in C : /\ RowSound(s) /\ Exists(s) /\ s \in 1 .. run[r].upTo
                   /\ \A e \in rows[s].holds : by[e] = rows[s].sub
  <2>1. SUFFICES ASSUME NEW s \in C
                 PROVE  /\ RowSound(s) /\ Exists(s) /\ s \in 1 .. run[r].upTo
                        /\ \A e \in rows[s].holds : by[e] = rows[s].sub
    OBVIOUS
  <2>2. s \in Seqs /\ rows[s].kind = "raw" OBVIOUS
  <2>3. s \in 1 .. run[r].upTo
    <3>1. s <= run[r].upTo OBVIOUS
    <3>2. run[r].upTo \in Nat BY RunType
    <3> QED BY <2>2, <3>1, <3>2, ConstantFacts DEF Seqs
  <2>4. \A e \in rows[s].holds : by[e] = rows[s].sub BY <2>2 DEF SoundInv, RowsAttributable
  <2> QED BY <2>2, <2>3, <2>4 DEF SoundInv, Exists
<1>5. g.seqs \subseteq 1 .. run[r].upTo BY <1>2, <1>3, <1>4
<1>6. g.row.holds \subseteq 1 .. g.last
  <2>1. \A s \in SessionOf(C, a) : s <= g.last /\ s \in Seqs /\ rows[s].holds \subseteq 1 .. s
    BY <1>1, <1>2, <1>3, <1>4 DEF RowSound
  <2>2. \A s \in SessionOf(C, a) : rows[s].holds \subseteq 1 .. g.last
    BY <1>2, <1>3, <2>1, ConstantFacts DEF Seqs
  <2> QED BY <1>3, <2>2
<1>7. g.last \in g.row.holds BY <1>2, <1>3, <1>4 DEF RowSound
<1>8. \A e \in g.row.holds : by[e] = g.row.sub BY <1>2, <1>3, <1>4
<1> QED BY <1>1, <1>2, <1>3, <1>5, <1>6, <1>7, <1>8 DEF GroupSound

\* What a run lists in tier 2 is sound.
LEMMA ArchivesSound ==
  ASSUME TypeOK, SoundInv, NEW r \in Runner, NEW C \in SUBSET Seqs,
         \A s \in C : Exists(s) /\ s <= run[r].upTo,
         NEW g \in Archives(C)
  PROVE  GroupSound(r, g)
<1>1. PICK a \in C : (\A t \in C : t <= a) /\ g = Merged(C, a, "archive", None, 1)
  BY DEF Archives
<1>2. /\ g.seqs = C /\ g.last = a /\ g.row.kind = "archive"
      /\ g.row.holds = UNION {rows[s].holds : s \in C}
  BY <1>1 DEF Merged
<1>3. ASSUME NEW s \in C PROVE RowSound(s) /\ s \in 1 .. run[r].upTo
  <2>1. s \in Seqs /\ s <= run[r].upTo OBVIOUS
  <2>2. run[r].upTo \in Nat BY RunType
  <2>3. s \in 1 .. run[r].upTo BY <2>1, <2>2, ConstantFacts DEF Seqs
  <2> QED BY <2>1, <2>3 DEF SoundInv
<1>4. g.row.holds \subseteq 1 .. g.last
  <2>1. \A s \in C : rows[s].holds \subseteq 1 .. g.last
    BY <1>1, <1>2, <1>3, ConstantFacts DEF RowSound, Seqs
  <2> QED BY <1>2, <2>1
<1>5. g.last \in g.row.holds BY <1>2, <1>3 DEF RowSound
<1> QED BY <1>1, <1>2, <1>3, <1>4, <1>5 DEF GroupSound

\* A replacement leaves the rows sound, also when they are no longer those the
\* run has listed.
LEMMA ReplaceSound ==
  ASSUME TypeOK, SoundInv, NEW r \in Runner, NEW g \in run[r].todo,
         ReplaceSeqsWithMerged(g), UNCHANGED <<snapSeq, peak, by>>
  PROVE  RowsInv'
<1>1. /\ GroupSound(r, g) /\ run[r].upTo <= peak
      /\ g.last \in Seqs /\ g.seqs \subseteq Seqs /\ run[r].upTo \in Nat
  BY RunType DEF SoundInv, RunSound
<1>2. /\ snapSeq <= peak /\ peak <= edits /\ peak \in Nat /\ edits \in Nat /\ edits' = edits
      /\ MaxSeq \in Nat /\ edits <= MaxSeq
  BY EditsType, ConstantFacts DEF SoundInv, TypeOK, edits
<1>3. \A s \in Seqs : rows'[s] = IF s = g.last THEN g.row
                                 ELSE IF s \in g.seqs THEN NoRow ELSE rows[s]
  BY DEF ReplaceSeqsWithMerged
<1>4. /\ NoRow.kind = "none" /\ NoRow.holds = {} BY DEF NoRow
<1>5. \A s \in g.seqs : s <= peak /\ s <= g.last
  BY <1>1, <1>2 DEF GroupSound
<1>6. TailUntouched'
  <2>1. ASSUME NEW s \in Seqs, s > peak PROVE rows'[s] = rows[s]
    <3>1. s \notin g.seqs BY <1>2, <1>5, <2>1 DEF Seqs
    <3> QED BY <1>1, <1>3, <3>1 DEF GroupSound
  <2> QED BY <1>2, <2>1 DEF TailUntouched, SoundInv
<1>7. ASSUME NEW s \in Seqs PROVE RowSound(s)'
  <2>1. CASE s = g.last
    BY <1>1, <1>2, <1>3, <1>5, <2>1 DEF RowSound, GroupSound, Exists
  <2>2. CASE s # g.last /\ s \in g.seqs
    BY <1>2, <1>3, <1>4, <2>2 DEF RowSound, Exists
  <2>3. CASE s \notin g.seqs
    <3>1. rows'[s] = rows[s] BY <1>1, <1>3, <2>3 DEF GroupSound
    <3> QED BY <1>2, <3>1 DEF RowSound, Exists, SoundInv
  <2> QED BY <2>1, <2>2, <2>3
<1>8. HeadKept'
  <2>1. SUFFICES ASSUME edits # 0 PROVE Exists(edits)' /\ edits \in rows'[edits].holds
    BY <1>2 DEF HeadKept
  <2>2. edits \in Seqs BY <1>2, <2>1 DEF Seqs
  <2>3. rows'[edits].kind # "none"
    <3>1. CASE edits \in g.seqs
      <4>1. g.last <= edits BY <1>1, <1>2, <1>5 DEF GroupSound, Seqs
      <4>2. edits = g.last BY <1>1, <1>2, <1>5, <3>1, <4>1 DEF Seqs
      <4> QED BY <1>1, <1>3, <2>2, <4>2 DEF GroupSound
    <3>2. CASE edits \notin g.seqs
      BY <1>1, <1>3, <2>1, <2>2, <3>2 DEF GroupSound, SoundInv, HeadKept, Exists
    <3> QED BY <3>1, <3>2
  <2>4. Exists(edits)' BY <1>2, <2>3 DEF Exists
  <2>5. edits \in rows'[edits].holds BY <1>2, <1>7, <2>2, <2>4 DEF RowSound
  <2> QED BY <2>4, <2>5
<1>9. RowsAttributable'
  <2>1. SUFFICES ASSUME NEW s \in Seqs, rows'[s].kind \in {"raw", "session-compacted"},
                        NEW e \in rows'[s].holds
                 PROVE  by[e] = rows'[s].sub
    BY DEF RowsAttributable
  <2>2. CASE s = g.last BY <1>1, <1>3, <2>1, <2>2 DEF GroupSound
  <2>3. CASE s # g.last /\ s \in g.seqs BY <1>3, <1>4, <2>1, <2>3
  <2>4. CASE s \notin g.seqs
    BY <1>1, <1>3, <2>1, <2>4 DEF GroupSound, SoundInv, RowsAttributable
  <2> QED BY <2>2, <2>3, <2>4
<1> QED BY <1>2, <1>6, <1>7, <1>8, <1>9 DEF RowsInv

\* Runs stay sound while their groups become fewer and nothing is appended.
LEMMA RunsSame ==
  ASSUME \A r \in Runner : RunSound(r), by' = by, peak <= peak',
         TypeOK, peak' \in Nat,
         \A r \in Runner : run'[r].upTo = run[r].upTo /\ run'[r].todo \subseteq run[r].todo
  PROVE  \A r \in Runner : RunSound(r)'
<1> SUFFICES ASSUME NEW r \in Runner PROVE RunSound(r)' OBVIOUS
<1>1. run'[r].upTo <= peak' BY RunType, ConstantFacts DEF RunSound, TypeOK
<1>2. ASSUME NEW g \in run'[r].todo PROVE GroupSound(r, g)'
  <2>1. GroupSound(r, g) BY DEF RunSound
  <2> QED BY <2>1 DEF GroupSound, edits
<1> QED BY <1>1, <1>2 DEF RunSound

\* One group is dealt with.
LEMMA AfterFacts ==
  ASSUME TypeOK, NEW r \in Runner, NEW g, run' = After(r, g)
  PROVE  /\ \A o \in Runner : /\ run'[o].upTo = run[o].upTo
                              /\ o # r => run'[o] = run[o]
         /\ run'[r].todo = run[r].todo \ {g}
         /\ run[r].todo # {g} => run'[r].pc = run[r].pc
         /\ run[r].todo = {g} => run'[r].pc \in {"list2", "idle"}
<1>1. run[r] \in Run BY DEF TypeOK
<1> DEFINE p == IF run[r].todo # {g} THEN run[r].pc
                ELSE IF run[r].pc = "merge1" /\ run[r].mode = "auto" THEN "list2" ELSE "idle"
           x == [run[r] EXCEPT !.todo = @ \ {g}, !.pc = p]
<1>2. run' = [run EXCEPT ![r] = x] BY DEF After
<1>3. x.upTo = run[r].upTo /\ x.todo = run[r].todo \ {g} /\ x.pc = p BY <1>1 DEF Run
<1>4. run[r].todo # {g} => p = run[r].pc OBVIOUS
<1>5. run[r].todo = {g} => p \in {"list2", "idle"} OBVIOUS
<1> HIDE DEF x, p
<1>6. run'[r] = x /\ \A o \in Runner : o # r => run'[o] = run[o] BY <1>2 DEF TypeOK
<1>7. \A o \in Runner : run'[o].upTo = run[o].upTo BY <1>3, <1>6
<1> QED BY <1>3, <1>4, <1>5, <1>6, <1>7

LEMMA AppendSound ==
  ASSUME TypeOK, SoundInv, NEW c \in Sub, NEW s \in Seqs, AppendDocUpdate(c, s)
  PROVE  SoundInv' /\ s = edits + 1 /\ ~Exists(s)
<1>1. /\ edits \in Nat /\ edits < MaxSeq /\ edits' = edits + 1 /\ MaxSeq \in Nat
      /\ \A e \in 1 .. edits : by'[e] = by[e]
      /\ by'[edits + 1] = c /\ snapSeq' = snapSeq /\ peak' = peak /\ run' = run
  <2>1. /\ by' = Append(by, c) /\ edits < MaxSeq
        /\ snapSeq' = snapSeq /\ peak' = peak /\ run' = run
    BY DEF AppendDocUpdate
  <2>2. edits \in Nat /\ MaxSeq \in Nat BY EditsType, ConstantFacts
  <2>3. edits' = edits + 1 /\ by'[edits + 1] = c /\ \A e \in 1 .. edits : by'[e] = by[e]
    BY <2>1, AppendBy
  <2> QED BY <2>1, <2>2, <2>3
<1>2. s = edits + 1
  <2>1. s - 1 = edits
    <3>1. CASE edits = 0
      <4>1. \A t \in Seqs : ~Exists(t) BY <3>1 DEF SoundInv, RowSound, Seqs
      <4>2. s - 1 \in Seqs => FALSE BY <4>1, <1>1 DEF AppendDocUpdate, HeadSeqIs, Seqs
      <4> QED BY <1>1, <3>1, <4>2 DEF Seqs
    <3>2. CASE edits # 0
      <4>1. edits \in Seqs /\ Exists(edits) BY <1>1, <3>2 DEF SoundInv, HeadKept, Seqs
      <4>2. edits <= s - 1 BY <4>1 DEF AppendDocUpdate, HeadSeqIs
      <4>3. s - 1 \in Seqs /\ Exists(s - 1)
        BY <1>1, <3>2, <4>2 DEF AppendDocUpdate, HeadSeqIs, Seqs
      <4>4. s - 1 <= edits BY <4>3 DEF SoundInv, RowSound
      <4> QED BY <1>1, <4>2, <4>4 DEF Seqs
    <3> QED BY <3>1, <3>2
  <2> QED BY <1>1, <2>1 DEF Seqs
<1>3. ~Exists(s) BY <1>1, <1>2 DEF SoundInv, RowSound
<1>4. /\ rows'[s].kind = "raw" /\ rows'[s].holds = {s} /\ rows'[s].sub = c
      /\ \A t \in Seqs : t # s => rows'[t] = rows[t]
  BY <1>2 DEF AppendDocUpdate, TypeOK
<1>5. snapSeq <= peak /\ peak <= edits /\ peak \in Nat BY ConstantFacts DEF SoundInv, TypeOK
<1>6. TailUntouched' BY <1>1, <1>2, <1>4, ConstantFacts DEF SoundInv, TailUntouched, Seqs
<1>7. HeadKept' BY <1>1, <1>2, <1>4 DEF HeadKept, Exists
<1>8. RowsAttributable'
  <2>1. SUFFICES ASSUME NEW t \in Seqs, rows'[t].kind \in {"raw", "session-compacted"},
                        NEW e \in rows'[t].holds
                 PROVE  by'[e] = rows'[t].sub
    BY DEF RowsAttributable
  <2>2. CASE t = s BY <1>1, <1>2, <1>4, <2>1, <2>2
  <2>3. CASE t # s
    <3>1. e \in 1 .. edits BY <1>1, <1>4, <2>1, <2>3 DEF SoundInv, RowSound, Exists, Seqs
    <3> QED BY <1>1, <1>4, <2>1, <2>3, <3>1 DEF SoundInv, RowsAttributable
  <2> QED BY <2>2, <2>3
<1>9. ASSUME NEW t \in Seqs PROVE RowSound(t)'
  <2>1. CASE t = s BY <1>1, <1>2, <1>4, <2>1 DEF RowSound, Exists
  <2>2. CASE t # s BY <1>1, <1>4, <2>2 DEF SoundInv, RowSound, Exists
  <2> QED BY <2>1, <2>2
<1>10. ASSUME NEW r \in Runner PROVE RunSound(r)'
  <2>1. ASSUME NEW g \in run[r].todo PROVE GroupSound(r, g)'
    <3>1. GroupSound(r, g) BY DEF SoundInv, RunSound
    <3>2. g.last <= edits /\ g.last \in Nat
      BY <1>1, <1>5, <3>1, RunType, ConstantFacts DEF GroupSound, SoundInv, RunSound, Seqs
    <3>3. \A e \in g.row.holds : e \in 1 .. edits BY <1>1, <3>1, <3>2 DEF GroupSound
    <3> QED BY <1>1, <3>1, <3>3 DEF GroupSound
  <2> QED BY <1>1, <2>1 DEF SoundInv, RunSound
<1>11. (snapSeq <= peak /\ peak <= edits)' BY <1>1, <1>5
<1> QED BY <1>2, <1>3, <1>6, <1>7, <1>8, <1>9, <1>10, <1>11 DEF SoundInv

\* Rows, edits and snapshot are left alone.
LEMMA RowsSame ==
  ASSUME SoundInv, UNCHANGED <<rows, by, snapSeq, peak>> PROVE RowsInv'
BY DEF SoundInv, RowsInv, TailUntouched, HeadKept, RowsAttributable, RowSound, Exists, edits

\* What a run lists, and how its listing leaves the others.
LEMMA ListedFacts ==
  ASSUME TypeOK, NEW r \in Runner, ListTier1(r) \/ ListTier2(r)
  PROVE  /\ UNCHANGED <<rows, by, snapSeq, peak>>
         /\ \A o \in Runner : run'[o].upTo = run[o].upTo /\ (o # r => run'[o] = run[o])
         /\ run[r].pc \in {"list1", "list2"}
         /\ run'[r].pc \in {"merge1", "merge2"} \/ run'[r].todo = {}
         /\ \E C \in SUBSET Seqs :
              /\ \A s \in C : Exists(s) /\ s <= run[r].upTo
              /\ \/ run'[r].todo = Sessions(C) /\ \A s \in C : rows[s].kind = "raw"
                 \/ run'[r].todo = Archives(C)
<1>0. run[r] \in Run BY DEF TypeOK
<1>1. CASE ListTier1(r)
  <2> DEFINE C == Candidates(r, {"raw"}, Tier1Age)
             p == IF Sessions(C) # {} THEN "merge1"
                  ELSE IF run[r].mode = "auto" THEN "list2" ELSE "idle"
             x == [run[r] EXCEPT !.todo = Sessions(C), !.pc = p]
  <2>1. C \in SUBSET Seqs /\ \A s \in C : rows[s].kind = "raw" /\ s <= run[r].upTo
    BY DEF Candidates
  <2>2. \A s \in C : Exists(s) BY <2>1 DEF Exists
  <2>3. p = "merge1" \/ Sessions(C) = {} OBVIOUS
  <2>4. run' = [run EXCEPT ![r] = x] BY <1>1 DEF ListTier1
  <2> HIDE DEF p, C
  <2>5. x.upTo = run[r].upTo /\ x.todo = Sessions(C) /\ x.pc = p BY <1>0 DEF Run
  <2> HIDE DEF x
  <2>6. run'[r] = x /\ \A o \in Runner : o # r => run'[o] = run[o] BY <2>4 DEF TypeOK
  <2>7. UNCHANGED <<rows, by, snapSeq, peak>> /\ run[r].pc = "list1" BY <1>1 DEF ListTier1
  <2>8. \A o \in Runner : run'[o].upTo = run[o].upTo BY <2>5, <2>6
  <2> QED BY <2>1, <2>2, <2>3, <2>5, <2>6, <2>7, <2>8
<1>2. CASE ListTier2(r)
  <2> DEFINE C == Candidates(r, Kinds \ {"none"}, Tier2Age)
             p == IF Archives(C) # {} THEN "merge2" ELSE "idle"
             x == [run[r] EXCEPT !.todo = Archives(C), !.pc = p]
  <2>1. C \in SUBSET Seqs /\ \A s \in C : s <= run[r].upTo /\ Exists(s)
    BY DEF Candidates, Exists
  <2>3. p = "merge2" \/ Archives(C) = {} OBVIOUS
  <2>4. run' = [run EXCEPT ![r] = x] BY <1>2 DEF ListTier2
  <2> HIDE DEF p, C
  <2>5. x.upTo = run[r].upTo /\ x.todo = Archives(C) /\ x.pc = p BY <1>0 DEF Run
  <2> HIDE DEF x
  <2>6. run'[r] = x /\ \A o \in Runner : o # r => run'[o] = run[o] BY <2>4 DEF TypeOK
  <2>7. UNCHANGED <<rows, by, snapSeq, peak>> /\ run[r].pc = "list2" BY <1>2 DEF ListTier2
  <2>8. \A o \in Runner : run'[o].upTo = run[o].upTo BY <2>5, <2>6
  <2> QED BY <2>1, <2>3, <2>5, <2>6, <2>7, <2>8
<1> QED BY <1>1, <1>2

LEMMA NextSound ==
  ASSUME TypeOK, SoundInv, [Next]_vars PROVE SoundInv'
<1>0. TypeOK' BY NextType
<1>1. ASSUME NEW c \in Sub, NEW s \in Seqs, AppendDocUpdate(c, s) PROVE SoundInv'
  BY <1>1, AppendSound
<1>2. ASSUME NEW s \in Seqs, WriteSnapshot(s) PROVE SoundInv'
  <2>1. /\ rows' = rows /\ by' = by /\ run' = run /\ snapSeq' = s /\ s \in Nat /\ s <= edits
        /\ peak \in Nat /\ peak' \in Nat /\ peak <= peak' /\ s <= peak'
        /\ peak' = s \/ peak' = peak
    BY <1>2, ConstantFacts DEF WriteSnapshot, TypeOK, Seqs
  <2>2. TailUntouched'
    <3>1. edits' = edits BY <2>1 DEF edits
    <3>2. SUFFICES ASSUME NEW t \in Seqs, peak' < t, t <= edits
                   PROVE  rows[t].kind = "raw" /\ rows[t].holds = {t}
      BY <2>1, <3>1 DEF TailUntouched
    <3>3. peak < t BY <2>1, <3>2, ConstantFacts DEF Seqs
    <3> QED BY <3>2, <3>3 DEF SoundInv, TailUntouched
  <2>3. HeadKept' /\ RowsAttributable' /\ \A t \in Seqs : RowSound(t)'
    BY <2>1 DEF SoundInv, HeadKept, RowsAttributable, RowSound, Exists, edits
  <2>4. (snapSeq <= peak /\ peak <= edits)' BY <2>1 DEF SoundInv, edits
  <2>5. \A r \in Runner : RunSound(r) BY SoundParts
  <2>6. \A r \in Runner : RunSound(r)' BY <2>1, <2>5, RunsSame
  <2> QED BY <2>2, <2>3, <2>4, <2>6 DEF SoundInv
<1>3. ASSUME NEW r \in Runner, ListTier1(r) \/ ListTier2(r) PROVE SoundInv'
  <2>1. RowsInv' BY <1>3, ListedFacts, RowsSame
  <2>2. ASSUME NEW o \in Runner, o # r PROVE RunSound(o)'
    <3>1. run'[o] = run[o] /\ by' = by /\ peak' = peak BY <1>3, <2>2, ListedFacts
    <3> QED BY <3>1 DEF SoundInv, RunSound, GroupSound, edits
  <2>3. RunSound(r)'
    <3>1. /\ run'[r].upTo = run[r].upTo /\ by' = by /\ peak' = peak
      BY <1>3, ListedFacts
    <3>2. PICK C \in SUBSET Seqs :
              /\ \A s \in C : Exists(s) /\ s <= run[r].upTo
              /\ \/ run'[r].todo = Sessions(C) /\ \A s \in C : rows[s].kind = "raw"
                 \/ run'[r].todo = Archives(C)
      BY <1>3, ListedFacts
    <3>3. ASSUME NEW g \in run'[r].todo PROVE GroupSound(r, g)
      BY <3>2, SessionsSound, ArchivesSound
    <3> QED BY <3>1, <3>3 DEF SoundInv, RunSound, GroupSound, edits
  <2> QED BY <2>1, <2>2, <2>3 DEF SoundInv, RowsInv
<1>4. ASSUME NEW r \in Runner, Merge(r) \/ MergeFails(r) PROVE SoundInv'
  <2>1. PICK g \in run[r].todo :
          run' = After(r, g) /\ (ReplaceSeqsWithMerged(g) \/ rows' = rows)
    BY <1>4 DEF Merge, MergeFails
  <2>2. by' = by /\ snapSeq' = snapSeq /\ peak' = peak /\ peak' \in Nat
    BY <1>4, ConstantFacts DEF Merge, MergeFails, TypeOK
  <2>3. RowsInv' BY <2>1, <2>2, ReplaceSound, RowsSame
  <2>4. \A o \in Runner : run'[o].upTo = run[o].upTo /\ run'[o].todo \subseteq run[o].todo
    BY <2>1, AfterFacts
  <2>5. \A o \in Runner : RunSound(o) BY SoundParts
  <2>6. peak <= peak' BY <2>2
  <2>7. \A o \in Runner : RunSound(o)' BY <2>2, <2>4, <2>5, <2>6, RunsSame
  <2> QED BY <2>3, <2>7 DEF SoundInv, RowsInv
<1>5. ASSUME NEW r \in Runner, NEW m \in Modes, Begin(r, m) PROVE SoundInv'
  <2>1. /\ UNCHANGED <<rows, by, snapSeq, peak>> /\ snapSeq \in Nat /\ peak \in Nat
        /\ run'[r].upTo = snapSeq /\ run'[r].todo = {}
        /\ \A o \in Runner : o # r => run'[o] = run[o]
    BY <1>5, ConstantFacts DEF Begin, TypeOK
  <2>2. RowsInv' BY <2>1, RowsSame
  <2>3. \A o \in Runner : RunSound(o)'
    BY <2>1 DEF SoundInv, RunSound, GroupSound, edits
  <2> QED BY <2>2, <2>3 DEF SoundInv, RowsInv
<1>6. CASE Crash
  <2>1. /\ UNCHANGED <<rows, by, snapSeq, peak>> /\ peak \in Nat
        /\ \A o \in Runner : run'[o].upTo = 0 /\ run'[o].todo = {}
    BY <1>6, ConstantFacts DEF Crash, Idle, TypeOK
  <2>2. RowsInv' BY <2>1, RowsSame
  <2>3. \A o \in Runner : RunSound(o)' BY <2>1 DEF RunSound, TypeOK
  <2> QED BY <2>2, <2>3 DEF SoundInv, RowsInv
<1>7. CASE Tick \/ UNCHANGED vars
  <2>1. UNCHANGED <<rows, by, snapSeq, peak, run>> BY <1>7 DEF Tick, vars
  <2>2. RowsInv' BY <2>1, RowsSame
  <2>3. \A o \in Runner : RunSound(o)' BY <2>1 DEF SoundInv, RunSound, GroupSound, edits
  <2> QED BY <2>2, <2>3 DEF SoundInv, RowsInv
<1> QED BY <1>1, <1>2, <1>3, <1>4, <1>5, <1>6, <1>7 DEF Next, Step

\* However many runs overlap, on whatever stale listings, and in whatever order
\* flushes and checkpoints commit (doc-repository.service.ts:64-109): rows above
\* every snapshot so far are in the log as they were appended, the next append
\* gets a seq no snapshot stands for (compaction.service.ts:112), and rows short
\* of the archive have one author (compaction.service.ts:63).
THEOREM TailHeadAndAuthors == Spec => [](TailUntouched /\ HeadKept /\ RowsAttributable)
<1>1. Init => TypeOK /\ SoundInv BY InitType, InitSound
<1>2. (TypeOK /\ SoundInv) /\ [Next]_vars => (TypeOK /\ SoundInv)' BY NextType, NextSound
<1>3. SoundInv => TailUntouched /\ HeadKept /\ RowsAttributable BY DEF SoundInv
<1> QED BY <1>1, <1>2, <1>3, PTL DEF Spec
-----------------------------------------------------------------------------
(***************************************************************************)
(* What holds when runs do not overlap: what a run has listed is still     *)
(* there, as it was, when it replaces it.                                  *)
(***************************************************************************)
AloneInv == HistoryKept /\ \A r \in Runner : RunAlone(r)

LEMMA InitAlone == Init => AloneInv
<1> SUFFICES ASSUME Init PROVE AloneInv OBVIOUS
<1>1. edits = 0 BY EmptySeq DEF Init, edits
<1>2. HistoryKept BY <1>1 DEF HistoryKept
<1>3. \A r \in Runner : run[r].pc = "idle" /\ run[r].todo = {} BY DEF Init, Idle
<1> QED BY <1>2, <1>3 DEF AloneInv, RunAlone

\* What is listed is fresh, and no row is listed twice.
LEMMA ListedFresh ==
  ASSUME NEW C \in SUBSET Seqs, \A s \in C : Exists(s),
         NEW todo, todo = Sessions(C) \/ todo = Archives(C)
  PROVE  \A g \in todo : GroupFresh(g) /\ \A h \in todo : g # h => g.seqs \cap h.seqs = {}
<1>1. CASE todo = Sessions(C)
  <2>1. \A g \in todo : \E a \in C :
          /\ \A c \in SessionOf(C, a) : c <= a
          /\ g = Merged(SessionOf(C, a), a, "session-compacted", rows[a].sub,
                        Cardinality(SessionOf(C, a)))
    BY <1>1 DEF Sessions
  <2>2. SUFFICES ASSUME NEW g \in todo, NEW h \in todo
                 PROVE  GroupFresh(g) /\ (g # h => g.seqs \cap h.seqs = {})
    OBVIOUS
  <2>3. PICK a \in C :
          /\ \A c \in SessionOf(C, a) : c <= a
          /\ g = Merged(SessionOf(C, a), a, "session-compacted", rows[a].sub,
                        Cardinality(SessionOf(C, a)))
    BY <2>1
  <2>4. PICK b \in C :
          /\ \A c \in SessionOf(C, b) : c <= b
          /\ h = Merged(SessionOf(C, b), b, "session-compacted", rows[b].sub,
                        Cardinality(SessionOf(C, b)))
    BY <2>1
  <2>5. /\ g.seqs = SessionOf(C, a) /\ h.seqs = SessionOf(C, b)
        /\ g.row.holds = UNION {rows[s].holds : s \in SessionOf(C, a)}
    BY <2>3, <2>4 DEF Merged
  <2>6. SessionOf(C, a) \subseteq C BY DEF SessionOf
  <2>7. g # h => a # b BY <2>3, <2>4
  <2>8. a # b => SessionOf(C, a) \cap SessionOf(C, b) = {} BY <2>3, <2>4, SessionOfFacts
  <2> QED BY <2>5, <2>6, <2>7, <2>8 DEF GroupFresh
<1>2. CASE todo = Archives(C)
  <2>1. \A g \in todo : \E a \in C : (\A t \in C : t <= a) /\ g = Merged(C, a, "archive", None, 1)
    BY <1>2 DEF Archives
  <2>2. \A a, b \in C : (\A t \in C : t <= a) /\ (\A t \in C : t <= b) => a = b
    BY ConstantFacts DEF Seqs
  <2>3. \A g, h \in todo : g = h BY <2>1, <2>2
  <2>4. \A g \in todo : g.seqs = C /\ g.row.holds = UNION {rows[s].holds : s \in C}
    BY <2>1 DEF Merged
  <2> QED BY <2>3, <2>4 DEF GroupFresh
<1> QED BY <1>1, <1>2

\* A group listed by the only run replaces what it holds.
LEMMA ReplaceKeeps ==
  ASSUME TypeOK, SoundInv, AloneInv, NEW r \in Runner, NEW g \in run[r].todo,
         ReplaceSeqsWithMerged(g), UNCHANGED by
  PROVE  /\ HistoryKept'
         /\ \A h \in run[r].todo \ {g} : GroupFresh(h)'
<1>1. /\ GroupFresh(g) /\ GroupSound(r, g) /\ g.last \in Seqs /\ g.seqs \subseteq Seqs
  BY RunType DEF AloneInv, RunAlone, SoundInv, RunSound
<1>2. \A s \in Seqs : rows'[s] = IF s = g.last THEN g.row
                                 ELSE IF s \in g.seqs THEN NoRow ELSE rows[s]
  BY DEF ReplaceSeqsWithMerged
<1>3. edits' = edits BY DEF edits
<1>4. HistoryKept'
  <2>1. SUFFICES ASSUME NEW e \in 1 .. edits PROVE \E s \in Seqs : e <= s /\ e \in rows'[s].holds
    BY <1>3 DEF HistoryKept
  <2>2. PICK s \in Seqs : e <= s /\ e \in rows[s].holds BY DEF AloneInv, HistoryKept
  <2>3. CASE s \in g.seqs
    <3>1. e \in g.row.holds BY <1>1, <2>2, <2>3 DEF GroupFresh
    <3>2. e <= g.last BY <1>1, <3>1 DEF GroupSound
    <3> QED BY <1>1, <1>2, <3>1, <3>2
  <2>4. CASE s \notin g.seqs
    <3>1. rows'[s] = rows[s] BY <1>1, <1>2, <2>4 DEF GroupSound
    <3> QED BY <2>2, <3>1
  <2> QED BY <2>3, <2>4
<1>5. ASSUME NEW h \in run[r].todo \ {g} PROVE GroupFresh(h)'
  <2>1. GroupFresh(h) /\ g.seqs \cap h.seqs = {} /\ h.seqs \subseteq Seqs
    BY RunType DEF AloneInv, RunAlone
  <2>2. \A s \in h.seqs : rows'[s] = rows[s] BY <1>1, <1>2, <2>1 DEF GroupSound
  <2>3. {rows'[s].holds : s \in h.seqs} = {rows[s].holds : s \in h.seqs} BY <2>2
  <2> QED BY <2>1, <2>2, <2>3 DEF GroupFresh, Exists
<1> QED BY <1>4, <1>5

\* Rows and edits are left alone.
LEMMA FreshSame ==
  ASSUME UNCHANGED <<rows, by>>
  PROVE  /\ HistoryKept => HistoryKept'
         /\ \A g : GroupFresh(g) => GroupFresh(g)'
BY DEF HistoryKept, GroupFresh, Exists, edits

LEMMA NextAlone ==
  ASSUME ~Overlap, TypeOK, SoundInv, AloneInv, [Next]_vars PROVE AloneInv'
<1>1. ASSUME NEW c \in Sub, NEW s \in Seqs, AppendDocUpdate(c, s) PROVE AloneInv'
  <2>1. s = edits + 1 /\ ~Exists(s) /\ edits \in Nat BY <1>1, AppendSound, EditsType
  <2>2. /\ \A t \in Seqs : t # s => rows'[t] = rows[t]
        /\ rows'[s].holds = {s} /\ edits' = edits + 1 /\ run' = run
    BY <1>1, <2>1, AppendBy DEF AppendDocUpdate, TypeOK
  <2>3. rows[s].holds = {} BY <2>1 DEF SoundInv, RowSound
  <2>4. HistoryKept'
    <3>1. SUFFICES ASSUME NEW e \in 1 .. edits + 1 PROVE \E t \in Seqs : e <= t /\ e \in rows'[t].holds
      BY <2>2 DEF HistoryKept
    <3>2. CASE e = s BY <2>2, <3>2
    <3>3. CASE e # s
      <4>1. PICK t \in Seqs : e <= t /\ e \in rows[t].holds
        BY <2>1, <3>3 DEF AloneInv, HistoryKept
      <4>2. t # s BY <2>3, <4>1
      <4> QED BY <2>2, <4>1, <4>2
    <3> QED BY <3>2, <3>3
  <2>5. ASSUME NEW r \in Runner, NEW g \in run[r].todo PROVE GroupFresh(g)'
    <3>1. GroupFresh(g) /\ g.seqs \subseteq Seqs BY RunType DEF AloneInv, RunAlone
    <3>2. \A t \in g.seqs : rows'[t] = rows[t] BY <2>1, <2>2, <3>1 DEF GroupFresh
    <3>3. {rows'[t].holds : t \in g.seqs} = {rows[t].holds : t \in g.seqs} BY <3>2
    <3> QED BY <3>1, <3>2, <3>3 DEF GroupFresh, Exists
  <2> QED BY <2>2, <2>4, <2>5 DEF AloneInv, RunAlone
<1>2. ASSUME NEW r \in Runner, ListTier1(r) \/ ListTier2(r) PROVE AloneInv'
  <2>1. /\ UNCHANGED <<rows, by>> /\ \A o \in Runner : o # r => run'[o] = run[o]
        /\ run[r].pc # "idle"
        /\ run'[r].pc \in {"merge1", "merge2"} \/ run'[r].todo = {}
    BY <1>2, ListedFacts
  <2>2. PICK C \in SUBSET Seqs :
          (\A s \in C : Exists(s)) /\ (run'[r].todo = Sessions(C) \/ run'[r].todo = Archives(C))
    BY <1>2, ListedFacts
  <2>3. \A g \in run'[r].todo :
          GroupFresh(g)' /\ \A h \in run'[r].todo : g # h => g.seqs \cap h.seqs = {}
    <3>1. \A g \in run'[r].todo :
            GroupFresh(g) /\ \A h \in run'[r].todo : g # h => g.seqs \cap h.seqs = {}
      <4> DEFINE todo == run'[r].todo
      <4>1. \A s \in C : Exists(s) BY <2>2
      <4>2. todo = Sessions(C) \/ todo = Archives(C) BY <2>2
      <4> HIDE DEF todo
      <4>3. \A g \in todo : GroupFresh(g) /\ \A h \in todo : g # h => g.seqs \cap h.seqs = {}
        BY <4>1, <4>2, ListedFresh
      <4> QED BY <4>3 DEF todo
    <3>2. \A g : GroupFresh(g) => GroupFresh(g)' BY <2>1, FreshSame
    <3> QED BY <3>1, <3>2
  <2>4. \A o \in Runner : o # r => run[o].pc = "idle" BY <2>1 DEF AloneInv, RunAlone
  <2>5. \A o \in Runner : RunAlone(o)'
    BY <2>1, <2>3, <2>4, FreshSame DEF AloneInv, RunAlone
  <2> QED BY <2>1, <2>5, FreshSame DEF AloneInv
<1>3. ASSUME NEW r \in Runner, Merge(r) \/ MergeFails(r) PROVE AloneInv'
  <2>1. PICK g \in run[r].todo :
          run' = After(r, g) /\ (ReplaceSeqsWithMerged(g) \/ rows' = rows)
    BY <1>3 DEF Merge, MergeFails
  <2>2. by' = by /\ run[r].pc \in {"merge1", "merge2"} BY <1>3 DEF Merge, MergeFails
  <2>3. HistoryKept' /\ \A h \in run[r].todo \ {g} : GroupFresh(h)'
    BY <2>1, <2>2, ReplaceKeeps, FreshSame DEF AloneInv, RunAlone
  <2>4. \A o \in Runner : o # r => run[o].pc = "idle" /\ run[o].todo = {} /\ run'[o] = run[o]
    BY <2>1, <2>2, AfterFacts DEF AloneInv, RunAlone
  <2>5. /\ run'[r].todo = run[r].todo \ {g}
        /\ run'[r].pc \in {"merge1", "merge2"} \/ run'[r].todo = {}
    BY <2>1, <2>2, AfterFacts
  <2>6. \A o \in Runner : RunAlone(o)'
    BY <2>3, <2>4, <2>5 DEF AloneInv, RunAlone
  <2> QED BY <2>3, <2>6 DEF AloneInv
<1>4. ASSUME NEW r \in Runner, NEW m \in Modes, Begin(r, m) PROVE AloneInv'
  <2>1. /\ UNCHANGED <<rows, by>> /\ run'[r].todo = {}
        /\ \A o \in Runner : run[o].pc = "idle" /\ (o # r => run'[o] = run[o])
    BY <1>4 DEF Begin, TypeOK
  <2>2. \A o \in Runner : RunAlone(o)' BY <2>1, FreshSame DEF AloneInv, RunAlone
  <2> QED BY <2>1, <2>2, FreshSame DEF AloneInv
<1>5. CASE Crash
  <2>1. /\ UNCHANGED <<rows, by>>
        /\ \A o \in Runner : run'[o].pc = "idle" /\ run'[o].todo = {}
    BY <1>5 DEF Crash, Idle
  <2> QED BY <2>1, FreshSame DEF AloneInv, RunAlone
<1>6. CASE Tick \/ UNCHANGED vars \/ \E s \in Seqs : WriteSnapshot(s)
  <2>1. UNCHANGED <<rows, by, run>> BY <1>6 DEF Tick, vars, WriteSnapshot
  <2> QED BY <2>1, FreshSame DEF AloneInv, RunAlone
<1> QED BY <1>1, <1>2, <1>3, <1>4, <1>5, <1>6 DEF Next, Step

\* The inductive invariant holds in every reachable state.
THEOREM Invariant == Spec => []IInv
<1>1. IInv <=> SoundInv /\ (Overlap \/ AloneInv) BY DEF IInv, AloneInv
<1>2. Init => TypeOK /\ IInv BY <1>1, InitType, InitSound, InitAlone
<1>3. ASSUME TypeOK, IInv, [Next]_vars PROVE (TypeOK /\ IInv)'
  <2>1. SoundInv /\ (Overlap \/ AloneInv) BY <1>1, <1>3
  <2>2. TypeOK' /\ SoundInv' BY <1>3, <2>1, NextType, NextSound
  <2>3. ~Overlap => AloneInv' BY <1>3, <2>1, NextAlone
  <2>4. IInv' <=> SoundInv' /\ (Overlap \/ AloneInv') BY DEF IInv, AloneInv
  <2> QED BY <2>2, <2>3, <2>4
<1> QED BY <1>2, <1>3, PTL DEF Spec

\* Where runs of a document do not overlap no edit leaves its history ("a range
\* delete silently dropped them", doc-repository.service.ts:409).
THEOREM HistoryIsKept == ASSUME ~Overlap PROVE Spec => []HistoryKept
<1>1. IInv => HistoryKept BY DEF IInv
<1> QED BY <1>1, Invariant, PTL

\* Where runs do not overlap, a cold load, of the snapshot and the rows above its
\* seq (doc-repository.service.ts:226), has every edit, also when a late
\* transaction moved the snapshot back among rows merged before.
THEOREM ColdLoadsReach ==
  ASSUME ~Overlap
  PROVE  Spec => [](\A e \in 1 .. edits :
                      e <= snapSeq \/ \E s \in Seqs : s > snapSeq /\ e \in rows[s].holds)
<1>1. TypeOK /\ HistoryKept =>
        \A e \in 1 .. edits : e <= snapSeq \/ \E s \in Seqs : s > snapSeq /\ e \in rows[s].holds
  <2>1. SUFFICES ASSUME TypeOK, HistoryKept, NEW e \in 1 .. edits, ~(e <= snapSeq)
                 PROVE  \E s \in Seqs : s > snapSeq /\ e \in rows[s].holds
    OBVIOUS
  <2>2. PICK s \in Seqs : e <= s /\ e \in rows[s].holds BY <2>1 DEF HistoryKept
  <2>3. s > snapSeq BY <2>1, <2>2, EditsType, ConstantFacts DEF Seqs, TypeOK
  <2> QED BY <2>2, <2>3
<1> QED BY <1>1, HistoryIsKept, TypeCorrect, PTL
-----------------------------------------------------------------------------
(***************************************************************************)
(* The steps of a run amount to RowLog's one step.                         *)
(***************************************************************************)
LEMMA InitIsAbstract == Init => L!Init
<1> SUFFICES ASSUME Init PROVE L!Init OBVIOUS
<1>1. \A s \in Seqs : rows[s].holds = {} BY DEF Init, NoRow
<1> QED BY <1>1 DEF Init, L!Init, L!Seqs, Seqs

LEMMA StepIsAbstract ==
  ASSUME ~Overlap, TypeOK, SoundInv, AloneInv, [Next]_vars
  PROVE  [L!Next]_<<[s \in Seqs |-> rows[s].holds], peak>>
<1> DEFINE log == [s \in Seqs |-> rows[s].holds]
<1>0. L!Seqs = Seqs BY DEF L!Seqs, Seqs
<1>1. ASSUME NEW c \in Sub, NEW s \in Seqs, AppendDocUpdate(c, s) PROVE L!Next
  <2>1. s = edits + 1 /\ edits \in Nat BY <1>1, AppendSound, EditsType
  <2>2. \A t \in Seqs : t >= s => log[t] = {}
    BY <2>1, ConstantFacts DEF SoundInv, RowSound, Seqs
  <2>3. \A t \in Seqs : rows'[t].holds = IF t = s THEN {s} ELSE rows[t].holds
    BY <1>1, <2>1 DEF AppendDocUpdate, TypeOK
  <2>4. log' = [log EXCEPT ![s] = {s}] BY <2>3
  <2>5. peak' = peak BY <1>1 DEF AppendDocUpdate
  <2>6. L!AppendEdit(s) BY <1>0, <2>2, <2>4, <2>5 DEF L!AppendEdit
  <2> QED BY <1>0, <2>6 DEF L!Next
<1>2. ASSUME NEW s \in Seqs, WriteSnapshot(s) PROVE L!Next \/ UNCHANGED <<log, peak>>
  <2>1. /\ rows' = rows /\ s <= edits /\ peak \in Nat
        /\ peak' = IF s > peak THEN s ELSE peak
    BY <1>2, ConstantFacts DEF WriteSnapshot, TypeOK, Seqs
  <2>2. CASE s > peak
    <3>1. rows[s].holds = {s} BY <2>1, <2>2 DEF SoundInv, TailUntouched
    <3>2. log[s] # {} /\ log' = log /\ peak' = s /\ peak' > peak
      BY <2>1, <2>2, <3>1, ConstantFacts DEF Seqs
    <3> QED BY <1>0, <3>2 DEF L!Next, L!Cover
  <2>3. CASE ~(s > peak) BY <2>1, <2>3
  <2> QED BY <2>2, <2>3
<1>3. ASSUME NEW r \in Runner, Merge(r) PROVE L!Next
  <2>1. PICK g \in run[r].todo : ReplaceSeqsWithMerged(g) /\ peak' = peak
    BY <1>3 DEF Merge
  <2>2. /\ GroupFresh(g) /\ GroupSound(r, g) /\ run[r].upTo <= peak /\ run[r].upTo \in Nat
        /\ g.last \in Seqs /\ g.seqs \in SUBSET Seqs /\ peak \in Nat
    BY RunType, ConstantFacts DEF AloneInv, RunAlone, SoundInv, RunSound, TypeOK
  <2>3. \A s \in g.seqs : s <= g.last /\ s <= peak /\ log[s] # {}
    BY <2>2 DEF GroupFresh, GroupSound, SoundInv, RowSound
  <2>4. {log[s] : s \in g.seqs} = {rows[s].holds : s \in g.seqs} BY <2>2
  <2>5. g.row.holds = UNION {log[s] : s \in g.seqs} BY <2>2, <2>4 DEF GroupFresh
  <2>6. \A s \in Seqs : rows'[s].holds = IF s = g.last THEN g.row.holds
                                         ELSE IF s \in g.seqs THEN {} ELSE log[s]
    BY <2>1 DEF ReplaceSeqsWithMerged, NoRow
  <2>7. log' = [s \in Seqs |-> IF s = g.last THEN UNION {log[t] : t \in g.seqs}
                               ELSE IF s \in g.seqs THEN {} ELSE log[s]]
    BY <2>5, <2>6
  <2>8. L!Merge(g.seqs, g.last) BY <1>0, <2>1, <2>2, <2>3, <2>7 DEF L!Merge, GroupSound
  <2> QED BY <1>0, <2>2, <2>8 DEF L!Next
<1>4. ASSUME UNCHANGED <<rows, peak>> PROVE UNCHANGED <<log, peak>>
  BY <1>4
<1>5. CASE \/ Tick \/ Crash \/ UNCHANGED vars
           \/ \E r \in Runner : \/ ListTier1(r) \/ ListTier2(r) \/ MergeFails(r)
                                \/ \E m \in Modes : Begin(r, m)
  <2>1. UNCHANGED <<rows, peak>>
    BY <1>5 DEF Tick, Crash, vars, ListTier1, ListTier2, MergeFails, Begin
  <2> QED BY <1>4, <2>1
<1> QED BY <1>1, <1>2, <1>3, <1>5 DEF Next, Step

\* Where runs do not overlap, what others see of a run, its awaits, failures and
\* crashes is the one-step compaction of RowLog, which the module DocState takes.
THEOREM CompactionIsAtomic == ASSUME ~Overlap PROVE Spec => ImplementsRowLog
<1>1. TypeOK /\ IInv /\ [Next]_vars => [L!Next]_<<[s \in Seqs |-> rows[s].holds], peak>>
  BY StepIsAbstract DEF IInv, AloneInv
<1> QED BY <1>1, InitIsAbstract, TypeCorrect, Invariant, PTL DEF Spec, ImplementsRowLog, L!Spec

-----------------------------------------------------------------------------
(***************************************************************************)
(* Counts: what a merged row says it holds.                                *)
(***************************************************************************)
LEMMA InitCounted == Init => CountInv
<1> SUFFICES ASSUME Init PROVE CountInv OBVIOUS
<1>1. \A s \in Seqs : rows[s].kind = "none" /\ rows[s].holds = {} BY DEF Init, NoRow
<1>2. \A r \in Runner : run[r].todo = {} BY DEF Init, Idle
<1> QED BY <1>1, <1>2 DEF CountInv, RowCounted, CountSound, Disjoint

\* Candidates of tier 1 are raw rows, so a session holds its own seqs.
LEMMA ListedCounted ==
  ASSUME CountInv, NEW C \in SUBSET Seqs,
         NEW todo, \/ todo = Sessions(C) /\ \A s \in C : rows[s].kind = "raw"
                   \/ todo = Archives(C)
  PROVE  \A g \in todo : CountSound(g.row)
<1>1. CASE todo = Sessions(C) /\ \A s \in C : rows[s].kind = "raw"
  <2>1. SUFFICES ASSUME NEW g \in todo PROVE CountSound(g.row) OBVIOUS
  <2>2. PICK a \in C : g = Merged(SessionOf(C, a), a, "session-compacted", rows[a].sub,
                                  Cardinality(SessionOf(C, a)))
    BY <1>1 DEF Sessions
  <2> DEFINE S == SessionOf(C, a)
  <2>3. S \subseteq C BY DEF SessionOf
  <2>4. \A s \in S : rows[s].holds = {s} BY <1>1, <2>3 DEF CountInv, RowCounted
  <2>5. UNION {rows[s].holds : s \in S} = S BY <2>4
  <2>6. g.row.holds = S /\ g.row.count = Cardinality(S) BY <2>2, <2>5 DEF Merged
  <2> QED BY <2>6 DEF CountSound
<1>2. CASE todo = Archives(C)
  <2>1. \A g \in todo : g.row.kind = "archive" BY <1>2 DEF Archives, Merged
  <2> QED BY <2>1 DEF CountSound
<1> QED BY <1>1, <1>2

\* What replaces rows of its own holds what they held: rows stay disjoint.
LEMMA ReplaceDisjoint ==
  ASSUME NEW g, GroupFresh(g), g.seqs \subseteq Seqs, g.last \in g.seqs,
         ReplaceSeqsWithMerged(g), Disjoint
  PROVE  Disjoint'
<1>1. \A s \in Seqs : rows'[s] = IF s = g.last THEN g.row
                                 ELSE IF s \in g.seqs THEN NoRow ELSE rows[s]
  BY DEF ReplaceSeqsWithMerged
<1>2. NoRow.holds = {} BY DEF NoRow
<1>3. ASSUME NEW t \in Seqs, t # g.last PROVE rows'[t].holds \cap g.row.holds = {}
  <2>1. CASE t \in g.seqs BY <1>1, <1>2, <1>3, <2>1
  <2>2. CASE t \notin g.seqs
    <3>1. rows'[t] = rows[t] BY <1>1, <1>3, <2>2
    <3>2. \A s \in g.seqs : rows[s].holds \cap rows[t].holds = {} BY <2>2 DEF Disjoint
    <3> QED BY <3>1, <3>2 DEF GroupFresh
  <2> QED BY <2>1, <2>2
<1>4. ASSUME NEW s \in Seqs, NEW t \in Seqs, s # t, s # g.last, t # g.last
      PROVE  rows'[s].holds \cap rows'[t].holds = {}
  BY <1>1, <1>2, <1>4 DEF Disjoint
<1>5. rows'[g.last].holds = g.row.holds BY <1>1
<1> QED BY <1>3, <1>4, <1>5 DEF Disjoint

LEMMA NextCounted ==
  ASSUME TypeOK, SoundInv, Overlap \/ AloneInv, CountInv, [Next]_vars PROVE CountInv'
<1>1. ASSUME NEW c \in Sub, NEW s \in Seqs, AppendDocUpdate(c, s) PROVE CountInv'
  <2>1. s = edits + 1 /\ edits \in Nat BY <1>1, AppendSound, EditsType
  <2>2. /\ \A t \in Seqs : t # s => rows'[t] = rows[t]
        /\ rows'[s].holds = {s} /\ rows'[s].kind = "raw" /\ rows'[s].count = 1 /\ run' = run
    BY <1>1, <2>1 DEF AppendDocUpdate, TypeOK
  <2>3. \A t \in Seqs : s \notin rows[t].holds BY <2>1 DEF SoundInv, RowSound
  <2>4. \A t \in Seqs : RowCounted(t)' BY <2>2 DEF CountInv, RowCounted, CountSound
  <2>5. Disjoint => Disjoint' BY <2>2, <2>3 DEF Disjoint
  <2> QED BY <2>2, <2>4, <2>5 DEF CountInv
<1>2. ASSUME NEW r \in Runner, ListTier1(r) \/ ListTier2(r) PROVE CountInv'
  <2>1. UNCHANGED rows /\ \A o \in Runner : o # r => run'[o] = run[o] BY <1>2, ListedFacts
  <2>2. PICK C \in SUBSET Seqs :
          \/ run'[r].todo = Sessions(C) /\ \A s \in C : rows[s].kind = "raw"
          \/ run'[r].todo = Archives(C)
    BY <1>2, ListedFacts
  <2>3. \A g \in run'[r].todo : CountSound(g.row) BY <2>2, ListedCounted
  <2> QED BY <2>1, <2>3 DEF CountInv, RowCounted, Disjoint
<1>3. ASSUME NEW r \in Runner, Merge(r) PROVE CountInv'
  <2>1. PICK g \in run[r].todo : run' = After(r, g) /\ ReplaceSeqsWithMerged(g)
    BY <1>3 DEF Merge
  <2>2. \A o \in Runner : run'[o].todo \subseteq run[o].todo BY <2>1, AfterFacts
  <2>3. /\ GroupSound(r, g) /\ g.seqs \subseteq Seqs /\ CountSound(g.row)
    BY RunType DEF SoundInv, RunSound, CountInv
  <2>4. \A s \in Seqs : rows'[s] = IF s = g.last THEN g.row
                                   ELSE IF s \in g.seqs THEN NoRow ELSE rows[s]
    BY <2>1 DEF ReplaceSeqsWithMerged
  <2>5. \A s \in Seqs : RowCounted(s)'
    <3>1. g.row.kind # "raw" /\ NoRow.kind = "none" BY <2>3 DEF GroupSound, NoRow
    <3> QED BY <2>3, <2>4, <3>1 DEF CountInv, RowCounted, CountSound
  <2>6. Overlap \/ Disjoint'
    BY <2>1, <2>3, ReplaceDisjoint DEF CountInv, AloneInv, RunAlone, GroupSound
  <2> QED BY <2>2, <2>5, <2>6 DEF CountInv
<1>4. ASSUME rows' = rows, \A r \in Runner : run'[r].todo \subseteq run[r].todo PROVE CountInv'
  BY <1>4 DEF CountInv, RowCounted, Disjoint
<1>5. ASSUME NEW r \in Runner, MergeFails(r) PROVE CountInv'
  <2>1. rows' = rows /\ \E g \in run[r].todo : run' = After(r, g) BY <1>5 DEF MergeFails
  <2>2. \A o \in Runner : run'[o].todo \subseteq run[o].todo BY <2>1, AfterFacts
  <2> QED BY <1>4, <2>1, <2>2
<1>6. ASSUME NEW r \in Runner, NEW m \in Modes, Begin(r, m) PROVE CountInv'
  <2>1. /\ rows' = rows /\ run'[r].todo = {}
        /\ \A o \in Runner : o # r => run'[o] = run[o]
    BY <1>6 DEF Begin, TypeOK
  <2> QED BY <1>4, <2>1
<1>7. CASE Crash
  BY <1>4, <1>7 DEF Crash, Idle
<1>8. CASE Tick \/ UNCHANGED vars \/ \E s \in Seqs : WriteSnapshot(s)
  <2>1. UNCHANGED <<rows, run>> BY <1>8 DEF Tick, vars, WriteSnapshot
  <2> QED BY <1>4, <2>1
<1> QED BY <1>1, <1>2, <1>3, <1>5, <1>6, <1>7, <1>8 DEF Next, Step

LEMMA Counted == Spec => []CountInv
<1>1. TypeOK /\ IInv /\ CountInv /\ [Next]_vars => CountInv' BY NextCounted DEF IInv, AloneInv
<1> QED BY <1>1, InitCounted, TypeCorrect, Invariant, PTL DEF Spec

\* Where runs of a document do not overlap, every edit that is not archived is
\* in one row, and the counts the history panel adds up are the numbers of the
\* edits the rows hold (schema.prisma:61).
THEOREM EditsAreCountedOnce == ASSUME ~Overlap PROVE Spec => []EditsCountedOnce
<1>1. TypeOK /\ CountInv => EditsCountedOnce
  <2> SUFFICES ASSUME CountInv, NEW s \in Seqs, rows[s].kind \in {"raw", "session-compacted"}
               PROVE  /\ rows[s].count = Cardinality(rows[s].holds)
                      /\ \A t \in Seqs \ {s} : rows[t].holds \cap rows[s].holds = {}
    BY DEF EditsCountedOnce
  <2>1. Cardinality({s}) = 1 BY FS_Singleton
  <2> QED BY <2>1 DEF CountInv, RowCounted, CountSound, Disjoint
<1> QED BY <1>1, Counted, TypeCorrect, PTL
-----------------------------------------------------------------------------
\* What TLC checks as one invariant: what a run has listed is at or below the
\* highest seq a snapshot has stood for, wherever the snapshot is by now, rows
\* above that seq are as appended, and where runs do not overlap a listing stays
\* true to the rows until it commits (compaction.service.ts:88-150).
THEOREM InductiveHolds == Spec => []Inductive
BY TypeCorrect, Invariant, Counted, PTL DEF Inductive
=============================================================================
