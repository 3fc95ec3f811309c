----------------------------- MODULE Compaction -----------------------------
(***************************************************************************)
(* Tiered compaction of one document's update log: CompactionService over  *)
(* DocRepository.  A run reads snapshot_at_seq, lists rows, merges their   *)
(* blobs in memory and replaces them by one row, tier 1 per session, tier 2 *)
(* into one archive; the await before every step lets others in between.   *)
(* Runs of one document come from the scheduler's pass, from writeState    *)
(* and from compact-demo, and nothing makes them wait for each other.      *)
(*                                                                         *)
(* A blob is the set of the edits it holds, numbered in the order they     *)
(* were appended.                                                          *)
(***************************************************************************)
EXTENDS Integers, Sequences, FiniteSets

CONSTANTS
  Runner,      \* the runs that may be in progress at a time
  Sub,         \* client subs
  None,        \* no sub
  Gap,         \* RTC_SESSION_GAP_MS
  Tier1Age,    \* RTC_TIER1_AGE_MS
  Tier2Age,    \* RTC_TIER2_AGE_MS
  MaxSeq,      \* bound on the log
  MaxNow,      \* bound on the clock
  MaxFaults,   \* bound on late snapshots, failing replacements and crashes
  Overlap      \* TRUE: runs of the document may overlap

ASSUME ConstantsAssumption ==
  /\ None \notin Sub
  /\ Gap \in Nat /\ Tier1Age \in Nat /\ Tier2Age \in Nat
  /\ MaxSeq \in Nat /\ MaxNow \in Nat /\ MaxFaults \in Nat
  /\ Overlap \in BOOLEAN

VARIABLES
  rows,        \* rtc_document_updates of the document, by seq
  snapSeq,     \* rtc_documents.snapshot_at_seq
  peak,        \* history: the highest snapshot_at_seq there has been
  now,         \* Date.now()
  run,         \* the compaction runs in progress
  by,          \* history: by[e] is the sub edit e was appended with
  faults

vars == <<rows, snapSeq, peak, now, run, by, faults>>

Seqs == 1 .. MaxSeq

\* kind: the origin of a row; holds: its blob; count: merged_count ?? 1.
Kinds == {"none", "raw", "session-compacted", "archive"}
Row   == [kind : Kinds, holds : SUBSET Seqs, sub : Sub \cup {None},
          at : 0 .. MaxNow, count : Nat]

NoRow == [kind |-> "none", holds |-> {}, sub |-> None, at |-> 0, count |-> 0]

\* One group of listed rows and the row that shall replace them.
Group == [seqs : SUBSET Seqs, last : Seqs, row : Row]

Modes == {"auto", "force1", "force2"}

Run  == [pc : {"idle", "list1", "merge1", "list2", "merge2"}, mode : Modes,
         upTo : 0 .. MaxSeq, start : 0 .. MaxNow, todo : SUBSET Group]
Idle == [pc |-> "idle", mode |-> "auto", upTo |-> 0, start |-> 0, todo |-> {}]

TypeOK ==
  /\ rows \in [Seqs -> Row]
  /\ snapSeq \in 0 .. MaxSeq /\ peak \in 0 .. MaxSeq
  /\ now \in 0 .. MaxNow
  /\ run \in [Runner -> Run]
  /\ by \in Seq(Sub) /\ Len(by) <= MaxSeq
  /\ faults \in 0 .. MaxFaults

edits     == Len(by)
Exists(s) == rows[s].kind # "none"

Init ==
  /\ rows = [s \in Seqs |-> NoRow]
  /\ snapSeq = 0 /\ peak = 0 /\ now = 0 /\ by = << >> /\ faults = 0
  /\ run = [r \in Runner |-> Idle]
-----------------------------------------------------------------------------
(***************************************************************************)
(* What goes on around compaction.                                         *)
(***************************************************************************)

\* max(seq), as the aggregate of getHeadSeq and appendDocUpdate has it.
HeadSeqIs(h) == (h # 0 => Exists(h)) /\ \A t \in Seqs : Exists(t) => t <= h

AppendDocUpdate(c, s) ==
  /\ HeadSeqIs(s - 1)
  /\ edits < MaxSeq
  /\ rows' = [rows EXCEPT ![s] = [kind |-> "raw", holds |-> {edits + 1}, sub |-> c,
                                  at |-> now, count |-> 1]]
  /\ by' = Append(by, c)
  /\ UNCHANGED <<snapSeq, peak, now, run, faults>>

\* A flush or a checkpoint stores the seq it captured before its awaits.  The
\* two may be under way at once and commit in either order, so the seq may be
\* an older one than the row has.
WriteSnapshot(s) ==
  /\ s <= edits
  /\ snapSeq' = s
  /\ peak' = IF s > peak THEN s ELSE peak
  /\ faults' = IF s < snapSeq THEN faults + 1 ELSE faults
  /\ faults' <= MaxFaults
  /\ UNCHANGED <<rows, now, run, by>>

Tick ==
  /\ now < MaxNow
  /\ now' = now + 1
  /\ UNCHANGED <<rows, snapSeq, peak, run, by, faults>>
-----------------------------------------------------------------------------
(***************************************************************************)
(* A run: runCompactionForDoc, or forceCompactionForDoc for one tier.      *)
(***************************************************************************)

\* Mutation: a run takes the head of the log for the snapshot's seq.
BeginAtHead(r, m) ==
  /\ run[r].pc = "idle"
  /\ Overlap \/ \A o \in Runner : run[o].pc = "idle"
  /\ run' = [run EXCEPT ![r] = [pc |-> IF m = "force2" THEN "list2" ELSE "list1",
                                mode |-> m, upTo |-> edits, start |-> now, todo |-> {}]]
  /\ UNCHANGED <<rows, snapSeq, peak, now, by, faults>>

Begin(r, m) ==
  /\ run[r].pc = "idle"
  /\ Overlap \/ \A o \in Runner : run[o].pc = "idle"
  /\ snapSeq # 0
  /\ run' = [run EXCEPT ![r] = [pc |-> IF m = "force2" THEN "list2" ELSE "list1",
                                mode |-> m, upTo |-> snapSeq, start |-> now, todo |-> {}]]
  /\ UNCHANGED <<rows, snapSeq, peak, now, by, faults>>

\* Forced runs take rows up to an hour from now: all of them.
Older(r, s, age) == run[r].mode # "auto" \/ rows[s].at < run[r].start - age

Candidates(r, kinds, age) ==
  {s \in Seqs : rows[s].kind \in kinds /\ s <= run[r].upTo /\ Older(r, s, age)}

\* groupBySession: c and the candidate after it are in the same session.
Joined(C, c) ==
  \A d \in C : d > c /\ (\A e \in C : e <= c \/ e >= d)
    => rows[d].sub = rows[c].sub /\ rows[d].at - rows[c].at <= Gap

Linked(C, a, b)  == a <= b /\ \A c \in C : a <= c /\ c < b => Joined(C, c)
SessionOf(C, a) == {b \in C : Linked(C, a, b) \/ Linked(C, b, a)}

\* Mutation: the merged row takes the place of the first row.
MergedFirst(S, last, kind, sub, count) ==
  [seqs |-> S, last |-> CHOOSE s \in S : \A t \in S : s <= t,
   row  |-> [kind |-> kind, holds |-> UNION {rows[s].holds : s \in S}, sub |-> sub,
             at |-> rows[last].at, count |-> count]]

\* The last row's seq and time; the blobs merged.
Merged(S, last, kind, sub, count) ==
  [seqs |-> S, last |-> last,
   row  |-> [kind |-> kind, holds |-> UNION {rows[s].holds : s \in S}, sub |-> sub,
             at |-> rows[last].at, count |-> count]]

\* Mutation: a merged row counts for one edit.
SessionsUncounted(C) ==
  {Merged(SessionOf(C, a), a, "session-compacted", rows[a].sub, 1) :
     a \in {b \in C : SessionOf(C, b) # {b} /\ \A c \in SessionOf(C, b) : c <= b}}

\* Candidates of tier 1 are raw rows, each counts for one edit.
Sessions(C) ==
  {Merged(SessionOf(C, a), a, "session-compacted", rows[a].sub, Cardinality(SessionOf(C, a))) :
     a \in {b \in C : SessionOf(C, b) # {b} /\ \A c \in SessionOf(C, b) : c <= b}}

ListTier1(r) ==
  LET todo == Sessions(Candidates(r, {"raw"}, Tier1Age)) IN
  /\ run[r].pc = "list1"
  /\ run' = [run EXCEPT ![r].todo = todo,
       ![r].pc = IF todo # {} THEN "merge1" ELSE IF run[r].mode = "auto" THEN "list2" ELSE "idle"]
  /\ UNCHANGED <<rows, snapSeq, peak, now, by, faults>>

\* Mutation: a lone row stays whatever its origin.
ArchivesSeveral(C) ==
  {Merged(C, last, "archive", None, 1) :
     last \in {s \in C : (\A t \in C : t <= s) /\ C # {s}}}

\* A lone archive row stays; its count is not kept.
Archives(C) ==
  {Merged(C, last, "archive", None, 1) :
     last \in {s \in C : (\A t \in C : t <= s) /\ ~(C = {s} /\ rows[s].kind = "archive")}}

ListTier2(r) ==
  LET todo == Archives(Candidates(r, Kinds \ {"none"}, Tier2Age)) IN
  /\ run[r].pc = "list2"
  /\ run' = [run EXCEPT ![r].todo = todo, ![r].pc = IF todo # {} THEN "merge2" ELSE "idle"]
  /\ UNCHANGED <<rows, snapSeq, peak, now, by, faults>>

\* What follows once group g is dealt with, merged or failed.
After(r, g) ==
  [run EXCEPT ![r].todo = @ \ {g},
     ![r].pc = IF run[r].todo # {g} THEN @
               ELSE IF run[r].pc = "merge1" /\ run[r].mode = "auto" THEN "list2" ELSE "idle"]

\* Mutation: a range of seqs is deleted.
ReplaceRange(g) ==
  rows' = [s \in Seqs |-> IF s = g.last THEN g.row
                          ELSE IF s < g.last /\ (\E t \in g.seqs : t <= s) THEN NoRow
                          ELSE rows[s]]

\* replaceSeqsWithMerged: one transaction; other runs see all of it or nothing,
\* and when two replace the same rows at once the later one fails.
ReplaceSeqsWithMerged(g) ==
  rows' = [s \in Seqs |-> IF s = g.last THEN g.row
                          ELSE IF s \in g.seqs THEN NoRow
                          ELSE rows[s]]

\* The groups in the order of their seqs.
IsNext(r, g) == \A h \in run[r].todo : g.last <= h.last

Merge(r) ==
  /\ run[r].pc \in {"merge1", "merge2"}
  /\ \E g \in run[r].todo :
       /\ IsNext(r, g)
       /\ ReplaceSeqsWithMerged(g)
       /\ run' = After(r, g)
  /\ UNCHANGED <<snapSeq, peak, now, by, faults>>

MergeFails(r) ==
  /\ run[r].pc \in {"merge1", "merge2"}
  /\ faults < MaxFaults
  /\ faults' = faults + 1
  /\ \E g \in run[r].todo : IsNext(r, g) /\ run' = After(r, g)
  /\ UNCHANGED <<rows, snapSeq, peak, now, by>>

\* The process dies.
Crash ==
  /\ \E r \in Runner : run[r].pc # "idle"
  /\ faults < MaxFaults
  /\ faults' = faults + 1
  /\ run' = [r \in Runner |-> Idle]
  /\ UNCHANGED <<rows, snapSeq, peak, now, by>>
-----------------------------------------------------------------------------
Step(r) == ListTier1(r) \/ ListTier2(r) \/ Merge(r)

Next ==
  \/ \E c \in Sub, s \in Seqs : AppendDocUpdate(c, s)
  \/ \E s \in Seqs : WriteSnapshot(s)
  \/ Tick \/ Crash
  \/ \E r \in Runner : Step(r) \/ MergeFails(r) \/ \E m \in Modes : Begin(r, m)

Spec == Init /\ [][Next]_vars

\* Time passes and the database answers.  The scheduler's timer comes round
\* however often compact-demo is called: where runs do not overlap it gets its
\* turn between them.
Fairness ==
  /\ WF_vars(Tick)
  /\ \A r \in Runner : WF_vars(Step(r)) /\ SF_vars(Begin(r, "auto"))

FairSpec == Spec /\ Fairness
-----------------------------------------------------------------------------
(***************************************************************************)
(* Properties.                                                             *)
(***************************************************************************)

\* Version history keeps every edit, whatever runs replace ("a range delete
\* silently dropped them", doc-repository.service.ts:409), in a row at or after
\* its own: a cold load replays the rows above snapshot_at_seq, so it reaches
\* every edit also when a late transaction has moved snapshot_at_seq back among
\* rows merged before.
HistoryKept == \A e \in 1 .. edits : \E s \in Seqs : e <= s /\ e \in rows[s].holds

\* What no snapshot has stood for is in the log row by row as it was appended,
\* however old the snapshot_at_seq is that a run started from
\* (doc-repository.service.ts:327).
TailUntouched ==
  \A s \in Seqs : peak < s /\ s <= edits => rows[s].kind = "raw" /\ rows[s].holds = {s}

\* max(seq) stays the number of appends, so no new row takes a seq a snapshot
\* or the search index has already seen (compaction.service.ts:112).
HeadKept == edits # 0 => Exists(edits) /\ edits \in rows[edits].holds

\* Up to tier 1 rows stay attributable: a row that is no archive holds edits of
\* its sub alone (compaction.service.ts:63, doc-state.service.ts:228).
RowsAttributable ==
  \A s \in Seqs : rows[s].kind \in {"raw", "session-compacted"} =>
    \A e \in rows[s].holds : by[e] = rows[s].sub

\* The history UI counts every edit that is not archived once (schema.prisma:61).
EditsCountedOnce ==
  \A s \in Seqs : rows[s].kind \in {"raw", "session-compacted"} =>
    /\ rows[s].count = Cardinality(rows[s].holds)
    /\ \A t \in Seqs \ {s} : rows[t].holds \cap rows[s].holds = {}

\* Rows past the tier-2 age that the snapshot stands for get archived
\* (architecture-flows.md:319), unless the snapshot moves back below them.
Due(e)        == Exists(e) /\ e <= snapSeq /\ rows[e].at < now - Tier2Age
Resting(e, s) == e \in rows[s].holds /\ (rows[s].kind = "archive" \/ s > snapSeq)
OldEditsArchived == \A e \in Seqs : Due(e) ~> \E s \in Seqs : Resting(e, s)

\* Steps of a run amount to the one-step compaction of RowLog, which merges rows
\* some snapshot has stood for.
L == INSTANCE RowLog WITH log <- [s \in Seqs |-> rows[s].holds], covered <- peak
ImplementsRowLog == L!Spec
-----------------------------------------------------------------------------
(***************************************************************************)
(* The inductive invariant the proofs use.                                 *)
(***************************************************************************)

\* A row holds the edit appended at its seq, and none after it.
RowSound(s) ==
  /\ rows[s].holds \subseteq 1 .. s
  /\ IF Exists(s) THEN s <= edits /\ s \in rows[s].holds ELSE rows[s].holds = {}

\* What a run has listed is at or below a snapshot there has been, and stays so
\* whoever changes rows and snapshot meanwhile.
GroupSound(r, g) ==
  /\ g.seqs \subseteq 1 .. run[r].upTo
  /\ g.last \in g.seqs /\ \A s \in g.seqs : s <= g.last
  /\ g.row.kind \in {"session-compacted", "archive"}
  /\ g.row.holds \subseteq 1 .. g.last /\ g.last \in g.row.holds
  /\ g.row.kind = "session-compacted" => \A e \in g.row.holds : by[e] = g.row.sub

RunSound(r) ==
  /\ run[r].upTo <= peak
  /\ \A g \in run[r].todo : GroupSound(r, g)

SoundInv ==
  /\ TailUntouched /\ HeadKept /\ RowsAttributable
  /\ snapSeq <= peak /\ peak <= edits
  /\ \A s \in Seqs : RowSound(s)
  /\ \A r \in Runner : RunSound(r)

\* The listed rows are still what they were when the run listed them.
GroupFresh(g) ==
  /\ \A s \in g.seqs : Exists(s)
  /\ g.row.holds = UNION {rows[s].holds : s \in g.seqs}

RunAlone(r) ==
  /\ run[r].pc \notin {"merge1", "merge2"} => run[r].todo = {}
  /\ \A o \in Runner : run[r].pc # "idle" /\ run[o].pc # "idle" => r = o
  /\ \A g \in run[r].todo :
       GroupFresh(g) /\ \A h \in run[r].todo : g # h => g.seqs \cap h.seqs = {}

\* Only where runs do not overlap does a listing outlast the awaits after it.
IInv == SoundInv /\ (Overlap \/ (HistoryKept /\ \A r \in Runner : RunAlone(r)))

\* A raw row is one edit; a merged session, written or listed, counts its own.
CountSound(row) == row.kind = "session-compacted" => row.count = Cardinality(row.holds)
RowCounted(s) ==
  /\ rows[s].kind = "raw" => rows[s].holds = {s} /\ rows[s].count = 1
  /\ CountSound(rows[s])

Disjoint == \A s, t \in Seqs : s # t => rows[s].holds \cap rows[t].holds = {}

CountInv ==
  /\ \A s \in Seqs : RowCounted(s)
  /\ \A r \in Runner : \A g \in run[r].todo : CountSound(g.row)
  /\ Overlap \/ Disjoint

\* The state is well formed; rows above every snapshot so far are as they were appended,
\* the head row stays, rows keep to their author and count what they hold, and
\* what a run has listed is still so when it merges (compaction.service.ts:88-150).
Inductive == TypeOK /\ IInv /\ CountInv
=============================================================================
