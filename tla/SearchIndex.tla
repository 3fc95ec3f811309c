---------------------------- MODULE SearchIndex ----------------------------
(***************************************************************************)
(* The content of the search index: flushes of the rtc server fill the     *)
(* queue stale_documents, detached indexer workers drain it into           *)
(* documents.content_text of the backend's database.  What makes a worker  *)
(* sweep is the module IndexerWake; here it may sweep whenever it is up.   *)
(*                                                                         *)
(* The content of a snapshot is abstracted to the number of the last       *)
(* update it holds; -1 stands for a NULL or missing seq, 0 for no content. *)
(* A sweep takes the queue's rows in any order, bootstrap reads one page.  *)
(***************************************************************************)
EXTENDS Integers, FiniteSets

CONSTANTS
  Doc,         \* documents
  Worker,      \* indexer processes
  Legacy,      \* documents with a snapshot from before the queue existed
  Batch,       \* rows taken per claim
  MaxSeq,      \* bound on seqs and updates
  MaxFaults    \* bound on snapshots that commit late, failing calls, crashes

ASSUME ConstantsAssumption ==
  /\ IsFiniteSet(Doc)
  /\ Legacy \subseteq Doc
  /\ Batch \in Nat \ {0}
  /\ MaxSeq \in Nat \ {0}
  /\ MaxFaults \in Nat

VARIABLES
  \* the rtc database
  snapSeq,     \* rtc_documents.snapshot_at_seq
  snapText,    \* rtc_documents.yjs_state
  queue,       \* stale_documents.seq
  \* the backend database
  documents,   \* ids of the rows of documents
  idxSeq,      \* documents.content_seq
  idxText,     \* documents.content_text
  \* per worker
  boot,        \* "absent" (not deployed), "down", the step of bootstrap, "up"
  page,        \* bootstrap: documents read, with their seqs
  pc,          \* drain: its next step, or "idle" (not running)
  rows,        \* drain: claimed rows
  texts,       \* drain: what was extracted for them
  late,        \* history: documents a flush or checkpoint committed late of
  faults

rtcdb == <<snapSeq, snapText>>
idx   == <<idxSeq, idxText>>
sweep == <<pc, rows, texts>>
vars  == <<rtcdb, queue, documents, idx, boot, page, sweep, late, faults>>

Seqs    == 0 .. MaxSeq
OptSeqs == -1 .. MaxSeq
Nothing == [d \in Doc |-> -1]
NoTexts == [d \in Doc |-> 0]
Drain   == {"claim", "read", "apply", "delete"}
Booting == {"list", "gap", "enqueue"}
Running(w) == boot[w] \notin {"absent", "down"}

TypeOK ==
  /\ snapSeq \in [Doc -> Seqs] /\ snapText \in [Doc -> Seqs]
  /\ queue \in [Doc -> OptSeqs]
  /\ documents \subseteq Doc
  /\ idxSeq \in [Doc -> OptSeqs] /\ idxText \in [Doc -> Seqs]
  /\ boot \in [Worker -> Booting \cup {"absent", "down", "up"}]
  /\ page \in [Worker -> [Doc -> OptSeqs]]
  /\ pc \in [Worker -> Drain \cup {"idle"}]
  /\ rows \in [Worker -> [Doc -> OptSeqs]] /\ texts \in [Worker -> [Doc -> Seqs]]
  /\ late \subseteq Doc
  /\ faults \in 0 .. MaxFaults

Init ==
  /\ snapSeq = [d \in Doc |-> 0]
  /\ snapText = [d \in Doc |-> IF d \in Legacy THEN 1 ELSE 0]
  /\ queue = Nothing
  /\ documents = Doc
  /\ idxSeq = Nothing /\ idxText = NoTexts
  /\ \E W \in SUBSET Worker : /\ W # {}
                             /\ boot = [w \in Worker |-> IF w \in W THEN "down" ELSE "absent"]
  /\ page = [w \in Worker |-> Nothing]
  /\ pc = [w \in Worker |-> "idle"]
  /\ rows = [w \in Worker |-> Nothing] /\ texts = [w \in Worker |-> NoTexts]
  /\ late = {} /\ faults \in 0 .. MaxFaults  \* the rest of them may still come

Fault == faults < MaxFaults /\ faults' = faults + 1
-----------------------------------------------------------------------------
(***************************************************************************)
(* The rtc server and the backend.                                         *)
(***************************************************************************)

\* persistRtcDoc and writeSnapshotCheckpoint: snapshot and queue row in one
\* transaction.  A snapshot's content may be ahead of its seq.  A flush and a
\* checkpoint under way at once commit in either order, so that the seq or the
\* content may be older than what the row has, or the seq the same.
Flush(d, seq, text) ==
  /\ seq <= text
  /\ snapSeq' = [snapSeq EXCEPT ![d] = seq]
  /\ snapText' = [snapText EXCEPT ![d] = text]
  /\ queue' = [queue EXCEPT ![d] = seq]
  /\ \/ snapSeq[d] < seq /\ snapText[d] <= text /\ UNCHANGED <<late, faults>>
     \/ (seq <= snapSeq[d] \/ text < snapText[d]) /\ Fault /\ late' = late \cup {d}
  /\ UNCHANGED <<documents, idx, boot, page, sweep>>

\* The backend deletes the document, then asks the rtc server to
\* (deleteDocCompletely leaves the queue row).
DeleteDocument(d) ==
  /\ d \in documents
  /\ documents' = documents \ {d}
  /\ UNCHANGED <<rtcdb, queue, idx, boot, page, sweep, late, faults>>

DeleteSnapshot(d) ==
  /\ d \notin documents /\ snapText[d] # 0
  /\ snapSeq' = [snapSeq EXCEPT ![d] = 0]
  /\ snapText' = [snapText EXCEPT ![d] = 0]
  /\ UNCHANGED <<queue, documents, idx, boot, page, sweep, late, faults>>
-----------------------------------------------------------------------------
(***************************************************************************)
(* bootstrap: documents without an index row are queued.                   *)
(***************************************************************************)
Start(w) ==
  /\ boot[w] = "down"
  /\ boot' = [boot EXCEPT ![w] = "list"]
  /\ UNCHANGED <<rtcdb, queue, documents, idx, page, sweep, late, faults>>

\* Mutation: a snapshot at seq 0 is taken for none.
ListSnapshotsTruthy(w) ==
  /\ boot[w] = "list"
  /\ page' = [page EXCEPT ![w] = [d \in Doc |-> IF snapSeq[d] # 0 THEN snapSeq[d] ELSE -1]]
  /\ boot' = [boot EXCEPT ![w] = "gap"]
  /\ UNCHANGED <<rtcdb, queue, documents, idx, sweep, late, faults>>

ListSnapshots(w) ==
  /\ boot[w] = "list"
  /\ page' = [page EXCEPT ![w] = [d \in Doc |-> IF snapText[d] # 0 THEN snapSeq[d] ELSE -1]]
  /\ boot' = [boot EXCEPT ![w] = "gap"]
  /\ UNCHANGED <<rtcdb, queue, documents, idx, sweep, late, faults>>

UnindexedAmong(w) ==
  /\ boot[w] = "gap"
  /\ page' = [page EXCEPT ![w] =
       [d \in Doc |-> IF d \in documents /\ idxSeq[d] = -1 THEN @[d] ELSE -1]]
  /\ boot' = [boot EXCEPT ![w] = "enqueue"]
  /\ UNCHANGED <<rtcdb, queue, documents, idx, sweep, late, faults>>

\* Mutation: an upsert, as the flush has it.
EnqueueManyUpserts(w) ==
  /\ boot[w] = "enqueue"
  /\ queue' = [d \in Doc |-> IF page[w][d] # -1 THEN page[w][d] ELSE queue[d]]
  /\ boot' = [boot EXCEPT ![w] = "up"]
  /\ page' = [page EXCEPT ![w] = Nothing]
  /\ UNCHANGED <<rtcdb, documents, idx, sweep, late, faults>>

\* enqueueMany: rows that exist are left alone.
EnqueueMany(w) ==
  /\ boot[w] = "enqueue"
  /\ queue' = [d \in Doc |-> IF queue[d] = -1 THEN page[w][d] ELSE queue[d]]
  /\ boot' = [boot EXCEPT ![w] = "up"]
  /\ page' = [page EXCEPT ![w] = Nothing]
  /\ UNCHANGED <<rtcdb, documents, idx, sweep, late, faults>>

\* A failing call is logged, and the worker is up all the same.
BackfillFails(w) ==
  /\ boot[w] \in Booting
  /\ Fault
  /\ boot' = [boot EXCEPT ![w] = "up"]
  /\ page' = [page EXCEPT ![w] = Nothing]
  /\ UNCHANGED <<rtcdb, queue, documents, idx, sweep, late>>

\* The worker dies or is shut down, in a sweep or out of one.
WorkerCrash(w) ==
  /\ Running(w)
  /\ Fault
  /\ boot' = [boot EXCEPT ![w] = "down"]
  /\ page' = [page EXCEPT ![w] = Nothing]
  /\ pc' = [pc EXCEPT ![w] = "idle"]
  /\ rows' = [rows EXCEPT ![w] = Nothing]
  /\ texts' = [texts EXCEPT ![w] = NoTexts]
  /\ UNCHANGED <<rtcdb, queue, documents, idx, late>>
-----------------------------------------------------------------------------
(***************************************************************************)
(* drain: claim, read and extract, write, guarded delete.                  *)
(***************************************************************************)
Queued == {d \in Doc : queue[d] # -1}

\* The first sweep may start while bootstrap runs: a ping or the safety timer.
StartSweep(w) ==
  /\ Running(w) /\ pc[w] = "idle"
  /\ pc' = [pc EXCEPT ![w] = "claim"]
  /\ UNCHANGED <<rtcdb, queue, documents, idx, boot, page, rows, texts, late, faults>>

\* Up to Batch rows, all of them if they fit.
Claimable(S) ==
  S \subseteq Queued /\ IF Cardinality(Queued) <= Batch THEN S = Queued ELSE Cardinality(S) = Batch

Claim(w) ==
  /\ pc[w] = "claim"
  /\ \E S \in SUBSET Queued :
       /\ Claimable(S)
       /\ rows' = [rows EXCEPT ![w] = [d \in Doc |-> IF d \in S THEN queue[d] ELSE -1]]
       /\ pc' = [pc EXCEPT ![w] = IF S = {} THEN "idle" ELSE "read"]
  /\ UNCHANGED <<rtcdb, queue, documents, idx, boot, page, texts, late, faults>>

\* Rows without a snapshot are not indexable.
Read(w) ==
  /\ pc[w] = "read"
  /\ texts' = [texts EXCEPT ![w] = [d \in Doc |-> IF rows[w][d] # -1 THEN snapText[d] ELSE 0]]
  /\ pc' = [pc EXCEPT ![w] = "apply"]
  /\ UNCHANGED <<rtcdb, queue, documents, idx, boot, page, rows, late, faults>>

\* Mutation: the update looks at nothing.
WrittenUnguarded(w) == {d \in documents : texts[w][d] # 0 /\ rows[w][d] # -1}

\* The guarded UPDATE: documents that exist and whose content_seq is behind.
Written(w) == {d \in documents : texts[w][d] # 0 /\ idxSeq[d] < rows[w][d]}

Apply(w) ==
  /\ pc[w] = "apply"
  /\ idxSeq' = [d \in Doc |-> IF d \in Written(w) THEN rows[w][d] ELSE idxSeq[d]]
  /\ idxText' = [d \in Doc |-> IF d \in Written(w) THEN texts[w][d] ELSE idxText[d]]
  /\ pc' = [pc EXCEPT ![w] = "delete"]
  /\ texts' = [texts EXCEPT ![w] = NoTexts]
  /\ UNCHANGED <<rtcdb, queue, documents, boot, page, rows, late, faults>>

\* Mutation: every claimed row, also one flushed again meanwhile.
ClearedAll(w) == {d \in Doc : rows[w][d] # -1}

\* deleteStaleBatch: every claimed row that has not moved on.
Cleared(w) == {d \in Doc : queue[d] <= rows[w][d]}

Claimed(w) == {d \in Doc : rows[w][d] # -1}

\* The sweep goes on after a full batch.
DeleteStale(w) ==
  /\ pc[w] = "delete"
  /\ queue' = [d \in Doc |-> IF d \in Cleared(w) THEN -1 ELSE queue[d]]
  /\ pc' = [pc EXCEPT ![w] = IF Cardinality(Claimed(w)) < Batch THEN "idle" ELSE "claim"]
  /\ rows' = [rows EXCEPT ![w] = Nothing]
  /\ UNCHANGED <<rtcdb, documents, idx, boot, page, texts, late, faults>>

\* A database call of the sweep fails: the sweep ends, its rows stay queued.
SweepFails(w) ==
  /\ pc[w] \in Drain
  /\ Fault
  /\ pc' = [pc EXCEPT ![w] = "idle"]
  /\ rows' = [rows EXCEPT ![w] = Nothing]
  /\ texts' = [texts EXCEPT ![w] = NoTexts]
  /\ UNCHANGED <<rtcdb, queue, documents, idx, boot, page, late>>
-----------------------------------------------------------------------------
BootStep(w)  == Start(w) \/ ListSnapshots(w) \/ UnindexedAmong(w) \/ EnqueueMany(w)
SweepStep(w) == StartSweep(w) \/ Claim(w) \/ Read(w) \/ Apply(w) \/ DeleteStale(w)

Next ==
  \/ \E d \in Doc :
       \/ \E seq, text \in 1 .. MaxSeq : Flush(d, seq, text)
       \/ DeleteDocument(d) \/ DeleteSnapshot(d)
  \/ \E w \in Worker :
       BootStep(w) \/ BackfillFails(w) \/ WorkerCrash(w) \/ SweepStep(w) \/ SweepFails(w)

Spec == Init /\ [][Next]_vars

(***************************************************************************)
(* Workers are restarted, the safety timer fires, the databases answer.    *)
(* Rows are claimed oldest first, so a queued row is claimed in the end.   *)
(***************************************************************************)
Fairness == \A w \in Worker : WF_vars(BootStep(w)) /\ WF_vars(SweepStep(w))

FairSpec == Spec /\ Fairness
-----------------------------------------------------------------------------
(***************************************************************************)
(* Properties.                                                             *)
(***************************************************************************)

\* The index of an existing document lags a snapshot written with the queue.
Behind(d) == d \in documents /\ idxSeq[d] < snapSeq[d] /\ snapSeq[d] > 0

\* A document whose index lags is queued, at the seq of its snapshot: neither a
\* crash, nor a late delete, nor a second worker clears a row that is not yet
\* served (guards G1 and G2, search-indexing.md:162-180).
BehindIsQueued == \A d \in Doc : Behind(d) => queue[d] = snapSeq[d]

\* The indexed text holds all updates its content_seq stands for, but for
\* documents a snapshot of which committed late.
IndexedTextIsAtSeq == \A d \in documents \ late : idxSeq[d] <= idxText[d]

\* Once the index has had the updates up to some seq its text keeps them, however
\* many workers hold rows of the document and whichever of them writes last
\* (guard G3, search-indexing.md:182-186), but for documents a snapshot of which
\* committed late.
IndexKeepsUpdates ==
  [][\A d \in documents' \ late' : idxSeq[d] <= idxSeq'[d] /\ idxSeq[d] <= idxText'[d]]_vars

\* When the index is at the snapshot's seq it shows the snapshot.
IndexedIsCurrent ==
  \A d \in documents \ late : idxSeq[d] = snapSeq[d] => idxText[d] = snapText[d]

\* The index catches up with every snapshot (search-indexing.md:3-5).
IndexCatchesUp == \A d \in Doc : Behind(d) ~> ~Behind(d)

\* A document from before the queue is indexed by the backfill of a start, if no
\* call fails (indexer.service.ts:59-60).
BackfillCompletes ==
  \A d \in Legacy : d \in documents ~> d \notin documents \/ idxSeq[d] # -1 \/ faults > 0

\* Search finds what was written, in the end: what the queue knows of, and what
\* is older than the queue (search-indexing.md:3-5, indexer.service.ts:59-60).
EverythingIsIndexed == IndexCatchesUp /\ BackfillCompletes
-----------------------------------------------------------------------------
(***************************************************************************)
(* The inductive invariant the proofs use.                                 *)
(***************************************************************************)

\* A document that has no snapshot is queued by no one: a claimed row of an
\* existing document always finds a text.
NothingToQueue(d) ==
  snapText[d] = 0 => queue[d] = -1 /\ \A w \in Worker : page[w][d] = -1 /\ rows[w][d] = -1

\* How far a sweep is with a claimed row.
RowServed(w, d) ==
  /\ pc[w] = "apply" /\ rows[w][d] # -1 => texts[w][d] # 0
  /\ pc[w] = "delete" => rows[w][d] <= idxSeq[d]

\* Nobody holds a seq the snapshot has not reached.
NotAhead(d) ==
  /\ snapSeq[d] <= snapText[d] /\ idxSeq[d] <= snapSeq[d] /\ queue[d] <= snapSeq[d]
  /\ \A w \in Worker : page[w][d] <= snapSeq[d] /\ rows[w][d] <= snapSeq[d]

\* A text is at least as new as the row it was read for, and the snapshot's own
\* if the row is still the snapshot's.
TextServesRow(w, d) ==
  pc[w] = "apply" /\ rows[w][d] # -1 =>
    rows[w][d] <= texts[w][d] /\ (rows[w][d] = snapSeq[d] => texts[w][d] = snapText[d])

ServedInv ==
  /\ BehindIsQueued
  /\ \A d \in documents : NothingToQueue(d) /\ \A w \in Worker : RowServed(w, d)

ContentInv ==
  /\ IndexedTextIsAtSeq /\ IndexedIsCurrent
  /\ \A d \in documents \ late : NotAhead(d) /\ \A w \in Worker : TextServesRow(w, d)

\* Every sweep in flight, whenever its worker claimed, holds rows and texts that
\* its writes and deletes may rely on.
IInv == ServedInv /\ ContentInv

\* The state is well formed, a document that lags is queued and, but for late
\* snapshots, no row in flight is ahead of its document's snapshot, and the
\* rows and texts a sweep holds may be written and cleared whenever it gets there
\* (doc-repository.service.ts:128-173).
Inductive == TypeOK /\ IInv
=============================================================================
