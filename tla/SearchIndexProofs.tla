------------------------- MODULE SearchIndexProofs -------------------------
(***************************************************************************)
(* Proofs about SearchIndex, for any documents, workers and batches, with  *)
(* crashes and failing calls: type correctness; that a document whose      *)
(* index lags stays queued; and, but for documents a snapshot of which     *)
(* committed late, that the index is at its seq and never goes back.       *)
(***************************************************************************)
EXTENDS SearchIndex, TLAPS

\* What the proofs use of the constants.
LEMMA ConstantFacts ==
  /\ Legacy \subseteq Doc /\ MaxSeq \in Nat \ {0} /\ MaxFaults \in Nat
  /\ Seqs \subseteq OptSeqs /\ Seqs \subseteq Nat /\ OptSeqs \subseteq Int
  /\ 0 \in Seqs /\ 1 \in Seqs /\ -1 \in OptSeqs
BY ConstantsAssumption DEF ConstantsAssumption, Seqs, OptSeqs

LEMMA EmptyTypes == Nothing \in [Doc -> OptSeqs] /\ NoTexts \in [Doc -> Seqs]
BY ConstantFacts DEF Nothing, NoTexts

\* A call that fails is counted.
LEMMA FaultType ==
  ASSUME TypeOK, Fault PROVE faults' \in 0 .. MaxFaults
<1>1. faults \in Nat /\ MaxFaults \in Nat BY ConstantFacts DEF TypeOK
<1> QED BY <1>1 DEF Fault

\* Seqs compare as integers.
LEMMA SeqTypes ==
  ASSUME TypeOK, NEW d \in Doc
  PROVE  /\ snapSeq[d] \in Nat /\ snapText[d] \in Nat /\ idxText[d] \in Nat
         /\ queue[d] \in Int /\ queue[d] >= -1 /\ idxSeq[d] \in Int /\ idxSeq[d] >= -1
         /\ \A w \in Worker : /\ page[w][d] \in Int /\ page[w][d] >= -1
                             /\ rows[w][d] \in Int /\ rows[w][d] >= -1
                             /\ texts[w][d] \in Nat
<1>1. \A x \in Seqs : x \in Nat BY ConstantFacts
<1>2. \A x \in OptSeqs : x \in Int /\ x >= -1 BY ConstantFacts DEF OptSeqs
<1> QED BY <1>1, <1>2 DEF TypeOK

\* What Apply writes, document by document: content_seq never goes back.
LEMMA ApplyWrites ==
  ASSUME TypeOK, NEW w \in Worker, Apply(w), NEW d \in documents
  PROVE  /\ d \in Doc /\ documents' = documents
         /\ idxSeq'[d] \in Int /\ idxSeq[d] <= idxSeq'[d]
         /\ texts[w][d] # 0 => rows[w][d] <= idxSeq'[d]
         /\ \/ idxSeq'[d] = idxSeq[d] /\ idxText'[d] = idxText[d]
            \/ /\ texts[w][d] # 0 /\ idxSeq[d] < rows[w][d]
               /\ idxSeq'[d] = rows[w][d] /\ idxText'[d] = texts[w][d]
<1>1. d \in Doc BY DEF TypeOK
<1>2. d \in Written(w) <=> texts[w][d] # 0 /\ idxSeq[d] < rows[w][d]
  BY DEF Written
<1>3. /\ idxSeq'[d] = IF d \in Written(w) THEN rows[w][d] ELSE idxSeq[d]
      /\ idxText'[d] = IF d \in Written(w) THEN texts[w][d] ELSE idxText[d]
      /\ documents' = documents
  BY <1>1 DEF Apply
<1> QED BY <1>1, <1>2, <1>3, SeqTypes

LEMMA InitType == Init => TypeOK
BY ConstantFacts, EmptyTypes DEF Init, TypeOK, NoTexts

LEMMA NextType == TypeOK /\ [Next]_vars => TypeOK'
<1> SUFFICES ASSUME TypeOK, [Next]_vars PROVE TypeOK'
  OBVIOUS
<1> USE ConstantFacts, EmptyTypes
<1>1. ASSUME NEW d \in Doc, NEW seq \in 1 .. MaxSeq, NEW text \in 1 .. MaxSeq, Flush(d, seq, text)
      PROVE  TypeOK'
  <2>1. seq \in Seqs /\ seq \in OptSeqs /\ text \in Seqs
    BY DEF Seqs, OptSeqs
  <2>2. late' \subseteq Doc /\ faults' \in 0 .. MaxFaults
    BY <1>1, FaultType DEF Flush, TypeOK
  <2> QED BY <1>1, <2>1, <2>2 DEF Flush, TypeOK, idx, sweep
<1>2. ASSUME NEW d \in Doc, DeleteDocument(d) \/ DeleteSnapshot(d) PROVE TypeOK'
  <2>1. CASE DeleteDocument(d)
    BY <2>1 DEF DeleteDocument, TypeOK, rtcdb, idx, sweep
  <2>2. CASE DeleteSnapshot(d)
    BY <2>2 DEF DeleteSnapshot, TypeOK, idx, sweep
  <2> QED BY <1>2, <2>1, <2>2
<1>3. ASSUME NEW w \in Worker, BootStep(w) PROVE TypeOK'
  <2>1. CASE Start(w)
    BY <2>1 DEF Start, TypeOK, Booting, rtcdb, idx, sweep
  <2>2. CASE ListSnapshots(w)
    BY <2>2 DEF ListSnapshots, TypeOK, Booting, rtcdb, idx, sweep
  <2>3. CASE UnindexedAmong(w)
    BY <2>3 DEF UnindexedAmong, TypeOK, Booting, rtcdb, idx, sweep
  <2>4. CASE EnqueueMany(w)
    BY <2>4 DEF EnqueueMany, TypeOK, Booting, rtcdb, idx, sweep
  <2> QED BY <1>3, <2>1, <2>2, <2>3, <2>4 DEF BootStep
<1>4. ASSUME NEW w \in Worker, SweepStep(w) PROVE TypeOK'
  <2>1. CASE StartSweep(w)
    BY <2>1 DEF StartSweep, TypeOK, Drain, rtcdb, idx, sweep
  <2>2. CASE Claim(w)
    BY <2>2 DEF Claim, TypeOK, Drain, rtcdb, idx
  <2>3. CASE Read(w)
    BY <2>3 DEF Read, TypeOK, Drain, rtcdb, idx
  <2>4. CASE Apply(w)
    BY <2>4 DEF Apply, TypeOK, Drain, rtcdb
  <2>5. CASE DeleteStale(w)
    BY <2>5 DEF DeleteStale, TypeOK, Drain, rtcdb, idx
  <2> QED BY <1>4, <2>1, <2>2, <2>3, <2>4, <2>5 DEF SweepStep
<1>5. ASSUME NEW w \in Worker, BackfillFails(w) \/ WorkerCrash(w) \/ SweepFails(w) PROVE TypeOK'
  <2>1. faults' \in 0 .. MaxFaults
    BY <1>5, FaultType DEF BackfillFails, WorkerCrash, SweepFails
  <2>2. CASE BackfillFails(w)
    BY <2>1, <2>2 DEF BackfillFails, TypeOK, rtcdb, idx, sweep
  <2>3. CASE WorkerCrash(w)
    BY <2>1, <2>3 DEF WorkerCrash, TypeOK, rtcdb, idx
  <2>4. CASE SweepFails(w)
    BY <2>1, <2>4 DEF SweepFails, TypeOK, rtcdb, idx
  <2> QED BY <1>5, <2>2, <2>3, <2>4
<1>6. CASE UNCHANGED vars
  BY <1>6 DEF TypeOK, vars, rtcdb, idx, sweep
<1> QED BY <1>1, <1>2, <1>3, <1>4, <1>5, <1>6 DEF Next

\* The tables of both databases and the workers' variables keep their types,
\* however many workers bootstrap, sweep, fail and crash at once.
THEOREM TypeCorrect == Spec => []TypeOK
BY InitType, NextType, PTL DEF Spec
-----------------------------------------------------------------------------
(***************************************************************************)
(* A lagging document is queued.                                           *)
(***************************************************************************)
LEMMA InitServed == Init => ServedInv
BY ConstantFacts DEF Init, ServedInv, BehindIsQueued, Behind, NothingToQueue, RowServed,
                     Nothing, NoTexts

LEMMA NextServed == TypeOK /\ ServedInv /\ [Next]_vars => ServedInv'
<1> SUFFICES ASSUME TypeOK, ServedInv, [Next]_vars PROVE ServedInv'
  OBVIOUS
<1> USE ConstantFacts DEF ServedInv
<1>1. ASSUME NEW d \in Doc, NEW seq \in 1 .. MaxSeq, NEW text \in 1 .. MaxSeq, Flush(d, seq, text)
      PROVE  ServedInv'
  <2>1. BehindIsQueued'
    BY <1>1 DEF Flush, BehindIsQueued, Behind, TypeOK, idx
  <2>2. ASSUME NEW e \in documents PROVE NothingToQueue(e)'
    <3>1. CASE e = d
      BY <1>1, <3>1 DEF Flush, NothingToQueue, TypeOK
    <3>2. CASE e # d
      BY <1>1, <3>2 DEF Flush, NothingToQueue, TypeOK, sweep
    <3> QED BY <3>1, <3>2
  <2>3. ASSUME NEW e \in documents, NEW w \in Worker PROVE RowServed(w, e)'
    BY <1>1 DEF Flush, RowServed, idx, sweep
  <2> QED BY <1>1, <2>1, <2>2, <2>3 DEF Flush
<1>2. ASSUME NEW d \in Doc, DeleteDocument(d) PROVE ServedInv'
  BY <1>2 DEF DeleteDocument, BehindIsQueued, Behind, NothingToQueue, RowServed, rtcdb, idx, sweep
<1>3. ASSUME NEW d \in Doc, DeleteSnapshot(d) PROVE ServedInv'
  <2>1. \A e \in documents : e # d BY <1>3 DEF DeleteSnapshot
  <2> QED BY <1>3, <2>1 DEF DeleteSnapshot, BehindIsQueued, Behind, NothingToQueue, RowServed,
                            TypeOK, idx, sweep
<1>4. ASSUME NEW w \in Worker, BootStep(w) PROVE ServedInv'
  <2>1. CASE Start(w)
    BY <2>1 DEF Start, BehindIsQueued, Behind, NothingToQueue, RowServed, rtcdb, idx, sweep
  <2>2. CASE ListSnapshots(w)
    <3>1. BehindIsQueued' /\ documents' = documents
      BY <2>2 DEF ListSnapshots, BehindIsQueued, Behind, rtcdb, idx
    <3>2. ASSUME NEW e \in documents PROVE NothingToQueue(e)'
      BY <2>2 DEF ListSnapshots, NothingToQueue, TypeOK, rtcdb, sweep
    <3>3. ASSUME NEW e \in documents, NEW v \in Worker PROVE RowServed(v, e)'
      BY <2>2 DEF ListSnapshots, RowServed, idx, sweep
    <3> QED BY <3>1, <3>2, <3>3
  <2>3. CASE UnindexedAmong(w)
    <3>1. BehindIsQueued' /\ documents' = documents
      BY <2>3 DEF UnindexedAmong, BehindIsQueued, Behind, rtcdb, idx
    <3>2. ASSUME NEW e \in documents PROVE NothingToQueue(e)'
      BY <2>3 DEF UnindexedAmong, NothingToQueue, TypeOK, rtcdb, sweep
    <3>3. ASSUME NEW e \in documents, NEW v \in Worker PROVE RowServed(v, e)'
      BY <2>3 DEF UnindexedAmong, RowServed, idx, sweep
    <3> QED BY <3>1, <3>2, <3>3
  <2>4. CASE EnqueueMany(w)
    <3>1. BehindIsQueued' /\ documents' = documents
      BY <2>4 DEF EnqueueMany, BehindIsQueued, Behind, TypeOK, rtcdb, idx
    <3>2. ASSUME NEW e \in documents PROVE NothingToQueue(e)'
      BY <2>4 DEF EnqueueMany, NothingToQueue, Nothing, TypeOK, rtcdb, sweep
    <3>3. ASSUME NEW e \in documents, NEW v \in Worker PROVE RowServed(v, e)'
      BY <2>4 DEF EnqueueMany, RowServed, idx, sweep
    <3> QED BY <3>1, <3>2, <3>3
  <2> QED BY <1>4, <2>1, <2>2, <2>3, <2>4 DEF BootStep
<1>5. ASSUME NEW w \in Worker, StartSweep(w) PROVE ServedInv'
  BY <1>5 DEF StartSweep, BehindIsQueued, Behind, NothingToQueue, RowServed, TypeOK, rtcdb, idx
<1>6. ASSUME NEW w \in Worker, Claim(w) PROVE ServedInv'
  <2>1. BehindIsQueued' /\ documents' = documents
    BY <1>6 DEF Claim, BehindIsQueued, Behind, rtcdb, idx
  <2>2. ASSUME NEW e \in documents PROVE NothingToQueue(e)'
    BY <1>6 DEF Claim, NothingToQueue, TypeOK, rtcdb
  <2>3. ASSUME NEW e \in documents, NEW v \in Worker PROVE RowServed(v, e)'
    BY <1>6 DEF Claim, RowServed, TypeOK, idx
  <2> QED BY <2>1, <2>2, <2>3
<1>7. ASSUME NEW w \in Worker, Read(w) PROVE ServedInv'
  <2>1. BehindIsQueued' /\ documents' = documents
    BY <1>7 DEF Read, BehindIsQueued, Behind, rtcdb, idx
  <2>2. ASSUME NEW e \in documents PROVE NothingToQueue(e)'
    BY <1>7 DEF Read, NothingToQueue, rtcdb
  <2>3. ASSUME NEW e \in documents, NEW v \in Worker PROVE RowServed(v, e)'
    BY <1>7 DEF Read, RowServed, NothingToQueue, TypeOK, idx
  <2> QED BY <2>1, <2>2, <2>3
<1>8. ASSUME NEW w \in Worker, Apply(w) PROVE ServedInv'
  <2>1. BehindIsQueued' /\ documents' = documents
    <3>1. documents' = documents /\ queue' = queue /\ snapSeq' = snapSeq /\ documents \subseteq Doc
      BY <1>8 DEF Apply, TypeOK, rtcdb
    <3>2. \A e \in documents : Behind(e)' => Behind(e)
      BY <1>8, <3>1, ApplyWrites, SeqTypes DEF Behind
    <3> QED BY <3>1, <3>2 DEF BehindIsQueued, Behind
  <2>2. ASSUME NEW e \in documents PROVE NothingToQueue(e)'
    BY <1>8 DEF Apply, NothingToQueue, rtcdb
  <2>3. ASSUME NEW e \in documents, NEW v \in Worker PROVE RowServed(v, e)'
    <3>1. /\ pc'[v] = (IF v = w THEN "delete" ELSE pc[v]) /\ rows' = rows
          /\ v # w => texts'[v][e] = texts[v][e]
      BY <1>8 DEF Apply, TypeOK
    <3>2. CASE v = w
      <4>1. pc[w] = "apply" BY <1>8 DEF Apply
      <4>2. rows[w][e] <= idxSeq'[e]
        BY <1>8, <4>1, ApplyWrites, SeqTypes DEF RowServed
      <4> QED BY <3>1, <3>2, <4>2 DEF RowServed
    <3>3. CASE v # w
      BY <1>8, <3>1, <3>3, ApplyWrites, SeqTypes DEF RowServed
    <3> QED BY <3>2, <3>3
  <2> QED BY <2>1, <2>2, <2>3
<1>9. ASSUME NEW w \in Worker, DeleteStale(w) PROVE ServedInv'
  <2>1. ASSUME NEW e \in documents, Behind(e) PROVE e \notin Cleared(w)
    <3>1. e \in Doc /\ queue[e] = snapSeq[e] /\ idxSeq[e] < snapSeq[e]
      BY <2>1 DEF BehindIsQueued, Behind, TypeOK
    <3>2. rows[w][e] <= idxSeq[e]
      BY <1>9 DEF DeleteStale, RowServed
    <3> QED BY <3>1, <3>2, SeqTypes DEF Cleared
  <2>2. BehindIsQueued' /\ documents' = documents
    BY <1>9, <2>1 DEF DeleteStale, BehindIsQueued, Behind, rtcdb, idx
  <2>3. ASSUME NEW e \in documents PROVE NothingToQueue(e)'
    BY <1>9 DEF DeleteStale, NothingToQueue, Nothing, TypeOK, rtcdb
  <2>4. ASSUME NEW e \in documents, NEW v \in Worker PROVE RowServed(v, e)'
    BY <1>9 DEF DeleteStale, RowServed, TypeOK, idx
  <2> QED BY <2>2, <2>3, <2>4
<1>10. ASSUME NEW w \in Worker, BackfillFails(w) PROVE ServedInv'
  BY <1>10 DEF BackfillFails, BehindIsQueued, Behind, NothingToQueue, RowServed, Nothing, TypeOK,
               rtcdb, idx, sweep
<1>11. ASSUME NEW w \in Worker, WorkerCrash(w) \/ SweepFails(w) PROVE ServedInv'
  <2>1. BehindIsQueued' /\ documents' = documents
    BY <1>11 DEF WorkerCrash, SweepFails, BehindIsQueued, Behind, rtcdb, idx
  <2>2. ASSUME NEW e \in documents PROVE NothingToQueue(e)'
    <3>1. e \in Doc /\ snapText' = snapText /\ queue' = queue
      BY <1>11 DEF WorkerCrash, SweepFails, TypeOK, rtcdb
    <3>2. \A v \in Worker : rows'[v][e] \in {rows[v][e], -1}
      <4>1. \A v \in Worker : rows'[v] = (IF v = w THEN Nothing ELSE rows[v])
        BY <1>11 DEF WorkerCrash, SweepFails, TypeOK
      <4> QED BY <3>1, <4>1 DEF Nothing
    <3>3. \A v \in Worker : page'[v][e] \in {page[v][e], -1}
      <4>1. \A v \in Worker : page'[v] \in {Nothing, page[v]}
        BY <1>11 DEF WorkerCrash, SweepFails, TypeOK
      <4> QED BY <3>1, <4>1 DEF Nothing
    <3> QED BY <3>1, <3>2, <3>3 DEF NothingToQueue
  <2>3. ASSUME NEW e \in documents, NEW v \in Worker PROVE RowServed(v, e)'
    BY <1>11 DEF WorkerCrash, SweepFails, RowServed, TypeOK, idx
  <2> QED BY <2>1, <2>2, <2>3
<1>12. CASE UNCHANGED vars
  BY <1>12 DEF vars, BehindIsQueued, Behind, NothingToQueue, RowServed, rtcdb, idx, sweep
<1> QED
  BY <1>1, <1>2, <1>3, <1>4, <1>5, <1>6, <1>7, <1>8, <1>9, <1>10, <1>11, <1>12
  DEF Next, SweepStep

\* A document whose index lags is queued at its snapshot's seq, however many
\* workers claim, crash and clear, and in whatever order snapshots commit
\* (guards G1 and G2 of search-indexing.md:162-180).
THEOREM LaggingIsQueued == Spec => []BehindIsQueued
<1>1. Init => ServedInv /\ TypeOK BY InitServed, InitType
<1>2. (ServedInv /\ TypeOK) /\ [Next]_vars => (ServedInv /\ TypeOK)' BY NextServed, NextType
<1>3. ServedInv => BehindIsQueued BY DEF ServedInv
<1> QED BY <1>1, <1>2, <1>3, PTL DEF Spec
-----------------------------------------------------------------------------
(***************************************************************************)
(* The indexed text is the one its seq stands for.                         *)
(***************************************************************************)
LEMMA InitContent == Init => ContentInv
BY ConstantFacts DEF Init, ContentInv, IndexedTextIsAtSeq, IndexedIsCurrent, NotAhead,
                     TextServesRow, Nothing, NoTexts

\* A step that writes neither a snapshot nor the index, and after which queue,
\* pages and claimed rows hold nothing but what was there.
LEMMA SameContent ==
  ASSUME TypeOK, ContentInv,
         UNCHANGED <<snapSeq, snapText, idxSeq, idxText, late>>, documents' \subseteq documents,
         \A d \in documents' \ late :
           /\ queue'[d] <= snapSeq[d]
           /\ \A w \in Worker : /\ page'[w][d] <= snapSeq[d] /\ rows'[w][d] <= snapSeq[d]
                                /\ TextServesRow(w, d)'
  PROVE  ContentInv'
BY DEF ContentInv, IndexedTextIsAtSeq, IndexedIsCurrent, NotAhead, TypeOK

LEMMA NextContent ==
  ASSUME TypeOK, ContentInv, [Next]_vars PROVE ContentInv'
<1> USE ConstantFacts DEF ContentInv
<1>1. ASSUME NEW d \in Doc, NEW seq \in 1 .. MaxSeq, NEW text \in 1 .. MaxSeq, Flush(d, seq, text)
      PROVE  ContentInv'
  <2>1. /\ seq <= text
        /\ documents' = documents /\ documents \subseteq Doc
        /\ idxSeq' = idxSeq /\ idxText' = idxText /\ page' = page
        /\ pc' = pc /\ rows' = rows /\ texts' = texts
    BY <1>1 DEF Flush, TypeOK, idx, sweep
  <2>2. /\ snapSeq'[d] = seq /\ snapText'[d] = text /\ queue'[d] = seq
        /\ \A e \in Doc \ {d} :
             snapSeq'[e] = snapSeq[e] /\ snapText'[e] = snapText[e] /\ queue'[e] = queue[e]
    BY <1>1 DEF Flush, TypeOK
  <2>3. late \subseteq late' /\ (d \notin late' => snapSeq[d] < seq /\ snapText[d] <= text)
    BY <1>1 DEF Flush
  <2>4. IndexedTextIsAtSeq' BY <2>1, <2>3 DEF IndexedTextIsAtSeq
  <2>5. ASSUME NEW e \in documents \ late'
        PROVE  /\ NotAhead(e)' /\ (idxSeq'[e] = snapSeq'[e] => idxText'[e] = snapText'[e])
               /\ \A w \in Worker : TextServesRow(w, e)'
    <3>0. e \in documents \ late BY <2>3
    <3>1. CASE e = d
      <4>1. NotAhead(e)' BY <2>1, <2>2, <2>3, <3>0, <3>1, SeqTypes DEF NotAhead
      <4>2. idxSeq'[e] # snapSeq'[e] BY <2>1, <2>2, <2>3, <3>0, <3>1, SeqTypes DEF NotAhead
      <4>3. \A w \in Worker : TextServesRow(w, e)'
        BY <2>1, <2>2, <2>3, <3>0, <3>1, SeqTypes DEF NotAhead, TextServesRow
      <4> QED BY <4>1, <4>2, <4>3
    <3>2. CASE e # d
      BY <2>1, <2>2, <3>0, <3>2 DEF NotAhead, TextServesRow, IndexedIsCurrent
    <3> QED BY <3>1, <3>2
  <2> QED BY <2>1, <2>4, <2>5 DEF IndexedIsCurrent
<1>2. ASSUME NEW d \in Doc, DeleteDocument(d) PROVE ContentInv'
  BY <1>2, SameContent DEF DeleteDocument, NotAhead, TextServesRow, rtcdb, idx, sweep
<1>3. ASSUME NEW d \in Doc, DeleteSnapshot(d) PROVE ContentInv'
  <2>1. /\ documents' = documents /\ documents \subseteq Doc /\ d \notin documents /\ late' = late
        /\ idxSeq' = idxSeq /\ idxText' = idxText /\ page' = page /\ queue' = queue
        /\ pc' = pc /\ rows' = rows /\ texts' = texts
        /\ \A e \in Doc \ {d} : snapSeq'[e] = snapSeq[e] /\ snapText'[e] = snapText[e]
    BY <1>3 DEF DeleteSnapshot, TypeOK, idx, sweep
  <2> QED BY <2>1 DEF IndexedTextIsAtSeq, IndexedIsCurrent, NotAhead, TextServesRow
<1>4. ASSUME NEW w \in Worker, BootStep(w) PROVE ContentInv'
  <2>1. CASE Start(w)
    BY <2>1, SameContent DEF Start, NotAhead, TextServesRow, rtcdb, idx, sweep
  <2>2. CASE ListSnapshots(w)
    <3>1. /\ UNCHANGED <<snapSeq, snapText, idxSeq, idxText, late>> /\ documents' = documents
          /\ queue' = queue /\ pc' = pc /\ rows' = rows /\ texts' = texts
      BY <2>2 DEF ListSnapshots, rtcdb, idx, sweep
    <3>2. \A e \in documents \ late, v \in Worker : page'[v][e] \in {page[v][e], snapSeq[e], -1}
      BY <2>2 DEF ListSnapshots, TypeOK
    <3>3. \A e \in documents \ late : e \in Doc BY DEF TypeOK
    <3>4. \A e \in documents \ late, v \in Worker : page'[v][e] <= snapSeq[e]
      BY <3>2, <3>3, SeqTypes DEF NotAhead
    <3> QED BY <3>1, <3>4, SameContent DEF NotAhead, TextServesRow
  <2>3. CASE UnindexedAmong(w)
    <3>1. /\ UNCHANGED <<snapSeq, snapText, idxSeq, idxText, late>> /\ documents' = documents
          /\ queue' = queue /\ pc' = pc /\ rows' = rows /\ texts' = texts
      BY <2>3 DEF UnindexedAmong, rtcdb, idx, sweep
    <3>2. \A e \in documents \ late, v \in Worker : page'[v][e] \in {page[v][e], -1}
      BY <2>3 DEF UnindexedAmong, TypeOK
    <3>3. \A e \in documents \ late : e \in Doc BY DEF TypeOK
    <3>4. \A e \in documents \ late, v \in Worker : page'[v][e] <= snapSeq[e]
      BY <3>2, <3>3, SeqTypes DEF NotAhead
    <3> QED BY <3>1, <3>4, SameContent DEF NotAhead, TextServesRow
  <2>4. CASE EnqueueMany(w)
    <3>1. /\ UNCHANGED <<snapSeq, snapText, idxSeq, idxText, late>> /\ documents' = documents
          /\ pc' = pc /\ rows' = rows /\ texts' = texts
      BY <2>4 DEF EnqueueMany, rtcdb, idx, sweep
    <3>2. \A e \in documents \ late : queue'[e] \in {queue[e], page[w][e]}
      BY <2>4 DEF EnqueueMany, TypeOK
    <3>3. \A e \in documents \ late, v \in Worker : page'[v][e] \in {page[v][e], -1}
      BY <2>4 DEF EnqueueMany, Nothing, TypeOK
    <3>4. \A e \in documents \ late : e \in Doc BY DEF TypeOK
    <3>5. \A e \in documents \ late, v \in Worker : queue'[e] <= snapSeq[e] /\ page'[v][e] <= snapSeq[e]
      BY <3>2, <3>3, <3>4, SeqTypes DEF NotAhead
    <3> QED BY <3>1, <3>2, <3>5, SameContent DEF NotAhead, TextServesRow
  <2> QED BY <1>4, <2>1, <2>2, <2>3, <2>4 DEF BootStep
<1>5. ASSUME NEW w \in Worker, StartSweep(w) PROVE ContentInv'
  BY <1>5, SameContent DEF StartSweep, NotAhead, TextServesRow, TypeOK, rtcdb, idx
<1>6. ASSUME NEW w \in Worker, Claim(w) PROVE ContentInv'
  <2>1. /\ UNCHANGED <<snapSeq, snapText, idxSeq, idxText, late>> /\ documents' = documents
        /\ queue' = queue /\ page' = page /\ texts' = texts
        /\ \A v \in Worker : v # w => pc'[v] = pc[v] /\ rows'[v] = rows[v]
        /\ pc'[w] # "apply"
    BY <1>6 DEF Claim, TypeOK, rtcdb, idx
  <2>2. \A e \in documents \ late, v \in Worker : rows'[v][e] \in {rows[v][e], queue[e], -1}
    BY <1>6 DEF Claim, TypeOK
  <2>3. \A e \in documents \ late : e \in Doc BY DEF TypeOK
  <2>4. \A e \in documents \ late, v \in Worker : rows'[v][e] <= snapSeq[e]
    BY <2>2, <2>3, SeqTypes DEF NotAhead
  <2>5. \A e \in documents \ late, v \in Worker : TextServesRow(v, e)'
    BY <2>1 DEF TextServesRow
  <2> QED BY <2>1, <2>4, <2>5, SameContent DEF NotAhead
<1>7. ASSUME NEW w \in Worker, Read(w) PROVE ContentInv'
  <2>1. /\ UNCHANGED <<snapSeq, snapText, idxSeq, idxText, late>> /\ documents' = documents
        /\ queue' = queue /\ page' = page /\ rows' = rows
        /\ \A v \in Worker : v # w => pc'[v] = pc[v] /\ texts'[v] = texts[v]
    BY <1>7 DEF Read, TypeOK, rtcdb, idx
  <2>2. \A e \in documents \ late : e \in Doc /\ (rows[w][e] # -1 => texts'[w][e] = snapText[e])
    BY <1>7 DEF Read, TypeOK
  <2>3. ASSUME NEW e \in documents \ late, NEW v \in Worker PROVE TextServesRow(v, e)'
    <3>1. CASE v = w BY <2>1, <2>2, <3>1, SeqTypes DEF NotAhead, TextServesRow
    <3>2. CASE v # w BY <2>1, <3>2 DEF TextServesRow
    <3> QED BY <3>1, <3>2
  <2> QED BY <2>1, <2>3, SameContent DEF NotAhead
<1>8. ASSUME NEW w \in Worker, Apply(w) PROVE ContentInv'
  <2>1. /\ UNCHANGED <<snapSeq, snapText, late>> /\ documents' = documents
        /\ queue' = queue /\ page' = page /\ rows' = rows /\ pc[w] = "apply"
        /\ \A v \in Worker : v # w => pc'[v] = pc[v] /\ texts'[v] = texts[v]
        /\ pc'[w] # "apply"
    BY <1>8 DEF Apply, TypeOK, rtcdb
  <2>2. ASSUME NEW e \in documents \ late
        PROVE  /\ idxSeq'[e] <= idxText'[e] /\ idxSeq'[e] <= snapSeq[e]
               /\ (idxSeq'[e] = snapSeq[e] => idxText'[e] = snapText[e])
    <3>1. CASE idxSeq'[e] = idxSeq[e] /\ idxText'[e] = idxText[e]
      BY <3>1 DEF IndexedTextIsAtSeq, IndexedIsCurrent, NotAhead
    <3>2. CASE /\ texts[w][e] # 0 /\ idxSeq[e] < rows[w][e]
               /\ idxSeq'[e] = rows[w][e] /\ idxText'[e] = texts[w][e]
      <4>1. e \in Doc BY DEF TypeOK
      <4>2. rows[w][e] # -1 BY <3>2, <4>1, SeqTypes
      <4> QED BY <2>1, <3>2, <4>2 DEF TextServesRow, NotAhead
    <3> QED BY <1>8, <3>1, <3>2, ApplyWrites
  <2>3. \A e \in documents \ late, v \in Worker : TextServesRow(v, e)'
    BY <2>1 DEF TextServesRow
  <2>4. \A e \in documents \ late : NotAhead(e)' BY <2>1, <2>2 DEF NotAhead
  <2> QED BY <2>1, <2>2, <2>3, <2>4 DEF IndexedTextIsAtSeq, IndexedIsCurrent
<1>9. ASSUME NEW w \in Worker, DeleteStale(w) \/ SweepFails(w) \/ WorkerCrash(w) \/ BackfillFails(w)
      PROVE ContentInv'
  <2>1. UNCHANGED <<snapSeq, snapText, idxSeq, idxText, late>> /\ documents' = documents
    BY <1>9 DEF DeleteStale, SweepFails, WorkerCrash, BackfillFails, rtcdb, idx
  <2>2. \A e \in documents \ late : e \in Doc BY DEF TypeOK
  <2>3. \A e \in documents \ late : queue'[e] \in {queue[e], -1}
    BY <1>9, <2>2 DEF DeleteStale, SweepFails, WorkerCrash, BackfillFails, TypeOK
  <2>4. \A e \in documents \ late, v \in Worker : rows'[v][e] \in {rows[v][e], -1}
    BY <1>9, <2>2 DEF DeleteStale, SweepFails, WorkerCrash, BackfillFails, Nothing, TypeOK, sweep
  <2>5. \A e \in documents \ late, v \in Worker : page'[v][e] \in {page[v][e], -1}
    BY <1>9, <2>2 DEF DeleteStale, SweepFails, WorkerCrash, BackfillFails, Nothing, TypeOK
  <2>6. ASSUME NEW e \in documents \ late, NEW v \in Worker PROVE TextServesRow(v, e)'
    <3>1. \/ pc'[v] # "apply"
          \/ pc'[v] = pc[v] /\ rows'[v] = rows[v] /\ texts'[v] = texts[v]
      BY <1>9 DEF DeleteStale, SweepFails, WorkerCrash, BackfillFails, TypeOK, sweep
    <3> QED BY <2>1, <3>1 DEF TextServesRow
  <2>7. \A e \in documents \ late : queue'[e] <= snapSeq[e]
    BY <2>2, <2>3, SeqTypes DEF NotAhead
  <2>8. \A e \in documents \ late, v \in Worker : page'[v][e] <= snapSeq[e] /\ rows'[v][e] <= snapSeq[e]
    BY <2>2, <2>4, <2>5, SeqTypes DEF NotAhead
  <2> QED BY <2>1, <2>6, <2>7, <2>8, SameContent
<1>10. CASE UNCHANGED vars
  BY <1>10, SameContent DEF vars, NotAhead, TextServesRow, rtcdb, idx, sweep
<1> QED
  BY <1>1, <1>2, <1>3, <1>4, <1>5, <1>6, <1>7, <1>8, <1>9, <1>10 DEF Next, SweepStep

\* The inductive invariant holds in every reachable state.
THEOREM Invariant == Spec => []IInv
<1>1. Init => TypeOK /\ IInv BY InitType, InitServed, InitContent DEF IInv
<1>2. (TypeOK /\ IInv) /\ [Next]_vars => (TypeOK /\ IInv)'
  BY NextType, NextServed, NextContent, ConstantsAssumption DEF IInv, ConstantsAssumption
<1> QED BY <1>1, <1>2, PTL DEF Spec

\* But for documents a snapshot of which committed late, the indexed text holds
\* all that its content_seq stands for, and is the snapshot's own once the index is
\* at the snapshot's seq: whichever worker read it, and however late it writes
\* (search-index-writer.ts:22-59).
THEOREM IndexedText == Spec => [](IndexedTextIsAtSeq /\ IndexedIsCurrent)
<1>1. IInv => IndexedTextIsAtSeq /\ IndexedIsCurrent BY DEF IInv, ContentInv
<1> QED BY <1>1, Invariant, PTL

\* What leaves the index of a document alone.
LEMMA OnlyApplyWrites ==
  ASSUME [Next]_vars, ~ \E w \in Worker : Apply(w)
  PROVE  UNCHANGED idx /\ documents' \subseteq documents
<1>1. ASSUME NEW w \in Worker, BootStep(w) PROVE UNCHANGED <<idx, documents>>
  BY <1>1 DEF BootStep, Start, ListSnapshots, UnindexedAmong, EnqueueMany
<1>2. ASSUME NEW w \in Worker, SweepStep(w) PROVE UNCHANGED <<idx, documents>>
  BY <1>2 DEF SweepStep, StartSweep, Claim, Read, DeleteStale
<1>3. ASSUME NEW w \in Worker, BackfillFails(w) \/ WorkerCrash(w) \/ SweepFails(w)
      PROVE  UNCHANGED <<idx, documents>>
  BY <1>3 DEF BackfillFails, WorkerCrash, SweepFails
<1>4. ASSUME NEW d \in Doc, DeleteDocument(d) \/ DeleteSnapshot(d)
      PROVE  UNCHANGED idx /\ documents' \subseteq documents
  BY <1>4 DEF DeleteDocument, DeleteSnapshot
<1>5. ASSUME NEW d \in Doc, NEW seq \in 1 .. MaxSeq, NEW text \in 1 .. MaxSeq, Flush(d, seq, text)
      PROVE  UNCHANGED <<idx, documents>>
  BY <1>5 DEF Flush
<1>6. CASE UNCHANGED vars BY <1>6 DEF vars
<1> QED BY <1>1, <1>2, <1>3, <1>4, <1>5, <1>6 DEF Next

\* No step takes back what the index of a document has.
LEMMA StepKeepsUpdates ==
  ASSUME TypeOK, ContentInv, [Next]_vars, NEW d \in documents' \ late'
  PROVE  idxSeq[d] <= idxSeq'[d] /\ idxSeq[d] <= idxText'[d]
<1>1. CASE \E w \in Worker : Apply(w)
  <2>1. PICK w \in Worker : Apply(w) BY <1>1
  <2>2. pc[w] = "apply" /\ documents' = documents /\ late' = late BY <2>1 DEF Apply
  <2>3. d \in documents /\ d \notin late BY <2>2
  <2>4. idxSeq[d] <= idxText[d] BY <2>3 DEF ContentInv, IndexedTextIsAtSeq
  <2>5. rows[w][d] # -1 => rows[w][d] <= texts[w][d]
    BY <2>2, <2>3 DEF ContentInv, TextServesRow
  <2> QED BY <2>1, <2>3, <2>4, <2>5, ApplyWrites, SeqTypes
<1>2. CASE ~ \E w \in Worker : Apply(w)
  <2>1. idxSeq' = idxSeq /\ idxText' = idxText /\ d \in documents
    BY <1>2, OnlyApplyWrites DEF idx
  <2>2. late \subseteq late'
    BY DEF Next, vars, BootStep, SweepStep, Start, ListSnapshots, UnindexedAmong, EnqueueMany,
           StartSweep, Claim, Read, Apply, DeleteStale, BackfillFails, WorkerCrash, SweepFails,
           DeleteDocument, DeleteSnapshot, Flush
  <2>3. idxSeq[d] <= idxText[d] BY <2>1, <2>2 DEF ContentInv, IndexedTextIsAtSeq
  <2>4. idxSeq[d] \in Int BY <2>1, SeqTypes DEF TypeOK
  <2> QED BY <2>1, <2>3, <2>4
<1> QED BY <1>1, <1>2

\* The index never loses updates it once had, however many workers hold rows of one
\* document and whichever of them writes last: neither its seq nor its text goes
\* back, but for documents a snapshot of which committed late
\* (guard G3, search-indexing.md:182-186; search-index-writer.ts:22-59).
THEOREM IndexNeverGoesBack == Spec => IndexKeepsUpdates
<1>1. ASSUME TypeOK, IInv, [Next]_vars
      PROVE  [\A d \in documents' \ late' : idxSeq[d] <= idxSeq'[d] /\ idxSeq[d] <= idxText'[d]]_vars
  BY <1>1, StepKeepsUpdates DEF IInv
<1> QED BY <1>1, TypeCorrect, Invariant, PTL DEF Spec, IndexKeepsUpdates

\* The store and the index are well formed, a document that lags is queued, and
\* what the index says of a document's text is at its seq (doc-repository.service.ts:128-173).
THEOREM InductiveHolds == Spec => []Inductive
BY TypeCorrect, Invariant, PTL DEF Inductive
=============================================================================
