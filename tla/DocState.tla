------------------------------ MODULE DocState ------------------------------
(***************************************************************************)
(* The persistence of one collaborative document in the rtc server:        *)
(* DocStateService over DocRepository, driven by y-websocket.              *)
(*                                                                         *)
(* Yjs updates merge by union, so a Y.Doc, a snapshot and an update blob   *)
(* are sets of updates.  The server is single threaded: a step runs from   *)
(* one await to the next.  A "binding" is one Y.Doc that y-websocket       *)
(* creates for the document, with the docState entry bindState makes for   *)
(* it; a reconnect while the previous writeState is still running makes    *)
(* two bindings overlap.                                                   *)
(***************************************************************************)
EXTENDS Integers, Sequences, FiniteSets

CONSTANTS
  Update,      \* the Yjs updates clients may make
  Legacy,      \* updates of a snapshot that predates the update log
  AuthorOf,    \* AuthorOf[u]: the client (origin, sub) an update comes from
  Binding,     \* bindings: one per cold load of the document
  None,        \* "no binding"
  MaxSeq,      \* bound on the sequence numbers of the update log
  MaxFaults,   \* bound on failing database calls
  Overlap      \* TRUE: a client may reconnect while writeState still runs

ASSUME ConstantsAssumption ==
  /\ Legacy \subseteq Update
  /\ DOMAIN AuthorOf = Update
  /\ None \notin Binding
  /\ MaxSeq \in Nat
  /\ MaxFaults \in Nat
  /\ Overlap \in BOOLEAN

VARIABLES
  \* the database
  snap,        \* rtc_documents.yjs_state
  snapSeq,     \* rtc_documents.snapshot_at_seq
  log,         \* rtc_document_updates: seq -> blob, {} where there is no row
  head,        \* max(seq) of rtc_document_updates
  merged,      \* the seqs whose row has no single author any more
  outbox,      \* stale_documents.seq, 0 when there is no row
  \* the server's memory
  live,        \* the binding in y-websocket's docs map
  current,     \* the binding whose entry is in the docState map
  phase,       \* per binding: where bindState is
  ydoc,        \* per binding: content of the Y.Doc
  loadSeq,     \* per binding: snapshotAtSeq read by bindState
  loadHead,    \* per binding: head read last by bindState
  snapAt,      \* per entry: state.snapshotAtSeq
  lastApp,     \* per entry: state.lastAppendedSeq
  pend,        \* per entry: state.pendingAppend
  dirty,       \* per entry: state.dirty
  timers,      \* per entry: state.idleTimer and state.maxTimer
  chain,       \* chains: appends enqueued and not yet done
  done,        \* appends of the chain that have settled
  job,         \* the asynchronous calls in progress
  \* history
  taken,       \* updates the server has accepted from clients
  logged,      \* updates some row of the log has ever held
  lost,        \* updates only a crashed server's memory held
  faults

db     == <<snap, snapSeq, log, head, merged, outbox>>
bind   == <<phase, loadSeq, loadHead>>
entry  == <<snapAt, lastApp, pend, dirty, timers>>
queue  == <<chain, done>>
ghost  == <<taken, logged, lost>>
vars   == <<db, live, current, bind, ydoc, entry, queue, job, ghost, faults>>

Seqs == 1 .. MaxSeq

(***************************************************************************)
(* flush runs once per entry (state.flushing), the checkpoint of the       *)
(* interval timer or of forceCheckpoint once per entry, writeState once    *)
(* per binding.                                                            *)
(***************************************************************************)
Proc == {"flush", "timer", "close"} \X Binding

Idle == [pc |-> "idle", ent |-> None, on |-> None, target |-> 0, seq |-> 0, blob |-> {}]

Phases == {"unused", "snapshot", "head", "tail", "seed", "last", "set",
           "bound", "failed", "dead"}

Steps == {"idle", "drain", "write", "resume", "flush", "await", "compact", "settle"}

\* A timer that fired keeps its handle until a flush clears it; the idle timer
\* is set anew by every edit, the max timer only when its handle is null.
NoTimers == [idle |-> FALSE, max |-> "null"]
Timers   == [idle : BOOLEAN, max : {"null", "set", "fired"}]

\* ent: the entry captured at the start; on: the entry whose flush writeState
\* awaits; target: the appends drain waits for; seq, blob: what is written.
Jobs == [pc : Steps, ent : Binding \cup {None}, on : Binding \cup {None},
         target : Nat, seq : 0 .. MaxSeq, blob : SUBSET Update]

\* Who drains, writes or resumes does so for some entry.
NeedsEntry == {"drain", "write", "resume"}

JobsOK ==
  /\ job \in [Proc -> Jobs]
  /\ \A p \in Proc : job[p].pc \in NeedsEntry => job[p].ent # None

TypeOK ==
  /\ snap \subseteq Update /\ snapSeq \in 0 .. MaxSeq
  /\ log \in [Seqs -> SUBSET Update] /\ head \in 0 .. MaxSeq
  /\ merged \subseteq Seqs /\ outbox \in 0 .. MaxSeq
  /\ live \in Binding \cup {None} /\ current \in Binding \cup {None}
  /\ phase \in [Binding -> Phases]
  /\ ydoc \in [Binding -> SUBSET Update]
  /\ loadSeq \in [Binding -> 0 .. MaxSeq] /\ loadHead \in [Binding -> 0 .. MaxSeq]
  /\ snapAt \in [Binding -> 0 .. MaxSeq] /\ lastApp \in [Binding -> 0 .. MaxSeq]
  /\ pend \in [Binding -> SUBSET Update]
  /\ dirty \in [Binding -> BOOLEAN] /\ timers \in [Binding -> Timers]
  /\ chain \in Seq(SUBSET Update) /\ done \in Nat
  /\ JobsOK
  /\ taken \subseteq Update /\ logged \subseteq Update /\ lost \subseteq Update
  /\ faults \in 0 .. MaxFaults

(***************************************************************************)
(* What a cold load reads from the database: the snapshot and the tail of  *)
(* the log.                                                                *)
(***************************************************************************)
TailAfter(s) == UNION {log[q] : q \in {r \in Seqs : r > s}}
Recovered    == snap \cup TailAfter(snapSeq)

Init ==
  /\ snap = Legacy /\ snapSeq = 0
  /\ log = [s \in Seqs |-> {}] /\ head = 0 /\ merged = {} /\ outbox = 0
  /\ live = None /\ current = None
  /\ phase = [b \in Binding |-> "unused"]
  /\ ydoc = [b \in Binding |-> {}]
  /\ loadSeq = [b \in Binding |-> 0] /\ loadHead = [b \in Binding |-> 0]
  /\ snapAt = [b \in Binding |-> 0] /\ lastApp = [b \in Binding |-> 0]
  /\ pend = [b \in Binding |-> {}]
  /\ dirty = [b \in Binding |-> FALSE] /\ timers = [b \in Binding |-> NoTimers]
  /\ chain = << >> /\ done = 0
  /\ job = [p \in Proc |-> Idle]
  /\ taken = Legacy /\ logged = {} /\ lost = {}
  /\ faults = 0
-----------------------------------------------------------------------------
(***************************************************************************)
(* Helpers.                                                                *)
(***************************************************************************)
\* Mutation: waits for one append more than were enqueued.
DrainedLate(p) == done > job[p].target

Drained(p) == done >= job[p].target

\* flushPendingAppend: the buffered updates of the current entry, as one blob,
\* go to the end of the chain.
Pending == IF current = None THEN {} ELSE pend[current]

\* Mutation: the buffer is cleared first, and then appended.
FlushPendingCleared ==
  /\ chain' = chain
  /\ pend' = IF current = None THEN pend ELSE [pend EXCEPT ![current] = {}]

FlushPending ==
  /\ chain' = IF Pending = {} THEN chain ELSE Append(chain, Pending)
  /\ pend' = IF current = None THEN pend ELSE [pend EXCEPT ![current] = {}]

\* drain: the buffer first, then wait for the chain as it is now.
Target == done + Len(chain) + (IF Pending = {} THEN 0 ELSE 1)

StartJob(p, e, pc) ==
  job' = [job EXCEPT ![p] = [Idle EXCEPT !.pc = pc, !.ent = e, !.target = Target]]

Fault == faults < MaxFaults /\ faults' = faults + 1

\* appendDocUpdate: the blob becomes the row after the last one.
AppendRow(blob) ==
  /\ head < MaxSeq
  /\ log' = [log EXCEPT ![head + 1] = blob]
  /\ head' = head + 1
  /\ logged' = logged \cup blob
  /\ UNCHANGED <<snap, snapSeq, outbox>>
-----------------------------------------------------------------------------
(***************************************************************************)
(* Opening the document: getYDoc and bindState.                            *)
(***************************************************************************)
Quiet ==
  /\ current = None
  /\ chain = << >>
  /\ \A b \in Binding : job[<<"close", b>>].pc = "idle"

\* The first client of a document that is not in the docs map.
Open(b) ==
  /\ live = None
  /\ phase[b] = "unused"
  /\ Overlap \/ Quiet
  /\ live' = b
  /\ phase' = [phase EXCEPT ![b] = "snapshot"]
  /\ UNCHANGED <<db, current, loadSeq, loadHead, ydoc, entry, queue, job, ghost, faults>>

LoadSnapshot(b) ==
  /\ phase[b] = "snapshot"
  /\ loadSeq' = [loadSeq EXCEPT ![b] = snapSeq]
  /\ ydoc' = [ydoc EXCEPT ![b] = snap]
  /\ phase' = [phase EXCEPT ![b] = "head"]
  /\ UNCHANGED <<db, live, current, loadHead, entry, queue, job, ghost, faults>>

\* Mutation: a document with a snapshot is loaded without its tail.
LoadHeadTrustsSnapshot(b) ==
  /\ phase[b] = "head"
  /\ loadHead' = [loadHead EXCEPT ![b] = head]
  /\ phase' = [phase EXCEPT ![b] =
       IF head > 0 /\ loadSeq[b] = 0 THEN "tail"
       ELSE IF head = 0 /\ ydoc[b] # {} THEN "seed" ELSE "last"]
  /\ UNCHANGED <<db, live, current, loadSeq, ydoc, entry, queue, job, ghost, faults>>

LoadHead(b) ==
  /\ phase[b] = "head"
  /\ loadHead' = [loadHead EXCEPT ![b] = head]
  /\ phase' = [phase EXCEPT ![b] =
       IF head > loadSeq[b] THEN "tail"
       ELSE IF head = 0 /\ ydoc[b] # {} THEN "seed" ELSE "last"]
  /\ UNCHANGED <<db, live, current, loadSeq, ydoc, entry, queue, job, ghost, faults>>

\* Mutation: the tail starts one row late.
LoadTailLate(b) ==
  /\ phase[b] = "tail"
  /\ ydoc' = [ydoc EXCEPT ![b] = @ \cup TailAfter(loadSeq[b] + 1)]
  /\ phase' = [phase EXCEPT ![b] = "last"]
  /\ UNCHANGED <<db, live, current, loadSeq, loadHead, entry, queue, job, ghost, faults>>

LoadTail(b) ==
  /\ phase[b] = "tail"
  /\ ydoc' = [ydoc EXCEPT ![b] = @ \cup TailAfter(loadSeq[b])]
  /\ phase' = [phase EXCEPT ![b] = "last"]
  /\ UNCHANGED <<db, live, current, loadSeq, loadHead, entry, queue, job, ghost, faults>>

\* A snapshot without a log gets a first row; a failure is logged and ignored.
Seed(b) ==
  /\ phase[b] = "seed"
  /\ phase' = [phase EXCEPT ![b] = "last"]
  /\ \/ /\ AppendRow(ydoc[b])
        /\ merged' = merged \cup {head + 1}
        /\ UNCHANGED <<taken, lost, faults>>
     \/ /\ Fault
        /\ UNCHANGED <<db, ghost>>
  /\ UNCHANGED <<live, current, loadSeq, loadHead, ydoc, entry, queue, job>>

LoadLast(b) ==
  /\ phase[b] = "last"
  /\ loadHead' = [loadHead EXCEPT ![b] = head]
  /\ phase' = [phase EXCEPT ![b] = "set"]
  /\ UNCHANGED <<db, live, current, loadSeq, ydoc, entry, queue, job, ghost, faults>>

\* docState.set replaces whatever entry the map holds; the update handler is
\* registered and the waiting clients are let in.
Bind(b) ==
  /\ phase[b] = "set"
  /\ current' = b
  /\ phase' = [phase EXCEPT ![b] = "bound"]
  /\ snapAt' = [snapAt EXCEPT ![b] = loadSeq[b]]
  /\ lastApp' = [lastApp EXCEPT ![b] = loadHead[b]]
  /\ pend' = [pend EXCEPT ![b] = {}]
  /\ dirty' = [dirty EXCEPT ![b] = FALSE]
  /\ timers' = [timers EXCEPT ![b] = NoTimers]
  /\ UNCHANGED <<db, live, loadSeq, loadHead, ydoc, queue, job, ghost, faults>>

\* trackLoad swallows the error: the clients are let in all the same, on a
\* Y.Doc without an update handler.
LoadFails(b) ==
  /\ phase[b] \in {"snapshot", "head", "tail", "last"}
  /\ Fault
  /\ phase' = [phase EXCEPT ![b] = "failed"]
  /\ UNCHANGED <<db, live, current, loadSeq, loadHead, ydoc, entry, queue, job, ghost>>
-----------------------------------------------------------------------------
(***************************************************************************)
(* Editing: the update handler, the coalescing buffer and the append chain.*)
(***************************************************************************)

\* One author per buffer: another author's updates go to the chain first.
Coalesces(u) == \A v \in pend[current] : AuthorOf[v] = AuthorOf[u]

\* Mutation: a buffer that reached its bound is cleared but not appended.
BufferOverflows(u) ==
  \/ chain' = chain /\ pend' = [pend EXCEPT ![current] = @ \cup {u}]
  \/ chain' = chain /\ pend' = [pend EXCEPT ![current] = {}]

\* bufferAppend with an entry.  The buffer is appended at once when it
\* reaches its bound on updates or bytes.
Buffer(u) ==
  LET queued == IF Coalesces(u) THEN chain ELSE Append(chain, pend[current])
      buffer == IF Coalesces(u) THEN pend[current] \cup {u} ELSE {u}
  IN  \/ /\ chain' = queued
         /\ pend' = [pend EXCEPT ![current] = buffer]
      \/ /\ chain' = Append(queued, buffer)
         /\ pend' = [pend EXCEPT ![current] = {}]

\* scheduleFlush: dirty, idle timer restarted, max timer set if it was not.
ScheduleFlush ==
  /\ dirty' = [dirty EXCEPT ![current] = TRUE]
  /\ timers' = [timers EXCEPT ![current].idle = TRUE,
                              ![current].max = IF @ = "null" THEN "set" ELSE @]

\* A client's update reaches the Y.Doc of a bound document.
Edit(b, u) ==
  /\ live = b /\ phase[b] = "bound"
  /\ u \notin taken
  /\ current # None
  /\ ydoc' = [ydoc EXCEPT ![b] = @ \cup {u}]
  /\ taken' = taken \cup {u}
  /\ Buffer(u)
  /\ ScheduleFlush
  /\ UNCHANGED <<db, live, current, bind, snapAt, lastApp, done, job, logged, lost, faults>>

\* The load failed: nobody listens to the Y.Doc's updates.
EditUnheard(b, u) ==
  /\ live = b /\ phase[b] = "failed"
  /\ u \notin taken
  /\ ydoc' = [ydoc EXCEPT ![b] = @ \cup {u}]
  /\ taken' = taken \cup {u}
  /\ UNCHANGED <<db, live, current, bind, entry, queue, job, logged, lost, faults>>

\* The coalescing timer.
CoalesceTimer ==
  /\ Pending # {}
  /\ FlushPending
  /\ UNCHANGED <<db, live, current, bind, ydoc, snapAt, lastApp, dirty, timers,
                 done, job, ghost, faults>>

\* The chain's first append commits; the entry that is current then learns
\* its seq.
AppendCommits ==
  /\ chain # << >>
  /\ AppendRow(Head(chain))
  /\ chain' = Tail(chain)
  /\ done' = done + 1
  /\ lastApp' = IF current = None THEN lastApp ELSE [lastApp EXCEPT ![current] = head + 1]
  /\ UNCHANGED <<merged, live, current, bind, ydoc, snapAt, pend, dirty, timers,
                 job, taken, lost, faults>>

\* A failing append is logged; its blob is gone from the chain.
AppendFails ==
  /\ chain # << >>
  /\ Fault
  /\ chain' = Tail(chain)
  /\ done' = done + 1
  /\ UNCHANGED <<db, live, current, bind, ydoc, entry, job, ghost>>
-----------------------------------------------------------------------------
(***************************************************************************)
(* Snapshots: flush and writeCheckpoint share drain, encode, write.        *)
(***************************************************************************)
CanFlush(e) == e # None /\ job[<<"flush", e>>].pc = "idle" /\ dirty[e]

\* flush of the current entry up to its first await.
BeginFlush ==
  /\ FlushPending
  /\ dirty' = [dirty EXCEPT ![current] = FALSE]

\* What is left of an entry's timers when one of them fires.
Fired(t) ==
  {x \in Timers :
     \/ t.idle /\ x = [t EXCEPT !.idle = FALSE]
     \/ t.max = "set" /\ x = [t EXCEPT !.max = "fired"]}

\* An idle or max timer of some entry fires: it flushes the current one, or
\* finds nothing to do (no dirty entry, or a flush still running).
FlushTimer(e) ==
  /\ \E t \in Fired(timers[e]) :
       IF CanFlush(current)
       THEN /\ BeginFlush
            /\ StartJob(<<"flush", current>>, current, "drain")
            /\ timers' = [timers EXCEPT ![e] = t, ![current] = NoTimers]
       ELSE /\ timers' = [timers EXCEPT ![e] = t]
            /\ UNCHANGED <<pend, dirty, chain, job>>
  /\ UNCHANGED <<db, live, current, bind, ydoc, snapAt, lastApp, done, ghost, faults>>

\* The interval timer or forceCheckpoint starts writeCheckpoint.
Checkpoint ==
  /\ current # None
  /\ job[<<"timer", current>>].pc = "idle"
  /\ FlushPending
  /\ StartJob(<<"timer", current>>, current, "drain")
  /\ UNCHANGED <<db, live, current, bind, ydoc, snapAt, lastApp, dirty, timers,
                 done, ghost, faults>>

\* What follows the snapshot: writeState goes on, the others are finished.
After(p) ==
  IF p[1] = "close" THEN [job[p] EXCEPT !.pc = "flush", !.seq = 0, !.blob = {}] ELSE Idle

\* After drain: nothing to do when the entry's snapshot is at its last seq,
\* else the seq is taken and the Y.Doc encoded.
Encode(p) ==
  LET e == job[p].ent IN
  /\ job[p].pc = "drain" /\ Drained(p)
  /\ job' = [job EXCEPT ![p] =
       IF lastApp[e] = snapAt[e] THEN After(p)
       ELSE [@ EXCEPT !.pc = "write", !.seq = lastApp[e], !.blob = ydoc[e]]]
  /\ UNCHANGED <<db, live, current, bind, ydoc, entry, queue, ghost, faults>>

\* Mutation: the snapshot is labelled with the head of the log.
CommitAtHead(p) ==
  /\ job[p].pc = "write"
  /\ snap' = job[p].blob
  /\ snapSeq' = head
  /\ outbox' = head
  /\ job' = [job EXCEPT ![p].pc = "resume"]
  /\ UNCHANGED <<log, head, merged, live, current, bind, ydoc, entry, queue, ghost, faults>>

\* persistRtcDoc / writeSnapshotCheckpoint: snapshot and stale_documents row
\* in one transaction.
Commit(p) ==
  /\ job[p].pc = "write"
  /\ snap' = job[p].blob
  /\ snapSeq' = job[p].seq
  /\ outbox' = job[p].seq
  /\ job' = [job EXCEPT ![p].pc = "resume"]
  /\ UNCHANGED <<log, head, merged, live, current, bind, ydoc, entry, queue, ghost, faults>>

\* The seq the entry records after the write: flush keeps the one it wrote,
\* writeCheckpoint reads lastAppendedSeq again.
SeqWritten(p) == IF p[1] = "flush" THEN job[p].seq ELSE lastApp[job[p].ent]

Resume(p) ==
  /\ job[p].pc = "resume"
  /\ snapAt' = [snapAt EXCEPT ![job[p].ent] = SeqWritten(p)]
  /\ job' = [job EXCEPT ![p] = After(p)]
  /\ UNCHANGED <<db, live, current, bind, ydoc, lastApp, pend, dirty, timers, queue,
                 ghost, faults>>

\* The write fails: flush sets dirty again (and no timer), writeCheckpoint
\* only logs.
WriteFails(p) ==
  /\ job[p].pc = "write"
  /\ Fault
  /\ dirty' = IF p[1] = "flush" THEN [dirty EXCEPT ![job[p].ent] = TRUE] ELSE dirty
  /\ job' = [job EXCEPT ![p] = After(p)]
  /\ UNCHANGED <<db, live, current, bind, ydoc, snapAt, lastApp, pend, timers, queue, ghost>>
-----------------------------------------------------------------------------
(***************************************************************************)
(* Closing the document: writeState.                                       *)
(***************************************************************************)

\* The last client leaves: y-websocket calls writeState and forgets the doc.
Close(b) ==
  /\ live = b /\ phase[b] \in {"bound", "failed"}
  /\ live' = None
  /\ phase' = [phase EXCEPT ![b] = "dead"]
  /\ FlushPending
  /\ StartJob(<<"close", b>>, current, IF current = None THEN "compact" ELSE "drain")
  /\ UNCHANGED <<db, current, loadSeq, loadHead, ydoc, snapAt, lastApp, dirty, timers,
                 done, ghost, faults>>

\* flush(docName, "writeState") on whatever entry is current now; one that is
\* already running is awaited.
CloseFlush(b) ==
  LET p == <<"close", b>> IN
  /\ job[p].pc = "flush"
  /\ IF CanFlush(current)
     THEN /\ BeginFlush
          /\ timers' = [timers EXCEPT ![current] = NoTimers]
          /\ job' = [job EXCEPT ![p].pc = "await", ![p].on = current,
                                ![<<"flush", current>>] =
                       [Idle EXCEPT !.pc = "drain", !.ent = current, !.target = Target]]
     ELSE /\ job' = [job EXCEPT ![p].pc = IF current = None THEN "compact" ELSE "await",
                                ![p].on = current]
          /\ UNCHANGED <<chain, pend, dirty, timers>>
  /\ UNCHANGED <<db, live, current, bind, ydoc, snapAt, lastApp, done, ghost, faults>>

CloseAwaitsFlush(b) ==
  LET p == <<"close", b>> IN
  /\ job[p].pc = "await"
  /\ job[<<"flush", job[p].on>>].pc = "idle"
  /\ job' = [job EXCEPT ![p].pc = "compact"]
  /\ UNCHANGED <<db, live, current, bind, ydoc, entry, queue, ghost, faults>>

\* Mutation: the merged rows are deleted, the last one keeps its own blob.
CompactDrops(S) ==
  \E last \in S :
    /\ \A s \in S : s <= last /\ s <= snapSeq /\ log[s] # {}
    /\ log' = [s \in Seqs |-> IF s \in S \ {last} THEN {} ELSE log[s]]
    /\ merged' = merged \cup {last}
    /\ UNCHANGED <<snap, snapSeq, head, outbox>>

\* Mutation: the merged row takes the first seq.
CompactToFirst(S) ==
  \E first \in S :
    /\ \A s \in S : first <= s /\ s <= snapSeq /\ log[s] # {}
    /\ log' = [s \in Seqs |-> IF s = first THEN UNION {log[r] : r \in S}
                              ELSE IF s \in S THEN {} ELSE log[s]]
    /\ merged' = merged \cup {first}
    /\ UNCHANGED <<snap, snapSeq, head, outbox>>

\* One compaction: rows at or below the snapshot's seq become one row at the
\* largest of their seqs (the module Compaction has its steps).
Compact(S) ==
  \E last \in S :
    /\ \A s \in S : s <= last /\ s <= snapSeq /\ log[s] # {}
    /\ log' = [s \in Seqs |-> IF s = last THEN UNION {log[r] : r \in S}
                              ELSE IF s \in S THEN {} ELSE log[s]]
    /\ merged' = merged \cup {last}
    /\ UNCHANGED <<snap, snapSeq, head, outbox>>

Mergeable == {S \in SUBSET Seqs : Cardinality(S) > 1}

CloseCompacts(b) ==
  LET p == <<"close", b>> IN
  /\ job[p].pc = "compact"
  /\ \/ \E S \in Mergeable : Compact(S)
     \/ UNCHANGED db
  /\ FlushPending
  /\ job' = [job EXCEPT ![p].pc = "settle", ![p].target = Target]
  /\ UNCHANGED <<live, current, bind, ydoc, snapAt, lastApp, dirty, timers, done,
                 ghost, faults>>

\* Mutation: evicts whatever entry the map holds.
CloseEvictsAny(b) ==
  LET p == <<"close", b>> IN
  /\ job[p].pc = "settle" /\ Drained(p)
  /\ current' = None
  /\ timers' = IF current = None THEN timers ELSE [timers EXCEPT ![current] = NoTimers]
  /\ job' = [job EXCEPT ![p] = Idle]
  /\ UNCHANGED <<db, live, bind, ydoc, snapAt, lastApp, pend, dirty, queue, ghost, faults>>

\* Evict, unless a reconnect has replaced the entry.
CloseEvicts(b) ==
  LET p == <<"close", b>> IN
  /\ job[p].pc = "settle" /\ Drained(p)
  /\ IF job[p].ent # None /\ current = job[p].ent
     THEN /\ current' = None
          /\ timers' = [timers EXCEPT ![job[p].ent] = NoTimers]
     ELSE UNCHANGED <<current, timers>>
  /\ job' = [job EXCEPT ![p] = Idle]
  /\ UNCHANGED <<db, live, bind, ydoc, snapAt, lastApp, pend, dirty, queue, ghost, faults>>

\* The scheduled pass, or compact-demo.
CompactionPass ==
  /\ \E S \in Mergeable : Compact(S)
  /\ UNCHANGED <<live, current, bind, ydoc, entry, queue, job, ghost, faults>>

\* The process dies; a transaction not yet committed never is.
Crash ==
  /\ \E b \in Binding : phase[b] \notin {"unused", "dead"} \/ job[<<"close", b>>].pc # "idle"
  /\ lost' = taken \ Recovered
  /\ live' = None /\ current' = None
  /\ phase' = [b \in Binding |-> IF phase[b] = "unused" THEN "unused" ELSE "dead"]
  /\ ydoc' = [b \in Binding |-> {}]
  /\ pend' = [b \in Binding |-> {}]
  /\ snapAt' = [b \in Binding |-> 0]
  /\ lastApp' = [b \in Binding |-> 0]
  /\ dirty' = [b \in Binding |-> FALSE]
  /\ timers' = [b \in Binding |-> NoTimers]
  /\ chain' = << >>
  /\ job' = [p \in Proc |-> Idle]
  /\ UNCHANGED <<db, loadSeq, loadHead, done, taken, logged, faults>>
-----------------------------------------------------------------------------
LoadStep(b) ==
  \/ LoadSnapshot(b) \/ LoadHead(b) \/ LoadTail(b) \/ Seed(b) \/ LoadLast(b) \/ Bind(b)

JobStep(p) == Encode(p) \/ Commit(p) \/ Resume(p)

CloseStep(b) ==
  CloseFlush(b) \/ CloseAwaitsFlush(b) \/ CloseCompacts(b) \/ CloseEvicts(b)

Next ==
  \/ \E b \in Binding :
       \/ Open(b) \/ LoadStep(b) \/ LoadFails(b)
       \/ FlushTimer(b) \/ Close(b) \/ CloseStep(b)
       \/ \E u \in Update : Edit(b, u) \/ EditUnheard(b, u)
  \/ CoalesceTimer \/ AppendCommits \/ AppendFails
  \/ Checkpoint \/ CompactionPass \/ Crash
  \/ \E p \in Proc : JobStep(p) \/ WriteFails(p)

Spec == Init /\ [][Next]_vars

(***************************************************************************)
(* Timers fire and the database answers; clients, operators and crashes    *)
(* owe nothing.                                                            *)
(***************************************************************************)
Fairness ==
  /\ WF_vars(CoalesceTimer) /\ WF_vars(AppendCommits)
  /\ \A p \in Proc : WF_vars(JobStep(p))
  /\ \A b \in Binding : WF_vars(LoadStep(b)) /\ WF_vars(CloseStep(b)) /\ WF_vars(FlushTimer(b))

FairSpec == Spec /\ Fairness
-----------------------------------------------------------------------------
(***************************************************************************)
(* Safety.                                                                 *)
(***************************************************************************)
Covers(seq, blob) == \A s \in Seqs : s <= seq => log[s] \subseteq blob

\* The snapshot holds every logged row at or below its seq, so a cold load
\* that replays only the tail misses nothing and compaction may drop the
\* rows (doc-state.service.ts:333).
SnapshotCoversLog == Covers(snapSeq, snap)

\* No update that ever reached the log, or was there before the log was, is out
\* of a cold load's reach: not through checkpoints, compaction, crashes, failing
\* writes or a failing seed (doc-state.service.ts:148-164).
LoggedIsRecoverable == Legacy \cup logged \subseteq Recovered

\* While no call has failed, an accepted update is in the database or on its way
\* there: in the buffer of the current entry, in the append chain, or lost with
\* a crash (doc-state.service.ts:226-292).
Queued == Pending \cup UNION {chain[i] : i \in DOMAIN chain}
NothingStranded == faults = 0 => taken \subseteq Recovered \cup Queued \cup lost

\* The bound document clients edit is always the one the docState map knows:
\* a late writeState never evicts its successor (doc-state.service.ts:427).
LiveIsTracked == \A b \in Binding : live = b /\ phase[b] = "bound" => current = b

\* Every row that is no merge has one author (doc-state.service.ts:29, 228).
RowsAttributable ==
  \A s \in Seqs \ merged : \A u, v \in log[s] : AuthorOf[u] = AuthorOf[v]

\* max(seq) is the largest row and compaction keeps it, so a new row never
\* takes a seq some snapshot already stands for.
HeadIsLastRow ==
  /\ \A s \in Seqs : log[s] # {} => s <= head
  /\ head # 0 => log[head] # {}
  /\ snapSeq <= head

\* The current entry knows the head of the log, so what flush captures as its
\* seq is up to date; a load that is done knows it too
\* (doc-state.service.ts:166, 285, 334).
EntryKnowsHead ==
  /\ current # None => lastApp[current] = head
  /\ \A b \in Binding : phase[b] = "set" => loadHead[b] = head

\* While no call has failed, an entry neither dirty nor being saved has its whole
\* Y.Doc stored: when flush skips the write, the stored state is already current
\* (doc-state.service.ts:335).
Saving(e) == Queued # {} \/ dirty[e] \/ \E p \in Proc : job[p].pc # "idle" /\ job[p].ent = e
CleanMeansStored ==
  faults = 0 /\ current # None /\ ~Saving(current) => ydoc[current] \subseteq Recovered

\* No edit is unaccounted for, be it in the buffer, in the chain, in a row or in
\* the snapshot: none is stranded, a clean entry has all of them stored, and a
\* row that is no merge has them under their author (doc-state.service.ts:226-292).
EditsAccounted == NothingStranded /\ CleanMeansStored /\ RowsAttributable
-----------------------------------------------------------------------------
(***************************************************************************)
(* Liveness.                                                               *)
(***************************************************************************)

\* Every accepted update gets stored or is lost with a crash, unless a call
\* fails: a failed append is only logged (doc-state.service.ts:287).
EditsAreStored ==
  \A u \in Update : u \in taken ~> u \in logged \cup snap \cup lost \/ faults > 0

\* writeState always ends: the entry it captured does not stay in memory.
CloseEnds ==
  \A b \in Binding : job[<<"close", b>>].pc # "idle" ~> job[<<"close", b>>].pc = "idle"
-----------------------------------------------------------------------------
(***************************************************************************)
(* The inductive invariant behind SnapshotCoversLog, LoggedIsRecoverable   *)
(* and ImplementsDurableDoc, for bindings that do not overlap; a part for  *)
(* each thing that holds content.                                          *)
(***************************************************************************)
Loading == {"snapshot", "head", "tail", "seed", "last", "set"}

\* The database: no row beyond the head, the snapshot holds the rows it stands
\* for and what predates the log, and no row is ever dropped but into another.
StoreSafe ==
  /\ \A s \in Seqs : s > head => log[s] = {}
  /\ snapSeq <= head
  /\ Covers(snapSeq, snap)
  /\ Legacy \subseteq snap
  /\ logged \subseteq UNION {log[s] : s \in Seqs}

\* A cold load runs alone, and at its end its Y.Doc holds the whole log.
LoadsSafe ==
  \A b \in Binding :
    /\ phase[b] \in Loading => live = b /\ current = None /\ chain = << >>
    /\ phase[b] \in Loading \ {"snapshot"} => Legacy \subseteq ydoc[b]
    /\ phase[b] \in {"head", "tail"} => Covers(loadSeq[b], ydoc[b])
    /\ phase[b] \in {"seed", "last", "set"} => Covers(head, ydoc[b])
    /\ phase[b] \in Loading \cup {"unused"} => lastApp[b] = 0

\* An entry's lastAppendedSeq stands for rows its Y.Doc has.
EntriesSafe ==
  \A b \in Binding :
    loadHead[b] <= head /\ lastApp[b] <= head /\ Covers(lastApp[b], ydoc[b])

\* The current entry's Y.Doc holds the log and all that is on its way there.
CurrentSafe ==
  /\ \A b \in Binding : live = b /\ phase[b] = "bound" => current = b
  /\ current # None =>
       /\ phase[current] # "unused"
       /\ Legacy \subseteq ydoc[current]
       /\ Covers(head, ydoc[current])
       /\ pend[current] \subseteq ydoc[current]
       /\ \A i \in DOMAIN chain : chain[i] \subseteq ydoc[current]

\* What is about to be written holds the rows its seq stands for.
JobsSafe ==
  \A p \in Proc :
    /\ job[p].pc = "write" => /\ job[p].seq <= head
                             /\ Covers(job[p].seq, job[p].blob)
                             /\ Legacy \subseteq job[p].blob
    /\ job[p].pc = "drain" => Legacy \subseteq ydoc[job[p].ent]
    /\ p[1] = "close" /\ job[p].pc # "idle" => live = None
    /\ job[p].blob \subseteq taken

\* Nothing is stored, shown or queued that no client sent.
OnlyTaken ==
  /\ Legacy \cup logged \cup snap \subseteq taken
  /\ \A i \in DOMAIN chain : chain[i] \subseteq taken
  /\ \A s \in Seqs : log[s] \subseteq taken
  /\ \A b \in Binding : ydoc[b] \cup pend[b] \subseteq taken

IInv ==
  StoreSafe /\ LoadsSafe /\ EntriesSafe /\ CurrentSafe /\ JobsSafe /\ OnlyTaken

\* The state is well formed, and every set of updates somewhere in it holds what
\* its seq, its phase or its place in the queue stands for; the current entry
\* knows the head (doc-state.service.ts:99-167, 226-345).
Inductive == TypeOK /\ IInv /\ EntryKnowsHead
-----------------------------------------------------------------------------
(***************************************************************************)
(* What clients are promised: the module DurableDoc.  Stored is what a row *)
(* has held; the document is open while the live binding is bound.         *)
(***************************************************************************)
open == live # None /\ phase[live] = "bound"
view == IF open THEN ydoc[live] ELSE {}

D == INSTANCE DurableDoc WITH stored <- Legacy \cup logged

\* Every cold load shows all that was ever logged, and nothing shown while the
\* document is open goes away (doc-state.service.ts:105-167).
ImplementsDurableDoc == D!Spec
=============================================================================
