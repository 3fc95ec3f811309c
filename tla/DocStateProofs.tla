--------------------------- MODULE DocStateProofs ---------------------------
(***************************************************************************)
(* Proofs about DocState: type correctness, for every instance; when no    *)
(* reconnect overlaps a writeState, the inductive invariant and the safety *)
(* properties it implies; and, after the implementation of DurableDoc,     *)
(* what the current entry knows of the log, which entry is current when    *)
(* bindings overlap, where max(seq) is, and where every edit has got to.   *)
(***************************************************************************)
EXTENDS DocState, SequenceTheorems, TLAPS

\* What the proofs use of the constants.
LEMMA ConstantFacts ==
  /\ Legacy \subseteq Update /\ None \notin Binding
  /\ MaxSeq \in Nat /\ MaxFaults \in Nat /\ Overlap \in BOOLEAN
BY ConstantsAssumption DEF ConstantsAssumption

(***************************************************************************)
(* Helpers: what an action that touches the buffer and the chain leaves.   *)
(***************************************************************************)
\* Flushing the buffer leaves a chain of blobs and a buffer.
LEMMA FlushPendingType ==
  ASSUME TypeOK, FlushPending
  PROVE  chain' \in Seq(SUBSET Update) /\ pend' \in [Binding -> SUBSET Update]
<1>1. Pending \in SUBSET Update
  BY ConstantFacts DEF TypeOK, Pending
<1>2. chain' \in Seq(SUBSET Update)
  BY <1>1, AppendProperties DEF TypeOK, FlushPending
<1>3. pend' \in [Binding -> SUBSET Update]
  BY DEF TypeOK, FlushPending
<1> QED BY <1>2, <1>3

\* The faults stay within their bound.
LEMMA FaultType ==
  ASSUME TypeOK, Fault PROVE faults' \in 0 .. MaxFaults
<1>1. faults \in Nat /\ MaxFaults \in Nat BY ConstantFacts DEF TypeOK
<1> QED BY <1>1 DEF Fault

\* drain waits for a natural number of appends.
LEMMA TargetType == TypeOK => Target \in Nat
BY LenProperties DEF TypeOK, Target

\* A job that does nothing is a job.
LEMMA IdleType == Idle \in Jobs
BY ConstantFacts DEF Idle, Jobs, Steps

\* The tail of the log is a set of updates.
LEMMA TailAfterType ==
  ASSUME TypeOK, NEW s PROVE TailAfter(s) \in SUBSET Update
BY DEF TypeOK, TailAfter

\* An appended row lies within the log, which stays one.
LEMMA AppendRowType ==
  ASSUME TypeOK, NEW blob \in SUBSET Update, AppendRow(blob)
  PROVE  /\ log' \in [Seqs -> SUBSET Update] /\ head' \in 0 .. MaxSeq
         /\ logged' \subseteq Update /\ head + 1 \in Seqs
         /\ snap' = snap /\ snapSeq' = snapSeq /\ outbox' = outbox
BY ConstantFacts DEF TypeOK, AppendRow, Seqs

(***************************************************************************)
(* Jobs: what is known of one, and what the ways to change one preserve.   *)
(***************************************************************************)
\* The fields of a job.
LEMMA JobType ==
  ASSUME TypeOK, NEW p \in Proc
  PROVE  /\ job[p] \in Jobs
         /\ job[p].pc \in Steps
         /\ job[p].ent \in Binding \cup {None} /\ job[p].on \in Binding \cup {None}
         /\ job[p].pc \in NeedsEntry => job[p].ent \in Binding
         /\ job[p].target \in Nat /\ job[p].seq \in 0 .. MaxSeq
         /\ job[p].blob \in SUBSET Update
BY DEF TypeOK, JobsOK, Jobs

\* The three processes of a binding.
LEMMA ProcType ==
  ASSUME NEW b \in Binding
  PROVE  <<"flush", b>> \in Proc /\ <<"timer", b>> \in Proc /\ <<"close", b>> \in Proc
BY DEF Proc

\* The steps of a job, and those that need no entry.
LEMMA StepNames ==
  /\ {"idle", "drain", "write", "resume", "flush", "await", "compact", "settle"} \subseteq Steps
  /\ \A x \in {"idle", "flush", "await", "compact", "settle"} : x \notin NeedsEntry
BY DEF Steps, NeedsEntry

\* A job that moves to another step.
LEMMA SetPc ==
  ASSUME NEW j \in Jobs, NEW s \in Steps
  PROVE  /\ [j EXCEPT !.pc = s] \in Jobs
         /\ [j EXCEPT !.pc = s].pc = s /\ [j EXCEPT !.pc = s].ent = j.ent
BY DEF Jobs

\* A job that starts to wait for a flush.
LEMMA SetPcOn ==
  ASSUME NEW j \in Jobs, NEW s \in Steps, NEW e \in Binding \cup {None}
  PROVE  /\ [j EXCEPT !.pc = s, !.on = e] \in Jobs
         /\ [j EXCEPT !.pc = s, !.on = e].pc = s
BY DEF Jobs

\* A job that starts to drain again.
LEMMA SetPcTarget ==
  ASSUME NEW j \in Jobs, NEW s \in Steps, NEW t \in Nat
  PROVE  /\ [j EXCEPT !.pc = s, !.target = t] \in Jobs
         /\ [j EXCEPT !.pc = s, !.target = t].pc = s
BY DEF Jobs

\* Where an idle job is.
LEMMA IdlePc == Idle.pc = "idle"
BY DEF Idle

\* A well-formed job in the place of another keeps the jobs well formed.
LEMMA PutJob ==
  ASSUME JobsOK, NEW p \in Proc, NEW j \in Jobs, j.pc \in NeedsEntry => j.ent # None,
         job' = [job EXCEPT ![p] = j]
  PROVE  JobsOK'
BY DEF JobsOK

\* Starting a job keeps the jobs well formed.
LEMMA StartJobType ==
  ASSUME TypeOK, NEW p \in Proc, NEW e \in Binding \cup {None}, NEW pc \in Steps,
         pc \in NeedsEntry => e # None, StartJob(p, e, pc)
  PROVE  JobsOK'
<1> DEFINE j == [Idle EXCEPT !.pc = pc, !.ent = e, !.target = Target]
<1>0. Target \in Nat BY TargetType
<1>1. j \in Jobs /\ j.pc = pc /\ j.ent = e BY <1>0, IdleType DEF Jobs
<1>2. job' = [job EXCEPT ![p] = j] BY DEF StartJob
<1>3. JobsOK BY DEF TypeOK
<1> HIDE DEF j
<1> QED BY <1>1, <1>2, <1>3, PutJob

\* What follows a snapshot is a job that needs no entry.
LEMMA AfterType ==
  ASSUME TypeOK, NEW p \in Proc
  PROVE  After(p) \in Jobs /\ After(p).pc \notin NeedsEntry
<1>1. CASE p[1] = "close"
  <2>1. "flush" \in Steps /\ "flush" \notin NeedsEntry BY StepNames
  <2>2. job[p] \in Jobs /\ 0 \in 0 .. MaxSeq /\ {} \in SUBSET Update
    BY JobType, ConstantFacts
  <2>3. After(p) = [job[p] EXCEPT !.pc = "flush", !.seq = 0, !.blob = {}] BY <1>1 DEF After
  <2> QED BY <2>1, <2>2, <2>3 DEF Jobs
<1>2. CASE p[1] # "close"
  BY <1>2, IdleType, IdlePc, StepNames DEF After
<1> QED BY <1>1, <1>2

(***************************************************************************)
(* Timers.                                                                 *)
(***************************************************************************)
\* Setting and firing timers leaves timers.
LEMMA TimerTypes ==
  /\ NoTimers \in Timers
  /\ \A t \in Timers : /\ Fired(t) \subseteq Timers
                       /\ [t EXCEPT !.idle = TRUE,
                                   !.max = IF @ = "null" THEN "set" ELSE @] \in Timers
<1>1. NoTimers \in Timers BY DEF NoTimers, Timers
<1>2. ASSUME NEW t \in Timers PROVE Fired(t) \subseteq Timers BY DEF Fired
<1>3. ASSUME NEW t \in Timers
      PROVE  [t EXCEPT !.idle = TRUE, !.max = IF @ = "null" THEN "set" ELSE @] \in Timers
  BY DEF Timers
<1> QED BY <1>1, <1>2, <1>3

\* A compaction leaves a log, the snapshot and the head.
LEMMA CompactType ==
  ASSUME TypeOK, NEW S \in Mergeable, Compact(S)
  PROVE  /\ log' \in [Seqs -> SUBSET Update] /\ merged' \subseteq Seqs
         /\ snap' = snap /\ snapSeq' = snapSeq /\ head' = head /\ outbox' = outbox
<1>1. S \subseteq Seqs BY DEF Mergeable
<1>2. PICK last \in S :
        /\ log' = [s \in Seqs |-> IF s = last THEN UNION {log[r] : r \in S}
                                  ELSE IF s \in S THEN {} ELSE log[s]]
        /\ merged' = merged \cup {last}
  BY DEF Compact
<1>3. UNION {log[r] : r \in S} \in SUBSET Update BY <1>1 DEF TypeOK
<1> QED BY <1>1, <1>2, <1>3 DEF Compact, TypeOK

\* Buffering an update leaves a chain and a buffer.
LEMMA BufferType ==
  ASSUME TypeOK, current \in Binding, NEW u \in Update, Buffer(u)
  PROVE  chain' \in Seq(SUBSET Update) /\ pend' \in [Binding -> SUBSET Update]
<1> DEFINE queued == IF Coalesces(u) THEN chain ELSE Append(chain, pend[current])
           buffer == IF Coalesces(u) THEN pend[current] \cup {u} ELSE {u}
<1>1. pend[current] \in SUBSET Update BY DEF TypeOK
<1>2. queued \in Seq(SUBSET Update) BY <1>1, AppendProperties DEF TypeOK
<1>3. buffer \in SUBSET Update BY <1>1
<1>4. Append(queued, buffer) \in Seq(SUBSET Update) BY <1>2, <1>3, AppendProperties
<1>5. \/ chain' = queued /\ pend' = [pend EXCEPT ![current] = buffer]
      \/ chain' = Append(queued, buffer) /\ pend' = [pend EXCEPT ![current] = {}]
  BY DEF Buffer
<1> HIDE DEF queued, buffer
<1> QED BY <1>2, <1>3, <1>4, <1>5 DEF TypeOK

\* Every variable keeps its type, with or without overlapping bindings.
THEOREM TypeCorrect == Spec => []TypeOK
<1>1. Init => TypeOK
  <2> SUFFICES ASSUME Init PROVE TypeOK OBVIOUS
  <2>1. chain \in Seq(SUBSET Update) BY EmptySeq DEF Init
  <2>2. JobsOK BY IdleType, IdlePc, StepNames DEF Init, JobsOK
  <2>3. timers \in [Binding -> Timers] BY TimerTypes DEF Init
  <2> QED BY <2>1, <2>2, <2>3, ConstantFacts DEF Init, TypeOK, Phases, Seqs
<1>2. TypeOK /\ [Next]_vars => TypeOK'
  <2> SUFFICES ASSUME TypeOK, [Next]_vars PROVE TypeOK' OBVIOUS
  <2> USE ConstantFacts
  <2>1. ASSUME NEW b \in Binding, Open(b) PROVE TypeOK'
    BY <2>1 DEF Open, TypeOK, JobsOK, Phases, db, entry, queue, ghost
  <2>2. ASSUME NEW b \in Binding, LoadStep(b) PROVE TypeOK'
    <3>0. JobsOK' BY <2>2 DEF TypeOK, JobsOK, LoadStep, LoadSnapshot, LoadHead, LoadTail,
                              Seed, LoadLast, Bind
    <3>1. CASE LoadSnapshot(b)
      BY <3>0, <3>1 DEF LoadSnapshot, TypeOK, Phases, db, entry, queue, ghost
    <3>2. CASE LoadHead(b)
      BY <3>0, <3>2 DEF LoadHead, TypeOK, Phases, db, entry, queue, ghost
    <3>3. CASE LoadTail(b)
      BY <3>0, <3>3, TailAfterType DEF LoadTail, TypeOK, Phases, db, entry, queue, ghost
    <3>4. CASE Seed(b)
      <4>1. CASE AppendRow(ydoc[b]) /\ merged' = merged \cup {head + 1}
        <5>1. ydoc[b] \in SUBSET Update BY DEF TypeOK
        <5>2. /\ log' \in [Seqs -> SUBSET Update] /\ head' \in 0 .. MaxSeq
              /\ logged' \subseteq Update /\ head + 1 \in Seqs
              /\ snap' = snap /\ snapSeq' = snapSeq /\ outbox' = outbox
          BY <4>1, <5>1, AppendRowType
        <5>3. /\ taken' = taken /\ lost' = lost
              /\ Fault \/ faults' = faults
          BY <3>4 DEF Seed, ghost
        <5>4. faults' \in 0 .. MaxFaults BY <5>3, FaultType DEF TypeOK
        <5> QED BY <3>0, <3>4, <4>1, <5>2, <5>3, <5>4
                DEF Seed, TypeOK, Phases, entry, queue
      <4>2. CASE Fault /\ UNCHANGED <<db, ghost>>
        BY <3>0, <3>4, <4>2, FaultType DEF Seed, TypeOK, Phases, db, entry, queue, ghost
      <4> QED BY <3>4, <4>1, <4>2 DEF Seed
    <3>5. CASE LoadLast(b)
      BY <3>0, <3>5 DEF LoadLast, TypeOK, Phases, db, entry, queue, ghost
    <3>6. CASE Bind(b)
      BY <3>0, <3>6, TimerTypes DEF Bind, TypeOK, Phases, db, queue, ghost
    <3> QED BY <2>2, <3>1, <3>2, <3>3, <3>4, <3>5, <3>6 DEF LoadStep
  <2>3. ASSUME NEW b \in Binding, LoadFails(b) PROVE TypeOK'
    <3>1. JobsOK' BY <2>3 DEF LoadFails, TypeOK, JobsOK
    <3>2. faults' \in 0 .. MaxFaults BY <2>3, FaultType DEF LoadFails
    <3> QED BY <2>3, <3>1, <3>2 DEF LoadFails, TypeOK, Phases, db, entry, queue, ghost
  <2>4. ASSUME NEW b \in Binding, FlushTimer(b) PROVE TypeOK'
    <3>1. PICK t \in Fired(timers[b]) :
            IF CanFlush(current)
            THEN /\ BeginFlush
                 /\ StartJob(<<"flush", current>>, current, "drain")
                 /\ timers' = [timers EXCEPT ![b] = t, ![current] = NoTimers]
            ELSE /\ timers' = [timers EXCEPT ![b] = t]
                 /\ UNCHANGED <<pend, dirty, chain, job>>
      BY <2>4 DEF FlushTimer
    <3>2. t \in Timers BY <3>1, TimerTypes DEF TypeOK
    <3>3. CASE CanFlush(current)
      <4>1. current \in Binding /\ current # None BY <3>3 DEF CanFlush, TypeOK
      <4>2. FlushPending /\ dirty' \in [Binding -> BOOLEAN]
        BY <3>1, <3>3 DEF BeginFlush, TypeOK
      <4>3. JobsOK' BY <3>1, <3>3, <4>1, ProcType, StartJobType, StepNames
      <4>4. timers' \in [Binding -> Timers] BY <3>1, <3>2, <3>3, <4>1, TimerTypes DEF TypeOK
      <4> QED BY <2>4, <4>2, <4>3, <4>4, FlushPendingType
              DEF FlushTimer, TypeOK, db, bind, ghost
    <3>4. CASE ~CanFlush(current)
      <4>1. timers' \in [Binding -> Timers] BY <3>1, <3>2, <3>4 DEF TypeOK
      <4> QED BY <2>4, <3>1, <3>4, <4>1 DEF FlushTimer, TypeOK, JobsOK, db, bind, ghost
    <3> QED BY <3>3, <3>4
  <2>5. ASSUME NEW b \in Binding, Close(b) PROVE TypeOK'
    <3>1. JobsOK'
      <4> DEFINE pc == IF current = None THEN "compact" ELSE "drain"
      <4>1. pc \in Steps /\ (pc \in NeedsEntry => current # None) BY StepNames
      <4>2. StartJob(<<"close", b>>, current, pc) BY <2>5 DEF Close
      <4>3. current \in Binding \cup {None} BY DEF TypeOK
      <4> QED BY <4>1, <4>2, <4>3, ProcType, StartJobType
    <3> QED BY <2>5, <3>1, FlushPendingType DEF Close, TypeOK, Phases, db, ghost
  <2>6. ASSUME NEW b \in Binding, CloseStep(b) PROVE TypeOK'
    <3> DEFINE p == <<"close", b>>
    <3>1. p \in Proc /\ job[p] \in Jobs BY ProcType, JobType
    <3>2. JobsOK /\ current \in Binding \cup {None} BY DEF TypeOK
    <3> HIDE DEF p
    <3>3. CASE CloseFlush(b)
      <4>1. CASE CanFlush(current)
        <5> DEFINE f == <<"flush", current>>
                   i == [job[p] EXCEPT !.pc = "await", !.on = current]
                   j == [Idle EXCEPT !.pc = "drain", !.ent = current, !.target = Target]
                   jobs == [job EXCEPT ![p] = i]
        <5>1. current \in Binding /\ current # None /\ f \in Proc
          BY <4>1, ProcType DEF CanFlush, TypeOK
        <5>2. FlushPending /\ dirty' \in [Binding -> BOOLEAN]
          BY <3>3, <4>1, <5>1 DEF CloseFlush, BeginFlush, TypeOK
        <5>3. timers' \in [Binding -> Timers]
          BY <3>3, <4>1, TimerTypes DEF CloseFlush, TypeOK
        <5>a. /\ "await" \in Steps /\ "await" \notin NeedsEntry /\ "drain" \in Steps
              /\ Target \in Nat
          BY StepNames, TargetType
        <5>4. i \in Jobs /\ i.pc \notin NeedsEntry BY <3>1, <3>2, <5>a, SetPcOn
        <5>5. j \in Jobs /\ j.ent # None BY <3>2, <5>1, <5>a, IdleType DEF Jobs
        <5>6. job' = [job EXCEPT ![p] = i, ![f] = j]
          BY <3>3, <4>1 DEF CloseFlush, p
        <5> HIDE DEF i, j, f
        <5>7. job' = [jobs EXCEPT ![f] = j]
          BY <5>6, <3>1, <3>2, <5>1 DEF JobsOK
        <5>8. JobsOK' BY <3>1, <3>2, <5>1, <5>4, <5>5, <5>7 DEF JobsOK
        <5> QED BY <3>3, <5>2, <5>3, <5>8, FlushPendingType
                DEF CloseFlush, TypeOK, db, bind, ghost
      <4>2. CASE ~CanFlush(current)
        <5> DEFINE s == IF current = None THEN "compact" ELSE "await"
                   i == [job[p] EXCEPT !.pc = s, !.on = current]
        <5>1. s \in Steps /\ s \notin NeedsEntry BY StepNames
        <5>a. i \in Jobs /\ i.pc = s
          <6> HIDE DEF s
          <6> QED BY <3>1, <3>2, <5>1, SetPcOn
        <5>2. i \in Jobs /\ i.pc \notin NeedsEntry BY <5>1, <5>a
        <5>3. job' = [job EXCEPT ![p] = i] BY <3>3, <4>2 DEF CloseFlush, p
        <5>4. JobsOK' BY <3>1, <3>2, <5>2, <5>3, PutJob
        <5> QED BY <3>3, <4>2, <5>4 DEF CloseFlush, TypeOK, db, bind, ghost
      <4> QED BY <4>1, <4>2
    <3>4. CASE CloseAwaitsFlush(b)
      <4>1. job' = [job EXCEPT ![p] = [job[p] EXCEPT !.pc = "compact"]]
        BY <3>4 DEF CloseAwaitsFlush, p
      <4>a. "compact" \in Steps /\ "compact" \notin NeedsEntry BY StepNames
      <4>b. /\ [job[p] EXCEPT !.pc = "compact"] \in Jobs
            /\ [job[p] EXCEPT !.pc = "compact"].pc \notin NeedsEntry
        BY <3>1, <4>a, SetPc
      <4>2. JobsOK' BY <3>1, <3>2, <4>1, <4>b, PutJob
      <4> QED BY <3>4, <4>2 DEF CloseAwaitsFlush, TypeOK, db, bind, entry, queue, ghost
    <3>5. CASE CloseCompacts(b)
      <4>1. job' = [job EXCEPT ![p] = [job[p] EXCEPT !.pc = "settle", !.target = Target]]
        BY <3>5 DEF CloseCompacts, p
      <4>a. "settle" \in Steps /\ "settle" \notin NeedsEntry /\ Target \in Nat
        BY StepNames, TargetType
      <4>b. /\ [job[p] EXCEPT !.pc = "settle", !.target = Target] \in Jobs
            /\ [job[p] EXCEPT !.pc = "settle", !.target = Target].pc \notin NeedsEntry
        BY <3>1, <4>a, SetPcTarget
      <4>2. JobsOK' BY <3>1, <3>2, <4>1, <4>b, PutJob
      <4>3. FlushPending BY <3>5 DEF CloseCompacts
      <4>4. CASE \E S \in Mergeable : Compact(S)
        BY <3>5, <4>2, <4>3, <4>4, CompactType, FlushPendingType
           DEF CloseCompacts, TypeOK, bind, ghost
      <4>5. CASE UNCHANGED db
        BY <3>5, <4>2, <4>3, <4>5, FlushPendingType DEF CloseCompacts, TypeOK, db, bind, ghost
      <4> QED BY <3>5, <4>4, <4>5 DEF CloseCompacts
    <3>6. CASE CloseEvicts(b)
      <4>1. job' = [job EXCEPT ![p] = Idle] BY <3>6 DEF CloseEvicts, p
      <4>2. JobsOK' BY <3>1, <3>2, <4>1, IdleType, IdlePc, StepNames, PutJob
      <4>3. timers' \in [Binding -> Timers] /\ current' \in Binding \cup {None}
        <5>1. timers \in [Binding -> Timers] /\ NoTimers \in Timers BY TimerTypes DEF TypeOK
        <5> QED BY <3>2, <3>6, <5>1 DEF CloseEvicts
      <4> QED BY <3>6, <4>2, <4>3 DEF CloseEvicts, TypeOK, db, bind, queue, ghost
    <3> QED BY <2>6, <3>3, <3>4, <3>5, <3>6 DEF CloseStep
  <2>7. ASSUME NEW b \in Binding, NEW u \in Update, Edit(b, u) PROVE TypeOK'
    <3>1. current \in Binding BY <2>7 DEF Edit, TypeOK
    <3>2. chain' \in Seq(SUBSET Update) /\ pend' \in [Binding -> SUBSET Update]
      BY <2>7, <3>1, BufferType DEF Edit
    <3>3. timers' \in [Binding -> Timers] /\ dirty' \in [Binding -> BOOLEAN]
      BY <2>7, <3>1, TimerTypes DEF Edit, ScheduleFlush, TypeOK
    <3> QED BY <2>7, <3>2, <3>3 DEF Edit, TypeOK, JobsOK, db, bind
  <2>8. ASSUME NEW b \in Binding, NEW u \in Update, EditUnheard(b, u) PROVE TypeOK'
    BY <2>8 DEF EditUnheard, TypeOK, JobsOK, db, bind, entry, queue
  <2>9. CASE CoalesceTimer
    BY <2>9, FlushPendingType DEF CoalesceTimer, TypeOK, JobsOK, db, bind, ghost
  <2>10. CASE AppendCommits
    <3>1. chain # << >> /\ chain \in Seq(SUBSET Update) BY <2>10 DEF AppendCommits, TypeOK
    <3>2. Head(chain) \in SUBSET Update /\ Tail(chain) \in Seq(SUBSET Update)
      BY <3>1, HeadTailProperties
    <3>3. /\ log' \in [Seqs -> SUBSET Update] /\ head' \in 0 .. MaxSeq
          /\ logged' \subseteq Update /\ head + 1 \in Seqs
          /\ snap' = snap /\ snapSeq' = snapSeq /\ outbox' = outbox
      BY <2>10, <3>2, AppendRowType DEF AppendCommits
    <3>4. lastApp' \in [Binding -> 0 .. MaxSeq]
      BY <2>10, <3>3 DEF AppendCommits, TypeOK, Seqs
    <3>5. JobsOK' /\ done' \in Nat BY <2>10 DEF AppendCommits, TypeOK, JobsOK
    <3>6. chain' \in Seq(SUBSET Update) BY <2>10, <3>2 DEF AppendCommits
    <3> QED BY <2>10, <3>3, <3>4, <3>5, <3>6 DEF AppendCommits, TypeOK, bind
  <2>11. CASE AppendFails
    <3>1. chain # << >> /\ chain \in Seq(SUBSET Update) BY <2>11 DEF AppendFails, TypeOK
    <3>2. Tail(chain) \in Seq(SUBSET Update) BY <3>1, HeadTailProperties
    <3>3. JobsOK' /\ done' \in Nat BY <2>11 DEF AppendFails, TypeOK, JobsOK
    <3>4. faults' \in 0 .. MaxFaults BY <2>11, FaultType DEF AppendFails
    <3> QED BY <2>11, <3>2, <3>3, <3>4 DEF AppendFails, TypeOK, db, bind, entry, ghost
  <2>12. CASE Checkpoint
    <3>1. current \in Binding /\ current # None BY <2>12 DEF Checkpoint, TypeOK
    <3>2. JobsOK' BY <2>12, <3>1, ProcType, StartJobType, StepNames DEF Checkpoint
    <3> QED BY <2>12, <3>2, FlushPendingType DEF Checkpoint, TypeOK, db, bind, ghost
  <2>13. CASE CompactionPass
    BY <2>13, CompactType DEF CompactionPass, TypeOK, JobsOK, bind, entry, queue, ghost
  <2>14. CASE Crash
    <3>1. JobsOK' BY <2>14, IdleType, IdlePc, StepNames DEF Crash, JobsOK
    <3>2. chain' \in Seq(SUBSET Update) BY <2>14, EmptySeq DEF Crash
    <3>3. timers' \in [Binding -> Timers] BY <2>14, TimerTypes DEF Crash
    <3>4. lost' \subseteq Update BY <2>14 DEF Crash, TypeOK
    <3>5. snapAt' \in [Binding -> 0 .. MaxSeq] /\ lastApp' \in [Binding -> 0 .. MaxSeq]
      BY <2>14 DEF Crash
    <3>6. phase' \in [Binding -> Phases] BY <2>14 DEF Crash, Phases
    <3>7. /\ ydoc' \in [Binding -> SUBSET Update] /\ pend' \in [Binding -> SUBSET Update]
          /\ dirty' \in [Binding -> BOOLEAN]
      BY <2>14 DEF Crash
    <3> QED BY <2>14, <3>1, <3>2, <3>3, <3>4, <3>5, <3>6, <3>7 DEF Crash, TypeOK, db
  <2>15. ASSUME NEW p \in Proc, JobStep(p) PROVE TypeOK'
    <3>1. JobsOK /\ job[p] \in Jobs BY <2>15, JobType DEF TypeOK
    <3>2. CASE Encode(p)
      <4> DEFINE e == job[p].ent
                 i == [job[p] EXCEPT !.pc = "write", !.seq = lastApp[e], !.blob = ydoc[e]]
      <4>1. e \in Binding BY <2>15, <3>2, JobType DEF Encode, NeedsEntry
      <4>a. "write" \in Steps /\ lastApp[e] \in 0 .. MaxSeq /\ ydoc[e] \in SUBSET Update
        BY <4>1, StepNames DEF TypeOK
      <4>2. i \in Jobs /\ i.ent = e BY <3>1, <4>a DEF Jobs
      <4>3. e # None BY <4>1
      <4>4. job' = [job EXCEPT ![p] = IF lastApp[e] = snapAt[e] THEN After(p) ELSE i]
        BY <3>2 DEF Encode
      <4> HIDE DEF i, e
      <4>5. JobsOK' BY <2>15, <3>1, <4>2, <4>3, <4>4, AfterType, PutJob
      <4> QED BY <3>2, <4>5 DEF Encode, TypeOK, db, bind, entry, queue, ghost
    <3>3. CASE Commit(p)
      <4>1. job' = [job EXCEPT ![p] = [job[p] EXCEPT !.pc = "resume"]]
        BY <3>3 DEF Commit
      <4>2. job[p].ent # None BY <2>15, <3>3, JobType DEF Commit, NeedsEntry
      <4>3. JobsOK' BY <2>15, <3>1, <4>1, <4>2, StepNames, SetPc, PutJob
      <4> QED BY <2>15, <3>3, <4>3, JobType DEF Commit, TypeOK, bind, entry, queue, ghost
    <3>4. CASE Resume(p)
      <4>1. job[p].ent \in Binding BY <2>15, <3>4, JobType DEF Resume, NeedsEntry
      <4>2. SeqWritten(p) \in 0 .. MaxSeq BY <2>15, <4>1, JobType DEF SeqWritten, TypeOK
      <4>3. JobsOK' BY <2>15, <3>1, <3>4, AfterType, PutJob DEF Resume
      <4> QED BY <3>4, <4>1, <4>2, <4>3 DEF Resume, TypeOK, db, bind, queue, ghost
    <3> QED BY <2>15, <3>2, <3>3, <3>4 DEF JobStep
  <2>16. ASSUME NEW p \in Proc, WriteFails(p) PROVE TypeOK'
    <3>1. JobsOK BY DEF TypeOK
    <3>2. JobsOK' BY <2>16, <3>1, AfterType, PutJob DEF WriteFails
    <3>3. dirty' \in [Binding -> BOOLEAN] BY <2>16 DEF WriteFails, TypeOK
    <3>4. faults' \in 0 .. MaxFaults BY <2>16, FaultType DEF WriteFails
    <3> QED BY <2>16, <3>2, <3>3, <3>4 DEF WriteFails, TypeOK, db, bind, queue, ghost
  <2>17. CASE UNCHANGED vars
    BY <2>17 DEF TypeOK, JobsOK, vars, db, bind, entry, queue, ghost
  <2> QED BY <2>1, <2>2, <2>3, <2>4, <2>5, <2>6, <2>7, <2>8, <2>9, <2>10, <2>11, <2>12,
             <2>13, <2>14, <2>15, <2>16, <2>17 DEF Next
<1> QED BY <1>1, <1>2, PTL DEF Spec
-----------------------------------------------------------------------------
(***************************************************************************)
(* What the helpers do to the rows and to the chain.                       *)
(***************************************************************************)

\* Content that covers the rows up to a seq still does after an append beyond
\* it, and after a compaction.
LEMMA AppendKeepsCovers ==
  ASSUME TypeOK, NEW blob, AppendRow(blob),
         NEW q, q \in Int, q <= head, NEW B, Covers(q, B)
  PROVE  \A s \in Seqs : s <= q => log'[s] \subseteq B
BY ConstantFacts DEF TypeOK, AppendRow, Covers, Seqs

\* Content that covers the rows up to a seq still does after a compaction.
LEMMA CompactKeepsCovers ==
  ASSUME TypeOK, NEW S \in Mergeable, Compact(S), NEW q, q \in Int, NEW B, Covers(q, B)
  PROVE  \A s \in Seqs : s <= q => log'[s] \subseteq B
<1>1. S \subseteq Seqs BY DEF Mergeable
<1>2. PICK last \in S :
        /\ \A s \in S : s <= last
        /\ log' = [s \in Seqs |-> IF s = last THEN UNION {log[r] : r \in S}
                                  ELSE IF s \in S THEN {} ELSE log[s]]
  BY DEF Compact
<1>3. SUFFICES ASSUME NEW s \in Seqs, s <= q PROVE log'[s] \subseteq B OBVIOUS
<1>4. CASE s = last
  <2>1. \A r \in S : log[r] \subseteq B BY <1>1, <1>2, <1>3, <1>4 DEF Covers, Seqs
  <2> QED BY <1>2, <1>3, <1>4, <2>1
<1>5. CASE s # last
  BY <1>2, <1>3, <1>5 DEF Covers
<1> QED BY <1>4, <1>5

\* Neither loses a row's content.
LEMMA AppendKeepsRows ==
  ASSUME TypeOK, StoreSafe, NEW blob, AppendRow(blob)
  PROVE  logged' \subseteq UNION {log'[s] : s \in Seqs}
<1>1. log' = [log EXCEPT ![head + 1] = blob] /\ logged' = logged \cup blob
  BY DEF AppendRow
<1>2. head + 1 \in Seqs /\ log[head + 1] = {}
  <2>1. head \in Nat /\ MaxSeq \in Nat /\ head < MaxSeq BY ConstantFacts DEF AppendRow, TypeOK
  <2>2. head + 1 \in Seqs /\ head + 1 > head BY <2>1 DEF Seqs
  <2> QED BY <2>2 DEF StoreSafe
<1>3. \A s \in Seqs : log[s] \subseteq log'[s] BY <1>1, <1>2 DEF TypeOK
<1>4. log'[head + 1] = blob BY <1>1, <1>2 DEF TypeOK
<1> QED BY <1>1, <1>2, <1>3, <1>4 DEF StoreSafe

\* A compaction keeps the union of the rows.
LEMMA CompactKeepsRows ==
  ASSUME TypeOK, NEW S \in Mergeable, Compact(S)
  PROVE  UNION {log[s] : s \in Seqs} = UNION {log'[s] : s \in Seqs}
<1>1. S \subseteq Seqs BY DEF Mergeable
<1>2. PICK last \in S :
        log' = [s \in Seqs |-> IF s = last THEN UNION {log[r] : r \in S}
                               ELSE IF s \in S THEN {} ELSE log[s]]
  BY DEF Compact
<1>3. \A s \in Seqs : log'[s] \subseteq UNION {log[r] : r \in Seqs} BY <1>1, <1>2
<1>4. ASSUME NEW s \in Seqs PROVE log[s] \subseteq UNION {log'[r] : r \in Seqs}
  <2>1. CASE s \in S
    <3>1. log'[last] = UNION {log[r] : r \in S} /\ last \in Seqs BY <1>1, <1>2
    <3> QED BY <2>1, <3>1
  <2>2. CASE s \notin S
    <3>1. log'[s] = log[s] BY <1>2, <2>2
    <3> QED BY <3>1
  <2> QED BY <2>1, <2>2
<1> QED BY <1>3, <1>4

\* Every blob in the chain is below a bound that the buffer is below as well.
ChainBelow(X) == \A i \in DOMAIN chain : chain[i] \subseteq X

\* Appending a blob below a bound to blobs below it.
LEMMA SeqAppendBelow ==
  ASSUME NEW c \in Seq(SUBSET Update), NEW blob \in SUBSET Update, NEW X, blob \subseteq X,
         \A i \in DOMAIN c : c[i] \subseteq X
  PROVE  \A i \in DOMAIN Append(c, blob) : Append(c, blob)[i] \subseteq X
<1> DEFINE d == Append(c, blob)
<1>1. /\ Len(d) = Len(c) + 1 /\ d \in Seq(SUBSET Update)
      /\ \A i \in 1 .. Len(c) : d[i] = c[i]
      /\ d[Len(c) + 1] = blob
  BY AppendProperties
<1>2. DOMAIN d = 1 .. Len(c) + 1 /\ DOMAIN c = 1 .. Len(c) /\ Len(c) \in Nat
  BY <1>1, LenProperties
<1> HIDE DEF d
<1>3. \A i \in DOMAIN d : d[i] \subseteq X BY <1>1, <1>2
<1> QED BY <1>3 DEF d

\* The same for the chain.
LEMMA AppendBelow ==
  ASSUME TypeOK, NEW X, ChainBelow(X), NEW blob \in SUBSET Update, blob \subseteq X
  PROVE  \A i \in DOMAIN Append(chain, blob) : Append(chain, blob)[i] \subseteq X
<1>1. chain \in Seq(SUBSET Update) BY DEF TypeOK
<1> QED BY <1>1, SeqAppendBelow DEF ChainBelow

\* The head and the tail of a chain below a bound are below it.
LEMMA TailBelow ==
  ASSUME TypeOK, chain # << >>, NEW X, ChainBelow(X)
  PROVE  /\ Head(chain) \subseteq X
         /\ \A i \in DOMAIN Tail(chain) : Tail(chain)[i] \subseteq X
<1>1. chain \in Seq(SUBSET Update) BY DEF TypeOK
<1>2. /\ Len(chain) \in Nat \ {0} /\ DOMAIN chain = 1 .. Len(chain) /\ Head(chain) = chain[1]
      /\ Tail(chain) \in Seq(SUBSET Update) /\ Len(Tail(chain)) = Len(chain) - 1
      /\ DOMAIN Tail(chain) = 1 .. Len(Tail(chain))
      /\ \A i \in 1 .. Len(Tail(chain)) : Tail(chain)[i] = chain[i + 1]
  BY <1>1, HeadTailProperties, EmptySeq, LenProperties
<1>3. 1 \in DOMAIN chain /\ \A i \in 1 .. Len(Tail(chain)) : i + 1 \in DOMAIN chain
  BY <1>2
<1> QED BY <1>2, <1>3 DEF ChainBelow

\* Flushing the buffer keeps the chain below a bound of both.
LEMMA FlushPendingBelow ==
  ASSUME TypeOK, FlushPending, NEW X, ChainBelow(X), Pending \subseteq X
  PROVE  \A i \in DOMAIN chain' : chain'[i] \subseteq X
<1>1. Pending \in SUBSET Update BY ConstantFacts DEF TypeOK, Pending
<1>2. CASE Pending = {} BY <1>2 DEF FlushPending, ChainBelow
<1>3. CASE Pending # {}
  <2>1. chain' = Append(chain, Pending) BY <1>3 DEF FlushPending
  <2> QED BY <1>1, <2>1, AppendBelow
<1> QED BY <1>2, <1>3

\* Without a current entry nothing is flushed; a buffer only shrinks.
LEMMA FlushPendingFacts ==
  ASSUME TypeOK, FlushPending
  PROVE  /\ current = None => chain' = chain
         /\ \A b \in Binding : pend'[b] \subseteq pend[b]
BY DEF FlushPending, Pending, TypeOK
-----------------------------------------------------------------------------
(***************************************************************************)
(* The inductive invariant, one lemma per group of actions.                *)
(***************************************************************************)
\* The initial states satisfy the invariant.
LEMMA InitSafe == Init => IInv
BY ConstantFacts, EmptySeq, IdlePc
   DEF Init, IInv, StoreSafe, LoadsSafe, EntriesSafe, CurrentSafe, JobsSafe, OnlyTaken,
       Loading, Covers, Idle, Seqs

\* The cold load.
LEMMA OpenSafe ==
  ASSUME Overlap = FALSE, TypeOK, IInv, NEW b \in Binding, Open(b)
  PROVE  IInv'
<1> USE ConstantFacts
<1>1. /\ current = None /\ chain = << >>
      /\ \A c \in Binding : job[<<"close", c>>].pc = "idle"
  BY DEF Open, Quiet
<1>2. LoadsSafe' BY <1>1 DEF Open, IInv, LoadsSafe, Covers, Loading, TypeOK, entry, queue, db
<1>3. JobsSafe' 
  <2>1. \A p \in Proc : p[1] = "close" => job[p].pc = "idle" BY <1>1 DEF Proc
  <2> QED BY <2>1 DEF Open, IInv, JobsSafe, Covers, db, ghost
<1>4. StoreSafe' /\ EntriesSafe' /\ CurrentSafe' /\ OnlyTaken'
  BY <1>1 DEF Open, IInv, StoreSafe, EntriesSafe, CurrentSafe, OnlyTaken, Covers, db, entry,
             queue, ghost, TypeOK
<1> QED BY <1>2, <1>3, <1>4 DEF IInv

\* The steps of a cold load, and its failure.
LEMMA LoadSafe ==
  ASSUME TypeOK, IInv, NEW b \in Binding, LoadStep(b) \/ LoadFails(b)
  PROVE  IInv'
<1> USE ConstantFacts DEF Loading
<1>1. CASE LoadSnapshot(b)
  <2>1. LoadsSafe' BY <1>1 DEF LoadSnapshot, IInv, LoadsSafe, StoreSafe, Covers, TypeOK,
                             entry, queue, db
  <2>2. EntriesSafe'
    <3>1. lastApp[b] = 0 BY <1>1 DEF LoadSnapshot, IInv, LoadsSafe
    <3> QED BY <1>1, <3>1 DEF LoadSnapshot, IInv, EntriesSafe, Covers, TypeOK, entry, db, Seqs
  <2>3. CurrentSafe' BY <1>1 DEF LoadSnapshot, IInv, LoadsSafe, CurrentSafe, Covers, TypeOK,
                               entry, queue, db
  <2>4. JobsSafe' BY <1>1, JobType DEF LoadSnapshot, IInv, StoreSafe, JobsSafe, Covers, TypeOK, db,
                            ghost, NeedsEntry
  <2>5. StoreSafe' BY <1>1 DEF LoadSnapshot, IInv, StoreSafe, Covers, db, ghost
  <2>6. OnlyTaken' BY <1>1 DEF LoadSnapshot, IInv, OnlyTaken, TypeOK, entry, queue, db, ghost
  <2> QED BY <2>1, <2>2, <2>3, <2>4, <2>5, <2>6 DEF IInv
<1>2. CASE LoadHead(b)
  <2>1. LoadsSafe'
    <3>1. Covers(loadSeq[b], ydoc[b]) /\ head \in Int /\ loadSeq[b] \in Int
      BY <1>2 DEF LoadHead, IInv, LoadsSafe, TypeOK
    <3>2. phase'[b] # "tail" => Covers(head, ydoc[b])
      <4>1. CASE head > loadSeq[b] BY <1>2, <4>1 DEF LoadHead, TypeOK
      <4>2. CASE head <= loadSeq[b] BY <3>1, <4>2 DEF Covers, Seqs
      <4> QED BY <3>1, <4>1, <4>2
    <3>3. phase'[b] \in {"tail", "seed", "last"} BY <1>2 DEF LoadHead, TypeOK
    <3> QED BY <1>2, <3>1, <3>2, <3>3
            DEF LoadHead, IInv, LoadsSafe, Covers, TypeOK, entry, queue, db
  <2>2. EntriesSafe' BY <1>2 DEF LoadHead, IInv, EntriesSafe, Covers, TypeOK, entry, db
  <2>3. CurrentSafe' BY <1>2 DEF LoadHead, IInv, LoadsSafe, CurrentSafe, Covers, TypeOK,
                               entry, queue, db
  <2>4. StoreSafe' /\ JobsSafe' /\ OnlyTaken'
    BY <1>2 DEF LoadHead, IInv, StoreSafe, JobsSafe, OnlyTaken, Covers, entry, queue, db, ghost
  <2> QED BY <2>1, <2>2, <2>3, <2>4 DEF IInv
<1>3. CASE LoadTail(b)
  <2>1. LoadsSafe'
    <3>1. Covers(head, ydoc[b] \cup TailAfter(loadSeq[b]))
      <4>1. Covers(loadSeq[b], ydoc[b]) /\ loadSeq[b] \in Int
        BY <1>3 DEF LoadTail, IInv, LoadsSafe, TypeOK
      <4>2. \A s \in Seqs : s > loadSeq[b] => log[s] \subseteq TailAfter(loadSeq[b])
        BY DEF TailAfter
      <4> QED BY <4>1, <4>2 DEF Covers, Seqs
    <3> QED BY <1>3, <3>1 DEF LoadTail, IInv, LoadsSafe, Covers, TypeOK, entry, queue, db
  <2>2. EntriesSafe' BY <1>3 DEF LoadTail, IInv, EntriesSafe, Covers, TypeOK, entry, db
  <2>3. CurrentSafe' BY <1>3 DEF LoadTail, IInv, LoadsSafe, CurrentSafe, Covers, TypeOK,
                               entry, queue, db
  <2>4. JobsSafe' BY <1>3, JobType DEF LoadTail, IInv, JobsSafe, Covers, TypeOK, db, ghost, NeedsEntry
  <2>5. StoreSafe' BY <1>3 DEF LoadTail, IInv, StoreSafe, Covers, db, ghost
  <2>6. OnlyTaken'
    <3>1. TailAfter(loadSeq[b]) \subseteq taken BY DEF TailAfter, IInv, OnlyTaken
    <3> QED BY <1>3, <3>1 DEF LoadTail, IInv, OnlyTaken, TypeOK, entry, queue, db, ghost
  <2> QED BY <2>1, <2>2, <2>3, <2>4, <2>5, <2>6 DEF IInv
<1>4. CASE Seed(b)
  <2>1. CASE AppendRow(ydoc[b]) /\ taken' = taken
    <3>1. /\ live = b /\ current = None /\ Covers(head, ydoc[b])
          /\ Legacy \subseteq ydoc[b] /\ ydoc[b] \in SUBSET Update
      BY <1>4 DEF Seed, IInv, LoadsSafe, TypeOK
    <3>2. /\ log' = [log EXCEPT ![head + 1] = ydoc[b]] /\ head' = head + 1
          /\ logged' = logged \cup ydoc[b] /\ snap' = snap /\ snapSeq' = snapSeq
          /\ head + 1 \in Seqs /\ head \in Nat /\ snapSeq \in Nat
      <4>1. head + 1 \in Seqs /\ snap' = snap /\ snapSeq' = snapSeq
        BY <2>1, <3>1, AppendRowType
      <4>2. head \in Nat /\ snapSeq \in Nat BY DEF TypeOK
      <4> QED BY <2>1, <4>1, <4>2 DEF AppendRow
    <3>3. \A s \in Seqs : s <= head' => log'[s] \subseteq ydoc[b]
      BY <3>1, <3>2 DEF Covers, Seqs, TypeOK
    <3>4. StoreSafe'
      <4>1. \A s \in Seqs : s > head' => log'[s] = {}
        <5>1. \A s \in Seqs : s > head + 1 => s > head /\ s # head + 1 BY <3>2 DEF Seqs
        <5>2. log \in [Seqs -> SUBSET Update] BY DEF TypeOK
        <5> QED BY <3>2, <5>1, <5>2 DEF IInv, StoreSafe
      <4>2. Covers(snapSeq, snap)' BY <2>1, <3>2, AppendKeepsCovers DEF IInv, StoreSafe, Covers
      <4>3. logged' \subseteq UNION {log'[s] : s \in Seqs} BY <2>1, AppendKeepsRows DEF IInv
      <4> QED BY <3>2, <4>1, <4>2, <4>3 DEF IInv, StoreSafe
    <3>5. LoadsSafe' BY <1>4, <3>1, <3>3 DEF Seed, IInv, LoadsSafe, Covers, TypeOK, entry, queue
    <3>6. EntriesSafe'
      <4>1. ASSUME NEW c \in Binding
            PROVE  lastApp[c] \in Nat /\ loadHead[c] \in Nat /\ lastApp[c] <= head
                   /\ loadHead[c] <= head /\ Covers(lastApp[c], ydoc[c])
        BY DEF IInv, EntriesSafe, TypeOK
      <4>2. ASSUME NEW c \in Binding
            PROVE  \A s \in Seqs : s <= lastApp[c] => log'[s] \subseteq ydoc[c]
        BY <2>1, <4>1, AppendKeepsCovers
      <4> QED BY <1>4, <3>2, <4>1, <4>2 DEF Seed, EntriesSafe, Covers, entry
    <3>7. CurrentSafe' BY <1>4, <3>1 DEF Seed, IInv, CurrentSafe, LoadsSafe, TypeOK
    <3>8. JobsSafe'
      <4>1. ASSUME NEW p \in Proc, job[p].pc = "write"
            PROVE  /\ job[p].seq \in Nat /\ job[p].seq <= head
                   /\ \A s \in Seqs : s <= job[p].seq => log'[s] \subseteq job[p].blob
        BY <2>1, <4>1, JobType, AppendKeepsCovers DEF IInv, JobsSafe
      <4> QED BY <1>4, <2>1, <3>2, <4>1 DEF Seed, IInv, JobsSafe, Covers
    <3>9. OnlyTaken'
      <4>1. ydoc[b] \subseteq taken BY DEF IInv, OnlyTaken
      <4>2. \A s \in Seqs : log'[s] \subseteq taken
        BY <3>2, <4>1 DEF IInv, OnlyTaken, TypeOK
      <4> QED BY <1>4, <2>1, <3>2, <4>1, <4>2 DEF Seed, IInv, OnlyTaken, entry, queue
    <3> QED BY <3>4, <3>5, <3>6, <3>7, <3>8, <3>9 DEF IInv
  <2>2. CASE UNCHANGED <<db, ghost>>
    <3>1. LoadsSafe' BY <1>4, <2>2 DEF Seed, IInv, LoadsSafe, Covers, TypeOK, entry, queue, db
    <3>2. CurrentSafe' BY <1>4, <2>2 DEF Seed, IInv, LoadsSafe, CurrentSafe, Covers, TypeOK,
                                  entry, queue, db
    <3>3. StoreSafe' /\ EntriesSafe' /\ JobsSafe' /\ OnlyTaken'
      BY <1>4, <2>2 DEF Seed, IInv, StoreSafe, EntriesSafe, JobsSafe, OnlyTaken, Covers,
                entry, queue, db, ghost
    <3> QED BY <3>1, <3>2, <3>3 DEF IInv
  <2> QED BY <1>4, <2>1, <2>2 DEF Seed
<1>5. CASE LoadLast(b)
  <2>1. LoadsSafe' BY <1>5 DEF LoadLast, IInv, LoadsSafe, Covers, TypeOK, entry, queue, db
  <2>2. EntriesSafe' BY <1>5 DEF LoadLast, IInv, EntriesSafe, Covers, TypeOK, entry, db
  <2>3. CurrentSafe' BY <1>5 DEF LoadLast, IInv, LoadsSafe, CurrentSafe, Covers, TypeOK,
                               entry, queue, db
  <2>4. StoreSafe' /\ JobsSafe' /\ OnlyTaken'
    BY <1>5 DEF LoadLast, IInv, StoreSafe, JobsSafe, OnlyTaken, Covers, entry, queue, db, ghost
  <2> QED BY <2>1, <2>2, <2>3, <2>4 DEF IInv
<1>6. CASE Bind(b)
  <2>1. live = b /\ current = None /\ chain = << >> /\ Covers(head, ydoc[b])
        /\ Legacy \subseteq ydoc[b]
    BY <1>6 DEF Bind, IInv, LoadsSafe
  <2>2. LoadsSafe' BY <1>6, <2>1 DEF Bind, IInv, LoadsSafe, Covers, TypeOK, queue, db
  <2>3. EntriesSafe'
    <3>1. loadHead[b] <= head /\ loadHead[b] \in Int /\ head \in Int
      BY DEF IInv, EntriesSafe, TypeOK
    <3>2. Covers(loadHead[b], ydoc[b]) BY <2>1, <3>1 DEF Covers, Seqs
    <3> QED BY <1>6, <3>1, <3>2 DEF Bind, IInv, EntriesSafe, Covers, TypeOK, db
  <2>4. CurrentSafe' BY <1>6, <2>1, EmptySeq DEF Bind, IInv, CurrentSafe, Covers, TypeOK, queue, db
  <2>5. StoreSafe' /\ JobsSafe' BY <1>6 DEF Bind, IInv, StoreSafe, JobsSafe, Covers, db, ghost
  <2>6. OnlyTaken' BY <1>6 DEF Bind, IInv, OnlyTaken, TypeOK, queue, db, ghost
  <2> QED BY <2>2, <2>3, <2>4, <2>5, <2>6 DEF IInv
<1>7. CASE LoadFails(b)
  <2>1. LoadsSafe' BY <1>7 DEF LoadFails, IInv, LoadsSafe, Covers, TypeOK, entry, queue, db
  <2>2. CurrentSafe' BY <1>7 DEF LoadFails, IInv, LoadsSafe, CurrentSafe, Covers, TypeOK,
                               entry, queue, db
  <2>3. StoreSafe' /\ EntriesSafe' /\ JobsSafe' /\ OnlyTaken'
    BY <1>7 DEF LoadFails, IInv, StoreSafe, EntriesSafe, JobsSafe, OnlyTaken, Covers,
                entry, queue, db, ghost
  <2> QED BY <2>1, <2>2, <2>3 DEF IInv
<1> QED BY <1>1, <1>2, <1>3, <1>4, <1>5, <1>6, <1>7 DEF LoadStep

\* Editing, and the chain.
LEMMA EditSafe ==
  ASSUME TypeOK, IInv, NEW b \in Binding, NEW u \in Update, Edit(b, u)
  PROVE  IInv'
<1> DEFINE Y == ydoc[b] \cup {u}
<1>1. /\ current = b /\ current # None /\ live = b /\ phase[b] = "bound"
  BY DEF Edit, IInv, CurrentSafe
<1>2. /\ ydoc' = [ydoc EXCEPT ![b] = Y] /\ taken' = taken \cup {u}
      /\ Buffer(u) /\ current' = current /\ live' = live /\ phase' = phase
      /\ log' = log /\ head' = head /\ snap' = snap /\ snapSeq' = snapSeq /\ logged' = logged
      /\ lastApp' = lastApp /\ job' = job /\ loadSeq' = loadSeq /\ loadHead' = loadHead
  BY DEF Edit, db, bind
<1>3. /\ ydoc \in [Binding -> SUBSET Update] /\ pend[b] \in SUBSET Update
      /\ pend \in [Binding -> SUBSET Update]
  BY DEF TypeOK
<1>4. ASSUME NEW X, ChainBelow(X), pend[b] \cup {u} \subseteq X
      PROVE  /\ \A i \in DOMAIN chain' : chain'[i] \subseteq X
             /\ pend'[b] \subseteq X
             /\ \A c \in Binding : c # b => pend'[c] = pend[c]
  <2> DEFINE queued == IF Coalesces(u) THEN chain ELSE Append(chain, pend[current])
             buffer == IF Coalesces(u) THEN pend[current] \cup {u} ELSE {u}
  <2>1. queued \in Seq(SUBSET Update) /\ buffer \in SUBSET Update /\ buffer \subseteq X
    BY <1>1, <1>3, <1>4, AppendProperties DEF TypeOK
  <2>2. \A i \in DOMAIN queued : queued[i] \subseteq X
    BY <1>1, <1>3, <1>4, AppendBelow DEF ChainBelow
  <2>3. \/ chain' = queued /\ pend' = [pend EXCEPT ![current] = buffer]
        \/ chain' = Append(queued, buffer) /\ pend' = [pend EXCEPT ![current] = {}]
    BY <1>2 DEF Buffer
  <2> HIDE DEF queued, buffer
  <2>4. \A i \in DOMAIN Append(queued, buffer) : Append(queued, buffer)[i] \subseteq X
    BY <2>1, <2>2, SeqAppendBelow
  <2> QED BY <1>1, <1>3, <2>1, <2>2, <2>3, <2>4
<1>5. StoreSafe' BY <1>2 DEF IInv, StoreSafe, Covers
<1>6. LoadsSafe' BY <1>1, <1>2, <1>3 DEF IInv, LoadsSafe, Loading, Covers
<1>7. EntriesSafe' BY <1>2, <1>3 DEF IInv, EntriesSafe, Covers
<1>8. CurrentSafe'
  <2>1. ChainBelow(Y) /\ pend[b] \cup {u} \subseteq Y
    BY <1>1 DEF IInv, CurrentSafe, ChainBelow
  <2>2. \A i \in DOMAIN chain' : chain'[i] \subseteq Y BY <1>4, <2>1
  <2>3. pend'[b] \subseteq Y BY <1>4, <2>1
  <2> QED BY <1>1, <1>2, <1>3, <2>2, <2>3 DEF IInv, CurrentSafe, Covers
<1>9. JobsSafe' BY <1>2, <1>3, JobType DEF IInv, JobsSafe, Covers, NeedsEntry
<1>10. OnlyTaken'
  <2>1. ChainBelow(taken') /\ pend[b] \cup {u} \subseteq taken'
    BY <1>2 DEF IInv, OnlyTaken, ChainBelow
  <2>2. \A i \in DOMAIN chain' : chain'[i] \subseteq taken' BY <1>4, <2>1
  <2>3. \A c \in Binding : pend'[c] \subseteq taken'
    BY <1>2, <1>4, <2>1 DEF IInv, OnlyTaken
  <2> QED BY <1>2, <1>3, <2>2, <2>3 DEF IInv, OnlyTaken
<1> QED BY <1>5, <1>6, <1>7, <1>8, <1>9, <1>10 DEF IInv

\* An edit of a document whose load failed.
LEMMA EditUnheardSafe ==
  ASSUME TypeOK, IInv, NEW b \in Binding, NEW u \in Update, EditUnheard(b, u)
  PROVE  IInv'
<1>a. StoreSafe' BY DEF EditUnheard, IInv, StoreSafe, Covers, db
<1>b. EntriesSafe' BY DEF EditUnheard, IInv, EntriesSafe, Covers, TypeOK, db, bind, entry
<1>1. LoadsSafe'
  BY DEF EditUnheard, IInv, LoadsSafe, Covers, Loading, TypeOK, db, bind, entry, queue
<1>2. CurrentSafe' BY DEF EditUnheard, IInv, CurrentSafe, Covers, TypeOK, db, bind, entry, queue
<1>3. JobsSafe' BY JobType DEF EditUnheard, IInv, JobsSafe, Covers, TypeOK, db, NeedsEntry
<1>4. OnlyTaken' BY DEF EditUnheard, IInv, OnlyTaken, TypeOK, db, entry, queue
<1> QED BY <1>a, <1>b, <1>1, <1>2, <1>3, <1>4 DEF IInv

\* Flushing the buffer keeps the chain within the Y.Doc and what was taken.
LEMMA FlushPendingSafe ==
  ASSUME TypeOK, IInv, FlushPending
  PROVE  /\ current # None => /\ \A i \in DOMAIN chain' : chain'[i] \subseteq ydoc[current]
                              /\ pend'[current] \subseteq ydoc[current]
         /\ \A i \in DOMAIN chain' : chain'[i] \subseteq taken
         /\ \A b \in Binding : pend'[b] \subseteq taken
         /\ current = None => chain' = chain
<1>1. \A b \in Binding : pend'[b] \subseteq pend[b] /\ pend[b] \subseteq taken
  BY FlushPendingFacts DEF IInv, OnlyTaken
<1>2. ASSUME current # None
      PROVE  /\ \A i \in DOMAIN chain' : chain'[i] \subseteq ydoc[current]
             /\ pend'[current] \subseteq ydoc[current]
  <2>1. /\ ChainBelow(ydoc[current]) /\ Pending \subseteq ydoc[current]
        /\ current \in Binding /\ pend[current] \subseteq ydoc[current]
    BY <1>2 DEF IInv, CurrentSafe, ChainBelow, Pending, TypeOK
  <2> QED BY <1>1, <2>1, FlushPendingBelow
<1>3. \A i \in DOMAIN chain' : chain'[i] \subseteq taken
  <2>1. ChainBelow(taken) /\ Pending \subseteq taken
    BY <1>1 DEF IInv, OnlyTaken, ChainBelow, Pending, TypeOK
  <2> QED BY <2>1, FlushPendingBelow
<1> QED BY <1>1, <1>2, <1>3, FlushPendingFacts

\* An action that moves the buffer to the chain, or not, and otherwise only
\* works on jobs, keeps everything but perhaps the jobs safe.
LEMMA BufferOnlySafe ==
  ASSUME TypeOK, IInv, FlushPending \/ UNCHANGED <<chain, pend>>,
         UNCHANGED <<db, live, current, bind, ydoc, lastApp, taken, logged>>
  PROVE  StoreSafe' /\ LoadsSafe' /\ EntriesSafe' /\ CurrentSafe' /\ OnlyTaken'
<1>1. StoreSafe' /\ EntriesSafe'
  BY DEF IInv, StoreSafe, EntriesSafe, Covers, db, bind
<1>2. LoadsSafe'
  <2>1. current = None => chain' = chain BY FlushPendingFacts
  <2> QED BY <2>1 DEF IInv, LoadsSafe, Covers, Loading, db, bind
<1>3. CurrentSafe'
  <2>1. CASE FlushPending
    BY <2>1, FlushPendingSafe DEF IInv, CurrentSafe, Covers, db, bind
  <2>2. CASE UNCHANGED <<chain, pend>>
    BY <2>2 DEF IInv, CurrentSafe, Covers, db, bind
  <2> QED BY <2>1, <2>2
<1>4. OnlyTaken'
  <2>1. CASE FlushPending BY <2>1, FlushPendingSafe DEF IInv, OnlyTaken, db, bind
  <2>2. CASE UNCHANGED <<chain, pend>> BY <2>2 DEF IInv, OnlyTaken, db, bind
  <2> QED BY <2>1, <2>2
<1> QED BY <1>1, <1>2, <1>3, <1>4

\* A job may be replaced by one that is not about to write.
LEMMA PutSafe ==
  ASSUME JobsSafe, JobsOK, NEW p \in Proc, NEW j,
         job' = [job EXCEPT ![p] = j],
         j.pc # "write",
         j.pc = "drain" => Legacy \subseteq ydoc[j.ent],
         p[1] = "close" /\ j.pc # "idle" => live' = None,
         j.blob \subseteq taken,
         live' \in {live, None}, ydoc' = ydoc, head' = head, taken \subseteq taken',
         \A r \in Proc : job[r].pc = "write" =>
            \A s \in Seqs : s <= job[r].seq => log'[s] \subseteq job[r].blob
  PROVE  JobsSafe'
<1>1. SUFFICES ASSUME NEW r \in Proc
               PROVE  /\ job'[r].pc = "write" =>
                           /\ job'[r].seq <= head'
                           /\ \A s \in Seqs : s <= job'[r].seq => log'[s] \subseteq job'[r].blob
                           /\ Legacy \subseteq job'[r].blob
                      /\ job'[r].pc = "drain" => Legacy \subseteq ydoc'[job'[r].ent]
                      /\ r[1] = "close" /\ job'[r].pc # "idle" => live' = None
                      /\ job'[r].blob \subseteq taken'
  BY DEF JobsSafe, Covers
<1>2. CASE r = p BY <1>2 DEF JobsOK
<1>3. CASE r # p
  <2>1. job'[r] = job[r] BY <1>3 DEF JobsOK
  <2> QED BY <2>1 DEF JobsSafe, Covers
<1> QED BY <1>2, <1>3

\* While the log stays, so does what the jobs' content covers.
LEMMA JobsCoverStill ==
  ASSUME IInv, log' = log, NEW r \in Proc, job[r].pc = "write"
  PROVE  \A s \in Seqs : s <= job[r].seq => log'[s] \subseteq job[r].blob
BY DEF IInv, JobsSafe, Covers

\* The coalescing timer.
LEMMA CoalesceTimerSafe ==
  ASSUME TypeOK, IInv, CoalesceTimer PROVE IInv'
<1>1. StoreSafe' /\ LoadsSafe' /\ EntriesSafe' /\ CurrentSafe' /\ OnlyTaken'
  <2>1. FlushPending /\ UNCHANGED <<db, live, current, bind, ydoc, lastApp, taken, logged>>
    BY DEF CoalesceTimer, ghost
  <2> QED BY <2>1, BufferOnlySafe
<1>2. JobsSafe' BY DEF CoalesceTimer, IInv, JobsSafe, Covers, db, ghost
<1> QED BY <1>1, <1>2 DEF IInv

\* The row appended holds what the current entry's Y.Doc holds already.
LEMMA AppendCommitsSafe ==
  ASSUME TypeOK, IInv, AppendCommits PROVE IInv'
<1> DEFINE blob == Head(chain)
<1>1. chain # << >> /\ chain \in Seq(SUBSET Update) BY DEF AppendCommits, TypeOK
<1>2. blob \in SUBSET Update BY <1>1, HeadTailProperties
<1>3. AppendRow(blob) BY DEF AppendCommits
<1>4. /\ log' = [log EXCEPT ![head + 1] = blob] /\ head' = head + 1
      /\ logged' = logged \cup blob /\ snap' = snap /\ snapSeq' = snapSeq
      /\ chain' = Tail(chain)
      /\ lastApp' = IF current = None THEN lastApp ELSE [lastApp EXCEPT ![current] = head + 1]
      /\ live' = live /\ current' = current /\ phase' = phase /\ ydoc' = ydoc /\ pend' = pend
      /\ loadSeq' = loadSeq /\ loadHead' = loadHead /\ job' = job /\ taken' = taken
  BY DEF AppendCommits, AppendRow, bind
<1>5. /\ head \in Nat /\ snapSeq \in Nat /\ head + 1 \in Seqs /\ lastApp \in [Binding -> Nat]
      /\ log \in [Seqs -> SUBSET Update] /\ loadHead \in [Binding -> Nat]
      /\ current \in Binding \cup {None}
  <2>1. head + 1 \in Seqs BY <1>2, <1>3, AppendRowType
  <2> QED BY <2>1 DEF TypeOK
<1>6. \A s \in Seqs : s <= head + 1 => s = head + 1 \/ s <= head BY <1>5 DEF Seqs
<1>7. blob \subseteq taken
  <2>1. ChainBelow(taken) BY DEF IInv, OnlyTaken, ChainBelow
  <2> QED BY <1>1, <2>1, TailBelow
<1>8. StoreSafe'
  <2>1. \A s \in Seqs : s > head' => log'[s] = {}
    <3>1. \A s \in Seqs : s > head + 1 => s > head /\ s # head + 1 BY <1>5 DEF Seqs
    <3> QED BY <1>4, <1>5, <3>1 DEF IInv, StoreSafe
  <2>2. \A s \in Seqs : s <= snapSeq => log'[s] \subseteq snap
    <3>1. snapSeq <= head /\ Covers(snapSeq, snap) BY DEF IInv, StoreSafe
    <3>2. snapSeq \in Int BY <1>5
    <3> HIDE DEF blob
    <3> QED BY <1>3, <3>1, <3>2, AppendKeepsCovers
  <2>3. logged' \subseteq UNION {log'[s] : s \in Seqs} BY <1>3, AppendKeepsRows DEF IInv
  <2>4. snapSeq' <= head' BY <1>4, <1>5 DEF IInv, StoreSafe
  <2> QED BY <1>4, <2>1, <2>2, <2>3, <2>4 DEF IInv, StoreSafe, Covers
<1>9. LoadsSafe'
  <2>1. \A b \in Binding : phase[b] \notin Loading BY <1>1 DEF IInv, LoadsSafe
  <2>2. current # None => phase[current] # "unused" BY DEF IInv, CurrentSafe
  <2> QED BY <1>4, <1>5, <2>1, <2>2 DEF IInv, LoadsSafe, Loading
<1>10. \A s \in Seqs : s <= head + 1 /\ current # None => log'[s] \subseteq ydoc[current]
  <2>1. SUFFICES ASSUME current # None, NEW s \in Seqs, s <= head + 1
                 PROVE  log'[s] \subseteq ydoc[current]
    OBVIOUS
  <2>2. blob \subseteq ydoc[current]
    <3>1. ChainBelow(ydoc[current]) BY <2>1 DEF IInv, CurrentSafe, ChainBelow
    <3> QED BY <1>1, <3>1, TailBelow
  <2>3. Covers(head, ydoc[current]) BY <2>1 DEF IInv, CurrentSafe
  <2> QED BY <1>4, <1>5, <1>6, <2>1, <2>2, <2>3 DEF Covers
<1>11. EntriesSafe'
  <2>1. SUFFICES ASSUME NEW b \in Binding
                 PROVE  loadHead[b] <= head + 1 /\ lastApp'[b] <= head + 1
                        /\ \A s \in Seqs : s <= lastApp'[b] => log'[s] \subseteq ydoc[b]
    BY <1>4 DEF EntriesSafe, Covers
  <2>2. loadHead[b] <= head /\ lastApp[b] <= head /\ Covers(lastApp[b], ydoc[b])
    BY DEF IInv, EntriesSafe
  <2>3. \A s \in Seqs : s <= lastApp[b] => log'[s] \subseteq ydoc[b]
    BY <1>3, <1>5, <2>2, AppendKeepsCovers
  <2>4. CASE current = b /\ current # None
    <3>1. lastApp'[b] = head + 1 BY <1>4, <1>5, <2>4
    <3> QED BY <1>5, <1>10, <2>2, <2>4, <3>1
  <2>5. CASE ~(current = b /\ current # None)
    <3>1. lastApp'[b] = lastApp[b] BY <1>4, <1>5, <2>5
    <3> QED BY <1>5, <2>2, <2>3, <3>1
  <2> QED BY <2>4, <2>5
<1>12. CurrentSafe'
  <2>1. ASSUME current # None
        PROVE  \A i \in DOMAIN chain' : chain'[i] \subseteq ydoc[current]
    <3>1. ChainBelow(ydoc[current]) BY <2>1 DEF IInv, CurrentSafe, ChainBelow
    <3> QED BY <1>1, <1>4, <3>1, TailBelow
  <2> QED BY <1>4, <1>10, <2>1 DEF IInv, CurrentSafe, Covers
<1>13. JobsSafe'
  <2>1. ASSUME NEW p \in Proc, job[p].pc = "write"
        PROVE  /\ job[p].seq \in Nat /\ job[p].seq <= head
               /\ \A s \in Seqs : s <= job[p].seq => log'[s] \subseteq job[p].blob
    BY <1>3, <2>1, JobType, AppendKeepsCovers DEF IInv, JobsSafe
  <2> QED BY <1>4, <1>5, <2>1 DEF IInv, JobsSafe, Covers
<1>14. OnlyTaken'
  <2>1. \A i \in DOMAIN chain' : chain'[i] \subseteq taken
    <3>1. ChainBelow(taken) BY DEF IInv, OnlyTaken, ChainBelow
    <3> QED BY <1>1, <1>4, <3>1, TailBelow
  <2>2. \A s \in Seqs : log'[s] \subseteq taken BY <1>4, <1>5, <1>7 DEF IInv, OnlyTaken
  <2> QED BY <1>4, <1>7, <2>1, <2>2 DEF IInv, OnlyTaken
<1> QED BY <1>8, <1>9, <1>11, <1>12, <1>13, <1>14 DEF IInv

\* A failing append.
LEMMA AppendFailsSafe ==
  ASSUME TypeOK, IInv, AppendFails PROVE IInv'
<1>1. chain # << >> /\ chain' = Tail(chain) BY DEF AppendFails
<1>2. ASSUME NEW X, ChainBelow(X) PROVE \A i \in DOMAIN chain' : chain'[i] \subseteq X
  BY <1>1, <1>2, TailBelow
<1>3. StoreSafe' /\ EntriesSafe' /\ JobsSafe'
  BY DEF AppendFails, IInv, StoreSafe, EntriesSafe, JobsSafe, Covers, db, bind, entry, ghost
<1>4. LoadsSafe'
  BY <1>1 DEF AppendFails, IInv, LoadsSafe, Covers, db, bind, entry
<1>5. CurrentSafe'
  <2>1. current # None => \A i \in DOMAIN chain' : chain'[i] \subseteq ydoc[current]
    BY <1>2 DEF IInv, CurrentSafe, ChainBelow
  <2> QED BY <2>1 DEF AppendFails, IInv, CurrentSafe, Covers, db, bind, entry
<1>6. OnlyTaken'
  <2>1. \A i \in DOMAIN chain' : chain'[i] \subseteq taken
    BY <1>2 DEF IInv, OnlyTaken, ChainBelow
  <2> QED BY <2>1 DEF AppendFails, IInv, OnlyTaken, db, entry, ghost
<1> QED BY <1>3, <1>4, <1>5, <1>6 DEF IInv

\* Starting a snapshot: flush, checkpoint, and the closing of the document.
LEMMA StartSafe ==
  ASSUME TypeOK, JobsSafe, OnlyTaken, NEW p \in Proc, NEW e \in Binding \cup {None},
         NEW pc \in {"drain", "compact"}, StartJob(p, e, pc),
         pc = "drain" => Legacy \subseteq ydoc[e],
         p[1] = "close" => live' = None,
         live' \in {live, None}, ydoc' = ydoc, UNCHANGED db, taken' = taken
  PROVE  JobsSafe'
<1> DEFINE j == [Idle EXCEPT !.pc = pc, !.ent = e, !.target = Target]
<1>1. job' = [job EXCEPT ![p] = j] BY DEF StartJob
<1>2. /\ j.pc = pc /\ j.ent = e /\ j.blob = {}
      /\ j.pc # "write"
  BY DEF Idle
<1>3. log' = log /\ head' = head BY DEF db
<1>4. \A r \in Proc : job[r].pc = "write" =>
         \A s \in Seqs : s <= job[r].seq => log'[s] \subseteq job[r].blob
  BY <1>3 DEF JobsSafe, Covers
<1>5. JobsOK BY DEF TypeOK
<1> HIDE DEF j
<1> QED BY <1>1, <1>2, <1>3, <1>4, <1>5, PutSafe

\* An idle or max timer.
LEMMA FlushTimerSafe ==
  ASSUME TypeOK, IInv, NEW b \in Binding, FlushTimer(b) PROVE IInv'
<1>1. UNCHANGED <<db, live, current, bind, ydoc, lastApp, taken, logged>>
  BY DEF FlushTimer, ghost
<1>2. CASE CanFlush(current)
  <2>1. FlushPending /\ StartJob(<<"flush", current>>, current, "drain")
    BY <1>2 DEF FlushTimer, BeginFlush
  <2>2. current \in Binding /\ current # None BY <1>2 DEF CanFlush, TypeOK
  <2>3. Legacy \subseteq ydoc[current] BY <2>2 DEF IInv, CurrentSafe
  <2>4. <<"flush", current>>[1] # "close" OBVIOUS
  <2>5. JobsSafe' BY <1>1, <2>1, <2>2, <2>3, <2>4, ProcType, StartSafe DEF IInv
  <2> QED BY <1>1, <2>1, <2>5, BufferOnlySafe DEF IInv
<1>3. CASE ~CanFlush(current)
  <2>1. UNCHANGED <<chain, pend>> /\ job' = job BY <1>3 DEF FlushTimer
  <2>2. JobsSafe' BY <1>1, <2>1 DEF IInv, JobsSafe, Covers, db
  <2> QED BY <1>1, <2>1, <2>2, BufferOnlySafe DEF IInv
<1> QED BY <1>2, <1>3

\* The interval timer or forceCheckpoint.
LEMMA CheckpointSafe ==
  ASSUME TypeOK, IInv, Checkpoint PROVE IInv'
<1>1. UNCHANGED <<db, live, current, bind, ydoc, lastApp, taken, logged>>
  BY DEF Checkpoint, ghost
<1>2. current \in Binding /\ current # None BY DEF Checkpoint, TypeOK
<1>3. Legacy \subseteq ydoc[current] BY <1>2 DEF IInv, CurrentSafe
<1>4. FlushPending /\ StartJob(<<"timer", current>>, current, "drain") BY DEF Checkpoint
<1>5. <<"timer", current>>[1] # "close" OBVIOUS
<1>6. JobsSafe' BY <1>1, <1>2, <1>3, <1>4, <1>5, ProcType, StartSafe DEF IInv
<1> QED BY <1>1, <1>4, <1>6, BufferOnlySafe DEF IInv

\* The last client leaves.
LEMMA CloseSafe ==
  ASSUME TypeOK, IInv, NEW b \in Binding, Close(b) PROVE IInv'
<1>1. /\ live = b /\ phase[b] \in {"bound", "failed"} /\ live' = None
      /\ phase' = [phase EXCEPT ![b] = "dead"] /\ FlushPending
      /\ UNCHANGED <<db, current, loadSeq, loadHead, ydoc, lastApp, taken, logged>>
  BY DEF Close, ghost
<1>2. \A c \in Binding : phase[c] \notin Loading
  BY <1>1 DEF IInv, LoadsSafe, Loading
<1>3. StoreSafe' /\ EntriesSafe'
  BY <1>1 DEF IInv, StoreSafe, EntriesSafe, Covers, db
<1>4. LoadsSafe' BY <1>1, <1>2 DEF IInv, LoadsSafe, Loading, TypeOK
<1>5. CurrentSafe'
  BY <1>1, FlushPendingSafe, ConstantFacts DEF IInv, CurrentSafe, Covers, TypeOK, db
<1>6. OnlyTaken' BY <1>1, FlushPendingSafe DEF IInv, OnlyTaken, db
<1>7. JobsSafe'
  <2> DEFINE pc == IF current = None THEN "compact" ELSE "drain"
  <2>1. StartJob(<<"close", b>>, current, pc) BY DEF Close
  <2>2. pc \in {"drain", "compact"} /\ (pc = "drain" => Legacy \subseteq ydoc[current])
    BY DEF IInv, CurrentSafe
  <2>3. current \in Binding \cup {None} /\ <<"close", b>> \in Proc BY ProcType DEF TypeOK
  <2>4. JobsSafe /\ OnlyTaken BY DEF IInv
  <2> HIDE DEF pc
  <2> QED BY <1>1, <2>1, <2>2, <2>3, <2>4, StartSafe
<1> QED BY <1>3, <1>4, <1>5, <1>6, <1>7 DEF IInv

\* Taking, writing and leaving a snapshot.
LEMMA AfterSafe ==
  ASSUME TypeOK, IInv, NEW p \in Proc, job[p].pc # "idle",
         job' = [job EXCEPT ![p] = After(p)],
         UNCHANGED <<log, head, live, ydoc, taken>>
  PROVE  JobsSafe'
<1> DEFINE j == After(p)
<1>1. j.pc # "write" /\ j.pc # "drain" BY AfterType DEF NeedsEntry
<1>2. j.blob \subseteq taken
  <2>1. CASE p[1] = "close" BY <2>1, JobType DEF After, Jobs
  <2>2. CASE p[1] # "close" BY <2>2 DEF After, Idle
  <2> QED BY <2>1, <2>2
<1>3. p[1] = "close" => live' = None BY DEF IInv, JobsSafe
<1>4. \A r \in Proc : job[r].pc = "write" =>
         \A s \in Seqs : s <= job[r].seq => log'[s] \subseteq job[r].blob
  BY DEF IInv, JobsSafe, Covers
<1>5. JobsOK /\ JobsSafe BY DEF TypeOK, IInv
<1>6. live' \in {live, None} /\ taken \subseteq taken' OBVIOUS
<1> HIDE DEF j
<1> QED BY <1>1, <1>2, <1>3, <1>4, <1>5, <1>6, PutSafe DEF j

\* Encode, commit, resume, or a failing write.
LEMMA JobStepSafe ==
  ASSUME TypeOK, IInv, NEW p \in Proc, JobStep(p) \/ WriteFails(p) PROVE IInv'
<1>1. CASE Encode(p)
  <2> DEFINE e == job[p].ent
             i == [job[p] EXCEPT !.pc = "write", !.seq = lastApp[e], !.blob = ydoc[e]]
  <2>1. job[p].pc = "drain" /\ e \in Binding /\ Legacy \subseteq ydoc[e]
    BY <1>1, JobType DEF Encode, NeedsEntry, IInv, JobsSafe
  <2>2. UNCHANGED <<db, live, current, bind, ydoc, lastApp, taken, logged, chain, pend>>
    BY <1>1 DEF Encode, entry, queue, ghost
  <2>3. JobsSafe'
    <3>1. CASE lastApp[e] = snapAt[e]
      <4>1. job' = [job EXCEPT ![p] = After(p)] BY <1>1, <3>1 DEF Encode
      <4> QED BY <2>1, <2>2, <4>1, AfterSafe DEF db
    <3>2. CASE lastApp[e] # snapAt[e]
      <4>1. job' = [job EXCEPT ![p] = i] BY <1>1, <3>2 DEF Encode
      <4>2. i.pc = "write" /\ i.seq = lastApp[e] /\ i.blob = ydoc[e]
        BY JobType DEF Jobs
      <4>3. lastApp[e] <= head /\ Covers(lastApp[e], ydoc[e]) /\ ydoc[e] \subseteq taken
        BY <2>1 DEF IInv, EntriesSafe, OnlyTaken
      <4>4. p[1] = "close" => live = None BY <2>1 DEF IInv, JobsSafe
      <4>5. JobsOK BY DEF TypeOK
      <4> HIDE DEF i
      <4>6. ASSUME NEW r \in Proc, r # p PROVE job'[r] = job[r]
        BY <4>1, <4>5, <4>6 DEF JobsOK
      <4>7. job'[p] = i BY <4>1, <4>5 DEF JobsOK
      <4> QED BY <2>1, <2>2, <4>2, <4>3, <4>4, <4>6, <4>7 DEF IInv, JobsSafe, Covers, db
    <3> QED BY <3>1, <3>2
  <2> QED BY <2>2, <2>3, BufferOnlySafe DEF IInv
<1>2. CASE Commit(p)
  <2>1. /\ job[p].pc = "write" /\ snap' = job[p].blob /\ snapSeq' = job[p].seq
        /\ job' = [job EXCEPT ![p].pc = "resume"]
        /\ UNCHANGED <<log, head, live, current, bind, ydoc, lastApp, taken, logged,
                       chain, pend>>
    BY <1>2 DEF Commit, entry, queue, ghost
  <2>2. /\ job[p].seq <= head /\ Covers(job[p].seq, job[p].blob)
        /\ Legacy \subseteq job[p].blob /\ job[p].blob \subseteq taken
    BY <2>1 DEF IInv, JobsSafe
  <2>3. StoreSafe' BY <2>1, <2>2 DEF IInv, StoreSafe, Covers
  <2>4. LoadsSafe' /\ EntriesSafe' /\ CurrentSafe'
    BY <2>1 DEF IInv, LoadsSafe, EntriesSafe, CurrentSafe, Covers, bind
  <2>5. OnlyTaken' BY <2>1, <2>2 DEF IInv, OnlyTaken
  <2>6. JobsSafe'
    <3>1. JobsOK BY DEF TypeOK
    <3>2. ASSUME NEW r \in Proc, r # p PROVE job'[r] = job[r]
      BY <2>1, <3>1, <3>2 DEF JobsOK
    <3>3. job'[p].pc = "resume" /\ job'[p].blob = job[p].blob
      BY <2>1, <3>1 DEF JobsOK, Jobs
    <3> QED BY <2>1, <2>2, <3>2, <3>3 DEF IInv, JobsSafe, Covers
  <2> QED BY <2>3, <2>4, <2>5, <2>6 DEF IInv
<1>3. CASE Resume(p) \/ WriteFails(p)
  <2>1. /\ UNCHANGED <<db, live, current, bind, ydoc, lastApp, taken, logged, chain, pend>>
        /\ job' = [job EXCEPT ![p] = After(p)] /\ job[p].pc # "idle"
    BY <1>3 DEF Resume, WriteFails, queue, ghost
  <2>2. JobsSafe' BY <2>1, AfterSafe DEF db
  <2> QED BY <2>1, <2>2, BufferOnlySafe DEF IInv
<1> QED BY <1>1, <1>2, <1>3 DEF JobStep

\* Closing, compaction, crash.
LEMMA CompactSafe ==
  ASSUME TypeOK, IInv, NEW S \in Mergeable, Compact(S),
         FlushPending \/ UNCHANGED <<chain, pend>>,
         UNCHANGED <<live, current, bind, ydoc, lastApp, taken, logged>>
  PROVE  StoreSafe' /\ LoadsSafe' /\ EntriesSafe' /\ CurrentSafe' /\ OnlyTaken'
<1>1. /\ S \subseteq Seqs /\ snap' = snap /\ snapSeq' = snapSeq /\ head' = head
      /\ head \in Int /\ snapSeq \in Int
  BY DEF Mergeable, Compact, TypeOK
<1>2. ASSUME NEW q \in Int, NEW B, Covers(q, B)
      PROVE  \A s \in Seqs : s <= q => log'[s] \subseteq B
  BY <1>2, CompactKeepsCovers
<1>3. PICK last \in S :
        /\ last <= snapSeq
        /\ log' = [s \in Seqs |-> IF s = last THEN UNION {log[r] : r \in S}
                                  ELSE IF s \in S THEN {} ELSE log[s]]
  BY DEF Compact
<1>4. StoreSafe'
  <2>1. ASSUME NEW s \in Seqs, s > head PROVE log'[s] = {}
    <3>1. s # last BY <1>1, <1>3, <2>1 DEF IInv, StoreSafe, Seqs
    <3>2. log[s] = {} BY <2>1 DEF IInv, StoreSafe
    <3> QED BY <1>3, <3>1, <3>2
  <2>2. \A s \in Seqs : s <= snapSeq => log'[s] \subseteq snap
    BY <1>1, <1>2 DEF IInv, StoreSafe
  <2>3. logged' \subseteq UNION {log'[s] : s \in Seqs}
    BY CompactKeepsRows DEF IInv, StoreSafe
  <2> QED BY <1>1, <2>1, <2>2, <2>3 DEF IInv, StoreSafe, Covers
<1>5. LoadsSafe'
  <2>1. current = None => chain' = chain BY FlushPendingFacts
  <2>2. ASSUME NEW b \in Binding
        PROVE  /\ phase[b] \in {"head", "tail"} =>
                    \A s \in Seqs : s <= loadSeq[b] => log'[s] \subseteq ydoc[b]
               /\ phase[b] \in {"seed", "last", "set"} =>
                    \A s \in Seqs : s <= head => log'[s] \subseteq ydoc[b]
    <3>1. loadSeq[b] \in Int BY DEF TypeOK
    <3> QED BY <1>1, <1>2, <3>1 DEF IInv, LoadsSafe
  <2> QED BY <1>1, <2>1, <2>2 DEF IInv, LoadsSafe, Covers, Loading, bind
<1>6. EntriesSafe'
  <2>1. ASSUME NEW b \in Binding
        PROVE  \A s \in Seqs : s <= lastApp[b] => log'[s] \subseteq ydoc[b]
    <3>1. lastApp[b] \in Int BY DEF TypeOK
    <3> QED BY <1>2, <3>1 DEF IInv, EntriesSafe
  <2> QED BY <1>1, <2>1 DEF IInv, EntriesSafe, Covers, bind
<1>7. CurrentSafe'
  <2>1. current # None => \A s \in Seqs : s <= head => log'[s] \subseteq ydoc[current]
    BY <1>1, <1>2 DEF IInv, CurrentSafe
  <2>2. CASE FlushPending
    BY <1>1, <2>1, <2>2, FlushPendingSafe DEF IInv, CurrentSafe, Covers, bind
  <2>3. CASE UNCHANGED <<chain, pend>>
    BY <1>1, <2>1, <2>3 DEF IInv, CurrentSafe, Covers, bind
  <2> QED BY <2>2, <2>3
<1>8. OnlyTaken'
  <2>1. \A s \in Seqs : log'[s] \subseteq taken
    <3>1. UNION {log[r] : r \in S} \subseteq taken BY <1>1 DEF IInv, OnlyTaken
    <3> QED BY <1>3, <3>1 DEF IInv, OnlyTaken
  <2>2. CASE FlushPending BY <1>1, <2>1, <2>2, FlushPendingSafe DEF IInv, OnlyTaken
  <2>3. CASE UNCHANGED <<chain, pend>> BY <1>1, <2>1, <2>3 DEF IInv, OnlyTaken
  <2> QED BY <2>2, <2>3
<1> QED BY <1>4, <1>5, <1>6, <1>7, <1>8

\* A compaction drops no row beyond what the jobs' content covers.
LEMMA CompactJobs ==
  ASSUME TypeOK, IInv, NEW S \in Mergeable, Compact(S)
  PROVE  /\ head' = head
         /\ \A r \in Proc : job[r].pc = "write" =>
              \A s \in Seqs : s <= job[r].seq => log'[s] \subseteq job[r].blob
<1>1. ASSUME NEW r \in Proc, job[r].pc = "write"
      PROVE  \A s \in Seqs : s <= job[r].seq => log'[s] \subseteq job[r].blob
  <2>1. job[r].seq \in Int /\ Covers(job[r].seq, job[r].blob)
    BY <1>1, JobType DEF IInv, JobsSafe
  <2> QED BY <2>1, CompactKeepsCovers
<1> QED BY <1>1 DEF Compact

\* The scheduled compaction.
LEMMA CompactionPassSafe ==
  ASSUME TypeOK, IInv, CompactionPass PROVE IInv'
<1>1. PICK S \in Mergeable : Compact(S) BY DEF CompactionPass
<1>2. UNCHANGED <<live, current, bind, ydoc, lastApp, taken, logged, chain, pend>>
      /\ job' = job
  BY DEF CompactionPass, entry, queue, ghost
<1>3. StoreSafe' /\ LoadsSafe' /\ EntriesSafe' /\ CurrentSafe' /\ OnlyTaken'
  BY <1>1, <1>2, CompactSafe
<1>4. JobsSafe' BY <1>1, <1>2, CompactJobs DEF IInv, JobsSafe, Covers
<1> QED BY <1>3, <1>4 DEF IInv

\* The rest of writeState.
LEMMA CloseStepSafe ==
  ASSUME TypeOK, IInv, NEW b \in Binding, CloseStep(b) PROVE IInv'
<1> DEFINE p == <<"close", b>>
<1>1. p \in Proc /\ p[1] = "close" BY ProcType
<1>2. JobsOK /\ JobsSafe /\ OnlyTaken BY DEF TypeOK, IInv
<1>3. job[p].pc # "idle" => live = None BY <1>1, <1>2 DEF JobsSafe
<1>4. \A r \in Proc : job[r].blob \subseteq taken BY <1>2 DEF JobsSafe
<1>5. log' = log => \A r \in Proc : job[r].pc = "write" =>
         \A s \in Seqs : s <= job[r].seq => log'[s] \subseteq job[r].blob
  BY JobsCoverStill
<1> HIDE DEF p
<1>6. CASE CloseFlush(b)
  <2>1. /\ UNCHANGED <<db, live, current, bind, ydoc, lastApp, taken, logged>>
        /\ job[p].pc = "flush"
    BY <1>6 DEF CloseFlush, ghost, p
  <2>2. CASE CanFlush(current)
    <3> DEFINE f == <<"flush", current>>
               i == [job[p] EXCEPT !.pc = "await", !.on = current]
               j == [Idle EXCEPT !.pc = "drain", !.ent = current, !.target = Target]
    <3>1. current \in Binding /\ current # None /\ f \in Proc /\ f[1] = "flush"
      BY <2>2, ProcType DEF CanFlush, TypeOK
    <3>2. FlushPending BY <1>6, <2>2 DEF CloseFlush, BeginFlush
    <3>3. job' = [job EXCEPT ![p] = i, ![f] = j] BY <1>6, <2>2 DEF CloseFlush, p
    <3>4. i.pc = "await" /\ i.blob = job[p].blob BY <1>1, JobType DEF Jobs
    <3>5. j.pc = "drain" /\ j.ent = current /\ j.blob = {} BY DEF Idle
    <3>6. Legacy \subseteq ydoc[current] BY <3>1 DEF IInv, CurrentSafe
    <3>7. f # p BY <1>1, <3>1
    <3> HIDE DEF i, j, f
    <3>8. job'[p] = i /\ job'[f] = j /\ \A r \in Proc : r # p /\ r # f => job'[r] = job[r]
      BY <1>1, <1>2, <3>1, <3>3, <3>7 DEF JobsOK
    <3>9. JobsSafe'
      BY <1>1, <1>2, <1>3, <1>4, <2>1, <3>1, <3>4, <3>5, <3>6, <3>8 DEF JobsSafe, Covers, db
    <3> QED BY <2>1, <3>2, <3>9, BufferOnlySafe DEF IInv
  <2>3. CASE ~CanFlush(current)
    <3> DEFINE s == IF current = None THEN "compact" ELSE "await"
               i == [job[p] EXCEPT !.pc = s, !.on = current]
    <3>1. job' = [job EXCEPT ![p] = i] /\ UNCHANGED <<chain, pend>>
      BY <1>6, <2>3 DEF CloseFlush, p
    <3>2. i.pc # "write" /\ i.pc # "drain" /\ i.blob = job[p].blob
      BY <1>1, JobType DEF Jobs
    <3> HIDE DEF i
    <3>3. JobsSafe'
      BY <1>1, <1>2, <1>3, <1>4, <1>5, <2>1, <3>1, <3>2, PutSafe DEF db
    <3> QED BY <2>1, <3>1, <3>3, BufferOnlySafe DEF IInv
  <2> QED BY <2>2, <2>3
<1>7. CASE CloseAwaitsFlush(b)
  <2> DEFINE i == [job[p] EXCEPT !.pc = "compact"]
  <2>1. /\ UNCHANGED <<db, live, current, bind, ydoc, lastApp, taken, logged, chain, pend>>
        /\ job[p].pc = "await" /\ job' = [job EXCEPT ![p] = i]
    BY <1>7 DEF CloseAwaitsFlush, entry, queue, ghost, p
  <2>2. i.pc = "compact" /\ i.blob = job[p].blob BY <1>1, JobType DEF Jobs
  <2> HIDE DEF i
  <2>3. JobsSafe' BY <1>1, <1>2, <1>3, <1>4, <1>5, <2>1, <2>2, PutSafe DEF db
  <2> QED BY <2>1, <2>3, BufferOnlySafe DEF IInv
<1>8. CASE CloseCompacts(b)
  <2> DEFINE i == [job[p] EXCEPT !.pc = "settle", !.target = Target]
  <2>1. /\ UNCHANGED <<live, current, bind, ydoc, lastApp, taken, logged>>
        /\ job[p].pc = "compact" /\ job' = [job EXCEPT ![p] = i] /\ FlushPending
    BY <1>8 DEF CloseCompacts, ghost, p
  <2>2. i.pc = "settle" /\ i.blob = job[p].blob BY <1>1, JobType DEF Jobs
  <2> HIDE DEF i
  <2>3. CASE \E S \in Mergeable : Compact(S)
    <3>1. PICK S \in Mergeable : Compact(S) BY <2>3
    <3>2. JobsSafe'
      <4>1. /\ head' = head
            /\ \A r \in Proc : job[r].pc = "write" =>
                 \A s \in Seqs : s <= job[r].seq => log'[s] \subseteq job[r].blob
        BY <3>1, CompactJobs
      <4> QED BY <1>1, <1>2, <1>3, <1>4, <2>1, <2>2, <4>1, PutSafe
    <3> QED BY <2>1, <3>1, <3>2, CompactSafe DEF IInv
  <2>4. CASE UNCHANGED db
    <3>1. JobsSafe' BY <1>1, <1>2, <1>3, <1>4, <1>5, <2>1, <2>2, <2>4, PutSafe DEF db
    <3> QED BY <2>1, <2>4, <3>1, BufferOnlySafe DEF IInv
  <2> QED BY <1>8, <2>3, <2>4 DEF CloseCompacts
<1>9. CASE CloseEvicts(b)
  <2>1. /\ UNCHANGED <<db, live, bind, ydoc, lastApp, pend, chain, taken, logged>>
        /\ job[p].pc = "settle" /\ job' = [job EXCEPT ![p] = Idle]
        /\ current' \in {current, None}
    BY <1>9 DEF CloseEvicts, queue, ghost, p
  <2>2. live = None BY <1>3, <2>1
  <2>3. \A c \in Binding : phase[c] \notin Loading
    BY <2>2, ConstantFacts DEF IInv, LoadsSafe
  <2>4. StoreSafe' /\ EntriesSafe' /\ OnlyTaken'
    BY <2>1 DEF IInv, StoreSafe, EntriesSafe, OnlyTaken, Covers, db, bind
  <2>5. LoadsSafe' BY <2>1, <2>3 DEF IInv, LoadsSafe, Loading, bind
  <2>6. CurrentSafe'
    BY <2>1, <2>2, ConstantFacts DEF IInv, CurrentSafe, Covers, db, bind
  <2>7. JobsSafe'
    <3>1. Idle.pc = "idle" /\ Idle.blob = {} BY DEF Idle
    <3> QED BY <1>1, <1>2, <1>5, <2>1, <2>2, <3>1, PutSafe DEF db
  <2> QED BY <2>4, <2>5, <2>6, <2>7 DEF IInv
<1> QED BY <1>6, <1>7, <1>8, <1>9 DEF CloseStep

\* A crash leaves the database alone.
LEMMA CrashSafe ==
  ASSUME TypeOK, IInv, Crash PROVE IInv'
<1>1. \A b \in Binding : phase'[b] \in {"unused", "dead"} BY DEF Crash
<1>2. /\ UNCHANGED <<db, loadSeq, loadHead, taken, logged>>
      /\ live' = None /\ current' = None /\ chain' = << >>
      /\ ydoc' = [b \in Binding |-> {}] /\ pend' = [b \in Binding |-> {}]
      /\ lastApp' = [b \in Binding |-> 0] /\ job' = [p \in Proc |-> Idle]
  BY DEF Crash
<1>3. StoreSafe' BY <1>2 DEF IInv, StoreSafe, Covers, db
<1>4. LoadsSafe' BY <1>1, <1>2 DEF LoadsSafe, Loading
<1>5. EntriesSafe'
  <2>1. head \in Nat BY DEF TypeOK
  <2>2. \A s \in Seqs : ~(s <= 0) BY ConstantFacts DEF Seqs
  <2> QED BY <1>2, <2>1, <2>2 DEF IInv, EntriesSafe, Covers, db
<1>6. CurrentSafe' BY <1>2, ConstantFacts DEF CurrentSafe
<1>7. JobsSafe' BY <1>2 DEF JobsSafe, Idle
<1>8. OnlyTaken' BY <1>2, EmptySeq DEF IInv, OnlyTaken, db
<1> QED BY <1>3, <1>4, <1>5, <1>6, <1>7, <1>8 DEF IInv

\* A stuttering step.
LEMMA StutterSafe == TypeOK /\ IInv /\ UNCHANGED vars => IInv'
BY DEF vars, db, bind, entry, queue, ghost, IInv, StoreSafe, LoadsSafe, EntriesSafe, CurrentSafe,
       JobsSafe, OnlyTaken, Covers

\* No step breaks the invariant, if no reconnect overlaps a writeState.
LEMMA StepSafe ==
  ASSUME Overlap = FALSE, TypeOK, IInv, [Next]_vars PROVE IInv'
<1>1. ASSUME NEW b \in Binding, Open(b) PROVE IInv' BY <1>1, OpenSafe
<1>2. ASSUME NEW b \in Binding, LoadStep(b) \/ LoadFails(b) PROVE IInv' BY <1>2, LoadSafe
<1>3. ASSUME NEW b \in Binding, FlushTimer(b) PROVE IInv' BY <1>3, FlushTimerSafe
<1>4. ASSUME NEW b \in Binding, Close(b) PROVE IInv' BY <1>4, CloseSafe
<1>5. ASSUME NEW b \in Binding, CloseStep(b) PROVE IInv' BY <1>5, CloseStepSafe
<1>6. ASSUME NEW b \in Binding, NEW u \in Update, Edit(b, u) PROVE IInv' BY <1>6, EditSafe
<1>7. ASSUME NEW b \in Binding, NEW u \in Update, EditUnheard(b, u) PROVE IInv'
  BY <1>7, EditUnheardSafe
<1>8. CASE CoalesceTimer BY <1>8, CoalesceTimerSafe
<1>9. CASE AppendCommits BY <1>9, AppendCommitsSafe
<1>10. CASE AppendFails BY <1>10, AppendFailsSafe
<1>11. CASE Checkpoint BY <1>11, CheckpointSafe
<1>12. CASE CompactionPass BY <1>12, CompactionPassSafe
<1>13. CASE Crash BY <1>13, CrashSafe
<1>14. ASSUME NEW p \in Proc, JobStep(p) \/ WriteFails(p) PROVE IInv' BY <1>14, JobStepSafe
<1>15. CASE UNCHANGED vars BY <1>15, StutterSafe
<1> QED BY <1>1, <1>2, <1>3, <1>4, <1>5, <1>6, <1>7, <1>8, <1>9, <1>10, <1>11, <1>12, <1>13,
           <1>14, <1>15 DEF Next

(***************************************************************************)
(* The theorems.                                                           *)
(***************************************************************************)

\* IInv holds in every reachable state when no reconnect overlaps a writeState.
THEOREM Invariant == ASSUME Overlap = FALSE PROVE Spec => []IInv
<1>1. TypeOK /\ IInv /\ [Next]_vars => IInv' BY StepSafe
<1> QED BY <1>1, InitSafe, TypeCorrect, PTL DEF Spec

\* The stored snapshot holds every logged row at or below its seq
\* (doc-state.service.ts:333), for any number of updates, clients and bindings.
THEOREM SnapshotNeverAhead == ASSUME Overlap = FALSE PROVE Spec => []SnapshotCoversLog
<1>1. IInv => SnapshotCoversLog BY DEF IInv, StoreSafe, SnapshotCoversLog
<1> QED BY <1>1, Invariant, PTL

\* A cold load always recovers every update that ever was in a row.
THEOREM Recoverability == ASSUME Overlap = FALSE PROVE Spec => []LoggedIsRecoverable
<1>1. TypeOK /\ IInv => LoggedIsRecoverable
  <2> SUFFICES ASSUME TypeOK, IInv PROVE LoggedIsRecoverable OBVIOUS
  <2>1. \A s \in Seqs : log[s] \subseteq Recovered
    <3>1. SUFFICES ASSUME NEW s \in Seqs PROVE log[s] \subseteq Recovered OBVIOUS
    <3>2. CASE s <= snapSeq BY <3>2 DEF IInv, StoreSafe, Covers, Recovered
    <3>3. CASE s > snapSeq BY <3>3 DEF Recovered, TailAfter
    <3> QED BY <3>2, <3>3 DEF TypeOK, Seqs
  <2> QED BY <2>1 DEF IInv, StoreSafe, LoggedIsRecoverable, Recovered
<1> QED BY <1>1, Invariant, TypeCorrect, PTL
-----------------------------------------------------------------------------
(***************************************************************************)
(* DocState implements DurableDoc.                                         *)
(***************************************************************************)
\* What clients see depends on these variables only.
LEMMA SameToClients ==
  UNCHANGED <<taken, logged, live, phase, ydoc>> => UNCHANGED D!dvars
BY DEF D!dvars, open, view

\* Initial states map to initial states.
LEMMA InitIsAbstract == Init => D!Init
BY DEF Init, D!Init, open, view

\* A load step is invisible, seeds the log, or at its end serves the document.
LEMMA LoadIsAbstract ==
  ASSUME TypeOK, IInv, NEW b \in Binding, LoadStep(b) \/ LoadFails(b)
  PROVE  [D!Next]_(D!dvars)
<1> USE ConstantFacts
<1>1. phase[b] \in Loading /\ live = b /\ current = None
  BY DEF LoadStep, LoadSnapshot, LoadHead, LoadTail, Seed, LoadLast, Bind, LoadFails, IInv,
         LoadsSafe, Loading
<1>2. open = FALSE /\ view = {} BY <1>1 DEF open, view, Loading
<1>3. CASE LoadSnapshot(b) \/ LoadHead(b) \/ LoadTail(b) \/ LoadLast(b) \/ LoadFails(b)
  <2>1. taken' = taken /\ logged' = logged /\ live' = live
    BY <1>3 DEF LoadSnapshot, LoadHead, LoadTail, LoadLast, LoadFails, ghost
  <2>2. phase'[b] # "bound"
    BY <1>3 DEF LoadSnapshot, LoadHead, LoadTail, LoadLast, LoadFails, TypeOK
  <2>3. open' = FALSE /\ view' = {} BY <1>1, <2>1, <2>2 DEF open, view
  <2> QED BY <1>2, <2>1, <2>3 DEF D!dvars
<1>4. CASE Seed(b)
  <2>1. /\ taken' = taken /\ live' = live /\ phase' = [phase EXCEPT ![b] = "last"]
        /\ logged' = logged \cup ydoc[b] \/ logged' = logged
    BY <1>4 DEF Seed, AppendRow, ghost
  <2>2. open' = FALSE /\ view' = {} BY <1>1, <2>1 DEF open, view, TypeOK
  <2>3. CASE logged' = logged \cup ydoc[b]
    <3>1. ydoc[b] \in SUBSET taken BY DEF IInv, OnlyTaken
    <3>2. (Legacy \cup logged)' = (Legacy \cup logged) \cup ydoc[b] BY <2>3
    <3>3. D!Store BY <1>2, <2>1, <2>2, <3>1, <3>2 DEF D!Store
    <3> QED BY <3>3 DEF D!Next
  <2>4. CASE logged' = logged BY <1>2, <2>1, <2>2, <2>4 DEF D!dvars
  <2> QED BY <2>1, <2>3, <2>4
<1>5. CASE Bind(b)
  <2>1. /\ taken' = taken /\ logged' = logged /\ live' = live /\ ydoc' = ydoc
        /\ phase' = [phase EXCEPT ![b] = "bound"] /\ phase[b] = "set"
    BY <1>5 DEF Bind, ghost
  <2>2. open' = TRUE /\ view' = ydoc[b] BY <1>1, <2>1 DEF open, view, TypeOK
  <2>3. Legacy \subseteq ydoc[b] /\ Covers(head, ydoc[b]) /\ ydoc[b] \subseteq taken
    BY <2>1 DEF IInv, LoadsSafe, Loading, OnlyTaken
  <2>4. \A s \in Seqs : log[s] \subseteq ydoc[b]
    <3>1. SUFFICES ASSUME NEW s \in Seqs PROVE log[s] \subseteq ydoc[b] OBVIOUS
    <3>2. CASE s <= head BY <2>3, <3>2 DEF Covers
    <3>3. CASE s > head BY <3>3 DEF IInv, StoreSafe
    <3> QED BY <3>2, <3>3 DEF TypeOK, Seqs
  <2>5. Legacy \cup logged \subseteq ydoc[b] BY <2>3, <2>4 DEF IInv, StoreSafe
  <2>6. D!Serve BY <1>2, <2>1, <2>2, <2>3, <2>5 DEF D!Serve
  <2> QED BY <2>6 DEF D!Next
<1> QED BY <1>3, <1>4, <1>5 DEF LoadStep

\* An edit is a Take, whether the server hears it or not.
LEMMA EditIsAbstract ==
  ASSUME TypeOK, NEW b \in Binding, NEW u \in Update, Edit(b, u) \/ EditUnheard(b, u)
  PROVE  D!Take(u)
<1> USE ConstantFacts
<1>1. /\ live = b /\ u \notin taken /\ taken' = taken \cup {u} /\ logged' = logged
      /\ live' = live /\ phase' = phase /\ ydoc' = [ydoc EXCEPT ![b] = @ \cup {u}]
  BY DEF Edit, EditUnheard, bind
<1>2. open' = open /\ view' = IF open THEN view \cup {u} ELSE view
  BY <1>1 DEF open, view, TypeOK
<1> QED BY <1>1, <1>2 DEF D!Take

\* When nobody is served any more, the clients have left.
LEMMA LeaveIsAbstract ==
  ASSUME TypeOK, live' = None, UNCHANGED <<taken, logged>>
  PROVE  D!Leave \/ UNCHANGED D!dvars
<1>1. open' = FALSE /\ view' = {} BY DEF open, view
<1>2. CASE open BY <1>1, <1>2 DEF D!Leave
<1>3. CASE ~open BY <1>1, <1>3 DEF D!dvars, open, view
<1> QED BY <1>2, <1>3

\* A committed append makes its blob safe.
LEMMA AppendIsAbstract ==
  ASSUME TypeOK, IInv, AppendCommits PROVE D!Store
<1> DEFINE blob == Head(chain)
<1>1. UNCHANGED <<taken, live, phase, ydoc>> /\ logged' = logged \cup blob
  BY DEF AppendCommits, AppendRow, bind
<1>2. blob \in SUBSET taken
  <2>1. chain # << >> BY DEF AppendCommits
  <2>2. ChainBelow(taken) BY DEF IInv, OnlyTaken, ChainBelow
  <2> QED BY <2>1, <2>2, TailBelow
<1> HIDE DEF blob
<1>3. (Legacy \cup logged)' = (Legacy \cup logged) \cup blob BY <1>1
<1>4. open' = open /\ view' = view BY <1>1 DEF open, view
<1> QED BY <1>1, <1>2, <1>3, <1>4 DEF D!Store

\* A document that starts to load is not served yet.
LEMMA OpenIsAbstract ==
  ASSUME TypeOK, NEW b \in Binding, Open(b) PROVE UNCHANGED D!dvars
<1>1. /\ live = None /\ live' = b /\ phase' = [phase EXCEPT ![b] = "snapshot"]
      /\ UNCHANGED <<taken, logged>>
  BY DEF Open, ghost
<1>2. phase'[live'] # "bound" BY <1>1 DEF TypeOK
<1> QED BY <1>1, <1>2 DEF D!dvars, open, view

\* Snapshots, compaction and timers are invisible to clients.
LEMMA OthersAreInvisible ==
  ASSUME \/ CoalesceTimer \/ AppendFails \/ Checkpoint \/ CompactionPass \/ UNCHANGED vars
         \/ \E b \in Binding : FlushTimer(b) \/ CloseStep(b)
         \/ \E p \in Proc : JobStep(p) \/ WriteFails(p)
  PROVE  UNCHANGED D!dvars
<1>1. UNCHANGED <<taken, logged, live, phase, ydoc>>
  BY DEF CoalesceTimer, AppendFails, Checkpoint, CompactionPass, vars, FlushTimer, CloseStep,
         CloseFlush, CloseAwaitsFlush, CloseCompacts, CloseEvicts, JobStep, Encode, Commit,
         Resume, WriteFails, bind, ghost
<1> QED BY <1>1, SameToClients

\* Every behaviour of the server is one the abstract document allows, if no
\* reconnect overlaps a writeState.
THEOREM Durability == ASSUME Overlap = FALSE PROVE Spec => ImplementsDurableDoc
<1>1. Init => D!Init BY InitIsAbstract
<1>2. TypeOK /\ IInv /\ [Next]_vars => [D!Next]_(D!dvars)
  <2> SUFFICES ASSUME TypeOK, IInv, [Next]_vars PROVE [D!Next]_(D!dvars) OBVIOUS
  <2>1. ASSUME NEW b \in Binding, Open(b) PROVE [D!Next]_(D!dvars) BY <2>1, OpenIsAbstract
  <2>2. ASSUME NEW b \in Binding, LoadStep(b) \/ LoadFails(b) PROVE [D!Next]_(D!dvars)
    BY <2>2, LoadIsAbstract
  <2>3. ASSUME NEW b \in Binding, NEW u \in Update, Edit(b, u) \/ EditUnheard(b, u)
        PROVE  [D!Next]_(D!dvars)
    BY <2>3, EditIsAbstract DEF D!Next
  <2>4. ASSUME NEW b \in Binding, Close(b) PROVE [D!Next]_(D!dvars)
    BY <2>4, LeaveIsAbstract DEF Close, ghost, D!Next
  <2>5. CASE Crash BY <2>5, LeaveIsAbstract DEF Crash, D!Next
  <2>6. CASE AppendCommits BY <2>6, AppendIsAbstract DEF D!Next
  <2>7. ASSUME \/ CoalesceTimer \/ AppendFails \/ Checkpoint \/ CompactionPass
               \/ UNCHANGED vars
               \/ \E b \in Binding : FlushTimer(b) \/ CloseStep(b)
               \/ \E p \in Proc : JobStep(p) \/ WriteFails(p)
        PROVE  [D!Next]_(D!dvars)
    BY <2>7, OthersAreInvisible
  <2> QED BY <2>1, <2>2, <2>3, <2>4, <2>5, <2>6, <2>7 DEF Next
<1> QED BY <1>1, <1>2, Invariant, TypeCorrect, PTL DEF Spec, D!Spec, ImplementsDurableDoc
-----------------------------------------------------------------------------
(***************************************************************************)
(* The current entry knows the head of the log.                            *)
(***************************************************************************)
\* While the head stays, only a load or an append changes what entries know.
LEMMA HeadStill ==
  ASSUME EntryKnowsHead, head' = head, lastApp' = lastApp, loadHead' = loadHead,
         current' = current \/ current' = None,
         \A b \in Binding : phase'[b] = "set" => phase[b] = "set"
  PROVE  EntryKnowsHead'
BY DEF EntryKnowsHead

\* A load reads the head last, alone; the entry it makes starts with it.
LEMMA LoadKnowsHead ==
  ASSUME TypeOK, IInv, EntryKnowsHead, NEW b \in Binding, LoadStep(b) \/ LoadFails(b)
  PROVE  EntryKnowsHead'
<1>1. phase[b] \in Loading /\ live = b /\ current = None
  BY DEF LoadStep, LoadSnapshot, LoadHead, LoadTail, Seed, LoadLast, Bind, LoadFails, IInv,
         LoadsSafe, Loading
<1>2. \A c \in Binding \ {b} : phase[c] # "set"
  BY <1>1 DEF IInv, LoadsSafe, Loading
<1>3. /\ phase \in [Binding -> Phases] /\ loadHead \in [Binding -> 0 .. MaxSeq]
      /\ lastApp \in [Binding -> 0 .. MaxSeq]
  BY DEF TypeOK
<1>4. CASE LoadSnapshot(b) \/ LoadTail(b) \/ LoadFails(b) \/ LoadHead(b)
  <2>1. current' = None /\ \A c \in Binding : phase'[c] # "set"
    BY <1>1, <1>2, <1>3, <1>4 DEF LoadSnapshot, LoadTail, LoadFails, LoadHead
  <2> QED BY <2>1 DEF EntryKnowsHead
<1>5. CASE Seed(b)
  <2>1. current' = None /\ \A c \in Binding : phase'[c] # "set"
    BY <1>1, <1>2, <1>3, <1>5 DEF Seed
  <2> QED BY <2>1 DEF EntryKnowsHead
<1>6. CASE LoadLast(b)
  <2>1. /\ current' = None /\ head' = head /\ loadHead' = [loadHead EXCEPT ![b] = head]
        /\ phase' = [phase EXCEPT ![b] = "set"]
    BY <1>1, <1>6 DEF LoadLast, db
  <2> QED BY <1>2, <1>3, <2>1 DEF EntryKnowsHead
<1>7. CASE Bind(b)
  <2>1. /\ current' = b /\ head' = head /\ loadHead' = loadHead /\ phase[b] = "set"
        /\ lastApp' = [lastApp EXCEPT ![b] = loadHead[b]]
        /\ phase' = [phase EXCEPT ![b] = "bound"]
    BY <1>7 DEF Bind, db
  <2>2. loadHead[b] = head BY <2>1 DEF EntryKnowsHead
  <2> QED BY <1>2, <1>3, <2>1, <2>2 DEF EntryKnowsHead
<1> QED BY <1>4, <1>5, <1>6, <1>7 DEF LoadStep

\* No load runs while an append is in the chain, and the current entry learns
\* the seq of each.
LEMMA AppendKnowsHead ==
  ASSUME TypeOK, IInv, EntryKnowsHead, AppendCommits PROVE EntryKnowsHead'
<1>1. /\ chain # << >> /\ head' = head + 1 /\ current' = current /\ phase' = phase
      /\ lastApp' = IF current = None THEN lastApp ELSE [lastApp EXCEPT ![current] = head + 1]
  BY DEF AppendCommits, AppendRow, bind
<1>2. \A b \in Binding : phase[b] # "set" BY <1>1 DEF IInv, LoadsSafe, Loading
<1>3. current \in Binding \cup {None} /\ lastApp \in [Binding -> 0 .. MaxSeq] BY DEF TypeOK
<1> QED BY <1>1, <1>2, <1>3 DEF EntryKnowsHead

LEMMA StepKnowsHead ==
  ASSUME TypeOK, IInv, EntryKnowsHead, [Next]_vars PROVE EntryKnowsHead'
<1>1. ASSUME NEW b \in Binding, LoadStep(b) \/ LoadFails(b) PROVE EntryKnowsHead'
  BY <1>1, LoadKnowsHead
<1>2. CASE AppendCommits BY <1>2, AppendKnowsHead
<1>3. CASE Crash
  <2>1. current' = None /\ \A b \in Binding : phase'[b] # "set" BY <1>3 DEF Crash
  <2> QED BY <2>1 DEF EntryKnowsHead
<1>4. ASSUME NEW b \in Binding, Open(b) \/ Close(b) PROVE EntryKnowsHead'
  <2>1. phase' = [phase EXCEPT ![b] = phase'[b]] /\ phase'[b] \in {"snapshot", "dead"}
    BY <1>4 DEF Open, Close, TypeOK
  <2>2. UNCHANGED <<head, lastApp, loadHead, current>> BY <1>4 DEF Open, Close, db, entry
  <2> QED BY <2>1, <2>2, HeadStill DEF TypeOK
<1>5. ASSUME NEW b \in Binding, NEW u \in Update, Edit(b, u) \/ EditUnheard(b, u)
      PROVE  EntryKnowsHead'
  <2>1. UNCHANGED <<head, lastApp, bind, current>> BY <1>5 DEF Edit, EditUnheard, db, entry
  <2> QED BY <2>1, HeadStill DEF bind
<1>6. ASSUME NEW b \in Binding, FlushTimer(b) \/ CloseFlush(b) \/ CloseAwaitsFlush(b)
      PROVE  EntryKnowsHead'
  <2>1. UNCHANGED <<head, lastApp, bind, current>>
    BY <1>6 DEF FlushTimer, CloseFlush, CloseAwaitsFlush, db, entry
  <2> QED BY <2>1, HeadStill DEF bind
<1>7. ASSUME NEW b \in Binding, CloseCompacts(b) PROVE EntryKnowsHead'
  <2>1. UNCHANGED <<head, lastApp, bind, current>> BY <1>7 DEF CloseCompacts, Compact, db
  <2> QED BY <2>1, HeadStill DEF bind
<1>8. ASSUME NEW b \in Binding, CloseEvicts(b) PROVE EntryKnowsHead'
  <2>1. UNCHANGED <<head, lastApp, bind>> /\ (current' = current \/ current' = None)
    BY <1>8 DEF CloseEvicts, db
  <2> QED BY <2>1, HeadStill DEF bind
<1>9. CASE CoalesceTimer \/ AppendFails \/ Checkpoint \/ CompactionPass \/ UNCHANGED vars
  <2>1. UNCHANGED <<head, lastApp, bind, current>>
    BY <1>9 DEF CoalesceTimer, AppendFails, Checkpoint, CompactionPass, Compact, vars, db, entry
  <2> QED BY <2>1, HeadStill DEF bind
<1>10. ASSUME NEW p \in Proc, JobStep(p) \/ WriteFails(p) PROVE EntryKnowsHead'
  <2>1. UNCHANGED <<head, lastApp, bind, current>>
    BY <1>10 DEF JobStep, Encode, Commit, Resume, WriteFails, db, entry
  <2> QED BY <2>1, HeadStill DEF bind
<1> QED BY <1>1, <1>2, <1>3, <1>4, <1>5, <1>6, <1>7, <1>8, <1>9, <1>10 DEF Next, CloseStep

\* When no reconnect overlaps a writeState, the state is well formed, whatever
\* holds updates holds what its seq or phase stands for, and the current entry
\* knows the head (doc-state.service.ts:99-167, 226-345).
THEOREM InductiveHolds == ASSUME Overlap = FALSE PROVE Spec => []Inductive
<1>1. Init => EntryKnowsHead BY DEF Init, EntryKnowsHead
<1>2. TypeOK /\ IInv /\ EntryKnowsHead /\ [Next]_vars => EntryKnowsHead' BY StepKnowsHead
<1> QED BY <1>1, <1>2, Invariant, TypeCorrect, PTL DEF Spec, Inductive
-----------------------------------------------------------------------------
(***************************************************************************)
(* What is in the chain, as a sequence over some set of blobs.             *)
(***************************************************************************)
LEMMA FlushPendingOver ==
  ASSUME TypeOK, FlushPending \/ UNCHANGED <<chain, pend>>, NEW S, chain \in Seq(S),
         Pending # {} => Pending \in S
  PROVE  chain' \in Seq(S)
<1>1. CASE UNCHANGED <<chain, pend>> BY <1>1
<1>2. CASE FlushPending BY <1>2 DEF FlushPending
<1> QED BY <1>1, <1>2

LEMMA BufferOver ==
  ASSUME TypeOK, current \in Binding, NEW u \in Update, Buffer(u), NEW S, chain \in Seq(S),
         ~Coalesces(u) => pend[current] \in S,
         (IF Coalesces(u) THEN pend[current] \cup {u} ELSE {u}) \in S
  PROVE  /\ chain' \in Seq(S)
         /\ pend' = [pend EXCEPT ![current] = pend'[current]]
         /\ pend'[current] \in {{}, IF Coalesces(u) THEN pend[current] \cup {u} ELSE {u}}
<1> DEFINE queued == IF Coalesces(u) THEN chain ELSE Append(chain, pend[current])
           buffer == IF Coalesces(u) THEN pend[current] \cup {u} ELSE {u}
<1>1. queued \in Seq(S) OBVIOUS
<1>2. buffer \in S OBVIOUS
<1>3. \/ chain' = queued /\ pend' = [pend EXCEPT ![current] = buffer]
      \/ chain' = Append(queued, buffer) /\ pend' = [pend EXCEPT ![current] = {}]
  BY DEF Buffer
<1> HIDE DEF queued
<1>4. chain' \in Seq(S)
  <2> HIDE DEF buffer
  <2> QED BY <1>1, <1>2, <1>3
<1>5. pend'[current] \in {{}, buffer} /\ pend' = [pend EXCEPT ![current] = pend'[current]]
  <2> HIDE DEF buffer
  <2> QED BY <1>3 DEF TypeOK
<1> QED BY <1>4, <1>5

LEMMA HeadTailOver ==
  ASSUME NEW S, chain \in Seq(S), chain # << >>
  PROVE  Head(chain) \in S /\ Tail(chain) \in Seq(S)
BY HeadTailProperties

\* Every step but a few changes the chain by the buffer only, or not at all.
LEMMA ChainSteps ==
  ASSUME TypeOK, [Next]_vars
  PROVE  \/ FlushPending \/ UNCHANGED <<chain, pend>>
         \/ \E b \in Binding : Bind(b)
         \/ \E b \in Binding, u \in Update : Edit(b, u)
         \/ AppendCommits \/ AppendFails \/ Crash
<1>1. ASSUME NEW b \in Binding, LoadStep(b) \/ LoadFails(b), ~Bind(b)
      PROVE  UNCHANGED <<chain, pend>>
  BY <1>1 DEF LoadStep, LoadSnapshot, LoadHead, LoadTail, Seed, LoadLast, LoadFails, entry, queue
<1>2. ASSUME NEW b \in Binding, FlushTimer(b) \/ CloseStep(b) \/ Close(b) \/ Open(b)
      PROVE  FlushPending \/ UNCHANGED <<chain, pend>>
  BY <1>2 DEF FlushTimer, BeginFlush, CloseStep, CloseFlush, CloseAwaitsFlush, CloseCompacts,
              CloseEvicts, Close, Open, entry, queue
<1>3. ASSUME NEW b \in Binding, NEW u \in Update, EditUnheard(b, u)
      PROVE  UNCHANGED <<chain, pend>>
  BY <1>3 DEF EditUnheard, entry, queue
<1>4. ASSUME CoalesceTimer \/ Checkpoint \/ CompactionPass \/ UNCHANGED vars
      PROVE  FlushPending \/ UNCHANGED <<chain, pend>>
  BY <1>4 DEF CoalesceTimer, Checkpoint, CompactionPass, vars, entry, queue
<1>5. ASSUME NEW p \in Proc, JobStep(p) \/ WriteFails(p) PROVE UNCHANGED <<chain, pend>>
  BY <1>5 DEF JobStep, Encode, Commit, Resume, WriteFails, entry, queue
<1> QED BY <1>1, <1>2, <1>3, <1>4, <1>5 DEF Next
-----------------------------------------------------------------------------
(***************************************************************************)
(* max(seq) stays the last row, also where bindings overlap.               *)
(***************************************************************************)
\* What is queued is never empty, and no seq read or captured is beyond the head.
ChainFull == chain \in Seq((SUBSET Update) \ {{}})

KnownSafe ==
  \A b \in Binding :
    /\ loadSeq[b] <= head /\ loadHead[b] <= head /\ lastApp[b] <= head
    /\ phase[b] = "seed" => ydoc[b] # {}

WritesSafe == \A p \in Proc : job[p].pc = "write" => job[p].seq <= head

HeadSafe == HeadIsLastRow /\ ChainFull /\ KnownSafe /\ WritesSafe

\* An appended row is the new last one.
LEMMA AppendHead ==
  ASSUME TypeOK, HeadIsLastRow, NEW blob \in SUBSET Update, blob # {}, AppendRow(blob)
  PROVE  HeadIsLastRow' /\ head' = head + 1
BY ConstantFacts DEF TypeOK, HeadIsLastRow, AppendRow, Seqs

\* A merge keeps the last of its rows, so the last row of all stays.
LEMMA CompactHead ==
  ASSUME TypeOK, HeadIsLastRow, NEW S \in Mergeable, Compact(S)
  PROVE  HeadIsLastRow' /\ head' = head
<1>1. S \subseteq Seqs BY DEF Mergeable
<1>2. PICK last \in S :
        /\ \A s \in S : s <= last /\ s <= snapSeq /\ log[s] # {}
        /\ log' = [s \in Seqs |-> IF s = last THEN UNION {log[r] : r \in S}
                                  ELSE IF s \in S THEN {} ELSE log[s]]
        /\ snapSeq' = snapSeq /\ head' = head
  BY DEF Compact
<1>3. log'[last] # {} BY <1>1, <1>2
<1>4. \A s \in Seqs : log'[s] # {} => log[s] # {} BY <1>1, <1>2
<1>5. head # 0 => log'[head] # {}
  <2>1. CASE head \in S
    <3>1. last <= head BY <1>1, <1>2 DEF HeadIsLastRow
    <3>2. head <= last BY <1>2, <2>1
    <3>3. last = head BY <1>1, <2>1, <3>1, <3>2 DEF Seqs
    <3> QED BY <1>3, <3>3
  <2>2. CASE head \notin S /\ head # 0
    <3>1. head \in Seqs BY <2>2 DEF TypeOK, Seqs
    <3> QED BY <1>2, <2>2, <3>1 DEF HeadIsLastRow
  <2> QED BY <2>1, <2>2
<1> QED BY <1>2, <1>4, <1>5 DEF HeadIsLastRow

\* Who writes to the log or the snapshot.
LEMMA StoreSteps ==
  ASSUME [Next]_vars
  PROVE  \/ UNCHANGED <<snapSeq, log, head>>
         \/ \E p \in Proc : Commit(p)
         \/ \E b \in Binding : Seed(b) /\ AppendRow(ydoc[b])
         \/ AppendCommits
         \/ \E S \in Mergeable : Compact(S)
<1>1. ASSUME NEW b \in Binding, LoadStep(b) \/ LoadFails(b)
      PROVE  UNCHANGED <<snapSeq, log, head>> \/ (Seed(b) /\ AppendRow(ydoc[b]))
  BY <1>1 DEF LoadStep, LoadSnapshot, LoadHead, LoadTail, Seed, LoadLast, Bind, LoadFails, db
<1>2. ASSUME NEW b \in Binding, FlushTimer(b) \/ CloseStep(b) \/ Close(b) \/ Open(b)
      PROVE  UNCHANGED <<snapSeq, log, head>> \/ \E S \in Mergeable : Compact(S)
  BY <1>2 DEF FlushTimer, CloseStep, CloseFlush, CloseAwaitsFlush, CloseCompacts,
              CloseEvicts, Close, Open, db
<1>3. ASSUME NEW b \in Binding, NEW u \in Update, Edit(b, u) \/ EditUnheard(b, u)
      PROVE  UNCHANGED <<snapSeq, log, head>>
  BY <1>3 DEF Edit, EditUnheard, db
<1>4. CASE CoalesceTimer \/ AppendFails \/ Checkpoint \/ Crash \/ UNCHANGED vars
  BY <1>4 DEF CoalesceTimer, AppendFails, Checkpoint, Crash, vars, db
<1>5. CASE CompactionPass BY <1>5 DEF CompactionPass
<1>6. ASSUME NEW p \in Proc, JobStep(p) \/ WriteFails(p)
      PROVE  UNCHANGED <<snapSeq, log, head>> \/ Commit(p)
  BY <1>6 DEF JobStep, Encode, Resume, WriteFails, db
<1> QED BY <1>1, <1>2, <1>3, <1>4, <1>5, <1>6 DEF Next

\* The last row stays the last, and the head never falls.
LEMMA RowsStep ==
  ASSUME TypeOK, HeadSafe, [Next]_vars PROVE HeadIsLastRow' /\ head' \in Nat /\ head <= head'
<1> USE DEF HeadSafe
<1>1. head \in Nat BY DEF TypeOK
<1>2. CASE UNCHANGED <<snapSeq, log, head>> BY <1>1, <1>2 DEF HeadIsLastRow
<1>3. ASSUME NEW p \in Proc, Commit(p) PROVE HeadIsLastRow' /\ head' = head
  BY <1>3 DEF Commit, HeadIsLastRow, WritesSafe
<1>4. ASSUME NEW b \in Binding, Seed(b), AppendRow(ydoc[b])
      PROVE  HeadIsLastRow' /\ head' = head + 1
  <2>1. ydoc[b] \in SUBSET Update /\ ydoc[b] # {} BY <1>4 DEF TypeOK, Seed, KnownSafe
  <2> QED BY <1>4, <2>1, AppendHead
<1>5. CASE AppendCommits
  <2>1. Head(chain) \in (SUBSET Update) \ {{}}
    BY <1>5, HeadTailOver DEF AppendCommits, ChainFull
  <2> QED BY <1>1, <1>5, <2>1, AppendHead DEF AppendCommits
<1>6. ASSUME NEW S \in Mergeable, Compact(S) PROVE HeadIsLastRow' /\ head' = head
  BY <1>6, CompactHead
<1> QED BY <1>1, <1>2, <1>3, <1>4, <1>5, <1>6, StoreSteps

\* No empty blob gets into the chain.
LEMMA ChainStep ==
  ASSUME TypeOK, ChainFull, [Next]_vars PROVE ChainFull'
<1> USE DEF ChainFull
<1>1. CASE FlushPending \/ UNCHANGED <<chain, pend>>
  <2>1. Pending \in SUBSET Update BY ConstantFacts DEF TypeOK, Pending
  <2> QED BY <1>1, <2>1, FlushPendingOver
<1>2. ASSUME NEW b \in Binding, Bind(b) PROVE ChainFull' BY <1>2 DEF Bind, queue
<1>3. ASSUME NEW b \in Binding, NEW u \in Update, Edit(b, u) PROVE ChainFull'
  <2>1. current \in Binding /\ Buffer(u) /\ pend[current] \in SUBSET Update
    BY <1>3 DEF Edit, TypeOK
  <2>2. ~Coalesces(u) => pend[current] # {} BY DEF Coalesces
  <2> QED BY <2>1, <2>2, BufferOver
<1>4. CASE AppendCommits \/ AppendFails
  BY <1>4, HeadTailOver DEF AppendCommits, AppendFails
<1>5. CASE Crash BY <1>5, EmptySeq DEF Crash
<1> QED BY <1>1, <1>2, <1>3, <1>4, <1>5, ChainSteps
\* Loads read seqs up to the head; an entry learns those of its appends.
LEMMA KnownStep ==
  ASSUME TypeOK, HeadSafe, [Next]_vars, head' \in Nat, head <= head' PROVE KnownSafe'
<1>a. /\ head \in Nat /\ snapSeq \in Nat /\ snapSeq <= head
      /\ loadSeq \in [Binding -> Nat] /\ loadHead \in [Binding -> Nat]
      /\ lastApp \in [Binding -> Nat]
  BY ConstantFacts DEF TypeOK, HeadSafe, HeadIsLastRow
<1>b. phase \in [Binding -> Phases] /\ ydoc \in [Binding -> SUBSET Update]
      /\ current \in Binding \cup {None}
  BY DEF TypeOK
<1>1. ASSUME UNCHANGED <<loadSeq, loadHead, lastApp>>,
             \A c \in Binding : phase'[c] = "seed" => phase[c] = "seed" /\ ydoc[c] \subseteq ydoc'[c]
      PROVE  KnownSafe'
  BY <1>a, <1>1 DEF HeadSafe, KnownSafe
<1>2. ASSUME NEW b \in Binding, LoadStep(b) PROVE KnownSafe'
  <2>1. CASE LoadSnapshot(b) BY <1>a, <1>b, <2>1 DEF LoadSnapshot, HeadSafe, KnownSafe, entry
  <2>2. CASE LoadHead(b) BY <1>a, <1>b, <2>2 DEF LoadHead, HeadSafe, KnownSafe, entry, db
  <2>3. CASE LoadLast(b) BY <1>a, <1>b, <2>3 DEF LoadLast, HeadSafe, KnownSafe, entry, db
  <2>4. CASE Bind(b) BY <1>a, <1>b, <2>4 DEF Bind, HeadSafe, KnownSafe, db
  <2>5. CASE LoadTail(b) BY <1>1, <1>b, <2>5 DEF LoadTail, entry
  <2>6. CASE Seed(b) BY <1>1, <1>b, <2>6 DEF Seed, entry
  <2> QED BY <1>2, <2>1, <2>2, <2>3, <2>4, <2>5, <2>6 DEF LoadStep
<1>3. ASSUME NEW b \in Binding, Open(b) \/ LoadFails(b) \/ Close(b) PROVE KnownSafe'
  BY <1>1, <1>3, <1>b DEF Open, LoadFails, Close, entry
<1>4. ASSUME NEW b \in Binding, FlushTimer(b) \/ CloseStep(b) PROVE KnownSafe'
  <2>1. UNCHANGED <<loadSeq, loadHead, lastApp, phase, ydoc>>
    BY <1>4 DEF FlushTimer, CloseStep, CloseFlush, CloseAwaitsFlush, CloseCompacts, CloseEvicts,
                bind, entry
  <2> QED BY <2>1, <1>1
<1>5. ASSUME NEW b \in Binding, NEW u \in Update, Edit(b, u) \/ EditUnheard(b, u)
      PROVE  KnownSafe'
  BY <1>1, <1>5, <1>b DEF Edit, EditUnheard, bind, entry
<1>6. CASE CoalesceTimer \/ AppendFails \/ Checkpoint \/ CompactionPass \/ UNCHANGED vars
  <2>1. UNCHANGED <<loadSeq, loadHead, lastApp, phase, ydoc>>
    BY <1>6 DEF CoalesceTimer, AppendFails, Checkpoint, CompactionPass, vars, bind, entry
  <2> QED BY <2>1, <1>1
<1>7. CASE AppendCommits
  BY <1>a, <1>b, <1>7 DEF AppendCommits, AppendRow, HeadSafe, KnownSafe, bind
<1>8. CASE Crash BY <1>a, <1>8 DEF Crash, HeadSafe, KnownSafe
<1>9. ASSUME NEW p \in Proc, JobStep(p) \/ WriteFails(p) PROVE KnownSafe'
  <2>1. UNCHANGED <<loadSeq, loadHead, lastApp, phase, ydoc>>
    BY <1>9 DEF JobStep, Encode, Commit, Resume, WriteFails, bind, entry
  <2> QED BY <2>1, <1>1
<1> QED BY <1>2, <1>3, <1>4, <1>5, <1>6, <1>7, <1>8, <1>9 DEF Next

\* How a job can change: it starts on the current entry, goes on for its entry,
\* or captures what it will write.
Started(p) ==
  /\ job'[p].ent = current /\ job'[p].blob = {}
  /\ job'[p].pc = IF current = None THEN "compact" ELSE "drain"
  /\ p[1] = "close" => Close(p[2])

MovedOn(p) ==
  /\ job[p].pc # "idle" /\ job'[p].ent = job[p].ent
  /\ job'[p].blob \in {job[p].blob, {}}
  /\ \/ job'[p].pc \in {"resume", "flush", "await", "compact"}
     \/ job'[p].pc = "settle" /\ CloseCompacts(p[2])

Captured(p) ==
  /\ Encode(p) /\ job[p].ent \in Binding
  /\ job'[p].pc = "write" /\ job'[p].ent = job[p].ent
  /\ job'[p].seq = lastApp[job[p].ent] /\ job'[p].blob = ydoc[job[p].ent]

Moved(p) ==
  job'[p] = job[p] \/ job'[p] = Idle \/ Started(p) \/ MovedOn(p) \/ Captured(p)

\* One job gets another pc, its entry stays.
LEMMA PcMoves ==
  ASSUME TypeOK, NEW q \in Proc, job[q].pc # "idle",
         NEW i \in Jobs, i.ent = job[q].ent, i.blob \in {job[q].blob, {}},
         i.pc \in {"resume", "flush", "await", "compact"} \/ (i.pc = "settle" /\ CloseCompacts(q[2])),
         job' = [job EXCEPT ![q] = i]
  PROVE  \A p \in Proc : Moved(p)
BY DEF TypeOK, JobsOK, Moved, MovedOn

LEMMA StartMoves ==
  ASSUME TypeOK, NEW q \in Proc, q[1] = "close" => Close(q[2]),
         NEW pc, pc = IF current = None THEN "compact" ELSE "drain", StartJob(q, current, pc)
  PROVE  \A p \in Proc : Moved(p)
<1> DEFINE j == [Idle EXCEPT !.pc = pc, !.ent = current, !.target = Target]
<1>1. j.pc = pc /\ j.ent = current /\ j.blob = {} BY DEF Idle
<1>2. job' = [job EXCEPT ![q] = j] BY DEF StartJob
<1> HIDE DEF j
<1> QED BY <1>1, <1>2 DEF TypeOK, JobsOK, Moved, Started

LEMMA AfterMoves ==
  ASSUME TypeOK, NEW q \in Proc, job[q].pc # "idle", job' = [job EXCEPT ![q] = After(q)]
  PROVE  \A p \in Proc : Moved(p)
<1>1. CASE q[1] = "close"
  <2> DEFINE i == [job[q] EXCEPT !.pc = "flush", !.seq = 0, !.blob = {}]
  <2>1. i.pc = "flush" /\ i.ent = job[q].ent /\ i.blob = {} BY JobType DEF Jobs
  <2>2. After(q) = i BY <1>1 DEF After
  <2> HIDE DEF i
  <2> QED BY <2>1, <2>2, AfterType, PcMoves
<1>2. CASE q[1] # "close" BY <1>2 DEF After, TypeOK, JobsOK, Moved
<1> QED BY <1>1, <1>2

LEMMA CloseStepMoves ==
  ASSUME TypeOK, NEW b \in Binding, CloseStep(b)
  PROVE  \A p \in Proc : Moved(p)
<1> DEFINE q == <<"close", b>>
<1>1. q \in Proc /\ q[2] = b /\ job[q] \in Jobs BY ProcType, JobType
<1>2. CASE CloseFlush(b)
  <2>1. CASE CanFlush(current)
    <3> DEFINE f == <<"flush", current>>
               i == [job[q] EXCEPT !.pc = "await", !.on = current]
               j == [Idle EXCEPT !.pc = "drain", !.ent = current, !.target = Target]
    <3>1. current \in Binding /\ current # None BY <2>1 DEF CanFlush, TypeOK
    <3>2. f \in Proc /\ f # q /\ f[1] # "close" BY <3>1, ProcType
    <3>3. job' = [job EXCEPT ![q] = i, ![f] = j] /\ job[q].pc = "flush"
      BY <1>1, <1>2, <2>1, <3>2 DEF CloseFlush, TypeOK, JobsOK
    <3>4. i.pc = "await" /\ i.ent = job[q].ent /\ i.blob = job[q].blob BY <1>1 DEF Jobs
    <3>5. j.pc = "drain" /\ j.ent = current /\ j.blob = {} BY DEF Idle
    <3> HIDE DEF i, j, f, q
    <3>6. /\ job'[q] = i /\ job'[f] = j
          /\ \A p \in Proc : p # q /\ p # f => job'[p] = job[p]
      BY <1>1, <3>2, <3>3 DEF TypeOK, JobsOK
    <3>7. MovedOn(q) BY <3>3, <3>4, <3>6 DEF MovedOn
    <3>8. Started(f) BY <3>1, <3>2, <3>5, <3>6 DEF Started
    <3> QED BY <3>6, <3>7, <3>8 DEF Moved
  <2>2. CASE ~CanFlush(current)
    <3> DEFINE i == [job[q] EXCEPT !.pc = IF current = None THEN "compact" ELSE "await",
                                   !.on = current]
    <3>1. job' = [job EXCEPT ![q] = i] /\ job[q].pc = "flush"
      BY <1>1, <1>2, <2>2 DEF CloseFlush, TypeOK, JobsOK
    <3>2. i.pc \in {"await", "compact"} /\ i.ent = job[q].ent /\ i.blob = job[q].blob
      BY <1>1 DEF Jobs
    <3>3. i \in Jobs BY <1>1, StepNames DEF Jobs, TypeOK
    <3> HIDE DEF i, q
    <3> QED BY <1>1, <3>1, <3>2, <3>3, PcMoves
  <2> QED BY <2>1, <2>2
<1>3. CASE CloseAwaitsFlush(b)
  <2> DEFINE i == [job[q] EXCEPT !.pc = "compact"]
  <2>1. job' = [job EXCEPT ![q] = i] /\ job[q].pc = "await"
    BY <1>1, <1>3 DEF CloseAwaitsFlush, TypeOK, JobsOK
  <2>2. i \in Jobs /\ i.pc = "compact" /\ i.ent = job[q].ent /\ i.blob = job[q].blob
    BY <1>1, StepNames DEF Jobs
  <2> HIDE DEF i, q
  <2> QED BY <1>1, <2>1, <2>2, PcMoves
<1>4. CASE CloseCompacts(b)
  <2> DEFINE i == [job[q] EXCEPT !.pc = "settle", !.target = Target]
  <2>1. job' = [job EXCEPT ![q] = i] /\ job[q].pc = "compact"
    BY <1>1, <1>4 DEF CloseCompacts, TypeOK, JobsOK
  <2>2. i.pc = "settle" /\ i.ent = job[q].ent /\ i.blob = job[q].blob
    BY <1>1 DEF Jobs
  <2>3. i \in Jobs BY <1>1, StepNames, TargetType DEF Jobs
  <2> HIDE DEF i, q
  <2> QED BY <1>1, <1>4, <2>1, <2>2, <2>3, PcMoves
<1>5. CASE CloseEvicts(b)
  <2>1. job' = [job EXCEPT ![q] = Idle] BY <1>5 DEF CloseEvicts
  <2> HIDE DEF q
  <2> QED BY <1>1, <2>1 DEF TypeOK, JobsOK, Moved
<1> QED BY <1>2, <1>3, <1>4, <1>5 DEF CloseStep

LEMMA JobStepMoves ==
  ASSUME TypeOK, NEW q \in Proc, JobStep(q) \/ WriteFails(q)
  PROVE  \A p \in Proc : Moved(p)
<1>1. job[q] \in Jobs /\ (job[q].pc \in NeedsEntry => job[q].ent \in Binding) BY JobType
<1>2. CASE Encode(q)
  <2> DEFINE e == job[q].ent
             i == [job[q] EXCEPT !.pc = "write", !.seq = lastApp[e], !.blob = ydoc[e]]
  <2>1. e \in Binding /\ job[q].pc = "drain" BY <1>1, <1>2 DEF Encode, NeedsEntry
  <2>2. CASE lastApp[e] = snapAt[e]
    BY <1>2, <2>1, <2>2, AfterMoves DEF Encode
  <2>3. CASE lastApp[e] # snapAt[e]
    <3>1. job' = [job EXCEPT ![q] = i] BY <1>2, <2>3 DEF Encode, TypeOK, JobsOK
    <3>2. i.pc = "write" /\ i.ent = e /\ i.seq = lastApp[e] /\ i.blob = ydoc[e]
      BY <1>1 DEF Jobs
    <3> HIDE DEF i
    <3>3. Captured(q) BY <1>2, <2>1, <3>1, <3>2 DEF Captured, TypeOK, JobsOK
    <3> QED BY <3>1, <3>3 DEF Moved, TypeOK, JobsOK
  <2> QED BY <2>2, <2>3
<1>3. CASE Commit(q)
  <2> DEFINE i == [job[q] EXCEPT !.pc = "resume"]
  <2>1. job' = [job EXCEPT ![q] = i] /\ job[q].pc = "write"
    BY <1>3 DEF Commit, TypeOK, JobsOK
  <2>2. i \in Jobs /\ i.pc = "resume" /\ i.ent = job[q].ent /\ i.blob = job[q].blob
    BY <1>1, StepNames DEF Jobs
  <2> HIDE DEF i
  <2> QED BY <2>1, <2>2, PcMoves
<1>4. CASE Resume(q) \/ WriteFails(q) BY <1>4, AfterMoves DEF Resume, WriteFails
<1> QED BY <1>2, <1>3, <1>4 DEF JobStep

LEMMA JobMoves == ASSUME TypeOK, [Next]_vars PROVE \A p \in Proc : Moved(p)
<1> DEFINE Goal == \A p \in Proc : Moved(p)
<1>0. job' = job => Goal BY DEF Moved
<1> HIDE DEF Goal
<1>1. ASSUME NEW b \in Binding, LoadStep(b) \/ LoadFails(b) \/ Open(b) PROVE Goal
  <2>1. job' = job
    BY <1>1 DEF LoadStep, LoadSnapshot, LoadHead, LoadTail, Seed, LoadLast, Bind, LoadFails, Open
  <2> QED BY <1>0, <2>1
<1>2. ASSUME NEW b \in Binding, NEW u \in Update, Edit(b, u) \/ EditUnheard(b, u) PROVE Goal
  BY <1>0, <1>2 DEF Edit, EditUnheard
<1>3. ASSUME CoalesceTimer \/ AppendCommits \/ AppendFails \/ CompactionPass \/ UNCHANGED vars
      PROVE  Goal
  <2>1. job' = job
    BY <1>3 DEF CoalesceTimer, AppendCommits, AppendFails, CompactionPass, vars
  <2> QED BY <1>0, <2>1
<1>4. ASSUME Crash PROVE Goal BY <1>4 DEF Goal, Crash, Moved
<1>5. ASSUME NEW b \in Binding, FlushTimer(b) PROVE Goal
  <2>1. CASE CanFlush(current)
    <3>1. current \in Binding /\ current # None BY <2>1 DEF CanFlush, TypeOK
    <3>2. StartJob(<<"flush", current>>, current, "drain") BY <1>5, <2>1 DEF FlushTimer
    <3> QED BY <3>1, <3>2, ProcType, StartMoves DEF Goal
  <2>2. CASE ~CanFlush(current) BY <1>0, <1>5, <2>2 DEF FlushTimer
  <2> QED BY <2>1, <2>2
<1>6. ASSUME Checkpoint PROVE Goal
  <2>1. current \in Binding /\ current # None BY <1>6 DEF Checkpoint, TypeOK
  <2>2. StartJob(<<"timer", current>>, current, "drain") BY <1>6 DEF Checkpoint
  <2> QED BY <2>1, <2>2, ProcType, StartMoves DEF Goal
<1>7. ASSUME NEW b \in Binding, Close(b) PROVE Goal
  <2>1. StartJob(<<"close", b>>, current, IF current = None THEN "compact" ELSE "drain")
    BY <1>7 DEF Close
  <2> QED BY <1>7, <2>1, ProcType, StartMoves DEF Goal
<1>8. ASSUME NEW b \in Binding, CloseStep(b) PROVE Goal BY <1>8, CloseStepMoves DEF Goal
<1>9. ASSUME NEW q \in Proc, JobStep(q) \/ WriteFails(q) PROVE Goal
  BY <1>9, JobStepMoves DEF Goal
<1>10. Goal
  BY <1>1, <1>2, <1>3, <1>4, <1>5, <1>6, <1>7, <1>8, <1>9 DEF Next
<1> QED BY <1>10 DEF Goal

\* A job that writes did so before, or has just captured what its entry had.
LEMMA JobPcs ==
  ASSUME TypeOK, [Next]_vars, NEW p \in Proc, job'[p].pc = "write"
  PROVE  job'[p] = job[p] \/ Captured(p)
BY JobMoves, IdlePc DEF Moved, Started, MovedOn

\* What a job writes has a seq its entry knew.
LEMMA WritesStep ==
  ASSUME TypeOK, HeadSafe, [Next]_vars, head' \in Nat, head <= head' PROVE WritesSafe'
<1> SUFFICES ASSUME NEW p \in Proc, job'[p].pc = "write" PROVE job'[p].seq <= head'
  BY DEF WritesSafe
<1>1. head \in Nat BY DEF TypeOK
<1>2. CASE job'[p] = job[p]
  <2>1. job[p].seq \in Nat BY JobType, ConstantFacts DEF Jobs
  <2>2. job[p].seq <= head BY <1>2 DEF HeadSafe, WritesSafe
  <2> QED BY <1>1, <1>2, <2>1, <2>2
<1>3. CASE Captured(p)
  <2> USE DEF Captured
  <2>1. lastApp[job[p].ent] \in Nat BY <1>3, ConstantFacts DEF TypeOK
  <2>2. lastApp[job[p].ent] <= head BY <1>3 DEF HeadSafe, KnownSafe
  <2> QED BY <1>1, <1>3, <2>1, <2>2
<1> QED BY <1>2, <1>3, JobPcs

\* max(seq) is the largest row there is, whatever is compacted, crashes or
\* fails, and with any number of overlapping bindings: a new row never takes a
\* seq some snapshot stands for (doc-repository.service.ts:107-140).
THEOREM HeadIsLast == Spec => []HeadIsLastRow
<1>1. Init => HeadSafe
  BY ConstantFacts, EmptySeq, IdlePc
     DEF Init, HeadSafe, HeadIsLastRow, ChainFull, KnownSafe, WritesSafe
<1>2. TypeOK /\ HeadSafe /\ [Next]_vars => HeadSafe'
  BY RowsStep, ChainStep, KnownStep, WritesStep DEF HeadSafe
<1>3. HeadSafe => HeadIsLastRow BY DEF HeadSafe
<1> QED BY <1>1, <1>2, <1>3, TypeCorrect, PTL DEF Spec
-----------------------------------------------------------------------------
(***************************************************************************)
(* The live binding is the tracked one, also where bindings overlap.       *)
(***************************************************************************)
\* A load belongs to the live binding; the entry in the map is bound or its
\* binding is dead; the job that may evict an entry is of a dead binding.
Tracked ==
  /\ \A b \in Binding : phase[b] \in Loading \cup {"bound", "failed"} => live = b
  /\ LiveIsTracked
  /\ current # None => phase[current] \in {"bound", "dead"}
  /\ \A b \in Binding : job[<<"close", b>>].pc # "idle" /\ job[<<"close", b>>].ent # None =>
       phase[job[<<"close", b>>].ent] = "dead"

\* What binds a binding: few steps change it.
LEMMA BindingSteps ==
  ASSUME [Next]_vars
  PROVE  \/ UNCHANGED <<phase, live, current>>
         \/ \E b \in Binding : Open(b) \/ LoadStep(b) \/ LoadFails(b) \/ Close(b) \/ CloseEvicts(b)
         \/ Crash
<1>1. ASSUME NEW b \in Binding,
             FlushTimer(b) \/ CloseFlush(b) \/ CloseAwaitsFlush(b) \/ CloseCompacts(b)
      PROVE  UNCHANGED <<phase, live, current>>
  BY <1>1 DEF FlushTimer, CloseFlush, CloseAwaitsFlush, CloseCompacts, bind
<1>2. ASSUME NEW b \in Binding, NEW u \in Update, Edit(b, u) \/ EditUnheard(b, u)
      PROVE  UNCHANGED <<phase, live, current>>
  BY <1>2 DEF Edit, EditUnheard, bind
<1>3. ASSUME \/ CoalesceTimer \/ AppendCommits \/ AppendFails
             \/ Checkpoint \/ CompactionPass \/ UNCHANGED vars
      PROVE  UNCHANGED <<phase, live, current>>
  BY <1>3 DEF CoalesceTimer, AppendCommits, AppendFails, Checkpoint, CompactionPass, vars, bind
<1>4. ASSUME NEW p \in Proc, JobStep(p) \/ WriteFails(p)
      PROVE  UNCHANGED <<phase, live, current>>
  BY <1>4 DEF JobStep, Encode, Commit, Resume, WriteFails, bind
<1> QED BY <1>1, <1>2, <1>3, <1>4 DEF Next, CloseStep

\* A load moves on to its next phase, and only Bind touches the map.
LEMMA LoadPhases ==
  ASSUME TypeOK, NEW b \in Binding, LoadStep(b) \/ LoadFails(b)
  PROVE  /\ phase[b] \in Loading /\ live' = live
         /\ phase' = [phase EXCEPT ![b] = phase'[b]]
         /\ \/ phase'[b] \in (Loading \cup {"failed"}) /\ current' = current
            \/ phase'[b] = "bound" /\ current' = b
<1> USE DEF TypeOK, Loading
<1>1. CASE LoadSnapshot(b) \/ LoadTail(b) \/ LoadLast(b) \/ LoadFails(b)
  BY <1>1 DEF LoadSnapshot, LoadTail, LoadLast, LoadFails
<1>2. CASE LoadHead(b) BY <1>2 DEF LoadHead
<1>3. CASE Seed(b) \/ Bind(b) BY <1>3 DEF Seed, Bind
<1> QED BY <1>1, <1>2, <1>3 DEF LoadStep

\* A binding once closed stays so.
LEMMA DeadStays ==
  ASSUME TypeOK, [Next]_vars, NEW e \in Binding, phase[e] = "dead" PROVE phase'[e] = "dead"
<1>1. ASSUME NEW b \in Binding, Open(b) \/ Close(b) \/ CloseEvicts(b) PROVE phase'[e] = "dead"
  BY <1>1 DEF Open, Close, CloseEvicts, bind, TypeOK
<1>2. ASSUME NEW b \in Binding, LoadStep(b) \/ LoadFails(b) PROVE phase'[e] = "dead"
  <2>1. phase[b] # "dead" BY <1>2, LoadPhases DEF Loading
  <2> QED BY <1>2, <2>1, LoadPhases DEF TypeOK
<1>3. CASE Crash BY <1>3 DEF Crash
<1> QED BY <1>1, <1>2, <1>3, BindingSteps

\* The entry a closing job captured is of a dead binding.
LEMMA CloserStep ==
  ASSUME TypeOK, Tracked, [Next]_vars, NEW b \in Binding,
         job'[<<"close", b>>].pc # "idle", job'[<<"close", b>>].ent # None
  PROVE  phase'[job'[<<"close", b>>].ent] = "dead"
<1> DEFINE q == <<"close", b>>
<1>1. q \in Proc /\ q[1] = "close" /\ q[2] = b /\ job[q].ent \in Binding \cup {None}
  BY ProcType, JobType
<1>2. CASE job[q].pc # "idle" /\ job'[q].ent = job[q].ent
  <2>1. phase[job[q].ent] = "dead" BY <1>2 DEF Tracked
  <2>2. job[q].ent \in Binding BY <1>1, <1>2
  <2> QED BY <1>2, <2>1, <2>2, DeadStays
<1>3. CASE Started(q)
  <2>1. Close(b) /\ job'[q].ent = current /\ current \in Binding
    BY <1>1, <1>3 DEF Started, TypeOK
  <2>2. phase[current] \in {"bound", "dead"} BY <2>1, ConstantFacts DEF Tracked
  <2>3. CASE phase[current] = "bound"
    <3>1. current = b BY <2>1, <2>3 DEF Tracked, Close
    <3> QED BY <2>1, <3>1 DEF Close, TypeOK
  <2>4. CASE phase[current] = "dead" BY <2>1, <2>4, DeadStays
  <2> QED BY <2>2, <2>3, <2>4
<1>4. \/ job'[q] = job[q] \/ job'[q] = Idle \/ Started(q) \/ MovedOn(q) \/ Captured(q)
  BY <1>1, JobMoves DEF Moved
<1> HIDE DEF q
<1>5. MovedOn(q) \/ Captured(q) => job[q].pc # "idle" /\ job'[q].ent = job[q].ent
  BY DEF MovedOn, Captured, Encode
<1> QED BY <1>2, <1>3, <1>4, <1>5, IdlePc DEF q

LEMMA TrackedStep ==
  ASSUME TypeOK, Tracked, [Next]_vars PROVE Tracked'
<1> DEFINE Goal == /\ \A b \in Binding : phase'[b] \in Loading \cup {"bound", "failed"} => live' = b
                   /\ LiveIsTracked'
                   /\ current' # None => phase'[current'] \in {"bound", "dead"}
<1>0. /\ \A b \in Binding : phase[b] \in Loading \cup {"bound", "failed"} => live = b
      /\ \A b \in Binding : live = b /\ phase[b] = "bound" => current = b
      /\ current # None => phase[current] \in {"bound", "dead"}
      /\ current \in Binding \cup {None} /\ None \notin Binding
      /\ phase \in [Binding -> Phases]
  BY ConstantFacts DEF Tracked, LiveIsTracked, TypeOK
<1>1. ASSUME UNCHANGED <<phase, live, current>> PROVE Goal
  BY <1>0, <1>1 DEF LiveIsTracked
<1>2. ASSUME NEW b \in Binding, Open(b) PROVE Goal
  BY <1>0, <1>2 DEF Open, LiveIsTracked, Loading
<1>3. ASSUME NEW b \in Binding, LoadStep(b) \/ LoadFails(b) PROVE Goal
  <2>1. /\ phase[b] \in Loading /\ live' = live /\ live = b
        /\ phase' = [phase EXCEPT ![b] = phase'[b]]
    BY <1>0, <1>3, LoadPhases
  <2>2. CASE phase'[b] \in (Loading \cup {"failed"}) /\ current' = current
    <3>1. current # b BY <1>0, <2>1 DEF Loading
    <3> QED BY <1>0, <2>1, <2>2, <3>1 DEF LiveIsTracked, Loading
  <2>3. CASE phase'[b] = "bound" /\ current' = b
    BY <1>0, <2>1, <2>3 DEF LiveIsTracked
  <2> QED BY <1>3, <2>2, <2>3, LoadPhases
<1>4. ASSUME NEW b \in Binding, Close(b) PROVE Goal
  BY <1>0, <1>4 DEF Close, LiveIsTracked, Loading
<1>5. ASSUME NEW b \in Binding, CloseEvicts(b) PROVE Goal
  <2>1. phase' = phase /\ live' = live BY <1>5 DEF CloseEvicts, bind
  <2>2. \/ current' = current
        \/ current' = None /\ current \in Binding /\ phase[current] = "dead"
    BY <1>0, <1>5, ConstantFacts DEF CloseEvicts, Tracked
  <2> QED BY <1>0, <2>1, <2>2 DEF LiveIsTracked
<1>6. ASSUME Crash PROVE Goal
  BY <1>0, <1>6 DEF Crash, LiveIsTracked, Loading
<1>7. Goal BY <1>1, <1>2, <1>3, <1>4, <1>5, <1>6, BindingSteps
<1> QED BY <1>7, CloserStep DEF Tracked

\* The bound document clients edit is the one the docState map knows, with any
\* number of overlapping bindings, crashes and failures: a late writeState never
\* evicts its successor (doc-state.service.ts:427).
THEOREM LiveBindingIsTracked == Spec => []LiveIsTracked
<1>1. Init => Tracked
  BY IdlePc DEF Init, Tracked, LiveIsTracked, Loading, Proc
<1>2. TypeOK /\ Tracked /\ [Next]_vars => Tracked' BY TrackedStep
<1>3. Tracked => LiveIsTracked BY DEF Tracked
<1> QED BY <1>1, <1>2, <1>3, TypeCorrect, PTL DEF Spec
-----------------------------------------------------------------------------
(***************************************************************************)
(* Every row that is no merge has one author.                              *)
(***************************************************************************)
\* What the buffers and the chain hold stays over a set that the edits of a
\* buffer stay in.
LEMMA QueueOver ==
  ASSUME TypeOK, [Next]_vars, NEW S, {} \in S, chain \in Seq(S),
         \A b \in Binding : pend[b] \in S,
         \A b \in Binding, u \in Update :
           Edit(b, u) => (IF Coalesces(u) THEN pend[current] \cup {u} ELSE {u}) \in S
  PROVE  chain' \in Seq(S) /\ \A b \in Binding : pend'[b] \in S
<1>a. current \in Binding \cup {None} /\ pend \in [Binding -> SUBSET Update] BY DEF TypeOK
<1>1. CASE FlushPending \/ UNCHANGED <<chain, pend>>
  <2>1. Pending # {} => Pending \in S BY <1>a DEF Pending
  <2>2. chain' \in Seq(S) BY <1>1, <2>1, FlushPendingOver
  <2> QED BY <1>1, <1>a, <2>2 DEF FlushPending
<1>2. ASSUME NEW b \in Binding, Bind(b)
      PROVE  chain' \in Seq(S) /\ \A c \in Binding : pend'[c] \in S
  BY <1>2, <1>a DEF Bind, queue
<1>3. ASSUME NEW b \in Binding, NEW u \in Update, Edit(b, u)
      PROVE  chain' \in Seq(S) /\ \A c \in Binding : pend'[c] \in S
  <2> DEFINE buffer == IF Coalesces(u) THEN pend[current] \cup {u} ELSE {u}
  <2>1. current \in Binding /\ Buffer(u) BY <1>3, <1>a DEF Edit
  <2>2. buffer \in S BY <1>3
  <2>3. /\ chain' \in Seq(S)
        /\ pend' = [pend EXCEPT ![current] = pend'[current]]
        /\ pend'[current] \in {{}, buffer}
    BY <2>1, <2>2, BufferOver
  <2> HIDE DEF buffer
  <2> QED BY <1>a, <2>1, <2>2, <2>3
<1>4. CASE AppendCommits \/ AppendFails
  BY <1>4, HeadTailOver DEF AppendCommits, AppendFails, entry
<1>5. CASE Crash BY <1>5, EmptySeq DEF Crash
<1> QED BY <1>1, <1>2, <1>3, <1>4, <1>5, ChainSteps

\* Who writes rows.
LEMMA RowSteps ==
  ASSUME [Next]_vars
  PROVE  \/ UNCHANGED <<log, merged, logged>>
         \/ \E b \in Binding : Seed(b) /\ AppendRow(ydoc[b]) /\ merged' = merged \cup {head + 1}
         \/ AppendCommits
         \/ logged' = logged /\ \E S \in Mergeable : Compact(S)
<1>1. ASSUME NEW b \in Binding, LoadStep(b) \/ LoadFails(b)
      PROVE  \/ UNCHANGED <<log, merged, logged>>
             \/ Seed(b) /\ AppendRow(ydoc[b]) /\ merged' = merged \cup {head + 1}
  BY <1>1 DEF LoadStep, LoadSnapshot, LoadHead, LoadTail, Seed, LoadLast, Bind, LoadFails, db,
              ghost
<1>2. ASSUME NEW b \in Binding, FlushTimer(b) \/ CloseStep(b) \/ Close(b) \/ Open(b)
      PROVE  \/ UNCHANGED <<log, merged, logged>>
             \/ logged' = logged /\ \E S \in Mergeable : Compact(S)
  BY <1>2 DEF FlushTimer, CloseStep, CloseFlush, CloseAwaitsFlush, CloseCompacts,
              CloseEvicts, Close, Open, db, ghost
<1>3. ASSUME NEW b \in Binding, NEW u \in Update, Edit(b, u) \/ EditUnheard(b, u)
      PROVE  UNCHANGED <<log, merged, logged>>
  BY <1>3 DEF Edit, EditUnheard, db
<1>4. CASE CoalesceTimer \/ AppendFails \/ Checkpoint \/ Crash \/ UNCHANGED vars
  BY <1>4 DEF CoalesceTimer, AppendFails, Checkpoint, Crash, vars, db, ghost
<1>5. CASE CompactionPass BY <1>5 DEF CompactionPass, ghost
<1>6. ASSUME NEW p \in Proc, JobStep(p) \/ WriteFails(p)
      PROVE  UNCHANGED <<log, merged, logged>>
  BY <1>6 DEF JobStep, Encode, Commit, Resume, WriteFails, db, ghost
<1> QED BY <1>1, <1>2, <1>3, <1>4, <1>5, <1>6 DEF Next

\* Blobs of one author: buffers, what is queued, and the rows that are no merge.
OneAuthor == {B \in SUBSET Update : \A u, v \in B : AuthorOf[u] = AuthorOf[v]}

Attributed ==
  /\ chain \in Seq(OneAuthor)
  /\ \A b \in Binding : pend[b] \in OneAuthor
  /\ \A s \in Seqs \ merged : log[s] \in OneAuthor

LEMMA AttributedStep ==
  ASSUME TypeOK, Attributed, [Next]_vars PROVE Attributed'
<1> USE DEF Attributed
<1>1. chain' \in Seq(OneAuthor) /\ \A b \in Binding : pend'[b] \in OneAuthor
  <2>1. {} \in OneAuthor BY DEF OneAuthor
  <2>2. ASSUME NEW b \in Binding, NEW u \in Update, Edit(b, u)
        PROVE  (IF Coalesces(u) THEN pend[current] \cup {u} ELSE {u}) \in OneAuthor
    <3>1. current \in Binding BY <2>2 DEF Edit, TypeOK
    <3>2. pend[current] \in OneAuthor BY <3>1
    <3> QED BY <3>2 DEF OneAuthor, Coalesces
  <2> QED BY <2>1, <2>2, QueueOver
<1>2. log \in [Seqs -> SUBSET Update] /\ head \in Nat BY DEF TypeOK
<1>3. ASSUME NEW s \in Seqs, s \notin merged' PROVE log'[s] \in OneAuthor
  <2>1. CASE UNCHANGED <<log, merged, logged>> BY <1>3, <2>1
  <2>2. ASSUME NEW b \in Binding, AppendRow(ydoc[b]), merged' = merged \cup {head + 1}
        PROVE  log'[s] \in OneAuthor
    BY <1>2, <1>3, <2>2 DEF AppendRow
  <2>3. CASE AppendCommits
    <3>1. Head(chain) \in OneAuthor BY <2>3, HeadTailOver DEF AppendCommits
    <3>2. merged' = merged /\ log' = [log EXCEPT ![head + 1] = Head(chain)]
      BY <2>3 DEF AppendCommits, AppendRow
    <3> QED BY <1>2, <1>3, <3>1, <3>2
  <2>4. ASSUME NEW S \in Mergeable, Compact(S) PROVE log'[s] \in OneAuthor
    <3>1. PICK last \in S :
            /\ log' = [r \in Seqs |-> IF r = last THEN UNION {log[q] : q \in S}
                                      ELSE IF r \in S THEN {} ELSE log[r]]
            /\ merged' = merged \cup {last}
      BY <2>4 DEF Compact
    <3>2. s # last /\ s \notin merged BY <1>3, <3>1
    <3>3. log'[s] = IF s \in S THEN {} ELSE log[s] BY <3>1, <3>2
    <3> QED BY <1>3, <3>2, <3>3 DEF OneAuthor
  <2> QED BY <2>1, <2>2, <2>3, <2>4, RowSteps
<1> QED BY <1>1, <1>3

\* No row mixes the updates of two authors but a merge, which has none, with any
\* number of overlapping bindings (doc-state.service.ts:29, 228).
THEOREM RowsHaveOneAuthor == Spec => []RowsAttributable
<1>1. Init => Attributed BY EmptySeq DEF Init, Attributed, OneAuthor
<1>2. TypeOK /\ Attributed /\ [Next]_vars => Attributed' BY AttributedStep
<1>3. Attributed => RowsAttributable BY DEF Attributed, RowsAttributable, OneAuthor
<1> QED BY <1>1, <1>2, <1>3, TypeCorrect, PTL DEF Spec
-----------------------------------------------------------------------------
(***************************************************************************)
(* What a crash lost is nowhere any more.                                  *)
(***************************************************************************)
\* A cold load reads every row.
LEMMA RowsRecovered ==
  ASSUME TypeOK, IInv
  PROVE  (\A s \in Seqs : log[s] \subseteq Recovered) /\ logged \subseteq Recovered
<1>1. ASSUME NEW s \in Seqs PROVE log[s] \subseteq Recovered
  <2>1. CASE s <= snapSeq BY <2>1 DEF IInv, StoreSafe, Covers, Recovered
  <2>2. CASE s > snapSeq BY <2>2 DEF Recovered, TailAfter
  <2> QED BY <2>1, <2>2 DEF TypeOK, Seqs
<1> QED BY <1>1 DEF IInv, StoreSafe

\* How a Y.Doc can change.
LEMMA DocSteps ==
  ASSUME TypeOK, [Next]_vars, NEW c \in Binding
  PROVE  \/ ydoc'[c] = ydoc[c]
         \/ LoadSnapshot(c) /\ ydoc'[c] = snap
         \/ ydoc'[c] = ydoc[c] \cup TailAfter(loadSeq[c])
         \/ \E u \in Update \ taken : ydoc'[c] = ydoc[c] \cup {u}
         \/ Crash
<1>a. ydoc \in [Binding -> SUBSET Update] BY DEF TypeOK
<1> DEFINE Goal == \/ ydoc'[c] = ydoc[c]
                   \/ LoadSnapshot(c) /\ ydoc'[c] = snap
                   \/ ydoc'[c] = ydoc[c] \cup TailAfter(loadSeq[c])
                   \/ \E u \in Update \ taken : ydoc'[c] = ydoc[c] \cup {u}
                   \/ Crash
<1>0. ydoc' = ydoc => Goal OBVIOUS
<1>1. ASSUME NEW b \in Binding, LoadSnapshot(b) PROVE Goal
  <2>1. ydoc' = [ydoc EXCEPT ![b] = snap] BY <1>1 DEF LoadSnapshot
  <2>2. CASE b = c BY <1>a, <1>1, <2>1, <2>2
  <2>3. CASE b # c BY <1>a, <2>1, <2>3
  <2> QED BY <2>2, <2>3
<1>2. ASSUME NEW b \in Binding, LoadTail(b) PROVE Goal
  <2>1. ydoc' = [ydoc EXCEPT ![b] = ydoc[b] \cup TailAfter(loadSeq[b])]
    BY <1>2 DEF LoadTail
  <2> QED BY <1>a, <2>1
<1>3. ASSUME NEW b \in Binding, NEW u \in Update, Edit(b, u) \/ EditUnheard(b, u) PROVE Goal
  <2>1. ydoc' = [ydoc EXCEPT ![b] = ydoc[b] \cup {u}] /\ u \in Update \ taken
    BY <1>3 DEF Edit, EditUnheard
  <2> QED BY <1>a, <2>1
<1>4. Crash => Goal OBVIOUS
<1> HIDE DEF Goal
<1>5. ASSUME NEW b \in Binding,
             Open(b) \/ LoadHead(b) \/ Seed(b) \/ LoadLast(b) \/ Bind(b) \/ LoadFails(b)
      PROVE  Goal
  BY <1>0, <1>5 DEF Open, LoadHead, Seed, LoadLast, Bind, LoadFails
<1>6. ASSUME NEW b \in Binding, FlushTimer(b) \/ Close(b) \/ CloseStep(b) PROVE Goal
  BY <1>0, <1>6 DEF FlushTimer, Close, CloseStep, CloseFlush, CloseAwaitsFlush, CloseCompacts,
                    CloseEvicts
<1>7. ASSUME \/ CoalesceTimer \/ AppendCommits \/ AppendFails
             \/ Checkpoint \/ CompactionPass \/ UNCHANGED vars
      PROVE  Goal
  BY <1>0, <1>7 DEF CoalesceTimer, AppendCommits, AppendFails, Checkpoint, CompactionPass, vars
<1>8. ASSUME NEW p \in Proc, JobStep(p) \/ WriteFails(p) PROVE Goal
  BY <1>0, <1>8 DEF JobStep, Encode, Commit, Resume, WriteFails
<1>9. Goal
  BY <1>1, <1>2, <1>3, <1>4, <1>5, <1>6, <1>7, <1>8 DEF Next, LoadStep
<1> QED BY <1>9 DEF Goal

\* The snapshot is what a job has captured.
LEMMA SnapSteps ==
  ASSUME [Next]_vars PROVE snap' = snap \/ \E p \in Proc : Commit(p) /\ snap' = job[p].blob
<1>1. ASSUME NEW p \in Proc, Commit(p) PROVE snap' = job[p].blob BY <1>1 DEF Commit
<1>2. ASSUME NEW b \in Binding, NEW blob, AppendRow(blob) PROVE snap' = snap
  BY <1>2 DEF AppendRow
<1>3. ASSUME NEW S, Compact(S) PROVE snap' = snap BY <1>3 DEF Compact
<1>4. ASSUME NEW b \in Binding, LoadStep(b) \/ LoadFails(b) PROVE snap' = snap
  BY <1>4 DEF LoadStep, LoadSnapshot, LoadHead, LoadTail, Seed, LoadLast, Bind, LoadFails, db,
              AppendRow
<1>5. ASSUME NEW b \in Binding, FlushTimer(b) \/ CloseStep(b) \/ Close(b) \/ Open(b)
      PROVE  snap' = snap
  BY <1>3, <1>5 DEF FlushTimer, CloseStep, CloseFlush, CloseAwaitsFlush, CloseCompacts,
                    CloseEvicts, Close, Open, db
<1>6. ASSUME NEW b \in Binding, NEW u \in Update, Edit(b, u) \/ EditUnheard(b, u)
      PROVE  snap' = snap
  BY <1>6 DEF Edit, EditUnheard, db
<1>7. CASE CoalesceTimer \/ AppendFails \/ Checkpoint \/ Crash \/ UNCHANGED vars
  BY <1>7 DEF CoalesceTimer, AppendFails, Checkpoint, Crash, vars, db
<1>8. CASE CompactionPass BY <1>3, <1>8 DEF CompactionPass
<1>9. CASE AppendCommits BY <1>9 DEF AppendCommits, AppendRow
<1>10. ASSUME NEW p \in Proc, JobStep(p) \/ WriteFails(p) PROVE snap' = snap \/ Commit(p)
  BY <1>10 DEF JobStep, Encode, Resume, WriteFails, db
<1> QED BY <1>1, <1>4, <1>5, <1>6, <1>7, <1>8, <1>9, <1>10 DEF Next

\* Only a crash loses, and only clients make updates.
LEMMA GhostSteps ==
  ASSUME TypeOK, [Next]_vars
  PROVE  /\ Crash \/ lost' = lost
         /\ taken \subseteq taken' /\ faults \in Nat /\ faults' >= faults
<1>0. faults \in Nat BY DEF TypeOK
<1>1. ASSUME NEW b \in Binding, LoadStep(b) \/ LoadFails(b)
      PROVE  lost' = lost /\ taken' = taken /\ faults' >= faults
  BY <1>0, <1>1 DEF LoadStep, LoadSnapshot, LoadHead, LoadTail, Seed, LoadLast, Bind,
                    LoadFails, Fault, ghost
<1>2. ASSUME NEW b \in Binding, FlushTimer(b) \/ CloseStep(b) \/ Close(b) \/ Open(b)
      PROVE  lost' = lost /\ taken' = taken /\ faults' = faults
  BY <1>2 DEF FlushTimer, CloseStep, CloseFlush, CloseAwaitsFlush, CloseCompacts, CloseEvicts,
              Close, Open, ghost
<1>3. ASSUME NEW b \in Binding, NEW u \in Update, Edit(b, u) \/ EditUnheard(b, u)
      PROVE  lost' = lost /\ taken \subseteq taken' /\ faults' = faults
  BY <1>3 DEF Edit, EditUnheard
<1>4. ASSUME CoalesceTimer \/ AppendCommits \/ Checkpoint \/ CompactionPass \/ UNCHANGED vars
      PROVE  lost' = lost /\ taken' = taken /\ faults' = faults
  BY <1>4 DEF CoalesceTimer, AppendCommits, Checkpoint, CompactionPass, vars, ghost
<1>5. CASE AppendFails BY <1>0, <1>5 DEF AppendFails, Fault, ghost
<1>6. CASE Crash
  <2>1. taken' = taken /\ faults' = faults BY <1>6 DEF Crash
  <2> QED BY <1>0, <1>6, <2>1
<1>7. ASSUME NEW p \in Proc, JobStep(p) \/ WriteFails(p)
      PROVE  lost' = lost /\ taken' = taken /\ faults' >= faults
  BY <1>0, <1>7 DEF JobStep, Encode, Commit, Resume, WriteFails, Fault, ghost
<1> QED BY <1>0, <1>1, <1>2, <1>3, <1>4, <1>5, <1>6, <1>7 DEF Next

\* Every row's content has been logged, and what is lost is in no place left.
LostGone ==
  /\ lost \subseteq taken
  /\ (snap \cup logged) \cap lost = {}
  /\ \A s \in Seqs : log[s] \subseteq logged
  /\ \A b \in Binding : ydoc[b] \cap lost = {} /\ pend[b] \in SUBSET (Update \ lost)
  /\ \A p \in Proc : job[p].blob \cap lost = {}
  /\ chain \in Seq(SUBSET (Update \ lost))

LEMMA CrashLoses == ASSUME TypeOK, IInv, LostGone, Crash PROVE LostGone'
<1>1. /\ lost' = taken \ Recovered /\ taken' = taken /\ snap' = snap /\ logged' = logged
      /\ log' = log /\ chain' = << >> /\ \A p \in Proc : job'[p].blob = {}
      /\ \A b \in Binding : ydoc'[b] = {} /\ pend'[b] = {}
  BY DEF Crash, db, Idle
<1>2. snap \subseteq Recovered /\ logged \subseteq Recovered BY RowsRecovered DEF Recovered
<1>3. chain' \in Seq(SUBSET (Update \ lost')) BY <1>1, EmptySeq
<1> QED BY <1>1, <1>2, <1>3 DEF LostGone

LEMMA RowsLogged ==
  ASSUME TypeOK, LostGone, [Next]_vars
  PROVE  /\ \A s \in Seqs : log'[s] \subseteq logged'
         /\ logged \subseteq logged' /\ logged' \cap lost = {}
<1> USE DEF LostGone
<1>a. log \in [Seqs -> SUBSET Update] BY DEF TypeOK
<1>1. CASE UNCHANGED <<log, merged, logged>> BY <1>1
<1>2. ASSUME NEW blob, AppendRow(blob), blob \cap lost = {}
      PROVE  /\ \A s \in Seqs : log'[s] \subseteq logged'
             /\ logged \subseteq logged' /\ logged' \cap lost = {}
  BY <1>a, <1>2 DEF AppendRow
<1>3. CASE AppendCommits
  <2>1. Head(chain) \in SUBSET (Update \ lost) BY <1>3, HeadTailOver DEF AppendCommits
  <2> QED BY <1>2, <1>3, <2>1 DEF AppendCommits
<1>4. ASSUME NEW S \in Mergeable, Compact(S), logged' = logged
      PROVE  \A s \in Seqs : log'[s] \subseteq logged'
  <2>1. S \subseteq Seqs BY DEF Mergeable
  <2>2. PICK last \in S :
          log' = [s \in Seqs |-> IF s = last THEN UNION {log[r] : r \in S}
                                 ELSE IF s \in S THEN {} ELSE log[s]]
    BY <1>4 DEF Compact
  <2>3. UNION {log[r] : r \in S} \subseteq logged BY <2>1
  <2> QED BY <1>4, <2>2, <2>3
<1> QED BY <1>1, <1>2, <1>3, <1>4, RowSteps

LEMMA LostStep == ASSUME TypeOK, IInv, LostGone, [Next]_vars PROVE LostGone'
<1>1. CASE Crash BY <1>1, CrashLoses
<1>2. CASE ~Crash
  <2> USE DEF LostGone
  <2>1. lost' = lost /\ lost \subseteq taken' BY <1>2, GhostSteps
  <2>2. /\ \A s \in Seqs : log'[s] \subseteq logged'
        /\ logged' \cap lost = {}
    BY RowsLogged
  <2>3. snap' \cap lost = {} BY SnapSteps
  <2>4. ASSUME NEW b \in Binding PROVE ydoc'[b] \cap lost = {}
    <3>1. TailAfter(loadSeq[b]) \cap lost = {} BY DEF TailAfter
    <3> QED BY <1>2, <3>1, DocSteps
  <2>5. ASSUME NEW p \in Proc PROVE job'[p].blob \cap lost = {}
    <3>1. Idle.blob = {} BY DEF Idle
    <3> QED BY <3>1, JobMoves DEF Moved, Started, MovedOn, Captured
  <2>6. chain' \in Seq(SUBSET (Update \ lost)) /\ \A b \in Binding : pend'[b] \in SUBSET (Update \ lost)
    <3>1. ASSUME NEW b \in Binding, NEW u \in Update, Edit(b, u)
          PROVE  (IF Coalesces(u) THEN pend[current] \cup {u} ELSE {u}) \in SUBSET (Update \ lost)
      <4>1. current \in Binding /\ u \notin lost BY <3>1 DEF Edit, TypeOK
      <4> QED BY <4>1
    <3> QED BY <3>1, QueueOver
  <2> QED BY <2>1, <2>2, <2>3, <2>4, <2>5, <2>6
<1> QED BY <1>1, <1>2
-----------------------------------------------------------------------------
(***************************************************************************)
(* No edit is stranded.                                                    *)
(***************************************************************************)
Chained == UNION {chain[i] : i \in DOMAIN chain}

\* A sequence with a blob appended holds what it held and the blob.
LEMMA AppendHolds ==
  ASSUME NEW c \in Seq(SUBSET Update), NEW blob \in SUBSET Update
  PROVE  (UNION {c[i] : i \in DOMAIN c}) \cup blob
           \subseteq UNION {Append(c, blob)[i] : i \in DOMAIN Append(c, blob)}
<1> DEFINE d == Append(c, blob)
<1>1. /\ Len(d) = Len(c) + 1 /\ d \in Seq(SUBSET Update)
      /\ \A i \in 1 .. Len(c) : d[i] = c[i]
      /\ d[Len(c) + 1] = blob
  BY AppendProperties
<1>2. DOMAIN d = 1 .. Len(c) + 1 /\ DOMAIN c = 1 .. Len(c) /\ Len(c) \in Nat
  BY <1>1, LenProperties
<1> HIDE DEF d
<1>3. \A i \in DOMAIN c : i \in DOMAIN d /\ d[i] = c[i] BY <1>1, <1>2
<1>4. Len(c) + 1 \in DOMAIN d BY <1>2
<1>5. (UNION {c[i] : i \in DOMAIN c}) \cup blob \subseteq UNION {d[i] : i \in DOMAIN d}
  BY <1>1, <1>3, <1>4
<1> QED BY <1>5 DEF d

\* A committed append leaves the chain.
LEMMA ChainedTail ==
  ASSUME TypeOK, chain # << >>, chain' = Tail(chain)
  PROVE  Chained \subseteq Chained' \cup Head(chain)
<1>0. chain \in Seq(SUBSET Update) BY DEF TypeOK
<1>1. /\ Len(chain) \in Nat \ {0} /\ DOMAIN chain = 1 .. Len(chain) /\ Head(chain) = chain[1]
      /\ Tail(chain) \in Seq(SUBSET Update) /\ Len(Tail(chain)) = Len(chain) - 1
      /\ DOMAIN Tail(chain) = 1 .. Len(Tail(chain))
      /\ \A i \in 1 .. Len(Tail(chain)) : Tail(chain)[i] = chain[i + 1]
  BY <1>0, HeadTailProperties, EmptySeq, LenProperties
<1>2. ASSUME NEW i \in DOMAIN chain, i # 1
      PROVE  i - 1 \in DOMAIN Tail(chain) /\ Tail(chain)[i - 1] = chain[i]
  <2>1. i - 1 \in 1 .. Len(Tail(chain)) /\ (i - 1) + 1 = i BY <1>1, <1>2
  <2> QED BY <1>1, <2>1
<1>3. ASSUME NEW i \in DOMAIN chain PROVE chain[i] \subseteq Chained' \cup Head(chain)
  BY <1>1, <1>2, <1>3 DEF Chained
<1> QED BY <1>3 DEF Chained

LEMMA QueuedParts == Queued = Pending \cup Chained /\ Queued' = Pending' \cup Chained'
BY DEF Queued, Chained

\* What a flush of the buffer and an edit leave queued.
LEMMA FlushKeepsQueued ==
  ASSUME TypeOK, current' = current, FlushPending \/ UNCHANGED <<chain, pend>>
  PROVE  Queued \subseteq Queued'
<1>1. Pending \in SUBSET Update BY ConstantFacts DEF TypeOK, Pending
<1>2. CASE UNCHANGED <<chain, pend>> BY <1>2 DEF Queued, Pending
<1>3. CASE FlushPending
  <2>1. CASE Pending = {} BY <1>3, <2>1, QueuedParts DEF FlushPending, Chained
  <2>2. CASE Pending # {}
    <3>1. chain' = Append(chain, Pending) /\ chain \in Seq(SUBSET Update)
      BY <1>3, <2>2 DEF FlushPending, TypeOK
    <3>2. Chained \cup Pending \subseteq Chained' BY <1>1, <3>1, AppendHolds DEF Chained
    <3> QED BY <3>2, QueuedParts
  <2> QED BY <2>1, <2>2
<1> QED BY <1>2, <1>3

LEMMA EditIsQueued ==
  ASSUME TypeOK, NEW b \in Binding, NEW u \in Update, Edit(b, u)
  PROVE  Queued \cup {u} \subseteq Queued'
<1> DEFINE queued == IF Coalesces(u) THEN chain ELSE Append(chain, pend[current])
           buffer == IF Coalesces(u) THEN pend[current] \cup {u} ELSE {u}
<1>1. /\ current \in Binding /\ current # None /\ current' = current
      /\ pend \in [Binding -> SUBSET Update] /\ chain \in Seq(SUBSET Update)
  BY DEF Edit, TypeOK
<1>2. \/ chain' = queued /\ pend' = [pend EXCEPT ![current] = buffer]
      \/ chain' = Append(queued, buffer) /\ pend' = [pend EXCEPT ![current] = {}]
  BY DEF Edit, Buffer
<1>3. queued \in Seq(SUBSET Update) /\ buffer \in SUBSET Update BY <1>1
<1>4. Pending = pend[current] /\ Pending' = pend'[current] BY <1>1 DEF Pending
<1>5. u \in buffer /\ (Coalesces(u) => pend[current] \subseteq buffer) OBVIOUS
<1> DEFINE held == UNION {queued[i] : i \in DOMAIN queued}
<1>6. Chained \subseteq held /\ (~Coalesces(u) => pend[current] \subseteq held)
  <2>1. CASE Coalesces(u) BY <2>1 DEF Chained
  <2>2. CASE ~Coalesces(u)
    <3> DEFINE blob == pend[current]
    <3>1. blob \in SUBSET Update BY <1>1
    <3> HIDE DEF blob
    <3>2. Chained \cup blob \subseteq UNION {Append(chain, blob)[i] : i \in DOMAIN Append(chain, blob)}
      BY <1>1, <3>1, AppendHolds DEF Chained
    <3> QED BY <2>2, <3>2 DEF blob
  <2> QED BY <2>1, <2>2
<1>7. chain' = Append(queued, buffer) => held \cup buffer \subseteq Chained'
  <2> HIDE DEF queued, buffer
  <2> QED BY <1>3, AppendHolds DEF Chained
<1> HIDE DEF queued, buffer
<1>8. chain' = queued => held \subseteq Chained' BY DEF Chained
<1> HIDE DEF held
<1>9. CASE chain' = queued /\ pend' = [pend EXCEPT ![current] = buffer]
  <2>1. Pending' = buffer BY <1>1, <1>4, <1>9
  <2> QED BY <1>4, <1>5, <1>6, <1>8, <1>9, <2>1, QueuedParts
<1>10. CASE chain' = Append(queued, buffer)
  BY <1>4, <1>5, <1>6, <1>7, <1>10, QueuedParts
<1> QED BY <1>2, <1>9, <1>10

\* Every step but a few keeps the map's entry and the edits, and changes the
\* queue by the buffer only.
LEMMA QueueSteps ==
  ASSUME TypeOK, [Next]_vars
  PROVE  \/ /\ FlushPending \/ UNCHANGED <<chain, pend>>
            /\ UNCHANGED <<current, taken>>
         \/ \E b \in Binding : Bind(b) \/ CloseEvicts(b)
         \/ \E b \in Binding, u \in Update : Edit(b, u) \/ EditUnheard(b, u)
         \/ AppendCommits \/ AppendFails \/ Crash
<1> DEFINE Plain == /\ FlushPending \/ UNCHANGED <<chain, pend>>
                    /\ UNCHANGED <<current, taken>>
<1>1. ASSUME NEW b \in Binding, LoadStep(b) \/ LoadFails(b), ~Bind(b) PROVE Plain
  BY <1>1 DEF LoadStep, LoadSnapshot, LoadHead, LoadTail, Seed, LoadLast, LoadFails, entry,
              queue, ghost
<1>2. ASSUME NEW b \in Binding, FlushTimer(b) \/ CloseStep(b) \/ Close(b) \/ Open(b),
             ~CloseEvicts(b)
      PROVE  Plain
  BY <1>2 DEF FlushTimer, BeginFlush, CloseStep, CloseFlush, CloseAwaitsFlush, CloseCompacts,
              Close, Open, entry, queue, ghost
<1>3. ASSUME CoalesceTimer \/ Checkpoint \/ CompactionPass \/ UNCHANGED vars PROVE Plain
  BY <1>3 DEF CoalesceTimer, Checkpoint, CompactionPass, vars, entry, queue, ghost
<1>4. ASSUME NEW p \in Proc, JobStep(p) \/ WriteFails(p) PROVE Plain
  BY <1>4 DEF JobStep, Encode, Commit, Resume, WriteFails, entry, queue, ghost
<1> HIDE DEF Plain
<1>5. \/ Plain
      \/ \E b \in Binding : Bind(b) \/ CloseEvicts(b)
      \/ \E b \in Binding, u \in Update : Edit(b, u) \/ EditUnheard(b, u)
      \/ AppendCommits \/ AppendFails \/ Crash
  BY <1>1, <1>2, <1>3, <1>4 DEF Next
<1> QED BY <1>5 DEF Plain

\* Accepted updates that are in no row, not queued and not lost: those a
\* snapshot has held since a crash or since before the log.
Unlogged == taken \ (logged \cup Queued \cup lost)

\* As long as no call fails, the snapshot keeps them, and so does everything
\* that may become the snapshot; writeState leaves nothing in the buffer.
Kept ==
  /\ Unlogged \subseteq snap
  /\ \A b \in Binding : phase[b] \in Loading \ {"snapshot"} => Unlogged \subseteq ydoc[b]
  /\ current # None => Unlogged \subseteq ydoc[current]
  /\ \A p \in Proc :
       /\ job[p].pc = "write" => Unlogged \subseteq job[p].blob
       /\ job[p].pc = "drain" => Unlogged \subseteq ydoc[job[p].ent]

KeptSafe ==
  /\ \A b \in Binding : phase[b] = "failed" => faults # 0
  /\ \A b \in Binding : job[<<"close", b>>].pc = "settle" => Pending = {}
  /\ faults = 0 => Kept

\* The buffer stays empty until the next edit.
LEMMA PendingStays ==
  ASSUME TypeOK, live = None, Pending = {}, [Next]_vars PROVE Pending' = {}
<1>a. pend \in [Binding -> SUBSET Update] /\ current \in Binding \cup {None} BY DEF TypeOK
<1>1. CASE (FlushPending \/ UNCHANGED <<chain, pend>>) /\ UNCHANGED <<current, taken>>
  BY <1>1, <1>a DEF FlushPending, Pending
<1>2. ASSUME NEW b \in Binding, Bind(b) PROVE Pending' = {}
  BY <1>2, <1>a DEF Bind, Pending
<1>3. ASSUME NEW b \in Binding, CloseEvicts(b) PROVE Pending' = {}
  BY <1>3 DEF CloseEvicts, Pending
<1>4. ASSUME NEW b \in Binding, NEW u \in Update, Edit(b, u) \/ EditUnheard(b, u) PROVE FALSE
  BY <1>4, ConstantFacts DEF Edit, EditUnheard
<1>5. CASE AppendCommits \/ AppendFails
  BY <1>5 DEF AppendCommits, AppendFails, entry, Pending
<1>6. CASE Crash BY <1>6 DEF Crash, Pending
<1> QED BY <1>1, <1>2, <1>3, <1>4, <1>5, <1>6, QueueSteps

LEMMA SettleStep ==
  ASSUME TypeOK, IInv, KeptSafe, [Next]_vars, NEW b \in Binding,
         job'[<<"close", b>>].pc = "settle"
  PROVE  Pending' = {}
<1> DEFINE q == <<"close", b>>
<1>1. q \in Proc /\ q[1] = "close" /\ q[2] = b BY ProcType
<1>2. CASE CloseCompacts(b)
  BY <1>2 DEF CloseCompacts, FlushPending, Pending, TypeOK
<1>3. CASE job[q].pc = "settle"
  <2>1. Pending = {} BY <1>3 DEF KeptSafe
  <2>2. live = None BY <1>1, <1>3 DEF IInv, JobsSafe
  <2> QED BY <2>1, <2>2, PendingStays
<1> HIDE DEF q
<1>4. \/ job'[q] = job[q] \/ job'[q] = Idle \/ Started(q) \/ MovedOn(q) \/ Captured(q)
  BY <1>1, JobMoves DEF Moved
<1>5. job'[q].pc = "settle" BY DEF q
<1> QED BY <1>1, <1>2, <1>3, <1>4, <1>5, IdlePc DEF Started, MovedOn, Captured

\* A load that fails is a fault.
LEMMA FailedStep ==
  ASSUME TypeOK, KeptSafe, [Next]_vars, NEW b \in Binding, phase'[b] = "failed"
  PROVE  faults' # 0
<1>1. faults \in Nat /\ faults' >= faults BY GhostSteps
<1>2. CASE phase[b] = "failed" \/ faults # 0
  BY <1>1, <1>2 DEF KeptSafe
<1>3. ASSUME NEW c \in Binding, LoadFails(c) PROVE faults' # 0
  BY <1>1, <1>3 DEF LoadFails, Fault
<1>4. ASSUME NEW c \in Binding, Open(c) \/ LoadStep(c) \/ Close(c) \/ CloseEvicts(c)
      PROVE  phase[b] = "failed"
  BY <1>4 DEF Open, LoadStep, LoadSnapshot, LoadHead, LoadTail, Seed, LoadLast, Bind, Close,
              CloseEvicts, bind, TypeOK
<1>5. CASE Crash BY <1>5 DEF Crash
<1> QED BY <1>2, <1>3, <1>4, <1>5, BindingSteps

\* Without a crash or a fault, nothing accepted leaves the queue but for a row.
LEMMA UnloggedShrinks ==
  ASSUME TypeOK, IInv, KeptSafe, LostGone, [Next]_vars, ~Crash, faults' = 0
  PROVE  Unlogged' \subseteq Unlogged
<1>a. lost' = lost /\ logged \subseteq logged' /\ faults = 0
  BY GhostSteps, RowsLogged
<1>b. current \in Binding \cup {None} BY DEF TypeOK
<1>c. ASSUME Queued \subseteq Queued' \cup logged', taken' = taken
      PROVE  Unlogged' \subseteq Unlogged
  BY <1>a, <1>c DEF Unlogged
<1>1. CASE (FlushPending \/ UNCHANGED <<chain, pend>>) /\ UNCHANGED <<current, taken>>
  BY <1>1, <1>c, FlushKeepsQueued
<1>2. ASSUME NEW b \in Binding, Bind(b) PROVE Unlogged' \subseteq Unlogged
  <2>1. current = None BY <1>2 DEF Bind, IInv, LoadsSafe, Loading
  <2>2. chain' = chain /\ taken' = taken BY <1>2 DEF Bind, queue, ghost
  <2>3. Pending = {} /\ Chained' = Chained BY <2>1, <2>2 DEF Pending, Chained
  <2> QED BY <1>c, <2>2, <2>3, QueuedParts
<1>3. ASSUME NEW b \in Binding, CloseEvicts(b) PROVE Unlogged' \subseteq Unlogged
  <2>1. Pending = {} BY <1>3 DEF CloseEvicts, KeptSafe
  <2>2. chain' = chain /\ taken' = taken BY <1>3 DEF CloseEvicts, queue, ghost
  <2>3. Chained' = Chained BY <2>2 DEF Chained
  <2> QED BY <1>c, <2>1, <2>2, <2>3, QueuedParts
<1>4. ASSUME NEW b \in Binding, NEW u \in Update, Edit(b, u) PROVE Unlogged' \subseteq Unlogged
  <2>1. taken' = taken \cup {u} /\ Queued \cup {u} \subseteq Queued'
    BY <1>4, EditIsQueued DEF Edit
  <2> QED BY <1>a, <2>1 DEF Unlogged
<1>5. ASSUME NEW b \in Binding, NEW u \in Update, EditUnheard(b, u) PROVE FALSE
  BY <1>a, <1>5 DEF EditUnheard, KeptSafe
<1>6. CASE AppendCommits
  <2>1. /\ chain # << >> /\ chain' = Tail(chain) /\ Head(chain) \subseteq logged'
        /\ pend' = pend /\ current' = current /\ taken' = taken
    BY <1>6 DEF AppendCommits, AppendRow
  <2>2. Chained \subseteq Chained' \cup Head(chain) BY <2>1, ChainedTail
  <2>3. Pending' = Pending BY <2>1 DEF Pending
  <2> QED BY <1>c, <2>1, <2>2, <2>3, QueuedParts
<1>7. CASE AppendFails
  <2>1. faults' = faults + 1 BY <1>7 DEF AppendFails, Fault
  <2> QED BY <1>a, <2>1
<1> QED BY <1>1, <1>2, <1>3, <1>4, <1>5, <1>6, <1>7, QueueSteps

\* A Y.Doc keeps what the snapshot has as well.
LEMMA DocKeeps ==
  ASSUME TypeOK, [Next]_vars, ~Crash, NEW c \in Binding, NEW X,
         X \subseteq snap, X \subseteq ydoc[c]
  PROVE  X \subseteq ydoc'[c]
BY DocSteps

\* A binding is in a later phase of a load only through a step of its load.
LEMMA LoadSteps ==
  ASSUME TypeOK, [Next]_vars, NEW b \in Binding, phase'[b] \in Loading \ {"snapshot"}
  PROVE  phase[b] \in Loading \ {"snapshot"} \/ ydoc'[b] = snap
<1>a. phase \in [Binding -> Phases] /\ ydoc \in [Binding -> SUBSET Update] BY DEF TypeOK
<1>1. CASE phase'[b] = phase[b] BY <1>1
<1>2. ASSUME NEW c \in Binding, Open(c) \/ Close(c) \/ CloseEvicts(c)
      PROVE  phase'[b] = phase[b]
  BY <1>2, <1>a DEF Open, Close, CloseEvicts, bind, Loading
<1>3. ASSUME NEW c \in Binding, LoadStep(c) \/ LoadFails(c), phase'[b] # phase[b]
      PROVE  phase[b] \in Loading \ {"snapshot"} \/ ydoc'[b] = snap
  <2>1. c = b /\ phase[b] \in Loading BY <1>a, <1>3, LoadPhases
  <2>2. CASE LoadSnapshot(b) BY <1>a, <2>2 DEF LoadSnapshot
  <2>3. CASE LoadFails(b) BY <1>a, <2>3 DEF LoadFails, Loading
  <2>4. CASE LoadHead(b) \/ LoadTail(b) \/ Seed(b) \/ LoadLast(b) \/ Bind(b)
    <3>1. phase[b] # "snapshot" BY <2>4 DEF LoadHead, LoadTail, Seed, LoadLast, Bind
    <3> QED BY <2>1, <3>1
  <2> QED BY <1>3, <2>1, <2>2, <2>3, <2>4 DEF LoadStep
<1>4. ASSUME Crash PROVE FALSE BY <1>4 DEF Crash, Loading
<1> QED BY <1>1, <1>2, <1>3, <1>4, BindingSteps

\* The map's entry changes by Bind only, or there is none any more.
LEMMA CurrentSteps ==
  ASSUME TypeOK, [Next]_vars, ~Crash, current' # None
  PROVE  current' = current \/ \E b \in Binding : phase[b] = "set" /\ current' = b
<1>1. ASSUME NEW b \in Binding, Open(b) \/ Close(b) \/ CloseEvicts(b)
      PROVE  current' = current
  BY <1>1 DEF Open, Close, CloseEvicts
<1>2. ASSUME NEW b \in Binding, LoadStep(b) \/ LoadFails(b)
      PROVE  current' = current \/ (phase[b] = "set" /\ current' = b)
  BY <1>2 DEF LoadStep, LoadSnapshot, LoadHead, LoadTail, Seed, LoadLast, Bind, LoadFails
<1> QED BY <1>1, <1>2, BindingSteps

LEMMA KeptStep ==
  ASSUME TypeOK, IInv, LostGone, KeptSafe, [Next]_vars, ~Crash, faults' = 0 PROVE Kept'
<1>0. faults = 0 BY GhostSteps
<1>1. Unlogged' \subseteq Unlogged BY UnloggedShrinks
<1>2. Unlogged \subseteq snap BY <1>0 DEF KeptSafe, Kept
<1>3. Unlogged \subseteq snap'
  <2>1. ASSUME NEW p \in Proc, Commit(p) PROVE Unlogged \subseteq job[p].blob
    BY <1>0, <2>1 DEF Commit, KeptSafe, Kept
  <2> QED BY <1>2, <2>1, SnapSteps
<1>4. ASSUME NEW b \in Binding, phase'[b] \in Loading \ {"snapshot"}
      PROVE  Unlogged \subseteq ydoc'[b]
  <2>1. CASE phase[b] \in Loading \ {"snapshot"}
    <3>1. Unlogged \subseteq ydoc[b] BY <1>0, <2>1 DEF KeptSafe, Kept
    <3> QED BY <1>2, <3>1, DocKeeps
  <2>2. CASE ydoc'[b] = snap BY <1>2, <2>2
  <2> QED BY <1>4, <2>1, <2>2, LoadSteps
<1>5. current \in Binding \cup {None} /\ (current # None => Unlogged \subseteq ydoc[current])
  BY <1>0 DEF KeptSafe, Kept, TypeOK
<1>6. ASSUME current' # None PROVE Unlogged \subseteq ydoc'[current']
  <2>1. CASE current' = current
    <3>1. current \in Binding BY <1>5, <1>6, <2>1
    <3> QED BY <1>2, <1>5, <1>6, <2>1, <3>1, DocKeeps
  <2>2. ASSUME NEW b \in Binding, phase[b] = "set", current' = b
        PROVE  Unlogged \subseteq ydoc'[current']
    <3>1. Unlogged \subseteq ydoc[b] BY <1>0, <2>2 DEF KeptSafe, Kept, Loading
    <3> QED BY <1>2, <2>2, <3>1, DocKeeps
  <2> QED BY <1>6, <2>1, <2>2, CurrentSteps
<1>7. ASSUME NEW p \in Proc, job'[p].pc = "write" PROVE Unlogged \subseteq job'[p].blob
  <2>1. CASE job'[p] = job[p] BY <1>0, <1>7, <2>1 DEF KeptSafe, Kept
  <2>2. CASE Captured(p)
    <3>1. job[p].pc = "drain" /\ job'[p].blob = ydoc[job[p].ent] BY <2>2 DEF Captured, Encode
    <3> QED BY <1>0, <3>1 DEF KeptSafe, Kept
  <2> QED BY <1>7, <2>1, <2>2, JobPcs
<1>8. ASSUME NEW p \in Proc, job'[p].pc = "drain" PROVE Unlogged \subseteq ydoc'[job'[p].ent]
  <2>1. CASE job'[p] = job[p]
    <3>1. job[p].ent \in Binding /\ Unlogged \subseteq ydoc[job[p].ent]
      BY <1>0, <1>8, <2>1, JobType DEF KeptSafe, Kept, NeedsEntry
    <3> QED BY <1>2, <2>1, <3>1, DocKeeps
  <2>2. CASE Started(p)
    <3>1. job'[p].ent = current /\ current \in Binding /\ current # None
      BY <1>5, <1>8, <2>2 DEF Started
    <3> QED BY <1>2, <1>5, <3>1, DocKeeps
  <2> QED BY <1>8, <2>1, <2>2, JobMoves, IdlePc DEF Moved, MovedOn, Captured
<1> QED BY <1>1, <1>3, <1>4, <1>6, <1>7, <1>8 DEF Kept

LEMMA CrashKeeps ==
  ASSUME TypeOK, IInv, LostGone, Crash PROVE Kept'
<1>1. /\ lost' = taken \ Recovered /\ taken' = taken /\ snap' = snap /\ logged' = logged
      /\ current' = None /\ \A p \in Proc : job'[p].pc = "idle"
      /\ \A b \in Binding : phase'[b] \in {"unused", "dead"}
  BY IdlePc DEF Crash, db
<1>2. TailAfter(snapSeq) \subseteq logged BY DEF TailAfter, LostGone
<1>3. Unlogged' \subseteq snap' BY <1>1, <1>2 DEF Unlogged, Recovered
<1> QED BY <1>1, <1>3 DEF Kept, Loading

\* No edit is unaccounted for: while no call has failed, every accepted update is
\* in the database or queued for it, or a crash lost it; an entry that is clean
\* has its whole Y.Doc stored; a row that is no merge has one author
\* (doc-state.service.ts:226-345).
THEOREM EveryEditIsAccounted == ASSUME Overlap = FALSE PROVE Spec => []EditsAccounted
<1>1. Init => LostGone
  BY EmptySeq DEF Init, LostGone, Idle
<1>2. TypeOK /\ IInv /\ LostGone /\ [Next]_vars => LostGone' BY LostStep
<1>3. Init => KeptSafe
  BY IdlePc DEF Init, KeptSafe, Kept, Unlogged, Loading, Pending, Proc
<1>4. TypeOK /\ IInv /\ LostGone /\ KeptSafe /\ [Next]_vars => KeptSafe'
  <2> SUFFICES ASSUME TypeOK, IInv, LostGone, KeptSafe, [Next]_vars PROVE KeptSafe' OBVIOUS
  <2>1. faults' = 0 => Kept' BY KeptStep, CrashKeeps
  <2> QED BY <2>1, FailedStep, SettleStep DEF KeptSafe
<1>5. TypeOK /\ IInv /\ LostGone /\ KeptSafe => NothingStranded
  BY RowsRecovered DEF KeptSafe, Kept, Unlogged, NothingStranded, Recovered
<1>6. TypeOK /\ IInv /\ LostGone /\ NothingStranded => CleanMeansStored
  <2> SUFFICES ASSUME TypeOK, IInv, LostGone, NothingStranded, faults = 0, current # None,
                      ~Saving(current)
               PROVE  ydoc[current] \subseteq Recovered
    BY DEF CleanMeansStored
  <2>1. Queued = {} BY DEF Saving
  <2>2. current \in Binding BY DEF TypeOK
  <2>3. ydoc[current] \subseteq taken /\ ydoc[current] \cap lost = {}
    BY <2>2 DEF IInv, OnlyTaken, LostGone
  <2> QED BY <2>1, <2>3 DEF NothingStranded
<1>7. NothingStranded /\ CleanMeansStored /\ RowsAttributable => EditsAccounted
  BY DEF EditsAccounted
<1> QED
  BY <1>1, <1>2, <1>3, <1>4, <1>5, <1>6, <1>7, TypeCorrect, Invariant, RowsHaveOneAuthor, PTL
     DEF Spec
=============================================================================
