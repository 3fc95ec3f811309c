---------------------------- MODULE IndexerWake ----------------------------
(***************************************************************************)
(* When the indexer sweeps: IndexerNotifier in the rtc server pings the    *)
(* worker after a flush, unless it believes a sweep to be on its way;      *)
(* IndexerService coalesces pings into one scheduled sweep, and sweeps at  *)
(* its start and on a slow safety timer as well.  What a sweep does to the *)
(* index is the module SearchIndex; here a row is only queued or not.      *)
(*                                                                         *)
(* Time is abstracted: a timer fires at some point after it is set, and    *)
(* the worker's nextRunAt means the same moment to both processes.         *)
(***************************************************************************)
EXTENDS Naturals, FiniteSets

CONSTANTS
  Doc,        \* documents
  Batch,      \* rows taken per claim
  MaxFaults   \* bound on failing calls, lost pings and crashes

VARIABLES
  queue,       \* documents with a row in stale_documents
  notes,       \* flushes committed by the rtc server and not yet notified
  ping,        \* IndexerNotifier: "quiet", "sent", "held" (now < suppressUntil)
  until,       \* what "held" waits for: the sweep "told", or a "backoff"
  up,          \* the worker: "down", "boot", "up"
  scheduled,   \* scheduledAt # null: a timer is running
  running, pending,
  pc,          \* drain's next step: "claim", "work", or "idle"
  claimed,     \* claimed documents whose row has not been bumped since
  size,        \* number of rows claimed
  cancelled,   \* history: a trigger has cancelled a scheduled sweep
  faults

rtc    == <<notes, ping, until>>
timer  == <<scheduled, cancelled>>
drain  == <<pc, claimed, size>>
vars   == <<queue, rtc, up, timer, running, pending, drain, faults>>

TypeOK ==
  /\ queue \subseteq Doc /\ notes \subseteq Doc
  /\ ping \in {"quiet", "sent", "held"} /\ until \in {"none", "told", "backoff"}
  /\ up \in {"down", "boot", "up"}
  /\ scheduled \in BOOLEAN /\ running \in BOOLEAN /\ pending \in BOOLEAN
  /\ pc \in {"claim", "work", "idle"}
  /\ claimed \subseteq Doc /\ size \in 0 .. Batch
  /\ cancelled \in BOOLEAN /\ faults \in 0 .. MaxFaults
  /\ running <=> pc # "idle"

Init ==
  /\ queue = {} /\ notes = {} /\ ping = "quiet" /\ until = "none"
  /\ up = "down" /\ scheduled = FALSE /\ running = FALSE /\ pending = FALSE
  /\ pc = "idle" /\ claimed = {} /\ size = 0
  /\ cancelled = FALSE /\ faults = 0

Fault == faults < MaxFaults /\ faults' = faults + 1
-----------------------------------------------------------------------------
(***************************************************************************)
(* The rtc server.                                                         *)
(***************************************************************************)

\* A flush commits its queue row; a row a sweep has claimed is bumped.
Flush(d) ==
  /\ queue' = queue \cup {d}
  /\ claimed' = claimed \ {d}
  /\ notes' = notes \cup {d}
  /\ UNCHANGED <<ping, until, up, timer, running, pending, pc, size, faults>>

\* notify: one ping per window (a second one while the first is in flight would
\* be answered alike).
Notify(d) ==
  /\ d \in notes
  /\ notes' = notes \ {d}
  /\ ping' = IF ping = "quiet" THEN "sent" ELSE ping
  /\ UNCHANGED <<queue, until, up, timer, running, pending, drain, faults>>

\* The worker is down, unreachable or answers with an error: back off.
PingFails ==
  /\ ping = "sent"
  /\ Fault
  /\ ping' = "held" /\ until' = "backoff"
  /\ UNCHANGED <<queue, notes, up, timer, running, pending, drain>>

BackoffEnds ==
  /\ ping = "held" /\ until = "backoff"
  /\ ping' = "quiet" /\ until' = "none"
  /\ UNCHANGED <<queue, notes, up, timer, running, pending, drain, faults>>

\* The moment nextRunAt passes although no timer is left to fire then.
ToldEnds ==
  /\ ping = "held" /\ until = "told" /\ ~scheduled
  /\ ping' = "quiet" /\ until' = "none"
  /\ UNCHANGED <<queue, notes, up, timer, running, pending, drain, faults>>

\* The rtc server dies; a committed flush stays without its ping.
RtcCrash ==
  /\ notes # {} /\ Fault
  /\ notes' = {} /\ ping' = "quiet" /\ until' = "none"
  /\ UNCHANGED <<queue, up, timer, running, pending, drain>>
-----------------------------------------------------------------------------
(***************************************************************************)
(* The worker's timers.                                                    *)
(***************************************************************************)

\* wake: schedule a sweep unless one is, and tell when it runs.
Wake ==
  /\ ping = "sent" /\ up # "down"
  /\ scheduled' = TRUE
  /\ ping' = "held" /\ until' = "told"
  /\ UNCHANGED <<queue, notes, up, cancelled, running, pending, drain, faults>>

\* fire: one sweep at a time; a second one is remembered.
Fire ==
  /\ scheduled' = FALSE
  /\ running' = TRUE
  /\ IF running THEN pending' = TRUE /\ UNCHANGED pc
                ELSE pc' = "claim" /\ UNCHANGED pending

\* The scheduled sweep; rtc holds its pings until this moment.
ScheduledSweep ==
  /\ scheduled
  /\ Fire
  /\ IF until = "told" THEN ping' = "quiet" /\ until' = "none" ELSE UNCHANGED <<ping, until>>
  /\ UNCHANGED <<queue, notes, up, cancelled, claimed, size, faults>>

\* trigger: the timer of a scheduled sweep is cleared and a sweep starts now.
Trigger ==
  /\ Fire
  /\ cancelled' = (cancelled \/ scheduled)

\* Mutation: the safety timer is cleared when the backfill ends.
SafetySweepAtBoot ==
  /\ up = "boot"
  /\ Trigger
  /\ UNCHANGED <<queue, rtc, up, claimed, size, faults>>

SafetySweep ==
  /\ up # "down"
  /\ Trigger
  /\ UNCHANGED <<queue, rtc, up, claimed, size, faults>>

Boot ==
  /\ up = "down"
  /\ up' = "boot"
  /\ UNCHANGED <<queue, rtc, timer, running, pending, drain, faults>>

\* bootstrap ends, with or without its backfill.
Startup ==
  /\ up = "boot"
  /\ up' = "up"
  /\ \E S \in SUBSET Doc : queue' = queue \cup S
  /\ Trigger
  /\ UNCHANGED <<rtc, claimed, size, faults>>

\* The worker dies; its timers and flags go with it.
WorkerCrash ==
  /\ up # "down" /\ Fault
  /\ up' = "down"
  /\ scheduled' = FALSE /\ running' = FALSE /\ pending' = FALSE
  /\ pc' = "idle" /\ claimed' = {} /\ size' = 0
  /\ UNCHANGED <<queue, rtc, cancelled>>
-----------------------------------------------------------------------------
(***************************************************************************)
(* The sweep.                                                              *)
(***************************************************************************)

\* drain has returned: finally, a remembered sweep starts.
EndSweep ==
  /\ running' = pending
  /\ pending' = FALSE
  /\ pc' = IF pending THEN "claim" ELSE "idle"
  /\ claimed' = {} /\ size' = 0

Claim ==
  /\ pc = "claim"
  /\ IF queue = {} THEN EndSweep
     ELSE /\ \E S \in SUBSET queue :
               /\ IF Cardinality(queue) <= Batch THEN S = queue ELSE Cardinality(S) = Batch
               /\ claimed' = S /\ size' = Cardinality(S)
          /\ pc' = "work"
          /\ UNCHANGED <<running, pending>>
  /\ UNCHANGED <<queue, rtc, up, timer, faults>>

\* Read, write, guarded delete; a full batch is followed by another claim.
Work ==
  /\ pc = "work"
  /\ queue' = queue \ claimed
  /\ IF size < Batch THEN EndSweep
     ELSE pc' = "claim" /\ claimed' = {} /\ size' = 0 /\ UNCHANGED <<running, pending>>
  /\ UNCHANGED <<rtc, up, timer, faults>>

SweepFails ==
  /\ running /\ Fault
  /\ EndSweep
  /\ UNCHANGED <<queue, rtc, up, timer>>
-----------------------------------------------------------------------------
Next ==
  \/ \E d \in Doc : Flush(d) \/ Notify(d)
  \/ PingFails \/ BackoffEnds \/ ToldEnds \/ RtcCrash
  \/ Wake \/ ScheduledSweep \/ SafetySweep \/ Boot \/ Startup \/ WorkerCrash
  \/ Claim \/ Work \/ SweepFails

Spec == Init /\ [][Next]_vars

\* Timers fire, a worker is restarted, pings and the databases answer.
Fairness ==
  /\ WF_vars(Boot) /\ WF_vars(Startup) /\ WF_vars(SafetySweep)
  /\ WF_vars(Claim) /\ WF_vars(Work)

FairSpec == Spec /\ Fairness
-----------------------------------------------------------------------------
(***************************************************************************)
(* Properties.                                                             *)
(***************************************************************************)

\* A sweep whose last claim is still to come, or which has the row in hand.
Sweeping(d) == up = "boot" \/ pending \/ pc = "claim" \/ size = Batch \/ d \in claimed

\* Something other than the safety timer is about to serve the row.
Coming(d) == d \in notes \/ ping = "sent" \/ scheduled \/ up # "up" \/ Sweeping(d)

\* While no call fails and no trigger cancels a scheduled sweep, a queued row
\* never waits for the safety timer: not when its flush lands after the last
\* claim of a running sweep, not when its ping is held (indexer.service.ts:110,
\* indexer-notifier.ts:13-15).
QueuedIsServed == faults = 0 /\ ~cancelled => \A d \in queue : Coming(d)

\* Whatever pings were lost, a row is served or flushed again.
RowsAreServed == \A d \in Doc : d \in queue /\ d \notin claimed ~> d \in claimed \/ d \notin queue
=============================================================================
