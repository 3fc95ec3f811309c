----------------------------- MODULE MCServices -----------------------------
(***************************************************************************)
(* Components with fairness to state, which share no state, checked in one *)
(* run: the initial state picks the scene, and the variables of the others *)
(* are off.                                                                *)
(***************************************************************************)
EXTENDS Naturals

CONSTANTS None

VARIABLES scene,
  row, cache, kids, call, fresh, untold, begun, width,    \* DocCache
  queue, notes, ping, until, up, scheduled, running, pending, pc, claimed, size,
  cancelled, faults,    \* IndexerWake
  inRealm, member, asked, made, orgRequest, public, gated, where, known, query, asking,
  entering, optimistic, mine, entered, orgAsked, removals, failures    \* JoinFlow

Cache == INSTANCE DocCache WITH Doc <- {1, 2, 3}, Slot <- {1, 2}, MaxCalls <- 2,
                                MAX_DEPTH <- 3, Chain <- {<<None, 1, 3>>}
Wake == INSTANCE IndexerWake WITH Doc <- {1, 2}, Batch <- 2, MaxFaults <- 2
Join == INSTANCE JoinFlow WITH MaxRequests <- 2, MaxOrg <- 1, MaxRemovals <- 1,
                               MaxFailures <- 1

cacheVars == <<row, cache, kids, call, fresh, untold, begun, width>>
wakeVars == <<queue, notes, ping, until, up, scheduled, running, pending, pc, claimed,
              size, cancelled, faults>>
joinVars == <<inRealm, member, asked, made, orgRequest, public, gated, where, known,
              query, asking, entering, optimistic, mine, entered, orgAsked, removals,
              failures>>
vars == <<scene, cacheVars, wakeVars, joinVars>>

\* The variables no module of the scene uses hold None.
CacheOff == row = None /\ cache = None /\ kids = None /\ call = None /\ fresh = None /\
            untold = None /\ begun = None /\ width = None
WakeOff == queue = None /\ notes = None /\ ping = None /\ until = None /\ up = None /\
           scheduled = None /\ running = None /\ pending = None /\ pc = None /\
           claimed = None /\ size = None /\ cancelled = None /\ faults = None
JoinOff == inRealm = None /\ member = None /\ asked = None /\ made = None /\
           orgRequest = None /\ public = None /\ gated = None /\ where = None /\
           known = None /\ query = None /\ asking = None /\ entering = None /\
           optimistic = None /\ mine = None /\ entered = None /\ orgAsked = None /\
           removals = None /\ failures = None

Init ==
  \/ /\ scene = "cache" /\ Cache!Init
     /\ WakeOff /\ JoinOff
  \/ /\ scene = "wake" /\ Wake!Init
     /\ CacheOff /\ JoinOff
  \/ /\ scene = "join" /\ Join!Init
     /\ CacheOff /\ WakeOff

\* A scene is never left, and the others' variables stay off.
CacheOnly == scene = "cache" /\ UNCHANGED <<scene, wakeVars, joinVars>>
WakeOnly == scene = "wake" /\ UNCHANGED <<scene, cacheVars, joinVars>>
JoinOnly == scene = "join" /\ UNCHANGED <<scene, cacheVars, wakeVars>>

Next ==
  \/ CacheOnly /\ Cache!Next
  \/ WakeOnly /\ Wake!Next
  \/ JoinOnly /\ Join!Next

\* The fairness of the modules, of the actions as they are here; of DocCache less
\* than it states, as no step of a call or expiry can be taken for ever.
CacheMoves    == CacheOnly /\ (\/ \E s \in {1, 2} : Cache!Step(s)
                               \/ \E d \in {1, 2, 3} : Cache!ExpireRow(d) \/ Cache!ExpireList(d))

WakeBoot           == WakeOnly /\ Wake!Boot
WakeStartup        == WakeOnly /\ Wake!Startup
WakeSafetySweep    == WakeOnly /\ Wake!SafetySweep
WakeClaim          == WakeOnly /\ Wake!Claim
WakeWork           == WakeOnly /\ Wake!Work

JoinFetching(k)    == JoinOnly /\ Join!Fetching(k)
JoinArriving(k)    == JoinOnly /\ Join!Arriving(k)
JoinAnswering      == JoinOnly /\ Join!Answering
JoinEntering       == JoinOnly /\ Join!Entering

Spec ==
  /\ Init /\ [][Next]_vars
  /\ WF_vars(CacheMoves)
  /\ WF_vars(WakeBoot) /\ WF_vars(WakeStartup) /\ WF_vars(WakeSafetySweep)
  /\ WF_vars(WakeClaim) /\ WF_vars(WakeWork)
  /\ \A k \in {"requests", "org", "realm"} : WF_vars(JoinFetching(k)) /\ WF_vars(JoinArriving(k))
  /\ WF_vars(JoinAnswering) /\ WF_vars(JoinEntering)
-----------------------------------------------------------------------------
\* The cache holds what some row was, and the row itself while no two calls
\* overlap; where they do, it is exact again in the end
\* (document-cache.service.ts, documents.service.ts:119-130).
CacheSound == scene = "cache" => Cache!TypeOK /\ Cache!CacheExact /\ Cache!CachedWasWritten
CacheExactAtLast == <>[](scene = "cache" => \A d \in {1, 2, 3} : Cache!ExactAt(d))
CacheHeals == []CacheSound /\ CacheExactAtLast

\* A queued row is claimed: by the sweep that runs, the one pending or the one
\* announced, however pings and triggers fall, and in the end whatever is lost
\* (indexer-notifier.ts:27, indexer.service.ts:107).
WakeSound == scene = "wake" => Wake!TypeOK /\ Wake!QueuedIsServed
Waits(d)  == scene = "wake" /\ d \in queue \ claimed
RowsAreServed == []WakeSound /\ (Waits(1) ~> ~Waits(1))

\* The page says it waits exactly while a request does, and leaves for the
\* workspace once the approval is there (RequestAccessPage.tsx:82-104,
\* OrgJoinGate.tsx).
JoinSound  == scene = "join" => Join!TypeOK /\ Join!AwaitingIsTrue
Overlooked == scene = "join" /\ Join!Overlooked
ApprovalArrives == []JoinSound /\ (Overlooked ~> ~Overlooked)
=============================================================================
