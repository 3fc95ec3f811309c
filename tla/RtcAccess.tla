----------------------------- MODULE RtcAccess -----------------------------
(***************************************************************************)
(* Who may be connected to one document, and as what.  The backend freezes *)
(* a role into a short-lived token; the rtc server checks the token at the *)
(* handshake only, closes the socket when the token expires, and refuses   *)
(* tokens older than the last kick.  A browser tab keeps its token until   *)
(* it mints another: periodically, when it is kicked, and after every      *)
(* second connection attempt that fails.                                   *)
(*                                                                         *)
(* Time is in ticks of the clock's whole seconds, scaled down; the rtc     *)
(* server's clock differs from the backend's by Skew.  Timers that are due *)
(* fire before the clock moves on, and a socket that is closed is gone at  *)
(* once.  role is what resolveRtcRole answers (module Membership).         *)
(***************************************************************************)
EXTENDS Integers, FiniteSets

CONSTANTS
  Tab,              \* browser tabs with the document open, one per user
  MinTtl, MaxTtl,   \* a token's life, jitter included
  KickTtl,          \* how long a kick is remembered (KICK_TTL_SECONDS)
  MintLag,          \* bound on the time between reading the role and signing
  Skew,             \* the rtc server's clock minus the backend's
  MaxNow,           \* bound on the clock
  MaxChanges,       \* bound on role changes and kicks together
  MaxFaults         \* bound on lost connections, failing calls and restarts

ASSUME ConstantsAssumption ==
  /\ MinTtl \in Nat /\ MaxTtl \in Nat /\ MinTtl <= MaxTtl /\ MinTtl > 0
  /\ KickTtl \in Nat /\ MintLag \in Nat /\ Skew \in Int
  /\ MaxNow \in Nat /\ MaxChanges \in Nat /\ MaxFaults \in Nat

VARIABLES
  now,       \* the backend's clock
  role,      \* role[t]: what the backend would grant the tab's user
  left,      \* history: left[t][r] is when the user last gave up role r
  token,     \* token[t]: what the tab's provider would dial with
  mint,      \* mint[t]: the token request in flight
  sock,      \* sock[t]: the tab's socket
  fails,     \* sinceRemint: failed attempts since the last re-mint
  kicks,     \* stamps of the kick requests in flight
  mark,      \* the watermark the rtc server remembers (minIatMs)
  late,      \* history: writes that reached the document too late
  changes, faults

client == <<token, mint, sock, fails>>
vars   == <<now, role, left, client, kicks, mark, late, changes, faults>>

Role     == {"editor", "viewer"}
None     == -1000                        \* no watermark; before every time
Time     == 0 .. MaxNow
Token    == [iat : Time, exp : Nat, role : Role]
NoToken  == [iat |-> 0, exp |-> 0, role |-> "none"]
NoMint   == [step |-> "none", role |-> "none", at |-> 0]
Asked    == [step |-> "asked", role |-> "none", at |-> 0]
NoSocket == [state |-> "off", claims |-> NoToken, passed |-> FALSE]

TypeOK ==
  /\ now \in Time
  /\ role \in [Tab -> Role \cup {"none"}]
  /\ left \in [Tab -> [Role -> Time \cup {None}]]
  /\ token \in [Tab -> Token \cup {NoToken}]
  /\ mint \in [Tab -> {NoMint, Asked} \cup [step : {"read"}, role : Role, at : Time]]
  /\ sock \in [Tab -> {NoSocket} \cup [state : {"loading", "open"}, claims : Token, passed : BOOLEAN]]
  /\ fails \in [Tab -> 0 .. 1]
  /\ kicks \subseteq Time /\ mark \in Time \cup {None}
  /\ late \in BOOLEAN
  /\ changes \in 0 .. MaxChanges /\ faults \in 0 .. MaxFaults

Init ==
  /\ now = 0
  /\ role \in [Tab -> Role \cup {"none"}]
  /\ left = [t \in Tab |-> [r \in Role |-> None]]
  /\ token = [t \in Tab |-> NoToken]
  /\ mint = [t \in Tab |-> NoMint]
  /\ sock = [t \in Tab |-> NoSocket]
  /\ fails = [t \in Tab |-> 0]
  /\ kicks = {} /\ mark = None
  /\ late = FALSE
  /\ changes = 0 /\ faults = 0

RtcNow == now + Skew
Open(t) == sock[t].state = "open"
Mounted(t) == token[t] # NoToken         \* the editor shows and has a provider

Fault == faults < MaxFaults /\ faults' = faults + 1
Change == changes < MaxChanges /\ changes' = changes + 1
-----------------------------------------------------------------------------
(***************************************************************************)
(* The backend.                                                            *)
(***************************************************************************)

\* Somebody grants, revokes or changes the user's access, or deletes the document.
SetRole(t, r) ==
  /\ r # role[t] /\ Change
  /\ role' = [role EXCEPT ![t] = r]
  /\ left' = [left EXCEPT ![t] = [x \in Role |-> IF x = role[t] THEN now ELSE @[x]]]
  /\ UNCHANGED <<now, client, kicks, mark, late, faults>>

\* refreshAccess: a kick, stamped with the backend's clock.
Kick ==
  /\ Change
  /\ kicks' = kicks \cup {now}
  /\ UNCHANGED <<now, role, left, client, mark, late, faults>>

\* The call times out or the rtc server is away: the caller sees a 502.
KickLost(k) ==
  /\ k \in kicks /\ Fault
  /\ kicks' = kicks \ {k}
  /\ UNCHANGED <<now, role, left, client, mark, late, changes>>

\* The permission is read ...
ReadRole(t) ==
  /\ mint[t] = Asked /\ role[t] # "none"
  /\ mint' = [mint EXCEPT ![t] = [step |-> "read", role |-> role[t], at |-> now]]
  /\ UNCHANGED <<now, role, left, token, sock, fails, kicks, mark, late, changes, faults>>

\* ... and the token stamped and signed later (getKeys, sign); the tab has it now.
SignToken(t) ==
  /\ mint[t].step = "read"
  /\ \E ttl \in MinTtl .. MaxTtl :
       token' = [token EXCEPT ![t] = [iat |-> now, exp |-> now + ttl, role |-> mint[t].role]]
  /\ mint' = [mint EXCEPT ![t] = NoMint]
  /\ UNCHANGED <<now, role, left, sock, fails, kicks, mark, late, changes, faults>>

\* A refused or failed request is an error to the query: the editor is unmounted.
Unmount(t) ==
  /\ token' = [token EXCEPT ![t] = NoToken]
  /\ mint' = [mint EXCEPT ![t] = NoMint]
  /\ sock' = [sock EXCEPT ![t] = NoSocket]

MintRefused(t) ==
  /\ mint[t] = Asked /\ role[t] = "none"
  /\ Unmount(t)
  /\ UNCHANGED <<now, role, left, fails, kicks, mark, late, changes, faults>>

MintFails(t) ==
  /\ mint[t] # NoMint /\ Fault
  /\ Unmount(t)
  /\ UNCHANGED <<now, role, left, fails, kicks, mark, late, changes>>
-----------------------------------------------------------------------------
(***************************************************************************)
(* The tab.                                                                *)
(***************************************************************************)

\* The query's first fetch, and its refetch every four minutes.
PeriodicMint(t) ==
  /\ mint[t] = NoMint
  /\ mint' = [mint EXCEPT ![t] = Asked]
  /\ UNCHANGED <<now, role, left, token, sock, fails, kicks, mark, late, changes, faults>>

\* Mutation: only a kick makes the tab re-mint.
FailureKeepsToken(S, kicked) ==
  LET remint == {t \in S : kicked}
  IN  /\ fails' = [t \in Tab |-> IF t \in remint THEN 0 ELSE IF t \in S THEN 1 ELSE fails[t]]
      /\ mint' = [t \in Tab |-> IF t \in remint THEN Asked ELSE mint[t]]
      /\ sock' = [t \in Tab |-> IF t \in S THEN NoSocket ELSE sock[t]]

\* Mutation: the count is not reset by a re-mint.
FailureKeepsCount(S, kicked) ==
  LET remint == {t \in S : kicked \/ fails[t] >= 1}
  IN  /\ fails' = [t \in Tab |-> IF t \in S THEN fails[t] + 1 ELSE fails[t]]
      /\ mint' = [t \in Tab |-> IF t \in remint THEN Asked ELSE mint[t]]
      /\ sock' = [t \in Tab |-> IF t \in S THEN NoSocket ELSE sock[t]]

\* onConnectFailure for the tabs in S: every second failure re-mints, a kick at
\* once; a re-mint replaces the request in flight.
Failure(S, kicked) ==
  LET remint == {t \in S : kicked \/ fails[t] = 1}
  IN  /\ fails' = [t \in Tab |-> IF t \in remint THEN 0 ELSE IF t \in S THEN 1 ELSE fails[t]]
      /\ mint' = [t \in Tab |-> IF t \in remint THEN Asked ELSE mint[t]]
      /\ sock' = [t \in Tab |-> IF t \in S THEN NoSocket ELSE sock[t]]

\* The network, the rate limiter or the deletion of the document closes the socket.
Drop(t) ==
  /\ sock[t] # NoSocket /\ Fault
  /\ Failure({t}, FALSE)
  /\ UNCHANGED <<now, role, left, token, kicks, mark, late, changes>>
-----------------------------------------------------------------------------
(***************************************************************************)
(* The rtc server.                                                         *)
(***************************************************************************)

Remembered == mark # None /\ mark >= RtcNow - KickTtl

\* Mutation: the check is gone.
NeverRejected(tok) == FALSE

\* isRejected: the token's second lies before the kick's.
IsRejected(tok) == Remembered /\ tok.iat < mark

\* verifyClient up to whenLoaded: signature, life, watermark.
Dial(t) ==
  /\ Mounted(t) /\ sock[t] = NoSocket
  /\ mark' = IF Remembered THEN mark ELSE None
  /\ IF token[t].exp <= RtcNow \/ IsRejected(token[t])
     THEN Failure({t}, FALSE)
     ELSE /\ sock' = [sock EXCEPT ![t] = [state |-> "loading", claims |-> token[t], passed |-> FALSE]]
          /\ UNCHANGED <<fails, mint>>
  /\ UNCHANGED <<now, role, left, token, kicks, late, changes, faults>>

\* The document is loaded, the handshake completes; the expiry timer is set.
Connect(t) ==
  /\ sock[t].state = "loading"
  /\ sock' = [sock EXCEPT ![t].state = "open"]
  /\ fails' = [fails EXCEPT ![t] = 0]
  /\ UNCHANGED <<now, role, left, token, mint, kicks, mark, late, changes, faults>>

\* Mutation: the expiry timer is never set.
NeverDue(t) == FALSE

ExpiryDue(t) == Open(t) /\ sock[t].claims.exp <= RtcNow

Expire(t) ==
  /\ ExpiryDue(t)
  /\ Failure({t}, FALSE)
  /\ UNCHANGED <<now, role, left, token, kicks, mark, late, changes, faults>>

\* kickDoc: the stamp is taken whatever it replaces; sockets still loading are
\* not among the document's connections yet.
KickArrives(k) ==
  /\ k \in kicks
  /\ kicks' = kicks \ {k}
  /\ mark' = k
  /\ LET conns == {t \in Tab : Open(t)}
     IN  /\ fails' = [t \in Tab |-> IF t \in conns THEN 0 ELSE fails[t]]
         /\ mint' = [t \in Tab |-> IF t \in conns THEN Asked ELSE mint[t]]
         /\ sock' = [t \in Tab |-> CASE t \in conns -> NoSocket
                                     [] sock[t].state = "loading" -> [sock[t] EXCEPT !.passed = TRUE]
                                     [] OTHER -> sock[t]]
  /\ UNCHANGED <<now, role, left, token, late, changes, faults>>

Restart ==
  /\ Fault
  /\ mark' = None
  /\ Failure({t \in Tab : sock[t] # NoSocket}, FALSE)
  /\ UNCHANGED <<now, role, left, token, kicks, late, changes>>

\* When the tab's user last held role r, by the backend's clock.
LastHeld(t, r) == IF role[t] = r THEN now ELSE left[t][r]

\* A write must come sooner than this after its author lost the role.
Grace == MintLag + MaxTtl - Skew

\* The message wrapper: a viewer's frames that would change the document, and
\* those that cannot be decoded, are dropped.
Delivers(t, frame) == sock[t].claims.role = "viewer" => frame \notin {"step2", "update", "garbled"}

Receive(t, frame) ==
  /\ Open(t) /\ ~ExpiryDue(t) /\ Delivers(t, frame)
  /\ frame \in {"step2", "update"}
  /\ late' = (late \/ now - LastHeld(t, "editor") >= Grace)
  /\ UNCHANGED <<now, role, left, client, kicks, mark, changes, faults>>
-----------------------------------------------------------------------------
Tick ==
  /\ now < MaxNow
  /\ \A t \in Tab : ~ExpiryDue(t) /\ (mint[t].step = "read" => now - mint[t].at < MintLag)
  /\ now' = now + 1
  /\ UNCHANGED <<role, left, client, kicks, mark, late, changes, faults>>

TabStep(t) ==
  \/ \E r \in Role \cup {"none"} : SetRole(t, r)
  \/ ReadRole(t) \/ SignToken(t) \/ MintRefused(t) \/ MintFails(t)
  \/ PeriodicMint(t) \/ Drop(t) \/ Dial(t) \/ Connect(t) \/ Expire(t)
  \/ \E frame \in {"step1", "step2", "update", "awareness", "garbled"} : Receive(t, frame)

Next ==
  \/ Tick \/ Kick \/ Restart
  \/ \E k \in kicks : KickLost(k) \/ KickArrives(k)
  \/ \E t \in Tab : TabStep(t)

Spec == Init /\ [][Next]_vars

\* The provider redials, loads end, timers fire, calls are answered; a mint is
\* sometimes faster than the two attempts after which it would be restarted.
\* The periodic refetch is only counted on where nothing else mints.
Fairness ==
  \A t \in Tab :
    /\ WF_vars(Dial(t)) /\ WF_vars(Connect(t)) /\ WF_vars(Expire(t))
    /\ WF_vars(~Mounted(t) /\ PeriodicMint(t))
    /\ SF_vars(ReadRole(t)) /\ SF_vars(SignToken(t)) /\ WF_vars(MintRefused(t))

FairSpec == Spec /\ Fairness
-----------------------------------------------------------------------------
(***************************************************************************)
(* Properties.                                                             *)
(***************************************************************************)

\* However the clocks differ, kicks get lost and the rtc server restarts: nobody
\* writes longer than a token's life after losing the right to.
RevokedWritersStop == ~late

\* While a kick is remembered, every open socket carries a role its user held at
\* the kick or later, a mint's duration aside: except a socket that had passed
\* the watermark check and was still loading (yjs-server.service.ts:141-152).
KickEnforcesRoles ==
  \A t \in Tab : Open(t) /\ ~sock[t].passed /\ Remembered =>
    LastHeld(t, sock[t].claims.role) >= mark - MintLag

\* A user with access gets connected, or loses the access first.
UsersConnect == \A t \in Tab : role[t] # "none" ~> Open(t) \/ role[t] = "none"
-----------------------------------------------------------------------------
(***************************************************************************)
(* The inductive invariant the proofs use.                                 *)
(***************************************************************************)

\* A token lives no longer than MaxTtl, and its user held its role when it was
\* signed or a mint's duration before.
TokenSound(t, tok) ==
  tok # NoToken =>
    tok.exp <= tok.iat + MaxTtl /\ LastHeld(t, tok.role) >= tok.iat - MintLag

\* A role that was read was held then, and is signed before long.
MintSound(t) ==
  mint[t].step = "read" =>
    /\ mint[t].at <= now /\ now <= mint[t].at + MintLag
    /\ LastHeld(t, mint[t].role) >= mint[t].at

\* A socket's token passed the watermark that is remembered now, unless a kick
\* came while the document was loading.
SocketSound(t) ==
  sock[t] # NoSocket =>
    /\ TokenSound(t, sock[t].claims)
    /\ ~sock[t].passed /\ Remembered => sock[t].claims.iat >= mark

LeftSound(t) == \A r \in Role : left[t][r] <= now

\* The state is well formed, and whatever a tab was handed, in flight, in its
\* provider or at the rtc server, stands for a role its user held not long before
\* (rtc-token.service.ts:20-38, yjs-server.service.ts:128-152).
Inductive ==
  /\ TypeOK /\ RevokedWritersStop
  /\ \A t \in Tab : LeftSound(t) /\ MintSound(t) /\ TokenSound(t, token[t]) /\ SocketSound(t)
=============================================================================
