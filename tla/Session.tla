------------------------------- MODULE Session -------------------------------
(***************************************************************************)
(* The signed-in state of the browser's tabs: the rotating refresh token,  *)
(* kept by every tab and in localStorage and sent round on a channel, the  *)
(* workspace an access token is scoped to, and the workspace route.  A     *)
(* request is handled as it is sent; its answer arrives later.             *)
(***************************************************************************)
EXTENDS Naturals, Sequences, FiniteSets

CONSTANTS
  Tab,
  Workspace,
  None,
  MaxTokens,    \* bound on the refresh tokens issued
  MaxCalls      \* bound on what users and the network do

VARIABLES
  tab,       \* the store and the route of every tab
  storage,   \* localStorage: the refresh token and the last workspace
  inbox,     \* inbox[t]: what siblings broadcast and t has not received
  live,      \* refresh tokens the server accepts; the others up to `issued` are revoked
  issued, member,
  killed,    \* history: a revoked token was presented, all tokens were revoked
  begun,
  serial,    \* a call begins when everything is done
  alone      \* one tab at a time is open, and it closes when nothing is in flight

vars == <<tab, storage, inbox, live, issued, member, killed, begun, serial, alone>>

Scope == Workspace \cup {None}
Token == 0 .. MaxTokens              \* 0: none
Enter == [on : Scope, by : {"route", "gone", "boot", "refresh", "leave", "switch"}, ok : BOOLEAN]
Refreshing == [kept : Scope, got : Token, step : {"no", "asked", "entering"}]

NoRefresh == [kept |-> None, got |-> 0, step |-> "no"]

Closed == [status |-> "closed", refresh |-> 0, claim |-> None, active |-> None, last |-> None,
           url |-> None, route |-> "off", busy |-> FALSE, strayed |-> FALSE, refreshing |-> NoRefresh,
           boot |-> "no", recall |-> None, enters |-> {}]

\* strayed, a history field: the page moved to another workspace while its route
\* was still entering one, and has not begun to enter the new one since.

Page == [status : {"closed", "loading", "authed", "anon"}, refresh : Token, claim : Scope,
         active : Scope, last : Scope, url : Scope,
         route : {"off", "entering", "ready", "denied"}, busy : BOOLEAN, strayed : BOOLEAN,
         refreshing : Refreshing, boot : {"no", "refresh", "enter", "me"},
         recall : Scope, enters : SUBSET Enter]

TypeOK ==
  /\ tab \in [Tab -> Page]
  /\ storage \in [refresh : Token, last : Scope]
  /\ inbox \in [Tab -> Seq([refresh : Token, claim : Scope])]
  /\ live \subseteq 1 .. issued /\ issued \in Token /\ member \subseteq Workspace
  /\ killed \in BOOLEAN /\ begun \in 0 .. MaxCalls /\ serial \in BOOLEAN /\ alone \in BOOLEAN

Init ==
  /\ tab = [t \in Tab |-> Closed]
  /\ storage = [refresh |-> 0, last |-> None]
  /\ inbox = [t \in Tab |-> <<>>]
  /\ live = {} /\ issued = 0 /\ member = Workspace
  /\ killed = FALSE /\ begun = 0
  /\ serial \in BOOLEAN /\ alone \in BOOLEAN

Open == {t \in Tab : tab[t].status # "closed"}

Idle(t) == tab[t].refreshing = NoRefresh /\ tab[t].boot = "no" /\ tab[t].enters = {}
Quiet == \A t \in Tab : Idle(t) /\ inbox[t] = <<>>

Begins == /\ begun < MaxCalls
          /\ serial => Quiet
          /\ begun' = begun + 1 /\ UNCHANGED <<serial, alone>>
Goes == UNCHANGED <<begun, serial, alone>>
-----------------------------------------------------------------------------
(***************************************************************************)
(* The store: what its setters do to a tab, its storage and its siblings.  *)
(***************************************************************************)

\* Every setter persists the tab's own token and workspace.
Keep(t, c) == tab' = [tab EXCEPT ![t] = c] /\ storage' = [refresh |-> c.refresh, last |-> c.last]

Tells(t, c) == inbox' = [u \in Tab |-> IF u \in Open \ {t}
                                       THEN Append(inbox[u], [refresh |-> c.refresh, claim |-> c.claim])
                                       ELSE inbox[u]]

\* setSession, applyTokens; a tab without a refresh token tells nobody.
Broadcast(t, c) == IF c.refresh = 0 THEN inbox' = inbox ELSE Tells(t, c)

WithTokens(c, r, claim) == [c EXCEPT !.status = "authed", !.refresh = r, !.claim = claim]
WithScope(c, w) == [c EXCEPT !.active = w, !.last = w]
SignedOut(c) == [WithScope(c, None) EXCEPT !.status = "anon", !.refresh = 0, !.claim = None]

\* ProtectedRoute: signed out, the workspace route gives way to the sign-in page.
\* The route's promise goes on when the route is gone.
Unmount(c) == [c EXCEPT !.url = None, !.route = "off", !.busy = FALSE, !.strayed = FALSE,
                        !.enters = {[e EXCEPT !.by = IF @ = "route" THEN "gone" ELSE @] : e \in c.enters}]

\* The route of a workspace is on the page, and what its effect depends on.
Mounted(c) == c.status = "authed" /\ c.url # None
Deps(c) == <<Mounted(c), c.url, c.active>>

\* The page b has become c: the effect runs when the route appears, or its
\* workspace or the active one has changed.  While it is entering it skips.
Routed(b, c) ==
  LET strays == c.strayed \/ (c.busy /\ b.url # c.url) IN
  IF c.status = "anon" \/ c.url = None THEN Unmount(c)
  ELSE IF ~Mounted(c) \/ Deps(b) = Deps(c) THEN c
  ELSE IF c.active = c.url THEN [c EXCEPT !.route = "ready", !.strayed = strays]
  ELSE IF c.busy THEN [c EXCEPT !.strayed = strays]
  ELSE [c EXCEPT !.route = "entering", !.busy = TRUE, !.strayed = FALSE,
                 !.enters = @ \cup {[on |-> c.url, by |-> "route", ok |-> c.url \in member]}]

Server == <<live, issued, member, killed>>

\* A sibling's message; a token of its own is not sent on.
Receive(t) ==
  LET msg == Head(inbox[t]) IN
  /\ inbox[t] # <<>>
  /\ Keep(t, Routed(tab[t], IF msg.refresh = 0 THEN SignedOut(tab[t]) ELSE WithTokens(tab[t], msg.refresh, msg.claim)))
  /\ inbox' = [inbox EXCEPT ![t] = Tail(@)]
  /\ Goes /\ UNCHANGED Server
-----------------------------------------------------------------------------
(***************************************************************************)
(* Refresh.                                                                *)
(***************************************************************************)

\* The server rotates a live token, and revokes them all for a revoked one.
\* `lost`: the answer does not arrive.
Ask(c, lost) ==
  LET good == c.refresh \in live IN
  /\ good => issued < MaxTokens
  /\ issued' = IF good THEN issued + 1 ELSE issued
  /\ live' = IF good THEN (live \ {c.refresh}) \cup {issued + 1} ELSE {}
  /\ killed' = (killed \/ ~good)
  /\ UNCHANGED member

\* Mutation: the workspace is not kept.
KeepsNone(c) == None

Kept(c) == c.active

Asked(c, lost) == [kept |-> Kept(c), step |-> "asked",
                   got |-> IF lost \/ c.refresh \notin live THEN 0 ELSE issued + 1]

\* A page that opens with no token is signed out.
BootAnon(c) == [c EXCEPT !.status = "anon"]

\* A tab opens at the launcher or in a workspace, and reads the storage.
Boot(t, w) ==
  LET c == [Closed EXCEPT !.status = "loading", !.refresh = storage.refresh, !.last = storage.last, !.url = w] IN
  /\ t \notin Open /\ (alone => Open = {}) /\ Begins
  /\ IF c.refresh = 0
     THEN /\ tab' = [tab EXCEPT ![t] = Routed(Closed, BootAnon(c))]
          /\ UNCHANGED Server
     ELSE /\ tab' = [tab EXCEPT ![t] = [c EXCEPT !.refreshing = Asked(c, FALSE), !.boot = "refresh",
                                                 !.recall = c.last]]
          /\ Ask(c, FALSE)
  /\ UNCHANGED <<storage, inbox>>

\* A tab closes; a promise of it is never heard of.
Close(t) ==
  /\ t \in Open /\ (alone => Idle(t)) /\ Begins
  /\ tab' = [tab EXCEPT ![t] = Closed]
  /\ inbox' = [inbox EXCEPT ![t] = <<>>]
  /\ UNCHANGED <<storage, Server>>

\* 401s share one refresh.
NoFlight(t) == tab[t].refreshing = NoRefresh

\* Some request finds the access token expired: ensureRefreshed.
Unauthorized(t, lost) ==
  LET c == tab[t] IN
  /\ c.status = "authed" /\ c.refresh # 0 /\ NoFlight(t) /\ Begins
  /\ Ask(c, lost)
  /\ tab' = [tab EXCEPT ![t].refreshing = Asked(c, lost)]
  /\ UNCHANGED <<storage, inbox>>

\* What follows the refresh of a boot: the last workspace, then /auth/me.
Booted(c) ==
  LET d == [c EXCEPT !.refreshing = NoRefresh] IN
  IF d.boot # "refresh" THEN d
  ELSE IF d.recall # None /\ d.active = None /\ d.status = "authed"
       THEN [d EXCEPT !.boot = "enter",
                      !.enters = @ \cup {[on |-> d.recall, by |-> "boot", ok |-> d.recall \in member]}]
       ELSE [d EXCEPT !.boot = "me"]

\* The answer of a refresh: any failure signs out; success is told to siblings,
\* and the workspace is entered again, as the new token has none.
RefreshAnswered(t) ==
  LET c == tab[t] f == tab[t].refreshing IN
  /\ f.step = "asked"
  /\ IF f.got = 0
     THEN LET d == [SignedOut(c) EXCEPT !.refreshing = NoRefresh, !.boot = IF @ = "refresh" THEN "no" ELSE @]
          IN Keep(t, Routed(c, d)) /\ Tells(t, d)
     ELSE LET d == WithTokens(c, f.got, None)
              e == [on |-> f.kept, by |-> "refresh", ok |-> f.kept \in member]
          IN /\ Keep(t, Routed(c, IF f.kept = None THEN Booted(d)
                               ELSE [d EXCEPT !.refreshing.step = "entering", !.enters = @ \cup {e}]))
             /\ Broadcast(t, d)
  /\ Goes /\ UNCHANGED Server

\* /auth/me has answered, or failed: either way.
BootEnd(t) ==
  /\ tab[t].boot = "me"
  /\ Keep(t, Routed(tab[t], [tab[t] EXCEPT !.boot = "no", !.recall = None, !.status = "authed"]))
  /\ Goes /\ UNCHANGED <<inbox, Server>>
-----------------------------------------------------------------------------
(***************************************************************************)
(* Workspace scope.                                                        *)
(***************************************************************************)

\* The part of the caller that follows an answer.
After(c, e) ==
  CASE e.by = "refresh" -> IF c.refreshing.step = "entering" THEN Booted(c) ELSE c
    [] e.by = "boot" -> [c EXCEPT !.boot = "me"]
    [] e.by = "leave" -> [c EXCEPT !.url = None]
    [] e.by = "switch" /\ e.ok -> [c EXCEPT !.url = e.on]
    [] OTHER -> c

Shows(e) == IF e.ok THEN "ready" ELSE "denied"

\* An answer applies the token and the scope.  A refusal drops the scope, but
\* for the route's: it shows the refusal.  The effect comes before what the caller
\* does next, or after it.
EnterAnswered(t, e) ==
  LET c == [tab[t] EXCEPT !.enters = @ \ {e}]
      d == IF e.ok THEN WithScope(WithTokens(c, c.refresh, e.on), e.on)
           ELSE IF e.by \in {"boot", "refresh"} THEN WithScope(c, None) ELSE c
      Onward(x) == IF e.by = "route" THEN [x EXCEPT !.route = Shows(e), !.busy = FALSE] ELSE After(x, e)
  IN
  /\ e \in tab[t].enters
  /\ \/ Keep(t, Routed(c, Onward(d)))
     \/ Keep(t, Routed(Routed(c, d), Onward(Routed(c, d))))
  /\ IF e.ok THEN Broadcast(t, d) ELSE inbox' = inbox
  /\ Goes /\ UNCHANGED Server

\* To a workspace's page or to the launcher.
Navigate(t, w) ==
  /\ tab[t].status = "authed" /\ tab[t].url # w /\ Begins
  /\ tab' = [tab EXCEPT ![t] = Routed(tab[t], [tab[t] EXCEPT !.url = w])]
  /\ UNCHANGED <<storage, inbox, Server>>

Leave(t) ==
  /\ tab[t].status = "authed" /\ tab[t].active # None /\ Begins
  /\ tab' = [tab EXCEPT ![t].enters = @ \cup {[on |-> None, by |-> "leave", ok |-> TRUE]}]
  /\ UNCHANGED <<storage, inbox, Server>>

\* The switcher and the launcher enter a workspace and go to its page then.
Switch(t, w) ==
  /\ tab[t].status = "authed" /\ tab[t].active # w /\ Begins
  /\ tab' = [tab EXCEPT ![t].enters = @ \cup {[on |-> w, by |-> "switch", ok |-> w \in member]}]
  /\ UNCHANGED <<storage, inbox, Server>>

\* A read of the workspace is refused, a call as any other is.
DropToLauncher(t) ==
  LET d == WithScope(tab[t], None)
      x == Routed(tab[t], d) IN
  /\ tab[t].active \in Workspace \ member /\ (serial => Quiet)
  /\ Keep(t, Unmount(d)) \/ Keep(t, Unmount(x))
  /\ Goes /\ UNCHANGED <<inbox, Server>>

\* Somebody takes the user off a workspace.
Removed(w) ==
  /\ w \in member /\ Begins
  /\ member' = member \ {w}
  /\ UNCHANGED <<tab, storage, inbox, live, issued, killed>>
-----------------------------------------------------------------------------
Login(t) ==
  /\ tab[t].status = "anon" /\ issued < MaxTokens /\ Begins
  /\ issued' = issued + 1 /\ live' = live \cup {issued + 1}
  /\ LET c == WithTokens(tab[t], issued + 1, None) IN Keep(t, c) /\ Broadcast(t, c)
  /\ UNCHANGED <<member, killed>>

\* The server hears of it, or not: nothing waits for it.
PerformLogout(t) ==
  /\ tab[t].status = "authed" /\ Begins
  /\ live' \in {live, live \ {tab[t].refresh}}
  /\ LET c == SignedOut(tab[t]) IN Keep(t, Routed(tab[t], c)) /\ Tells(t, c)
  /\ UNCHANGED <<issued, member, killed>>

Answer(t) == RefreshAnswered(t) \/ BootEnd(t) \/ \E e \in tab[t].enters : EnterAnswered(t, e)

Next ==
  \/ \E t \in Tab :
       \/ Receive(t) \/ Answer(t) \/ DropToLauncher(t)
       \/ Close(t) \/ Leave(t) \/ Login(t) \/ PerformLogout(t)
       \/ \E lost \in BOOLEAN : Unauthorized(t, lost)
       \/ \E w \in Scope : Boot(t, w) \/ Navigate(t, w)
       \/ \E w \in Workspace : Switch(t, w)
  \/ \E w \in Workspace : Removed(w)

Spec == Init /\ [][Next]_vars
-----------------------------------------------------------------------------
(***************************************************************************)
(* Properties.                                                             *)
(***************************************************************************)

\* Of calls one after another: when all is quiet, every tab holds the token
\* that is stored, and is signed in exactly when there is one.
TabsAgree ==
  serial /\ Quiet =>
    \A t \in Open : tab[t].refresh = storage.refresh /\ (tab[t].status = "authed" <=> storage.refresh # 0)

\* http.ts:83: requests of one tab, however they overlap, do not present a
\* refresh token twice, but when an answer is lost.
AloneNeverReused == alone => ~killed

\* tabSync.ts:2: sibling tabs do not present a token another one has used.
NeverReused == ~killed

\* authStore.ts:15: the active workspace is the one the access token is scoped
\* to, in a tab alone and of calls one after another.
ScopeMirrorsToken ==
  serial /\ alone => \A t \in Open : Idle(t) /\ tab[t].active # None => tab[t].claim = tab[t].active

\* No page is left on the loader with nothing on its way to take it off: every
\* boot ends signed in or out (http.ts:139).
BootEnds == \A t \in Tab : Idle(t) => tab[t].status # "loading"

\* Nor is the route of a workspace: it shows the workspace or the refusal, unless
\* the page moved on to another workspace while the route was entering one: the
\* effect skipped then (WorkspaceScopeRoute.tsx:28, 40).
ShowsLoader(c) == Mounted(c) /\ c.route # "denied" /\ (c.route # "ready" \/ c.active # c.url)
RouteSettles == \A t \in Tab : Idle(t) /\ ShowsLoader(tab[t]) => tab[t].strayed
-----------------------------------------------------------------------------
(***************************************************************************)
(* The inductive invariant.                                                *)
(***************************************************************************)

\* The route has one request under way exactly while it is busy, for its workspace
\* unless it strayed; and it shows the loader only then, or when it strayed.
Asking(c) ==
  /\ c.busy <=> \E e \in c.enters : e.by = "route"
  /\ \A e, f \in c.enters : e.by = "route" /\ f.by = "route" => e = f
  /\ \A e \in c.enters : e.by = "route" => c.strayed \/ e.on = c.url
  /\ ShowsLoader(c) => c.busy \/ c.strayed

\* What a tab waits for is on its way: the loader for its refresh, the entering
\* route for its workspace.  Signed out, it has no workspace.
Waits(t) ==
  /\ tab[t].status = "closed" => tab[t] = Closed /\ inbox[t] = <<>>
  /\ tab[t].status = "loading" => tab[t].boot = "refresh" /\ tab[t].enters = {}
  /\ tab[t].status = "anon" => tab[t].active = None /\ tab[t].url = None
  /\ Asking(tab[t])

NoMail == \A t \in Tab : inbox[t] = <<>>

\* A tab alone holds what is stored, and the server accepts it but while it is
\* being traded for the next one.
Holds(t) ==
  LET f == tab[t].refreshing IN
  /\ tab[t].refresh = storage.refresh
  /\ f.step = "asked" => f.got = 0 \/ (f.got \in live /\ f.got # tab[t].refresh)
  /\ f.step # "asked" => tab[t].refresh \in live \cup {0}

AloneInv ==
  /\ \A t, u \in Open : t = u
  /\ NoMail /\ ~killed
  /\ Open = {} => storage.refresh \in live \cup {0}
  /\ \A t \in Open : Holds(t)

\* The claim is the active workspace's but while the refresh enters it again.
Scoped(t) ==
  LET c == tab[t] IN
  /\ c.refreshing.step = "asked" => c.active \in {None, c.refreshing.kept}
  /\ c.refreshing.step = "entering" => \E e \in c.enters : e.by = "refresh"
  /\ c.refreshing.step # "entering" => c.active \in {None, c.claim}

\* A tab holds token n, or is at rest and about to hear of it.
Knows(t, n) ==
  \/ tab[t].refresh = n /\ tab[t].status \in (IF n = 0 THEN {"anon"} ELSE {"authed", "loading"})
  \/ inbox[t] # <<>> /\ Idle(t)

\* Calls one after another: one token n is everybody's, and a refresh has the
\* browser to itself.
Agreed(n) ==
  /\ \A t \in Tab : \A i \in 1 .. Len(inbox[t]) : inbox[t][i].refresh = n
  /\ \A t \in Open : Knows(t, n)
  /\ NoMail => storage.refresh = n
  /\ n = 0 => \A t \in Tab : tab[t].enters = {} /\ tab[t].boot \in {"no", "refresh"}

RefreshesAlone(t) ==
  tab[t].refreshing.step = "asked" =>
    /\ NoMail /\ tab[t].enters = {} /\ tab[t].boot \in {"no", "refresh"}
    /\ \A u \in Tab \ {t} : Idle(u)

SerialInv ==
  /\ \E n \in Token : Agreed(n)
  /\ \A t \in Tab : RefreshesAlone(t)

Inductive ==
  /\ TypeOK
  /\ \A t \in Tab : Waits(t)
  /\ alone => AloneInv
  /\ serial => SerialInv
  /\ serial /\ alone => \A t \in Tab : Scoped(t)
=============================================================================
