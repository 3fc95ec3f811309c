---------------------------- MODULE SessionProofs ----------------------------
(***************************************************************************)
(* Proofs about Session: for any number of tabs, workspaces, tokens and    *)
(* calls.                                                                  *)
(***************************************************************************)
EXTENDS Session, TLAPS

Parameters == MaxTokens \in Nat /\ MaxCalls \in Nat /\ None \notin Workspace

\* What the route's effect leaves alone.
Same(c, d) == /\ d.status = c.status /\ d.refresh = c.refresh /\ d.claim = c.claim
              /\ d.active = c.active /\ d.last = c.last /\ d.refreshing = c.refreshing
              /\ d.boot = c.boot /\ d.recall = c.recall

\* The fields of a page.
LEMMA PageFields ==
  ASSUME NEW c \in Page
  PROVE  /\ c.status \in {"closed", "loading", "authed", "anon"} /\ c.refresh \in Token
         /\ c.claim \in Scope /\ c.active \in Scope /\ c.last \in Scope /\ c.url \in Scope
         /\ c.route \in {"off", "entering", "ready", "denied"}
         /\ c.busy \in BOOLEAN /\ c.strayed \in BOOLEAN
         /\ c.refreshing \in Refreshing /\ c.boot \in {"no", "refresh", "enter", "me"}
         /\ c.recall \in Scope /\ c.enters \in SUBSET Enter
BY DEF Page

LEMMA ClosedIsPage == ASSUME Parameters PROVE Closed \in Page /\ NoRefresh \in Refreshing
<1>1. 0 \in Token BY DEF Parameters, Token
<1>2. NoRefresh \in Refreshing BY <1>1 DEF NoRefresh, Refreshing, Scope
<1> QED BY <1>1, <1>2 DEF Closed, Page, Scope

LEMMA ClosedAsks == Asking(Closed)
BY DEF Asking, Closed, ShowsLoader, Mounted

\* The answers a page waits for when its route is gone.
Gone(e) == [e EXCEPT !.by = IF @ = "route" THEN "gone" ELSE @]

LEMMA GoneIsEnter ==
  ASSUME NEW e \in Enter
  PROVE  /\ Gone(e) \in Enter /\ Gone(e).by # "route"
         /\ e.by = "refresh" => Gone(e).by = "refresh"
BY DEF Gone, Enter

LEMMA UnmountPage ==
  ASSUME NEW c \in Page
  PROVE  /\ Unmount(c) \in Page /\ Same(c, Unmount(c)) /\ Asking(Unmount(c))
         /\ Unmount(c).url = None /\ (\A e \in Unmount(c).enters : e.by # "route")
         /\ c.enters = {} => Unmount(c).enters = {}
         /\ (\E e \in c.enters : e.by = "refresh") => \E e \in Unmount(c).enters : e.by = "refresh"
<1> DEFINE es == {Gone(e) : e \in c.enters}
<1>1. Unmount(c) = [c EXCEPT !.url = None, !.route = "off", !.busy = FALSE, !.strayed = FALSE, !.enters = es]
  BY DEF Unmount, Gone
<1>2. /\ es \in SUBSET Enter /\ (c.enters = {} => es = {})
      /\ \A e \in es : e.by # "route"
  BY GoneIsEnter, PageFields
<1>3. (\E e \in c.enters : e.by = "refresh") => \E e \in es : e.by = "refresh"
  BY GoneIsEnter, PageFields
<1> HIDE DEF es
<1>4. None \in Scope BY DEF Scope
<1>5. Unmount(c) \in Page BY <1>1, <1>2, <1>4 DEF Page
<1>6. /\ Unmount(c).enters = es /\ Unmount(c).url = None
      /\ Unmount(c).busy = FALSE /\ Same(c, Unmount(c))
  BY <1>1 DEF Page, Same
<1>7. Asking(Unmount(c)) BY <1>2, <1>6 DEF Asking, ShowsLoader, Mounted
<1> QED BY <1>2, <1>3, <1>5, <1>6, <1>7

\* The requests of the route.
Routes(c) == {e \in c.enters : e.by = "route"}

\* The route's own fields are the same.
Alike(b, c) == c.route = b.route /\ c.busy = b.busy /\ c.strayed = b.strayed /\ Routes(c) = Routes(b)

\* What the effect may find when the page b has become c: all that Asking asks
\* for, but for a change of its workspace or of the active one.
Ready(b, c) ==
  /\ c.busy <=> Routes(c) # {}
  /\ \A e, f \in Routes(c) : e = f
  /\ \A e \in Routes(c) : c.strayed \/ e.on = b.url
  /\ Deps(b) = Deps(c) /\ ShowsLoader(c) => c.busy \/ c.strayed
  /\ c.status \notin {"authed", "anon"} => c.enters = {}

LEMMA AlikeReady ==
  ASSUME NEW b, NEW c, Asking(b), Alike(b, c), c.status \notin {"authed", "anon"} => c.enters = {}
  PROVE  Ready(b, c)
<1>1. /\ c.busy <=> Routes(c) # {}
      /\ \A e, f \in Routes(c) : e = f
      /\ \A e \in Routes(c) : c.strayed \/ e.on = b.url
  <2>1. \A e : e \in Routes(b) <=> e \in b.enters /\ e.by = "route" BY DEF Routes
  <2>2. Routes(b) # {} <=> \E e \in b.enters : e.by = "route" BY <2>1
  <2> QED BY <2>1, <2>2 DEF Asking, Alike
<1>2. ASSUME Deps(b) = Deps(c), ShowsLoader(c) PROVE c.busy \/ c.strayed
  <2>1. Mounted(b) /\ b.url = c.url /\ b.active = c.active BY <1>2 DEF Deps, ShowsLoader
  <2>2. ShowsLoader(b) BY <1>2, <2>1 DEF ShowsLoader, Alike
  <2> QED BY <2>2 DEF Asking, Alike
<1> QED BY <1>1, <1>2 DEF Ready

\* A page whose route sees no difference.
LEMMA AlikeAsking ==
  ASSUME NEW b, NEW c, Asking(b), Alike(b, c), c.url = b.url, ShowsLoader(c) => ShowsLoader(b)
  PROVE  Asking(c)
<1>1. \A e : (e \in c.enters /\ e.by = "route") <=> (e \in b.enters /\ e.by = "route")
  BY DEF Alike, Routes
<1> QED BY <1>1 DEF Asking, Alike

LEMMA RoutedPage ==
  ASSUME NEW b, NEW c \in Page, Ready(b, c)
  PROVE  LET d == Routed(b, c) IN
         /\ d \in Page /\ Same(c, d) /\ Asking(d)
         /\ c.status = "anon" => d.url = None
         /\ c.enters = {} /\ (c.status \in {"anon", "loading"} \/ c.url = None) => d.enters = {}
         /\ (\E e \in c.enters : e.by = "refresh") => \E e \in d.enters : e.by = "refresh"
<1> DEFINE d == Routed(b, c)
           strays == c.strayed \/ (c.busy /\ b.url # c.url)
<1>0. /\ \A e \in c.enters : e.by = "route" => e \in Routes(c)
      /\ c.busy <=> Routes(c) # {}
      /\ c.busy \in BOOLEAN /\ c.strayed \in BOOLEAN
  BY PageFields DEF Routes, Ready
<1>1. CASE c.status = "anon" \/ c.url = None
  <2>1. d = Unmount(c) BY <1>1 DEF Routed
  <2> QED BY <2>1, UnmountPage
<1>2. CASE ~(c.status = "anon" \/ c.url = None) /\ (~Mounted(c) \/ Deps(b) = Deps(c))
  <2>1. d = c BY <1>2 DEF Routed
  <2>2. ShowsLoader(c) => c.busy \/ c.strayed BY <1>2 DEF Ready, ShowsLoader
  <2>3. \A e \in Routes(c) : c.strayed \/ e.on = c.url
    <3>1. CASE ~Mounted(c)
      <4>1. c.enters = {} BY <1>2, <3>1 DEF Mounted, Ready
      <4> QED BY <4>1 DEF Routes
    <3>2. CASE Deps(b) = Deps(c) BY <3>2 DEF Deps, Ready
    <3> QED BY <1>2, <3>1, <3>2
  <2>4. Asking(c) BY <1>0, <2>2, <2>3 DEF Asking, Ready, Routes
  <2> QED BY <1>2, <2>1, <2>4 DEF Same
<1>3. CASE Mounted(c) /\ Deps(b) # Deps(c) /\ c.active = c.url
  <2>1. c.status = "authed" /\ c.url # None BY <1>3 DEF Mounted
  <2>2. d = [c EXCEPT !.route = "ready", !.strayed = strays] BY <1>3, <2>1 DEF Routed
  <2>3. /\ d \in Page /\ Same(c, d) /\ d.enters = c.enters /\ d.busy = c.busy /\ d.url = c.url
        /\ d.strayed = strays /\ d.route = "ready"
    BY <2>2 DEF Page, Same
  <2>4. \A e \in Routes(c) : strays \/ e.on = c.url BY <1>0 DEF Ready
  <2> HIDE DEF strays
  <2>5. ~ShowsLoader(d) BY <1>3, <2>3 DEF ShowsLoader, Same
  <2> HIDE DEF d
  <2>6. Asking(d) BY <1>0, <2>3, <2>4, <2>5 DEF Asking, Ready, Routes
  <2> QED BY <2>1, <2>3, <2>6 DEF d
<1>4. CASE Mounted(c) /\ Deps(b) # Deps(c) /\ c.active # c.url /\ c.busy
  <2>1. c.status = "authed" /\ c.url # None BY <1>4 DEF Mounted
  <2>2. d = [c EXCEPT !.strayed = strays] BY <1>4, <2>1 DEF Routed
  <2>3. /\ d \in Page /\ Same(c, d) /\ d.enters = c.enters /\ d.busy = c.busy /\ d.url = c.url
        /\ d.strayed = strays
    BY <2>2 DEF Page, Same
  <2>4. \A e \in Routes(c) : strays \/ e.on = c.url BY <1>0 DEF Ready
  <2> HIDE DEF d, strays
  <2>6. Asking(d) BY <1>0, <1>4, <2>3, <2>4 DEF Asking, Ready, Routes
  <2> QED BY <2>1, <2>3, <2>6 DEF d
<1>5. CASE Mounted(c) /\ Deps(b) # Deps(c) /\ c.active # c.url /\ ~c.busy
  <2> DEFINE e0 == [on |-> c.url, by |-> "route", ok |-> c.url \in member]
             es == c.enters \cup {e0}
  <2>1. c.status = "authed" /\ c.url # None BY <1>5 DEF Mounted
  <2>2. d = [c EXCEPT !.route = "entering", !.busy = TRUE, !.strayed = FALSE, !.enters = es]
    BY <1>5, <2>1 DEF Routed
  <2>3. e0 \in Enter /\ e0.by = "route" /\ e0.on = c.url BY PageFields DEF Enter
  <2>4. es \in SUBSET Enter BY <2>3, PageFields
  <2>5. e0 \in es /\ c.enters \subseteq es OBVIOUS
  <2>6. \A e \in es : e.by = "route" => e = e0
    <3>1. Routes(c) = {}
      <4>1. ~c.busy BY <1>5
      <4> QED BY <1>0, <4>1
    <3> QED BY <1>0, <3>1
  <2> HIDE DEF e0, es
  <2>7. /\ d \in Page /\ Same(c, d) /\ d.enters = es /\ d.busy = TRUE /\ d.url = c.url
    BY <2>2, <2>4 DEF Page, Same
  <2> HIDE DEF d
  <2>8. Asking(d) BY <2>3, <2>5, <2>6, <2>7 DEF Asking
  <2> QED BY <2>1, <2>5, <2>7, <2>8 DEF d
<1>6. Mounted(c) => ~(c.status = "anon" \/ c.url = None) BY DEF Mounted
<1> QED BY <1>1, <1>2, <1>3, <1>4, <1>5, <1>6

\* The effect while its request's answer is being applied: it does not ask again.
LEMMA RoutedBusy ==
  ASSUME NEW b, NEW c \in Page, c.busy, b.url = c.url, \A e \in c.enters : e.by # "route"
  PROVE  LET d == Routed(b, c) IN
         /\ d \in Page /\ Same(c, d) /\ \A e \in d.enters : e.by # "route"
         /\ d.url = None \/ (d.url = c.url /\ (c.strayed => d.strayed))
         /\ (\E e \in c.enters : e.by = "refresh") => \E e \in d.enters : e.by = "refresh"
<1> DEFINE d == Routed(b, c)
<1>1. CASE c.status = "anon" \/ c.url = None
  <2>1. d = Unmount(c) BY <1>1 DEF Routed
  <2> QED BY <2>1, UnmountPage
<1>2. CASE ~(c.status = "anon" \/ c.url = None)
  <2>1. c.strayed \in BOOLEAN BY PageFields
  <2>2. d \in {c, [c EXCEPT !.strayed = c.strayed], [c EXCEPT !.route = "ready", !.strayed = c.strayed]}
    BY <1>2, <2>1 DEF Routed
  <2> HIDE DEF d
  <2>3. d \in Page /\ Same(c, d) /\ d.enters = c.enters /\ d.url = c.url /\ d.strayed = c.strayed
    BY <2>1, <2>2 DEF Page, Same
  <2> QED BY <2>3 DEF d
<1> QED BY <1>1, <1>2

\* The setters.
LEMMA WithTokensPage ==
  ASSUME NEW c \in Page, NEW r \in Token, NEW w \in Scope
  PROVE  WithTokens(c, r, w) \in Page
BY DEF WithTokens, Page

LEMMA WithScopePage == ASSUME NEW c \in Page, NEW w \in Scope PROVE WithScope(c, w) \in Page
BY DEF WithScope, Page

LEMMA SignedOutPage ==
  ASSUME Parameters, NEW c \in Page
  PROVE  /\ SignedOut(c) \in Page
         /\ SignedOut(c) = [c EXCEPT !.active = None, !.last = None, !.status = "anon", !.refresh = 0,
                                     !.claim = None]
<1>1. 0 \in Token /\ None \in Scope BY DEF Parameters, Token, Scope
<1>2. SignedOut(c) = [c EXCEPT !.active = None, !.last = None, !.status = "anon", !.refresh = 0,
                               !.claim = None]
  BY DEF SignedOut, WithScope, Page
<1> QED BY <1>1, <1>2 DEF Page

\* What follows the refresh of a boot.
LEMMA BootedPage ==
  ASSUME Parameters, NEW c \in Page
  PROVE  LET d == Booted(c) IN
         /\ d \in Page /\ Alike(c, d) /\ d.url = c.url /\ d.refreshing = NoRefresh
         /\ d.status = c.status /\ d.refresh = c.refresh /\ d.claim = c.claim /\ d.active = c.active
         /\ d.last = c.last
         /\ d.boot # "refresh"
         /\ d.boot \in {"me", "enter"} \/ (d.boot = c.boot /\ d.enters = c.enters)
<1> DEFINE e0 == [on |-> c.recall, by |-> "boot", ok |-> c.recall \in member]
           es == c.enters \cup {e0}
<1>1. e0 \in Enter BY PageFields DEF Enter
<1>2. /\ es \in SUBSET Enter /\ c.enters \subseteq es
      /\ \A x \in es : x.by = "route" => x \in c.enters
  BY <1>1, PageFields
<1>3. Booted(c) \in {[c EXCEPT !.refreshing = NoRefresh], [c EXCEPT !.refreshing = NoRefresh, !.boot = "me"],
                     [c EXCEPT !.refreshing = NoRefresh, !.boot = "enter", !.enters = es]}
  BY DEF Booted, Page
<1>4. c.boot = "refresh" => Booted(c) # [c EXCEPT !.refreshing = NoRefresh]
  BY DEF Booted, Page
<1> HIDE DEF es
<1>5. Booted(c) \in Page BY <1>2, <1>3, ClosedIsPage DEF Page
<1>6. /\ Booted(c).enters \in {c.enters, es} /\ Booted(c).route = c.route /\ Booted(c).busy = c.busy
      /\ Booted(c).strayed = c.strayed /\ Booted(c).url = c.url
  BY <1>3 DEF Page
<1>7. Alike(c, Booted(c)) BY <1>2, <1>6 DEF Alike, Routes
<1> QED BY <1>3, <1>4, <1>5, <1>6, <1>7 DEF Page
-----------------------------------------------------------------------------
(***************************************************************************)
(* The actions: the page d that a tab's page becomes.                      *)
(***************************************************************************)

Mail == [refresh : Token, claim : Scope]
Shape == TypeOK /\ \A t \in Tab : Waits(t)

\* tab[t] becomes d.
Becomes(t, d) == tab' = [tab EXCEPT ![t] = d]
\* A page that is open, and waits for what is on its way.
Sound(d) == /\ d \in Page /\ d.status # "closed" /\ Asking(d)
            /\ d.status = "loading" => d.boot = "refresh" /\ d.enters = {}
            /\ d.status = "anon" => d.active = None /\ d.url = None

LEMMA OpenPage ==
  ASSUME Shape, NEW t \in Tab
  PROVE  /\ tab[t] \in Page /\ Asking(tab[t])
         /\ tab[t].status \notin {"authed", "anon"} => tab[t].enters = {}
         /\ ~Idle(t) \/ inbox[t] # <<>> \/ tab[t].enters # {} \/ tab[t].active # None
            \/ tab[t].refreshing # NoRefresh \/ tab[t].boot # "no" => t \in Open
         /\ t \in Open => Sound(tab[t])
<1>1. Closed.refreshing = NoRefresh /\ Closed.boot = "no" /\ Closed.enters = {} /\ Closed.active = None
  BY DEF Closed
<1>2. tab[t] \in Page /\ Waits(t) BY DEF Shape, TypeOK
<1>3. tab[t].status \in {"closed", "loading", "authed", "anon"} BY <1>2, PageFields
<1> QED BY <1>1, <1>2, <1>3 DEF Waits, Open, Idle, Sound

LEMMA KeepFacts ==
  ASSUME Shape, NEW t \in Tab, NEW d \in Page, Keep(t, d)
  PROVE  /\ Becomes(t, d) /\ storage'.refresh = d.refresh
         /\ storage' \in [refresh : Token, last : Scope]
BY PageFields DEF Keep, Becomes

LEMMA TellsFacts ==
  ASSUME Shape, NEW t \in Tab, NEW c, c.refresh \in Token, c.claim \in Scope, Tells(t, c)
  PROVE  /\ inbox' \in [Tab -> Seq(Mail)]
         /\ \A u \in Open \ {t} : inbox'[u] # <<>>
         /\ \A u \in Tab : u \notin Open \ {t} => inbox'[u] = inbox[u]
         /\ \A u \in Tab : \A i \in 1 .. Len(inbox'[u]) :
              inbox'[u][i].refresh = c.refresh \/ (i \in 1 .. Len(inbox[u]) /\ inbox'[u][i] = inbox[u][i])
<1> DEFINE m == [refresh |-> c.refresh, claim |-> c.claim]
<1>1. m \in Mail /\ m.refresh = c.refresh BY DEF Mail
<1>2. inbox' = [u \in Tab |-> IF u \in Open \ {t} THEN Append(inbox[u], m) ELSE inbox[u]] BY DEF Tells
<1> HIDE DEF m
<1>3. \A u \in Tab : inbox[u] \in Seq(Mail) BY DEF Shape, TypeOK, Mail
<1>4. \A u \in Tab : /\ Append(inbox[u], m) \in Seq(Mail) /\ Append(inbox[u], m) # <<>>
                     /\ \A i \in 1 .. Len(Append(inbox[u], m)) :
                          Append(inbox[u], m)[i] = m \/ (i \in 1 .. Len(inbox[u]) /\ Append(inbox[u], m)[i] = inbox[u][i])
  BY <1>1, <1>3
<1>5. Open \subseteq Tab BY DEF Open
<1>6. inbox' \in [Tab -> Seq(Mail)] BY <1>2, <1>3, <1>4
<1>7. \A u \in Tab : inbox'[u] = IF u \in Open \ {t} THEN Append(inbox[u], m) ELSE inbox[u] BY <1>2
<1> QED BY <1>1, <1>4, <1>5, <1>6, <1>7

LEMMA ReceiveStep ==
  ASSUME Parameters, Shape, NEW t \in Tab, Receive(t)
  PROVE  \E d : /\ Keep(t, d) /\ Sound(d) /\ t \in Open
                /\ d.refresh = Head(inbox[t]).refresh
                /\ d.status = IF d.refresh = 0 THEN "anon" ELSE "authed"
                /\ d.refreshing = tab[t].refreshing /\ d.boot = tab[t].boot
                /\ d.refresh = 0 /\ tab[t].enters = {} => d.enters = {}
<1> DEFINE c == tab[t] msg == Head(inbox[t])
           b == IF msg.refresh = 0 THEN SignedOut(c) ELSE WithTokens(c, msg.refresh, msg.claim)
           d == Routed(c, b)
<1>1. inbox[t] # <<>> /\ Keep(t, d) BY DEF Receive
<1>2. t \in Open /\ c \in Page /\ Asking(c) BY <1>1, OpenPage
<1>3. msg \in Mail
  <2>1. inbox[t] \in Seq(Mail) BY DEF Shape, TypeOK, Mail
  <2> QED BY <1>1, <2>1
<1>4. msg.refresh \in Token /\ msg.claim \in Scope BY <1>3 DEF Mail
<1>5. /\ b \in Page /\ b.refresh = msg.refresh /\ b.status = IF b.refresh = 0 THEN "anon" ELSE "authed"
      /\ b.refreshing = c.refreshing /\ b.boot = c.boot /\ b.enters = c.enters /\ b.route = c.route
      /\ b.busy = c.busy /\ b.strayed = c.strayed
      /\ b.status = "anon" => b.active = None
  <2>1. CASE msg.refresh = 0
    <3>1. b = SignedOut(c) BY <2>1
    <3>2. b \in Page /\ b = [c EXCEPT !.active = None, !.last = None, !.status = "anon", !.refresh = 0, !.claim = None]
      BY <1>2, <3>1, SignedOutPage
    <3> QED BY <1>2, <2>1, <3>2 DEF Page
  <2>2. CASE msg.refresh # 0
    <3>1. b \in Page BY <1>2, <1>4, <2>2, WithTokensPage
    <3> QED BY <1>2, <2>2, <3>1 DEF WithTokens, Page
  <2> QED BY <2>1, <2>2
<1> HIDE DEF b, msg
<1>6. Ready(c, b)
  <2>1. Alike(c, b) /\ b.status \in {"authed", "anon"} BY <1>5 DEF Alike, Routes
  <2> QED BY <1>2, <2>1, AlikeReady
<1>7. /\ d \in Page /\ Same(b, d) /\ Asking(d) /\ (b.refresh = 0 /\ b.enters = {} => d.enters = {})
      /\ b.status = "anon" => d.url = None
  BY <1>5, <1>6, RoutedPage
<1> HIDE DEF d
<1>8. Sound(d) BY <1>5, <1>7 DEF Same, Sound
<1> QED BY <1>1, <1>2, <1>5, <1>7, <1>8 DEF Same, msg

LEMMA BootEndStep ==
  ASSUME Parameters, Shape, NEW t \in Tab, BootEnd(t)
  PROVE  \E d : /\ Keep(t, d) /\ Sound(d) /\ t \in Open
                /\ d.status = "authed" /\ d.boot = "no"
                /\ d.refresh = tab[t].refresh /\ d.refreshing = tab[t].refreshing
                /\ d.active = tab[t].active /\ d.claim = tab[t].claim
                /\ (\E e \in tab[t].enters : e.by = "refresh") => \E e \in d.enters : e.by = "refresh"
<1> DEFINE c == tab[t]
           b == [c EXCEPT !.boot = "no", !.recall = None, !.status = "authed"]
           d == Routed(c, b)
<1>1. Keep(t, d) /\ c.boot = "me" BY DEF BootEnd
<1>2. t \in Open /\ c \in Page /\ Asking(c) BY <1>1, OpenPage
<1>3. None \in Scope BY DEF Scope
<1>4. /\ b \in Page /\ b.status = "authed" /\ b.boot = "no" /\ b.refresh = c.refresh
      /\ b.refreshing = c.refreshing /\ b.active = c.active /\ b.claim = c.claim
      /\ b.enters = c.enters /\ b.route = c.route /\ b.busy = c.busy /\ b.strayed = c.strayed
  BY <1>2, <1>3 DEF Page
<1>5. Ready(c, b) BY <1>2, <1>4, AlikeReady DEF Alike, Routes
<1> HIDE DEF b
<1>6. /\ d \in Page /\ Same(b, d) /\ Asking(d)
      /\ (\E e \in b.enters : e.by = "refresh") => \E e \in d.enters : e.by = "refresh"
  BY <1>4, <1>5, RoutedPage
<1> HIDE DEF d
<1> QED BY <1>1, <1>2, <1>4, <1>6 DEF Same, Sound

LEMMA DropStep ==
  ASSUME Parameters, Shape, NEW t \in Tab, DropToLauncher(t)
  PROVE  \E d : /\ Keep(t, d) /\ Sound(d) /\ t \in Open
                /\ d.status = tab[t].status /\ d.status # "anon" /\ d.boot = tab[t].boot
                /\ d.refresh = tab[t].refresh /\ d.refreshing = tab[t].refreshing
                /\ d.active = None
                /\ (\E e \in tab[t].enters : e.by = "refresh") => \E e \in d.enters : e.by = "refresh"
<1> DEFINE c == tab[t]
           b == WithScope(c, None)
<1>1. c.active \in Workspace \ member /\ (Keep(t, Unmount(b)) \/ Keep(t, Unmount(Routed(c, b))))
  BY DEF DropToLauncher
<1>2. /\ t \in Open /\ c \in Page /\ Asking(c) /\ Sound(c) /\ c.status # "anon"
      /\ c.status \notin {"authed", "anon"} => c.enters = {}
  BY <1>1, OpenPage DEF Sound, Parameters
<1>3. None \in Scope BY DEF Scope
<1>4. /\ b \in Page /\ b.status = c.status /\ b.boot = c.boot /\ b.refresh = c.refresh
      /\ b.refreshing = c.refreshing /\ b.active = None
      /\ b.enters = c.enters /\ b.route = c.route /\ b.busy = c.busy /\ b.strayed = c.strayed
      /\ b.url = c.url
  BY <1>2, <1>3 DEF Page, WithScope
<1>5. Ready(c, b) BY <1>2, <1>4, AlikeReady DEF Alike, Routes
<1> HIDE DEF b
<1>6. /\ Routed(c, b) \in Page /\ Same(b, Routed(c, b))
      /\ (\E e \in b.enters : e.by = "refresh") => \E e \in Routed(c, b).enters : e.by = "refresh"
      /\ c.status = "loading" => Routed(c, b).enters = {}
  BY <1>2, <1>4, <1>5, RoutedPage
<1>7. PICK x \in Page : /\ Keep(t, Unmount(x)) /\ Same(b, x)
                        /\ (\E e \in b.enters : e.by = "refresh") => \E e \in x.enters : e.by = "refresh"
                        /\ c.status = "loading" => x.enters = {}
  <2>1. Same(b, b) BY DEF Same
  <2> QED BY <1>1, <1>2, <1>4, <1>6, <2>1
<1> DEFINE d == Unmount(x)
<1>8. /\ d \in Page /\ Same(x, d) /\ Asking(d) /\ d.url = None /\ (x.enters = {} => d.enters = {})
      /\ (\E e \in x.enters : e.by = "refresh") => \E e \in d.enters : e.by = "refresh"
  BY <1>7, UnmountPage
<1>9. Keep(t, d) BY <1>7
<1> HIDE DEF d
<1>10. Sound(d) BY <1>2, <1>4, <1>7, <1>8 DEF Same, Sound
<1> QED BY <1>2, <1>4, <1>7, <1>8, <1>9, <1>10 DEF Same

LEMMA AskFacts ==
  ASSUME Parameters, Shape, NEW c \in Page, NEW lost \in BOOLEAN, Ask(c, lost)
  PROVE  LET f == Asked(c, lost) IN
         /\ f \in Refreshing /\ f.step = "asked" /\ f.kept = c.active
         /\ f.got = 0 \/ (f.got \in live' /\ f.got # c.refresh)
         /\ live' \subseteq 1 .. issued' /\ issued' \in Token /\ member' = member
         /\ killed' \in BOOLEAN /\ (c.refresh \in live => killed' = killed)
<1> DEFINE f == Asked(c, lost)
<1>1. /\ live \subseteq 1 .. issued /\ issued \in Nat /\ issued <= MaxTokens /\ killed \in BOOLEAN
      /\ MaxTokens \in Nat /\ Token = 0 .. MaxTokens
  BY DEF Shape, TypeOK, Parameters, Token
<1>2. c.active \in Scope BY PageFields
<1> DEFINE g == IF lost \/ c.refresh \notin live THEN 0 ELSE issued + 1
<1>3. f = [kept |-> c.active, step |-> "asked", got |-> g] BY DEF Asked, Kept
<1> HIDE DEF f
<1>6. /\ f.kept = c.active /\ f.step = "asked" /\ f.got = g
      /\ g \in Token => f \in Refreshing
  BY <1>2, <1>3 DEF Refreshing
<1>4. CASE c.refresh \in live
  <2>1. /\ issued' = issued + 1 /\ issued < MaxTokens /\ live' = (live \ {c.refresh}) \cup {issued + 1}
        /\ killed' = killed /\ member' = member
    BY <1>1, <1>4 DEF Ask
  <2>2. g \in Token BY <1>1, <2>1
  <2>3. g = 0 \/ (g \in live' /\ g # c.refresh) BY <1>1, <1>4, <2>1
  <2>4. issued' \in Token BY <1>1, <2>1
  <2>5. 1 .. issued \subseteq 1 .. issued + 1 /\ issued + 1 \in 1 .. issued + 1 BY <1>1
  <2>6. live' \subseteq 1 .. issued' BY <1>1, <2>1, <2>5
  <2> HIDE DEF g
  <2> QED BY <1>1, <1>4, <1>6, <2>1, <2>2, <2>3, <2>4, <2>6 DEF f
<1>5. CASE c.refresh \notin live
  <2>1. issued' = issued /\ live' = {} /\ killed' = TRUE /\ member' = member BY <1>5 DEF Ask
  <2>2. g = 0 /\ g \in Token BY <1>1, <1>5
  <2>3. live' \subseteq 1 .. issued' /\ issued' \in Token BY <1>1, <2>1
  <2> HIDE DEF g
  <2> QED BY <1>1, <1>5, <1>6, <2>1, <2>2, <2>3 DEF f
<1> QED BY <1>4, <1>5

\* The refresh's answer: w is the page its siblings are told of.
LEMMA RefreshStep ==
  ASSUME Parameters, Shape, NEW t \in Tab, RefreshAnswered(t)
  PROVE  \E d, w : LET c == tab[t] f == tab[t].refreshing IN
           /\ Keep(t, d) /\ Sound(d) /\ t \in Open /\ f.step = "asked"
           /\ Tells(t, w) /\ w.refresh = f.got /\ w.claim = None
           /\ d.refresh = f.got /\ d.status = IF f.got = 0 THEN "anon" ELSE "authed"
           /\ \/ d.refreshing = NoRefresh /\ (d.active = None \/ (f.kept = None /\ d.active = c.active))
              \/ d.refreshing.step = "entering" /\ \E e \in d.enters : e.by = "refresh"
           /\ f.got = 0 /\ c.enters = {} => d.enters = {}
           /\ f.got = 0 /\ c.boot \in {"no", "refresh"} => d.boot = "no"
<1> DEFINE c == tab[t] f == tab[t].refreshing
<1>0. f.step = "asked" BY DEF RefreshAnswered
<1>1. t \in Open /\ c \in Page /\ Asking(c)
  <2>1. f # NoRefresh BY <1>0 DEF NoRefresh
  <2> QED BY <2>1, OpenPage
<1>2. /\ f.got \in Token /\ f.kept \in Scope /\ None \in Scope
      /\ \A x \in {"no", "asked", "entering"} : [f EXCEPT !.step = x] \in Refreshing /\ [f EXCEPT !.step = x].step = x
  BY <1>1 DEF Page, Refreshing, Scope
<1>3. CASE f.got = 0
  <2> DEFINE b == [SignedOut(c) EXCEPT !.refreshing = NoRefresh, !.boot = IF @ = "refresh" THEN "no" ELSE @]
             d == Routed(c, b)
  <2>1. Keep(t, d) /\ Tells(t, b) BY <1>3 DEF RefreshAnswered
  <2>2. /\ SignedOut(c) \in Page
        /\ SignedOut(c) = [c EXCEPT !.active = None, !.last = None, !.status = "anon", !.refresh = 0, !.claim = None]
    BY <1>1, SignedOutPage
  <2>3. /\ b \in Page /\ b.refresh = 0 /\ b.status = "anon" /\ b.claim = None /\ b.active = None
        /\ b.refreshing = NoRefresh /\ b.boot = (IF c.boot = "refresh" THEN "no" ELSE c.boot)
        /\ b.enters = c.enters /\ b.route = c.route /\ b.busy = c.busy /\ b.strayed = c.strayed
    BY <1>1, <2>2, ClosedIsPage DEF Page
  <2>4. Ready(c, b) BY <1>1, <2>3, AlikeReady DEF Alike, Routes
  <2> HIDE DEF b
  <2>5. d \in Page /\ Same(b, d) /\ Asking(d) /\ d.url = None /\ (b.enters = {} => d.enters = {})
    BY <2>3, <2>4, RoutedPage
  <2> HIDE DEF d
  <2>6. Sound(d) BY <2>3, <2>5 DEF Same, Sound
  <2> QED BY <1>0, <1>1, <1>3, <2>1, <2>3, <2>5, <2>6 DEF Same
<1>4. CASE f.got # 0
  <2> DEFINE w == WithTokens(c, f.got, None)
             e == [on |-> f.kept, by |-> "refresh", ok |-> f.kept \in member]
             b == IF f.kept = None THEN Booted(w)
                  ELSE [w EXCEPT !.refreshing.step = "entering", !.enters = @ \cup {e}]
             d == Routed(c, b)
  <2>1. Keep(t, d) /\ Broadcast(t, w) BY <1>4 DEF RefreshAnswered
  <2>2. /\ w \in Page /\ w.refresh = f.got /\ w.claim = None /\ w.status = "authed" /\ w.active = c.active
        /\ w.enters = c.enters /\ w.route = c.route /\ w.refreshing = f
        /\ w.busy = c.busy /\ w.strayed = c.strayed
    <3>1. w \in Page BY <1>1, <1>2, WithTokensPage
    <3> QED BY <1>1, <3>1 DEF WithTokens, Page
  <2>3. Alike(c, w) BY <2>2 DEF Alike, Routes
  <2>4. Tells(t, w) BY <1>4, <2>1, <2>2 DEF Broadcast
  <2> HIDE DEF w
  <2>5. /\ b \in Page /\ Alike(c, b) /\ b.status = "authed" /\ b.refresh = f.got
        /\ \/ b.refreshing = NoRefresh /\ f.kept = None /\ b.active = c.active
           \/ b.refreshing.step = "entering" /\ \E x \in b.enters : x.by = "refresh"
    <3>1. CASE f.kept = None
      <4>1. b = Booted(w) BY <3>1
      <4> HIDE DEF b
      <4> QED BY <2>2, <2>3, <3>1, <4>1, BootedPage DEF Alike
    <3>2. CASE f.kept # None
      <4> DEFINE r == [f EXCEPT !.step = "entering"] es == c.enters \cup {e}
      <4>1. b = [w EXCEPT !.refreshing = r, !.enters = es] BY <2>2, <3>2 DEF Page
      <4>2. e \in Enter /\ e.by = "refresh" BY <1>2 DEF Enter
      <4>3. /\ e \in es /\ es \in SUBSET Enter
            /\ \A x : x.by = "route" => (x \in es <=> x \in c.enters)
        BY <1>1, <4>2, PageFields
      <4>4. r \in Refreshing /\ r.step = "entering" BY <1>2
      <4> HIDE DEF b, e, es, r
      <4>5. b \in Page /\ b.enters = es /\ b.refreshing = r /\ b.status = "authed" /\ b.refresh = f.got
            /\ b.route = c.route /\ b.busy = c.busy /\ b.strayed = c.strayed
        BY <2>2, <4>1, <4>3, <4>4 DEF Page
      <4>6. Alike(c, b) BY <4>3, <4>5 DEF Alike, Routes
      <4> QED BY <4>2, <4>3, <4>4, <4>5, <4>6
    <3> QED BY <3>1, <3>2
  <2> HIDE DEF b
  <2>6. /\ d \in Page /\ Same(b, d) /\ Asking(d)
        /\ (\E x \in b.enters : x.by = "refresh") => \E x \in d.enters : x.by = "refresh"
    <3>1. Ready(c, b) BY <1>1, <2>5, AlikeReady
    <3> QED BY <2>5, <3>1, RoutedPage
  <2> HIDE DEF d
  <2>7. Sound(d) BY <2>5, <2>6 DEF Same, Sound
  <2>8. \/ d.refreshing = NoRefresh /\ f.kept = None /\ d.active = c.active
        \/ d.refreshing.step = "entering" /\ \E x \in d.enters : x.by = "refresh"
    BY <2>5, <2>6 DEF Same
  <2> QED BY <1>0, <1>1, <1>4, <2>1, <2>2, <2>4, <2>5, <2>6, <2>7, <2>8 DEF Same
<1> QED BY <1>3, <1>4

\* The caller goes on after an answer.
LEMMA AfterPage ==
  ASSUME Parameters, NEW c \in Page, NEW e \in Enter
  PROVE  LET d == After(c, e) IN
         /\ d \in Page /\ Alike(c, d)
         /\ d.status = c.status /\ d.refresh = c.refresh /\ d.claim = c.claim /\ d.active = c.active
         /\ d.boot \in {c.boot, "me", "enter"}
         /\ \/ d.refreshing = c.refreshing /\ (e.by = "refresh" => c.refreshing.step # "entering")
               /\ ((\E x \in c.enters : x.by = "refresh") => \E x \in d.enters : x.by = "refresh")
            \/ d.refreshing = NoRefresh /\ e.by = "refresh" /\ c.refreshing.step = "entering"
<1>1. CASE e.by = "refresh" /\ c.refreshing.step = "entering"
  <2>1. After(c, e) = Booted(c) BY <1>1 DEF After
  <2> DEFINE d == Booted(c)
  <2>2. /\ d \in Page /\ d.refreshing = NoRefresh /\ Alike(c, d)
        /\ d.status = c.status /\ d.refresh = c.refresh /\ d.claim = c.claim /\ d.active = c.active
        /\ d.boot \in {c.boot, "me", "enter"}
    BY BootedPage
  <2> HIDE DEF d
  <2> QED BY <1>1, <2>1, <2>2 DEF d
<1>2. CASE e.by = "boot"
  <2>1. After(c, e) = [c EXCEPT !.boot = "me"] BY <1>2 DEF After
  <2> QED BY <1>2, <2>1 DEF Page, Alike, Routes
<1>3. CASE e.by = "leave" \/ (e.by = "switch" /\ e.ok)
  <2>1. PICK w \in Scope : After(c, e) = [c EXCEPT !.url = w]
    <3>1. None \in Scope /\ e.on \in Scope BY DEF Scope, Enter
    <3> QED BY <1>3, <3>1 DEF After
  <2> QED BY <1>3, <2>1 DEF Page, Alike, Routes
<1>4. CASE ~(e.by = "refresh" /\ c.refreshing.step = "entering") /\ e.by # "boot" /\ e.by # "leave"
           /\ ~(e.by = "switch" /\ e.ok)
  <2>1. After(c, e) = c BY <1>4 DEF After, Enter
  <2> QED BY <1>4, <2>1 DEF Alike
<1> QED BY <1>1, <1>2, <1>3, <1>4

\* An answer to an entering of a workspace.
LEMMA EnterStep ==
  ASSUME Parameters, Shape, NEW t \in Tab, NEW e \in tab[t].enters, EnterAnswered(t, e)
  PROVE  /\ t \in Open /\ tab[t].status # "loading"
         /\ \E d : LET c == tab[t] IN
              /\ Keep(t, d) /\ Sound(d)
              /\ d.refresh = c.refresh /\ d.status \in {c.status, "authed"}
              /\ c.status \in {"authed", "loading"} => d.status = "authed"
              /\ d.boot \in {c.boot, "me", "enter"}
              /\ \/ d.refreshing = c.refreshing
                    /\ (c.refreshing.step = "entering" /\ (\E x \in c.enters : x.by = "refresh")
                        => \E x \in d.enters : x.by = "refresh")
                 \/ d.refreshing = NoRefresh /\ c.refreshing.step = "entering"
              /\ \/ d.active \in {None, d.claim}
                 \/ d.active = c.active /\ d.claim = c.claim /\ d.refreshing = c.refreshing
         /\ \/ inbox' = inbox
            \/ \E w \in Page : Tells(t, w) /\ w.refresh = tab[t].refresh /\ w.refresh # 0
<1> DEFINE c == tab[t]
           b == [c EXCEPT !.enters = @ \ {e}]
           d == IF e.ok THEN WithScope(WithTokens(b, b.refresh, e.on), e.on)
                ELSE IF e.by \in {"boot", "refresh"} THEN WithScope(b, None) ELSE b
           Settled(x) == [x EXCEPT !.route = Shows(e), !.busy = FALSE]
           Hold(x) == (\E y \in d.enters : y.by = "refresh") => \E y \in x.enters : y.by = "refresh"
<1>1. /\ t \in Open /\ c \in Page /\ Asking(c) /\ Sound(c) /\ c.status \in {"authed", "anon"}
  BY OpenPage DEF Sound
<1>2. e \in Enter /\ e.on \in Scope /\ None \in Scope BY <1>1 DEF Page, Enter, Scope
<1>3. /\ b \in Page /\ b.status = c.status /\ b.refresh = c.refresh /\ b.claim = c.claim
      /\ b.active = c.active /\ b.boot = c.boot /\ b.refreshing = c.refreshing /\ b.route = c.route
      /\ b.enters = c.enters \ {e} /\ b.url = c.url /\ b.busy = c.busy /\ b.strayed = c.strayed
  BY <1>1 DEF Page
<1>4. e.by # "route" => Asking(b)
  <2>1. e.by # "route" => Alike(c, b) BY <1>3 DEF Alike, Routes
  <2>2. ShowsLoader(b) => ShowsLoader(c) BY <1>3 DEF ShowsLoader, Mounted
  <2> QED BY <1>1, <1>3, <2>1, <2>2, AlikeAsking
<1> HIDE DEF b
<1>5. /\ d \in Page /\ d.status \in {c.status, "authed"} /\ d.refresh = c.refresh /\ d.boot = c.boot
      /\ d.refreshing = c.refreshing /\ d.route = c.route /\ d.enters = c.enters \ {e}
      /\ d.url = c.url /\ d.busy = c.busy /\ d.strayed = c.strayed
      /\ IF e.ok THEN d.status = "authed" /\ d.active = e.on ELSE d.active \in {None, c.active}
      /\ \/ d.active \in {None, d.claim}
         \/ d.active = c.active /\ d.claim = c.claim /\ e.by \notin {"boot", "refresh"}
  <2>1. CASE e.ok
    <3> DEFINE m == WithTokens(b, b.refresh, e.on)
    <3>1. m \in Page BY <1>2, <1>3, PageFields, WithTokensPage
    <3>2. /\ m.status = "authed" /\ m.refresh = b.refresh /\ m.claim = e.on /\ m.boot = b.boot
          /\ m.refreshing = b.refreshing /\ m.route = b.route /\ m.enters = b.enters
          /\ m.url = b.url /\ m.busy = b.busy /\ m.strayed = b.strayed
      BY <1>3 DEF WithTokens, Page
    <3>3. d = WithScope(m, e.on) BY <2>1
    <3> HIDE DEF d, m
    <3>4. d \in Page BY <1>2, <3>1, <3>3, WithScopePage
    <3>5. /\ d.status = m.status /\ d.refresh = m.refresh /\ d.claim = m.claim /\ d.active = e.on
          /\ d.boot = m.boot /\ d.refreshing = m.refreshing /\ d.route = m.route /\ d.enters = m.enters
          /\ d.url = m.url /\ d.busy = m.busy /\ d.strayed = m.strayed
      BY <3>1, <3>3 DEF WithScope, Page
    <3> QED BY <1>3, <2>1, <3>2, <3>4, <3>5
  <2>2. CASE ~e.ok /\ e.by \in {"boot", "refresh"}
    <3>1. d = WithScope(b, None) BY <2>2
    <3> HIDE DEF d
    <3>2. d \in Page BY <1>2, <1>3, <3>1, WithScopePage
    <3>3. /\ d.status = b.status /\ d.refresh = b.refresh /\ d.active = None
          /\ d.boot = b.boot /\ d.refreshing = b.refreshing /\ d.route = b.route /\ d.enters = b.enters
          /\ d.url = b.url /\ d.busy = b.busy /\ d.strayed = b.strayed
      BY <1>3, <3>1 DEF WithScope, Page
    <3> QED BY <1>3, <2>2, <3>2, <3>3
  <2>3. CASE ~e.ok /\ e.by \notin {"boot", "refresh"}
    <3>1. d = b BY <2>3
    <3> HIDE DEF d
    <3> QED BY <1>3, <2>3, <3>1
  <2> QED BY <2>1, <2>2, <2>3
<1>6. \/ inbox' = inbox
      \/ \E w \in Page : Tells(t, w) /\ w.refresh = c.refresh /\ w.refresh # 0
  <2>1. CASE e.ok
    <3>1. Broadcast(t, d) BY <2>1 DEF EnterAnswered, b
    <3> QED BY <1>5, <3>1 DEF Broadcast
  <2>2. CASE ~e.ok BY <2>2 DEF EnterAnswered
  <2> QED BY <2>1, <2>2
<1>7. SUFFICES \E x : /\ Keep(t, x) /\ x \in Page /\ Asking(x) /\ (x.status = "anon" => x.url = None)
                      /\ x.refresh = d.refresh /\ x.status = d.status /\ x.boot \in {d.boot, "me", "enter"}
                      /\ x.active = d.active /\ x.claim = d.claim
                      /\ \/ x.refreshing = d.refreshing
                            /\ (c.refreshing.step = "entering" /\ (\E y \in c.enters : y.by = "refresh")
                                => \E y \in x.enters : y.by = "refresh")
                         \/ x.refreshing = NoRefresh /\ e.by = "refresh" /\ c.refreshing.step = "entering"
  <2> HIDE DEF d
  <2> QED BY <1>1, <1>5, <1>6, <1>7 DEF Sound
<1>8. CASE e.by # "route"
  <2> DEFINE y == Routed(b, d)
  <2>1. Keep(t, Routed(b, After(d, e))) \/ Keep(t, Routed(y, After(y, e)))
    BY <1>8 DEF EnterAnswered, b
  <2>2. Alike(b, d) /\ d.status \in {"authed", "anon"} BY <1>1, <1>3, <1>5 DEF Alike, Routes
  <2>3. Asking(b) /\ Ready(b, d) BY <1>4, <1>8, <2>2, AlikeReady
  <2> HIDE DEF d
  <2>4. y \in Page /\ Same(d, y) /\ Asking(y) /\ Hold(y) BY <1>5, <2>3, RoutedPage
  <2> HIDE DEF y
  <2>5. PICK p, q \in Page : /\ Keep(t, Routed(p, After(q, e)))
                             /\ Asking(p) /\ Alike(p, q) /\ Same(d, q) /\ Hold(q)
    <3>1. Same(d, d) /\ Hold(d) /\ Alike(y, y) BY DEF Same, Alike
    <3> QED BY <1>3, <1>5, <2>1, <2>2, <2>3, <2>4, <3>1
  <2> DEFINE a == After(q, e) x == Routed(p, a)
  <2>6. /\ a \in Page /\ Alike(q, a)
        /\ a.status = q.status /\ a.refresh = q.refresh /\ a.claim = q.claim /\ a.active = q.active
        /\ a.boot \in {q.boot, "me", "enter"}
        /\ \/ a.refreshing = q.refreshing /\ (e.by = "refresh" => q.refreshing.step # "entering")
              /\ ((\E z \in q.enters : z.by = "refresh") => \E z \in a.enters : z.by = "refresh")
           \/ a.refreshing = NoRefresh /\ e.by = "refresh" /\ q.refreshing.step = "entering"
    BY <1>2, AfterPage
  <2>7. Keep(t, x) BY <2>5
  <2> HIDE DEF a
  <2>8. Ready(p, a)
    <3>1. Alike(p, a) BY <2>5, <2>6 DEF Alike
    <3>2. a.status \in {"authed", "anon"} BY <2>2, <2>5, <2>6 DEF Same
    <3> QED BY <2>5, <3>1, <3>2, AlikeReady
  <2>9. /\ x \in Page /\ Same(a, x) /\ Asking(x) /\ (a.status = "anon" => x.url = None)
        /\ (\E z \in a.enters : z.by = "refresh") => \E z \in x.enters : z.by = "refresh"
    BY <2>6, <2>8, RoutedPage
  <2> HIDE DEF x
  <2> QED BY <1>5, <2>5, <2>6, <2>7, <2>9 DEF Same
<1>9. CASE e.by = "route"
  <2> DEFINE y == Routed(b, d)
  <2>1. Keep(t, Routed(b, Settled(d))) \/ Keep(t, Routed(y, Settled(y)))
    BY <1>9 DEF EnterAnswered, b
  <2>2. c.busy /\ (\A z \in d.enters : z.by # "route") /\ (c.strayed \/ e.on = c.url)
    BY <1>1, <1>5, <1>9 DEF Asking
  <2> HIDE DEF d
  <2>3. /\ y \in Page /\ Same(d, y) /\ Hold(y) /\ (\A z \in y.enters : z.by # "route")
        /\ y.url = None \/ (y.url = d.url /\ (d.strayed => y.strayed))
    <3>1. d \in Page /\ d.busy /\ b.url = d.url BY <1>3, <1>5, <2>2
    <3> QED BY <2>2, <3>1, RoutedBusy
  <2> HIDE DEF y
  <2>4. PICK p, q \in Page : /\ Keep(t, Routed(p, Settled(q))) /\ Same(d, q) /\ Hold(q)
                             /\ \A z \in q.enters : z.by # "route"
                             /\ q.url = None \/ (q.url = d.url /\ (d.strayed => q.strayed))
    <3>1. Same(d, d) /\ Hold(d) BY DEF Same
    <3> QED BY <1>3, <1>5, <2>1, <2>2, <2>3, <3>1
  <2> DEFINE a == Settled(q) x == Routed(p, a)
  <2>5. /\ a \in Page /\ Same(q, a) /\ a.enters = q.enters /\ a.url = q.url /\ a.strayed = q.strayed
        /\ a.busy = FALSE /\ a.route = Shows(e)
    BY <1>2 DEF Page, Same, Shows
  <2>6. Keep(t, x) BY <2>4
  <2> HIDE DEF a
  <2>7. Ready(p, a)
    <3>1. Routes(a) = {} BY <2>4, <2>5 DEF Routes
    <3>2. a.status \in {"authed", "anon"} BY <1>1, <1>5, <2>4, <2>5 DEF Same
    <3>3. ShowsLoader(a) => a.strayed
      <4>1. SUFFICES ASSUME ShowsLoader(a) PROVE a.strayed OBVIOUS
      <4>2. a.url # None /\ e.ok /\ a.active # a.url BY <2>5, <4>1 DEF ShowsLoader, Mounted, Shows
      <4>3. a.active = e.on /\ a.url = c.url BY <1>5, <2>4, <2>5, <4>2 DEF Same
      <4> QED BY <1>5, <2>2, <2>4, <2>5, <4>2, <4>3
    <3> QED BY <2>5, <3>1, <3>2, <3>3 DEF Ready
  <2>8. /\ x \in Page /\ Same(a, x) /\ Asking(x) /\ (a.status = "anon" => x.url = None)
        /\ (\E z \in a.enters : z.by = "refresh") => \E z \in x.enters : z.by = "refresh"
    BY <2>5, <2>7, RoutedPage
  <2> HIDE DEF x
  <2> QED BY <1>5, <1>9, <2>4, <2>5, <2>6, <2>8 DEF Same
<1> QED BY <1>8, <1>9

LEMMA BootStep ==
  ASSUME Parameters, Shape, NEW t \in Tab, NEW w \in Scope, Boot(t, w)
  PROVE  \E d : /\ Becomes(t, d) /\ Sound(d) /\ d.refresh = storage.refresh /\ d.active = None
                /\ t \notin Open /\ d.enters = {}
                /\ \/ /\ d.refresh = 0 /\ d.status = "anon" /\ d.refreshing = NoRefresh
                      /\ d.boot = "no" /\ UNCHANGED Server
                   \/ /\ d.refresh # 0 /\ d.status = "loading" /\ d.boot = "refresh"
                      /\ d.refreshing.step = "asked" /\ d.refreshing.kept = None
                      /\ d.refreshing.got = 0 \/ (d.refreshing.got \in live' /\ d.refreshing.got # d.refresh)
                      /\ live' \subseteq 1 .. issued' /\ issued' \in Token /\ member' = member
                      /\ killed' \in BOOLEAN /\ (d.refresh \in live => killed' = killed)
<1> DEFINE c == [Closed EXCEPT !.status = "loading", !.refresh = storage.refresh, !.last = storage.last, !.url = w]
<1>1. storage.refresh \in Token /\ storage.last \in Scope BY DEF Shape, TypeOK
<1>2. /\ c \in Page /\ c.refresh = storage.refresh /\ c.status = "loading" /\ c.active = None
      /\ c.enters = {} /\ c.boot = "no" /\ c.refreshing = NoRefresh /\ c.route = "off" /\ c.last \in Scope
      /\ c.busy = FALSE
  BY <1>1, ClosedIsPage DEF Page, Closed
<1>3. t \notin Open BY DEF Boot
<1>4. CASE c.refresh = 0
  <2> DEFINE b == BootAnon(c) d == Routed(Closed, b)
  <2>1. Becomes(t, d) /\ UNCHANGED Server BY <1>4 DEF Boot, Becomes
  <2> HIDE DEF c
  <2>2. /\ b \in Page /\ b.refresh = c.refresh /\ b.status = "anon" /\ b.active = None
        /\ b.enters = {} /\ b.boot = "no" /\ b.refreshing = NoRefresh /\ b.busy = FALSE
    BY <1>2 DEF BootAnon, Page
  <2> HIDE DEF b
  <2>4. Ready(Closed, b) BY <2>2 DEF Ready, Routes, ShowsLoader, Mounted
  <2>3. d \in Page /\ Same(b, d) /\ Asking(d) /\ d.enters = {} /\ d.url = None
    BY <2>2, <2>4, RoutedPage
  <2> HIDE DEF d
  <2> QED BY <1>2, <1>3, <1>4, <2>1, <2>2, <2>3 DEF Same, Sound
<1>5. CASE c.refresh # 0
  <2> DEFINE f == Asked(c, FALSE)
             d == [c EXCEPT !.refreshing = f, !.boot = "refresh", !.recall = c.last]
  <2>1. Becomes(t, d) /\ Ask(c, FALSE) BY <1>5 DEF Boot, Becomes
  <2> HIDE DEF c
  <2>2. /\ f \in Refreshing /\ f.step = "asked" /\ f.kept = None
        /\ f.got = 0 \/ (f.got \in live' /\ f.got # c.refresh)
        /\ live' \subseteq 1 .. issued' /\ issued' \in Token /\ member' = member
        /\ killed' \in BOOLEAN /\ (c.refresh \in live => killed' = killed)
    BY <1>2, <2>1, AskFacts
  <2> HIDE DEF f
  <2>3. /\ d \in Page /\ d.refresh = c.refresh /\ d.status = "loading" /\ d.active = None
        /\ d.enters = {} /\ d.boot = "refresh" /\ d.refreshing = f /\ d.busy = FALSE
    BY <1>2, <2>2 DEF Page
  <2> HIDE DEF d
  <2>4. Asking(d) BY <2>3 DEF Asking, ShowsLoader, Mounted
  <2> QED BY <1>2, <1>3, <1>5, <2>1, <2>2, <2>3, <2>4 DEF Sound
<1> QED BY <1>4, <1>5

LEMMA UnauthorizedStep ==
  ASSUME Parameters, Shape, NEW t \in Tab, NEW lost \in BOOLEAN, Unauthorized(t, lost)
  PROVE  \E d : LET c == tab[t] IN
           /\ Becomes(t, d) /\ Sound(d) /\ t \in Open
           /\ d.status = c.status /\ d.refresh = c.refresh /\ d.active = c.active /\ d.claim = c.claim
           /\ d.boot = c.boot /\ d.enters = c.enters /\ c.status = "authed"
           /\ c.refresh # 0 /\ c.refreshing = NoRefresh
           /\ d.refreshing.step = "asked" /\ d.refreshing.kept = c.active
           /\ d.refreshing.got = 0 \/ (d.refreshing.got \in live' /\ d.refreshing.got # d.refresh)
           /\ live' \subseteq 1 .. issued' /\ issued' \in Token /\ member' = member
           /\ killed' \in BOOLEAN /\ (d.refresh \in live => killed' = killed)
<1> DEFINE c == tab[t] f == Asked(c, lost) d == [c EXCEPT !.refreshing = f]
<1>1. /\ c \in Page /\ c.status = "authed" /\ Asking(c) /\ t \in Open
      /\ c.refresh # 0 /\ c.refreshing = NoRefresh
  BY OpenPage DEF Unauthorized, Open, NoFlight
<1>2. Ask(c, lost) /\ Becomes(t, d) BY DEF Unauthorized, Becomes
<1>3. /\ f \in Refreshing /\ f.step = "asked" /\ f.kept = c.active
      /\ f.got = 0 \/ (f.got \in live' /\ f.got # c.refresh)
      /\ live' \subseteq 1 .. issued' /\ issued' \in Token /\ member' = member
      /\ killed' \in BOOLEAN /\ (c.refresh \in live => killed' = killed)
  BY <1>1, <1>2, AskFacts
<1> HIDE DEF f
<1>4. /\ d \in Page /\ d.status = c.status /\ d.refresh = c.refresh /\ d.active = c.active
      /\ d.claim = c.claim /\ d.boot = c.boot /\ d.enters = c.enters /\ d.refreshing = f /\ d.route = c.route
      /\ d.url = c.url /\ d.busy = c.busy /\ d.strayed = c.strayed
  BY <1>1, <1>3 DEF Page
<1> HIDE DEF d
<1>5. Asking(d)
  <2>1. Alike(c, d) BY <1>4 DEF Alike, Routes
  <2>2. ShowsLoader(d) => ShowsLoader(c) BY <1>4 DEF ShowsLoader, Mounted
  <2> QED BY <1>1, <1>4, <2>1, <2>2, AlikeAsking
<1> QED BY <1>1, <1>2, <1>3, <1>4, <1>5 DEF Sound

\* What the user does at a page that is open.
Moves(t, w) == Navigate(t, w) \/ Leave(t) \/ (w \in Workspace /\ Switch(t, w))

LEMMA NavigateStep ==
  ASSUME Parameters, Shape, NEW t \in Tab, NEW w \in Scope, Moves(t, w)
  PROVE  \E d : /\ Becomes(t, d) /\ Sound(d) /\ Same(tab[t], d) /\ t \in Open
                /\ tab[t].status = "authed"
                /\ (\E e \in tab[t].enters : e.by = "refresh") => \E e \in d.enters : e.by = "refresh"
<1> DEFINE c == tab[t]
<1>1. c \in Page /\ c.status = "authed" /\ Asking(c) /\ t \in Open
  BY OpenPage DEF Moves, Navigate, Leave, Switch, Open
<1>2. CASE Navigate(t, w)
  <2> DEFINE b == [c EXCEPT !.url = w] d == Routed(c, b)
  <2>1. Becomes(t, d) BY <1>2 DEF Navigate, Becomes
  <2>2. /\ b \in Page /\ Same(c, b) /\ b.enters = c.enters /\ b.route = c.route
        /\ b.busy = c.busy /\ b.strayed = c.strayed
    BY <1>1 DEF Page, Same
  <2>3. Ready(c, b) BY <1>1, <2>2, AlikeReady DEF Alike, Routes, Same
  <2> HIDE DEF b
  <2>4. /\ d \in Page /\ Same(b, d) /\ Asking(d)
        /\ (\E e \in b.enters : e.by = "refresh") => \E e \in d.enters : e.by = "refresh"
    BY <2>2, <2>3, RoutedPage
  <2> HIDE DEF d
  <2> QED BY <1>1, <2>1, <2>2, <2>4 DEF Same, Sound
<1>3. CASE Leave(t) \/ (w \in Workspace /\ Switch(t, w))
  <2>1. PICK e0 \in Enter : /\ e0.by # "route"
                            /\ Becomes(t, [c EXCEPT !.enters = c.enters \cup {e0}])
    <3>1. CASE Leave(t)
      <4> DEFINE e1 == [on |-> None, by |-> "leave", ok |-> TRUE]
      <4>1. e1 \in Enter BY DEF Enter, Scope
      <4> QED BY <1>1, <3>1, <4>1 DEF Leave, Becomes, Shape, TypeOK
    <3>2. CASE w \in Workspace /\ Switch(t, w)
      <4> DEFINE e1 == [on |-> w, by |-> "switch", ok |-> w \in member]
      <4>1. e1 \in Enter BY DEF Enter, Scope
      <4> QED BY <1>1, <3>2, <4>1 DEF Switch, Becomes, Shape, TypeOK
    <3> QED BY <1>3, <3>1, <3>2
  <2> DEFINE es == c.enters \cup {e0} d == [c EXCEPT !.enters = es]
  <2>2. Becomes(t, d) BY <2>1
  <2>3. /\ es \in SUBSET Enter /\ c.enters \subseteq es
        /\ \A x : x.by = "route" => (x \in es <=> x \in c.enters)
    BY <1>1, <2>1, PageFields
  <2> HIDE DEF es
  <2>4. /\ d \in Page /\ Same(c, d) /\ d.enters = es /\ d.route = c.route
        /\ d.url = c.url /\ d.busy = c.busy /\ d.strayed = c.strayed
    BY <1>1, <2>3 DEF Page, Same
  <2> HIDE DEF d
  <2>5. Asking(d)
    <3>1. Alike(c, d) BY <2>3, <2>4 DEF Alike, Routes
    <3>2. ShowsLoader(d) => ShowsLoader(c) BY <2>4 DEF ShowsLoader, Mounted, Same
    <3> QED BY <1>1, <2>4, <3>1, <3>2, AlikeAsking
  <2> QED BY <1>1, <2>2, <2>3, <2>4, <2>5 DEF Same, Sound
<1> QED BY <1>2, <1>3 DEF Moves

LEMMA LoginStep ==
  ASSUME Parameters, Shape, NEW t \in Tab, Login(t)
  PROVE  \E d : LET c == tab[t] IN
           /\ Keep(t, d) /\ Sound(d) /\ t \in Open /\ Tells(t, d) /\ c.status = "anon"
           /\ d.refresh = issued' /\ d.refresh \in Token \ {0} /\ d.claim = None /\ d.status = "authed"
           /\ d.active = c.active /\ d.boot = c.boot /\ d.refreshing = c.refreshing /\ d.enters = c.enters
           /\ issued' = issued + 1 /\ live' = live \cup {issued'} /\ live' \subseteq 1 .. issued'
           /\ issued \in Nat
<1> DEFINE c == tab[t] d == WithTokens(c, issued + 1, None)
<1>1. c \in Page /\ c.status = "anon" /\ Asking(c) /\ t \in Open /\ c.url = None
  BY OpenPage DEF Login, Open, Sound
<1>2. /\ Keep(t, d) /\ Broadcast(t, d) /\ issued' = issued + 1 /\ live' = live \cup {issued + 1}
      /\ issued < MaxTokens
  BY DEF Login
<1>3. live \subseteq 1 .. issued /\ issued \in Nat /\ MaxTokens \in Nat
  BY DEF Shape, TypeOK, Parameters, Token
<1>4. 1 .. issued \subseteq 1 .. issued + 1 /\ issued + 1 \in 1 .. issued + 1 BY <1>3
<1>5. issued + 1 \in Token \ {0} BY <1>2, <1>3 DEF Token
<1>6. d \in Page BY <1>1, <1>5, WithTokensPage DEF Scope
<1>7. /\ d.refresh = issued + 1 /\ d.claim = None /\ d.status = "authed" /\ d.active = c.active
      /\ d.boot = c.boot /\ d.refreshing = c.refreshing /\ d.enters = c.enters /\ d.route = c.route
      /\ d.url = c.url /\ d.busy = c.busy /\ d.strayed = c.strayed
  BY <1>1, <1>6 DEF WithTokens, Page
<1> HIDE DEF d
<1>8. Tells(t, d) BY <1>2, <1>5, <1>7 DEF Broadcast
<1>9. Sound(d)
  <2>1. Alike(c, d) BY <1>7 DEF Alike, Routes
  <2>2. ~ShowsLoader(d) BY <1>1, <1>7 DEF ShowsLoader, Mounted
  <2>3. Asking(d) BY <1>1, <1>7, <2>1, <2>2, AlikeAsking
  <2> QED BY <1>6, <1>7, <2>3 DEF Sound
<1> QED BY <1>1, <1>2, <1>3, <1>4, <1>5, <1>7, <1>8, <1>9

LEMMA LogoutStep ==
  ASSUME Parameters, Shape, NEW t \in Tab, PerformLogout(t)
  PROVE  \E d, w : LET c == tab[t] IN
           /\ Keep(t, d) /\ Sound(d) /\ t \in Open /\ Tells(t, w) /\ w.refresh = 0 /\ w.claim = None
           /\ d.refresh = 0 /\ d.status = "anon" /\ d.active = None
           /\ d.boot = c.boot /\ d.refreshing = c.refreshing
           /\ c.enters = {} => d.enters = {}
           /\ (\E e \in c.enters : e.by = "refresh") => \E e \in d.enters : e.by = "refresh"
           /\ live' \in {live, live \ {c.refresh}}
<1> DEFINE c == tab[t] b == SignedOut(c) d == Routed(c, b)
<1>1. c \in Page /\ c.status = "authed" /\ Asking(c) /\ t \in Open
  BY OpenPage DEF PerformLogout, Open
<1>2. Keep(t, d) /\ Tells(t, b) /\ live' \in {live, live \ {c.refresh}} BY DEF PerformLogout
<1>3. b \in Page /\ b = [c EXCEPT !.active = None, !.last = None, !.status = "anon", !.refresh = 0, !.claim = None]
  BY <1>1, SignedOutPage
<1> HIDE DEF b
<1>4. /\ b.refresh = 0 /\ b.claim = None /\ b.status = "anon" /\ b.active = None /\ b.boot = c.boot
      /\ b.refreshing = c.refreshing /\ b.enters = c.enters /\ b.route = c.route
      /\ b.busy = c.busy /\ b.strayed = c.strayed
  BY <1>1, <1>3 DEF Page
<1>5. Ready(c, b) BY <1>1, <1>4, AlikeReady DEF Alike, Routes
<1>6. /\ d \in Page /\ Same(b, d) /\ Asking(d) /\ d.url = None /\ (b.enters = {} => d.enters = {})
      /\ (\E e \in b.enters : e.by = "refresh") => \E e \in d.enters : e.by = "refresh"
  BY <1>3, <1>4, <1>5, RoutedPage
<1> HIDE DEF d
<1>7. Sound(d) BY <1>4, <1>6 DEF Same, Sound
<1> QED BY <1>1, <1>2, <1>4, <1>6, <1>7 DEF Same
-----------------------------------------------------------------------------
(***************************************************************************)
(* The parts of the invariant, of a step that changes the page of one tab. *)
(***************************************************************************)

LEMMA ShapeTurn ==
  ASSUME Shape, NEW t \in Tab, NEW d, Becomes(t, d), Sound(d),
         inbox' \in [Tab -> Seq(Mail)], \A u \in Tab \ {t} : u \notin Open => inbox'[u] = inbox[u],
         storage' \in [refresh : Token, last : Scope],
         live' \subseteq 1 .. issued', issued' \in Token, member' \subseteq Workspace, killed' \in BOOLEAN,
         begun' \in 0 .. MaxCalls, serial' = serial, alone' = alone
  PROVE  Shape'
<1>1. /\ tab' \in [Tab -> Page] /\ tab'[t] = d /\ d \in Page
      /\ \A u \in Tab \ {t} : tab'[u] = tab[u]
  BY DEF Shape, TypeOK, Becomes, Sound
<1>2. TypeOK' BY <1>1 DEF Shape, TypeOK, Mail
<1>3. \A u \in Tab : Waits(u)'
  <2>1. Waits(t)'
    <3>1. Asking(tab'[t]) BY <1>1 DEF Sound
    <3> QED BY <1>1, <3>1 DEF Waits, Sound
  <2>2. ASSUME NEW u \in Tab \ {t} PROVE Waits(u)'
    <3>1. Waits(u) BY DEF Shape
    <3>2. tab'[u] = tab[u] BY <1>1
    <3>3. u \notin Open => inbox'[u] = inbox[u] OBVIOUS
    <3> QED BY <3>1, <3>2, <3>3 DEF Waits, Open
  <2> QED BY <2>1, <2>2
<1> QED BY <1>2, <1>3 DEF Shape

\* The only tab there is.
LEMMA AloneTurn ==
  ASSUME Shape, AloneInv, NEW t \in Tab, Open \subseteq {t}, NEW d, Becomes(t, d), Sound(d),
         \A u \in Tab \ (Open \ {t}) : inbox'[u] = inbox[u],
         storage'.refresh = d.refresh, ~killed',
         d.refreshing.step = "asked" =>
           d.refreshing.got = 0 \/ (d.refreshing.got \in live' /\ d.refreshing.got # d.refresh),
         d.refreshing.step # "asked" => d.refresh \in live' \cup {0}
  PROVE  AloneInv'
<1>1. tab'[t] = d /\ \A u \in Tab \ {t} : tab'[u] = tab[u]
  BY DEF Shape, TypeOK, Becomes
<1>2. Open' = {t} BY <1>1 DEF Open, Sound
<1>3. NoMail' BY DEF AloneInv, NoMail
<1>4. Holds(t)' BY <1>1 DEF Holds
<1> QED BY <1>2, <1>3, <1>4 DEF AloneInv

\* The tabs with a refresh under way.
LEMMA ApartTurn ==
  ASSUME Shape, \A u \in Tab : RefreshesAlone(u), NEW t \in Tab, NEW d, Becomes(t, d),
         d.refreshing.step = "asked" =>
           /\ NoMail' /\ d.enters = {} /\ d.boot \in {"no", "refresh"}
           /\ \A u \in Tab \ {t} : Idle(u),
         \A u \in Tab \ {t} : tab[u].refreshing.step = "asked" =>
           /\ NoMail' /\ d.refreshing = NoRefresh /\ d.boot = "no" /\ d.enters = {}
  PROVE  \A u \in Tab : RefreshesAlone(u)'
<1>1. tab'[t] = d /\ \A u \in Tab \ {t} : tab'[u] = tab[u]
  BY DEF Shape, TypeOK, Becomes
<1>2. \A u \in Tab \ {t} : Idle(u)' <=> Idle(u) BY <1>1 DEF Idle
<1>3. RefreshesAlone(t)' BY <1>1, <1>2 DEF RefreshesAlone
<1>4. ASSUME NEW u \in Tab \ {t} PROVE RefreshesAlone(u)'
  <2>1. SUFFICES ASSUME tab[u].refreshing.step = "asked"
                 PROVE  /\ NoMail' /\ tab[u].enters = {} /\ tab[u].boot \in {"no", "refresh"}
                        /\ \A v \in Tab \ {u} : Idle(v)'
    BY <1>1 DEF RefreshesAlone
  <2>2. /\ NoMail /\ tab[u].enters = {} /\ tab[u].boot \in {"no", "refresh"}
        /\ \A v \in Tab \ {u} : Idle(v)
    BY <2>1 DEF RefreshesAlone
  <2>3. Idle(t)' /\ NoMail' BY <1>1, <2>1 DEF Idle
  <2> QED BY <1>2, <2>2, <2>3
<1> QED BY <1>3, <1>4

\* Everybody's token stays the same.
LEMMA SameToken ==
  ASSUME Shape, NEW t \in Tab, NEW d, Becomes(t, d), NEW n \in Token, Agreed(n),
         \A u \in Tab : \A i \in 1 .. Len(inbox'[u]) : inbox'[u][i].refresh = n,
         \A u \in Tab \ {t} : inbox[u] # <<>> => inbox'[u] # <<>>,
         \/ d.refresh = n /\ d.status \in (IF n = 0 THEN {"anon"} ELSE {"authed", "loading"})
         \/ inbox'[t] # <<>> /\ d.refreshing = NoRefresh /\ d.boot = "no" /\ d.enters = {},
         NoMail' => storage'.refresh = n,
         n = 0 => d.enters = {} /\ d.boot \in {"no", "refresh"},
         \A u \in Tab : RefreshesAlone(u)'
  PROVE  SerialInv'
<1>1. tab'[t] = d /\ \A u \in Tab \ {t} : tab'[u] = tab[u]
  BY DEF Shape, TypeOK, Becomes
<1>2. Knows(t, n)' BY <1>1 DEF Knows, Idle
<1>3. ASSUME NEW u \in Tab \ {t}, u \in Open' PROVE Knows(u, n)'
  <2>1. u \in Open BY <1>1, <1>3 DEF Open
  <2>2. Knows(u, n) BY <2>1 DEF Agreed
  <2> QED BY <1>1, <2>2 DEF Knows, Idle
<1>4. n = 0 => \A u \in Tab : tab'[u].enters = {} /\ tab'[u].boot \in {"no", "refresh"}
  BY <1>1 DEF Agreed
<1>5. Agreed(n)'
  <2>1. \A u \in Open' : Knows(u, n)' BY <1>2, <1>3 DEF Open
  <2> QED BY <1>4, <2>1 DEF Agreed
<1> QED BY <1>5 DEF SerialInv

\* A token is everybody's from here on: the others are at rest and are told.
LEMMA NewToken ==
  ASSUME Shape, NoMail, NEW t \in Tab, \A u \in Tab \ {t} : Idle(u), NEW d, Becomes(t, d),
         d.status = IF d.refresh = 0 THEN "anon" ELSE "authed", d.refresh \in Token,
         d.refreshing.step # "asked", storage'.refresh = d.refresh,
         d.refresh = 0 => d.enters = {} /\ d.boot \in {"no", "refresh"},
         NEW w, Tells(t, w), w.refresh = d.refresh, w.claim = None
  PROVE  SerialInv'
<1> DEFINE n == d.refresh
<1>1. tab'[t] = d /\ \A u \in Tab \ {t} : tab'[u] = tab[u]
  BY DEF Shape, TypeOK, Becomes
<1>2. /\ \A u \in Open \ {t} : inbox'[u] # <<>>
      /\ \A u \in Tab : \A i \in 1 .. Len(inbox'[u]) : inbox'[u][i].refresh = n
  <2>1. w.refresh \in Token /\ w.claim \in Scope BY DEF Scope
  <2>2. \A u \in Tab : 1 .. Len(inbox[u]) = {} BY DEF NoMail
  <2> QED BY <2>1, <2>2, TellsFacts
<1>3. \A u \in Tab \ {t} : Idle(u)' BY <1>1 DEF Idle
<1>4. \A u \in Open' : Knows(u, n)'
  <2>1. Knows(t, n)' BY <1>1 DEF Knows
  <2>2. ASSUME NEW u \in Open' \ {t} PROVE Knows(u, n)'
    <3>1. u \in Open \ {t} /\ u \in Tab BY <1>1 DEF Open
    <3> QED BY <1>2, <1>3, <3>1 DEF Knows
  <2> QED BY <2>1, <2>2
<1>5. n = 0 => \A u \in Tab : tab'[u].enters = {} /\ tab'[u].boot \in {"no", "refresh"}
  BY <1>1 DEF Idle
<1>6. Agreed(n)' BY <1>2, <1>4, <1>5 DEF Agreed
<1>7. \A u \in Tab : RefreshesAlone(u)'
  <2>1. NoRefresh.step = "no" BY DEF NoRefresh
  <2> QED BY <1>1, <2>1 DEF RefreshesAlone, Idle
<1> QED BY <1>6, <1>7 DEF SerialInv

LEMMA ScopedTurn ==
  ASSUME Shape, \A u \in Tab : Scoped(u), NEW t \in Tab, NEW d, Becomes(t, d),
         d.refreshing.step = "asked" => d.active \in {None, d.refreshing.kept},
         d.refreshing.step = "entering" => \E e \in d.enters : e.by = "refresh",
         d.refreshing.step # "entering" => d.active \in {None, d.claim}
  PROVE  \A u \in Tab : Scoped(u)'
<1>1. tab'[t] = d /\ \A u \in Tab \ {t} : tab'[u] = tab[u]
  BY DEF Shape, TypeOK, Becomes
<1>2. Scoped(t)' BY <1>1 DEF Scoped
<1>3. \A u \in Tab \ {t} : Scoped(u)' BY <1>1 DEF Scoped
<1> QED BY <1>2, <1>3
-----------------------------------------------------------------------------
(***************************************************************************)
(* The invariant, one action after the other.                              *)
(***************************************************************************)

LEMMA BeginsFacts ==
  ASSUME Parameters, Shape, Begins \/ Goes
  PROVE  /\ begun' \in 0 .. MaxCalls /\ serial' = serial /\ alone' = alone
         /\ Begins /\ serial => Quiet /\ NoMail /\ \A u \in Tab : Idle(u)
BY DEF Begins, Goes, Shape, TypeOK, Parameters, Quiet, NoMail

LEMMA IdleFacts ==
  ASSUME NEW t \in Tab, Idle(t)
  PROVE  /\ tab[t].refreshing.step = "no" /\ tab[t].boot = "no" /\ tab[t].enters = {}
         /\ tab[t].refreshing = NoRefresh
BY DEF Idle, NoRefresh

\* Under SerialInv: where some tab has a refresh under way, the others are at rest.
LEMMA NoneAsked ==
  ASSUME SerialInv, NEW t \in Tab, (~Idle(t) /\ tab[t].refreshing.step # "asked") \/ ~NoMail
  PROVE  \A u \in Tab : tab[u].refreshing.step # "asked"
BY DEF SerialInv, RefreshesAlone

\* A tab's mail, as far as the tokens in it go.
LEMMA MailKept ==
  ASSUME NEW n, Agreed(n), NEW t \in Tab,
         \/ inbox' = inbox
         \/ Shape /\ \E w \in Page : Tells(t, w) /\ w.refresh = n
  PROVE  /\ \A u \in Tab : \A i \in 1 .. Len(inbox'[u]) : inbox'[u][i].refresh = n
         /\ \A u \in Tab : inbox[u] # <<>> => inbox'[u] # <<>>
         /\ NoMail' => NoMail
<1>1. \A u \in Tab : \A i \in 1 .. Len(inbox[u]) : inbox[u][i].refresh = n BY DEF Agreed
<1>2. CASE inbox' = inbox BY <1>1, <1>2 DEF NoMail
<1>3. CASE Shape /\ \E w \in Page : Tells(t, w) /\ w.refresh = n
  <2>1. PICK w \in Page : Tells(t, w) /\ w.refresh = n BY <1>3
  <2>2. /\ \A u \in Open \ {t} : inbox'[u] # <<>>
        /\ \A u \in Tab : u \notin Open \ {t} => inbox'[u] = inbox[u]
        /\ \A u \in Tab : \A i \in 1 .. Len(inbox'[u]) :
             inbox'[u][i].refresh = n \/ (i \in 1 .. Len(inbox[u]) /\ inbox'[u][i] = inbox[u][i])
    BY <1>3, <2>1, PageFields, TellsFacts
  <2>3. \A u \in Tab : inbox[u] # <<>> => inbox'[u] # <<>> BY <2>2
  <2> QED BY <1>1, <2>2, <2>3 DEF NoMail
<1> QED BY <1>2, <1>3

LEMMA ReceiveHolds == ASSUME Parameters, Inductive, NEW t \in Tab, Receive(t) PROVE Inductive'
<1>1. Shape BY DEF Inductive, Shape
<1>2. PICK d : /\ Keep(t, d) /\ Sound(d) /\ t \in Open
               /\ d.refresh = Head(inbox[t]).refresh
               /\ d.status = IF d.refresh = 0 THEN "anon" ELSE "authed"
               /\ d.refreshing = tab[t].refreshing /\ d.boot = tab[t].boot
               /\ d.refresh = 0 /\ tab[t].enters = {} => d.enters = {}
  BY <1>1, ReceiveStep
<1>3. Becomes(t, d) /\ storage'.refresh = d.refresh /\ storage' \in [refresh : Token, last : Scope]
  BY <1>1, <1>2, KeepFacts DEF Sound
<1>4. /\ inbox[t] # <<>> /\ inbox' = [inbox EXCEPT ![t] = Tail(inbox[t])]
      /\ live' = live /\ issued' = issued /\ member' = member /\ killed' = killed
      /\ begun' \in 0 .. MaxCalls /\ serial' = serial /\ alone' = alone
  BY <1>1, BeginsFacts DEF Receive, Server
<1>5. inbox \in [Tab -> Seq(Mail)] BY <1>1 DEF Shape, TypeOK, Mail
<1>6. /\ Tail(inbox[t]) \in Seq(Mail) /\ Len(inbox[t]) \in Nat \ {0} /\ Head(inbox[t]) = inbox[t][1]
      /\ \A i \in 1 .. Len(Tail(inbox[t])) : i + 1 \in 1 .. Len(inbox[t]) /\ Tail(inbox[t])[i] = inbox[t][i + 1]
  BY <1>4, <1>5
<1>7. /\ inbox' \in [Tab -> Seq(Mail)] /\ inbox'[t] = Tail(inbox[t])
      /\ \A u \in Tab \ {t} : inbox'[u] = inbox[u]
  BY <1>4, <1>5, <1>6
<1>8. Shape'
  <2>1. \A u \in Tab \ {t} : u \notin Open => inbox'[u] = inbox[u] BY <1>7
  <2>2. live' \subseteq 1 .. issued' /\ issued' \in Token /\ member' \subseteq Workspace /\ killed' \in BOOLEAN
    BY <1>1, <1>4 DEF Shape, TypeOK
  <2> QED BY <1>1, <1>2, <1>3, <1>4, <1>7, <2>1, <2>2, ShapeTurn
<1>9. ~alone BY <1>4 DEF Inductive, AloneInv, NoMail
<1>10. ASSUME serial PROVE SerialInv'
  <2>1. SerialInv BY <1>10 DEF Inductive
  <2>2. PICK n \in Token : Agreed(n) BY <2>1 DEF SerialInv
  <2>3. \A u \in Tab : tab[u].refreshing.step # "asked" BY <1>4, <2>1, NoneAsked DEF NoMail
  <2>4. \A u \in Tab : \A i \in 1 .. Len(inbox[u]) : inbox[u][i].refresh = n BY <2>2 DEF Agreed
  <2>5. d.refresh = n
    <3>1. 1 \in 1 .. Len(inbox[t]) BY <1>6
    <3> QED BY <1>2, <1>6, <2>4, <3>1
  <2>6. \A u \in Tab : \A i \in 1 .. Len(inbox'[u]) : inbox'[u][i].refresh = n
    <3>1. \A i \in 1 .. Len(inbox'[t]) : inbox'[t][i].refresh = n BY <1>6, <1>7, <2>4
    <3>2. ASSUME NEW u \in Tab \ {t} PROVE \A i \in 1 .. Len(inbox'[u]) : inbox'[u][i].refresh = n
      BY <1>7, <2>4
    <3> QED BY <3>1, <3>2
  <2>7. n = 0 => d.enters = {} /\ d.boot \in {"no", "refresh"} BY <1>2, <2>2, <2>5 DEF Agreed
  <2>8. \A u \in Tab : RefreshesAlone(u)'
    BY <1>1, <1>2, <1>3, <2>1, <2>3, ApartTurn DEF SerialInv
  <2> QED BY <1>1, <1>2, <1>3, <1>7, <2>2, <2>5, <2>6, <2>7, <2>8, SameToken
<1> QED BY <1>4, <1>8, <1>9, <1>10 DEF Inductive, Shape

\* What every turn of one tab that tells nobody leaves to show.
LEMMA QuietTurn ==
  ASSUME Parameters, Shape, NEW t \in Tab, NEW d, Becomes(t, d), Sound(d), UNCHANGED <<inbox, Server>>,
         storage' \in [refresh : Token, last : Scope], Begins \/ Goes
  PROVE  Shape'
<1>1. begun' \in 0 .. MaxCalls /\ serial' = serial /\ alone' = alone BY BeginsFacts
<1>2. /\ inbox' \in [Tab -> Seq(Mail)] /\ \A u \in Tab \ {t} : u \notin Open => inbox'[u] = inbox[u]
      /\ live' \subseteq 1 .. issued' /\ issued' \in Token /\ member' \subseteq Workspace /\ killed' \in BOOLEAN
  BY DEF Shape, TypeOK, Server, Mail
<1> QED BY <1>1, <1>2, ShapeTurn

LEMMA BootEndHolds == ASSUME Parameters, Inductive, NEW t \in Tab, BootEnd(t) PROVE Inductive'
<1>1. Shape BY DEF Inductive, Shape
<1>2. PICK d : /\ Keep(t, d) /\ Sound(d) /\ t \in Open
               /\ d.status = "authed" /\ d.boot = "no"
               /\ d.refresh = tab[t].refresh /\ d.refreshing = tab[t].refreshing
               /\ d.active = tab[t].active /\ d.claim = tab[t].claim
               /\ (\E e \in tab[t].enters : e.by = "refresh") => \E e \in d.enters : e.by = "refresh"
  BY <1>1, BootEndStep
<1>3. Becomes(t, d) /\ storage'.refresh = d.refresh /\ storage' \in [refresh : Token, last : Scope]
  BY <1>1, <1>2, KeepFacts DEF Sound
<1>4. /\ UNCHANGED <<inbox, Server>> /\ Goes /\ serial' = serial /\ alone' = alone /\ tab[t].boot = "me"
  BY DEF BootEnd, Goes
<1>5. Shape' BY <1>1, <1>2, <1>3, <1>4, QuietTurn
<1>6. ASSUME alone PROVE AloneInv'
  <2>1. AloneInv /\ Holds(t) /\ Open \subseteq {t} BY <1>2, <1>6 DEF Inductive, AloneInv, Open
  <2> QED BY <1>1, <1>2, <1>3, <1>4, <2>1, AloneTurn DEF AloneInv, Holds, Server
<1>7. ASSUME serial PROVE SerialInv'
  <2>1. SerialInv BY <1>7 DEF Inductive
  <2>2. PICK n \in Token : Agreed(n) BY <2>1 DEF SerialInv
  <2>3. ~Idle(t) /\ tab[t].refreshing.step # "asked" BY <1>4, <2>1 DEF SerialInv, RefreshesAlone, Idle
  <2>4. \A u \in Tab : tab[u].refreshing.step # "asked" BY <2>1, <2>3, NoneAsked
  <2>5. d.refresh = n /\ n # 0 BY <1>2, <1>4, <2>2, <2>3 DEF Agreed, Knows
  <2>6. \A u \in Tab : RefreshesAlone(u)' BY <1>1, <1>2, <1>3, <2>1, <2>4, ApartTurn DEF SerialInv
  <2> QED BY <1>1, <1>2, <1>3, <1>4, <2>2, <2>5, <2>6, MailKept, SameToken
<1>8. ASSUME serial /\ alone PROVE \A u \in Tab : Scoped(u)'
  BY <1>1, <1>2, <1>3, <1>8, ScopedTurn DEF Inductive, Scoped
<1> QED BY <1>4, <1>5, <1>6, <1>7, <1>8 DEF Inductive, Shape

LEMMA DropHolds == ASSUME Parameters, Inductive, NEW t \in Tab, DropToLauncher(t) PROVE Inductive'
<1>1. Shape BY DEF Inductive, Shape
<1>2. PICK d : /\ Keep(t, d) /\ Sound(d) /\ t \in Open
               /\ d.status = tab[t].status /\ d.status # "anon" /\ d.boot = tab[t].boot
               /\ d.refresh = tab[t].refresh /\ d.refreshing = tab[t].refreshing
               /\ d.active = None
               /\ (\E e \in tab[t].enters : e.by = "refresh") => \E e \in d.enters : e.by = "refresh"
  BY <1>1, DropStep
<1>3. Becomes(t, d) /\ storage'.refresh = d.refresh /\ storage' \in [refresh : Token, last : Scope]
  BY <1>1, <1>2, KeepFacts DEF Sound
<1>4. /\ UNCHANGED <<inbox, Server>> /\ Goes /\ serial' = serial /\ alone' = alone
      /\ serial => NoMail /\ \A u \in Tab : Idle(u)
  BY DEF DropToLauncher, Goes, Quiet, NoMail
<1>5. Shape' BY <1>1, <1>2, <1>3, <1>4, QuietTurn
<1>6. ASSUME alone PROVE AloneInv'
  <2>1. AloneInv /\ Holds(t) /\ Open \subseteq {t} BY <1>2, <1>6 DEF Inductive, AloneInv, Open
  <2> QED BY <1>1, <1>2, <1>3, <1>4, <2>1, AloneTurn DEF AloneInv, Holds, Server
<1>7. ASSUME serial PROVE SerialInv'
  <2>1. SerialInv BY <1>7 DEF Inductive
  <2>2. PICK n \in Token : Agreed(n) BY <2>1 DEF SerialInv
  <2>3. NoMail /\ \A u \in Tab : Idle(u) BY <1>4, <1>7
  <2>4. d.refresh = n /\ n # 0 /\ d.status \in {"authed", "loading"}
    BY <1>2, <2>2, <2>3 DEF Agreed, Knows, NoMail
  <2>5. \A u \in Tab : tab[u].refreshing.step # "asked" BY <2>3, IdleFacts
  <2>6. d.refreshing.step # "asked" BY <1>2, <2>5
  <2>7. \A u \in Tab : RefreshesAlone(u)' BY <1>1, <1>3, <2>1, <2>5, <2>6, ApartTurn DEF SerialInv
  <2> QED BY <1>1, <1>2, <1>3, <1>4, <2>2, <2>4, <2>7, MailKept, SameToken
<1>8. ASSUME serial /\ alone PROVE \A u \in Tab : Scoped(u)'
  BY <1>1, <1>2, <1>3, <1>8, ScopedTurn DEF Inductive, Scoped
<1> QED BY <1>4, <1>5, <1>6, <1>7, <1>8 DEF Inductive, Shape

LEMMA EnterHolds ==
  ASSUME Parameters, Inductive, NEW t \in Tab, NEW e \in tab[t].enters, EnterAnswered(t, e)
  PROVE  Inductive'
<1>1. Shape BY DEF Inductive, Shape
<1>2. /\ t \in Open /\ tab[t].status # "loading"
      /\ \/ inbox' = inbox
         \/ \E w \in Page : Tells(t, w) /\ w.refresh = tab[t].refresh /\ w.refresh # 0
  BY <1>1, EnterStep
<1>3. PICK d : LET c == tab[t] IN
         /\ Keep(t, d) /\ Sound(d)
         /\ d.refresh = c.refresh /\ d.status \in {c.status, "authed"}
         /\ c.status \in {"authed", "loading"} => d.status = "authed"
         /\ d.boot \in {c.boot, "me", "enter"}
         /\ \/ d.refreshing = c.refreshing
               /\ (c.refreshing.step = "entering" /\ (\E x \in c.enters : x.by = "refresh")
                   => \E x \in d.enters : x.by = "refresh")
            \/ d.refreshing = NoRefresh /\ c.refreshing.step = "entering"
         /\ \/ d.active \in {None, d.claim}
            \/ d.active = c.active /\ d.claim = c.claim /\ d.refreshing = c.refreshing
  BY <1>1, EnterStep
<1>4. Becomes(t, d) /\ storage'.refresh = d.refresh /\ storage' \in [refresh : Token, last : Scope]
  BY <1>1, <1>3, KeepFacts DEF Sound
<1>5. UNCHANGED Server /\ Goes /\ serial' = serial /\ alone' = alone /\ NoRefresh.step = "no"
  BY DEF EnterAnswered, Goes, NoRefresh
<1>6. /\ inbox' \in [Tab -> Seq(Mail)]
      /\ \A u \in Tab : u \notin Open \ {t} => inbox'[u] = inbox[u]
  <2>1. CASE inbox' = inbox BY <1>1, <2>1 DEF Shape, TypeOK, Mail
  <2>2. CASE \E w \in Page : Tells(t, w) /\ w.refresh = tab[t].refresh /\ w.refresh # 0
    BY <1>1, <2>2, PageFields, TellsFacts
  <2> QED BY <1>2, <2>1, <2>2
<1>7. Shape'
  <2>1. /\ live' \subseteq 1 .. issued' /\ issued' \in Token /\ member' \subseteq Workspace /\ killed' \in BOOLEAN
        /\ begun' \in 0 .. MaxCalls
    BY <1>1, <1>5, BeginsFacts DEF Shape, TypeOK, Server
  <2>2. \A u \in Tab \ {t} : u \notin Open => inbox'[u] = inbox[u] BY <1>6
  <2> QED BY <1>1, <1>3, <1>4, <1>5, <1>6, <2>1, <2>2, ShapeTurn
<1>8. ASSUME alone PROVE AloneInv'
  <2>1. AloneInv /\ Holds(t) /\ Open \subseteq {t} BY <1>2, <1>8 DEF Inductive, AloneInv, Open
  <2>2. /\ d.refreshing.step = "asked" =>
             d.refreshing.got = 0 \/ (d.refreshing.got \in live' /\ d.refreshing.got # d.refresh)
        /\ d.refreshing.step # "asked" => d.refresh \in live' \cup {0}
    BY <1>3, <1>5, <2>1 DEF Holds, Server
  <2>3. ~killed' BY <1>5, <2>1 DEF AloneInv, Server
  <2> QED BY <1>1, <1>3, <1>4, <1>6, <2>1, <2>2, <2>3, AloneTurn
<1>9. ASSUME serial PROVE SerialInv'
  <2>1. SerialInv BY <1>9 DEF Inductive
  <2>2. PICK n \in Token : Agreed(n) BY <2>1 DEF SerialInv
  <2>3. ~Idle(t) /\ tab[t].refreshing.step # "asked" BY <2>1 DEF SerialInv, RefreshesAlone, Idle
  <2>4. \A u \in Tab : tab[u].refreshing.step # "asked" BY <2>1, <2>3, NoneAsked
  <2>5. tab[t].refresh = n /\ n # 0 /\ tab[t].status \in {"authed", "loading"}
    BY <1>2, <2>2, <2>3 DEF Agreed, Knows
  <2>6. \A u \in Tab : RefreshesAlone(u)'
    <3>1. d.refreshing.step # "asked" BY <1>3, <1>5, <2>3
    <3> QED BY <1>1, <1>4, <2>1, <2>4, <3>1, ApartTurn DEF SerialInv
  <2>7. /\ \A u \in Tab : \A i \in 1 .. Len(inbox'[u]) : inbox'[u][i].refresh = n
        /\ \A u \in Tab : inbox[u] # <<>> => inbox'[u] # <<>>
    BY <1>1, <1>2, <2>2, <2>5, MailKept
  <2> QED BY <1>1, <1>3, <1>4, <2>2, <2>5, <2>6, <2>7, SameToken
<1>10. ASSUME serial /\ alone PROVE \A u \in Tab : Scoped(u)'
  <2>1. \A u \in Tab : Scoped(u) BY <1>10 DEF Inductive
  <2>2. tab[t].refreshing.step # "asked" BY <1>10 DEF Inductive, SerialInv, RefreshesAlone
  <2>3. /\ d.refreshing.step # "asked"
        /\ d.refreshing.step = "entering" => \E x \in d.enters : x.by = "refresh"
        /\ d.refreshing.step # "entering" => d.active \in {None, d.claim}
    BY <1>3, <1>5, <2>1, <2>2 DEF Scoped
  <2> QED BY <1>1, <1>4, <2>1, <2>3, ScopedTurn
<1> QED BY <1>5, <1>7, <1>8, <1>9, <1>10 DEF Inductive, Shape

LEMMA RefreshHolds == ASSUME Parameters, Inductive, NEW t \in Tab, RefreshAnswered(t) PROVE Inductive'
<1> DEFINE f == tab[t].refreshing
<1>1. Shape BY DEF Inductive, Shape
<1>2. PICK d, w : LET c == tab[t] IN
         /\ Keep(t, d) /\ Sound(d) /\ t \in Open /\ f.step = "asked"
         /\ Tells(t, w) /\ w.refresh = f.got /\ w.claim = None
         /\ d.refresh = f.got /\ d.status = IF f.got = 0 THEN "anon" ELSE "authed"
         /\ \/ d.refreshing = NoRefresh /\ (d.active = None \/ (f.kept = None /\ d.active = c.active))
            \/ d.refreshing.step = "entering" /\ \E e \in d.enters : e.by = "refresh"
         /\ f.got = 0 /\ c.enters = {} => d.enters = {}
         /\ f.got = 0 /\ c.boot \in {"no", "refresh"} => d.boot = "no"
  BY <1>1, RefreshStep
<1>3. /\ Becomes(t, d) /\ storage'.refresh = d.refresh /\ storage' \in [refresh : Token, last : Scope]
      /\ d.refresh \in Token
  BY <1>1, <1>2, KeepFacts, PageFields DEF Sound
<1>4. UNCHANGED Server /\ Goes /\ serial' = serial /\ alone' = alone /\ NoRefresh.step = "no"
  BY DEF RefreshAnswered, Goes, NoRefresh
<1>5. /\ inbox' \in [Tab -> Seq(Mail)]
      /\ \A u \in Tab : u \notin Open \ {t} => inbox'[u] = inbox[u]
  <2>1. w.refresh \in Token /\ w.claim \in Scope BY <1>2, <1>3 DEF Scope
  <2> QED BY <1>1, <1>2, <2>1, TellsFacts
<1>6. Shape'
  <2>1. /\ live' \subseteq 1 .. issued' /\ issued' \in Token /\ member' \subseteq Workspace /\ killed' \in BOOLEAN
        /\ begun' \in 0 .. MaxCalls
    BY <1>1, <1>4, BeginsFacts DEF Shape, TypeOK, Server
  <2>2. \A u \in Tab \ {t} : u \notin Open => inbox'[u] = inbox[u] BY <1>5
  <2> QED BY <1>1, <1>2, <1>3, <1>4, <1>5, <2>1, <2>2, ShapeTurn
<1>7. d.refreshing.step # "asked" BY <1>2, <1>4
<1>8. ASSUME alone PROVE AloneInv'
  <2>1. AloneInv /\ Holds(t) /\ Open \subseteq {t} BY <1>2, <1>8 DEF Inductive, AloneInv, Open
  <2>2. d.refresh \in live' \cup {0} BY <1>2, <1>4, <2>1 DEF Holds, Server
  <2>3. ~killed' BY <1>4, <2>1 DEF AloneInv, Server
  <2> QED BY <1>1, <1>2, <1>3, <1>5, <1>7, <2>1, <2>2, <2>3, AloneTurn
<1>9. ASSUME serial PROVE SerialInv'
  <2>1. /\ NoMail /\ tab[t].enters = {} /\ tab[t].boot \in {"no", "refresh"}
        /\ \A u \in Tab \ {t} : Idle(u)
    BY <1>2, <1>9 DEF Inductive, SerialInv, RefreshesAlone
  <2>2. d.refresh = 0 => d.enters = {} /\ d.boot \in {"no", "refresh"} BY <1>2, <2>1
  <2> QED BY <1>1, <1>2, <1>3, <1>7, <2>1, <2>2, NewToken
<1>10. ASSUME serial /\ alone PROVE \A u \in Tab : Scoped(u)'
  <2>1. \A u \in Tab : Scoped(u) BY <1>10 DEF Inductive
  <2>2. tab[t].active \in {None, f.kept} BY <1>2, <2>1 DEF Scoped
  <2>3. /\ d.refreshing.step = "entering" => \E e \in d.enters : e.by = "refresh"
        /\ d.refreshing.step # "entering" => d.active = None
    BY <1>2, <1>4, <2>2
  <2> QED BY <1>1, <1>3, <1>7, <2>1, <2>3, ScopedTurn
<1> QED BY <1>4, <1>6, <1>8, <1>9, <1>10 DEF Inductive, Shape

LEMMA BootHolds ==
  ASSUME Parameters, Inductive, NEW t \in Tab, NEW w \in Scope, Boot(t, w)
  PROVE  Inductive'
<1>1. Shape BY DEF Inductive, Shape
<1>2. PICK d : /\ Becomes(t, d) /\ Sound(d) /\ d.refresh = storage.refresh /\ d.active = None
               /\ t \notin Open /\ d.enters = {}
               /\ \/ /\ d.refresh = 0 /\ d.status = "anon" /\ d.refreshing = NoRefresh
                     /\ d.boot = "no" /\ UNCHANGED Server
                  \/ /\ d.refresh # 0 /\ d.status = "loading" /\ d.boot = "refresh"
                     /\ d.refreshing.step = "asked" /\ d.refreshing.kept = None
                     /\ d.refreshing.got = 0 \/ (d.refreshing.got \in live' /\ d.refreshing.got # d.refresh)
                     /\ live' \subseteq 1 .. issued' /\ issued' \in Token /\ member' = member
                     /\ killed' \in BOOLEAN /\ (d.refresh \in live => killed' = killed)
  BY <1>1, BootStep
<1>3. /\ UNCHANGED <<storage, inbox>> /\ Begins /\ serial' = serial /\ alone' = alone
      /\ NoRefresh.step = "no" /\ (alone => Open = {})
  BY DEF Boot, Begins, NoRefresh
<1>4. Shape'
  <2>1. /\ live' \subseteq 1 .. issued' /\ issued' \in Token /\ member' \subseteq Workspace /\ killed' \in BOOLEAN
        /\ begun' \in 0 .. MaxCalls /\ storage' \in [refresh : Token, last : Scope]
        /\ inbox' \in [Tab -> Seq(Mail)]
    BY <1>1, <1>2, <1>3, BeginsFacts DEF Shape, TypeOK, Server, Mail
  <2> QED BY <1>1, <1>2, <1>3, <2>1, ShapeTurn
<1>5. ASSUME alone PROVE AloneInv'
  <2>1. AloneInv /\ Open = {} /\ storage.refresh \in live \cup {0} BY <1>3, <1>5 DEF Inductive, AloneInv
  <2>2. /\ ~killed' /\ storage'.refresh = d.refresh
        /\ d.refreshing.step = "asked" =>
             d.refreshing.got = 0 \/ (d.refreshing.got \in live' /\ d.refreshing.got # d.refresh)
        /\ d.refreshing.step # "asked" => d.refresh \in live' \cup {0}
    BY <1>2, <1>3, <2>1 DEF AloneInv, Server
  <2> QED BY <1>1, <1>2, <1>3, <2>1, <2>2, AloneTurn
<1>6. ASSUME serial PROVE SerialInv'
  <2>1. SerialInv BY <1>6 DEF Inductive
  <2>2. PICK n \in Token : Agreed(n) BY <2>1 DEF SerialInv
  <2>3. NoMail /\ NoMail' /\ \A u \in Tab : Idle(u) BY <1>1, <1>3, <1>6, BeginsFacts DEF NoMail
  <2>4. d.refresh = n BY <1>2, <2>2, <2>3 DEF Agreed
  <2>5. \A u \in Tab : RefreshesAlone(u)'
    <3>1. d.enters = {} /\ d.boot \in {"no", "refresh"} BY <1>2
    <3>2. \A u \in Tab : tab[u].refreshing.step # "asked" BY <2>3, IdleFacts
    <3> QED BY <1>1, <1>2, <2>1, <2>3, <3>1, <3>2, ApartTurn DEF SerialInv
  <2>6. /\ d.refresh = n /\ d.status \in (IF n = 0 THEN {"anon"} ELSE {"authed", "loading"})
        /\ NoMail' => storage'.refresh = n
        /\ n = 0 => d.enters = {} /\ d.boot \in {"no", "refresh"}
    BY <1>2, <1>3, <2>4
  <2> QED BY <1>1, <1>2, <1>3, <2>2, <2>5, <2>6, MailKept, SameToken
<1>7. ASSUME serial /\ alone PROVE \A u \in Tab : Scoped(u)'
  <2>1. d.refreshing.step # "entering" /\ d.active = None BY <1>2, <1>3
  <2> QED BY <1>1, <1>2, <1>7, <2>1, ScopedTurn DEF Inductive
<1> QED BY <1>3, <1>4, <1>5, <1>6, <1>7 DEF Inductive, Shape

LEMMA CloseHolds == ASSUME Parameters, Inductive, NEW t \in Tab, Close(t) PROVE Inductive'
<1>1. Shape BY DEF Inductive, Shape
<1>2. /\ t \in Open /\ (alone => Idle(t)) /\ Begins /\ serial' = serial /\ alone' = alone
      /\ tab' = [tab EXCEPT ![t] = Closed] /\ inbox' = [inbox EXCEPT ![t] = <<>>]
      /\ UNCHANGED <<storage, Server>>
  BY DEF Close, Begins
<1>3. /\ tab'[t] = Closed /\ tab' \in [Tab -> Page] /\ \A u \in Tab \ {t} : tab'[u] = tab[u]
  BY <1>1, <1>2, ClosedIsPage DEF Shape, TypeOK
<1>4. /\ inbox' \in [Tab -> Seq(Mail)] /\ inbox'[t] = <<>> /\ \A u \in Tab \ {t} : inbox'[u] = inbox[u]
  <2>1. inbox \in [Tab -> Seq(Mail)] BY <1>1 DEF Shape, TypeOK, Mail
  <2>2. <<>> \in Seq(Mail) OBVIOUS
  <2> QED BY <1>2, <2>1, <2>2
<1>5. /\ Closed.status = "closed" /\ Closed.boot = "no" /\ Closed.enters = {} /\ Closed.route = "off"
      /\ Closed.refreshing = NoRefresh /\ Closed.active = None
      /\ NoRefresh.step = "no"
  BY DEF Closed, NoRefresh
<1>6. Open' = Open \ {t} BY <1>3, <1>5 DEF Open
<1>7. TypeOK'
  <2>1. begun' \in 0 .. MaxCalls BY <1>1, <1>2, BeginsFacts
  <2> QED BY <1>1, <1>2, <1>3, <1>4, <2>1 DEF Shape, TypeOK, Server, Mail
<1>8. \A u \in Tab : Waits(u)'
  <2>1. Waits(t)' BY <1>3, <1>4, <1>5, ClosedAsks DEF Waits
  <2>2. \A u \in Tab \ {t} : Waits(u)' BY <1>1, <1>3, <1>4 DEF Shape, Waits
  <2> QED BY <2>1, <2>2
<1>9. ASSUME alone PROVE AloneInv'
  <2>1. AloneInv /\ Holds(t) /\ Open = {t} /\ Idle(t) BY <1>2, <1>9 DEF Inductive, AloneInv
  <2>2. storage.refresh \in live \cup {0} BY <2>1, IdleFacts DEF Holds
  <2>3. NoMail' BY <1>4, <2>1 DEF AloneInv, NoMail
  <2> QED BY <1>2, <1>6, <2>1, <2>2, <2>3 DEF AloneInv, Server
<1>10. ASSUME serial PROVE SerialInv'
  <2>1. SerialInv BY <1>10 DEF Inductive
  <2>2. PICK n \in Token : Agreed(n) BY <2>1 DEF SerialInv
  <2>3. NoMail /\ \A u \in Tab : Idle(u) BY <1>1, <1>2, <1>10, BeginsFacts
  <2>4. NoMail' /\ \A u \in Tab : Idle(u)' BY <1>3, <1>4, <1>5, <2>3 DEF NoMail, Idle
  <2>5. \A u \in Open' : Knows(u, n)'
    <3>1. ASSUME NEW u \in Open' PROVE Knows(u, n)'
      <4>1. u \in Open /\ u \in Tab \ {t} BY <1>6 DEF Open
      <4>2. Knows(u, n) BY <2>2, <4>1 DEF Agreed
      <4> QED BY <1>3, <1>4, <4>1, <4>2 DEF Knows, Idle
    <3> QED BY <3>1
  <2>6. Agreed(n)'
    <3>1. \A u \in Tab : \A i \in 1 .. Len(inbox'[u]) : inbox'[u][i].refresh = n BY <2>4 DEF NoMail
    <3>2. storage'.refresh = n BY <1>2, <2>2, <2>3 DEF Agreed
    <3>3. \A u \in Tab : tab'[u].enters = {} /\ tab'[u].boot \in {"no", "refresh"} BY <2>4 DEF Idle
    <3> QED BY <2>5, <3>1, <3>2, <3>3 DEF Agreed
  <2>7. \A u \in Tab : RefreshesAlone(u)' BY <1>5, <2>4 DEF RefreshesAlone, Idle
  <2> QED BY <2>6, <2>7 DEF SerialInv
<1>11. ASSUME serial /\ alone PROVE \A u \in Tab : Scoped(u)'
  <2>1. Scoped(t)' BY <1>3, <1>5 DEF Scoped
  <2>2. \A u \in Tab \ {t} : Scoped(u)' BY <1>3, <1>11 DEF Inductive, Scoped
  <2> QED BY <2>1, <2>2
<1> QED BY <1>2, <1>7, <1>8, <1>9, <1>10, <1>11 DEF Inductive

LEMMA UnauthorizedHolds ==
  ASSUME Parameters, Inductive, NEW t \in Tab, NEW lost \in BOOLEAN, Unauthorized(t, lost)
  PROVE  Inductive'
<1>1. Shape BY DEF Inductive, Shape
<1>2. PICK d : LET c == tab[t] IN
         /\ Becomes(t, d) /\ Sound(d) /\ t \in Open
         /\ d.status = c.status /\ d.refresh = c.refresh /\ d.active = c.active /\ d.claim = c.claim
         /\ d.boot = c.boot /\ d.enters = c.enters /\ c.status = "authed"
         /\ c.refresh # 0 /\ c.refreshing = NoRefresh
         /\ d.refreshing.step = "asked" /\ d.refreshing.kept = c.active
         /\ d.refreshing.got = 0 \/ (d.refreshing.got \in live' /\ d.refreshing.got # d.refresh)
         /\ live' \subseteq 1 .. issued' /\ issued' \in Token /\ member' = member
         /\ killed' \in BOOLEAN /\ (d.refresh \in live => killed' = killed)
  BY <1>1, UnauthorizedStep
<1>3. /\ UNCHANGED <<storage, inbox>> /\ Begins /\ serial' = serial /\ alone' = alone
      /\ NoRefresh.step = "no"
  BY DEF Unauthorized, Begins, NoRefresh
<1>4. Shape'
  <2>1. /\ member' \subseteq Workspace /\ begun' \in 0 .. MaxCalls
        /\ storage' \in [refresh : Token, last : Scope] /\ inbox' \in [Tab -> Seq(Mail)]
    BY <1>1, <1>2, <1>3, BeginsFacts DEF Shape, TypeOK, Mail
  <2> QED BY <1>1, <1>2, <1>3, <2>1, ShapeTurn
<1>5. ASSUME alone PROVE AloneInv'
  <2>1. AloneInv /\ Holds(t) /\ Open \subseteq {t} BY <1>2, <1>5 DEF Inductive, AloneInv, Open
  <2>2. ~killed' /\ storage'.refresh = d.refresh BY <1>2, <1>3, <2>1 DEF AloneInv, Holds
  <2> QED BY <1>1, <1>2, <1>3, <2>1, <2>2, AloneTurn
<1>6. ASSUME serial PROVE SerialInv'
  <2>1. SerialInv BY <1>6 DEF Inductive
  <2>2. PICK n \in Token : Agreed(n) BY <2>1 DEF SerialInv
  <2>3. NoMail /\ NoMail' /\ \A u \in Tab : Idle(u) BY <1>1, <1>3, <1>6, BeginsFacts DEF NoMail
  <2>4. d.refresh = n /\ n # 0 BY <1>2, <2>2, <2>3 DEF Agreed, Knows, NoMail
  <2>5. \A u \in Tab : RefreshesAlone(u)'
    <3>1. d.enters = {} /\ d.boot = "no" BY <1>2, <2>3 DEF Idle
    <3>2. \A u \in Tab : tab[u].refreshing.step # "asked" BY <2>3, IdleFacts
    <3> QED BY <1>1, <1>2, <2>1, <2>3, <3>1, <3>2, ApartTurn DEF SerialInv
  <2>6. storage'.refresh = n BY <1>3, <2>2, <2>3 DEF Agreed
  <2> QED BY <1>1, <1>2, <1>3, <2>2, <2>4, <2>5, <2>6, MailKept, SameToken
<1>7. ASSUME serial /\ alone PROVE \A u \in Tab : Scoped(u)'
  <2>1. \A u \in Tab : Scoped(u) BY <1>7 DEF Inductive
  <2>2. d.active \in {None, d.claim} BY <1>2, <1>3, <2>1 DEF Scoped
  <2> QED BY <1>1, <1>2, <2>1, <2>2, ScopedTurn
<1> QED BY <1>3, <1>4, <1>5, <1>6, <1>7 DEF Inductive, Shape

LEMMA NavigateHolds ==
  ASSUME Parameters, Inductive, NEW t \in Tab, NEW w \in Scope, Moves(t, w)
  PROVE  Inductive'
<1>1. Shape BY DEF Inductive, Shape
<1>2. PICK d : /\ Becomes(t, d) /\ Sound(d) /\ Same(tab[t], d) /\ t \in Open
               /\ tab[t].status = "authed"
               /\ (\E e \in tab[t].enters : e.by = "refresh") => \E e \in d.enters : e.by = "refresh"
  BY <1>1, NavigateStep
<1>3. /\ UNCHANGED <<storage, inbox, Server>> /\ Begins /\ serial' = serial /\ alone' = alone
  BY DEF Moves, Navigate, Leave, Switch, Begins
<1>4. Shape'
  <2>1. storage' \in [refresh : Token, last : Scope] BY <1>1, <1>3 DEF Shape, TypeOK
  <2> QED BY <1>1, <1>2, <1>3, <2>1, QuietTurn
<1>5. ASSUME alone PROVE AloneInv'
  <2>1. AloneInv /\ Holds(t) /\ Open \subseteq {t} BY <1>2, <1>5 DEF Inductive, AloneInv, Open
  <2>2. storage'.refresh = d.refresh BY <1>2, <1>3, <2>1 DEF Holds, Same
  <2> QED BY <1>1, <1>2, <1>3, <2>1, <2>2, AloneTurn DEF AloneInv, Holds, Server, Same
<1>6. ASSUME serial PROVE SerialInv'
  <2>1. SerialInv BY <1>6 DEF Inductive
  <2>2. PICK n \in Token : Agreed(n) BY <2>1 DEF SerialInv
  <2>3. NoMail /\ \A u \in Tab : Idle(u) BY <1>1, <1>3, <1>6, BeginsFacts
  <2>4. d.refresh = n /\ n # 0 /\ d.status = "authed"
    BY <1>2, <2>2, <2>3 DEF Agreed, Knows, NoMail, Same
  <2>5. \A u \in Tab : tab[u].refreshing.step # "asked" BY <2>3, IdleFacts
  <2>6. d.refreshing.step # "asked" BY <1>2, <2>5 DEF Same
  <2>7. \A u \in Tab : RefreshesAlone(u)' BY <1>1, <1>2, <2>1, <2>5, <2>6, ApartTurn DEF SerialInv
  <2>8. storage'.refresh = n BY <1>3, <2>2, <2>3 DEF Agreed
  <2> QED BY <1>1, <1>2, <1>3, <2>2, <2>4, <2>7, <2>8, MailKept, SameToken
<1>7. ASSUME serial /\ alone PROVE \A u \in Tab : Scoped(u)'
  BY <1>1, <1>2, <1>7, ScopedTurn DEF Inductive, Scoped, Same
<1> QED BY <1>3, <1>4, <1>5, <1>6, <1>7 DEF Inductive, Shape

LEMMA LoginHolds == ASSUME Parameters, Inductive, NEW t \in Tab, Login(t) PROVE Inductive'
<1>1. Shape BY DEF Inductive, Shape
<1>2. PICK d : LET c == tab[t] IN
         /\ Keep(t, d) /\ Sound(d) /\ t \in Open /\ Tells(t, d) /\ c.status = "anon"
         /\ d.refresh = issued' /\ d.refresh \in Token \ {0} /\ d.claim = None /\ d.status = "authed"
         /\ d.active = c.active /\ d.boot = c.boot /\ d.refreshing = c.refreshing /\ d.enters = c.enters
         /\ issued' = issued + 1 /\ live' = live \cup {issued'} /\ live' \subseteq 1 .. issued'
         /\ issued \in Nat
  BY <1>1, LoginStep
<1>3. Becomes(t, d) /\ storage'.refresh = d.refresh /\ storage' \in [refresh : Token, last : Scope]
  BY <1>1, <1>2, KeepFacts DEF Sound
<1>4. /\ Begins /\ serial' = serial /\ alone' = alone /\ killed' = killed /\ member' = member
      /\ NoRefresh.step = "no"
  BY DEF Login, Begins, NoRefresh
<1>5. /\ inbox' \in [Tab -> Seq(Mail)]
      /\ \A u \in Tab : u \notin Open \ {t} => inbox'[u] = inbox[u]
  BY <1>1, <1>2, TellsFacts DEF Scope
<1>6. Shape'
  <2>1. /\ issued' \in Token /\ member' \subseteq Workspace /\ killed' \in BOOLEAN /\ begun' \in 0 .. MaxCalls
    BY <1>1, <1>2, <1>4, BeginsFacts DEF Shape, TypeOK
  <2>2. \A u \in Tab \ {t} : u \notin Open => inbox'[u] = inbox[u] BY <1>5
  <2> QED BY <1>1, <1>2, <1>3, <1>4, <1>5, <2>1, <2>2, ShapeTurn
<1>7. ASSUME alone PROVE AloneInv'
  <2>1. AloneInv /\ Holds(t) /\ Open \subseteq {t} BY <1>2, <1>7 DEF Inductive, AloneInv, Open
  <2>2. d.refreshing.step = "asked" =>
             d.refreshing.got = 0 \/ (d.refreshing.got \in live' /\ d.refreshing.got # d.refresh)
    <3>1. issued' \notin live BY <1>1, <1>2 DEF Shape, TypeOK
    <3> QED BY <1>2, <2>1, <3>1 DEF Holds
  <2>3. d.refresh \in live' /\ ~killed' BY <1>2, <1>4, <2>1 DEF AloneInv
  <2> QED BY <1>1, <1>2, <1>3, <1>5, <2>1, <2>2, <2>3, AloneTurn
<1>8. ASSUME serial PROVE SerialInv'
  <2>1. NoMail /\ \A u \in Tab : Idle(u) BY <1>1, <1>4, <1>8, BeginsFacts
  <2>2. d.refreshing.step # "asked" BY <1>2, <2>1, IdleFacts
  <2> QED BY <1>1, <1>2, <1>3, <2>1, <2>2, NewToken
<1>9. ASSUME serial /\ alone PROVE \A u \in Tab : Scoped(u)'
  <2>1. d.active = None /\ d.refreshing.step = "no"
    BY <1>1, <1>2, <1>4, <1>9, BeginsFacts, IdleFacts DEF Shape, Waits
  <2> QED BY <1>1, <1>3, <1>9, <2>1, ScopedTurn DEF Inductive
<1> QED BY <1>4, <1>6, <1>7, <1>8, <1>9 DEF Inductive, Shape

LEMMA LogoutHolds == ASSUME Parameters, Inductive, NEW t \in Tab, PerformLogout(t) PROVE Inductive'
<1>1. Shape BY DEF Inductive, Shape
<1>2. PICK d, w : LET c == tab[t] IN
         /\ Keep(t, d) /\ Sound(d) /\ t \in Open /\ Tells(t, w) /\ w.refresh = 0 /\ w.claim = None
         /\ d.refresh = 0 /\ d.status = "anon" /\ d.active = None
         /\ d.boot = c.boot /\ d.refreshing = c.refreshing
         /\ c.enters = {} => d.enters = {}
         /\ (\E e \in c.enters : e.by = "refresh") => \E e \in d.enters : e.by = "refresh"
         /\ live' \in {live, live \ {c.refresh}}
  BY <1>1, LogoutStep
<1>3. Becomes(t, d) /\ storage'.refresh = d.refresh /\ storage' \in [refresh : Token, last : Scope]
  BY <1>1, <1>2, KeepFacts DEF Sound
<1>4. /\ Begins /\ serial' = serial /\ alone' = alone /\ killed' = killed /\ member' = member
      /\ issued' = issued /\ NoRefresh.step = "no" /\ 0 \in Token
  BY DEF PerformLogout, Begins, NoRefresh, Parameters, Token
<1>5. /\ inbox' \in [Tab -> Seq(Mail)]
      /\ \A u \in Tab : u \notin Open \ {t} => inbox'[u] = inbox[u]
  BY <1>1, <1>2, <1>4, TellsFacts DEF Scope
<1>6. Shape'
  <2>1. /\ live' \subseteq 1 .. issued' /\ issued' \in Token /\ member' \subseteq Workspace /\ killed' \in BOOLEAN
        /\ begun' \in 0 .. MaxCalls
    BY <1>1, <1>2, <1>4, BeginsFacts DEF Shape, TypeOK
  <2>2. \A u \in Tab \ {t} : u \notin Open => inbox'[u] = inbox[u] BY <1>5
  <2> QED BY <1>1, <1>2, <1>3, <1>4, <1>5, <2>1, <2>2, ShapeTurn
<1>7. ASSUME alone PROVE AloneInv'
  <2>1. AloneInv /\ Holds(t) /\ Open \subseteq {t} BY <1>2, <1>7 DEF Inductive, AloneInv, Open
  <2>2. d.refreshing.step = "asked" =>
             d.refreshing.got = 0 \/ (d.refreshing.got \in live' /\ d.refreshing.got # d.refresh)
    <3>1. 0 \notin live BY <1>1 DEF Shape, TypeOK, Token
    <3> QED BY <1>2, <2>1, <3>1 DEF Holds
  <2>3. d.refresh \in live' \cup {0} /\ ~killed' BY <1>2, <1>4, <2>1 DEF AloneInv
  <2> QED BY <1>1, <1>2, <1>3, <1>5, <2>1, <2>2, <2>3, AloneTurn
<1>8. ASSUME serial PROVE SerialInv'
  <2>1. NoMail /\ \A u \in Tab : Idle(u) BY <1>1, <1>4, <1>8, BeginsFacts
  <2>2. d.refreshing.step # "asked" /\ d.enters = {} /\ d.boot = "no" BY <1>2, <2>1, IdleFacts
  <2> QED BY <1>1, <1>2, <1>3, <1>4, <2>1, <2>2, NewToken
<1>9. ASSUME serial /\ alone PROVE \A u \in Tab : Scoped(u)'
  <2>1. d.active = None /\ d.refreshing.step = "no"
    BY <1>1, <1>2, <1>4, <1>9, BeginsFacts, IdleFacts
  <2> QED BY <1>1, <1>3, <1>9, <2>1, ScopedTurn DEF Inductive
<1> QED BY <1>4, <1>6, <1>7, <1>8, <1>9 DEF Inductive, Shape

LEMMA RemovedHolds == ASSUME Parameters, Inductive, NEW w \in Workspace, Removed(w) PROVE Inductive'
<1>1. Shape BY DEF Inductive, Shape
<1>2. /\ member' = member \ {w} /\ UNCHANGED <<tab, storage, inbox, live, issued, killed>>
      /\ serial' = serial /\ alone' = alone /\ begun' \in 0 .. MaxCalls
  BY <1>1, BeginsFacts DEF Removed
<1>3. TypeOK' BY <1>1, <1>2 DEF Shape, TypeOK
<1>4. \A u \in Tab : Waits(u)' BY <1>1, <1>2 DEF Shape, Waits
<1>5. Open' = Open /\ NoMail' = NoMail /\ \A u \in Tab : Idle(u)' = Idle(u) BY <1>2 DEF Open, NoMail, Idle
<1>6. alone => AloneInv' BY <1>2, <1>5 DEF Inductive, AloneInv, Holds
<1>7. ASSUME serial PROVE SerialInv'
  <2>1. SerialInv BY <1>7 DEF Inductive
  <2>2. PICK n \in Token : Agreed(n) BY <2>1 DEF SerialInv
  <2>3. \A u \in Open : Knows(u, n)' BY <1>2, <1>5, <2>2 DEF Agreed, Knows, Open
  <2>4. Agreed(n)' BY <1>2, <1>5, <2>2, <2>3 DEF Agreed
  <2>5. \A u \in Tab : RefreshesAlone(u)' BY <1>2, <1>5, <2>1 DEF SerialInv, RefreshesAlone
  <2> QED BY <2>4, <2>5 DEF SerialInv
<1>8. serial /\ alone => \A u \in Tab : Scoped(u)' BY <1>2 DEF Inductive, Scoped
<1> QED BY <1>2, <1>3, <1>4, <1>6, <1>7, <1>8 DEF Inductive

LEMMA NextHolds == ASSUME Parameters, Inductive, Next PROVE Inductive'
<1>1. ASSUME NEW t \in Tab, Answer(t) PROVE Inductive'
  BY <1>1, RefreshHolds, BootEndHolds, EnterHolds DEF Answer
<1>2. ASSUME NEW t \in Tab, Receive(t) \/ DropToLauncher(t) \/ Close(t) \/ Login(t) \/ PerformLogout(t)
      PROVE  Inductive'
  BY <1>2, ReceiveHolds, DropHolds, CloseHolds, LoginHolds, LogoutHolds
<1>3. ASSUME NEW t \in Tab, NEW lost \in BOOLEAN, Unauthorized(t, lost) PROVE Inductive'
  BY <1>3, UnauthorizedHolds
<1>4. ASSUME NEW t \in Tab, NEW w \in Scope, Boot(t, w) PROVE Inductive'
  BY <1>4, BootHolds
<1>5. ASSUME NEW t \in Tab, NEW w \in Scope, Moves(t, w) PROVE Inductive'
  BY <1>5, NavigateHolds
<1>6. ASSUME NEW w \in Workspace, Removed(w) PROVE Inductive' BY <1>6, RemovedHolds
<1>7. None \in Scope /\ Workspace \subseteq Scope BY DEF Scope
<1> QED BY <1>1, <1>2, <1>3, <1>4, <1>5, <1>6, <1>7 DEF Next, Moves

LEMMA StutterHolds == ASSUME Inductive, UNCHANGED vars PROVE Inductive'
<1>1. /\ UNCHANGED <<tab, storage, inbox, live, issued, member, killed, begun, serial, alone>> BY DEF vars
<1>2. TypeOK' /\ \A u \in Tab : Waits(u)' BY <1>1 DEF Inductive, TypeOK, Waits
<1>3. Open' = Open /\ NoMail' = NoMail /\ \A u \in Tab : Idle(u)' = Idle(u) BY <1>1 DEF Open, NoMail, Idle
<1>4. alone => AloneInv' BY <1>1, <1>3 DEF Inductive, AloneInv, Holds
<1>5. ASSUME serial PROVE SerialInv'
  <2>1. SerialInv BY <1>5 DEF Inductive
  <2>2. PICK n \in Token : Agreed(n) BY <2>1 DEF SerialInv
  <2>3. \A u \in Open : Knows(u, n)' BY <1>1, <1>3, <2>2 DEF Agreed, Knows, Open
  <2>4. Agreed(n)' BY <1>1, <1>3, <2>2, <2>3 DEF Agreed
  <2>5. \A u \in Tab : RefreshesAlone(u)' BY <1>1, <1>3, <2>1 DEF SerialInv, RefreshesAlone
  <2> QED BY <2>4, <2>5 DEF SerialInv
<1>6. serial /\ alone => \A u \in Tab : Scoped(u)' BY <1>1 DEF Inductive, Scoped
<1> QED BY <1>1, <1>2, <1>4, <1>5, <1>6 DEF Inductive

LEMMA InitHolds == ASSUME Parameters, Init PROVE Inductive
<1>1. /\ tab = [t \in Tab |-> Closed] /\ storage = [refresh |-> 0, last |-> None]
      /\ inbox = [t \in Tab |-> <<>>] /\ live = {} /\ issued = 0 /\ member = Workspace
      /\ killed = FALSE /\ begun = 0 /\ serial \in BOOLEAN /\ alone \in BOOLEAN
  BY DEF Init
<1>2. 0 \in Token /\ 0 \in 0 .. MaxCalls /\ None \in Scope BY DEF Parameters, Token, Scope
<1>3. TypeOK
  <2>1. <<>> \in Seq([refresh : Token, claim : Scope]) OBVIOUS
  <2>2. inbox \in [Tab -> Seq([refresh : Token, claim : Scope])] BY <1>1, <2>1
  <2>3. tab \in [Tab -> Page] BY <1>1, ClosedIsPage
  <2> QED BY <1>1, <1>2, <2>2, <2>3 DEF TypeOK
<1>4. \A t \in Tab : tab[t] = Closed /\ inbox[t] = <<>> BY <1>1
<1>5. /\ Closed.status = "closed" /\ Closed.boot = "no" /\ Closed.enters = {} /\ Closed.route = "off"
      /\ Closed.refreshing = NoRefresh /\ Closed.active = None
      /\ NoRefresh.step = "no"
  BY DEF Closed, NoRefresh
<1>6. Open = {} /\ NoMail BY <1>4, <1>5 DEF Open, NoMail
<1>7. \A t \in Tab : Waits(t) BY <1>4, <1>5, ClosedAsks DEF Waits
<1>8. AloneInv BY <1>1, <1>6 DEF AloneInv
<1>9. SerialInv
  <2>1. \A t \in Tab : Len(inbox[t]) = 0 BY <1>4
  <2>2. \A t \in Tab : \A i \in 1 .. Len(inbox[t]) : inbox[t][i].refresh = 0 BY <2>1
  <2>3. Agreed(0) BY <1>1, <1>4, <1>5, <1>6, <2>2 DEF Agreed
  <2> QED BY <1>2, <1>4, <1>5, <2>3 DEF SerialInv, RefreshesAlone
<1>10. \A t \in Tab : Scoped(t) BY <1>4, <1>5 DEF Scoped
<1> QED BY <1>3, <1>7, <1>8, <1>9, <1>10 DEF Inductive

LEMMA InductiveHolds == ASSUME Parameters PROVE Spec => []Inductive
<1>1. Init => Inductive BY InitHolds
<1>2. Inductive /\ [Next]_vars => Inductive' BY NextHolds, StutterHolds
<1> QED BY <1>1, <1>2, PTL DEF Spec
-----------------------------------------------------------------------------
(***************************************************************************)
(* The theorems.                                                           *)
(***************************************************************************)

\* The state has its type whatever tabs do (TypeOK).
THEOREM TypeCorrect == ASSUME Parameters PROVE Spec => []TypeOK
<1>1. Inductive => TypeOK BY DEF Inductive
<1> QED BY <1>1, InductiveHolds, PTL

\* Of calls one after another, all tabs hold the stored token once their mail is
\* read, and are signed in exactly when there is one (TabsAgree; tabSync.ts:2).
THEOREM TabsAlwaysAgree == ASSUME Parameters PROVE Spec => []TabsAgree
<1>1. Inductive => TabsAgree
  <2>1. SUFFICES ASSUME Inductive, serial, Quiet, NEW t \in Open
                 PROVE  tab[t].refresh = storage.refresh /\ (tab[t].status = "authed" <=> storage.refresh # 0)
    BY DEF TabsAgree
  <2>2. t \in Tab /\ NoMail /\ Idle(t) BY <2>1 DEF Open, Quiet, NoMail
  <2>3. PICK n \in Token : Agreed(n) BY <2>1 DEF Inductive, SerialInv
  <2>4. tab[t].refresh = n /\ tab[t].status \in (IF n = 0 THEN {"anon"} ELSE {"authed", "loading"})
    BY <2>2, <2>3 DEF Agreed, Knows, NoMail
  <2>5. storage.refresh = n BY <2>2, <2>3 DEF Agreed
  <2>6. tab[t].status # "loading" BY <2>1, <2>2 DEF Inductive, Waits, Idle
  <2> QED BY <2>4, <2>5, <2>6
<1> QED BY <1>1, InductiveHolds, PTL

\* A tab alone never presents a refresh token twice, even as answers of its
\* refreshes are lost (AloneNeverReused; http.ts:83).
THEOREM TokensNotReused == ASSUME Parameters PROVE Spec => []AloneNeverReused
<1>1. Inductive => AloneNeverReused BY DEF Inductive, AloneInv, AloneNeverReused
<1> QED BY <1>1, InductiveHolds, PTL

\* The active workspace of a tab at rest is the one its access token is scoped
\* to, of calls one after another in one tab (ScopeMirrorsToken; authStore.ts:15).
THEOREM ScopeFollowsToken == ASSUME Parameters PROVE Spec => []ScopeMirrorsToken
<1>1. Inductive => ScopeMirrorsToken
  <2>1. SUFFICES ASSUME Inductive, serial, alone, NEW t \in Open, Idle(t), tab[t].active # None
                 PROVE  tab[t].claim = tab[t].active
    BY DEF ScopeMirrorsToken
  <2>2. t \in Tab BY DEF Open
  <2>3. Scoped(t) /\ tab[t].refreshing.step = "no" BY <2>1, <2>2, IdleFacts DEF Inductive
  <2> QED BY <2>1, <2>3 DEF Scoped
<1> QED BY <1>1, InductiveHolds, PTL

\* No page is left on the loader, nor the route of a workspace, with nothing on
\* its way to end it, unless the page moved on while the route was entering
\* another (BootEnds, RouteSettles; http.ts:139, WorkspaceScopeRoute.tsx:28, 40).
THEOREM NobodyIsStuck == ASSUME Parameters PROVE Spec => [](BootEnds /\ RouteSettles)
<1>1. ASSUME Inductive, NEW t \in Tab, Idle(t)
      PROVE  tab[t].status # "loading" /\ (ShowsLoader(tab[t]) => tab[t].strayed)
  BY <1>1 DEF Inductive, Waits, Idle, Asking
<1>2. Inductive => BootEnds /\ RouteSettles BY <1>1 DEF BootEnds, RouteSettles
<1> QED BY <1>2, InductiveHolds, PTL
=============================================================================
