------------------------------ MODULE JoinFlow ------------------------------
(***************************************************************************)
(* One user on the way into the organisation and into one workspace of it: *)
(* the gate that asks to join the organisation, the page that finds        *)
(* workspaces, the requests both make and the polls by which they learn    *)
(* what an admin decided.  The admins' calls are single steps here (module *)
(* Membership has their parts); they act at any time.                      *)
(*                                                                         *)
(* A request is [id, state]; requests are kept in the order they were made *)
(* (the server lists them the other way round).                            *)
(***************************************************************************)
EXTENDS Naturals, Sequences

CONSTANTS
  MaxRequests,    \* bound on the requests for the workspace
  MaxOrg,         \* bound on the requests for the organisation
  MaxRemovals,    \* bound on removals and on direct additions by an admin
  MaxFailures     \* bound on queries that fail for good

VARIABLES
  inRealm, member,      \* the user's rows of realm_members and workspace_members
  asked, made,          \* the user's join_requests for the workspace, how many ever
  orgRequest,           \* the state of the user's org_join_requests row, or "none"
  public, gated,        \* the workspace's visibility; joinRequestsEnabled
  where,                \* the page shown
  known,                \* what the page's queries last answered
  query,                \* the queries: [step, got], got once the server has read
  asking, entering,     \* the mutations in flight: [op, step], and entering's step
  optimistic,           \* optimisticRequests holds the workspace
  mine, entered,        \* the requests made on this visit; enteredWorkspaces
  orgAsked, removals, failures

rows    == <<inRealm, member, asked, made, orgRequest>>
world   == <<public, gated>>
flags   == <<optimistic, mine, entered>>
counts  == <<orgAsked, removals, failures>>
vars    == <<rows, world, where, known, query, asking, entering, flags, counts>>

State   == {"PENDING", "APPROVED", "REJECTED"}
Id      == 1 .. MaxRequests
Key     == {"requests", "org", "realm"}
Sent    == {"idle", "sent", "done", "refused"}

Listed(rs) == Len(rs) <= MaxRequests /\ \A i \in DOMAIN rs : rs[i] \in [id : Id, state : State]

TypeOK ==
  /\ {inRealm, member, public, gated, optimistic, known.realm} \subseteq BOOLEAN
  /\ Listed(asked) /\ Listed(known.requests) /\ made \in 0 .. MaxRequests
  /\ {orgRequest, known.org} \subseteq State \cup {"none"}
  /\ where \in {"gate", "launcher", "access", "workspace"}
  /\ \A k \in Key : query[k].step \in {"idle", "due", "read"}
  /\ asking \in [op : {"join", "ask", "askOrg"}, step : Sent] /\ entering \in Sent
  /\ mine \subseteq Id /\ entered \subseteq Id

Now == [requests |-> asked, org |-> orgRequest, realm |-> inRealm]
Rest == [k \in Key |-> [step |-> "idle", got |-> Now[k]]]
Start == IF ~inRealm /\ gated THEN "gate" ELSE "launcher"

\* The user signs in: perhaps once a member, with an old request decided.
Init ==
  /\ inRealm \in BOOLEAN /\ member = FALSE
  /\ asked \in {<<>>} \cup {<<[id |-> 1, state |-> s]>> : s \in {"APPROVED", "REJECTED"}}
  /\ made = Len(asked)
  /\ orgRequest = "none"
  /\ public \in BOOLEAN /\ gated \in BOOLEAN
  /\ where = Start /\ known = Now /\ query = Rest
  /\ asking = [op |-> "ask", step |-> "idle"] /\ entering = "idle"
  /\ optimistic = FALSE /\ mine = {} /\ entered = {}
  /\ orgAsked = 0 /\ removals = 0 /\ failures = 0
-----------------------------------------------------------------------------
(***************************************************************************)
(* The admins, and the bound on how often they intervene.                  *)
(***************************************************************************)
client == <<where, known, query, asking, entering, flags>>

\* An admin takes longer to decide than the answer to the request takes to come.
Decide(i, to) ==
  /\ asked[i].state = "PENDING" /\ asking.step = "idle"
  /\ asked' = [asked EXCEPT ![i].state = to]
  /\ member' = (member \/ to = "APPROVED")
  /\ inRealm' = (inRealm \/ to = "APPROVED")
  /\ UNCHANGED <<made, orgRequest, world, client, counts>>

DecideOrg(to) ==
  /\ orgRequest = "PENDING"
  /\ orgRequest' = to
  /\ inRealm' = (inRealm \/ to = "APPROVED")
  /\ UNCHANGED <<member, asked, made, world, client, counts>>

\* Removed from the realm the user loses the workspace and what is pending there.
Remove(fromRealm) ==
  /\ removals < MaxRemovals
  /\ IF fromRealm THEN inRealm ELSE member
  /\ member' = FALSE
  /\ inRealm' = (inRealm /\ ~fromRealm)
  /\ asked' = IF fromRealm THEN SelectSeq(asked, LAMBDA r : r.state # "PENDING") ELSE asked
  /\ removals' = removals + 1
  /\ UNCHANGED <<made, orgRequest, world, client, orgAsked, failures>>

\* Added directly, by a maintainer or by an admin of the workspace.
AddDirectly ==
  /\ removals < MaxRemovals
  /\ inRealm' = TRUE /\ member' \in {member, TRUE}
  /\ ~(inRealm /\ member' = member)
  /\ removals' = removals + 1
  /\ UNCHANGED <<asked, made, orgRequest, world, client, orgAsked, failures>>
-----------------------------------------------------------------------------
(***************************************************************************)
(* Queries, and the calls as the server serves them.                       *)
(***************************************************************************)

Invalidate(q, ks) == [k \in Key |-> IF k \in ks THEN [q[k] EXCEPT !.step = "due"] ELSE q[k]]
Quiet(k) == [query EXCEPT ![k] = Rest[k]]

\* The poll's timer runs while the cached answer holds something pending.
\* (Mutation: it goes by the oldest request.)
PendingOldest(k) ==
  IF k = "requests" THEN known.requests # <<>> /\ known.requests[1].state = "PENDING"
  ELSE k = "org" /\ known.org = "PENDING"
Pending(k) ==
  IF k = "requests" THEN \E i \in DOMAIN known.requests : known.requests[i].state = "PENDING"
  ELSE k = "org" /\ known.org = "PENDING"

Poll(k) ==
  /\ Pending(k) /\ query[k].step = "idle"
  /\ where = (IF k = "org" THEN "gate" ELSE "access")
  /\ query' = Invalidate(query, {k})
  /\ UNCHANGED <<rows, world, where, known, asking, entering, flags, counts>>

Read(k) ==
  /\ query[k].step = "due"
  /\ query' = [query EXCEPT ![k] = [step |-> "read", got |-> Now[k]]]
  /\ UNCHANGED <<rows, world, where, known, asking, entering, flags, counts>>

Fail(k) ==
  /\ failures < MaxFailures /\ query[k].step = "due"
  /\ query' = Quiet(k)
  /\ failures' = failures + 1
  /\ UNCHANGED <<rows, world, where, known, asking, entering, flags, orgAsked, removals>>

\* join, requestJoin of the workspace and requestJoin of the organisation.
Allowed(op) ==
  CASE op = "join" -> public /\ ~member
    [] op = "ask" -> ~public /\ ~member /\ \A i \in DOMAIN asked : asked[i].state # "PENDING"
    [] op = "askOrg" -> gated /\ ~inRealm /\ orgRequest # "PENDING"

ServeAsking ==
  /\ asking.step = "sent"
  /\ IF Allowed(asking.op)
     THEN /\ member' = (member \/ asking.op = "join")
          /\ inRealm' = (inRealm \/ asking.op = "join")
          /\ IF asking.op = "ask"
             THEN made' = made + 1 /\ asked' = Append(asked, [id |-> made', state |-> "PENDING"])
             ELSE UNCHANGED <<made, asked>>
          /\ orgRequest' = IF asking.op = "askOrg" THEN "PENDING" ELSE orgRequest
          /\ asking' = [asking EXCEPT !.step = "done"]
     ELSE asking' = [asking EXCEPT !.step = "refused"] /\ UNCHANGED rows
  /\ UNCHANGED <<world, where, known, query, entering, flags, counts>>

ServeEntering ==
  /\ entering = "sent"
  /\ entering' = IF member \/ (public /\ inRealm) THEN "done" ELSE "refused"
  /\ UNCHANGED <<rows, world, where, known, query, asking, flags, counts>>

Ask(op) ==
  /\ asking.step = "idle" /\ asking' = [op |-> op, step |-> "sent"]
  /\ UNCHANGED <<rows, world, where, known, query, entering, flags, removals, failures>>
-----------------------------------------------------------------------------
(***************************************************************************)
(* The gate: it renders instead of the app for a signed-in non-member.     *)
(***************************************************************************)

AskOrg ==
  /\ where = "gate" /\ known.org # "PENDING" /\ orgAsked < MaxOrg
  /\ orgAsked' = orgAsked + 1
  /\ Ask("askOrg")

\* An approval is news: the realm is fetched again.
OrgArrives ==
  LET got == query["org"].got IN
  /\ query["org"].step = "read"
  /\ known' = [known EXCEPT !.org = got]
  /\ query' = Invalidate(Quiet("org"),
                IF where = "gate" /\ got = "APPROVED" /\ known.org # got THEN {"realm"} ELSE {})
  /\ UNCHANGED <<rows, world, where, asking, entering, flags, counts>>

\* MembershipGate goes by the realm role it knows.
RealmArrives ==
  LET got == query["realm"].got IN
  /\ query["realm"].step = "read"
  /\ known' = [known EXCEPT !.realm = got]
  /\ query' = Quiet("realm")
  /\ where' = IF where = "gate" /\ got THEN "launcher" ELSE where
  /\ UNCHANGED <<rows, world, asking, entering, flags, counts>>
-----------------------------------------------------------------------------
(***************************************************************************)
(* The page that finds workspaces.                                         *)
(***************************************************************************)

\* requestStateByWorkspace: the newest request counts.
RequestState(rs) == IF rs = <<>> THEN "none" ELSE rs[Len(rs)].state

\* The server speaks for the workspace: the flag goes.
Settles(rs) == RequestState(rs) # "none"

Awaiting == RequestState(known.requests) = "PENDING" \/ optimistic

\* The page is mounted: its flags start over, its list may be stale.
OpenAccess ==
  /\ where = "launcher" /\ where' = "access"
  /\ optimistic' = FALSE /\ mine' = {} /\ entered' = {}
  /\ \E stale \in BOOLEAN : query' = Invalidate(query, IF stale THEN {"requests"} ELSE {})
  /\ UNCHANGED <<rows, world, known, asking, entering, counts>>

Leave ==
  /\ where \in {"access", "workspace"} /\ where' = "launcher"
  /\ UNCHANGED <<rows, world, known, query, asking, entering, flags, counts>>

Join    == where = "access" /\ public /\ Ask("join") /\ UNCHANGED orgAsked
Request ==
  /\ where = "access" /\ ~public /\ ~Awaiting /\ made < MaxRequests
  /\ Ask("ask") /\ UNCHANGED orgAsked

\* What the effect looks for: an approval not yet entered, of a workspace asked
\* for on this visit; the newest.
Approvals(rs) ==
  {i \in DOMAIN rs : mine # {} /\ rs[i].state = "APPROVED" /\ rs[i].id \notin entered}
Newest(is) == CHOOSE i \in is : \A j \in is : j <= i

\* myRequests arrives; the effects run when it differs from what was known.
RequestsArrive ==
  LET got  == query["requests"].got
      news == where = "access" /\ got # known.requests
  IN
  /\ query["requests"].step = "read"
  /\ query' = Quiet("requests")
  /\ known' = [known EXCEPT !.requests = got]
  /\ optimistic' = (optimistic /\ ~(news /\ Settles(got)))
  /\ IF news /\ Approvals(got) # {}
     THEN entered' = entered \cup {got[Newest(Approvals(got))].id} /\ entering' = "sent"
     ELSE UNCHANGED <<entered, entering>>
  /\ UNCHANGED <<rows, world, where, asking, mine, counts>>

\* What was asked is answered; the page's own callback runs while it is mounted.
AskingAnswered ==
  /\ asking.step \in {"done", "refused"}
  /\ asking' = [asking EXCEPT !.step = "idle"]
  /\ query' = IF asking.step = "refused" THEN query
              ELSE Invalidate(query, CASE asking.op = "ask" -> {"requests"}
                                       [] asking.op = "askOrg" -> {"org"} [] OTHER -> {})
  /\ entering' = IF asking = [op |-> "join", step |-> "done"] THEN "sent" ELSE entering
  /\ IF where = "access" /\ asking = [op |-> "ask", step |-> "done"]
     THEN optimistic' = TRUE /\ mine' = mine \cup {made}
     ELSE UNCHANGED <<optimistic, mine>>
  /\ UNCHANGED <<rows, world, where, known, entered, counts>>

\* Entering ends in the workspace, or, refused, at the launcher.
Entered ==
  /\ entering \in {"done", "refused"} /\ entering' = "idle"
  /\ where' = IF entering = "done" THEN "workspace" ELSE "launcher"
  /\ UNCHANGED <<rows, world, known, query, asking, flags, counts>>

Next ==
  \/ \E i \in DOMAIN asked : Decide(i, "APPROVED") \/ Decide(i, "REJECTED")
  \/ DecideOrg("APPROVED") \/ DecideOrg("REJECTED")
  \/ Remove(TRUE) \/ Remove(FALSE) \/ AddDirectly
  \/ \E k \in Key : Read(k) \/ Poll(k) \/ Fail(k)
  \/ ServeAsking \/ ServeEntering \/ AskOrg \/ OrgArrives \/ RealmArrives
  \/ OpenAccess \/ Leave \/ Join \/ Request \/ RequestsArrive \/ AskingAnswered \/ Entered

\* The timers fire, queries and calls are answered; nobody has to click or decide.
Fetching(k) == Read(k) \/ Poll(k)
Arriving(k) ==
  CASE k = "org" -> OrgArrives [] k = "realm" -> RealmArrives [] k = "requests" -> RequestsArrive
Entering    == ServeEntering \/ Entered
Answering   == ServeAsking \/ AskingAnswered
Fairness ==
  /\ \A k \in Key : WF_vars(Fetching(k)) /\ WF_vars(Arriving(k))
  /\ WF_vars(Answering) /\ WF_vars(Entering)
Spec == Init /\ [][Next]_vars /\ Fairness
-----------------------------------------------------------------------------
(***************************************************************************)
(* Properties.                                                             *)
(***************************************************************************)

\* With nothing in flight, no query failed and nobody removed, the row reads "Awaiting approval"
\* only if the user's newest request, as last heard, is pending: the optimistic
\* flag never outlives what the server says (RequestAccessPage.tsx:89).
AwaitingIsTrue ==
  failures + removals = 0 /\ where = "access" /\ query["requests"].step = "idle" /\ asking.step = "idle" =>
    (Awaiting => RequestState(known.requests) = "PENDING")

\* What an admin approves reaches the page as long as no query fails: a request
\* made on this visit takes the user off it, without a reload and whatever older
\* requests the list holds (queries.ts:52 "picked up without a manual
\* refresh"), and nobody who was let in stays at the organisation's gate, but
\* for one removed again (OrgJoinGate.tsx:36, queries.ts:85).
Unseen == {i \in DOMAIN asked : asked[i].state = "APPROVED" /\ asked[i].id \in mine \ entered}
Overlooked ==
  /\ failures = 0
  /\ \/ where = "access" /\ Unseen # {}
     \/ where = "gate" /\ inRealm /\ orgRequest = "APPROVED" /\ removals = 0
ApprovalArrives == Overlooked ~> ~Overlooked

\* What the page announces and enters was asked for on this visit
\* (RequestAccessPage.tsx:99 "Auto-enter only workspaces requested in this
\* session"): an approval from before the user was removed is not.
AnnouncedIsThisSession == entered \subseteq mine
=============================================================================
