----------------------------- MODULE AdminLists -----------------------------
(***************************************************************************)
(* The lists an administrator works on: the members and the join requests  *)
(* of a workspace (the settings modal), the members, the workspaces and    *)
(* both kinds of requests of the realm (the admin console), and the        *)
(* launcher.  Each is a cached query; each change is a mutation that names *)
(* the queries to fetch again, and the two role selects also write their   *)
(* choice into the cache before the server has answered.                   *)
(*                                                                         *)
(* One client, its calls each one transaction (module Membership has their *)
(* parts); other administrators change the rows under it.                  *)
(***************************************************************************)
EXTENDS Roles, FiniteSets

CONSTANTS
  Person,       \* the people; Me is one of them
  Me,
  Slot,         \* calls that may be in flight at once
  MaxEvents     \* bound on this client's calls, the changes of others, answers
                \* lost and queries that fail or grow old, together

VARIABLES
  realm, member,        \* the roles of the realm and of the workspace
  asks, orgAsks,        \* who has a pending request to join the one, the other
  title,                \* the workspace's name, or "none" once it is deleted
  view,                 \* what is mounted
  shown, query,         \* each list as cached; its query [step, got]
  call,                 \* the calls in flight
  unheard,              \* history: lists changed on the server since they were read,
                        \* by something this client does not follow with a fetch
  events

server == <<realm, member, asks, orgAsks, title>>
vars   == <<server, view, shown, query, call, unheard, events>>

Tried == {"EDIT", "ADMIN"}                    \* of the workspace roles, those tried
Assignable == {"MEMBER", "MAINTAINER"}
Key   == {"realmMembers", "wsMembers", "wsRequests", "realmRequests", "orgRequests", "workspaces"}
View  == {"launcher", "console", "settings"}

\* The queries a view observes; under the key prefix 'workspaces' there are three.
Mounted(v) ==
  CASE v = "settings" -> {"wsMembers", "wsRequests"}
    [] v = "console"  -> {"realmMembers", "realmRequests", "orgRequests", "workspaces"}
    [] v = "launcher" -> {"workspaces"}
Workspaces == {"workspaces", "wsMembers", "wsRequests"}

Now == [realmMembers |-> realm, wsMembers |-> [role |-> member, realmRole |-> realm],
        wsRequests |-> asks, realmRequests |-> asks, orgRequests |-> orgAsks, workspaces |-> title]

Op == {"setWs", "addWs", "removeWs", "approve", "reject", "setRealm", "addRealm", "removeRealm",
       "approveOrg", "rejectOrg", "rename", "remove"}
NoCall == [op |-> "none", who |-> Me, role |-> "none", was |-> <<>>, step |-> "none"]

Idle == [step |-> "idle", got |-> <<>>]

TypeOK ==
  /\ realm \in [Person -> RealmRole \cup {"none"}] /\ member \in [Person -> Tried \cup {"none"}]
  /\ asks \subseteq Person /\ orgAsks \subseteq Person /\ title \in {"a", "b", "none"}
  /\ view \in View /\ DOMAIN shown = Key /\ unheard \subseteq Key
  /\ \A k \in Key : query[k].step \in {"idle", "stale", "due", "read"}
  /\ \A s \in Slot : call[s].op \in Op \cup {"none"}
  /\ \A s \in Slot : call[s].step \in {"none", "sent", "done", "refused"}

Init ==
  /\ \E mine \in {"MEMBER", "MAINTAINER", "OWNER"}, theirs \in {"none", "MEMBER", "MAINTAINER"} :
       realm = [p \in Person |-> IF p = Me THEN mine ELSE theirs]
  /\ \E theirs \in {"none", "EDIT"} : member = [p \in Person |-> IF p = Me THEN "ADMIN" ELSE theirs]
  /\ \A p \in Person : member[p] # "none" => realm[p] # "none"
  /\ asks \in SUBSET {p \in Person : member[p] = "none"}
  /\ orgAsks \in SUBSET {p \in Person : realm[p] = "none"}
  /\ asks = {} \/ orgAsks = {}                       \* a bound
  /\ title = "a" /\ view = "launcher"
  /\ shown = Now /\ query = [k \in Key |-> Idle]
  /\ call = [s \in Slot |-> NoCall]
  /\ unheard = {} /\ events = 0
-----------------------------------------------------------------------------
(***************************************************************************)
(* The server: whether it accepts a call, and what the call does.          *)
(***************************************************************************)
Exists      == title # "none"
Effective   == EffectiveWorkspaceRole(realm[Me], member[Me], "PRIVATE")
Administers == Exists /\ Effective = "ADMIN"
Maintains   == RealmAtLeast(realm[Me], "MAINTAINER")
Manages(p, next) == CanManageMember(p = Me, realm[Me], realm[p], member[p], next)
NotLastAdmin(p)  == member[p] = "ADMIN" => Cardinality({q \in Person : member[q] = "ADMIN"}) > 1

Accepts(op, p, r) ==
  CASE op = "setWs"    -> Administers /\ member[p] # "none" /\ Manages(p, r) /\ (r # "ADMIN" => NotLastAdmin(p))
    [] op = "removeWs" -> Administers /\ member[p] # "none" /\ Manages(p, "none") /\ NotLastAdmin(p)
    [] op = "addWs"    -> Administers /\ member[p] = "none" /\ Manages(p, r)
    [] op \in {"approve", "reject"} -> Administers /\ p \in asks
    [] op = "setRealm" -> /\ realm[p] \notin {"none", "OWNER"}
                          /\ AuthorityOver(realm[Me], realm[p]) /\ AuthorityOver(realm[Me], r)
    [] op = "addRealm" -> realm[p] = "none" /\ AuthorityOver(realm[Me], r)
    [] op = "removeRealm" -> realm[p] \notin {"none", "OWNER"} /\ AuthorityOver(realm[Me], realm[p])
    [] op \in {"approveOrg", "rejectOrg"} -> Maintains /\ p \in orgAsks
    [] op \in {"rename", "remove"} -> Administers

Everyone(role) == [p \in Person |-> role]

Effect(op, p, r) ==
  /\ member' = CASE op \in {"setWs", "addWs", "approve"} -> [member EXCEPT ![p] = r]
                 [] op \in {"removeWs", "removeRealm"} -> [member EXCEPT ![p] = "none"]
                 [] op = "remove" -> Everyone("none")
                 [] OTHER -> member
  /\ realm' = CASE op \in {"setRealm", "addRealm"} -> [realm EXCEPT ![p] = r]
                [] op = "removeRealm" -> [realm EXCEPT ![p] = "none"]
                [] op \in {"addWs", "approve", "approveOrg"} /\ realm[p] = "none" -> [realm EXCEPT ![p] = "MEMBER"]
                [] OTHER -> realm
  /\ asks' = CASE op \in {"approve", "reject", "removeRealm"} -> asks \ {p}
               [] op = "remove" -> {} [] OTHER -> asks
  /\ orgAsks' = IF op \in {"approveOrg", "rejectOrg"} THEN orgAsks \ {p} ELSE orgAsks
  /\ title' = CASE op = "rename" -> (IF title = "a" THEN "b" ELSE "a") [] op = "remove" -> "none"
                [] OTHER -> title

Changed == {k \in Key : Now'[k] # Now[k]}
-----------------------------------------------------------------------------
(***************************************************************************)
(* The queries.                                                            *)
(***************************************************************************)

\* invalidateQueries: what is mounted is fetched again, whatever fetch was
\* under way; the rest is fetched when it is mounted, unless it is just arriving.
Invalidate(q, ks) ==
  [k \in Key |-> IF k \notin ks THEN q[k]
                 ELSE IF k \in Mounted(view) THEN [Idle EXCEPT !.step = "due"]
                 ELSE IF q[k].step = "idle" THEN [Idle EXCEPT !.step = "stale"] ELSE q[k]]

ListUsers       == Exists /\ Effective # "none"
ListRequests    == Administers
ListOrgRequests == Maintains

Readable(k) ==
  CASE k = "wsMembers" -> ListUsers
    [] k = "wsRequests" -> ListRequests
    [] k = "orgRequests" -> ListOrgRequests
    [] k = "realmMembers" -> realm[Me] # "none"
    [] OTHER -> TRUE

\* A list of the workspace that is refused drops the user to the launcher.
AccessLost(k) == k \in Workspaces

\* A workspace's list that may no longer be read drops the user to the launcher.
Read(k) ==
  /\ query[k].step = "due"
  /\ IF Readable(k)
     THEN /\ query' = [query EXCEPT ![k] = [step |-> "read", got |-> Now[k]]]
          /\ unheard' = unheard \ {k}
          /\ UNCHANGED view
     ELSE /\ query' = [query EXCEPT ![k] = Idle] /\ unheard' = unheard \cup {k}
          /\ view' = IF AccessLost(k) THEN "launcher" ELSE view
  /\ UNCHANGED <<server, shown, call, events>>

Arrive(k) ==
  /\ query[k].step = "read"
  /\ shown' = [shown EXCEPT ![k] = query[k].got]
  /\ query' = [query EXCEPT ![k] = Idle]
  /\ UNCHANGED <<server, view, call, unheard, events>>

Fail(k) ==
  /\ events < MaxEvents /\ query[k].step = "due"
  /\ query' = [query EXCEPT ![k] = Idle]
  /\ unheard' = unheard \cup {k} /\ events' = events + 1
  /\ UNCHANGED <<server, view, shown, call>>

\* A view is opened: what was invalidated meanwhile is fetched, or has grown old.
Open(v) ==
  /\ v # view /\ view' = v
  /\ v = "console" => IsRealmAdmin(realm[Me])
  /\ v = "settings" => shown["workspaces"] # "none"
  /\ \E old \in {{}} \cup (IF events < MaxEvents THEN {{k} : k \in Mounted(v)} ELSE {}) :
       /\ query' = [k \in Key |-> IF /\ k \in Mounted(v)
                                     /\ query[k].step = "stale" \/ (k \in old /\ query[k].step = "idle")
                                  THEN [Idle EXCEPT !.step = "due"] ELSE query[k]]
       /\ events' = events + Cardinality(old)
  /\ UNCHANGED <<server, shown, call, unheard>>
-----------------------------------------------------------------------------
(***************************************************************************)
(* What the views offer, by the lists they show.                           *)
(***************************************************************************)
Pending(op) == \E s \in Slot : call[s].op = op

MembersTab(op, p, r) ==
  LET them == shown["wsMembers"]
      admins == Cardinality({q \in Person : them.role[q] = "ADMIN"})
  IN /\ view = "settings" /\ them.role[p] # "none"
     /\ IF op = "setWs"
        THEN r \in OfferedRoles(p = Me, realm[Me], them.realmRole[p], them.role[p], admins)
        ELSE /\ RowManageable(p = Me, realm[Me], them.realmRole[p], them.role[p])
             /\ ~(them.role[p] = "ADMIN" /\ admins <= 1)

AddWorkspaceMember(p, r) ==
  /\ view = "settings" /\ shown["wsMembers"].role[p] = "none"
  /\ r = "ADMIN" => IsRealmAdmin(realm[Me])

RequestsTable(op, p) ==
  /\ \/ view = "settings" /\ p \in shown["wsRequests"]
     \/ view = "console" /\ p \in shown["realmRequests"]
  /\ ~Pending(op)

OrgRequestsTable(op, p) == view = "console" /\ p \in shown["orgRequests"] /\ ~Pending(op)

RealmMembersTab(p) ==
  LET theirs == shown["realmMembers"][p]
  IN view = "console" /\ theirs # "none" /\ RealmRowEditable(realm[Me], theirs)

WorkspacesTab == view = "console" /\ shown["workspaces"] # "none"
GeneralTab    == view = "settings"

Offers(op, p, r) ==
  CASE op \in {"setWs", "removeWs"} -> MembersTab(op, p, r)
    [] op = "addWs" -> AddWorkspaceMember(p, r)
    [] op \in {"approve", "reject"} -> RequestsTable(op, p)
    [] op \in {"approveOrg", "rejectOrg"} -> OrgRequestsTable(op, p)
    [] op \in {"setRealm", "removeRealm"} -> RealmMembersTab(p)
    [] op = "addRealm" -> view = "console"
    [] op \in {"rename", "remove"} -> p = Me /\ (GeneralTab \/ WorkspacesTab)

\* The roles a call may name.
RolesOf(op) ==
  CASE op \in {"setWs", "addWs", "approve"} -> Tried
    [] op \in {"setRealm", "addRealm"} -> Assignable
    [] OTHER -> {"none"}

\* The list a role select writes to before the server answers.
Written(op) == CASE op = "setWs" -> {"wsMembers"} [] op = "setRealm" -> {"realmMembers"} [] OTHER -> {}

Start(s, op, p, r) ==
  /\ events < MaxEvents /\ call[s].step = "none"
  /\ \A z \in Slot : z < s => call[z].step # "none"      \* the slots are alike
  /\ Offers(op, p, r)
  /\ call' = [call EXCEPT ![s] = [op |-> op, who |-> p, role |-> r, step |-> "sent",
                                  was |-> [k \in Written(op) |-> shown[k]]]]
  /\ shown' = CASE op = "setWs" -> [shown EXCEPT !["wsMembers"].role[p] = r]
                [] op = "setRealm" -> [shown EXCEPT !["realmMembers"][p] = r]
                [] OTHER -> shown
  /\ query' = [k \in Key |-> IF k \in Written(op) THEN Idle ELSE query[k]]
  /\ events' = events + 1
  /\ UNCHANGED <<server, view, unheard>>

\* What a call has fetched again once it succeeded, and in any case.
WorkspaceMemberFetches == {"wsMembers"}
RealmFetches           == {"realmMembers"}
RequestFetches(op)     == {"wsRequests", "realmRequests"}
                          \cup (IF op = "approve" THEN {"wsMembers", "realmMembers"} ELSE {})
OrgRequestFetches(op)  == {"orgRequests"} \cup (IF op = "approveOrg" THEN {"realmMembers"} ELSE {})

Fetches(op) ==
  CASE op \in {"setWs", "addWs", "removeWs"} -> WorkspaceMemberFetches
    [] op \in {"setRealm", "addRealm", "removeRealm"} -> RealmFetches
    [] op \in {"approve", "reject"} -> RequestFetches(op)
    [] op \in {"approveOrg", "rejectOrg"} -> OrgRequestFetches(op)
    [] op \in {"rename", "remove"} -> Workspaces

\* Mutation: a refused change is only rolled back.
SettlesNothing(op) == {}
Settles(op) == Written(op)

\* The call is served; its answer may be lost on the way.
Serve(s, lost) ==
  LET c == call[s] IN
  /\ c.step = "sent"
  /\ lost => events < MaxEvents
  /\ IF Accepts(c.op, c.who, c.role)
     THEN /\ Effect(c.op, c.who, c.role)
          /\ unheard' = unheard \cup (Changed \ IF lost THEN Settles(c.op) ELSE Fetches(c.op))
          /\ call' = [call EXCEPT ![s].step = IF lost THEN "refused" ELSE "done"]
     ELSE call' = [call EXCEPT ![s].step = "refused"] /\ UNCHANGED <<server, unheard>>
  /\ events' = IF lost THEN events + 1 ELSE events
  /\ UNCHANGED <<view, shown, query>>

\* A list no longer mounted whose fetch is just arriving is not fetched again.
Arriving(ks) == {k \in ks \ Mounted(view) : query[k].step = "read"}

Answer(s) ==
  LET c == call[s]
      ks == IF c.step = "done" THEN Fetches(c.op) ELSE Settles(c.op)
  IN
  /\ c.step \in {"done", "refused"}
  /\ call' = [call EXCEPT ![s] = NoCall]
  /\ shown' = [k \in Key |-> IF c.step = "refused" /\ k \in DOMAIN c.was THEN c.was[k] ELSE shown[k]]
  /\ query' = Invalidate(query, ks)
  /\ unheard' = unheard \cup Arriving(ks)
  /\ view' = IF c.op = "remove" /\ c.step = "done" /\ view = "settings" THEN "launcher" ELSE view
  /\ UNCHANGED <<server, events>>

\* Another administrator changes a row, or somebody asks.
Elsewhere ==
  /\ events < MaxEvents /\ events' = events + 1
  /\ \E p \in Person \ {Me} :
       \/ \E op \in {"setWs", "removeWs"}, r \in Tried : Exists /\ member[p] # "none" /\ Effect(op, p, r)
       \/ \E op \in {"approve", "reject"} : p \in asks /\ Effect(op, p, "EDIT")
       \/ Exists /\ member[p] = "none" /\ asks' = asks \cup {p} /\ UNCHANGED <<realm, member, orgAsks, title>>
       \/ realm[p] = "none" /\ orgAsks' = orgAsks \cup {p} /\ UNCHANGED <<realm, member, asks, title>>
       \/ Exists /\ Effect("remove", p, "none")
  /\ unheard' = unheard \cup Changed
  /\ UNCHANGED <<view, shown, query, call>>

Next ==
  \/ \E k \in Key : Read(k) \/ Arrive(k) \/ Fail(k)
  \/ \E v \in View : Open(v)
  \/ \E s \in Slot, op \in Op, p \in Person : \E r \in RolesOf(op) : Start(s, op, p, r)
  \/ \E s \in Slot, lost \in BOOLEAN : Serve(s, lost)
  \/ \E s \in Slot : Answer(s)
  \/ Elsewhere

Spec == Init /\ [][Next]_vars
-----------------------------------------------------------------------------
(***************************************************************************)
(* Properties.                                                             *)
(***************************************************************************)
Current(k) == query[k].step = "idle" /\ k \notin unheard
AtRest == \A s \in Slot : call[s].step = "none"

\* However calls, roll-backs and fetches overlapped, once nothing is in flight
\* every list on screen is what the server has, but for what the client was
\* not told of (the hooks' onMutate, onError and onSettled).
ListsSettle == AtRest => \A k \in Mounted(view) : Current(k) => shown[k] = Now[k]

\* On true lists the controls on the rows mirror the server: what is offered is
\* accepted, but that a maintainer is offered Maintainer as a realm role, and
\* that a modal opened by an admin stays one (WorkspaceSettingsModal.tsx:391 "Mirror
\* backend rules 1-3").
ControlsWork ==
  AtRest /\ (\A k \in Mounted(view) : Current(k)) /\ (view = "settings" => Administers) =>
    \A op \in Op \ {"addRealm", "addWs"}, p \in Person : \A r \in RolesOf(op) :
      Offers(op, p, r) => Accepts(op, p, r) \/ (op = "setRealm" /\ r = "MAINTAINER" /\ realm[Me] # "OWNER")
-----------------------------------------------------------------------------
(***************************************************************************)
(* The inductive invariant.                                                *)
(***************************************************************************)
Tables ==
  /\ query = [k \in Key |-> query[k]] /\ shown = [k \in Key |-> shown[k]]
  /\ call = [s \in Slot |-> [op |-> call[s].op, who |-> call[s].who, role |-> call[s].role,
                             was |-> call[s].was, step |-> call[s].step]]

\* A call in flight keeps what it wrote over.
CallSound(c) ==
  c.step # "none" => c.op \in Op /\ c.who \in Person /\ c.role \in RolesOf(c.op) /\ DOMAIN c.was = Written(c.op)

\* A call in flight will have the list fetched again.
Owed(k) ==
  \E s \in Slot : /\ call[s].step # "none"
                  /\ k \in IF call[s].step = "done" THEN Fetches(call[s].op) ELSE Settles(call[s].op)

\* A list that no call owes a fetch, and nothing was missed of, is the server's,
\* on screen or on its way there.
Settled(k) ==
  k \in unheard \/ Owed(k) \/ /\ query[k].step = "idle" => shown[k] = Now[k]
                              /\ query[k].step = "read" => query[k].got = Now[k]

\* The console is the realm's administrators'; a deleted workspace has no requests.
Rights ==
  /\ view = "console" => IsRealmAdmin(realm[Me])
  /\ asks # {} => Exists

Inductive ==
  /\ TypeOK /\ Tables /\ Rights
  /\ \A s \in Slot : CallSound(call[s])
  /\ \A k \in Key : Settled(k)
=============================================================================
