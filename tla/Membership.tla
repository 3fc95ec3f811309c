---------------------------- MODULE Membership ----------------------------
(***************************************************************************)
(* The organisation (realm), one workspace of it, and the requests to join *)
(* either.  Every call checks first and writes later: between the two any  *)
(* other call may run.  The transactions that touch the realm and the      *)
(* workspace together run at READ COMMITTED: their first statement is a    *)
(* step of its own, the others and the commit are the write.               *)
(***************************************************************************)
EXTENDS Roles, FiniteSets

CONSTANTS
  User,
  Owner,         \* the seeded owner of the realm
  Slot,          \* calls that may be in progress at once
  Tried,         \* the workspace roles calls ask for
  RequestId,     \* rows of join_requests
  MaxCalls       \* bound on the calls made

ASSUME OwnerIsUser == Owner \in User
ASSUME UsersAreFinite == IsFiniteSet(User)
ASSUME TriedRoles == Tried \subseteq WorkspaceRole
ASSUME CallsAreBounded == MaxCalls \in Nat

VARIABLES
  realm,      \* realm[u]: the user's row of realm_members
  space,      \* the workspace; by is who created it
  member,     \* member[u]: the user's row of workspace_members
  request,    \* request[n]: a row of join_requests
  orgRequest, \* orgRequest[u]: the state of the user's org_join_requests row
  open,       \* joinRequestsEnabled
  call,       \* call[s]: a call between its checks and its write
  begun,
  straddled   \* given a workspace role while removed from the realm: in neither's view

db   == <<realm, space, member, request, orgRequest, open, straddled>>
vars == <<db, call, begun>>

Visibility == {"PUBLIC", "PRIVATE"}
State      == {"PENDING", "APPROVED", "REJECTED"}
NoSpace    == [state |-> "absent", visibility |-> "PRIVATE", defaultRole |-> "READ", by |-> Owner]
NoRequest  == [user |-> Owner, role |-> "none", state |-> "none"]
NotRead    == [actor |-> "?", target |-> "?"]
Idle       == [op |-> "idle", actor |-> Owner, user |-> Owner, role |-> "none", on |-> 0,
               seen |-> NotRead, first |-> "?"]

RealmCall == {"addRealmUser", "updateRealmUser", "removeRealmUser", "updateSettings",
              "requestOrg", "approveOrg", "rejectOrg"}
SpaceCall == {"createSpace", "updateSpace", "removeSpace", "addUser", "updateUser", "removeUser",
              "join", "requestJoin", "approveRequest", "rejectRequest"}
Call == [op : RealmCall \cup SpaceCall, actor : User, user : User,
         role : RealmRole \cup WorkspaceRole \cup {"none"},
         on : RequestId \cup {0},
         first : {"?", "row", "none"},   \* what the transaction's first statement found
         seen : {NotRead} \cup [actor : RealmRole \cup {"none"}, target : RealmRole \cup {"none"}]]

TypeOK ==
  /\ realm \in [User -> RealmRole \cup {"none"}]
  /\ space \in [state : {"absent", "present", "deleted"}, visibility : Visibility,
                defaultRole : WorkspaceRole, by : User]
  /\ member \in [User -> WorkspaceRole \cup {"none"}]
  /\ request \in [RequestId -> {NoRequest} \cup [user : User, role : WorkspaceRole, state : State]]
  /\ orgRequest \in [User -> State \cup {"none"}]
  /\ open \in BOOLEAN
  /\ call \in [Slot -> {Idle} \cup Call]
  /\ begun \in 0 .. MaxCalls
  /\ straddled \subseteq User

\* Any realm of one owner, with or without a workspace; its members belong to the realm.
Init ==
  /\ realm \in [User -> RealmRole \cup {"none"}]
  /\ \A u \in User : realm[u] = "OWNER" <=> u = Owner
  /\ space \in {NoSpace} \cup [state : {"present"}, visibility : Visibility,
                               defaultRole : {"READ"}, by : {Owner}]
  /\ member \in [User -> Tried \cup {"none"}]
  /\ \A u \in User : member[u] # "none" => space.state = "present" /\ realm[u] # "none"
  /\ request \in [RequestId -> {NoRequest} \cup [user : User, role : {"READ"}, state : {"PENDING"}]]
  /\ \A n \in RequestId : request[n] # NoRequest =>      \* few members then: a bound
       /\ space.state = "present" /\ space.visibility = "PRIVATE" /\ request[n].user # Owner
       /\ member = [u \in User |-> IF u = Owner THEN "ADMIN" ELSE "none"]
  /\ orgRequest = [u \in User |-> "none"]
  /\ open = TRUE
  /\ call = [s \in Slot |-> Idle]
  /\ begun = 0
  /\ straddled = {}

Exists == space.state = "present"
Effective(u) == EffectiveWorkspaceRole(realm[u], member[u], space.visibility)
Admins == {u \in User : member[u] = "ADMIN"}
Admin(a) == Exists /\ Effective(a) = "ADMIN"      \* requireWorkspaceRole(.., ADMIN)
Maintains(a) == RealmAtLeast(realm[a], "MAINTAINER")

\* The checks have passed with these arguments.
Begin(s, op, a, u, r, n) ==
  /\ call[s] = Idle /\ begun < MaxCalls
  /\ call' = [call EXCEPT ![s] = [op |-> op, actor |-> a, user |-> u, role |-> r, on |-> n,
                                    seen |-> NotRead, first |-> "?"]]
  /\ begun' = begun + 1
  /\ UNCHANGED db

\* The write of a call that began, with its commit.  A call that fails, or whose
\* row is gone or taken by then, is one that never gets here.
Write(s, op) ==
  /\ call[s].op = op
  /\ call' = [call EXCEPT ![s] = Idle]
  /\ UNCHANGED begun

\* Two transactions at READ COMMITTED: a removal deletes the workspace rows it
\* finds, the others ensure the row in the realm before they write the workspace's.
Ensuring == {"addUser", "join", "approveRequest"}

\* What a first statement has written and not committed makes others wait.
Deleting(u)  == \E s \in Slot : /\ call[s].user = u /\ call[s].first = "row"
                               /\ call[s].op = "removeRealmUser"
Inserting(u) == \E s \in Slot : /\ call[s].user = u /\ call[s].first = "none"
                               /\ call[s].op \in Ensuring

\* The first statement of a transaction, and what it finds.
First(s, found) ==
  /\ call[s].first = "?"
  /\ call' = [call EXCEPT ![s].first = IF found THEN "row" ELSE "none"]
  /\ UNCHANGED <<db, begun>>

\* A later statement fails: the transaction is rolled back.
RollBack(s) ==
  /\ call[s].first # "?"
  /\ call' = [call EXCEPT ![s] = Idle]
  /\ UNCHANGED <<db, begun>>

-----------------------------------------------------------------------------
(***************************************************************************)
(* Members of the realm.                                                   *)
(***************************************************************************)

AddRealmUser(s, a, u, r) ==
  /\ r \in {"MEMBER", "MAINTAINER"}
  /\ AuthorityOver(realm[a], r) /\ realm[u] = "none"
  /\ Begin(s, "addRealmUser", a, u, r, 0)

WriteAddRealmUser(s) ==
  LET c == call[s] IN
  /\ Write(s, "addRealmUser")
  /\ realm[c.user] = "none" /\ ~Inserting(c.user)
  /\ realm' = [realm EXCEPT ![c.user] = c.role]
  /\ UNCHANGED <<space, member, request, orgRequest, open>>

\* Mutation: only authority over the present role is asked for.
UpdateRealmUserUnranked(s, a, u, r) ==
  /\ r \in {"MEMBER", "MAINTAINER"}
  /\ realm[u] \notin {"none", "OWNER"}
  /\ AuthorityOver(realm[a], realm[u])
  /\ Begin(s, "updateRealmUser", a, u, r, 0)

UpdateRealmUser(s, a, u, r) ==
  /\ r \in {"MEMBER", "MAINTAINER"}
  /\ realm[u] \notin {"none", "OWNER"}
  /\ AuthorityOver(realm[a], realm[u]) /\ AuthorityOver(realm[a], r)
  /\ Begin(s, "updateRealmUser", a, u, r, 0)

WriteUpdateRealmUser(s) ==
  LET c == call[s] IN
  /\ Write(s, "updateRealmUser")
  /\ realm[c.user] # "none"
  /\ realm' = [realm EXCEPT ![c.user] = c.role]
  /\ UNCHANGED <<space, member, request, orgRequest, open>>

RemoveRealmUser(s, a, u) ==
  /\ realm[u] \notin {"none", "OWNER"} /\ AuthorityOver(realm[a], realm[u])
  /\ Begin(s, "removeRealmUser", a, u, "none", 0)

\* The first of its statements: the workspace rows there are.
DeleteMemberships(s) ==
  LET u == call[s].user IN
  /\ call[s].op = "removeRealmUser" /\ ~Deleting(u)
  /\ First(s, member[u] # "none")

\* Mutation: the workspace memberships are left in place.
WriteRemoveRealmUserOnly(s) ==
  LET c == call[s] IN
  /\ Write(s, "removeRealmUser")
  /\ c.first # "?" /\ realm[c.user] # "none"
  /\ realm' = [realm EXCEPT ![c.user] = "none"]
  /\ UNCHANGED <<space, member, request, orgRequest, open>>

WriteRemoveRealmUser(s) ==
  LET c == call[s] IN
  /\ Write(s, "removeRealmUser")
  /\ c.first # "?" /\ realm[c.user] # "none"
  /\ member' = [member EXCEPT ![c.user] = IF c.first = "row" THEN "none" ELSE @]
  /\ request' = [n \in RequestId |-> IF request[n].user = c.user /\ request[n].state = "PENDING"
                                     THEN NoRequest ELSE request[n]]
  /\ realm' = [realm EXCEPT ![c.user] = "none"]
  /\ UNCHANGED <<space, orgRequest, open>>

UpdateSettings(s, a) ==
  /\ realm[a] = "OWNER"
  /\ Begin(s, "updateSettings", a, a, "none", 0)

WriteUpdateSettings(s) ==
  /\ Write(s, "updateSettings")
  /\ open' \in BOOLEAN
  /\ UNCHANGED <<realm, space, member, request, orgRequest>>

\* Requests to join the organisation: one row per user.
RequestOrg(s, u) ==
  /\ open /\ realm[u] = "none" /\ orgRequest[u] # "PENDING"
  /\ Begin(s, "requestOrg", u, u, "none", 0)

WriteRequestOrg(s) ==
  /\ Write(s, "requestOrg")
  /\ orgRequest' = [orgRequest EXCEPT ![call[s].user] = "PENDING"]
  /\ UNCHANGED <<realm, space, member, request, open>>

DecideOrg(s, a, u) ==
  /\ Maintains(a) /\ orgRequest[u] = "PENDING"
  /\ \E op \in {"approveOrg", "rejectOrg"} : Begin(s, op, a, u, "none", 0)

WriteApproveOrg(s) ==
  LET u == call[s].user IN
  /\ Write(s, "approveOrg")
  /\ ~Inserting(u)
  /\ realm' = [realm EXCEPT ![u] = IF @ = "none" THEN "MEMBER" ELSE @]
  /\ orgRequest' = [orgRequest EXCEPT ![u] = "APPROVED"]
  /\ UNCHANGED <<space, member, request, open>>

WriteRejectOrg(s) ==
  /\ Write(s, "rejectOrg")
  /\ orgRequest' = [orgRequest EXCEPT ![call[s].user] = "REJECTED"]
  /\ UNCHANGED <<realm, space, member, request, open>>
-----------------------------------------------------------------------------
(***************************************************************************)
(* The workspace.                                                          *)
(***************************************************************************)

CreateSpace(s, a) ==
  /\ space.state = "absent" /\ Maintains(a)
  /\ Begin(s, "createSpace", a, a, "none", 0)

WriteCreateSpace(s) ==
  LET a == call[s].actor IN
  /\ Write(s, "createSpace")
  /\ space.state = "absent"
  /\ space' \in [state : {"present"}, visibility : Visibility, defaultRole : Tried, by : {a}]
  /\ member' = [member EXCEPT ![a] = "ADMIN"]
  /\ UNCHANGED <<realm, request, orgRequest, open>>

UpdateSpace(s, a) == Admin(a) /\ Begin(s, "updateSpace", a, a, "none", 0)

WriteUpdateSpace(s) ==
  /\ Write(s, "updateSpace")
  /\ Exists
  /\ \E v \in Visibility, r \in Tried :
       space' = [space EXCEPT !.visibility = v, !.defaultRole = r]
  /\ UNCHANGED <<realm, member, request, orgRequest, open>>

RemoveSpace(s, a) == Admin(a) /\ Begin(s, "removeSpace", a, a, "none", 0)

\* The members and the join requests go with it.
WriteRemoveSpace(s) ==
  /\ Write(s, "removeSpace")
  /\ Exists /\ \A u \in User : ~Deleting(u)
  /\ space' = [space EXCEPT !.state = "deleted"]
  /\ member' = [u \in User |-> "none"]
  /\ request' = [n \in RequestId |-> NoRequest]
  /\ UNCHANGED <<realm, orgRequest, open>>

AddUser(s, a, u, r) ==
  /\ Admin(a) /\ member[u] = "none"
  /\ Begin(s, "addUser", a, u, r, 0)

UpdateUser(s, a, u, r) == Admin(a) /\ Begin(s, "updateUser", a, u, r, 0)
RemoveUser(s, a, u) == Admin(a) /\ Begin(s, "removeUser", a, u, "none", 0)

\* addUser, updateUser and removeUser read both realm roles after the gate.
ReadRealmRoles(s) ==
  /\ call[s].op \in {"addUser", "updateUser", "removeUser"} /\ call[s].seen = NotRead
  /\ call' = [call EXCEPT ![s].seen = [actor |-> realm[call[s].actor], target |-> realm[call[s].user]]]
  /\ UNCHANGED <<db, begun>>

Manages(c, current, next) ==
  c.seen # NotRead /\ CanManageMember(c.actor = c.user, c.seen.actor, c.seen.target, current, next)

\* The first statement of those transactions: nothing holds a row that is there.
EnsureRealmMember(s) ==
  LET c == call[s] IN
  /\ c.op \in Ensuring /\ ~Inserting(c.user)
  /\ c.op = "addUser" => Manages(c, "none", c.role)
  /\ First(s, realm[c.user] # "none")

\* The row it wrote, if there was none, becomes visible.
Ensured(c) ==
  /\ c.first # "?"
  /\ realm' = [realm EXCEPT ![c.user] = IF c.first = "none" /\ @ = "none" THEN "MEMBER" ELSE @]

WriteAddUser(s) ==
  LET c == call[s] IN
  /\ Write(s, "addUser")
  /\ Exists /\ member[c.user] = "none"
  /\ Ensured(c)
  /\ member' = [member EXCEPT ![c.user] = c.role]
  /\ UNCHANGED <<space, request, orgRequest, open>>

\* Mutation: the guard is left out.
AnyAdminMayGo(u) == TRUE

\* assertNotLastAdmin, where an ADMIN is demoted or removed.
NotLastAdmin(u) == member[u] = "ADMIN" => Cardinality(Admins) > 1

\* The two serializable transactions: read, check, count and write are one step.
WriteUpdateUser(s) ==
  LET c == call[s] IN
  /\ Write(s, "updateUser")
  /\ member[c.user] # "none" /\ ~Deleting(c.user) /\ Manages(c, member[c.user], c.role)
  /\ c.role # "ADMIN" => NotLastAdmin(c.user)
  /\ member' = [member EXCEPT ![c.user] = c.role]
  /\ UNCHANGED <<realm, space, request, orgRequest, open>>

WriteRemoveUser(s) ==
  LET c == call[s] IN
  /\ Write(s, "removeUser")
  /\ member[c.user] # "none" /\ ~Deleting(c.user) /\ Manages(c, member[c.user], "none")
  /\ NotLastAdmin(c.user)
  /\ member' = [member EXCEPT ![c.user] = "none"]
  /\ UNCHANGED <<realm, space, request, orgRequest, open>>

\* Anyone signed in joins a public workspace, with the default role it had then.
Join(s, u) ==
  /\ Exists /\ space.visibility = "PUBLIC" /\ member[u] = "none"
  /\ Begin(s, "join", u, u, space.defaultRole, 0)

WriteJoin(s) ==
  LET c == call[s] IN
  /\ Write(s, "join")
  /\ Exists /\ member[c.user] = "none"
  /\ Ensured(c)
  /\ member' = [member EXCEPT ![c.user] = c.role]
  /\ UNCHANGED <<space, request, orgRequest, open>>

RequestJoin(s, u, r) ==
  /\ Exists /\ space.visibility = "PRIVATE" /\ member[u] = "none"
  /\ \A n \in RequestId : request[n].user = u => request[n].state # "PENDING"
  /\ Begin(s, "requestJoin", u, u, r, 0)

\* A row of its own each time, under an id no call in progress knows.
WriteRequestJoin(s) ==
  LET c == call[s] IN
  /\ Write(s, "requestJoin")
  /\ Exists
  /\ \E n \in RequestId :
       /\ request[n] = NoRequest /\ \A o \in Slot : call[o].on # n
       /\ request' = [request EXCEPT ![n] = [user |-> c.user, role |-> c.role, state |-> "PENDING"]]
  /\ UNCHANGED <<realm, space, member, orgRequest, open>>

\* The approver may name another role than the one asked for.
ApproveRequest(s, a, n, r) ==
  /\ Admin(a) /\ request[n].state = "PENDING"
  /\ Begin(s, "approveRequest", a, request[n].user, r, n)

WriteApproveRequest(s) ==
  LET c == call[s] IN
  /\ Write(s, "approveRequest")
  /\ request[c.on] # NoRequest /\ ~Deleting(c.user)
  /\ Ensured(c)
  /\ member' = [member EXCEPT ![c.user] = c.role]
  /\ request' = [request EXCEPT ![c.on].state = "APPROVED"]
  /\ UNCHANGED <<space, orgRequest, open>>

RejectRequest(s, a, n) ==
  /\ Admin(a) /\ request[n].state = "PENDING"
  /\ Begin(s, "rejectRequest", a, request[n].user, "none", n)

WriteRejectRequest(s) ==
  /\ Write(s, "rejectRequest")
  /\ request[call[s].on] # NoRequest
  /\ request' = [request EXCEPT ![call[s].on].state = "REJECTED"]
  /\ UNCHANGED <<realm, space, member, orgRequest, open>>
-----------------------------------------------------------------------------
BeginRealm(s, a) ==
  \/ \E u \in User :
       \/ \E r \in RealmRole : AddRealmUser(s, a, u, r) \/ UpdateRealmUser(s, a, u, r)
       \/ RemoveRealmUser(s, a, u) \/ DecideOrg(s, a, u)
  \/ UpdateSettings(s, a) \/ RequestOrg(s, a)

BeginSpace(s, a) ==
  \/ CreateSpace(s, a) \/ UpdateSpace(s, a) \/ RemoveSpace(s, a) \/ Join(s, a)
  \/ \E u \in User :
       \/ \E r \in Tried : AddUser(s, a, u, r) \/ UpdateUser(s, a, u, r)
       \/ RemoveUser(s, a, u)
  \/ \E r \in Tried : RequestJoin(s, a, r)
  \/ \E n \in RequestId : RejectRequest(s, a, n) \/ \E r \in Tried : ApproveRequest(s, a, n, r)

WriteRealm(s) ==
  \/ WriteAddRealmUser(s) \/ WriteUpdateRealmUser(s) \/ WriteRemoveRealmUser(s)
  \/ WriteUpdateSettings(s) \/ WriteRequestOrg(s) \/ WriteApproveOrg(s) \/ WriteRejectOrg(s)

WriteSpace(s) ==
  \/ WriteCreateSpace(s) \/ WriteUpdateSpace(s) \/ WriteRemoveSpace(s)
  \/ WriteAddUser(s) \/ WriteUpdateUser(s) \/ WriteRemoveUser(s)
  \/ WriteJoin(s) \/ WriteRequestJoin(s) \/ WriteApproveRequest(s) \/ WriteRejectRequest(s)

\* The users a write leaves with a workspace role and no row in the realm,
\* because a removal and a call that gives a role overlapped: rows written since
\* the removal deleted those it found, or a realm row gone since it was ensured.
Straddled(c) ==
  {u \in {c.user} :
     \/ c.op = "removeRealmUser" /\ c.first = "none" /\ member[u] # "none"
     \/ c.op \in Ensuring /\ c.first = "row" /\ realm[u] = "none"}

Commit(s) ==
  /\ WriteRealm(s) \/ WriteSpace(s)
  /\ straddled' = {u \in straddled \cup Straddled(call[s]) : member'[u] # "none" /\ realm'[u] = "none"}

Next ==
  \E s \in Slot :
    \/ \E a \in User : BeginRealm(s, a) \/ BeginSpace(s, a)
    \/ ReadRealmRoles(s) \/ DeleteMemberships(s) \/ EnsureRealmMember(s) \/ RollBack(s)
    \/ Commit(s)

Spec == Init /\ [][Next]_vars
-----------------------------------------------------------------------------
(***************************************************************************)
(* Properties.                                                             *)
(***************************************************************************)

\* The realm is the tenant boundary: whoever has a workspace role is in the
\* realm; except the creator, whose row is written without another look at it,
\* and users whose removal overlapped with a call that gave them a role.
MembersBelong ==
  \A u \in User : member[u] # "none" /\ u # space.by => realm[u] # "none" \/ u \in straddled

\* Whoever becomes a maintainer was made one by the owner, and nobody becomes
\* or stops being the owner, whatever the calls in between.
OwnerAppoints ==
  [][\A u \in User : realm'[u] # realm[u] =>
       /\ "OWNER" \notin {realm[u], realm'[u]}
       /\ realm'[u] = "MAINTAINER" => \E s \in Slot : call[s] # call'[s] /\ call[s].actor = Owner]_vars

\* A workspace with an admin keeps one, unless it is deleted, its last admin
\* leaves the realm, or a request still pending for that admin is approved.
LastAdminStays ==
  [][Admins # {} /\ Admins' = {} /\ Exists' =>
       \/ \E u \in Admins : realm'[u] = "none"
       \/ \E n \in RequestId : request[n].user \in Admins /\ request'[n].state = "APPROVED"]_vars

\* The tables between calls: the properties below are about these alone.
Settled == Exists /\ \A s \in Slot : call[s] = Idle

\* The workspaces a user can search are exactly those a page of which opens.
SearchableIsReadable ==
  Settled => \A u \in User :
    InMemberWorkspaceIds(realm[u], member[u], space.visibility) <=> Effective(u) # "none"

\* Whatever grant a user holds: documents that open get a session, those that
\* can be edited get an editor's, and only an owner who lost every other
\* standing has an editor's session for a document he cannot rename.
GatesAgree ==
  Settled => \A u \in User, owns \in BOOLEAN, g \in WorkspaceRole \cup {"none"} :
    LET eff == Effective(u) IN
    /\ CanReadDoc(owns, eff, g) <=> RtcRole(owns, eff, g) # "none"
    /\ CanWriteDoc(owns, eff, g, "EDIT") => RtcRole(owns, eff, g) = "editor"
    /\ RtcRole(owns, eff, g) = "editor" =>
         CanWriteDoc(owns, eff, g, "EDIT") \/ (owns /\ eff = "none" /\ g = "none")
    /\ CanRestructureDoc(owns, eff, "ADMIN") => CanManageDoc(owns, eff, g)

\* WorkspaceSettingsModal.tsx:390, "Mirror backend rules 1-3": with fresh data,
\* every change of role and every removal the pages offer would be accepted.
OfferedIsAccepted ==
  Settled => \A me, u \in User :
    Admin(me) /\ member[u] # "none" =>
      /\ \A r \in OfferedRoles(me = u, realm[me], realm[u], member[u], Cardinality(Admins)) :
           /\ CanManageMember(me = u, realm[me], realm[u], member[u], r)
           /\ r # "ADMIN" => NotLastAdmin(u)
      /\ Maintains(me) /\ realm[u] # "none" /\ RealmRowEditable(realm[me], realm[u]) =>
           AuthorityOver(realm[me], realm[u])

\* Share and editing are offered exactly where the server grants them.
PagesAgree ==
  Settled => \A u \in User, owns \in BOOLEAN, g \in WorkspaceRole \cup {"none"} :
    LET eff  == Effective(u)
        page == PageRole(realm[u], eff, g)
        mine == MyRole(owns, eff, g)
    IN  CanReadDoc(owns, eff, g) =>
          /\ OffersShare(owns, page, mine) <=> CanManageDoc(owns, eff, g)
          /\ OffersEdit(page, mine) <=> RtcRole(owns, eff, g) = "editor"

\* Four places answer what a user may do, each with code of its own: the gates,
\* the search filter, the settings' lists and the pages (authz.service.ts:57).
RolesAgree == SearchableIsReadable /\ GatesAgree /\ OfferedIsAccepted /\ PagesAgree
-----------------------------------------------------------------------------
(***************************************************************************)
(* The inductive invariant the proofs use.                                 *)
(***************************************************************************)

\* Only the seeded owner is the owner of the realm.
OneOwner == \A u \in User : realm[u] = "OWNER" <=> u = Owner

\* A call about a realm member's role was checked against roles that cannot
\* turn out higher by the time it writes.
CallSound(c) ==
  /\ c.op \in {"addRealmUser", "updateRealmUser"} =>
       c.role \in {"MEMBER", "MAINTAINER"} /\ (c.role = "MAINTAINER" => c.actor = Owner)
  /\ c.op \in {"addRealmUser", "updateRealmUser", "removeRealmUser"} => c.user # Owner
  /\ c.op \in {"addUser", "updateUser", "join", "requestJoin", "approveRequest"} =>
       c.role \in WorkspaceRole

\* The request a call decides about is still its user's, or gone.
RequestSound(c) ==
  c.op \in {"approveRequest", "rejectRequest"} =>
    c.on \in RequestId /\ (request[c.on] # NoRequest => request[c.on].user = c.user)

\* The state is well formed, the realm has its one owner, whoever has a workspace
\* role is in the realm, overlaps with a removal aside, and calls between check
\* and write stay covered by what they checked (realm.service.ts:139-221, workspaces.service.ts:212-455).
Inductive ==
  /\ TypeOK /\ OneOwner /\ MembersBelong
  /\ space.state = "absent" => space = NoSpace
  /\ \A s \in Slot : CallSound(call[s]) /\ RequestSound(call[s])
=============================================================================
