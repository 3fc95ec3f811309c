-------------------------- MODULE MembershipProofs --------------------------
(***************************************************************************)
(* Proofs about Membership: for any users, calls in progress, roles asked  *)
(* for and number of calls.                                                *)
(***************************************************************************)
EXTENDS Membership, TLAPS, FiniteSetTheorems

Row     == {NoRequest} \cup [user : User, role : WorkspaceRole, state : State]
RealmOf == RealmRole \cup {"none"}
SpaceOf == WorkspaceRole \cup {"none"}
Seen    == {NotRead} \cup [actor : RealmOf, target : RealmOf]
Space   == [state : {"absent", "present", "deleted"}, visibility : Visibility,
            defaultRole : WorkspaceRole, by : User]

\* The type invariant, of this state and of the next one.
Types ==
  /\ realm \in [User -> RealmOf] /\ space \in Space /\ member \in [User -> SpaceOf]
  /\ request \in [RequestId -> Row] /\ orgRequest \in [User -> State \cup {"none"}]
  /\ open \in BOOLEAN /\ call \in [Slot -> {Idle} \cup Call] /\ begun \in 0 .. MaxCalls
  /\ straddled \subseteq User

\* Both forms of the type invariant.
LEMMA TypeParts == (TypeOK <=> Types) /\ (TypeOK' <=> Types')
BY DEF TypeOK, Types, Row, RealmOf, SpaceOf, Space

\* The fields of rows and calls, and the constants for none.
LEMMA Shapes ==
  /\ Owner \in User /\ Tried \subseteq WorkspaceRole
  /\ NoSpace \in Space /\ NoRequest \in Row /\ NoRequest.state \notin State
  /\ Idle \notin Call /\ Idle.op = "idle"
  /\ \A c \in Call : /\ c.op \in RealmCall \cup SpaceCall /\ c.actor \in User /\ c.user \in User
                     /\ c.role \in RealmRole \cup WorkspaceRole \cup {"none"}
                     /\ c.on \in RequestId \cup {0} /\ c.seen \in Seen
                     /\ c.first \in {"?", "row", "none"}
  /\ \A q \in Row : q # NoRequest => /\ q.user \in User /\ q.role \in WorkspaceRole
                                     /\ q.state \in State
BY OwnerIsUser, TriedRoles
   DEF NoSpace, Space, NoRequest, Row, Idle, Call, Seen, RealmOf, State, Visibility, WorkspaceRole,
       RealmCall, SpaceCall

\* Who may appoint whom.
LEMMA AppointerIsOwner ==
  ASSUME NEW r \in RealmOf, AuthorityOver(r, "MAINTAINER")
  PROVE  r = "OWNER"
BY DEF RealmOf, RealmRole, AuthorityOver, RealmAtLeast, REALM_ORDER
-----------------------------------------------------------------------------
(***************************************************************************)
(* Steps.                                                                  *)
(***************************************************************************)

\* Every step is that of a slot: checks that begin a call, a read, or a write.
Checks(s, a) == BeginRealm(s, a) \/ BeginSpace(s, a)

\* A call that begins enters an idle slot and leaves the tables alone.
Entered(s, c) ==
  /\ call[s] = Idle /\ c \in Call /\ call' = [call EXCEPT ![s] = c]
  /\ begun' = begun + 1 /\ begun < MaxCalls /\ UNCHANGED db

\* A call that begins is a well-formed call in its slot.
LEMMA BeginEnters ==
  ASSUME NEW s \in Slot, NEW op \in RealmCall \cup SpaceCall, NEW a \in User, NEW u \in User,
         NEW r \in RealmRole \cup WorkspaceRole \cup {"none"}, NEW n \in RequestId \cup {0},
         Begin(s, op, a, u, r, n)
  PROVE  Entered(s, [op |-> op, actor |-> a, user |-> u, role |-> r, on |-> n, seen |-> NotRead,
                     first |-> "?"])
BY DEF Begin, Entered, Call

\* What the checks of a call establish about its arguments.
LEMMA ChecksEnter ==
  ASSUME Inductive, NEW s \in Slot, NEW a \in User, Checks(s, a)
  PROVE  \E c \in Call : Entered(s, c) /\ CallSound(c) /\ RequestSound(c)
<1> USE TypeParts DEF Inductive, Types
<1> DEFINE new(op, u, r, n) ==
             [op |-> op, actor |-> a, user |-> u, role |-> r, on |-> n, seen |-> NotRead,
              first |-> "?"]
           Found == \E c \in Call : Entered(s, c) /\ CallSound(c) /\ RequestSound(c)
<1> SUFFICES Found OBVIOUS
<1>0. ASSUME NEW op \in RealmCall \cup SpaceCall, NEW u \in User,
             NEW r \in RealmRole \cup WorkspaceRole \cup {"none"}, NEW n \in RequestId \cup {0},
             Begin(s, op, a, u, r, n), CallSound(new(op, u, r, n)), RequestSound(new(op, u, r, n))
      PROVE  Found
  <2>1. Entered(s, new(op, u, r, n)) BY <1>0, BeginEnters
  <2>2. new(op, u, r, n) \in Call BY <2>1 DEF Entered
  <2> QED BY <1>0, <2>1, <2>2
<1> HIDE DEF Found
<1>1. ASSUME NEW u \in User, NEW r \in RealmRole, AddRealmUser(s, a, u, r) PROVE Found
  <2>1. /\ r \in {"MEMBER", "MAINTAINER"} /\ u # Owner /\ (r = "MAINTAINER" => a = Owner)
    BY <1>1, AppointerIsOwner DEF AddRealmUser, OneOwner
  <2>2. CallSound(new("addRealmUser", u, r, 0)) /\ RequestSound(new("addRealmUser", u, r, 0))
    BY <2>1 DEF CallSound, RequestSound
  <2> QED BY <1>0, <1>1, <2>2 DEF AddRealmUser, RealmCall
<1>2. ASSUME NEW u \in User, NEW r \in RealmRole, UpdateRealmUser(s, a, u, r) PROVE Found
  <2>1. /\ r \in {"MEMBER", "MAINTAINER"} /\ u # Owner /\ (r = "MAINTAINER" => a = Owner)
    BY <1>2, AppointerIsOwner DEF UpdateRealmUser, OneOwner
  <2>2. CallSound(new("updateRealmUser", u, r, 0)) /\ RequestSound(new("updateRealmUser", u, r, 0))
    BY <2>1 DEF CallSound, RequestSound
  <2> QED BY <1>0, <1>2, <2>2 DEF UpdateRealmUser, RealmCall
<1>3. ASSUME NEW u \in User, RemoveRealmUser(s, a, u) PROVE Found
  <2>1. u # Owner BY <1>3 DEF RemoveRealmUser, OneOwner
  <2>2. CallSound(new("removeRealmUser", u, "none", 0)) /\ RequestSound(new("removeRealmUser", u, "none", 0))
    BY <2>1 DEF CallSound, RequestSound
  <2> QED BY <1>0, <1>3, <2>2 DEF RemoveRealmUser, RealmCall
<1>4. ASSUME NEW u \in User, NEW op \in RealmCall \cup SpaceCall, Begin(s, op, a, u, "none", 0),
             op \in {"updateSettings", "requestOrg", "approveOrg", "rejectOrg", "createSpace",
                     "updateSpace", "removeSpace", "removeUser"}
      PROVE  Found
  <2>1. CallSound(new(op, u, "none", 0)) /\ RequestSound(new(op, u, "none", 0))
    BY <1>4 DEF CallSound, RequestSound
  <2> QED BY <1>0, <1>4, <2>1
<1>5. ASSUME NEW u \in User, NEW r \in WorkspaceRole, NEW op \in RealmCall \cup SpaceCall,
             Begin(s, op, a, u, r, 0), op \in {"addUser", "updateUser", "join", "requestJoin"}
      PROVE  Found
  <2>1. CallSound(new(op, u, r, 0)) /\ RequestSound(new(op, u, r, 0))
    BY <1>5 DEF CallSound, RequestSound
  <2> QED BY <1>0, <1>5, <2>1
<1>6. ASSUME NEW n \in RequestId, NEW r \in WorkspaceRole \cup {"none"}, NEW op \in SpaceCall,
             request[n].state = "PENDING", Begin(s, op, a, request[n].user, r, n),
             \/ op = "approveRequest" /\ r \in WorkspaceRole
             \/ op = "rejectRequest"
      PROVE  Found
  <2> DEFINE u == request[n].user
  <2>1. u \in User BY <1>6, Shapes DEF State
  <2>2. CallSound(new(op, u, r, n)) /\ RequestSound(new(op, u, r, n))
    BY <1>6 DEF CallSound, RequestSound
  <2> HIDE DEF u
  <2>3. Begin(s, op, a, u, r, n) BY <1>6 DEF u
  <2> QED BY <1>0, <1>6, <2>1, <2>2, <2>3
<1>7. CASE BeginRealm(s, a)
  <2>1. CASE UpdateSettings(s, a) BY <1>4, <2>1 DEF UpdateSettings, RealmCall
  <2>2. CASE RequestOrg(s, a) BY <1>4, <2>2 DEF RequestOrg, RealmCall
  <2>3. ASSUME NEW u \in User, DecideOrg(s, a, u) PROVE Found
    BY <1>4, <2>3 DEF DecideOrg, RealmCall
  <2> QED BY <1>1, <1>2, <1>3, <1>7, <2>1, <2>2, <2>3 DEF BeginRealm
<1>8. CASE BeginSpace(s, a)
  <2>1. CASE CreateSpace(s, a) BY <1>4, <2>1 DEF CreateSpace, SpaceCall
  <2>2. CASE UpdateSpace(s, a) BY <1>4, <2>2 DEF UpdateSpace, SpaceCall
  <2>3. CASE RemoveSpace(s, a) BY <1>4, <2>3 DEF RemoveSpace, SpaceCall
  <2>4. CASE Join(s, a)
    <3>1. space.defaultRole \in WorkspaceRole BY DEF Space
    <3> QED BY <1>5, <2>4, <3>1 DEF Join, SpaceCall
  <2>5. ASSUME NEW u \in User, NEW r \in Tried, AddUser(s, a, u, r) \/ UpdateUser(s, a, u, r)
        PROVE  Found
    <3>1. r \in WorkspaceRole BY Shapes
    <3> QED BY <1>5, <2>5, <3>1 DEF AddUser, UpdateUser, SpaceCall
  <2>6. ASSUME NEW u \in User, RemoveUser(s, a, u) PROVE Found
    BY <1>4, <2>6 DEF RemoveUser, SpaceCall
  <2>7. ASSUME NEW r \in Tried, RequestJoin(s, a, r) PROVE Found
    <3>1. r \in WorkspaceRole BY Shapes
    <3> QED BY <1>5, <2>7, <3>1 DEF RequestJoin, SpaceCall
  <2>8. ASSUME NEW n \in RequestId, RejectRequest(s, a, n) PROVE Found
    BY <1>6, <2>8 DEF RejectRequest, SpaceCall
  <2>9. ASSUME NEW n \in RequestId, NEW r \in Tried, ApproveRequest(s, a, n, r) PROVE Found
    <3>1. r \in WorkspaceRole BY Shapes
    <3> QED BY <1>6, <2>9, <3>1 DEF ApproveRequest, SpaceCall
  <2> QED BY <1>8, <2>1, <2>2, <2>3, <2>4, <2>5, <2>6, <2>7, <2>8, <2>9 DEF BeginSpace
<1> QED BY <1>7, <1>8 DEF Checks

\* The call that writes is one that began, and it leaves its slot idle.
LEMMA Caller ==
  ASSUME Inductive, NEW s \in Slot, NEW op \in RealmCall \cup SpaceCall, Write(s, op)
  PROVE  /\ call[s] \in Call /\ call[s].user \in User /\ call[s].actor \in User
         /\ CallSound(call[s]) /\ RequestSound(call[s]) /\ call[s].op = op
         /\ call[s].first \in {"?", "row", "none"}
         /\ call' = [call EXCEPT ![s] = Idle] /\ begun' = begun
<1>1. call[s] \in {Idle} \cup Call /\ CallSound(call[s]) /\ RequestSound(call[s])
  BY TypeParts DEF Inductive, Types
<1>2. "idle" \notin RealmCall \cup SpaceCall BY DEF RealmCall, SpaceCall
<1> QED BY <1>1, <1>2, Shapes DEF Write

\* No request changes hands, and a new one has an id no call knows.
RequestsKept ==
  \A n \in RequestId :
    \/ request'[n] = NoRequest
    \/ request[n] # NoRequest /\ request'[n].user = request[n].user
    \/ \A o \in Slot : call[o].on # n

\* What is left to show of a write once its call is accounted for.
Tables ==
  /\ realm' \in [User -> RealmOf] /\ space' \in Space /\ member' \in [User -> SpaceOf]
  /\ request' \in [RequestId -> Row] /\ orgRequest' \in [User -> State \cup {"none"}]
  /\ open' \in BOOLEAN /\ (space'.state = "absent" => space' = NoSpace)
  /\ OneOwner' /\ RequestsKept

\* After the write of c everybody with a role belongs, or is known to straddle.
Belong(c) ==
  \A v \in User : member'[v] # "none" /\ v # space'.by =>
    realm'[v] # "none" \/ v \in straddled \cup Straddled(c)

\* The history variable after the commit of c.
Recorded(c) ==
  straddled' = {v \in straddled \cup Straddled(c) : member'[v] # "none" /\ realm'[v] = "none"}

\* Nobody new in the workspace and nobody out of the realm: everybody belongs.
LEMMA BelongKept ==
  ASSUME Inductive, NEW c, space'.by = space.by,
         \A v \in User : /\ member'[v] # "none" => member[v] # "none"
                         /\ realm[v] # "none" => realm'[v] # "none"
  PROVE  Belong(c)
BY DEF Inductive, MembersBelong, Belong

\* A write that keeps the tables keeps the inductive invariant.
LEMMA WriteSuffices ==
  ASSUME Inductive, NEW s \in Slot, NEW op \in RealmCall \cup SpaceCall, Write(s, op), Tables,
         Belong(call[s]), Recorded(call[s])
  PROVE  Inductive'
<1>1. /\ call' = [call EXCEPT ![s] = Idle] /\ begun' = begun /\ Types
  BY Caller, TypeParts DEF Inductive
<1>0. straddled' \subseteq User
  <2>1. Straddled(call[s]) \subseteq User BY Caller DEF Straddled
  <2> QED BY <1>1, <2>1 DEF Recorded, Types
<1>2. TypeOK' BY <1>0, <1>1, TypeParts DEF Tables, Types
<1>4. MembersBelong' BY DEF Belong, Recorded, MembersBelong
<1>3. ASSUME NEW o \in Slot PROVE (CallSound(call[o]) /\ RequestSound(call[o]))'
  <2>1. CASE o = s BY <1>1, <2>1, Shapes DEF CallSound, RequestSound, Types
  <2>2. CASE o # s
    <3>1. call'[o] = call[o] /\ CallSound(call[o]) /\ RequestSound(call[o])
      BY <1>1, <2>2 DEF Inductive, Types
    <3> QED BY <3>1 DEF CallSound, RequestSound, Tables, RequestsKept
  <2> QED BY <2>1, <2>2
<1> QED BY <1>2, <1>3, <1>4 DEF Inductive, Tables

\* A row of the realm written for somebody who is not the owner.
LEMMA RealmRowWritten ==
  ASSUME Inductive, NEW u \in User, u # Owner, NEW r \in {"none", "MEMBER", "MAINTAINER"},
         realm' = [realm EXCEPT ![u] = r]
  PROVE  realm' \in [User -> RealmOf] /\ OneOwner'
BY TypeParts DEF Inductive, Types, OneOwner, RealmOf, RealmRole

\* Whoever had no row in the realm gets one; nobody else moves.
LEMMA RowEnsured ==
  ASSUME Inductive, NEW u \in User, NEW first,
         realm' = [realm EXCEPT ![u] = IF first = "none" /\ @ = "none" THEN "MEMBER" ELSE @]
  PROVE  /\ realm' \in [User -> RealmOf] /\ OneOwner' /\ (first = "none" => realm'[u] # "none")
         /\ \A v \in User : /\ realm[v] # "none" => realm'[v] = realm[v]
                            /\ realm'[v] \in {realm[v], "MEMBER"}
BY TypeParts, OwnerIsUser DEF Inductive, Types, OneOwner, RealmOf, RealmRole

\* Every write to the realm keeps the inductive invariant.
LEMMA WriteRealmStep ==
  ASSUME Inductive, NEW s \in Slot, WriteRealm(s), Recorded(call[s]) PROVE Inductive'
<1> USE TypeParts DEF Inductive, Types
<1> DEFINE u == call[s].user
<1>1. CASE WriteAddRealmUser(s) \/ WriteUpdateRealmUser(s)
  <2>1. PICK op \in {"addRealmUser", "updateRealmUser"} : Write(s, op)
    BY <1>1 DEF WriteAddRealmUser, WriteUpdateRealmUser
  <2>2. op \in RealmCall \cup SpaceCall BY DEF RealmCall
  <2>3. u \in User /\ u # Owner /\ call[s].role \in {"MEMBER", "MAINTAINER"}
    BY <2>1, <2>2, Caller DEF CallSound
  <2>4. /\ realm' = [realm EXCEPT ![u] = call[s].role]
        /\ UNCHANGED <<space, member, request, orgRequest, open>>
    BY <1>1 DEF WriteAddRealmUser, WriteUpdateRealmUser
  <2> HIDE DEF u
  <2>5. realm' \in [User -> RealmOf] /\ OneOwner' BY <2>3, <2>4, RealmRowWritten
  <2>6. Belong(call[s]) BY <2>3, <2>4, BelongKept
  <2>7. Tables BY <2>4, <2>5 DEF Tables, RequestsKept
  <2> QED BY <2>1, <2>2, <2>6, <2>7, WriteSuffices
<1>2. CASE WriteRemoveRealmUser(s)
  <2>1. Write(s, "removeRealmUser") /\ "removeRealmUser" \in RealmCall \cup SpaceCall
    BY <1>2 DEF WriteRemoveRealmUser, RealmCall
  <2>2. u \in User /\ u # Owner BY <2>1, Caller DEF CallSound
  <2>0. call[s].op = "removeRealmUser" /\ call[s].first \in {"row", "none"}
    BY <1>2, <2>1, Caller DEF WriteRemoveRealmUser
  <2>3. /\ member' = [member EXCEPT ![u] = IF call[s].first = "row" THEN "none" ELSE @]
        /\ realm' = [realm EXCEPT ![u] = "none"]
        /\ request' = [n \in RequestId |-> IF request[n].user = u /\ request[n].state = "PENDING"
                                           THEN NoRequest ELSE request[n]]
        /\ UNCHANGED <<space, orgRequest, open>>
    BY <1>2 DEF WriteRemoveRealmUser
  <2>9. Belong(call[s])
    <3> SUFFICES ASSUME NEW v \in User, member'[v] # "none", v # space'.by
                 PROVE  realm'[v] # "none" \/ v \in straddled \cup Straddled(call[s])
      BY DEF Belong
    <3>1. CASE v = u
      <4>1. call[s].first = "none" /\ member[u] # "none" BY <2>0, <2>3, <3>1
      <4> QED BY <2>0, <3>1, <4>1 DEF Straddled
    <3>2. CASE v # u BY <2>2, <2>3, <3>2 DEF MembersBelong
    <3> QED BY <3>1, <3>2
  <2> HIDE DEF u
  <2>4. realm' \in [User -> RealmOf] /\ OneOwner' BY <2>2, <2>3, RealmRowWritten
  <2>6. member' \in [User -> SpaceOf] BY <2>3 DEF SpaceOf
  <2>7. request' \in [RequestId -> Row] /\ RequestsKept BY <2>3, Shapes DEF RequestsKept
  <2>8. Tables BY <2>3, <2>4, <2>6, <2>7 DEF Tables
  <2> QED BY <2>1, <2>8, <2>9, WriteSuffices
<1>3. CASE WriteUpdateSettings(s)
  <2>1. Tables BY <1>3 DEF WriteUpdateSettings, Tables, RequestsKept, OneOwner
  <2>2. Belong(call[s]) BY <1>3, BelongKept DEF WriteUpdateSettings
  <2> QED BY <1>3, <2>1, <2>2, WriteSuffices DEF WriteUpdateSettings, RealmCall
<1>4. CASE WriteRequestOrg(s) \/ WriteRejectOrg(s)
  <2>1. Tables
    BY <1>4 DEF WriteRequestOrg, WriteRejectOrg, Tables, RequestsKept, OneOwner, State
  <2>2. Belong(call[s]) BY <1>4, BelongKept DEF WriteRequestOrg, WriteRejectOrg
  <2> QED BY <1>4, <2>1, <2>2, WriteSuffices DEF WriteRequestOrg, WriteRejectOrg, RealmCall
<1>5. CASE WriteApproveOrg(s)
  <2>1. Write(s, "approveOrg") /\ "approveOrg" \in RealmCall \cup SpaceCall
    BY <1>5 DEF WriteApproveOrg, RealmCall
  <2>2. u \in User BY <2>1, Caller
  <2>3. /\ realm' = [realm EXCEPT ![u] = IF "none" = "none" /\ @ = "none" THEN "MEMBER" ELSE @]
        /\ orgRequest' = [orgRequest EXCEPT ![u] = "APPROVED"]
        /\ UNCHANGED <<space, member, request, open>>
    BY <1>5 DEF WriteApproveOrg
  <2> HIDE DEF u
  <2>4. /\ realm' \in [User -> RealmOf] /\ OneOwner'
        /\ \A v \in User : realm[v] # "none" => realm'[v] # "none"
    BY <2>2, <2>3, RowEnsured
  <2>5. Tables BY <2>2, <2>3, <2>4 DEF Tables, RequestsKept, State
  <2>6. Belong(call[s]) BY <2>3, <2>4, BelongKept
  <2> QED BY <2>1, <2>5, <2>6, WriteSuffices
<1> QED BY <1>1, <1>2, <1>3, <1>4, <1>5 DEF WriteRealm

\* A row of the workspace written for somebody ensured to be in the realm.
LEMMA SpaceRowWritten ==
  ASSUME Inductive, NEW c \in Call, c.op \in Ensuring, Ensured(c), space' = space,
         NEW r \in SpaceOf, member' = [member EXCEPT ![c.user] = r]
  PROVE  /\ realm' \in [User -> RealmOf] /\ OneOwner' /\ Belong(c)
         /\ member' \in [User -> SpaceOf]
<1> DEFINE u == c.user
<1>1. u \in User /\ c.first \in {"row", "none"} BY Shapes DEF Ensured
<1>2. /\ realm' \in [User -> RealmOf] /\ OneOwner' /\ (c.first = "none" => realm'[u] # "none")
      /\ \A v \in User : realm[v] # "none" => realm'[v] = realm[v]
  BY <1>1, RowEnsured DEF Ensured
<1>3. member' \in [User -> SpaceOf] BY <1>1, TypeParts DEF Inductive, Types
<1>4. Belong(c)
  <2> SUFFICES ASSUME NEW v \in User, member'[v] # "none", v # space'.by
               PROVE  realm'[v] # "none" \/ v \in straddled \cup Straddled(c)
    BY DEF Belong
  <2>1. CASE v = u
    <3>1. CASE c.first = "none" BY <1>2, <2>1, <3>1
    <3>2. CASE c.first = "row" /\ realm[u] = "none" BY <1>1, <2>1, <3>2 DEF Straddled
    <3>3. CASE realm[u] # "none" BY <1>1, <1>2, <2>1, <3>3
    <3> QED BY <1>1, <3>1, <3>2, <3>3
  <2>2. CASE v # u
    <3>1. member[v] # "none" BY <1>1, <2>2, TypeParts DEF Inductive, Types
    <3> QED BY <1>2, <3>1 DEF Inductive, MembersBelong
  <2> QED BY <2>1, <2>2
<1> QED BY <1>2, <1>3, <1>4

\* Every write to the workspace keeps the inductive invariant.
LEMMA WriteSpaceStep ==
  ASSUME Inductive, NEW s \in Slot, WriteSpace(s), Recorded(call[s]) PROVE Inductive'
<1> USE TypeParts DEF Inductive, Types
<1> DEFINE u == call[s].user
<1>1. CASE WriteCreateSpace(s)
  <2>1. Write(s, "createSpace") /\ "createSpace" \in RealmCall \cup SpaceCall
    BY <1>1 DEF WriteCreateSpace, SpaceCall
  <2> DEFINE a == call[s].actor
  <2>2. a \in User BY <2>1, Caller
  <2>3. /\ member' = [member EXCEPT ![a] = "ADMIN"] /\ UNCHANGED <<realm, request, orgRequest, open>>
        /\ space' \in [state : {"present"}, visibility : Visibility, defaultRole : Tried, by : {a}]
        /\ space = NoSpace
    BY <1>1 DEF WriteCreateSpace
  <2> HIDE DEF a
  <2>4. space' \in Space /\ space'.state # "absent" /\ space'.by = a
    BY <2>2, <2>3, Shapes DEF Space
  <2>5. member' \in [User -> SpaceOf] BY <2>3 DEF SpaceOf, WorkspaceRole
  <2>6. OneOwner' BY <2>3 DEF OneOwner
  <2>7. Belong(call[s])
    BY <2>2, <2>3, <2>4 DEF Belong, MembersBelong, OneOwner, NoSpace
  <2>8. Tables BY <2>3, <2>4, <2>5, <2>6 DEF Tables, RequestsKept
  <2> QED BY <2>1, <2>7, <2>8, WriteSuffices
<1>2. CASE WriteUpdateSpace(s)
  <2>1. PICK v \in Visibility, r \in Tried : space' = [space EXCEPT !.visibility = v, !.defaultRole = r]
    BY <1>2 DEF WriteUpdateSpace
  <2>2. space' \in Space /\ space'.state = space.state /\ space'.by = space.by
    BY <2>1, Shapes DEF Space
  <2>3. Exists /\ UNCHANGED <<realm, member, request, orgRequest, open>> BY <1>2 DEF WriteUpdateSpace
  <2>4. Tables
    BY <2>2, <2>3 DEF Tables, RequestsKept, OneOwner, Exists
  <2>5. Belong(call[s]) BY <2>2, <2>3, BelongKept
  <2> QED BY <1>2, <2>4, <2>5, WriteSuffices DEF WriteUpdateSpace, SpaceCall
<1>3. CASE WriteRemoveSpace(s)
  <2>1. /\ space' = [space EXCEPT !.state = "deleted"] /\ member' = [x \in User |-> "none"]
        /\ request' = [n \in RequestId |-> NoRequest] /\ UNCHANGED <<realm, orgRequest, open>>
    BY <1>3 DEF WriteRemoveSpace
  <2>2. space' \in Space /\ space'.state = "deleted" BY <2>1 DEF Space
  <2>3. Tables
    BY <2>1, <2>2, Shapes DEF Tables, RequestsKept, OneOwner, SpaceOf
  <2>4. Belong(call[s]) BY <2>1 DEF Belong
  <2> QED BY <1>3, <2>3, <2>4, WriteSuffices DEF WriteRemoveSpace, SpaceCall
<1>4. CASE WriteAddUser(s) \/ WriteJoin(s)
  <2>1. PICK op \in {"addUser", "join"} : Write(s, op) BY <1>4 DEF WriteAddUser, WriteJoin
  <2>2. op \in RealmCall \cup SpaceCall BY DEF SpaceCall
  <2>3. /\ call[s] \in Call /\ call[s].op \in Ensuring /\ call[s].role \in SpaceOf
    BY <2>1, <2>2, Caller DEF CallSound, SpaceOf, Ensuring
  <2>4. /\ Ensured(call[s]) /\ member' = [member EXCEPT ![u] = call[s].role]
        /\ UNCHANGED <<space, request, orgRequest, open>>
    BY <1>4 DEF WriteAddUser, WriteJoin
  <2>5. /\ realm' \in [User -> RealmOf] /\ OneOwner' /\ Belong(call[s])
        /\ member' \in [User -> SpaceOf]
    BY <2>3, <2>4, SpaceRowWritten
  <2> HIDE DEF u
  <2>6. Tables BY <2>4, <2>5 DEF Tables, RequestsKept
  <2> QED BY <2>1, <2>2, <2>5, <2>6, WriteSuffices
<1>5. CASE WriteUpdateUser(s) \/ WriteRemoveUser(s)
  <2>1. PICK op \in {"updateUser", "removeUser"} : Write(s, op)
    BY <1>5 DEF WriteUpdateUser, WriteRemoveUser
  <2>2. op \in RealmCall \cup SpaceCall BY DEF SpaceCall
  <2>3. \E r \in SpaceOf : member' = [member EXCEPT ![u] = r]
    <3>1. CASE WriteUpdateUser(s)
      <4>1. call[s].role \in WorkspaceRole
        BY <3>1, Caller DEF WriteUpdateUser, SpaceCall, CallSound
      <4> QED BY <3>1, <4>1 DEF WriteUpdateUser, SpaceOf
    <3>2. CASE WriteRemoveUser(s) BY <3>2 DEF WriteRemoveUser, SpaceOf
    <3> QED BY <1>5, <3>1, <3>2
  <2>4. u \in User /\ member[u] # "none" /\ UNCHANGED <<realm, space, request, orgRequest, open>>
    BY <1>5, <2>1, <2>2, Caller DEF WriteUpdateUser, WriteRemoveUser
  <2> HIDE DEF u
  <2>5. member' \in [User -> SpaceOf] /\ OneOwner' BY <2>3, <2>4 DEF OneOwner
  <2>6. Tables BY <2>4, <2>5 DEF Tables, RequestsKept
  <2>7. Belong(call[s]) BY <2>3, <2>4, BelongKept
  <2> QED BY <2>1, <2>2, <2>6, <2>7, WriteSuffices
<1>6. CASE WriteRequestJoin(s)
  <2>1. Write(s, "requestJoin") /\ "requestJoin" \in RealmCall \cup SpaceCall
    BY <1>6 DEF WriteRequestJoin, SpaceCall
  <2>2. u \in User /\ call[s].role \in WorkspaceRole BY <2>1, Caller DEF CallSound
  <2> DEFINE row == [user |-> u, role |-> call[s].role, state |-> "PENDING"]
  <2>3. PICK n \in RequestId : /\ \A o \in Slot : call[o].on # n
                               /\ request' = [request EXCEPT ![n] = row]
    BY <1>6 DEF WriteRequestJoin
  <2>4. row \in Row BY <2>2 DEF Row, State
  <2>5. UNCHANGED <<realm, space, member, orgRequest, open>> BY <1>6 DEF WriteRequestJoin
  <2> HIDE DEF row, u
  <2>6. request' \in [RequestId -> Row] BY <2>3, <2>4
  <2>7. RequestsKept BY <2>3 DEF RequestsKept
  <2>8. Tables BY <2>5, <2>6, <2>7 DEF Tables, OneOwner
  <2>9. Belong(call[s]) BY <2>5, BelongKept
  <2> QED BY <2>1, <2>8, <2>9, WriteSuffices
<1>7. ASSUME NEW op \in {"approveRequest", "rejectRequest"}, Write(s, op),
             NEW st \in {"APPROVED", "REJECTED"},
             request[call[s].on] # NoRequest, request' = [request EXCEPT ![call[s].on].state = st]
      PROVE  request' \in [RequestId -> Row] /\ RequestsKept
  <2>1. op \in RealmCall \cup SpaceCall BY DEF SpaceCall
  <2> DEFINE n == call[s].on
             row == [request[n] EXCEPT !.state = st]
  <2>2. n \in RequestId BY <1>7, <2>1, Caller DEF RequestSound
  <2>3. request[n] \in [user : User, role : WorkspaceRole, state : State]
    BY <1>7, <2>2 DEF Row
  <2>4. row \in Row /\ row.user = request[n].user BY <2>3 DEF Row, State
  <2>5. request' = [request EXCEPT ![n] = row] BY <1>7, <2>2
  <2> HIDE DEF row, n
  <2>6. request' \in [RequestId -> Row] BY <2>4, <2>5
  <2>7. request[n] # NoRequest BY <1>7 DEF n
  <2>8. RequestsKept BY <2>2, <2>4, <2>5, <2>7 DEF RequestsKept
  <2> QED BY <2>6, <2>8
<1>8. CASE WriteApproveRequest(s)
  <2>1. Write(s, "approveRequest") /\ "approveRequest" \in RealmCall \cup SpaceCall
    BY <1>8 DEF WriteApproveRequest, SpaceCall
  <2>2. /\ call[s] \in Call /\ call[s].op \in Ensuring /\ call[s].role \in SpaceOf
    BY <2>1, Caller DEF CallSound, SpaceOf, Ensuring
  <2>3. /\ Ensured(call[s]) /\ member' = [member EXCEPT ![u] = call[s].role]
        /\ UNCHANGED <<space, orgRequest, open>>
    BY <1>8 DEF WriteApproveRequest
  <2>4. request' \in [RequestId -> Row] /\ RequestsKept
    BY <1>7, <1>8, <2>1 DEF WriteApproveRequest
  <2>5. /\ realm' \in [User -> RealmOf] /\ OneOwner' /\ Belong(call[s])
        /\ member' \in [User -> SpaceOf]
    BY <2>2, <2>3, SpaceRowWritten
  <2> HIDE DEF u
  <2>6. Tables BY <2>3, <2>4, <2>5 DEF Tables
  <2> QED BY <2>1, <2>5, <2>6, WriteSuffices
<1>9. CASE WriteRejectRequest(s)
  <2>1. Write(s, "rejectRequest") /\ "rejectRequest" \in RealmCall \cup SpaceCall
    BY <1>9 DEF WriteRejectRequest, SpaceCall
  <2>2. request' \in [RequestId -> Row] /\ RequestsKept
    BY <1>7, <1>9, <2>1 DEF WriteRejectRequest
  <2>3. Tables
    BY <1>9, <2>2 DEF WriteRejectRequest, Tables, OneOwner
  <2>4. Belong(call[s]) BY <1>9, BelongKept DEF WriteRejectRequest
  <2> QED BY <2>1, <2>3, <2>4, WriteSuffices
<1> QED BY <1>1, <1>2, <1>3, <1>4, <1>5, <1>6, <1>8, <1>9 DEF WriteSpace

\* The table rows do not move when a call begins or reads.
LEMMA QuietStep ==
  ASSUME Inductive, NEW s \in Slot, NEW c \in {Idle} \cup Call, call' = [call EXCEPT ![s] = c],
         CallSound(c), RequestSound(c), UNCHANGED db, begun' \in 0 .. MaxCalls
  PROVE  Inductive'
<1>1. /\ realm' = realm /\ space' = space /\ member' = member /\ request' = request
      /\ orgRequest' = orgRequest /\ open' = open /\ straddled' = straddled
  BY DEF db
<1>2. TypeOK' BY <1>1, TypeParts DEF Inductive, Types
<1>3. ASSUME NEW o \in Slot PROVE (CallSound(call[o]) /\ RequestSound(call[o]))'
  <2>1. call'[o] \in {c, call[o]} BY TypeParts DEF Inductive, Types
  <2>2. CallSound(call'[o]) /\ RequestSound(call'[o]) BY <2>1 DEF Inductive
  <2> QED BY <1>1, <2>2 DEF CallSound, RequestSound
<1>4. OneOwner' /\ MembersBelong' BY <1>1 DEF Inductive, OneOwner, MembersBelong
<1> QED BY <1>1, <1>2, <1>3, <1>4 DEF Inductive

\* Reading both realm roles keeps the inductive invariant.
LEMMA ReadStep == ASSUME Inductive, NEW s \in Slot, ReadRealmRoles(s) PROVE Inductive'
<1> USE TypeParts DEF Inductive, Types
<1> DEFINE seen == [actor |-> realm[call[s].actor], target |-> realm[call[s].user]]
           c    == [call[s] EXCEPT !.seen = seen]
<1>1. call[s].op \in RealmCall \cup SpaceCall /\ call[s] \in Call
  BY Shapes DEF ReadRealmRoles, SpaceCall
<1>0. call' = [call EXCEPT ![s] = c] /\ UNCHANGED <<db, begun>> BY DEF ReadRealmRoles
<1>2. seen \in Seen BY <1>1, Shapes DEF Seen
<1> HIDE DEF seen
<1>3. /\ c \in Call /\ c.op = call[s].op /\ c.actor = call[s].actor /\ c.user = call[s].user
      /\ c.role = call[s].role /\ c.on = call[s].on
  BY <1>1, <1>2 DEF Call, Seen, RealmOf
<1> HIDE DEF c
<1>5. CallSound(c) /\ RequestSound(c) BY <1>3 DEF CallSound, RequestSound
<1> QED BY <1>0, <1>3, <1>5, QuietStep

\* A transaction's first statement keeps the inductive invariant.
LEMMA FirstStep ==
  ASSUME Inductive, NEW s \in Slot, NEW found \in BOOLEAN, First(s, found), call[s].op # "idle"
  PROVE  Inductive'
<1> USE TypeParts DEF Inductive, Types
<1> DEFINE c == [call[s] EXCEPT !.first = IF found THEN "row" ELSE "none"]
<1>0. call' = [call EXCEPT ![s] = c] /\ UNCHANGED <<db, begun>> BY DEF First
<1>1. call[s] \in Call BY Shapes
<1>2. /\ c \in Call /\ c.op = call[s].op /\ c.actor = call[s].actor /\ c.user = call[s].user
      /\ c.role = call[s].role /\ c.on = call[s].on
  BY <1>1 DEF Call
<1> HIDE DEF c
<1>3. CallSound(c) /\ RequestSound(c) BY <1>2 DEF CallSound, RequestSound
<1> QED BY <1>0, <1>2, <1>3, QuietStep

\* A transaction rolled back keeps the inductive invariant.
LEMMA RollBackStep == ASSUME Inductive, NEW s \in Slot, RollBack(s) PROVE Inductive'
<1>1. CallSound(Idle) /\ RequestSound(Idle) BY DEF CallSound, RequestSound, Idle
<1>2. begun' \in 0 .. MaxCalls BY TypeParts DEF Inductive, Types, RollBack
<1> QED BY <1>1, <1>2, QuietStep DEF RollBack

\* The tables stay well formed, the realm keeps its one owner, whoever has a
\* workspace role is in the realm unless a removal overlapped with the call that
\* gave the role, and what a call checked covers what it writes, however calls
\* interleave between their checks, their first statements and their commits
\* (realm.service.ts:139-221, workspaces.service.ts:212-455).
THEOREM InductiveHolds == Spec => []Inductive
<1>1. Init => Inductive
  <2> SUFFICES ASSUME Init PROVE Inductive OBVIOUS
  <2>1. \A s \in Slot : CallSound(call[s]) /\ RequestSound(call[s])
    BY DEF Init, CallSound, RequestSound, Idle
  <2>2. OneOwner /\ MembersBelong BY DEF Init, OneOwner, MembersBelong
  <2>3. space \in Space /\ (space.state = "absent" => space = NoSpace)
    BY Shapes DEF Init, Space, WorkspaceRole
  <2>4. member \in [User -> SpaceOf] BY Shapes DEF Init, SpaceOf
  <2>5. request \in [RequestId -> Row]
    <3>1. [user : User, role : {"READ"}, state : {"PENDING"}] \subseteq Row
      BY DEF Row, WorkspaceRole, State
    <3> QED BY <3>1, Shapes DEF Init
  <2>6. orgRequest \in [User -> State \cup {"none"}] /\ call \in [Slot -> {Idle} \cup Call]
    BY DEF Init
  <2>7. begun \in 0 .. MaxCalls BY CallsAreBounded DEF Init
  <2>8. Types BY <2>3, <2>4, <2>5, <2>6, <2>7 DEF Init, Types, RealmOf
  <2> QED BY <2>1, <2>2, <2>3, <2>8, TypeParts DEF Inductive
<1>2. ASSUME Inductive, [Next]_vars PROVE Inductive'
  <2>1. ASSUME NEW s \in Slot, NEW a \in User, Checks(s, a) PROVE Inductive'
    <3>1. PICK c \in Call : Entered(s, c) /\ CallSound(c) /\ RequestSound(c)
      BY <1>2, <2>1, ChecksEnter
    <3>2. begun' \in 0 .. MaxCalls
      BY <1>2, <3>1, CallsAreBounded, TypeParts DEF Entered, Inductive, Types
    <3> QED BY <1>2, <3>1, <3>2, QuietStep DEF Entered
  <2>2. CASE UNCHANGED vars
    BY <1>2, <2>2, TypeParts
       DEF vars, db, Inductive, Types, OneOwner, MembersBelong, CallSound, RequestSound
  <2>3. ASSUME NEW s \in Slot, Commit(s) PROVE Inductive'
    <3>1. (WriteRealm(s) \/ WriteSpace(s)) /\ Recorded(call[s]) BY <2>3 DEF Commit, Recorded
    <3> QED BY <1>2, <3>1, WriteRealmStep, WriteSpaceStep
  <2>4. ASSUME NEW s \in Slot,
               \/ ReadRealmRoles(s) \/ DeleteMemberships(s) \/ EnsureRealmMember(s) \/ RollBack(s)
        PROVE  Inductive'
    BY <1>2, <2>4, ReadStep, FirstStep, RollBackStep
       DEF DeleteMemberships, EnsureRealmMember, Ensuring
  <2> QED BY <1>2, <2>1, <2>2, <2>3, <2>4 DEF Next, Checks
<1> QED BY <1>1, <1>2, PTL DEF Spec
-----------------------------------------------------------------------------
(***************************************************************************)
(* What a step never does.                                                 *)
(***************************************************************************)

\* Until a call writes, the roles stay what they are.
LEMMA OnlyWritesMove ==
  ASSUME Inductive, [Next]_vars
  PROVE  \/ realm' = realm /\ member' = member
         \/ \E s \in Slot : WriteRealm(s) \/ WriteSpace(s)
<1>1. ASSUME NEW s \in Slot, NEW a \in User, Checks(s, a) PROVE realm' = realm /\ member' = member
  BY <1>1, ChecksEnter DEF Entered, db
<1>2. ASSUME NEW s \in Slot, ReadRealmRoles(s) PROVE realm' = realm /\ member' = member
  BY <1>2 DEF ReadRealmRoles, db
<1>3. ASSUME NEW s \in Slot, DeleteMemberships(s) \/ EnsureRealmMember(s) \/ RollBack(s)
      PROVE  realm' = realm /\ member' = member
  BY <1>3 DEF DeleteMemberships, EnsureRealmMember, RollBack, First, db
<1> QED BY <1>1, <1>2, <1>3 DEF Next, Commit, Checks, vars, db

\* Whoever becomes a maintainer was made one by the owner, and ownership does
\* not change hands, although roles are checked in one step and written in a
\* later one (realm.service.ts:157-221).
THEOREM OwnershipIsKept == Spec => OwnerAppoints
<1> DEFINE Step(u) == realm'[u] # realm[u] =>
             /\ "OWNER" \notin {realm[u], realm'[u]}
             /\ realm'[u] = "MAINTAINER" => \E s \in Slot : call[s] # call'[s] /\ call[s].actor = Owner
<1>1. ASSUME Inductive, [Next]_vars, NEW u \in User PROVE Step(u)
  <2> USE TypeParts, <1>1 DEF Inductive, Types
  <2>1. ASSUME NEW v \in User, v # Owner, NEW r \in {"none", "MEMBER"}, realm' = [realm EXCEPT ![v] = r]
        PROVE  Step(u)
    BY <2>1 DEF OneOwner
  <2>2. ASSUME NEW v \in User, NEW first,
               realm' = [realm EXCEPT ![v] = IF first = "none" /\ @ = "none" THEN "MEMBER" ELSE @]
        PROVE  Step(u)
    <3>1. realm'[u] \in {realm[u], "MEMBER"} /\ (realm[u] # "none" => realm'[u] = realm[u])
      BY <2>2, RowEnsured
    <3> QED BY <3>1
  <2>3. ASSUME NEW s \in Slot, WriteAddRealmUser(s) \/ WriteUpdateRealmUser(s) PROVE Step(u)
    <3>1. PICK op \in {"addRealmUser", "updateRealmUser"} : Write(s, op)
      BY <2>3 DEF WriteAddRealmUser, WriteUpdateRealmUser
    <3>2. op \in RealmCall \cup SpaceCall /\ op # "idle" BY DEF RealmCall
    <3>3. /\ call[s].user \in User /\ call[s].user # Owner /\ call[s].role \in {"MEMBER", "MAINTAINER"}
          /\ call[s].role = "MAINTAINER" => call[s].actor = Owner
      BY <3>1, <3>2, Caller DEF CallSound
    <3>4. realm' = [realm EXCEPT ![call[s].user] = call[s].role]
      BY <2>3 DEF WriteAddRealmUser, WriteUpdateRealmUser
    <3>5. call[s] # call'[s] BY <3>1, <3>2, Caller, Shapes
    <3> QED BY <3>3, <3>4, <3>5 DEF OneOwner
  <2>4. ASSUME NEW s \in Slot, WriteRealm(s) PROVE Step(u)
    <3>1. CASE WriteRemoveRealmUser(s)
      <4>1. call[s].user \in User /\ call[s].user # Owner
        BY <3>1, Caller DEF WriteRemoveRealmUser, RealmCall, CallSound
      <4> QED BY <2>1, <3>1, <4>1 DEF WriteRemoveRealmUser
    <3>2. CASE WriteApproveOrg(s)
      <4>1. call[s].user \in User BY <3>2, Caller DEF WriteApproveOrg, RealmCall
      <4>2. realm' = [realm EXCEPT ![call[s].user] =
                        IF "none" = "none" /\ @ = "none" THEN "MEMBER" ELSE @]
        BY <3>2 DEF WriteApproveOrg
      <4> QED BY <2>2, <4>1, <4>2
    <3>3. CASE WriteUpdateSettings(s) \/ WriteRequestOrg(s) \/ WriteRejectOrg(s)
      BY <3>3 DEF WriteUpdateSettings, WriteRequestOrg, WriteRejectOrg
    <3> QED BY <2>3, <2>4, <3>1, <3>2, <3>3 DEF WriteRealm
  <2>5. ASSUME NEW s \in Slot, WriteSpace(s) PROVE Step(u)
    <3>1. CASE WriteAddUser(s) \/ WriteJoin(s) \/ WriteApproveRequest(s)
      <4>1. PICK op \in {"addUser", "join", "approveRequest"} : Write(s, op)
        BY <3>1 DEF WriteAddUser, WriteJoin, WriteApproveRequest
      <4>2. call[s].user \in User BY <4>1, Caller DEF SpaceCall
      <4>3. Ensured(call[s]) BY <3>1 DEF WriteAddUser, WriteJoin, WriteApproveRequest
      <4> QED BY <2>2, <4>2, <4>3 DEF Ensured
    <3>2. CASE realm' = realm BY <3>2
    <3> QED BY <2>5, <3>1, <3>2
         DEF WriteSpace, WriteCreateSpace, WriteUpdateSpace, WriteRemoveSpace, WriteUpdateUser,
             WriteRemoveUser, WriteRequestJoin, WriteRejectRequest
  <2> QED BY <2>4, <2>5, OnlyWritesMove
<1> HIDE DEF Step
<1>2. Inductive /\ [Next]_vars => [\A u \in User : Step(u)]_vars BY <1>1
<1>3. OwnerAppoints <=> [][\A u \in User : Step(u)]_vars BY DEF OwnerAppoints, Step
<1> QED BY <1>2, <1>3, InductiveHolds, PTL DEF Spec

\* Two admins and more are not one: the count of the last-admin guard.
LEMMA TwoAdmins ==
  ASSUME NEW u \in User, NotLastAdmin(u), member[u] = "ADMIN"
  PROVE  Admins # {u}
<1>1. Cardinality({u}) = 1 BY FS_Singleton
<1> QED BY <1>1 DEF NotLastAdmin

\* A workspace that has an admin keeps one, although calls were checked against
\* rows that others changed since; the exceptions are the paths of the code that
\* do not ask assertNotLastAdmin (workspaces.service.ts:270-295, 447-457,
\* realm.service.ts:201-225).
THEOREM AdminsStay == Spec => LastAdminStays
<1> DEFINE Excused == \/ \E u \in Admins : realm'[u] = "none"
                      \/ \E n \in RequestId : request[n].user \in Admins /\ request'[n].state = "APPROVED"
           Step == Admins # {} /\ Admins' = {} /\ Exists' => Excused
<1>1. ASSUME Inductive, [Next]_vars PROVE Step
  <2> SUFFICES ASSUME Admins # {}, Admins' = {}, Exists' PROVE Excused OBVIOUS
  <2> USE TypeParts, <1>1 DEF Inductive, Types
  <2>1. PICK s \in Slot : WriteRealm(s) \/ WriteSpace(s)
    <3>1. member' # member BY DEF Admins
    <3> QED BY <3>1, OnlyWritesMove
  <2> DEFINE u == call[s].user
  <2>2. ASSUME NEW r \in SpaceOf, member' = [member EXCEPT ![u] = r] PROVE Admins = {u}
    BY <2>2 DEF Admins
  <2>3. CASE WriteRealm(s)
    <3>1. WriteRemoveRealmUser(s)
      BY <2>3 DEF WriteRealm, WriteAddRealmUser, WriteUpdateRealmUser, WriteUpdateSettings,
                  WriteRequestOrg, WriteApproveOrg, WriteRejectOrg, Admins
    <3>2. u \in User BY <3>1, Caller DEF WriteRemoveRealmUser, RealmCall
    <3>3. Admins = {u}
      <4>1. member' = [member EXCEPT ![u] = "none"] \/ member' = member
        BY <3>1, <3>2 DEF WriteRemoveRealmUser
      <4> QED BY <2>2, <4>1 DEF Admins, SpaceOf
    <3>4. realm'[u] = "none" BY <3>1, <3>2 DEF WriteRemoveRealmUser
    <3> QED BY <3>3, <3>4
  <2>4. CASE WriteSpace(s)
    <3>1. ~WriteCreateSpace(s)
      <4> SUFFICES ASSUME WriteCreateSpace(s) PROVE FALSE OBVIOUS
      <4>1. call[s].actor \in User BY Caller DEF WriteCreateSpace, SpaceCall
      <4> QED BY <4>1 DEF WriteCreateSpace, Admins
    <3>2. ~WriteRemoveSpace(s)
      BY DEF WriteRemoveSpace, Exists, Space
    <3>3. ~(WriteAddUser(s) \/ WriteJoin(s))
      <4> SUFFICES ASSUME WriteAddUser(s) \/ WriteJoin(s) PROVE FALSE OBVIOUS
      <4>1. PICK op \in {"addUser", "join"} : Write(s, op) BY DEF WriteAddUser, WriteJoin
      <4>2. call[s].role \in SpaceOf BY <4>1, Caller DEF SpaceCall, CallSound, SpaceOf
      <4>3. Admins = {u} /\ member[u] = "none" BY <2>2, <4>2 DEF WriteAddUser, WriteJoin
      <4> QED BY <4>3 DEF Admins
    <3>4. ~(WriteUpdateUser(s) \/ WriteRemoveUser(s))
      <4> SUFFICES ASSUME WriteUpdateUser(s) \/ WriteRemoveUser(s) PROVE FALSE OBVIOUS
      <4>1. PICK op \in {"updateUser", "removeUser"} : Write(s, op)
        BY DEF WriteUpdateUser, WriteRemoveUser
      <4>2. u \in User /\ (op = "updateUser" => call[s].role \in SpaceOf)
        BY <4>1, Caller DEF SpaceCall, CallSound, SpaceOf
      <4>3. PICK r \in SpaceOf : /\ member' = [member EXCEPT ![u] = r]
                                 /\ r # "ADMIN" => NotLastAdmin(u)
        <5>1. CASE WriteUpdateUser(s)
          <6>1. call[s].role \in SpaceOf
            BY <5>1, Caller DEF WriteUpdateUser, SpaceCall, CallSound, SpaceOf
          <6> QED BY <5>1, <6>1 DEF WriteUpdateUser
        <5>2. CASE WriteRemoveUser(s) BY <5>2 DEF WriteRemoveUser, SpaceOf
        <5> QED BY <5>1, <5>2
      <4> HIDE DEF u
      <4>4. Admins = {u} /\ member[u] = "ADMIN" /\ r # "ADMIN"
        BY <2>2, <4>2, <4>3 DEF Admins, u
      <4> QED BY <4>2, <4>3, <4>4, TwoAdmins
    <3>5. WriteApproveRequest(s)
      BY <2>4, <3>1, <3>2, <3>3, <3>4
         DEF WriteSpace, WriteUpdateSpace, WriteRequestJoin, WriteRejectRequest, Admins
    <3>6. /\ call[s].role \in SpaceOf /\ call[s].on \in RequestId
          /\ request[call[s].on] # NoRequest => request[call[s].on].user = u
      BY <3>5, Caller DEF WriteApproveRequest, SpaceCall, CallSound, RequestSound, SpaceOf
    <3>7. Admins = {u} BY <2>2, <3>5, <3>6 DEF WriteApproveRequest
    <3>8. request[call[s].on].user \in Admins BY <3>5, <3>6, <3>7 DEF WriteApproveRequest
    <3>9. request'[call[s].on].state = "APPROVED"
      <4> DEFINE row == [request[call[s].on] EXCEPT !.state = "APPROVED"]
      <4>1. request[call[s].on] \in [user : User, role : WorkspaceRole, state : State]
        BY <3>5, <3>6 DEF WriteApproveRequest, Row
      <4>2. row.state = "APPROVED" BY <4>1
      <4>3. request' = [request EXCEPT ![call[s].on] = row] BY <3>5 DEF WriteApproveRequest
      <4> HIDE DEF row
      <4> QED BY <3>6, <4>2, <4>3
    <3> QED BY <3>6, <3>8, <3>9
  <2> QED BY <2>1, <2>3, <2>4
<1> HIDE DEF Step
<1>2. Inductive /\ [Next]_vars => [Step]_vars BY <1>1
<1>3. LastAdminStays <=> [][Step]_vars BY DEF LastAdminStays, Step
<1> QED BY <1>2, <1>3, InductiveHolds, PTL DEF Spec
-----------------------------------------------------------------------------
(***************************************************************************)
(* The gates, the search filter and the pages agree about every role.      *)
(***************************************************************************)

\* The higher of two workspace roles.
LEMMA MaxFacts ==
  ASSUME NEW a \in SpaceOf, NEW b \in SpaceOf
  PROVE  LET m == MaxWorkspaceRole(a, b) IN
         /\ m \in SpaceOf
         /\ m = "none" <=> a = "none" /\ b = "none"
         /\ m = "ADMIN" <=> a = "ADMIN" \/ b = "ADMIN"
         /\ m \in {"EDIT", "ADMIN"} <=> a \in {"EDIT", "ADMIN"} \/ b \in {"EDIT", "ADMIN"}
BY DEF SpaceOf, WorkspaceRole, MaxWorkspaceRole, WS_ORDER

\* The two thresholds asked for.
LEMMA MeetsFacts ==
  ASSUME NEW a \in SpaceOf
  PROVE  /\ MeetsWorkspaceRole(a, "EDIT") <=> a \in {"EDIT", "ADMIN"}
         /\ MeetsWorkspaceRole(a, "ADMIN") <=> a = "ADMIN"
BY DEF SpaceOf, WorkspaceRole, MeetsWorkspaceRole, WS_ORDER

\* What the overlay, the row and the visibility come to.
LEMMA EffectiveFacts ==
  ASSUME NEW rr \in RealmOf, NEW ws \in SpaceOf, NEW v \in Visibility
  PROVE  LET e == EffectiveWorkspaceRole(rr, ws, v) IN
         /\ e \in SpaceOf
         /\ e # "none" <=> InMemberWorkspaceIds(rr, ws, v)
         /\ IsRealmAdmin(rr) => e = "ADMIN"
         /\ e = "ADMIN" <=> IsRealmAdmin(rr) \/ ws = "ADMIN"
<1> DEFINE overlay == IF IsRealmAdmin(rr) THEN "ADMIN" ELSE "none"
           public  == IF v = "PUBLIC" /\ rr # "none" THEN "READ" ELSE "none"
           first   == MaxWorkspaceRole(overlay, ws)
<1>1. overlay \in SpaceOf /\ public \in SpaceOf BY DEF SpaceOf, WorkspaceRole
<1>2. EffectiveWorkspaceRole(rr, ws, v) = MaxWorkspaceRole(first, public)
  BY DEF EffectiveWorkspaceRole
<1>3. /\ overlay = "ADMIN" <=> IsRealmAdmin(rr)
      /\ overlay = "none" <=> ~IsRealmAdmin(rr)
      /\ public # "ADMIN" /\ (public # "none" <=> v = "PUBLIC" /\ rr # "none")
  OBVIOUS
<1> HIDE DEF overlay, public
<1>4. /\ first \in SpaceOf /\ (first = "none" <=> overlay = "none" /\ ws = "none")
      /\ first = "ADMIN" <=> overlay = "ADMIN" \/ ws = "ADMIN"
  BY <1>1, MaxFacts
<1> HIDE DEF first
<1> QED BY <1>1, <1>2, <1>3, <1>4, MaxFacts DEF InMemberWorkspaceIds

\* The requirements of documents, the token's role and the pages' controls agree.
LEMMA DocumentGates ==
  ASSUME NEW rr \in RealmOf, NEW owns \in BOOLEAN, NEW eff \in SpaceOf, NEW g \in SpaceOf,
         IsRealmAdmin(rr) => eff = "ADMIN"
  PROVE  LET page == PageRole(rr, eff, g)
             mine == MyRole(owns, eff, g) IN
         /\ CanReadDoc(owns, eff, g) <=> RtcRole(owns, eff, g) # "none"
         /\ CanWriteDoc(owns, eff, g, "EDIT") => RtcRole(owns, eff, g) = "editor"
         /\ RtcRole(owns, eff, g) = "editor" =>
              CanWriteDoc(owns, eff, g, "EDIT") \/ (owns /\ eff = "none" /\ g = "none")
         /\ CanRestructureDoc(owns, eff, "ADMIN") => CanManageDoc(owns, eff, g)
         /\ CanReadDoc(owns, eff, g) =>
              /\ OffersShare(owns, page, mine) <=> CanManageDoc(owns, eff, g)
              /\ OffersEdit(page, mine) <=> RtcRole(owns, eff, g) = "editor"
<1> DEFINE page == PageRole(rr, eff, g)
           mine == MyRole(owns, eff, g)
           max  == MaxWorkspaceRole(eff, g)
<1>1. /\ max \in SpaceOf
      /\ max = "none" <=> eff = "none" /\ g = "none"
      /\ max = "ADMIN" <=> eff = "ADMIN" \/ g = "ADMIN"
      /\ max \in {"EDIT", "ADMIN"} <=> eff \in {"EDIT", "ADMIN"} \/ g \in {"EDIT", "ADMIN"}
  BY MaxFacts
<1>2. /\ RtcRole(owns, eff, g) = "editor" <=> owns \/ max \in {"EDIT", "ADMIN"}
      /\ RtcRole(owns, eff, g) = "none" <=> ~owns /\ max = "none"
  BY DEF RtcRole
<1>3. mine = IF owns THEN "ADMIN" ELSE max BY DEF MyRole
<1>4. CanWriteDoc(owns, eff, g, "EDIT") <=>
        IF owns THEN eff # "none" \/ g # "none" ELSE max \in {"EDIT", "ADMIN"}
  BY <1>1, MeetsFacts DEF CanWriteDoc
<1>5. CanRestructureDoc(owns, eff, "ADMIN") <=> owns \/ eff = "ADMIN"
  BY MeetsFacts DEF CanRestructureDoc
<1>6. /\ page \in SpaceOf /\ (page = "ADMIN" <=> eff = "ADMIN")
      /\ page \in {"EDIT", "ADMIN"} <=> eff \in {"EDIT", "ADMIN"}
  BY DEF PageRole, SpaceOf, WorkspaceRole
<1>7. mine \in SpaceOf BY <1>1, <1>3 DEF SpaceOf, WorkspaceRole
<1>8. OffersEdit(page, mine) <=> page \in {"EDIT", "ADMIN"} \/ mine \in {"EDIT", "ADMIN"}
  BY <1>6, <1>7, MaxFacts, MeetsFacts DEF OffersEdit
<1> HIDE DEF page, mine, max
<1> SUFFICES /\ CanReadDoc(owns, eff, g) <=> RtcRole(owns, eff, g) # "none"
             /\ CanWriteDoc(owns, eff, g, "EDIT") => RtcRole(owns, eff, g) = "editor"
             /\ RtcRole(owns, eff, g) = "editor" =>
                  CanWriteDoc(owns, eff, g, "EDIT") \/ (owns /\ eff = "none" /\ g = "none")
             /\ CanRestructureDoc(owns, eff, "ADMIN") => CanManageDoc(owns, eff, g)
             /\ OffersShare(owns, page, mine) <=> CanManageDoc(owns, eff, g)
             /\ OffersEdit(page, mine) <=> RtcRole(owns, eff, g) = "editor"
  BY DEF page, mine
<1> QED BY <1>1, <1>2, <1>3, <1>4, <1>5, <1>6, <1>8 DEF CanReadDoc, CanManageDoc, OffersShare

\* What the settings offer, the server accepts.
LEMMA OffersAreAccepted ==
  ASSUME NEW me \in BOOLEAN, NEW mine \in RealmOf, NEW theirs \in RealmOf, NEW ws \in SpaceOf,
         NEW count, NEW r \in OfferedRoles(me, mine, theirs, ws, count)
  PROVE  /\ CanManageMember(me, mine, theirs, ws, r) \/ (~me /\ ~IsRealmAdmin(mine) /\ r = "ADMIN")
         /\ r = "ADMIN" => IsRealmAdmin(mine)
         /\ ws = "ADMIN" => ~(count <= 1)
BY DEF OfferedRoles, RowManageable, CanManageMember, WorkspaceRole

\* Authority over the rows the realm's page lets one edit.
LEMMA EditableIsCovered ==
  ASSUME NEW mine \in RealmOf, NEW theirs \in RealmOf, RealmAtLeast(mine, "MAINTAINER"),
         RealmRowEditable(mine, theirs)
  PROVE  AuthorityOver(mine, theirs)
BY DEF RealmOf, RealmRole, RealmAtLeast, REALM_ORDER, AuthorityOver, RealmRowEditable

\* In every state, the requirements, the search filter, the token's role and
\* the pages' controls give one answer about what a user may do: the four are
\* computed by code of their own (authz.service.ts:57-161,
\* WorkspaceSettingsModal.tsx:386-406).
THEOREM RolesAlwaysAgree == Spec => []RolesAgree
<1>1. ASSUME TypeOK PROVE RolesAgree
  <2> USE TypeParts, <1>1 DEF Types
  <2>1. ASSUME NEW u \in User
        PROVE  /\ Effective(u) \in SpaceOf
               /\ Effective(u) # "none" <=> InMemberWorkspaceIds(realm[u], member[u], space.visibility)
               /\ IsRealmAdmin(realm[u]) => Effective(u) = "ADMIN"
               /\ Effective(u) = "ADMIN" <=> IsRealmAdmin(realm[u]) \/ member[u] = "ADMIN"
    <3>1. space.visibility \in Visibility BY DEF Space
    <3> QED BY <3>1, EffectiveFacts DEF Effective
  <2>2. SearchableIsReadable BY <2>1 DEF SearchableIsReadable
  <2>3. GatesAgree
    <3>1. ASSUME NEW u \in User, NEW owns \in BOOLEAN, NEW g \in SpaceOf
          PROVE  LET eff == Effective(u) IN
                 /\ CanReadDoc(owns, eff, g) <=> RtcRole(owns, eff, g) # "none"
                 /\ CanWriteDoc(owns, eff, g, "EDIT") => RtcRole(owns, eff, g) = "editor"
                 /\ RtcRole(owns, eff, g) = "editor" =>
                      CanWriteDoc(owns, eff, g, "EDIT") \/ (owns /\ eff = "none" /\ g = "none")
                 /\ CanRestructureDoc(owns, eff, "ADMIN") => CanManageDoc(owns, eff, g)
      BY <2>1, DocumentGates
    <3> QED BY <3>1 DEF GatesAgree, SpaceOf
  <2>4. PagesAgree
    <3>1. ASSUME NEW u \in User, NEW owns \in BOOLEAN, NEW g \in SpaceOf
          PROVE  LET eff  == Effective(u)
                     page == PageRole(realm[u], eff, g)
                     mine == MyRole(owns, eff, g)
                 IN  CanReadDoc(owns, eff, g) =>
                       /\ OffersShare(owns, page, mine) <=> CanManageDoc(owns, eff, g)
                       /\ OffersEdit(page, mine) <=> RtcRole(owns, eff, g) = "editor"
      BY <2>1, DocumentGates
    <3> QED BY <3>1 DEF PagesAgree, SpaceOf
  <2>5. OfferedIsAccepted
    <3> SUFFICES ASSUME NEW me \in User, NEW u \in User, Admin(me), member[u] # "none"
                 PROVE  /\ \A r \in OfferedRoles(me = u, realm[me], realm[u], member[u], Cardinality(Admins)) :
                             /\ CanManageMember(me = u, realm[me], realm[u], member[u], r)
                             /\ r # "ADMIN" => NotLastAdmin(u)
                        /\ Maintains(me) /\ realm[u] # "none" /\ RealmRowEditable(realm[me], realm[u]) =>
                             AuthorityOver(realm[me], realm[u])
      BY DEF OfferedIsAccepted
    <3>1. ASSUME NEW r \in OfferedRoles(me = u, realm[me], realm[u], member[u], Cardinality(Admins))
          PROVE  CanManageMember(me = u, realm[me], realm[u], member[u], r) /\ NotLastAdmin(u)
      <4>1. Cardinality(Admins) \in Nat
        BY UsersAreFinite, FS_Subset, FS_CardinalityType DEF Admins
      <4>2. /\ CanManageMember(me = u, realm[me], realm[u], member[u], r)
            /\ member[u] = "ADMIN" => ~(Cardinality(Admins) <= 1)
        BY <3>1, OffersAreAccepted
      <4> QED BY <4>1, <4>2 DEF NotLastAdmin
    <3>2. Maintains(me) /\ RealmRowEditable(realm[me], realm[u]) => AuthorityOver(realm[me], realm[u])
      BY EditableIsCovered DEF Maintains
    <3> QED BY <3>1, <3>2
  <2> QED BY <2>2, <2>3, <2>4, <2>5 DEF RolesAgree
<1>2. Inductive => TypeOK BY DEF Inductive
<1> QED BY <1>1, <1>2, InductiveHolds, PTL
=============================================================================
