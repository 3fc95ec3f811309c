------------------------------- MODULE Roles -------------------------------
(***************************************************************************)
(* The two role ladders and the rules over them, as the server computes    *)
(* them on every request and as the pages compute them to decide which     *)
(* controls to show.  Everything here is a function of its arguments.      *)
(***************************************************************************)
EXTENDS Naturals

RealmRole     == {"MEMBER", "MAINTAINER", "OWNER"}
WorkspaceRole == {"READ", "COMMENT", "EDIT", "ADMIN"}

REALM_ORDER == [none |-> 0, MEMBER |-> 1, MAINTAINER |-> 2, OWNER |-> 3]
WS_ORDER    == [none |-> 0, READ |-> 1, COMMENT |-> 2, EDIT |-> 3, ADMIN |-> 4]

RealmAtLeast(r, min)       == REALM_ORDER[r] >= REALM_ORDER[min]
MeetsWorkspaceRole(r, min) == WS_ORDER[r] >= WS_ORDER[min]
MaxWorkspaceRole(a, b)     == IF WS_ORDER[a] >= WS_ORDER[b] THEN a ELSE b
IsRealmAdmin(r)            == r \in {"OWNER", "MAINTAINER"}
-----------------------------------------------------------------------------
(***************************************************************************)
(* The server.  rr is a user's realm role, ws the direct workspace role,   *)
(* g the grant on one document; "none" where there is no row.              *)
(***************************************************************************)

EffectiveWorkspaceRole(rr, ws, visibility) ==
  LET overlay == IF IsRealmAdmin(rr) THEN "ADMIN" ELSE "none"
      public  == IF visibility = "PUBLIC" /\ rr # "none" THEN "READ" ELSE "none"
  IN  MaxWorkspaceRole(MaxWorkspaceRole(overlay, ws), public)

\* memberWorkspaceIds: whether the workspace is among those the user can search.
InMemberWorkspaceIds(rr, ws, visibility) ==
  \/ IsRealmAdmin(rr)
  \/ ws # "none"
  \/ rr # "none" /\ visibility = "PUBLIC"

\* assertCanManageMember: rules 1 to 3.
CanManageMember(isSelf, actorRealm, targetRealm, currentWs, nextWs) ==
  /\ targetRealm # "OWNER"
  /\ targetRealm = "MAINTAINER" => actorRealm = "OWNER"
  /\ isSelf \/ IsRealmAdmin(actorRealm) \/ "ADMIN" \notin {currentWs, nextWs}

\* Realm administration: who may manage a member of which realm role.
AuthorityOver(actorRealm, targetRealm) ==
  RealmAtLeast(actorRealm, IF targetRealm = "MAINTAINER" THEN "OWNER" ELSE "MAINTAINER")

\* requireDocRead, requireDocWrite, requireWorkspaceDocRole, requireDocManage.
CanReadDoc(owns, eff, g) == owns \/ eff # "none" \/ g # "none"

\* Mutation: a grant alone does not make an owner's footing.
CanWriteDocOnMembership(owns, eff, g, min) ==
  IF owns THEN eff # "none" ELSE MeetsWorkspaceRole(MaxWorkspaceRole(eff, g), min)

CanWriteDoc(owns, eff, g, min) ==
  IF owns THEN eff # "none" \/ g # "none"
  ELSE MeetsWorkspaceRole(MaxWorkspaceRole(eff, g), min)

CanRestructureDoc(owns, eff, min) == owns \/ MeetsWorkspaceRole(eff, min)
CanManageDoc(owns, eff, g) == owns \/ eff = "ADMIN" \/ g = "ADMIN"

\* resolveRtcRole.
RtcRole(owns, eff, g) ==
  LET role == MaxWorkspaceRole(eff, g)
  IN  IF owns \/ role \in {"ADMIN", "EDIT"} THEN "editor"
      ELSE IF role = "none" THEN "none" ELSE "viewer"

\* What the document's payload says of the caller (get, attachRoles).
MyRole(owns, eff, g) == IF owns THEN "ADMIN" ELSE MaxWorkspaceRole(eff, g)
-----------------------------------------------------------------------------
(***************************************************************************)
(* The pages.                                                              *)
(***************************************************************************)

\* The workspace role a page works with: what GET /workspaces/:id answered
\* (READ for a guest), lifted by the realm role.
PageRole(rr, eff, g) ==
  IF IsRealmAdmin(rr) THEN "ADMIN"
  ELSE IF eff = "none" /\ g # "none" THEN "READ" ELSE eff

\* WorkspaceSettingsModal: whether a member's row is manageable at all ...
RowManageable(isYou, myRealm, theirRealm, theirWs) ==
  LET blockedByRealm == theirRealm = "OWNER" \/ (theirRealm = "MAINTAINER" /\ myRealm # "OWNER")
      blockedByAdminRule == ~isYou /\ ~IsRealmAdmin(myRealm) /\ theirWs = "ADMIN"
  IN  ~blockedByRealm /\ ~blockedByAdminRule

\* ... and which roles it offers; the last admin's row is locked.
OfferedRoles(isYou, myRealm, theirRealm, theirWs, adminCount) ==
  IF (theirWs = "ADMIN" /\ adminCount <= 1) \/ ~RowManageable(isYou, myRealm, theirRealm, theirWs)
  THEN {} ELSE IF IsRealmAdmin(myRealm) THEN WorkspaceRole ELSE WorkspaceRole \ {"ADMIN"}

\* RealmMembersTab: a realm member's row.
RealmRowEditable(myRealm, theirRealm) ==
  theirRealm # "OWNER" /\ (theirRealm = "MAINTAINER" => myRealm = "OWNER")

\* DocActions and PageView: Share, and editing the page.
OffersShare(owns, page, mine) == page = "ADMIN" \/ owns \/ mine = "ADMIN"
OffersEdit(page, mine) == MeetsWorkspaceRole(MaxWorkspaceRole(page, mine), "EDIT")
=============================================================================
