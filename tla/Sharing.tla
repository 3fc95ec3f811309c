------------------------------- MODULE Sharing -------------------------------
(***************************************************************************)
(* Sharing one document: the grants and the share link the server keeps,   *)
(* the people connected on what they once allowed, and one opening of the  *)
(* share modal, which edits both through a cache of its own.               *)
(*                                                                         *)
(* The modal's requests are answered in any order.  The manager is allowed *)
(* to manage throughout; a request's checks and its write are one step, as *)
(* a row that goes in between makes the write fail like the check would.   *)
(***************************************************************************)
EXTENDS Roles, FiniteSets

CONSTANTS
  Person,        \* registered users other than the document's owner
  Grantee,       \* the one who has a grant already
  Org,           \* those among them who are realm members
  Slot,          \* requests the modal can have in flight
  MaxChanges,    \* bound on the modal's requests
  MaxTokens,     \* bound on link tokens
  MaxConnected,  \* bound on visitors connected at once
  MaxFaults      \* bound on lost answers and other managers' changes

Guest == 0                                   \* a visitor who is not signed in
Visitor == Person \cup {Guest}

VARIABLES
  grants,        \* grants[p]: the role granted on the document, or "none"
  link,          \* the share link, or NoLink
  conn,          \* conn[v]: the link token and the role v is connected with
  seenGrants, seenLink,     \* what the modal shows
  getGrants, getLink,       \* its queries
  request,       \* request[s]: a mutation in flight
  selected, batch,          \* picked people; the add loop
  accessDirty, applying,    \* the alert; "Apply now"
  picked, chosen,           \* history: people picked while none were being added; the
                            \* link's last settings, if chosen one after the other
  missed,        \* history: since the last kick, an applied change raised no alert that stays
  minted,        \* how many link tokens there have been
  unheard,       \* history: the kinds of changes whose answer was lost
  changes, faults

server == <<grants, link>>
modal  == <<seenGrants, seenLink, getGrants, getLink, request, selected, batch, accessDirty, applying>>
past   == <<picked, chosen, missed>>
bounds == <<changes, faults, unheard>>
vars   == <<server, conn, modal, past, minted, bounds>>

LinkRole == {"READ", "COMMENT", "EDIT"}
Scope    == {"REALM", "ANYONE"}
Link     == [tok : 1 .. MaxTokens, role : LinkRole, scope : Scope]
NoLink   == [tok |-> 0, role |-> "none", scope |-> "none"]
Loading  == [NoLink EXCEPT !.role = "loading"]
Grants   == [Person -> WorkspaceRole \cup {"none"}]
NoGrants == [p \in Person |-> "none"]
NoConn   == [tok |-> 0, role |-> "none"]
Idle     == [step |-> "idle", got |-> NoGrants]
IdleLink == [step |-> "idle", got |-> NoLink]
Free     == [kind |-> "free", who |-> Guest, role |-> "none", scope |-> "none",
             prev |-> NoGrants, step |-> "idle", marks |-> "no"]
NoBatch  == [on |-> FALSE, of |-> {}, left |-> {}, failed |-> {}, role |-> "none"]

TypeOK ==
  /\ grants \in Grants /\ link \in Link \cup {NoLink}
  /\ \A v \in Visitor : conn[v].tok \in 0 .. MaxTokens /\ conn[v].role \in {"none", "viewer", "editor"}
  /\ seenGrants \in Grants /\ seenLink \in Link \cup {NoLink, Loading}
  /\ getGrants.step \in {"idle", "due", "read"} /\ getGrants.got \in Grants
  /\ getLink.step \in {"idle", "due", "read"} /\ getLink.got \in Link \cup {NoLink}
  /\ \A s \in Slot : /\ request[s].kind \in {"free", "add", "update", "remove", "put", "regenerate", "off"}
                     /\ request[s].step \in {"idle", "sent", "done", "refused"}
                     /\ request[s].marks \in {"no", "alert", "dropped"}
  /\ selected \subseteq Person /\ batch.left \cup batch.failed \subseteq batch.of /\ batch.of \subseteq Person
  /\ accessDirty \in BOOLEAN /\ applying \in {"no", "sent", "kicked"}
  /\ picked \subseteq Person /\ missed \in BOOLEAN /\ minted \in 0 .. MaxTokens

Init ==
  /\ grants = [p \in Person |-> IF p = Grantee THEN "EDIT" ELSE "none"]
  /\ link \in {NoLink, [tok |-> 1, role |-> "EDIT", scope |-> "ANYONE"]}
  /\ conn = [v \in Visitor |-> NoConn]
  /\ seenGrants = grants /\ getGrants = Idle
  /\ seenLink = Loading /\ getLink = [IdleLink EXCEPT !.step = "due"]
  /\ request = [s \in Slot |-> Free]
  /\ selected = {} /\ batch = NoBatch
  /\ accessDirty = FALSE /\ applying = "no"
  /\ picked = {} /\ chosen = [role |-> link.role, scope |-> link.scope] /\ minted = link.tok
  /\ missed = FALSE
  /\ changes = 0 /\ faults = 0 /\ unheard = {}
-----------------------------------------------------------------------------
(***************************************************************************)
(* The visitors.                                                           *)
(***************************************************************************)

Standing(v) == IF v = Guest THEN "none" ELSE RtcRole(FALSE, "none", grants[v])

\* What the link page answers: the document, or which of the three refusals.
Resolve(v, t) ==
  IF link.tok # t \/ t = 0 THEN "unavailable"
  ELSE IF link.scope = "ANYONE" \/ v \in Org THEN "document"
  ELSE IF v = Guest THEN "sign in" ELSE "no access"

\* The role of a token minted now: by the document's own route, or through a link.
Mintable(v, t) ==
  IF t = 0 THEN Standing(v)
  ELSE IF Resolve(v, t) # "document" THEN "none"
  ELSE IF link.role = "EDIT" \/ Standing(v) = "editor" THEN "editor" ELSE "viewer"

Minted(v, t) == IF Mintable(v, t) = "none" THEN NoConn ELSE [tok |-> t, role |-> Mintable(v, t)]

\* A visitor opens the document, or its link page.  A bound on visitors: they
\* come and act while the page has heard of every change.
Open(v, t) ==
  /\ unheard = {} /\ conn[v] = NoConn /\ Mintable(v, t) # "none"
  /\ Cardinality({u \in Visitor : conn[u] # NoConn}) < MaxConnected
  /\ conn' = [conn EXCEPT ![v] = Minted(v, t)]
  /\ UNCHANGED <<server, modal, past, minted, bounds>>

\* The periodic re-mint, or the token's expiry.
Remint(v) ==
  /\ unheard = {} /\ conn[v] # NoConn
  /\ conn' = [conn EXCEPT ![v] = Minted(v, conn[v].tok)]
  /\ UNCHANGED <<server, modal, past, minted, bounds>>
-----------------------------------------------------------------------------
(***************************************************************************)
(* The server's side of a request.                                         *)
(***************************************************************************)

\* add: a grantee must be a realm member without a grant.
Accepts(r) ==
  CASE r.kind = "add"                   -> r.who \in Org /\ grants[r.who] = "none"
    [] r.kind \in {"update", "remove"}  -> grants[r.who] # "none"
    [] r.kind = "regenerate"            -> link # NoLink
    [] OTHER                            -> TRUE

NewGrants(r) ==
  CASE r.kind \in {"add", "update"} -> [grants EXCEPT ![r.who] = r.role]
    [] r.kind = "remove"            -> [grants EXCEPT ![r.who] = "none"]
    [] OTHER                        -> grants

\* A link keeps its token when it is updated; a new or rotated one gets a
\* token no link had.
NewLink(r) ==
  CASE r.kind = "put" -> [tok |-> IF link = NoLink THEN minted + 1 ELSE link.tok, role |-> r.role, scope |-> r.scope]
    [] r.kind = "regenerate" -> [link EXCEPT !.tok = minted + 1]
    [] r.kind = "off"        -> NoLink
    [] OTHER                 -> link

Serve(s) ==
  /\ request[s].step = "sent"
  /\ IF Accepts(request[s])
     THEN /\ NewLink(request[s]).tok <= MaxTokens
          /\ minted' = IF NewLink(request[s]).tok > minted THEN minted + 1 ELSE minted
          /\ grants' = NewGrants(request[s])
          /\ link' = NewLink(request[s])
          /\ request' = [request EXCEPT ![s].step = "done"]
     ELSE /\ UNCHANGED <<server, minted>>
          /\ request' = [request EXCEPT ![s].step = "refused"]
  /\ UNCHANGED <<conn, seenGrants, seenLink, getGrants, getLink, selected, batch, accessDirty, applying,
                 past, bounds>>

\* The request, or its answer, is lost: the page sees an error either way.
Lose(s) ==
  /\ faults < MaxFaults
  /\ request[s].step \in {"sent", "done"}
  /\ request' = [request EXCEPT ![s].step = "refused"]
  /\ faults' = faults + 1
  /\ unheard' = IF request[s].step = "done" THEN unheard \cup {request[s].kind} ELSE unheard
  /\ UNCHANGED <<server, conn, seenGrants, seenLink, getGrants, getLink, selected, batch, accessDirty, applying,
                 past, minted, changes>>

\* Another manager grants somebody access, which this page hears nothing of.
Elsewhere(p, r) ==
  /\ faults < MaxFaults
  /\ p # Grantee /\ grants[p] # r
  /\ \A v \in Visitor : conn[v] = NoConn     \* the bound on visitors
  /\ grants' = [grants EXCEPT ![p] = r]
  /\ faults' = faults + 1 /\ unheard' = unheard \cup {"elsewhere"}
  /\ UNCHANGED <<link, conn, modal, past, minted, changes>>
-----------------------------------------------------------------------------
(***************************************************************************)
(* The modal.                                                              *)
(***************************************************************************)

Pending(kinds) == \E s \in Slot : request[s].kind \in kinds
Quiet == /\ ~\E s \in Slot : request[s] # Free
         /\ getGrants.step = "idle" /\ getLink.step = "idle" /\ ~batch.on /\ applying = "no"
MayAct == changes < MaxChanges

\* The link's settings after a choice, unclear once one was made before the
\* answers to earlier changes of the link were in.
Unclear == [role |-> "unclear", scope |-> "unclear"]
Choose(role, scope) ==
  chosen' = IF chosen = Unclear \/ getLink.step # "idle" \/ Pending({"put", "regenerate", "off"})
            THEN Unclear ELSE [role |-> role, scope |-> scope]

\* mutate(): its callbacks run for the observer's latest call only.
Send(s, r) ==
  /\ request[s] = Free /\ \A t \in Slot : t < s => request[t] # Free
  /\ request' = [t \in Slot |->
       IF t = s THEN r
       ELSE IF request[t].kind = r.kind /\ request[t].marks = "alert" THEN [request[t] EXCEPT !.marks = "dropped"]
       ELSE request[t]]
  /\ changes' = changes + 1

Req(kind, p, role, scope, marks) ==
  [kind |-> kind, who |-> p, role |-> role, scope |-> scope, prev |-> IF kind = "update" THEN seenGrants ELSE NoGrants, step |-> "sent", marks |-> marks]

Keep == UNCHANGED <<server, conn, seenLink, getLink, selected, batch, accessDirty, applying, missed,
                    minted, faults, unheard>>

\* A grantee's role: shown at once, the query in flight is cancelled.
ChangeRole(s, p, r) ==
  /\ MayAct /\ seenGrants[p] # "none" /\ r # seenGrants[p]
  /\ Send(s, Req("update", p, r, "none", "alert"))
  /\ seenGrants' = [seenGrants EXCEPT ![p] = r]
  /\ getGrants' = Idle
  /\ UNCHANGED <<picked, chosen>> /\ Keep

\* Mutation: revoking a grant raises no alert.
RemoveGrantQuietly(s, p) ==
  /\ MayAct /\ seenGrants[p] # "none" /\ ~Pending({"remove"})
  /\ Send(s, Req("remove", p, "none", "none", "no"))
  /\ picked' = picked \ {p}
  /\ UNCHANGED <<seenGrants, getGrants, chosen>> /\ Keep

RemoveGrant(s, p) ==
  /\ MayAct /\ seenGrants[p] # "none" /\ ~Pending({"remove"})
  /\ Send(s, Req("remove", p, "none", "none", "alert"))
  /\ picked' = picked \ {p}
  /\ UNCHANGED <<seenGrants, getGrants, chosen>> /\ Keep

\* The switch is disabled while the link is put, removed or first loaded.
Toggle(s) ==
  /\ MayAct /\ seenLink # Loading /\ ~Pending({"put", "off"})
  /\ IF seenLink # NoLink
     THEN Send(s, Req("off", Guest, "none", "none", "alert")) /\ Choose("none", "none")
     ELSE Send(s, Req("put", Guest, "READ", "REALM", "no"))
          /\ Choose("READ", "REALM")
  /\ UNCHANGED <<seenGrants, getGrants, picked>> /\ Keep

\* setRole, setScope: the other setting is the one the page shows.
SetLink(s, role, scope) ==
  /\ MayAct /\ seenLink \notin {Loading, NoLink}
  /\ (role # seenLink.role) # (scope # seenLink.scope)
  /\ Send(s, Req("put", Guest, role, scope, "alert"))
  /\ Choose(IF role # seenLink.role THEN role ELSE chosen.role,
            IF scope # seenLink.scope THEN scope ELSE chosen.scope)
  /\ UNCHANGED <<seenGrants, getGrants, picked>> /\ Keep

Regenerate(s) ==
  /\ MayAct /\ seenLink \notin {Loading, NoLink} /\ ~Pending({"regenerate"})
  /\ Send(s, Req("regenerate", Guest, "none", "none", "alert"))
  /\ UNCHANGED <<seenGrants, getGrants, picked, chosen>> /\ Keep

\* The picker offers members of the org who have no grant yet.
Pick(p) ==
  /\ p \in Org /\ seenGrants[p] = "none" /\ p \notin selected
  /\ selected' = selected \cup {p}
  /\ picked' = IF batch.on THEN picked ELSE picked \cup {p}
  /\ UNCHANGED <<server, conn, seenGrants, seenLink, getGrants, getLink, request, batch, accessDirty, applying,
                 chosen, missed, minted, bounds>>

\* add: the selection is posted one by one.
StartAdding(r) ==
  /\ MayAct /\ selected # {} /\ ~batch.on
  /\ batch' = [on |-> TRUE, of |-> selected, left |-> selected, failed |-> {}, role |-> r]
  /\ UNCHANGED <<server, conn, seenGrants, seenLink, getGrants, getLink, request, selected, accessDirty, applying,
                 past, minted, bounds>>

AddNext(s, p) ==
  /\ batch.on /\ p \in batch.left /\ ~Pending({"add"}) /\ changes < MaxChanges
  /\ Send(s, Req("add", p, batch.role, "none", "no"))
  /\ UNCHANGED <<seenGrants, getGrants, picked, chosen>> /\ Keep

\* The loop is through: one refetch unless all failed, and the picks that failed
\* are the selection, whatever was picked since it began.
FinishAdding ==
  /\ batch.on /\ batch.left = {}
  /\ getGrants' = IF batch.failed # batch.of THEN [Idle EXCEPT !.step = "due"] ELSE getGrants
  /\ selected' = batch.failed
  /\ batch' = NoBatch
  /\ UNCHANGED <<server, conn, seenGrants, seenLink, getLink, request, accessDirty, applying,
                 past, minted, bounds>>

\* Which query an answer sends out again: a refused role change too.
Refetches(r) ==
  CASE r.kind = "update" -> "grants"
    [] r.kind = "remove" /\ r.step = "done" -> "grants"
    [] r.kind \in {"put", "regenerate", "off"} /\ r.step = "done" -> "link"
    [] OTHER -> "none"

\* onError, onSuccess, onSettled; an add goes on with the loop.
Answer(s) ==
  LET r == request[s] IN
  /\ r.step \in {"done", "refused"}
  /\ seenGrants' = IF r.kind = "update" /\ r.step = "refused" THEN r.prev ELSE seenGrants
  /\ getGrants' = IF Refetches(r) = "grants" THEN [Idle EXCEPT !.step = "due"] ELSE getGrants
  /\ getLink' = IF Refetches(r) = "link" THEN [IdleLink EXCEPT !.step = "due"] ELSE getLink
  /\ batch' = IF r.kind # "add" THEN batch
              ELSE [batch EXCEPT !.left = @ \ {r.who},
                                 !.failed = IF r.step = "refused" THEN @ \cup {r.who} ELSE @]
  /\ accessDirty' = (accessDirty \/ (r.marks = "alert" /\ r.step = "done"))
  /\ missed' = (missed \/ (r.step = "done" /\ (r.marks = "dropped" \/ (r.marks = "alert" /\ applying = "kicked"))))
  /\ request' = [request EXCEPT ![s] = Free]
  /\ UNCHANGED <<server, conn, seenLink, selected, applying, picked, chosen, minted, bounds>>

\* A query reads, and its answer arrives.
Read ==
  /\ \/ /\ getGrants.step = "due"
        /\ getGrants' = [step |-> "read", got |-> grants] /\ UNCHANGED getLink
     \/ /\ getLink.step = "due"
        /\ getLink' = [step |-> "read", got |-> link] /\ UNCHANGED getGrants
  /\ UNCHANGED <<server, conn, seenGrants, seenLink, request, selected, batch, accessDirty, applying,
                 past, minted, bounds>>

Arrive ==
  /\ \/ /\ getGrants.step = "read"
        /\ seenGrants' = getGrants.got /\ getGrants' = Idle /\ UNCHANGED <<getLink, seenLink>>
     \/ /\ getLink.step = "read"
        /\ seenLink' = getLink.got /\ getLink' = IdleLink /\ UNCHANGED <<getGrants, seenGrants>>
  /\ UNCHANGED <<server, conn, request, selected, batch, accessDirty, applying, past, minted, bounds>>

\* "Apply now", the kick it asks for, and its answer.
ApplyNow ==
  /\ accessDirty /\ applying = "no"
  /\ applying' = "sent"
  /\ UNCHANGED <<server, conn, seenGrants, seenLink, getGrants, getLink, request, selected, batch, accessDirty,
                 past, minted, bounds>>

KickAll ==
  /\ applying = "sent"
  /\ conn' = [v \in Visitor |-> Minted(v, conn[v].tok)]
  /\ applying' = "kicked" /\ missed' = FALSE
  /\ UNCHANGED <<server, seenGrants, seenLink, getGrants, getLink, request, selected, batch, accessDirty,
                 picked, chosen, minted, bounds>>

Applied ==
  /\ applying = "kicked"
  /\ accessDirty' = FALSE /\ applying' = "no"
  /\ UNCHANGED <<server, conn, seenGrants, seenLink, getGrants, getLink, request, selected, batch,
                 past, minted, bounds>>

ApplyFails ==
  /\ faults < MaxFaults /\ applying # "no"
  /\ applying' = "no" /\ faults' = faults + 1
  /\ UNCHANGED <<server, conn, seenGrants, seenLink, getGrants, getLink, request, selected, batch, accessDirty,
                 past, minted, changes, unheard>>

Next ==
  \/ \E v \in Visitor : Remint(v) \/ \E t \in 0 .. MaxTokens : Open(v, t)
  \/ \E s \in Slot :
       \/ Serve(s) \/ Lose(s) \/ Answer(s) \/ Toggle(s) \/ Regenerate(s)
       \/ \E p \in Person : RemoveGrant(s, p) \/ AddNext(s, p) \/ \E r \in {"READ", "EDIT"} : ChangeRole(s, p, r)
       \/ \E role \in {"READ", "EDIT"}, scope \in Scope : SetLink(s, role, scope)
  \/ \E p \in Person : Pick(p) \/ Elsewhere(p, "READ")
  \/ StartAdding("READ") \/ FinishAdding
  \/ Read \/ Arrive \/ ApplyNow \/ KickAll \/ Applied \/ ApplyFails

Spec == Init /\ [][Next]_vars
-----------------------------------------------------------------------------
Rank(r) == CASE r = "editor" -> 2 [] r = "viewer" -> 1 [] OTHER -> 0
Stale(v) == Rank(conn[v].role) > Rank(Minted(v, conn[v].tok).role)

\* Whoever is connected with more than the document now allows is covered by
\* the alert with its Apply now, or by an answer still on its way, however the
\* manager's requests overlap (DocPermissionsModal.tsx:134-146). The exceptions
\* are changes this page hears nothing of, and missed: a change answered between
\* the kick and the kick's answer, which takes the alert away, and a change whose
\* callback was dropped for a later call of its mutation.
AlertCoversStale ==
  (unheard = {} /\ ~missed /\ \E v \in Visitor : Stale(v))
     => (accessDirty \/ Pending({"update", "remove", "put", "regenerate", "off"}))

\* With no answer and no refetch outstanding, the modal shows what the server
\* has, however requests overlapped, were refused or were rolled back.  Only
\* a lost answer to an applied change other than a role's leaves it behind.
ShowsWhatIs == (Quiet /\ unheard \subseteq {"update"}) => (seenGrants = grants /\ seenLink = link)

\* The link ends up with the settings that were chosen last, each of the two,
\* if the manager waits for the answers to a change of the link before the
\* next (DocPermissionsModal.tsx:362-365 sends both, the other from the cache).
ChoiceKept ==
  Quiet /\ faults = 0 => chosen \in {Unclear, [role |-> link.role, scope |-> link.scope]}

\* Nobody picked is forgotten, however requests overlap and fail: each has a
\* grant or is still in the selection, where a failed one stays to be tried
\* again. Only a pick made while others are being added is lost with the
\* loop's end (DocPermissionsModal.tsx:235).
NoPickForgotten == \A p \in picked : p \in selected \/ grants[p] # "none"
=============================================================================
