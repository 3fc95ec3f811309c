------------------------------ MODULE Accounts ------------------------------
(***************************************************************************)
(* One account of the backend: the links mailed to it, to verify the       *)
(* address or to reset the password, and its refresh tokens.  A call reads *)
(* first and writes later, with a slow hash in between; `width` calls may  *)
(* be in progress at once.                                                 *)
(***************************************************************************)
EXTENDS Naturals, FiniteSets

CONSTANTS
  LinkId,       \* rows of email_verification_tokens and of password_reset_tokens
  SessionId,    \* rows of refresh_tokens
  Slot,         \* numbers: calls that may be in progress at once
  MaxCalls      \* bound on the calls made

VARIABLES
  account,   \* the row of users; password counts the passwords set
  link,      \* link[k][i]: a mailed link of kind k; fresh: sent within the cooldown
  session,   \* session[i]: a refresh token; password is the one it was got with
  bypassed,  \* no mail service is configured
  call, begun, width,
  seen,      \* the links an uncommitted mint has found, to make them used
  crossed    \* history: kinds of which mints overlapped, until one finds all links

mints == <<seen, crossed>>
vars  == <<account, link, session, bypassed, call, begun, width, mints>>

Kind == {"verify", "reset"}
NoLink    == [state |-> "free", fresh |-> FALSE]
NoSession == [state |-> "free", password |-> 0]
Idle      == [op |-> "idle", kind |-> "verify", on |-> 0, password |-> 0]

TypeOK ==
  /\ account \in [state : {"absent", "unverified", "verified"}, password : 0 .. MaxCalls + 1]
  /\ link \in [Kind -> [LinkId -> [state : {"free", "live", "used", "expired", "gone"}, fresh : BOOLEAN]]]
  /\ session \in [SessionId -> [state : {"free", "live", "revoked", "expired", "gone"},
                                password : 0 .. MaxCalls + 1]]
  /\ bypassed \in BOOLEAN
  /\ call \in [Slot -> [op : {"idle", "create", "issue", "mail", "mint", "confirm", "reset",
                              "signIn", "rotate", "kill"},
                        kind : Kind, on : LinkId \cup SessionId \cup {0}, password : 0 .. MaxCalls + 1]]
  /\ begun \in 0 .. MaxCalls
  /\ width \in 1 .. Cardinality(Slot)
  /\ seen \in [Slot -> SUBSET LinkId] /\ crossed \subseteq Kind

Init ==
  /\ account \in {[state |-> "absent", password |-> 0], [state |-> "verified", password |-> 1]}
  /\ link = [k \in Kind |-> [i \in LinkId |-> NoLink]]
  /\ session = [i \in SessionId |-> NoSession]
  /\ bypassed \in BOOLEAN
  /\ call = [s \in Slot |-> Idle]
  /\ begun = 0
  /\ width \in 1 .. Cardinality(Slot)
  /\ seen = [s \in Slot |-> {}] /\ crossed = {}

\* Slots are alike: a call takes the first free one.
Begin(s, c) ==
  /\ call[s] = Idle /\ begun < MaxCalls
  /\ \A t \in Slot : t < s => call[t] # Idle
  /\ Cardinality({t \in Slot : call[t] # Idle}) < width
  /\ call' = [call EXCEPT ![s] = c]
  /\ begun' = begun + 1
  /\ UNCHANGED <<account, link, session, bypassed, width, mints>>

Goes(s, c) == call' = [call EXCEPT ![s] = c] /\ UNCHANGED <<bypassed, begun, width, mints>>
Ends(s) == Goes(s, Idle)
-----------------------------------------------------------------------------
(***************************************************************************)
(* Links.                                                                  *)
(***************************************************************************)

\* A second sign-up of an unverified account sends the link again.
Register(s) ==
  \/ account.state = "absent" /\ Begin(s, [Idle EXCEPT !.op = "create"])
  \/ account.state = "unverified" /\ Begin(s, [Idle EXCEPT !.op = "issue"])

\* The address is unique: a create that comes second fails.
WriteCreate(s) ==
  /\ call[s].op = "create"
  /\ IF account.state = "absent"
     THEN /\ account' = [state |-> "unverified", password |-> 1]
          /\ Goes(s, [Idle EXCEPT !.op = "issue"])
     ELSE account' = account /\ Ends(s)
  /\ UNCHANGED <<link, session>>

ResendVerification(s) == account.state = "unverified" /\ Begin(s, [Idle EXCEPT !.op = "issue"])

RequestPasswordReset(s) ==
  account.state # "absent" /\ Begin(s, [Idle EXCEPT !.op = "issue", !.kind = "reset"])

IsWithinCooldown(k) == \E i \in LinkId : link[k][i].fresh

\* Without a mail service the account is verified at once, and no reset link made.
Issue(s) ==
  LET k == call[s].kind IN
  /\ call[s].op = "issue"
  /\ IF bypassed
     THEN /\ account' = IF k = "verify" THEN [account EXCEPT !.state = "verified"] ELSE account
          /\ Ends(s)
     ELSE /\ account' = account
          /\ IF IsWithinCooldown(k) THEN Ends(s) ELSE Goes(s, [call[s] EXCEPT !.op = "mail"])
  /\ UNCHANGED <<link, session>>

\* Those of the links that are outstanding are made used.
Use(k, I) == [i \in LinkId |-> IF i \in I /\ link[k][i].state \in {"live", "expired"}
                               THEN [link[k][i] EXCEPT !.state = "used"] ELSE link[k][i]]
UseAll(k) == Use(k, LinkId)

\* The transaction that makes a link runs under READ COMMITTED.  Its first statement
\* finds the outstanding links that are committed; what it and the second write
\* shows at the commit.
Mints(k) == {s \in Slot : call[s].op = "mint" /\ call[s].kind = k}

Mail(s) ==
  LET k == call[s].kind IN
  /\ call[s].op = "mail"
  /\ call' = [call EXCEPT ![s].op = "mint"]
  /\ seen' = [seen EXCEPT ![s] = {i \in LinkId : link[k][i].state \in {"live", "expired"}}]
  /\ crossed' = IF Mints(k) = {} THEN crossed ELSE crossed \cup {k}
  /\ UNCHANGED <<account, link, session, bypassed, begun, width>>

\* The mail may be lost, nothing waits for it.
Mint(s) ==
  LET k == call[s].kind IN
  /\ call[s].op = "mint"
  /\ \E i \in LinkId :
       /\ link[k][i].state = "free"
       /\ link' = [link EXCEPT ![k] = [Use(k, seen[s]) EXCEPT ![i] = [state |-> "live", fresh |-> TRUE]]]
  /\ crossed' = IF /\ Mints(k) = {s}
                   /\ \A i \in LinkId : link[k][i].state = "live" => i \in seen[s]
                THEN crossed \ {k} ELSE crossed
  /\ call' = [call EXCEPT ![s] = Idle]
  /\ seen' = [seen EXCEPT ![s] = {}]
  /\ UNCHANGED <<account, session, bypassed, begun, width>>

\* A row that an uncommitted mint has made used is locked until it commits.
Unlocked(k, i) == \A s \in Mints(k) : i \notin seen[s]

VerifyEmail(s, i) ==
  link["verify"][i].state = "live" /\ Begin(s, [Idle EXCEPT !.op = "confirm", !.on = i])

\* The row must still be there; that it was used meanwhile is not asked.
WriteVerifyEmail(s) ==
  LET i == call[s].on IN
  /\ call[s].op = "confirm"
  /\ link["verify"][i].state # "gone" /\ Unlocked("verify", i)
  /\ link' = [link EXCEPT !["verify"] = [UseAll("verify") EXCEPT ![i].state = "used"]]
  /\ account' = [account EXCEPT !.state = "verified"]
  /\ Ends(s)
  /\ UNCHANGED session

ResetPassword(s, i) ==
  link["reset"][i].state = "live" /\ Begin(s, [Idle EXCEPT !.op = "reset", !.kind = "reset", !.on = i])

RevokeSessions == [i \in SessionId |-> IF session[i].state \in {"live", "expired"}
                                       THEN [session[i] EXCEPT !.state = "revoked"] ELSE session[i]]

\* Mutation: the link can be used again.
SpareLink(i) == link["reset"]

SpendLink(i) == [UseAll("reset") EXCEPT ![i].state = "used"]

WriteResetPassword(s) ==
  LET i == call[s].on IN
  /\ call[s].op = "reset"
  /\ link["reset"][i].state # "gone" /\ Unlocked("reset", i)
  /\ account' = [state |-> "verified", password |-> account.password + 1]
  /\ link' = [link EXCEPT !["reset"] = SpendLink(i)]
  /\ session' = RevokeSessions
  /\ Ends(s)
-----------------------------------------------------------------------------
(***************************************************************************)
(* Sessions.                                                               *)
(***************************************************************************)

MayLogin == account.state = "verified"

\* With the password of the moment.
Login(s) == MayLogin /\ Begin(s, [Idle EXCEPT !.op = "signIn", !.password = account.password])

IssueTokens(s) ==
  /\ call[s].op = "signIn"
  /\ \E i \in SessionId :
       /\ session[i].state = "free"
       /\ session' = [session EXCEPT ![i] = [state |-> "live", password |-> call[s].password]]
  /\ Ends(s)
  /\ UNCHANGED <<account, link>>

\* A token that was revoked ends every session of the account.
Refresh(s, i) ==
  \/ session[i].state = "live" /\ Begin(s, [Idle EXCEPT !.op = "rotate", !.on = i])
  \/ session[i].state = "revoked" /\ Begin(s, [Idle EXCEPT !.op = "kill", !.on = i])

Rotate(s) ==
  LET i == call[s].on IN
  /\ call[s].op = "rotate"
  /\ session[i].state # "gone"
  /\ session' = [session EXCEPT ![i].state = "revoked"]
  /\ Goes(s, [Idle EXCEPT !.op = "signIn", !.password = session[i].password])
  /\ UNCHANGED <<account, link>>

KillFamily(s) ==
  /\ call[s].op = "kill"
  /\ session' = RevokeSessions
  /\ Ends(s)
  /\ UNCHANGED <<account, link>>

Logout(i) ==
  /\ session[i].state = "live" /\ begun < MaxCalls
  /\ session' = [session EXCEPT ![i].state = "revoked"]
  /\ begun' = begun + 1
  /\ UNCHANGED <<account, link, bypassed, call, width, mints>>

\* A write the database refuses: the row is gone, or all ids of the bound are taken.
Refused(s) ==
  LET c == call[s] IN
  /\ \/ c.op \in {"confirm", "reset"} /\ link[c.kind][c.on].state = "gone"
     \/ c.op = "rotate" /\ session[c.on].state = "gone"
     \/ c.op = "mint" /\ \A i \in LinkId : link[c.kind][i].state # "free"
     \/ c.op = "signIn" /\ \A i \in SessionId : session[i].state # "free"
  /\ call' = [call EXCEPT ![s] = Idle]
  /\ seen' = [seen EXCEPT ![s] = {}]
  /\ UNCHANGED <<account, link, session, bypassed, begun, width, crossed>>
-----------------------------------------------------------------------------
(***************************************************************************)
(* Time.  A link outlives the cooldown.                                    *)
(***************************************************************************)

CooldownEnds(k) ==
  /\ \E i \in LinkId : link[k][i].fresh
  /\ link' = [link EXCEPT ![k] = [i \in LinkId |-> [link[k][i] EXCEPT !.fresh = FALSE]]]
  /\ UNCHANGED <<account, session, bypassed, call, begun, width, mints>>

ExpireLink(k, i) ==
  /\ link[k][i] = [state |-> "live", fresh |-> FALSE]
  /\ link' = [link EXCEPT ![k][i].state = "expired"]
  /\ UNCHANGED <<account, session, bypassed, call, begun, width, mints>>

ExpireSession(i) ==
  /\ session[i].state = "live"
  /\ session' = [session EXCEPT ![i].state = "expired"]
  /\ UNCHANGED <<account, link, bypassed, call, begun, width, mints>>

\* The daily purge: dead links, expired tokens, tokens revoked long ago.
Purge ==
  /\ \E old \in SUBSET {i \in SessionId : session[i].state = "revoked"} :
       session' = [i \in SessionId |-> IF session[i].state = "expired" \/ i \in old
                                       THEN [NoSession EXCEPT !.state = "gone"] ELSE session[i]]
  /\ link' = [k \in Kind |-> [i \in LinkId |-> IF link[k][i].state \in {"used", "expired"}
                                               THEN [NoLink EXCEPT !.state = "gone"] ELSE link[k][i]]]
  /\ <<session, link>>' # <<session, link>>
  /\ UNCHANGED <<account, bypassed, call, begun, width, mints>>
-----------------------------------------------------------------------------
StartCall(s) ==
  \/ Register(s) \/ ResendVerification(s) \/ RequestPasswordReset(s) \/ Login(s)
  \/ \E i \in LinkId : VerifyEmail(s, i) \/ ResetPassword(s, i)
  \/ \E i \in SessionId : Refresh(s, i)

Step(s) ==
  \/ WriteCreate(s) \/ Issue(s) \/ Mail(s) \/ Mint(s) \/ WriteVerifyEmail(s)
  \/ WriteResetPassword(s) \/ IssueTokens(s) \/ Rotate(s) \/ KillFamily(s) \/ Refused(s)

Next ==
  \/ \E s \in Slot : StartCall(s) \/ Step(s)
  \/ \E i \in SessionId : Logout(i) \/ ExpireSession(i)
  \/ \E k \in Kind : CooldownEnds(k) \/ \E i \in LinkId : ExpireLink(k, i)
  \/ Purge

Spec == Init /\ [][Next]_vars
-----------------------------------------------------------------------------
(***************************************************************************)
(* Properties.                                                             *)
(***************************************************************************)

\* At most one mailed link of a kind works, but where the transactions of two mints
\* overlapped, neither of which sees the other's link, and no later mint has found
\* both: whatever resets, verifications and purges run in between.
OneLiveLink ==
  \A k \in Kind \ crossed : Cardinality({i \in LinkId : link[k][i].state = "live"}) <= 1

\* However calls interleave, only a verified account has a session.
SessionsAreVerified == (\E i \in SessionId : session[i].state = "live") => account.state = "verified"

\* auth.service.ts:246: at most one mail of a kind per window, of calls one
\* after another (two at once both find that none was sent).
CooldownHolds == width = 1 => \A k \in Kind : Cardinality({i \in LinkId : link[k][i].fresh}) <= 1

\* auth.service.ts:217: a password change ends every session, of calls one
\* after another (a sign-in or a rotation in progress creates its token later).
ResetEndsSessions ==
  width = 1 => \A i \in SessionId : session[i].state = "live" => session[i].password = account.password

\* Of calls one after another, a link changes the password once.
SpendsALink ==
  width = 1 /\ account'.password > account.password /\ account.state # "absent" =>
    \E i \in LinkId : link["reset"][i].state \in {"live", "expired"} /\ link'["reset"][i].state = "used"

LinkWorksOnce == [][SpendsALink]_vars
-----------------------------------------------------------------------------
(***************************************************************************)
(* The inductive invariant: what holds only of calls made one after        *)
(* another is stated for width = 1, like the properties.                   *)
(***************************************************************************)

Account  == [state : {"absent", "unverified", "verified"}, password : Nat]
Link     == [state : {"free", "live", "used", "expired", "gone"}, fresh : BOOLEAN]
Token    == [state : {"free", "live", "revoked", "expired", "gone"}, password : Nat]
Call     == [op : {"idle", "create", "issue", "mail", "mint", "confirm", "reset", "signIn", "rotate",
                   "kill"},
             kind : Kind, on : LinkId \cup SessionId \cup {0}, password : Nat]

\* The shape of the state; that passwords stay below the bound is TypeOK's.
Shape ==
  /\ account \in Account /\ link \in [Kind -> [LinkId -> Link]]
  /\ session \in [SessionId -> Token] /\ call \in [Slot -> Call]
  /\ seen \in [Slot -> SUBSET LinkId] /\ crossed \subseteq Kind

\* At most one link of a kind is live.
LinksSound ==
  \A k \in Kind \ crossed : \A i, j \in LinkId :
    link[k][i].state = "live" /\ link[k][j].state = "live" => i = j

\* A mint is alone with its kind, and will make used all that works.
MintsSound ==
  \A k \in Kind \ crossed : \A s \in Mints(k) :
    /\ \A t \in Mints(k) : t = s
    /\ \A i \in LinkId : link[k][i].state = "live" => i \in seen[s]

\* Whoever has, had or is about to get a session is verified.
SessionsSound == \A i \in SessionId : session[i].state # "free" => account.state = "verified"

Fits(c) ==
  /\ c.op \in {"signIn", "rotate"} => account.state = "verified"
  /\ c.op = "rotate" => c.on \in SessionId
  /\ c.op \in {"confirm", "reset"} => c.on \in LinkId

\* Of calls one after another: what the call in progress has read is still so,
\* but for what time alone does.
FitsAlone(c) ==
  /\ c.op \in {"mail", "mint"} => \A i \in LinkId : ~link[c.kind][i].fresh
  /\ c.op = "signIn" => c.password = account.password
  /\ c.op = "rotate" => session[c.on].state = "gone" \/ session[c.on].password = account.password
  /\ c.op = "reset" => link["reset"][c.on].state \in {"live", "expired", "gone"}

FreshSound == \A k \in Kind : \A i, j \in LinkId : link[k][i].fresh /\ link[k][j].fresh => i = j
PasswordsSound == \A i \in SessionId : session[i].state = "live" => session[i].password = account.password
Single == \A s, t \in Slot : call[s] # Idle /\ call[t] # Idle => s = t

AloneSound == Single /\ FreshSound /\ PasswordsSound /\ \A s \in Slot : FitsAlone(call[s])

\* The inductive invariant.
Inductive ==
  /\ Shape /\ LinksSound /\ MintsSound /\ SessionsSound /\ \A s \in Slot : Fits(call[s])
  /\ width = 1 => AloneSound
=============================================================================
