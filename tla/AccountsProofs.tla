--------------------------- MODULE AccountsProofs ---------------------------
(***************************************************************************)
(* Proofs about Accounts: for any number of links, sessions and calls in   *)
(* progress.  Like the properties, the parts that hold only of calls made  *)
(* one after another are stated for width = 1.                             *)
(***************************************************************************)
EXTENDS Accounts, TLAPS, FiniteSetTheorems

\* A slot without a call.
LEMMA IdleFits == Idle \in Call /\ Idle.op = "idle" /\ Fits(Idle) /\ FitsAlone(Idle) /\ Fits(Idle)' /\ FitsAlone(Idle)'
BY DEF Idle, Call, Kind, Fits, FitsAlone

\* The fields of the records of the state.
LEMMA Fields ==
  /\ \A c \in Call : c.kind \in Kind /\ c.on \in LinkId \cup SessionId \cup {0} /\ c.password \in Nat
  /\ \A x \in Link : x.fresh \in BOOLEAN /\ x.state \in {"free", "live", "used", "expired", "gone"}
  /\ \A x \in Token : x.password \in Nat /\ x.state \in {"free", "live", "revoked", "expired", "gone"}
BY DEF Call, Link, Token

\* Where there are no new mints and no new links, what was found stays enough.
LEMMA FewerMints ==
  ASSUME MintsSound, seen' = seen, crossed' = crossed,
         \A k \in Kind : Mints(k)' \subseteq Mints(k),
         \A k \in Kind, i \in LinkId : link'[k][i].state = "live" => link[k][i].state = "live"
  PROVE  MintsSound'
<1> SUFFICES ASSUME NEW k \in Kind \ crossed, NEW s \in Mints(k)'
             PROVE  /\ \A t \in Mints(k)' : t = s
                    /\ \A i \in LinkId : link'[k][i].state = "live" => i \in seen[s]
  BY DEF MintsSound
<1>1. s \in Mints(k) /\ \A t \in Mints(k)' : t \in Mints(k) OBVIOUS
<1>2. \A t \in Mints(k) : t = s BY <1>1 DEF MintsSound
<1>3. \A i \in LinkId : link[k][i].state = "live" => i \in seen[s] BY <1>1 DEF MintsSound
<1> QED BY <1>1, <1>2, <1>3

\* A call that begins: alone where calls come one after another.
LEMMA BeginStep ==
  ASSUME Inductive, IsFiniteSet(Slot), NEW s \in Slot, NEW c \in Call, Begin(s, c), Fits(c),
         c.op # "mint",
         width = 1 => FitsAlone(c)
  PROVE  Inductive'
<1>1. /\ call' = [call EXCEPT ![s] = c] /\ width' = width
      /\ account' = account /\ link' = link /\ session' = session
      /\ seen' = seen /\ crossed' = crossed
  BY DEF Begin, mints
<1>2. \A t \in Slot : call'[t] = IF t = s THEN c ELSE call[t] BY <1>1 DEF Inductive, Shape
<1>3. Shape' BY <1>1 DEF Inductive, Shape
<1>4. LinksSound' /\ SessionsSound' BY <1>1 DEF Inductive, LinksSound, SessionsSound
<1>7. MintsSound'
  <2>1. \A k \in Kind : Mints(k)' \subseteq Mints(k) BY <1>2 DEF Mints
  <2> QED BY <1>1, <2>1, FewerMints DEF Inductive
<1>5. \A t \in Slot : Fits(call[t])' BY <1>1, <1>2 DEF Inductive, Fits
<1>6. ASSUME width = 1 PROVE AloneSound'
  <2> DEFINE busy == {t \in Slot : call[t] # Idle}
  <2>1. IsFiniteSet(busy) /\ Cardinality(busy) \in Nat BY FS_Subset, FS_CardinalityType
  <2>2. Cardinality(busy) < 1 BY <1>6 DEF Begin
  <2>3. busy = {} BY <2>1, <2>2, FS_EmptySet
  <2>4. Single' BY <1>2, <2>3 DEF Single
  <2>5. FreshSound' /\ PasswordsSound'
    BY <1>1, <1>6 DEF Inductive, AloneSound, FreshSound, PasswordsSound
  <2>6. \A t \in Slot : FitsAlone(call[t])'
    BY <1>1, <1>2, <1>6 DEF Inductive, AloneSound, FitsAlone
  <2> QED BY <2>4, <2>5, <2>6 DEF AloneSound
<1> QED BY <1>1, <1>3, <1>4, <1>5, <1>6, <1>7 DEF Inductive

\* The step of a call in progress: c is what it goes on as.
LEMMA CallSuffices ==
  ASSUME Inductive, NEW s \in Slot, call[s] # Idle, NEW c \in Call,
         call' = [call EXCEPT ![s] = c], width' = width,
         seen' \in [Slot -> SUBSET LinkId], crossed' \subseteq Kind, MintsSound',
         account' \in Account, link' \in [Kind -> [LinkId -> Link]], session' \in [SessionId -> Token],
         account.state = "verified" => account'.state = "verified",
         LinksSound', SessionsSound', Fits(c)',
         width = 1 => FreshSound' /\ PasswordsSound' /\ FitsAlone(c)'
  PROVE  Inductive'
<1>1. call' = [call EXCEPT ![s] = c] /\ width' = width OBVIOUS
<1>2. \A t \in Slot : call'[t] = IF t = s THEN c ELSE call[t] BY <1>1 DEF Inductive, Shape
<1>3. Shape' BY <1>1 DEF Inductive, Shape
<1>4. ASSUME NEW t \in Slot PROVE Fits(call[t])'
  <2>1. CASE t = s BY <1>2, <2>1 DEF Fits
  <2>2. CASE t # s
    <3>1. call'[t] = call[t] /\ Fits(call[t]) BY <1>2, <2>2 DEF Inductive
    <3> QED BY <3>1 DEF Fits
  <2> QED BY <2>1, <2>2
<1>5. ASSUME width = 1 PROVE AloneSound'
  <2>1. \A t \in Slot : t # s => call'[t] = Idle BY <1>2, <1>5 DEF Inductive, AloneSound, Single
  <2>2. Single' BY <2>1 DEF Single
  <2>3. \A t \in Slot : FitsAlone(call[t])'
    <3>1. FitsAlone(Idle)' /\ FitsAlone(c)' BY <1>5, IdleFits
    <3>2. \A t \in Slot : call'[t] = c \/ call'[t] = Idle BY <1>2, <2>1
    <3> QED BY <3>1, <3>2 DEF FitsAlone
  <2> QED BY <1>5, <2>2, <2>3 DEF AloneSound
<1> QED BY <1>1, <1>3, <1>4, <1>5 DEF Inductive

\* The same of a call that is no mint and makes no link.
LEMMA WriteSuffices ==
  ASSUME Inductive, NEW s \in Slot, call[s] # Idle, NEW c \in Call, Goes(s, c), c.op # "mint",
         account' \in Account, link' \in [Kind -> [LinkId -> Link]], session' \in [SessionId -> Token],
         account.state = "verified" => account'.state = "verified",
         \A k \in Kind, i \in LinkId : link'[k][i].state = "live" => link[k][i].state = "live",
         SessionsSound', Fits(c)',
         width = 1 => FreshSound' /\ PasswordsSound' /\ FitsAlone(c)'
  PROVE  Inductive'
<1>1. /\ call' = [call EXCEPT ![s] = c] /\ width' = width
      /\ seen' = seen /\ crossed' = crossed
  BY DEF Goes, mints
<1>2. \A t \in Slot : call'[t] = IF t = s THEN c ELSE call[t] BY <1>1 DEF Inductive, Shape
<1>3. \A k \in Kind : Mints(k)' \subseteq Mints(k) BY <1>2 DEF Mints
<1>4. MintsSound' BY <1>1, <1>3, FewerMints DEF Inductive
<1>5. seen' \in [Slot -> SUBSET LinkId] /\ crossed' \subseteq Kind BY <1>1 DEF Inductive, Shape
<1>6. LinksSound' BY <1>1 DEF Inductive, LinksSound
<1> QED BY <1>1, <1>4, <1>5, <1>6, CallSuffices

\* What time and a logout do to links and sessions.
Faded ==
  /\ link' \in [Kind -> [LinkId -> Link]] /\ session' \in [SessionId -> Token]
  /\ \A k \in Kind : \A i \in LinkId :
       /\ link'[k][i].fresh => link[k][i].fresh
       /\ \/ link'[k][i].state = link[k][i].state
          \/ link[k][i].state = "live" /\ link'[k][i].state = "expired"
          \/ link[k][i].state \in {"used", "expired"} /\ link'[k][i].state = "gone"
  /\ \A i \in SessionId :
       \/ session'[i] = session[i]
       \/ /\ session[i].state = "live" /\ session'[i].state \in {"revoked", "expired"}
          /\ session'[i].password = session[i].password
       \/ session[i].state # "free" /\ session'[i].state = "gone"

\* Such a step keeps the invariant.
LEMMA FadeStep ==
  ASSUME Inductive, Faded, UNCHANGED <<account, call, width, mints>>
  PROVE  Inductive'
<1>0. seen' = seen /\ crossed' = crossed BY DEF mints
<1>1. Shape' BY <1>0 DEF Inductive, Shape, Faded
<1>2. LinksSound' BY <1>0 DEF Inductive, LinksSound, Faded
<1>6. MintsSound'
  <2>1. \A k \in Kind : Mints(k)' \subseteq Mints(k) BY DEF Mints
  <2>2. \A k \in Kind, i \in LinkId : link'[k][i].state = "live" => link[k][i].state = "live"
    BY DEF Faded
  <2> QED BY <1>0, <2>1, <2>2, FewerMints DEF Inductive
<1>3. SessionsSound' BY DEF Inductive, SessionsSound, Faded
<1>4. \A s \in Slot : Fits(call[s])' BY DEF Inductive, Fits
<1>5. ASSUME width = 1 PROVE AloneSound'
  <2>1. Single' /\ FreshSound' BY <1>5 DEF Inductive, AloneSound, Single, FreshSound, Faded
  <2>2. PasswordsSound' BY <1>5 DEF Inductive, AloneSound, PasswordsSound, Faded
  <2>3. ASSUME NEW s \in Slot PROVE FitsAlone(call[s])'
    <3>1. FitsAlone(call[s]) /\ Fits(call[s]) /\ call'[s] = call[s] /\ call[s].kind \in Kind
      BY <1>5, Fields DEF Inductive, AloneSound, Shape
    <3>2. call[s].op \in {"mail", "mint"} => \A i \in LinkId : ~link'[call[s].kind][i].fresh
      BY <3>1 DEF FitsAlone, Faded
    <3>3. call[s].op = "rotate" => \/ session'[call[s].on].state = "gone"
                                   \/ session'[call[s].on].password = account.password
      BY <3>1 DEF FitsAlone, Fits, Faded
    <3>4. call[s].op = "reset" => link'["reset"][call[s].on].state \in {"live", "expired", "gone"}
      BY <3>1 DEF FitsAlone, Fits, Faded, Kind
    <3> QED BY <3>1, <3>2, <3>3, <3>4 DEF FitsAlone
  <2> QED BY <2>1, <2>2, <2>3 DEF AloneSound
<1> QED BY <1>1, <1>2, <1>3, <1>4, <1>5, <1>6 DEF Inductive
-----------------------------------------------------------------------------
(***************************************************************************)
(* Calls that begin.                                                       *)
(***************************************************************************)

Op == {"idle", "create", "issue", "mail", "mint", "confirm", "reset", "signIn", "rotate", "kill"}

\* What Idle becomes with some of its fields set.
LEMMA IdleWith ==
  /\ \A o \in Op : LET c == [Idle EXCEPT !.op = o] IN c \in Call /\ c.op = o
  /\ \A o \in Op, k \in Kind : LET c == [Idle EXCEPT !.op = o, !.kind = k] IN c \in Call /\ c.op = o
  /\ \A o \in Op, p \in Nat :
       LET c == [Idle EXCEPT !.op = o, !.password = p] IN c \in Call /\ c.op = o /\ c.password = p
BY DEF Idle, Call, Kind, Op

\* A call that begins keeps the invariant.
LEMMA StartStep ==
  ASSUME Inductive, IsFiniteSet(Slot), NEW s \in Slot, StartCall(s)
  PROVE  Inductive'
<1>0. account.password \in Nat BY DEF Inductive, Shape, Account
<1>1. CASE Begin(s, [Idle EXCEPT !.op = "create"])
  <2> DEFINE c == [Idle EXCEPT !.op = "create"]
  <2>1. c \in Call /\ c.op = "create" BY IdleWith DEF Op
  <2>2. Begin(s, c) BY <1>1
  <2> HIDE DEF c
  <2>3. Fits(c) /\ FitsAlone(c) BY <2>1 DEF Fits, FitsAlone
  <2> QED BY <2>1, <2>2, <2>3, BeginStep
<1>2. CASE Begin(s, [Idle EXCEPT !.op = "issue"])
  <2> DEFINE c == [Idle EXCEPT !.op = "issue"]
  <2>1. c \in Call /\ c.op = "issue" BY IdleWith DEF Op
  <2>2. Begin(s, c) BY <1>2
  <2> HIDE DEF c
  <2>3. Fits(c) /\ FitsAlone(c) BY <2>1 DEF Fits, FitsAlone
  <2> QED BY <2>1, <2>2, <2>3, BeginStep
<1>3. CASE Begin(s, [Idle EXCEPT !.op = "issue", !.kind = "reset"])
  <2> DEFINE c == [Idle EXCEPT !.op = "issue", !.kind = "reset"]
  <2>1. c \in Call /\ c.op = "issue" BY IdleWith DEF Op, Kind
  <2>2. Begin(s, c) BY <1>3
  <2> HIDE DEF c
  <2>3. Fits(c) /\ FitsAlone(c) BY <2>1 DEF Fits, FitsAlone
  <2> QED BY <2>1, <2>2, <2>3, BeginStep
<1>4. CASE Login(s)
  <2> DEFINE c == [Idle EXCEPT !.op = "signIn", !.password = account.password]
  <2>1. c \in Call /\ c.op = "signIn" /\ c.password = account.password BY <1>0, IdleWith DEF Op
  <2>2. Begin(s, c) /\ account.state = "verified" BY <1>4 DEF Login, MayLogin
  <2> HIDE DEF c
  <2>3. Fits(c) /\ FitsAlone(c) BY <2>1, <2>2 DEF Fits, FitsAlone
  <2> QED BY <2>1, <2>2, <2>3, BeginStep
<1>5. ASSUME NEW i \in LinkId, VerifyEmail(s, i) PROVE Inductive'
  <2> DEFINE c == [Idle EXCEPT !.op = "confirm", !.on = i]
  <2>1. c \in Call /\ c.op = "confirm" /\ c.on = i BY DEF Idle, Call, Kind
  <2>2. Begin(s, c) BY <1>5 DEF VerifyEmail
  <2> HIDE DEF c
  <2>3. Fits(c) /\ FitsAlone(c) BY <2>1 DEF Fits, FitsAlone
  <2> QED BY <2>1, <2>2, <2>3, BeginStep
<1>6. ASSUME NEW i \in LinkId, ResetPassword(s, i) PROVE Inductive'
  <2> DEFINE c == [Idle EXCEPT !.op = "reset", !.kind = "reset", !.on = i]
  <2>1. c \in Call /\ c.op = "reset" /\ c.on = i BY DEF Idle, Call, Kind
  <2>2. Begin(s, c) /\ link["reset"][i].state = "live" BY <1>6 DEF ResetPassword
  <2> HIDE DEF c
  <2>3. Fits(c) /\ FitsAlone(c) BY <2>1, <2>2 DEF Fits, FitsAlone
  <2> QED BY <2>1, <2>2, <2>3, BeginStep
<1>7. ASSUME NEW i \in SessionId, session[i].state = "live", Begin(s, [Idle EXCEPT !.op = "rotate", !.on = i])
      PROVE  Inductive'
  <2> DEFINE c == [Idle EXCEPT !.op = "rotate", !.on = i]
  <2>1. c \in Call /\ c.op = "rotate" /\ c.on = i BY DEF Idle, Call, Kind
  <2>2. Begin(s, c) BY <1>7
  <2> HIDE DEF c
  <2>3. Fits(c) BY <1>7, <2>1 DEF Fits, Inductive, SessionsSound
  <2>4. width = 1 => FitsAlone(c)
    BY <1>7, <2>1 DEF FitsAlone, Inductive, AloneSound, PasswordsSound
  <2> QED BY <2>1, <2>2, <2>3, <2>4, BeginStep
<1>8. ASSUME NEW i \in SessionId, Begin(s, [Idle EXCEPT !.op = "kill", !.on = i])
      PROVE  Inductive'
  <2> DEFINE c == [Idle EXCEPT !.op = "kill", !.on = i]
  <2>1. c \in Call /\ c.op = "kill" BY DEF Idle, Call, Kind
  <2>2. Begin(s, c) BY <1>8
  <2> HIDE DEF c
  <2>3. Fits(c) /\ FitsAlone(c) BY <2>1 DEF Fits, FitsAlone
  <2> QED BY <2>1, <2>2, <2>3, BeginStep
<1>9. Register(s) => Begin(s, [Idle EXCEPT !.op = "create"]) \/ Begin(s, [Idle EXCEPT !.op = "issue"])
  BY DEF Register
<1>10. ResendVerification(s) => Begin(s, [Idle EXCEPT !.op = "issue"])
  BY DEF ResendVerification
<1>11. RequestPasswordReset(s) => Begin(s, [Idle EXCEPT !.op = "issue", !.kind = "reset"])
  BY DEF RequestPasswordReset
<1>12. \A i \in SessionId : Refresh(s, i) => Inductive' BY <1>7, <1>8 DEF Refresh
<1> QED BY <1>1, <1>2, <1>3, <1>4, <1>5, <1>6, <1>9, <1>10, <1>11, <1>12 DEF StartCall
-----------------------------------------------------------------------------
(***************************************************************************)
(* The writes of a call in progress.                                       *)
(***************************************************************************)

\* What Use leaves.
LEMMA Used ==
  ASSUME Shape, NEW k \in Kind, NEW I \in SUBSET LinkId
  PROVE  /\ Use(k, I) \in [LinkId -> Link]
         /\ \A i \in LinkId : /\ Use(k, I)[i].fresh = link[k][i].fresh
                              /\ i \in I => Use(k, I)[i].state \notin {"live", "expired"}
                              /\ Use(k, I)[i].state = "live" => link[k][i].state = "live"
<1>1. \A i \in LinkId : link[k][i] \in Link BY DEF Shape
<1>2. ASSUME NEW i \in LinkId, NEW x \in Link, x = link[k][i]
      PROVE  /\ [x EXCEPT !.state = "used"] \in Link /\ [x EXCEPT !.state = "used"].fresh = x.fresh
             /\ [x EXCEPT !.state = "used"].state = "used"
  BY DEF Link
<1> QED BY <1>1, <1>2 DEF Use

\* What RevokeSessions leaves.
LEMMA Revoked ==
  ASSUME Shape
  PROVE  /\ RevokeSessions \in [SessionId -> Token]
         /\ \A i \in SessionId : /\ RevokeSessions[i].state # "live"
                                 /\ RevokeSessions[i].state # "free" => session[i].state # "free"
<1>1. \A i \in SessionId : session[i] \in Token BY DEF Shape
<1>2. ASSUME NEW x \in Token
      PROVE  [x EXCEPT !.state = "revoked"] \in Token /\ [x EXCEPT !.state = "revoked"].state = "revoked"
  BY DEF Token
<1> QED BY <1>1, <1>2 DEF RevokeSessions

\* A link that was used is no longer live nor expired, and no link gets fresh.
LEMMA Spent ==
  ASSUME Shape, NEW k \in Kind, NEW i \in LinkId
  PROVE  LET l == [UseAll(k) EXCEPT ![i].state = "used"] IN
         /\ l \in [LinkId -> Link] /\ l[i].state = "used"
         /\ \A j \in LinkId : l[j].state # "live" /\ l[j].fresh = link[k][j].fresh
<1> DEFINE u == UseAll(k)
           x == u[i]
           y == [x EXCEPT !.state = "used"]
<1>1. u \in [LinkId -> Link] /\ \A j \in LinkId : u[j].state # "live" /\ u[j].fresh = link[k][j].fresh
  BY Used DEF UseAll
<1>2. x \in Link BY <1>1
<1>3. y \in Link /\ y.state = "used" /\ y.fresh = x.fresh BY <1>2 DEF Link
<1>4. [u EXCEPT ![i].state = "used"] = [u EXCEPT ![i] = y] OBVIOUS
<1> HIDE DEF u, y
<1>5. [u EXCEPT ![i] = y] \in [LinkId -> Link] /\ [u EXCEPT ![i] = y][i] = y BY <1>1, <1>3
<1>6. \A j \in LinkId : j # i => [u EXCEPT ![i] = y][j] = u[j] BY <1>1
<1> QED BY <1>1, <1>3, <1>4, <1>5, <1>6 DEF u

\* The write of a registration: nobody can have a session yet.
LEMMA CreateStep ==
  ASSUME Inductive, NEW s \in Slot, WriteCreate(s)
  PROVE  Inductive'
<1>1. call[s] # Idle BY IdleFits DEF WriteCreate
<1>2. link' = link /\ session' = session BY DEF WriteCreate
<1>3. link' \in [Kind -> [LinkId -> Link]] /\ session' \in [SessionId -> Token]
  BY <1>2 DEF Inductive, Shape
<1>4. CASE account.state = "absent"
  <2> DEFINE c == [Idle EXCEPT !.op = "issue"]
  <2>1. c \in Call /\ c.op = "issue" BY IdleWith DEF Op
  <2>2. Goes(s, c) /\ account' = [state |-> "unverified", password |-> 1] BY <1>4 DEF WriteCreate
  <2> HIDE DEF c
  <2>3. account' \in Account BY <2>2 DEF Account
  <2>4. \A i \in SessionId : session[i].state = "free" BY <1>4 DEF Inductive, SessionsSound
  <2>5. SessionsSound' BY <1>2, <2>4 DEF SessionsSound
  <2>6. Fits(c)' /\ FitsAlone(c)' BY <2>1 DEF Fits, FitsAlone
  <2>7. width = 1 => FreshSound' /\ PasswordsSound'
    BY <1>2, <2>4 DEF Inductive, AloneSound, FreshSound, PasswordsSound
  <2> QED BY <1>1, <1>2, <1>3, <1>4, <2>1, <2>2, <2>3, <2>5, <2>6, <2>7, WriteSuffices
<1>5. CASE account.state # "absent"
  <2>1. Goes(s, Idle) /\ account' = account BY <1>5 DEF WriteCreate, Ends
  <2>2. SessionsSound' /\ account' \in Account BY <1>2, <2>1 DEF Inductive, SessionsSound, Shape
  <2>3. width = 1 => FreshSound' /\ PasswordsSound'
    BY <1>2, <2>1 DEF Inductive, AloneSound, FreshSound, PasswordsSound
  <2> QED BY <1>1, <1>2, <1>3, <2>1, <2>2, <2>3, IdleFits, WriteSuffices
<1> QED BY <1>4, <1>5

\* The check of the cooldown; what goes on to be mailed found no fresh link.
LEMMA IssueStep ==
  ASSUME Inductive, NEW s \in Slot, Issue(s)
  PROVE  Inductive'
<1>1. call[s].op = "issue" /\ call[s] # Idle /\ call[s] \in Call
  BY IdleFits DEF Issue, Inductive, Shape
<1>2. link' = link /\ session' = session BY DEF Issue
<1>3. link' \in [Kind -> [LinkId -> Link]] /\ session' \in [SessionId -> Token]
  BY <1>2 DEF Inductive, Shape
<1>4. account \in Account BY DEF Inductive, Shape
<1>5. /\ account' \in Account /\ (account.state = "verified" => account'.state = "verified")
      /\ account'.password = account.password
  <2>1. \A a \in Account : LET b == [a EXCEPT !.state = "verified"] IN
          b \in Account /\ b.state = "verified" /\ b.password = a.password
    BY DEF Account
  <2>2. account' = account \/ account' = [account EXCEPT !.state = "verified"] BY DEF Issue
  <2> QED BY <1>4, <2>1, <2>2
<1>6. SessionsSound' BY <1>2, <1>5 DEF Inductive, SessionsSound
<1>7. width = 1 => FreshSound' /\ PasswordsSound'
  BY <1>2, <1>5 DEF Inductive, AloneSound, FreshSound, PasswordsSound
<1>8. CASE Goes(s, Idle)
  BY <1>1, <1>2, <1>3, <1>5, <1>6, <1>7, <1>8, IdleFits, WriteSuffices
<1>9. CASE ~IsWithinCooldown(call[s].kind) /\ Goes(s, [call[s] EXCEPT !.op = "mail"])
  <2>0. [call[s] EXCEPT !.op = "mail"] \in Call BY <1>1 DEF Call
  <2>1. PICK c \in Call : c = [call[s] EXCEPT !.op = "mail"] BY <2>0
  <2>2. Goes(s, c) /\ c.op = "mail" /\ c.kind = call[s].kind BY <1>1, <1>9, <2>1 DEF Call
  <2>3. Fits(c)' BY <2>2 DEF Fits
  <2>4. FitsAlone(c)'
    <3>1. \A i \in LinkId : ~link'[c.kind][i].fresh BY <1>2, <1>9, <2>2 DEF IsWithinCooldown
    <3> QED BY <2>2, <3>1 DEF FitsAlone
  <2> QED BY <1>1, <1>2, <1>3, <1>5, <1>6, <1>7, <2>1, <2>2, <2>3, <2>4, WriteSuffices
<1> QED BY <1>8, <1>9 DEF Issue, Ends

\* A call that ends, whatever it was, leaves the mints of the others.
LEMMA EndedMints ==
  ASSUME Inductive, NEW s \in Slot, call'[s] = Idle, link' = link, crossed' = crossed,
         \A t \in Slot : t # s => seen'[t] = seen[t] /\ call'[t] = call[t]
  PROVE  MintsSound'
<1> SUFFICES ASSUME NEW k \in Kind \ crossed, NEW t \in Mints(k)'
             PROVE  /\ \A r \in Mints(k)' : r = t
                    /\ \A i \in LinkId : link[k][i].state = "live" => i \in seen'[t]
  BY DEF MintsSound
<1>1. \A r \in Mints(k)' : r \in Mints(k) /\ r # s BY IdleFits DEF Mints
<1>2. t \in Mints(k) /\ seen'[t] = seen[t] BY <1>1 DEF Mints
<1> QED BY <1>1, <1>2 DEF Inductive, MintsSound

\* The first statement of a mint: alone with its kind, or the kind is crossed.
LEMMA MailStep ==
  ASSUME Inductive, NEW s \in Slot, Mail(s)
  PROVE  Inductive'
<1> DEFINE k == call[s].kind
           found == {i \in LinkId : link[k][i].state \in {"live", "expired"}}
<1>1. /\ call[s].op = "mail" /\ call[s] # Idle /\ call[s] \in Call /\ k \in Kind
      /\ link' = link /\ account' = account /\ session' = session /\ width' = width
      /\ seen' = [seen EXCEPT ![s] = found]
      /\ crossed' = IF Mints(k) = {} THEN crossed ELSE crossed \cup {k}
  BY IdleFits, Fields DEF Mail, Inductive, Shape
<1>2. [call[s] EXCEPT !.op = "mint"] \in Call BY <1>1 DEF Call
<1>3. PICK c \in Call : c = [call[s] EXCEPT !.op = "mint"] BY <1>2
<1>4. /\ call' = [call EXCEPT ![s] = c] /\ c.op = "mint" /\ c.kind = k
  BY <1>1, <1>3 DEF Mail, Call, Inductive, Shape
<1>5. /\ seen' \in [Slot -> SUBSET LinkId] /\ crossed' \subseteq Kind /\ crossed \subseteq crossed'
      /\ \A t \in Slot : seen'[t] = IF t = s THEN found ELSE seen[t]
      /\ \A t \in Slot : call'[t] = IF t = s THEN c ELSE call[t]
  BY <1>1, <1>4 DEF Inductive, Shape
<1> HIDE DEF k
<1>6. MintsSound'
  <2> SUFFICES ASSUME NEW q \in Kind, q \notin crossed', NEW t \in Mints(q)'
               PROVE  /\ \A r \in Mints(q)' : r = t
                      /\ \A i \in LinkId : link[q][i].state = "live" => i \in seen'[t]
    BY <1>1 DEF MintsSound
  <2>1. q \notin crossed BY <1>5
  <2>2. CASE q = k
    <3>1. Mints(q) = {} BY <1>1, <2>2
    <3>2. \A r \in Mints(q)' : r = s BY <1>5, <3>1 DEF Mints
    <3>3. t = s /\ s \in Slot BY <3>2
    <3> QED BY <1>5, <2>2, <3>2, <3>3
  <2>3. CASE q # k
    <3>1. \A r \in Mints(q)' : r # s /\ r \in Mints(q) BY <1>4, <1>5, <2>3 DEF Mints
    <3>2. seen'[t] = seen[t] /\ t \in Mints(q) BY <1>5, <3>1 DEF Mints
    <3> QED BY <2>1, <3>1, <3>2 DEF Inductive, MintsSound
  <2> QED BY <2>2, <2>3
<1>7. LinksSound' BY <1>1, <1>5 DEF Inductive, LinksSound
<1>8. /\ SessionsSound' /\ account' \in Account /\ session' \in [SessionId -> Token]
      /\ link' \in [Kind -> [LinkId -> Link]]
  BY <1>1 DEF Inductive, SessionsSound, Shape
<1>9. ASSUME width = 1 PROVE FreshSound' /\ PasswordsSound' /\ FitsAlone(c)'
  <2>1. FreshSound' /\ PasswordsSound' BY <1>1, <1>9 DEF Inductive, AloneSound, FreshSound, PasswordsSound
  <2>2. \A i \in LinkId : ~link[k][i].fresh BY <1>1, <1>9 DEF Inductive, AloneSound, FitsAlone, k
  <2>3. FitsAlone(c)' BY <1>1, <1>4, <2>2 DEF FitsAlone
  <2> QED BY <2>1, <2>3
<1>10. Fits(c)' BY <1>4 DEF Fits
<1> QED BY <1>1, <1>4, <1>5, <1>6, <1>7, <1>8, <1>9, <1>10, CallSuffices

\* The commit of a mint: of a kind that is not crossed, the one live link is the
\* one made here; a crossed kind is mended by a mint that found all of its links.
LEMMA MintStep ==
  ASSUME Inductive, NEW s \in Slot, Mint(s)
  PROVE  Inductive'
<1> DEFINE k == call[s].kind
           all == Mints(k) = {s} /\ \A i \in LinkId : link[k][i].state = "live" => i \in seen[s]
<1>1. /\ call[s].op = "mint" /\ call[s] # Idle /\ k \in Kind /\ s \in Mints(k)
      /\ account' = account /\ session' = session /\ width' = width
      /\ call' = [call EXCEPT ![s] = Idle] /\ seen' = [seen EXCEPT ![s] = {}]
      /\ crossed' = IF all THEN crossed \ {k} ELSE crossed
  BY IdleFits, Fields DEF Mint, Mints, Inductive, Shape
<1>2. PICK i \in LinkId :
        link' = [link EXCEPT ![k] = [Use(k, seen[s]) EXCEPT ![i] = [state |-> "live", fresh |-> TRUE]]]
  BY DEF Mint
<1> DEFINE u == Use(k, seen[s])
           x == [state |-> "live", fresh |-> TRUE]
           l == [u EXCEPT ![i] = x]
<1>3. /\ u \in [LinkId -> Link]
      /\ \A j \in LinkId : /\ u[j].fresh = link[k][j].fresh
                           /\ u[j].state = "live" => link[k][j].state = "live" /\ j \notin seen[s]
  BY <1>1, Used DEF Inductive, Shape
<1>4. x \in Link /\ x.state = "live" /\ x.fresh BY DEF Link
<1>5. link \in [Kind -> [LinkId -> Link]] BY DEF Inductive, Shape
<1>6. ASSUME k \notin crossed' PROVE all
  <2>1. CASE k \in crossed BY <1>1, <1>6, <2>1
  <2>2. CASE k \notin crossed
    <3>1. /\ \A t \in Mints(k) : t = s
          /\ \A j \in LinkId : link[k][j].state = "live" => j \in seen[s]
      BY <1>1, <2>2 DEF Inductive, MintsSound
    <3> QED BY <1>1, <3>1
  <2> QED BY <2>1, <2>2
<1>7. k \notin crossed' => /\ Mints(k) = {s}
                           /\ \A j \in LinkId : link[k][j].state = "live" => j \in seen[s]
  BY <1>6
<1>8. crossed' \subseteq Kind /\ \A q \in Kind : q # k /\ q \notin crossed' => q \notin crossed
  BY <1>1 DEF Inductive, Shape
<1> HIDE DEF k, u, x, all
<1>9. l \in [LinkId -> Link] /\ \A j \in LinkId : l[j] = IF j = i THEN x ELSE u[j] BY <1>3, <1>4
<1>10. link' = [link EXCEPT ![k] = l] BY <1>2 DEF u, x
<1> HIDE DEF l
<1>11. link' \in [Kind -> [LinkId -> Link]] /\ \A q \in Kind : link'[q] = IF q = k THEN l ELSE link[q]
  BY <1>1, <1>5, <1>9, <1>10
<1>12. LinksSound'
  <2>1. k \notin crossed' => \A j \in LinkId : l[j].state = "live" => j = i BY <1>3, <1>7, <1>9
  <2>2. \A q \in Kind : q \notin crossed' /\ q # k =>
          \A a, b \in LinkId : link'[q][a].state = "live" /\ link'[q][b].state = "live" => a = b
    BY <1>8, <1>11 DEF Inductive, LinksSound
  <2> QED BY <1>11, <2>1, <2>2 DEF LinksSound
<1>13. /\ seen' \in [Slot -> SUBSET LinkId]
       /\ \A t \in Slot : t # s => seen'[t] = seen[t] /\ call'[t] = call[t]
       /\ call'[s] = Idle
  BY <1>1 DEF Inductive, Shape
<1>14. MintsSound'
  <2> SUFFICES ASSUME NEW q \in Kind, q \notin crossed', NEW t \in Mints(q)'
               PROVE  /\ \A r \in Mints(q)' : r = t
                      /\ \A j \in LinkId : link'[q][j].state = "live" => j \in seen'[t]
    BY DEF MintsSound
  <2>1. \A r \in Mints(q)' : r # s /\ r \in Mints(q) BY <1>13, IdleFits DEF Mints
  <2>2. q # k BY <1>7, <2>1
  <2>3. q \notin crossed /\ t \in Mints(q) /\ seen'[t] = seen[t] /\ link'[q] = link[q]
    BY <1>8, <1>11, <1>13, <2>1, <2>2 DEF Mints
  <2> QED BY <2>1, <2>3 DEF Inductive, MintsSound
<1>15. SessionsSound' /\ account' \in Account /\ session' \in [SessionId -> Token]
  BY <1>1 DEF Inductive, SessionsSound, Shape
<1>16. ASSUME width = 1 PROVE FreshSound' /\ PasswordsSound'
  <2>1. \A j \in LinkId : ~link[k][j].fresh
    BY <1>1, <1>16 DEF Inductive, AloneSound, FitsAlone, k
  <2>2. \A j \in LinkId : l[j].fresh => j = i BY <1>3, <1>9, <2>1
  <2>3. FreshSound' BY <1>11, <1>16, <2>2 DEF Inductive, AloneSound, FreshSound
  <2>4. PasswordsSound' BY <1>1, <1>16 DEF Inductive, AloneSound, PasswordsSound
  <2> QED BY <2>3, <2>4
<1> QED BY <1>1, <1>8, <1>11, <1>12, <1>13, <1>14, <1>15, <1>16, IdleFits, CallSuffices

\* The write of a verification.
LEMMA ConfirmStep ==
  ASSUME Inductive, NEW s \in Slot, WriteVerifyEmail(s)
  PROVE  Inductive'
<1> DEFINE i == call[s].on
           l == [UseAll("verify") EXCEPT ![i].state = "used"]
<1>1. call[s].op = "confirm" /\ call[s] # Idle /\ i \in LinkId /\ Goes(s, Idle) /\ session' = session
  BY IdleFits DEF WriteVerifyEmail, Ends, Inductive, Fits
<1>2. link' = [link EXCEPT !["verify"] = l] BY DEF WriteVerifyEmail
<1>3. l \in [LinkId -> Link] /\ \A j \in LinkId : l[j].state # "live" /\ l[j].fresh = link["verify"][j].fresh
  BY <1>1, Spent DEF Inductive, Kind
<1>4. link \in [Kind -> [LinkId -> Link]] /\ "verify" \in Kind BY DEF Inductive, Shape, Kind
<1> HIDE DEF l, i
<1>5. link' \in [Kind -> [LinkId -> Link]] /\ \A q \in Kind : link'[q] = IF q = "verify" THEN l ELSE link[q]
  BY <1>2, <1>3, <1>4
<1>6. \A q \in Kind, j \in LinkId : link'[q][j].state = "live" => link[q][j].state = "live"
  BY <1>3, <1>5
<1>7. account' \in Account /\ account'.state = "verified" /\ account'.password = account.password
  BY DEF WriteVerifyEmail, Inductive, Shape, Account
<1>8. SessionsSound' /\ session' \in [SessionId -> Token] BY <1>1, <1>7 DEF Inductive, SessionsSound, Shape
<1>9. ASSUME width = 1 PROVE FreshSound' /\ PasswordsSound'
  <2>1. FreshSound' BY <1>3, <1>5, <1>9 DEF Inductive, AloneSound, FreshSound
  <2>2. PasswordsSound' BY <1>1, <1>7, <1>9 DEF Inductive, AloneSound, PasswordsSound
  <2> QED BY <2>1, <2>2
<1> QED BY <1>1, <1>5, <1>6, <1>7, <1>8, <1>9, IdleFits, WriteSuffices

\* The write of a password reset; of calls one after another it spends a link.
LEMMA ResetStep ==
  ASSUME Inductive, NEW s \in Slot, WriteResetPassword(s)
  PROVE  Inductive' /\ (width = 1 => SpendsALink)
<1> DEFINE i == call[s].on
           l == [UseAll("reset") EXCEPT ![i].state = "used"]
<1>1. call[s].op = "reset" /\ call[s] # Idle /\ i \in LinkId /\ Goes(s, Idle) /\ link["reset"][i].state # "gone"
  BY IdleFits DEF WriteResetPassword, Ends, Inductive, Fits
<1>2. link' = [link EXCEPT !["reset"] = l] BY DEF WriteResetPassword, SpendLink
<1>3. /\ l \in [LinkId -> Link] /\ l[i].state = "used"
      /\ \A j \in LinkId : l[j].state # "live" /\ l[j].fresh = link["reset"][j].fresh
  BY <1>1, Spent DEF Inductive, Kind
<1>4. link \in [Kind -> [LinkId -> Link]] /\ "reset" \in Kind BY DEF Inductive, Shape, Kind
<1> HIDE DEF l
<1>5. link' \in [Kind -> [LinkId -> Link]] /\ \A q \in Kind : link'[q] = IF q = "reset" THEN l ELSE link[q]
  BY <1>2, <1>3, <1>4
<1>6. \A q \in Kind, j \in LinkId : link'[q][j].state = "live" => link[q][j].state = "live"
  BY <1>3, <1>5
<1>7. account' \in Account /\ account'.state = "verified"
  BY DEF WriteResetPassword, Inductive, Shape, Account
<1>8. /\ session' \in [SessionId -> Token]
      /\ \A j \in SessionId : session'[j].state # "live" /\ (session'[j].state # "free" => session[j].state # "free")
  BY Revoked DEF WriteResetPassword, Inductive
<1>9. SessionsSound' BY <1>7 DEF SessionsSound
<1>10. ASSUME width = 1 PROVE FreshSound' /\ PasswordsSound'
  <2>1. FreshSound' BY <1>3, <1>5, <1>10 DEF Inductive, AloneSound, FreshSound
  <2>2. PasswordsSound' BY <1>8 DEF PasswordsSound
  <2> QED BY <2>1, <2>2
<1>11. Inductive' BY <1>1, <1>5, <1>6, <1>7, <1>8, <1>9, <1>10, IdleFits, WriteSuffices
<1>12. ASSUME width = 1 PROVE SpendsALink
  <2>1. link["reset"][i].state \in {"live", "expired"}
    BY <1>1, <1>12 DEF Inductive, AloneSound, FitsAlone
  <2>2. link'["reset"][i].state = "used" BY <1>3, <1>4, <1>5
  <2> HIDE DEF i
  <2> QED BY <1>1, <2>1, <2>2 DEF SpendsALink
<1> QED BY <1>11, <1>12

\* A sign-in creates its token, of calls one after another with the password as it is.
LEMMA IssueTokensStep ==
  ASSUME Inductive, NEW s \in Slot, IssueTokens(s)
  PROVE  Inductive'
<1> DEFINE x == [state |-> "live", password |-> call[s].password]
<1>1. /\ call[s].op = "signIn" /\ call[s] # Idle /\ Goes(s, Idle) /\ link' = link /\ account' = account
      /\ account.state = "verified" /\ call[s].password \in Nat
  BY IdleFits, Fields DEF IssueTokens, Ends, Inductive, Shape, Fits
<1>2. PICK i \in SessionId : session' = [session EXCEPT ![i] = x] BY DEF IssueTokens
<1>3. x \in Token /\ x.password = call[s].password BY <1>1 DEF Token
<1> HIDE DEF x
<1>4. session' \in [SessionId -> Token] /\ \A j \in SessionId : session'[j] = IF j = i THEN x ELSE session[j]
  BY <1>2, <1>3 DEF Inductive, Shape
<1>5. link' \in [Kind -> [LinkId -> Link]] /\ account' \in Account
  BY <1>1 DEF Inductive, Shape
<1>6. SessionsSound' BY <1>1 DEF SessionsSound
<1>7. ASSUME width = 1 PROVE FreshSound' /\ PasswordsSound'
  <2>1. FreshSound' BY <1>1, <1>7 DEF Inductive, AloneSound, FreshSound
  <2>2. x.password = account.password BY <1>1, <1>3, <1>7 DEF Inductive, AloneSound, FitsAlone
  <2>3. PasswordsSound' BY <1>1, <1>4, <1>7, <2>2 DEF Inductive, AloneSound, PasswordsSound
  <2> QED BY <2>1, <2>3
<1> QED BY <1>1, <1>4, <1>5, <1>6, <1>7, IdleFits, WriteSuffices

\* A rotation: the old token ends, the new one will have its password.
LEMMA RotateStep ==
  ASSUME Inductive, NEW s \in Slot, Rotate(s)
  PROVE  Inductive'
<1> DEFINE i == call[s].on
           x == session[i]
           y == [x EXCEPT !.state = "revoked"]
<1>1. /\ call[s].op = "rotate" /\ call[s] # Idle /\ i \in SessionId /\ x.state # "gone"
      /\ link' = link /\ account' = account /\ account.state = "verified"
  BY IdleFits DEF Rotate, Inductive, Fits
<1>2. x \in Token /\ x.password \in Nat BY <1>1, Fields DEF Inductive, Shape
<1>3. PICK p \in Nat : p = x.password BY <1>2
<1>4. PICK c \in Call : c = [Idle EXCEPT !.op = "signIn", !.password = p] BY IdleWith DEF Op
<1>12. Goes(s, c) /\ c.op = "signIn" /\ c.password = p
  <2>1. c.op = "signIn" /\ c.password = p BY <1>4, IdleWith DEF Op
  <2>2. Goes(s, c) BY <1>3, <1>4 DEF Rotate
  <2> QED BY <2>1, <2>2
<1>5. y \in Token /\ y.state = "revoked" BY <1>2 DEF Token
<1>6. session' = [session EXCEPT ![i] = y] BY DEF Rotate
<1> HIDE DEF y
<1>7. session' \in [SessionId -> Token] /\ \A j \in SessionId : session'[j] = IF j = i THEN y ELSE session[j]
  BY <1>1, <1>5, <1>6 DEF Inductive, Shape
<1>8. link' \in [Kind -> [LinkId -> Link]] /\ account' \in Account
  BY <1>1 DEF Inductive, Shape
<1>9. SessionsSound' BY <1>1 DEF SessionsSound
<1>10. Fits(c)' BY <1>1, <1>12 DEF Fits
<1>11. ASSUME width = 1 PROVE FreshSound' /\ PasswordsSound' /\ FitsAlone(c)'
  <2>1. FreshSound' BY <1>1, <1>11 DEF Inductive, AloneSound, FreshSound
  <2>2. PasswordsSound' BY <1>1, <1>5, <1>7, <1>11 DEF Inductive, AloneSound, PasswordsSound
  <2>3. x.password = account.password BY <1>1, <1>11 DEF Inductive, AloneSound, FitsAlone
  <2>4. FitsAlone(c)' BY <1>1, <1>3, <1>12, <2>3 DEF FitsAlone
  <2> QED BY <2>1, <2>2, <2>4
<1> QED BY <1>1, <1>4, <1>12, <1>7, <1>8, <1>9, <1>10, <1>11, WriteSuffices

\* A token presented twice ends every session.
LEMMA KillStep ==
  ASSUME Inductive, NEW s \in Slot, KillFamily(s)
  PROVE  Inductive'
<1>1. /\ call[s] # Idle /\ Goes(s, Idle) /\ link' = link /\ account' = account
      /\ session' = RevokeSessions
  BY IdleFits DEF KillFamily, Ends
<1>2. /\ session' \in [SessionId -> Token]
      /\ \A j \in SessionId : session'[j].state # "live" /\ (session'[j].state # "free" => session[j].state # "free")
  BY <1>1, Revoked DEF Inductive
<1>3. link' \in [Kind -> [LinkId -> Link]] /\ account' \in Account
  BY <1>1 DEF Inductive, Shape
<1>4. SessionsSound' BY <1>1, <1>2 DEF Inductive, SessionsSound
<1>5. ASSUME width = 1 PROVE FreshSound' /\ PasswordsSound'
  <2>1. FreshSound' BY <1>1, <1>5 DEF Inductive, AloneSound, FreshSound
  <2>2. PasswordsSound' BY <1>2 DEF PasswordsSound
  <2> QED BY <2>1, <2>2
<1> QED BY <1>1, <1>2, <1>3, <1>4, <1>5, IdleFits, WriteSuffices

\* A write that is refused changes nothing.
LEMMA RefusedStep ==
  ASSUME Inductive, NEW s \in Slot, Refused(s)
  PROVE  Inductive'
<1>1. /\ call[s] # Idle /\ link' = link /\ account' = account /\ session' = session
      /\ call' = [call EXCEPT ![s] = Idle] /\ width' = width /\ crossed' = crossed
      /\ seen' = [seen EXCEPT ![s] = {}]
  BY IdleFits DEF Refused
<1>2. /\ LinksSound' /\ SessionsSound'
      /\ link' \in [Kind -> [LinkId -> Link]] /\ account' \in Account /\ session' \in [SessionId -> Token]
  BY <1>1 DEF Inductive, LinksSound, SessionsSound, Shape
<1>3. width = 1 => FreshSound' /\ PasswordsSound'
  BY <1>1 DEF Inductive, AloneSound, FreshSound, PasswordsSound
<1>4. /\ seen' \in [Slot -> SUBSET LinkId] /\ crossed' \subseteq Kind
      /\ \A t \in Slot : t # s => seen'[t] = seen[t] /\ call'[t] = call[t]
      /\ call'[s] = Idle
  BY <1>1 DEF Inductive, Shape
<1>5. MintsSound' BY <1>1, <1>4, EndedMints
<1> QED BY <1>1, <1>2, <1>3, <1>4, <1>5, IdleFits, CallSuffices
-----------------------------------------------------------------------------
(***************************************************************************)
(* Time and logouts.                                                       *)
(***************************************************************************)

\* A session whose state alone changes.
LEMMA SessionFades ==
  ASSUME Inductive, NEW i \in SessionId, session[i].state = "live",
         NEW t \in {"revoked", "expired"}, session' = [session EXCEPT ![i].state = t],
         UNCHANGED <<account, link, call, width, mints>>
  PROVE  Inductive'
<1> DEFINE x == session[i]
           y == [x EXCEPT !.state = t]
<1>1. x \in Token /\ session \in [SessionId -> Token] BY DEF Inductive, Shape
<1>2. y \in Token /\ y.state = t /\ y.password = x.password BY <1>1 DEF Token
<1>3. session' = [session EXCEPT ![i] = y] OBVIOUS
<1> HIDE DEF y
<1>4. session' \in [SessionId -> Token] /\ \A j \in SessionId : session'[j] = IF j = i THEN y ELSE session[j]
  BY <1>1, <1>2, <1>3
<1>5. \A j \in SessionId :
        \/ session'[j] = session[j]
        \/ /\ session[j].state = "live" /\ session'[j].state \in {"revoked", "expired"}
           /\ session'[j].password = session[j].password
  BY <1>2, <1>4
<1>6. Faded BY <1>4, <1>5 DEF Faded, Inductive, Shape
<1> QED BY <1>6, FadeStep

\* The cooldown of a kind is over.
LEMMA CooldownStep ==
  ASSUME Inductive, NEW k \in Kind, CooldownEnds(k)
  PROVE  Inductive'
<1> DEFINE y(j) == [link[k][j] EXCEPT !.fresh = FALSE]
           l == [j \in LinkId |-> y(j)]
<1>1. link \in [Kind -> [LinkId -> Link]] BY DEF Inductive, Shape
<1>2. \A j \in LinkId : y(j) \in Link /\ y(j).state = link[k][j].state /\ ~y(j).fresh
  <2>1. \A x \in Link : LET z == [x EXCEPT !.fresh = FALSE] IN z \in Link /\ z.state = x.state /\ ~z.fresh
    BY DEF Link
  <2> QED BY <1>1, <2>1
<1>3. link' = [link EXCEPT ![k] = l] BY DEF CooldownEnds
<1> HIDE DEF y
<1>4. l \in [LinkId -> Link] /\ \A j \in LinkId : l[j] = y(j) BY <1>2
<1> HIDE DEF l
<1>5. link' \in [Kind -> [LinkId -> Link]] /\ \A q \in Kind : link'[q] = IF q = k THEN l ELSE link[q]
  BY <1>1, <1>3, <1>4
<1>6. session' = session BY DEF CooldownEnds
<1>7. Faded BY <1>2, <1>4, <1>5, <1>6 DEF Faded, Inductive, Shape
<1> QED BY <1>7, FadeStep DEF CooldownEnds

\* A link expires.
LEMMA ExpireLinkStep ==
  ASSUME Inductive, NEW k \in Kind, NEW i \in LinkId, ExpireLink(k, i)
  PROVE  Inductive'
<1> DEFINE x == link[k][i]
           y == [x EXCEPT !.state = "expired"]
           l == [link[k] EXCEPT ![i] = y]
<1>1. link \in [Kind -> [LinkId -> Link]] BY DEF Inductive, Shape
<1>2. x \in Link /\ x.state = "live" BY <1>1 DEF ExpireLink
<1>3. y \in Link /\ y.state = "expired" /\ y.fresh = x.fresh BY <1>2 DEF Link
<1>4. link' = [link EXCEPT ![k] = l] BY DEF ExpireLink
<1> HIDE DEF y
<1>5. l \in [LinkId -> Link] /\ \A j \in LinkId : l[j] = IF j = i THEN y ELSE link[k][j] BY <1>1, <1>3
<1> HIDE DEF l
<1>6. link' \in [Kind -> [LinkId -> Link]] /\ \A q \in Kind : link'[q] = IF q = k THEN l ELSE link[q]
  BY <1>1, <1>4, <1>5
<1>7. session' = session BY DEF ExpireLink
<1>8. Faded BY <1>2, <1>3, <1>5, <1>6, <1>7 DEF Faded, Inductive, Shape
<1> QED BY <1>8, FadeStep DEF ExpireLink

\* The daily purge.
LEMMA PurgeStep ==
  ASSUME Inductive, Purge
  PROVE  Inductive'
<1> DEFINE n == [NoLink EXCEPT !.state = "gone"]
           m == [NoSession EXCEPT !.state = "gone"]
<1>1. n \in Link /\ n.state = "gone" /\ ~n.fresh BY DEF NoLink, Link
<1>2. m \in Token /\ m.state = "gone" BY DEF NoSession, Token
<1>3. link' = [k \in Kind |-> [i \in LinkId |-> IF link[k][i].state \in {"used", "expired"} THEN n ELSE link[k][i]]]
  BY DEF Purge
<1>4. PICK old \in SUBSET {i \in SessionId : session[i].state = "revoked"} :
        session' = [i \in SessionId |-> IF session[i].state = "expired" \/ i \in old THEN m ELSE session[i]]
  BY DEF Purge
<1> HIDE DEF n, m
<1>5. session' \in [SessionId -> Token] /\ link' \in [Kind -> [LinkId -> Link]]
  BY <1>1, <1>2, <1>3, <1>4 DEF Inductive, Shape
<1>6. \A i \in SessionId : session'[i] = session[i] \/ (session[i].state # "free" /\ session'[i].state = "gone")
  BY <1>2, <1>4
<1>7. \A k \in Kind, i \in LinkId :
        \/ link'[k][i] = link[k][i]
        \/ link[k][i].state \in {"used", "expired"} /\ link'[k][i].state = "gone" /\ ~link'[k][i].fresh
  BY <1>1, <1>3
<1>8. Faded BY <1>5, <1>6, <1>7 DEF Faded
<1> QED BY <1>8, FadeStep DEF Purge
-----------------------------------------------------------------------------
(***************************************************************************)
(* The theorems.                                                           *)
(***************************************************************************)

\* The invariant holds initially.
LEMMA InitInductive == Init => Inductive
<1> SUFFICES ASSUME Init PROVE Inductive OBVIOUS
<1>1. account \in Account BY DEF Init, Account
<1>2. NoLink \in Link /\ NoLink.state = "free" /\ ~NoLink.fresh BY DEF NoLink, Link
<1>3. NoSession \in Token /\ NoSession.state = "free" BY DEF NoSession, Token
<1>4. /\ link \in [Kind -> [LinkId -> Link]] /\ \A k \in Kind : \A i \in LinkId : link[k][i] = NoLink
      /\ session \in [SessionId -> Token] /\ \A i \in SessionId : session[i] = NoSession
  BY <1>2, <1>3 DEF Init
<1>5. /\ call \in [Slot -> Call] /\ \A s \in Slot : call[s] = Idle
      /\ seen \in [Slot -> SUBSET LinkId] /\ crossed \subseteq Kind
  BY IdleFits DEF Init
<1>6. Shape BY <1>1, <1>4, <1>5 DEF Shape
<1>9. MintsSound BY <1>5, IdleFits DEF MintsSound, Mints
<1>7. LinksSound /\ SessionsSound /\ FreshSound /\ PasswordsSound
  BY <1>2, <1>3, <1>4 DEF LinksSound, SessionsSound, FreshSound, PasswordsSound
<1>8. Single /\ \A s \in Slot : Fits(call[s]) /\ FitsAlone(call[s]) BY <1>5, IdleFits DEF Single
<1> QED BY <1>6, <1>7, <1>8, <1>9 DEF Inductive, AloneSound

\* Every step keeps the invariant.
LEMMA NextInductive ==
  ASSUME Inductive, IsFiniteSet(Slot), [Next]_vars
  PROVE  Inductive'
<1>1. ASSUME NEW s \in Slot, Step(s) PROVE Inductive'
  BY <1>1, CreateStep, IssueStep, MailStep, MintStep, ConfirmStep, ResetStep, IssueTokensStep, RotateStep, KillStep,
     RefusedStep DEF Step
<1>2. ASSUME NEW s \in Slot, StartCall(s) PROVE Inductive' BY <1>2, StartStep
<1>3. ASSUME NEW i \in SessionId, Logout(i) PROVE Inductive' BY <1>3, SessionFades DEF Logout
<1>4. ASSUME NEW i \in SessionId, ExpireSession(i) PROVE Inductive' BY <1>4, SessionFades DEF ExpireSession
<1>5. ASSUME NEW k \in Kind, CooldownEnds(k) PROVE Inductive' BY <1>5, CooldownStep
<1>6. ASSUME NEW k \in Kind, NEW i \in LinkId, ExpireLink(k, i) PROVE Inductive' BY <1>6, ExpireLinkStep
<1>7. CASE Purge BY <1>7, PurgeStep
<1>8. CASE UNCHANGED vars
  <2>1. Shape' /\ LinksSound' /\ MintsSound' /\ SessionsSound'
    BY <1>8 DEF vars, mints, Inductive, Shape, LinksSound, MintsSound, Mints, SessionsSound
  <2>2. \A s \in Slot : Fits(call[s])' BY <1>8 DEF vars, Inductive, Fits
  <2>3. width = 1 => AloneSound'
    BY <1>8 DEF vars, Inductive, AloneSound, Single, FreshSound, PasswordsSound, FitsAlone
  <2> QED BY <1>8, <2>1, <2>2, <2>3 DEF vars, Inductive
<1> QED BY <1>1, <1>2, <1>3, <1>4, <1>5, <1>6, <1>7, <1>8 DEF Next

\* Inductive holds in every reachable state, whatever the number of calls in progress.
THEOREM InductiveHolds ==
  ASSUME IsFiniteSet(Slot)
  PROVE  Spec => []Inductive
<1>1. Init => Inductive BY InitInductive
<1>2. Inductive /\ [Next]_vars => Inductive' BY NextInductive
<1> QED BY <1>1, <1>2, PTL DEF Spec

\* A set whose members are all equal has at most one.
LEMMA AtMostOne ==
  ASSUME NEW S, \A x, y \in S : x = y
  PROVE  Cardinality(S) <= 1
<1>1. CASE S = {} BY <1>1, FS_EmptySet
<1>2. CASE S # {}
  <2>1. PICK x \in S : TRUE BY <1>2
  <2>2. S = {x} BY <2>1
  <2> QED BY <2>2, FS_Singleton
<1> QED BY <1>1, <1>2

\* At most one mailed link of a kind works: a mint whose transaction overlaps no other
\* of its kind leaves only its own, whatever resets, verifications, purges and
\* expiries run between its statement and its commit, and one that finds all
\* links also mends what an overlap left (auth.service.ts:259-271, 302-314).
THEOREM OneLinkWorks ==
  ASSUME IsFiniteSet(Slot)
  PROVE  Spec => []OneLiveLink
<1>1. Inductive => OneLiveLink BY AtMostOne DEF Inductive, LinksSound, OneLiveLink
<1> QED BY <1>1, InductiveHolds, PTL

\* However calls interleave, only a verified account has a session.
THEOREM SessionsNeedVerification ==
  ASSUME IsFiniteSet(Slot)
  PROVE  Spec => []SessionsAreVerified
<1>1. Inductive => SessionsAreVerified BY DEF Inductive, SessionsSound, SessionsAreVerified
<1> QED BY <1>1, InductiveHolds, PTL

\* Of calls one after another: one mail of a kind per window, and a changed
\* password ends every session.
THEOREM AloneCallsHold ==
  ASSUME IsFiniteSet(Slot)
  PROVE  Spec => [](CooldownHolds /\ ResetEndsSessions)
<1>1. Inductive => CooldownHolds BY AtMostOne DEF Inductive, AloneSound, FreshSound, CooldownHolds
<1>2. Inductive => ResetEndsSessions BY DEF Inductive, AloneSound, PasswordsSound, ResetEndsSessions
<1> QED BY <1>1, <1>2, InductiveHolds, PTL

\* Of calls one after another, a link changes the password once.
THEOREM LinksWorkOnce ==
  ASSUME IsFiniteSet(Slot)
  PROVE  Spec => LinkWorksOnce
<1>1. ASSUME Inductive, [Next]_vars PROVE [SpendsALink]_vars
  <2>1. ASSUME NEW s \in Slot, WriteResetPassword(s) PROVE SpendsALink
    BY <1>1, <2>1, ResetStep DEF SpendsALink
  <2>2. CASE account'.password = account.password \/ account.state = "absent"
    <3>1. account.password \in Nat BY <1>1 DEF Inductive, Shape, Account
    <3> QED BY <2>2, <3>1 DEF SpendsALink
  <2>3. ASSUME NEW s \in Slot, StartCall(s) PROVE account' = account
    BY <2>3 DEF StartCall, Register, ResendVerification, RequestPasswordReset, Login, VerifyEmail,
                ResetPassword, Refresh, Begin
  <2>4. ASSUME NEW s \in Slot, Step(s), ~WriteResetPassword(s)
        PROVE  account'.password = account.password \/ account.state = "absent"
    <3>1. account \in Account BY <1>1 DEF Inductive, Shape
    <3>2. [account EXCEPT !.state = "verified"].password = account.password BY <3>1 DEF Account
    <3>3. WriteCreate(s) => account' = account \/ account.state = "absent" BY DEF WriteCreate
    <3>4. Issue(s) \/ WriteVerifyEmail(s) => account' = account \/ account' = [account EXCEPT !.state = "verified"]
      BY DEF Issue, WriteVerifyEmail
    <3>5. Mail(s) \/ Mint(s) \/ IssueTokens(s) \/ Rotate(s) \/ KillFamily(s) \/ Refused(s) => account' = account
      BY DEF Mail, Mint, IssueTokens, Rotate, KillFamily, Refused
    <3> QED BY <2>4, <3>2, <3>3, <3>4, <3>5 DEF Step
  <2>5. ASSUME Next, \A s \in Slot : ~StartCall(s) /\ ~Step(s) PROVE account' = account
    BY <2>5 DEF Next, Logout, ExpireSession, CooldownEnds, ExpireLink, Purge
  <2> QED BY <1>1, <2>1, <2>2, <2>3, <2>4, <2>5 DEF Next
<1>2. Inductive /\ [Next]_vars => [SpendsALink]_vars BY <1>1
<1> QED BY <1>2, InductiveHolds, PTL DEF Spec, LinkWorksOnce
=============================================================================
