-------------------------- MODULE RtcAccessProofs --------------------------
(***************************************************************************)
(* Proofs about RtcAccess: for any tabs, clocks, token lives and number of *)
(* role changes, kicks, restarts and lost connections.                     *)
(***************************************************************************)
EXTENDS RtcAccess, TLAPS

Mint   == {NoMint, Asked} \cup [step : {"read"}, role : Role, at : Time]
Socket == {NoSocket} \cup [state : {"loading", "open"}, claims : Token, passed : BOOLEAN]

\* What the assumption on the constants says, in the parts the provers want.
LEMMA ConstantFacts ==
  /\ MinTtl \in Nat /\ MaxTtl \in Nat /\ MinTtl <= MaxTtl /\ MinTtl > 0
  /\ KickTtl \in Nat /\ MintLag \in Nat /\ Skew \in Int
  /\ MaxNow \in Nat /\ MaxChanges \in Nat /\ MaxFaults \in Nat
BY ConstantsAssumption DEF ConstantsAssumption

\* The type invariant, of this state and of the next one.
Types ==
  /\ now \in Time
  /\ role \in [Tab -> Role \cup {"none"}]
  /\ left \in [Tab -> [Role -> Time \cup {None}]]
  /\ token \in [Tab -> Token \cup {NoToken}]
  /\ mint \in [Tab -> Mint]
  /\ sock \in [Tab -> Socket]
  /\ fails \in [Tab -> 0 .. 1]
  /\ kicks \subseteq Time /\ mark \in Time \cup {None}
  /\ late \in BOOLEAN
  /\ changes \in 0 .. MaxChanges /\ faults \in 0 .. MaxFaults

\* Both forms of the type invariant.
LEMMA TypeParts == (TypeOK <=> Types) /\ (TypeOK' <=> Types')
BY DEF TypeOK, Types, Mint, Socket

\* A token in a mint, a provider or a socket, and the constants for none.
LEMMA Shapes ==
  /\ NoMint \in Mint /\ Asked \in Mint /\ NoSocket \in Socket
  /\ NoMint.step # "read" /\ Asked.step # "read"
  /\ NoSocket.state # "open" /\ NoSocket.state # "loading"
  /\ NoToken \notin Token
  /\ \A m \in Mint : m.step = "read" => m.role \in Role /\ m.at \in Time
  /\ \A s \in Socket : s # NoSocket =>
       s.claims \in Token /\ s.passed \in BOOLEAN /\ s.state \in {"loading", "open"}
  /\ \A k \in Token : k.iat \in Time /\ k.exp \in Nat /\ k.role \in Role
BY DEF Mint, Socket, NoMint, Asked, NoSocket, NoToken, Token, Role

\* The bounds on changes and faults hold.
LEMMA Budgets ==
  /\ Fault => (faults \in 0 .. MaxFaults => faults' \in 0 .. MaxFaults)
  /\ Change => (changes \in 0 .. MaxChanges => changes' \in 0 .. MaxChanges)
BY ConstantFacts DEF Fault, Change

\* A failed attempt closes the socket; a re-mint replaces the mint in flight.
LEMMA FailureFacts ==
  ASSUME TypeOK, NEW S \in SUBSET Tab, NEW kicked \in BOOLEAN, Failure(S, kicked)
  PROVE  /\ fails' \in [Tab -> 0 .. 1] /\ mint' \in [Tab -> Mint] /\ sock' \in [Tab -> Socket]
         /\ \A t \in Tab : mint'[t] \in {mint[t], Asked} /\ sock'[t] \in {sock[t], NoSocket}
<1> DEFINE remint == {t \in S : kicked \/ fails[t] = 1}
<1>1. /\ fails' = [t \in Tab |-> IF t \in remint THEN 0 ELSE IF t \in S THEN 1 ELSE fails[t]]
      /\ mint' = [t \in Tab |-> IF t \in remint THEN Asked ELSE mint[t]]
      /\ sock' = [t \in Tab |-> IF t \in S THEN NoSocket ELSE sock[t]]
  BY DEF Failure
<1> HIDE DEF remint
<1>2. \A t \in Tab : mint[t] \in Mint /\ sock[t] \in Socket /\ fails[t] \in 0 .. 1
  BY TypeParts DEF Types
<1> QED BY <1>1, <1>2, Shapes

\* A signed token is a token.
LEMMA TokenShape ==
  ASSUME NEW iat \in Time, NEW exp \in Nat, NEW r \in Role
  PROVE  [iat |-> iat, exp |-> exp, role |-> r] \in Token
BY DEF Token

-----------------------------------------------------------------------------
(***************************************************************************)
(* Types.                                                                  *)
(***************************************************************************)
LEMMA InitType == Init => TypeOK
<1> SUFFICES ASSUME Init PROVE TypeOK OBVIOUS
<1>1. 0 \in Time /\ 0 \in 0 .. MaxChanges /\ 0 \in 0 .. MaxFaults BY ConstantFacts DEF Time
<1>2. left \in [Tab -> [Role -> Time \cup {None}]] BY DEF Init
<1>3. mint \in [Tab -> Mint] /\ sock \in [Tab -> Socket] BY Shapes DEF Init
<1>4. fails \in [Tab -> 0 .. 1] /\ token \in [Tab -> Token \cup {NoToken}] BY DEF Init
<1>5. late \in BOOLEAN /\ kicks \subseteq Time BY DEF Init
<1> QED BY <1>1, <1>2, <1>3, <1>4, <1>5, TypeParts DEF Init, Types

\* Every step of a tab keeps the types.
LEMMA TabStepType == ASSUME TypeOK, NEW t \in Tab, TabStep(t) PROVE TypeOK'
<1> USE TypeParts DEF Types
<1>1. ASSUME NEW r \in Role \cup {"none"}, SetRole(t, r) PROVE TypeOK'
  <2>1. /\ role' = [role EXCEPT ![t] = r]
        /\ left' = [left EXCEPT ![t] = [x \in Role |-> IF x = role[t] THEN now ELSE left[t][x]]]
        /\ UNCHANGED <<now, client, kicks, mark, late, faults>> /\ Change
    BY <1>1 DEF SetRole
  <2>2. left' \in [Tab -> [Role -> Time \cup {None}]] BY <2>1
  <2> QED BY <2>1, <2>2, Budgets DEF client
<1>2. CASE ReadRole(t)
  <2> DEFINE m == [step |-> "read", role |-> role[t], at |-> now]
  <2>1. mint' = [mint EXCEPT ![t] = m] /\ role[t] \in Role BY <1>2 DEF ReadRole
  <2>2. m \in Mint BY <2>1 DEF Mint
  <2> HIDE DEF m
  <2> QED BY <1>2, <2>1, <2>2 DEF ReadRole
<1>3. CASE SignToken(t)
  <2>1. PICK ttl \in MinTtl .. MaxTtl :
          token' = [token EXCEPT ![t] = [iat |-> now, exp |-> now + ttl, role |-> mint[t].role]]
    BY <1>3 DEF SignToken
  <2> DEFINE tok == [iat |-> now, exp |-> now + ttl, role |-> mint[t].role]
  <2>2. now + ttl \in Nat BY ConstantFacts DEF Time
  <2>3. mint[t] \in Mint /\ mint[t].step = "read" BY <1>3 DEF SignToken
  <2>4. tok \in Token BY <2>2, <2>3, Shapes, TokenShape
  <2> HIDE DEF tok
  <2>5. token' = [token EXCEPT ![t] = tok] BY <2>1 DEF tok
  <2>6. mint' = [mint EXCEPT ![t] = NoMint] BY <1>3 DEF SignToken
  <2> QED BY <1>3, <2>4, <2>5, <2>6, Shapes DEF SignToken
<1>4. CASE MintRefused(t) \/ MintFails(t)
  BY <1>4, Shapes, Budgets DEF MintRefused, MintFails, Unmount
<1>5. CASE PeriodicMint(t) BY <1>5, Shapes DEF PeriodicMint
<1>6. CASE Drop(t) \/ Expire(t)
  BY <1>6, FailureFacts, Budgets DEF Drop, Expire
<1>7. CASE Dial(t)
  <2>1. mark' \in Time \cup {None} BY <1>7 DEF Dial
  <2>2. CASE token[t].exp <= RtcNow \/ IsRejected(token[t])
    BY <1>7, <2>1, <2>2, FailureFacts DEF Dial
  <2>3. CASE ~(token[t].exp <= RtcNow \/ IsRejected(token[t]))
    <3> DEFINE s == [state |-> "loading", claims |-> token[t], passed |-> FALSE]
    <3>1. token[t] \in Token BY <1>7 DEF Dial, Mounted
    <3>2. s \in Socket BY <3>1 DEF Socket
    <3>3. sock' = [sock EXCEPT ![t] = s] BY <1>7, <2>3 DEF Dial
    <3> HIDE DEF s
    <3> QED BY <1>7, <2>1, <2>3, <3>2, <3>3 DEF Dial
  <2> QED BY <2>2, <2>3
<1>8. CASE Connect(t)
  <2> DEFINE s == [sock[t] EXCEPT !.state = "open"]
  <2>1. sock[t] \in Socket /\ sock[t] # NoSocket BY <1>8, Shapes DEF Connect
  <2>2. s \in Socket BY <2>1 DEF Socket
  <2>3. sock' = [sock EXCEPT ![t] = s] BY <1>8 DEF Connect
  <2> HIDE DEF s
  <2>4. fails' = [fails EXCEPT ![t] = 0] BY <1>8 DEF Connect
  <2>5. fails' \in [Tab -> 0 .. 1] /\ sock' \in [Tab -> Socket] BY <2>2, <2>3, <2>4
  <2> QED BY <1>8, <2>5 DEF Connect
<1>9. ASSUME NEW frame, Receive(t, frame) PROVE TypeOK'
  BY <1>9 DEF Receive, client
<1> QED BY <1>1, <1>2, <1>3, <1>4, <1>5, <1>6, <1>7, <1>8, <1>9 DEF TabStep

\* A kick closes the open sockets and marks those that still load.
LEMMA KickFacts ==
  ASSUME TypeOK, NEW k \in kicks, KickArrives(k)
  PROVE  /\ fails' \in [Tab -> 0 .. 1] /\ mint' \in [Tab -> Mint] /\ sock' \in [Tab -> Socket]
         /\ \A t \in Tab :
              /\ mint'[t] \in {mint[t], Asked}
              /\ sock'[t] # NoSocket => sock'[t].passed /\ sock'[t].claims = sock[t].claims
                                        /\ sock[t] # NoSocket
<1>1. /\ fails' = [t \in Tab |-> IF Open(t) THEN 0 ELSE fails[t]]
      /\ mint' = [t \in Tab |-> IF Open(t) THEN Asked ELSE mint[t]]
      /\ sock' = [t \in Tab |-> CASE Open(t) -> NoSocket
                                  [] sock[t].state = "loading" -> [sock[t] EXCEPT !.passed = TRUE]
                                  [] OTHER -> sock[t]]
  BY DEF KickArrives, Open
<1>2. \A t \in Tab : mint[t] \in Mint /\ sock[t] \in Socket /\ fails[t] \in 0 .. 1
  BY TypeParts DEF Types
<1>3. fails' \in [Tab -> 0 .. 1] /\ mint' \in [Tab -> Mint] /\ \A t \in Tab : mint'[t] \in {mint[t], Asked}
  BY <1>1, <1>2, Shapes
<1>4. ASSUME NEW t \in Tab
      PROVE  /\ sock'[t] \in Socket
             /\ sock'[t] # NoSocket => sock'[t].passed /\ sock'[t].claims = sock[t].claims
                                       /\ sock[t] # NoSocket
  <2> DEFINE s == [sock[t] EXCEPT !.passed = TRUE]
  <2>1. CASE sock[t] = NoSocket BY <1>1, <2>1, Shapes DEF Open
  <2>2. CASE Open(t)
    <3>1. sock'[t] = NoSocket BY <1>1, <2>2 DEF Open
    <3> QED BY <3>1, Shapes
  <2>3. CASE sock[t] # NoSocket /\ ~Open(t)
    <3>1. sock[t] \in Socket /\ sock[t].state = "loading" BY <1>2, <2>3, Shapes DEF Open
    <3>2. s \in Socket /\ s.passed /\ s.claims = sock[t].claims BY <2>3, <3>1 DEF Socket
    <3>3. sock'[t] = s BY <1>1, <2>3, <3>1
    <3> QED BY <2>3, <3>2, <3>3
  <2> QED BY <2>1, <2>2, <2>3
<1>5. sock' \in [Tab -> Socket]
  <2>1. DOMAIN sock' = Tab /\ sock' = [t \in Tab |-> sock'[t]] BY <1>1
  <2> QED BY <1>4, <2>1
<1> QED BY <1>3, <1>4, <1>5

\* Every step keeps the types.
LEMMA NextType == TypeOK /\ [Next]_vars => TypeOK'
<1> SUFFICES ASSUME TypeOK, [Next]_vars PROVE TypeOK' OBVIOUS
<1> USE TypeParts DEF Types
<1>1. CASE Tick BY <1>1, ConstantFacts DEF Tick, client, Time
<1>2. CASE Kick BY <1>2, Budgets DEF Kick, client
<1>3. CASE Restart
  <2>1. {t \in Tab : sock[t] # NoSocket} \in SUBSET Tab OBVIOUS
  <2> QED BY <1>3, <2>1, FailureFacts, Budgets DEF Restart
<1>4. ASSUME NEW k \in kicks, KickLost(k) PROVE TypeOK'
  BY <1>4, Budgets DEF KickLost, client
<1>5. ASSUME NEW k \in kicks, KickArrives(k) PROVE TypeOK'
  BY <1>5, KickFacts DEF KickArrives
<1>6. CASE UNCHANGED vars BY <1>6 DEF vars, client
<1> QED BY <1>1, <1>2, <1>3, <1>4, <1>5, <1>6, TabStepType DEF Next

\* Every variable keeps its type, whatever the clocks and the order of
\* mints, kicks, drops and restarts (yjs-server.service.ts:128-200).
THEOREM TypeCorrect == Spec => []TypeOK
BY InitType, NextType, PTL DEF Spec
-----------------------------------------------------------------------------
(***************************************************************************)
(* Whatever a tab was handed stands for a role its user held not long      *)
(* before.                                                                 *)
(***************************************************************************)
\* When a user last held a role moves forward only, as the clock does.
LEMMA HeldGrows ==
  ASSUME TypeOK, \A t \in Tab : LeftSound(t), [Next]_vars, NEW t \in Tab
  PROVE  /\ \A r \in Role : /\ LastHeld(t, r) \in Int /\ LastHeld(t, r)' \in Int
                            /\ LastHeld(t, r)' >= LastHeld(t, r)
         /\ LeftSound(t)' /\ now' >= now /\ now' \in Int
<1>a. now \in Int /\ \A u \in Tab, r \in Role : left[u][r] \in Int /\ left[u][r] <= now
  BY TypeParts, ConstantFacts DEF Types, LeftSound, Time, None
<1>b. role \in [Tab -> Role \cup {"none"}] /\ left \in [Tab -> [Role -> Time \cup {None}]]
  BY TypeParts DEF Types
<1> DEFINE Goal == /\ \A r \in Role : /\ LastHeld(t, r) \in Int /\ LastHeld(t, r)' \in Int
                                      /\ LastHeld(t, r)' >= LastHeld(t, r)
                   /\ LeftSound(t)' /\ now' >= now /\ now' \in Int
<1>1. ASSUME role' = role, left' = left, now' \in {now, now + 1} PROVE Goal
  BY <1>a, <1>1 DEF LastHeld, LeftSound
<1>2. ASSUME NEW u \in Tab, NEW r \in Role \cup {"none"}, SetRole(u, r) PROVE Goal
  <2>1. /\ role' = [role EXCEPT ![u] = r] /\ now' = now
        /\ left' = [left EXCEPT ![u] = [x \in Role |-> IF x = role[u] THEN now ELSE left[u][x]]]
    BY <1>2 DEF SetRole
  <2>2. \A x \in Role : left'[t][x] = IF t = u /\ x = role[u] THEN now ELSE left[t][x]
    BY <1>b, <2>1
  <2>3. role'[t] = IF t = u THEN r ELSE role[t] BY <1>b, <2>1
  <2> QED BY <1>a, <2>1, <2>2, <2>3 DEF LastHeld, LeftSound
<1>3. Tick => Goal BY <1>1 DEF Tick
<1>4. Kick \/ Restart \/ UNCHANGED vars => Goal BY <1>1 DEF Kick, Restart, vars
<1>5. ASSUME NEW k \in kicks, KickLost(k) \/ KickArrives(k) PROVE Goal
  BY <1>1, <1>5 DEF KickLost, KickArrives
<1>6. ASSUME NEW u \in Tab, TabStep(u) PROVE Goal
  BY <1>1, <1>2, <1>6 DEF TabStep, ReadRole, SignToken, MintRefused, MintFails, PeriodicMint,
                          Drop, Dial, Connect, Expire, Receive
<1> HIDE DEF Goal
<1>7. Goal BY <1>3, <1>4, <1>5, <1>6 DEF Next
<1> QED BY <1>7 DEF Goal

\* A token that was sound stays so.
LEMMA TokenStays ==
  ASSUME TypeOK, \A t \in Tab : LeftSound(t), [Next]_vars, NEW t \in Tab,
         NEW tok \in Token \cup {NoToken}, TokenSound(t, tok)
  PROVE  TokenSound(t, tok)'
<1>1. CASE tok = NoToken BY <1>1 DEF TokenSound
<1>2. CASE tok \in Token
  <2>1. tok # NoToken /\ tok.iat \in Int /\ tok.role \in Role BY <1>2, Shapes DEF Time
  <2>2. tok.exp <= tok.iat + MaxTtl /\ LastHeld(t, tok.role) >= tok.iat - MintLag
    BY <2>1 DEF TokenSound
  <2>3. /\ LastHeld(t, tok.role) \in Int /\ LastHeld(t, tok.role)' \in Int
        /\ LastHeld(t, tok.role)' >= LastHeld(t, tok.role)
    BY <2>1, HeldGrows
  <2>4. LastHeld(t, tok.role)' >= tok.iat - MintLag BY <2>1, <2>2, <2>3, ConstantFacts
  <2> QED BY <2>2, <2>4 DEF TokenSound
<1> QED BY <1>1, <1>2

\* How a mint, a token and a socket can change.
Kept(t) ==
  /\ mint'[t] \in {mint[t], NoMint, Asked}
  /\ token'[t] \in {token[t], NoToken}
  /\ sock'[t] \in {sock[t], NoSocket}
  /\ mark' \in {mark, None}

\* What a step of some tab may do to a tab's mint, token and socket.
LEMMA TabSteps ==
  ASSUME TypeOK, NEW u \in Tab, TabStep(u), NEW t \in Tab
  PROVE  /\ now' = now
         /\ \/ Kept(t)
            \/ ReadRole(t)
            \/ SignToken(t)
            \/ Connect(t)
            \/ /\ mint' = mint /\ token' = token /\ mark' = IF Remembered THEN mark ELSE None
               /\ token[t] \in Token /\ ~IsRejected(token[t])
               /\ sock'[t] = [state |-> "loading", claims |-> token[t], passed |-> FALSE]
<1>a. /\ mint \in [Tab -> Mint] /\ token \in [Tab -> Token \cup {NoToken}]
      /\ sock \in [Tab -> Socket]
  BY TypeParts DEF Types
<1>1. CASE \/ \E r \in Role \cup {"none"} : SetRole(u, r)
           \/ \E frame \in {"step1", "step2", "update", "awareness", "garbled"} : Receive(u, frame)
  <2>1. UNCHANGED <<mint, token, sock, mark, now>> BY <1>1 DEF SetRole, Receive, client
  <2> QED BY <2>1 DEF Kept
<1>2. CASE ReadRole(u)
  <2>1. CASE t = u BY <1>2, <2>1 DEF ReadRole
  <2>2. CASE t # u BY <1>2, <1>a, <2>2 DEF ReadRole, Kept
  <2> QED BY <2>1, <2>2
<1>3. CASE SignToken(u)
  <2>1. CASE t = u BY <1>3, <2>1 DEF SignToken
  <2>2. CASE t # u BY <1>3, <1>a, <2>2 DEF SignToken, Kept
  <2> QED BY <2>1, <2>2
<1>4. CASE MintRefused(u) \/ MintFails(u) \/ PeriodicMint(u)
  BY <1>4, <1>a DEF MintRefused, MintFails, PeriodicMint, Unmount, Kept
<1>5. CASE Drop(u) \/ Expire(u)
  BY <1>5, FailureFacts DEF Drop, Expire, Kept
<1>6. CASE Connect(u)
  <2>1. CASE t = u BY <1>6, <2>1 DEF Connect
  <2>2. CASE t # u BY <1>6, <1>a, <2>2 DEF Connect, Kept
  <2> QED BY <2>1, <2>2
<1>7. CASE Dial(u)
  <2>1. /\ token' = token /\ now' = now /\ mark' = IF Remembered THEN mark ELSE None
        /\ token[u] \in Token
    BY <1>7, <1>a DEF Dial, Mounted
  <2>2. CASE token[u].exp <= RtcNow \/ IsRejected(token[u])
    <3>1. Failure({u}, FALSE) BY <1>7, <2>2 DEF Dial
    <3> QED BY <2>1, <3>1, FailureFacts DEF Kept
  <2>3. CASE ~(token[u].exp <= RtcNow \/ IsRejected(token[u]))
    <3>1. /\ mint' = mint
          /\ sock' = [sock EXCEPT ![u] = [state |-> "loading", claims |-> token[u], passed |-> FALSE]]
      BY <1>7, <2>3 DEF Dial
    <3>2. CASE t = u BY <1>a, <2>1, <2>3, <3>1, <3>2
    <3>3. CASE t # u BY <1>a, <2>1, <3>1, <3>3 DEF Kept
    <3> QED BY <3>2, <3>3
  <2> QED BY <2>2, <2>3
<1> QED BY <1>1, <1>2, <1>3, <1>4, <1>5, <1>6, <1>7 DEF TabStep

\* Every step keeps a tab as it is, moves the clock, delivers a kick or is a tab's.
LEMMA Steps ==
  ASSUME TypeOK, [Next]_vars, NEW t \in Tab
  PROVE  \/ Kept(t) /\ now' = now
         \/ Tick
         \/ \E k \in kicks : KickArrives(k)
         \/ \E u \in Tab : TabStep(u)
<1>1. CASE Kick BY <1>1 DEF Kick, client, Kept
<1>2. CASE Restart
  <2>1. {u \in Tab : sock[u] # NoSocket} \in SUBSET Tab OBVIOUS
  <2> QED BY <1>2, <2>1, FailureFacts DEF Restart, Kept
<1>3. ASSUME NEW k \in kicks, KickLost(k) PROVE Kept(t) /\ now' = now
  BY <1>3 DEF KickLost, client, Kept
<1>4. CASE UNCHANGED vars BY <1>4 DEF vars, client, Kept
<1> QED BY <1>1, <1>2, <1>3, <1>4 DEF Next

\* A bound that a later clock meets, an earlier one met.
LEMMA Earlier ==
  ASSUME NEW m \in Int, NEW a \in Int, NEW b \in Int, a >= b, NEW s \in Int, NEW k \in Int,
         m >= (a + s) - k
  PROVE  m >= (b + s) - k
OBVIOUS

\* What is remembered now was remembered before, unless a kick has just come.
LEMMA RememberedBefore ==
  ASSUME TypeOK, now' \in Int, now' >= now, mark' \in {mark, None}, Remembered'
  PROVE  Remembered /\ mark' = mark
<1>1. now \in Int /\ mark \in Int /\ Skew \in Int /\ KickTtl \in Int
  BY TypeParts, ConstantFacts DEF Types, Time, None
<1>2. mark' # None /\ mark' >= (now' + Skew) - KickTtl BY DEF Remembered, RtcNow
<1>3. mark' = mark BY <1>2
<1>4. mark >= (now + Skew) - KickTtl BY <1>1, <1>2, <1>3, Earlier
<1> QED BY <1>2, <1>3, <1>4 DEF Remembered, RtcNow

\* A mint in flight read its role at the time it says.
LEMMA MintStep ==
  ASSUME TypeOK, \A t \in Tab : LeftSound(t) /\ MintSound(t), [Next]_vars, NEW t \in Tab
  PROVE  MintSound(t)'
<1>a. mint[t] \in Mint /\ now \in Int /\ role[t] \in Role \cup {"none"}
  BY TypeParts DEF Types, Time
<1>b. \A r \in Role : /\ LastHeld(t, r) \in Int /\ LastHeld(t, r)' \in Int
                      /\ LastHeld(t, r)' >= LastHeld(t, r)
  BY HeldGrows
<1>1. ASSUME mint'[t] = mint[t], now' = now \/ Tick PROVE MintSound(t)'
  <2>1. CASE mint[t].step # "read" BY <1>1, <2>1 DEF MintSound
  <2>2. CASE mint[t].step = "read"
    <3>1. mint[t].role \in Role /\ mint[t].at \in Int BY <1>a, <2>2, Shapes DEF Time
    <3>2. /\ mint[t].at <= now /\ now <= mint[t].at + MintLag
          /\ LastHeld(t, mint[t].role) >= mint[t].at
      BY <2>2 DEF MintSound
    <3>3. mint[t].at <= now' /\ now' <= mint[t].at + MintLag
      BY <1>1, <1>a, <2>2, <3>1, <3>2, ConstantFacts DEF Tick
    <3>4. PICK r \in Role : r = mint[t].role BY <3>1
    <3>5. LastHeld(t, r)' >= mint[t].at BY <1>b, <3>1, <3>2, <3>4
    <3> QED BY <1>1, <3>3, <3>4, <3>5 DEF MintSound, LastHeld
  <2> QED BY <2>1, <2>2
<1>2. ASSUME mint'[t] \in {NoMint, Asked} PROVE MintSound(t)'
  BY <1>2, Shapes DEF MintSound
<1>3. CASE ReadRole(t)
  <2> DEFINE m == [step |-> "read", role |-> role[t], at |-> now]
  <2>1. mint'[t] = m /\ now' = now /\ role' = role /\ role[t] # "none"
    BY <1>3, TypeParts DEF ReadRole, Types
  <2>2. m.at = now /\ m.role = role[t] OBVIOUS
  <2> HIDE DEF m
  <2> QED BY <1>a, <2>1, <2>2, ConstantFacts DEF MintSound, LastHeld
<1>4. CASE SignToken(t)
  <2>1. mint'[t] = NoMint BY <1>4, TypeParts DEF SignToken, Types
  <2> QED BY <1>2, <2>1
<1>5. CASE Connect(t) BY <1>1, <1>5 DEF Connect
<1>6. ASSUME NEW u \in Tab, TabStep(u) PROVE MintSound(t)'
  BY <1>1, <1>2, <1>3, <1>4, <1>5, <1>6, TabSteps DEF Kept
<1>7. CASE Tick BY <1>1, <1>7 DEF Tick, client
<1>8. ASSUME NEW k \in kicks, KickArrives(k) PROVE MintSound(t)'
  <2>1. mint'[t] \in {mint[t], Asked} /\ now' = now BY <1>8, KickFacts DEF KickArrives
  <2> QED BY <1>1, <1>2, <2>1
<1>9. Kept(t) /\ now' = now => MintSound(t)' BY <1>1, <1>2 DEF Kept
<1> QED BY <1>6, <1>7, <1>8, <1>9, Steps


\* A token in a provider carries a role held when its mint read it.
LEMMA TokenStep ==
  ASSUME TypeOK, \A t \in Tab : LeftSound(t) /\ MintSound(t) /\ TokenSound(t, token[t]),
         [Next]_vars, NEW t \in Tab
  PROVE  TokenSound(t, token[t])'
<1>a. token[t] \in Token \cup {NoToken} /\ mint[t] \in Mint /\ now \in Time
  BY TypeParts DEF Types
<1>1. CASE token'[t] = token[t]
  <2>1. PICK tok \in Token \cup {NoToken} : tok = token[t] BY <1>a
  <2>2. TokenSound(t, tok) BY <2>1
  <2>3. TokenSound(t, tok)' BY <2>2, TokenStays
  <2> QED BY <1>1, <2>1, <2>3 DEF TokenSound
<1>2. CASE token'[t] = NoToken BY <1>2 DEF TokenSound
<1>3. CASE SignToken(t)
  <2>1. PICK ttl \in MinTtl .. MaxTtl :
          token' = [token EXCEPT ![t] = [iat |-> now, exp |-> now + ttl, role |-> mint[t].role]]
    BY <1>3 DEF SignToken
  <2>2. PICK r \in Role : r = mint[t].role BY <1>3, <1>a, Shapes DEF SignToken
  <2>3. /\ mint[t].at \in Int /\ now \in Int /\ now <= mint[t].at + MintLag
        /\ LastHeld(t, r) >= mint[t].at
    BY <1>3, <1>a, <2>2, Shapes DEF SignToken, MintSound, Time
  <2>4. LastHeld(t, r) \in Int /\ LastHeld(t, r)' \in Int /\ LastHeld(t, r)' >= LastHeld(t, r)
    BY HeldGrows
  <2>5. LastHeld(t, r)' >= now - MintLag BY <2>3, <2>4, ConstantFacts
  <2>6. token'[t] = [iat |-> now, exp |-> now + ttl, role |-> r]
    BY <2>1, <2>2, TypeParts DEF Types
  <2>7. now + ttl <= now + MaxTtl BY <2>3, ConstantFacts
  <2> QED BY <2>5, <2>6, <2>7 DEF TokenSound
<1>4. ASSUME NEW u \in Tab, TabStep(u) PROVE TokenSound(t, token[t])'
  <2>1. \/ token'[t] \in {token[t], NoToken} \/ SignToken(t)
    BY <1>4, TabSteps DEF Kept, ReadRole, Connect
  <2> QED BY <1>1, <1>2, <1>3, <2>1
<1>5. CASE Tick \/ \E k \in kicks : KickArrives(k)
  BY <1>1, <1>5 DEF Tick, KickArrives, client
<1>6. Kept(t) /\ now' = now => TokenSound(t, token[t])' BY <1>1, <1>2 DEF Kept
<1> QED BY <1>4, <1>5, <1>6, Steps

\* The claims of a socket stay sound, and no older than the kick the server remembers.
LEMMA SocketStep ==
  ASSUME TypeOK, [Next]_vars, NEW t \in Tab,
         \A u \in Tab : LeftSound(u) /\ TokenSound(u, token[u]) /\ SocketSound(u)
  PROVE  SocketSound(t)'
<1>a. token[t] \in Token \cup {NoToken} /\ sock[t] \in Socket /\ kicks \subseteq Time
  BY TypeParts DEF Types
<1>b. now' \in Int /\ now' >= now BY HeldGrows
<1>c. ASSUME NEW tok \in Token, TokenSound(t, tok), sock'[t].claims = tok PROVE TokenSound(t, sock[t].claims)'
  BY <1>c, TokenStays DEF TokenSound
<1>1. CASE sock'[t] = NoSocket BY <1>1 DEF SocketSound
<1>2. ASSUME sock[t] # NoSocket, sock'[t].claims = sock[t].claims
      PROVE  TokenSound(t, sock[t].claims)'
  BY <1>2, <1>a, <1>c, Shapes DEF SocketSound
<1>3. ASSUME sock[t] # NoSocket, sock'[t].claims = sock[t].claims,
             sock'[t].passed = sock[t].passed, mark' \in {mark, None}
      PROVE  SocketSound(t)'
  BY <1>b, <1>2, <1>3, RememberedBefore DEF SocketSound
<1>4. Kept(t) /\ now' = now => SocketSound(t)' BY <1>1, <1>3 DEF Kept
<1>5. CASE Tick BY <1>1, <1>3, <1>5 DEF Tick, client
<1>6. ASSUME NEW k \in kicks, KickArrives(k) PROVE SocketSound(t)'
  BY <1>1, <1>2, <1>6, KickFacts DEF SocketSound
<1>7. ASSUME NEW u \in Tab, TabStep(u) PROVE SocketSound(t)'
  <2>1. CASE Kept(t) BY <1>4, <1>7, <2>1, TabSteps
  <2>2. CASE ReadRole(t) \/ SignToken(t)
    BY <1>1, <1>3, <2>2 DEF ReadRole, SignToken
  <2>3. CASE Connect(t)
    <3> DEFINE s == [sock[t] EXCEPT !.state = "open"]
    <3>1. sock'[t] = s /\ mark' = mark /\ sock[t] # NoSocket
      BY <2>3, Shapes, TypeParts DEF Connect, Types
    <3>2. s.claims = sock[t].claims /\ s.passed = sock[t].passed
      BY <1>a, <3>1 DEF Socket
    <3> HIDE DEF s
    <3> QED BY <1>3, <3>1, <3>2
  <2>4. CASE /\ mint' = mint /\ token' = token /\ mark' = IF Remembered THEN mark ELSE None
             /\ token[t] \in Token /\ ~IsRejected(token[t])
             /\ sock'[t] = [state |-> "loading", claims |-> token[t], passed |-> FALSE]
    <3>1. TokenSound(t, sock[t].claims)' BY <1>c, <2>4
    <3>2. mark' \in {mark, None} BY <2>4
    <3>3. Remembered' => token[t].iat >= mark'
      <4> SUFFICES ASSUME Remembered' PROVE token[t].iat >= mark' OBVIOUS
      <4>1. Remembered /\ mark' = mark BY <1>b, <3>2, RememberedBefore
      <4>2. token[t].iat \in Int /\ mark \in Int
        BY <2>4, Shapes, TypeParts DEF Types, Time, None
      <4> QED BY <2>4, <4>1, <4>2 DEF IsRejected
    <3> QED BY <2>4, <3>1, <3>3 DEF SocketSound
  <2> QED BY <1>7, <2>1, <2>2, <2>3, <2>4, TabSteps
<1> QED BY <1>4, <1>5, <1>6, <1>7, Steps

\* What reaches the document comes from an editor's token that is still alive.
LEMMA LateStep == ASSUME Inductive, [Next]_vars PROVE RevokedWritersStop'
<1> USE DEF Inductive
<1>1. ASSUME NEW t \in Tab, NEW frame, Receive(t, frame)
      PROVE  now - LastHeld(t, "editor") < Grace
  <2> DEFINE tok == sock[t].claims
  <2>1. sock[t] \in Socket /\ sock[t] # NoSocket /\ frame \in {"step2", "update"}
    BY <1>1, Shapes, TypeParts DEF Receive, Open, Types
  <2>2. tok \in Token BY <2>1, Shapes
  <2>3. tok.iat \in Int /\ tok.exp \in Int /\ tok.role = "editor"
    BY <1>1, <2>1, <2>2, Shapes DEF Receive, Delivers, Role, Time
  <2>4. tok.exp > now + Skew /\ now \in Int
    BY <1>1, <2>3, ConstantFacts, TypeParts DEF Receive, ExpiryDue, RtcNow, Types, Time
  <2>5. tok.exp <= tok.iat + MaxTtl /\ LastHeld(t, "editor") >= tok.iat - MintLag
    BY <2>1, <2>2, <2>3, Shapes DEF SocketSound, TokenSound
  <2>6. LastHeld(t, "editor") \in Int BY HeldGrows DEF Role
  <2> HIDE DEF tok
  <2> QED BY <2>3, <2>4, <2>5, <2>6, ConstantFacts DEF Grace
<1>2. ASSUME NEW t \in Tab, TabStep(t) PROVE ~late'
  <2>1. CASE \E frame \in {"step1", "step2", "update", "awareness", "garbled"} : Receive(t, frame)
    <3>1. PICK frame \in {"step1", "step2", "update", "awareness", "garbled"} : Receive(t, frame)
      BY <2>1
    <3>2. now - LastHeld(t, "editor") < Grace BY <1>1, <3>1
    <3>3. now \in Int /\ LastHeld(t, "editor") \in Int /\ Grace \in Int
      BY HeldGrows, ConstantFacts, TypeParts DEF Types, Time, Grace, Role
    <3>4. late' = (late \/ now - LastHeld(t, "editor") >= Grace) BY <3>1 DEF Receive
    <3>5. ~(now - LastHeld(t, "editor") >= Grace) BY <3>2, <3>3
    <3> QED BY <3>4, <3>5 DEF RevokedWritersStop
  <2>2. CASE ~\E frame \in {"step1", "step2", "update", "awareness", "garbled"} : Receive(t, frame)
    <3>1. late' = late
      BY <1>2, <2>2 DEF TabStep, SetRole, ReadRole, SignToken, MintRefused, MintFails,
                        PeriodicMint, Drop, Dial, Connect, Expire
    <3> QED BY <3>1 DEF RevokedWritersStop
  <2> QED BY <2>1, <2>2
<1>3. CASE Tick \/ Kick \/ Restart \/ UNCHANGED vars
  BY <1>3 DEF Tick, Kick, Restart, vars, RevokedWritersStop
<1>4. CASE \E k \in kicks : KickLost(k) \/ KickArrives(k)
  BY <1>4 DEF KickLost, KickArrives, RevokedWritersStop
<1> QED BY <1>2, <1>3, <1>4 DEF Next, RevokedWritersStop

\* Whatever a tab was handed, in flight, in its provider or at the rtc server,
\* stands for a role its user held not long before (rtc-token.service.ts:20-38,
\* yjs-server.service.ts:128-152).
THEOREM InductiveHolds == Spec => []Inductive
<1>1. Init => Inductive
  <2> SUFFICES ASSUME Init PROVE Inductive OBVIOUS
  <2>1. ~late /\ TypeOK BY InitType DEF Init
  <2>2. ASSUME NEW t \in Tab
        PROVE  LeftSound(t) /\ MintSound(t) /\ TokenSound(t, token[t]) /\ SocketSound(t)
    BY Shapes DEF Init, LeftSound, MintSound, TokenSound, SocketSound, None
  <2> QED BY <2>1, <2>2 DEF Inductive, RevokedWritersStop
<1>2. ASSUME Inductive, [Next]_vars PROVE Inductive'
  <2>1. TypeOK' BY <1>2, NextType DEF Inductive
  <2>2. RevokedWritersStop' BY <1>2, LateStep
  <2>3. ASSUME NEW t \in Tab
        PROVE  (LeftSound(t) /\ MintSound(t) /\ TokenSound(t, token[t]) /\ SocketSound(t))'
    BY <1>2, HeldGrows, MintStep, TokenStep, SocketStep DEF Inductive
  <2> QED BY <2>1, <2>2, <2>3 DEF Inductive
<1> QED BY <1>1, <1>2, PTL DEF Spec

\* Nobody's write reaches the document later than a token's life after losing
\* the role, whatever the clocks, the kicks lost and the restarts
\* (yjs-server.service.ts:128-200).
THEOREM RevokedWritesEnd == Spec => []RevokedWritersStop
<1>1. Inductive => RevokedWritersStop BY DEF Inductive
<1> QED BY <1>1, InductiveHolds, PTL

\* While a kick is remembered, an open socket that did not slip through while it
\* was loading carries a role its user held at the kick, a mint's duration aside
\* (doc-kick.service.ts:7-40).
THEOREM KicksAreEnforced == Spec => []KickEnforcesRoles
<1>1. Inductive => KickEnforcesRoles
  <2> SUFFICES ASSUME Inductive, NEW t \in Tab, Open(t), ~sock[t].passed, Remembered
               PROVE  LastHeld(t, sock[t].claims.role) >= mark - MintLag
    BY DEF KickEnforcesRoles
  <2>1. sock[t] \in Socket /\ sock[t] # NoSocket /\ mark \in Int
    BY Shapes, TypeParts DEF Inductive, Open, Types, Time, None
  <2> DEFINE tok == sock[t].claims
  <2>2. tok \in Token /\ tok # NoToken /\ tok.iat \in Int /\ tok.role \in Role
    BY <2>1, Shapes DEF Time
  <2>3. LastHeld(t, tok.role) >= tok.iat - MintLag /\ tok.iat >= mark
    BY <2>1, <2>2 DEF Inductive, SocketSound, TokenSound
  <2>4. LastHeld(t, tok.role) \in Int
    BY <2>2, TypeParts DEF Inductive, Types, LastHeld, Time, None
  <2> HIDE DEF tok
  <2>5. LastHeld(t, tok.role) >= mark - MintLag BY <2>1, <2>2, <2>3, <2>4, ConstantFacts
  <2> QED BY <2>5 DEF tok
<1> QED BY <1>1, InductiveHolds, PTL

=============================================================================
