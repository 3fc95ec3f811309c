-------------------------- MODULE AdminListsProofs --------------------------
(***************************************************************************)
(* Proofs about AdminLists: for any people, any number of calls in flight  *)
(* and any number of changes elsewhere.                                    *)
(***************************************************************************)
EXTENDS AdminLists, FiniteSetTheorems, TLAPS

People == Me \in Person /\ IsFiniteSet(Person)

LEMMA KeyFacts ==
  /\ \A op \in Op : Written(op) \subseteq Key /\ Settles(op) = Written(op) /\ Settles(op) \subseteq Fetches(op)
  /\ \A v \in View : Mounted(v) \subseteq Key
BY DEF Written, Settles, Fetches, Key, Op, View, Mounted, WorkspaceMemberFetches, RealmFetches,
       RequestFetches, OrgRequestFetches, Workspaces

LEMMA RoleFacts ==
  /\ RolesOf("setWs") = Tried /\ RolesOf("addWs") = Tried /\ RolesOf("approve") = Tried
  /\ RolesOf("setRealm") = Assignable /\ RolesOf("addRealm") = Assignable
BY DEF RolesOf

\* Which queries a table's update leaves alone.
LEMMA Updates ==
  ASSUME Tables
  PROVE  \A x : /\ \A k \in Key : /\ [query EXCEPT ![k] = x] = [j \in Key |-> IF j = k THEN x ELSE query[j]]
                                 /\ [shown EXCEPT ![k] = x] = [j \in Key |-> IF j = k THEN x ELSE shown[j]]
                /\ \A s \in Slot : [call EXCEPT ![s] = x] = [z \in Slot |-> IF z = s THEN x ELSE call[z]]
BY DEF Tables

\* What the server's rows are after a change.
LEMMA EffectFacts ==
  ASSUME TypeOK, NEW op \in Op, NEW p \in Person, NEW r,
         op \in {"setWs", "addWs", "approve"} => r \in Tried,
         op \in {"setRealm", "addRealm"} => r \in Assignable,
         Effect(op, p, r)
  PROVE  /\ realm' \in [Person -> RealmRole \cup {"none"}] /\ member' \in [Person -> Tried \cup {"none"}]
         /\ asks' \subseteq asks /\ orgAsks' \subseteq orgAsks /\ title' \in {"a", "b", "none"}
         /\ op = "remove" => asks' = {}
         /\ op # "remove" /\ Exists => Exists'
         /\ op \notin {"setRealm", "removeRealm", "addRealm"} =>
              \A q \in Person : realm[q] # "none" => realm'[q] = realm[q]
         /\ \A q \in Person \ {p} : realm'[q] = realm[q]
<1>1. /\ realm \in [Person -> RealmRole \cup {"none"}] /\ member \in [Person -> Tried \cup {"none"}]
      /\ title \in {"a", "b", "none"}
  BY DEF TypeOK
<1>2. /\ member' \in {member, [member EXCEPT ![p] = "none"], Everyone("none")}
         \/ (r \in Tried /\ member' = [member EXCEPT ![p] = r])
  BY DEF Effect, Op
<1>3. member' \in [Person -> Tried \cup {"none"}] BY <1>1, <1>2 DEF Everyone
<1>4. \/ realm' = realm
      \/ op \in {"setRealm", "addRealm"} /\ r \in Assignable /\ realm' = [realm EXCEPT ![p] = r]
      \/ op = "removeRealm" /\ realm' = [realm EXCEPT ![p] = "none"]
      \/ realm[p] = "none" /\ realm' = [realm EXCEPT ![p] = "MEMBER"]
  BY DEF Effect, Op
<1>5. realm' \in [Person -> RealmRole \cup {"none"}] BY <1>1, <1>4 DEF RealmRole, Assignable
<1>6. /\ op \notin {"setRealm", "removeRealm", "addRealm"} =>
           \A q \in Person : realm[q] # "none" => realm'[q] = realm[q]
      /\ \A q \in Person \ {p} : realm'[q] = realm[q]
  BY <1>1, <1>4
<1>7. asks' \subseteq asks /\ (op = "remove" => asks' = {}) BY DEF Effect, Op
<1>8. orgAsks' \subseteq orgAsks BY DEF Effect
<1>9. title' \in {"a", "b", "none"} /\ (op # "remove" /\ Exists => Exists')
  BY <1>1 DEF Effect, Op, Exists
<1> QED BY <1>3, <1>5, <1>6, <1>7, <1>8, <1>9

\* A list keeps being settled where its query, the server and the calls' debts stay.
LEMMA SettledStays ==
  ASSUME NEW k \in Key, Settled(k), k \in unheard => k \in unheard', Owed(k) => Owed(k)',
         query'[k] = query[k], shown'[k] = shown[k], Now'[k] = Now[k]
  PROVE  Settled(k)'
BY DEF Settled

LEMMA OwedStays == ASSUME NEW k, UNCHANGED call PROVE Owed(k)' <=> Owed(k)
BY DEF Owed

LEMMA ReadHolds == ASSUME Inductive, NEW k \in Key, Read(k) PROVE Inductive'
<1>1. /\ UNCHANGED <<server, shown, call, events>> /\ Now' = Now
      /\ \/ /\ query' = [query EXCEPT ![k] = [step |-> "read", got |-> Now[k]]]
            /\ unheard' = unheard \ {k} /\ view' = view
         \/ /\ query' = [query EXCEPT ![k] = Idle] /\ unheard' = unheard \cup {k}
            /\ view' \in {"launcher", view}
  BY DEF Read, server, Now
<1>2. \E x : query' = [j \in Key |-> IF j = k THEN x ELSE query[j]] /\ x.step \in {"read", "idle"}
  <2>1. CASE query' = [query EXCEPT ![k] = [step |-> "read", got |-> Now[k]]]
    <3> DEFINE x == [step |-> "read", got |-> Now[k]]
    <3>1. query' = [j \in Key |-> IF j = k THEN x ELSE query[j]] BY <2>1, Updates DEF Inductive
    <3>2. x.step = "read" OBVIOUS
    <3> QED BY <3>1, <3>2
  <2>2. CASE query' = [query EXCEPT ![k] = Idle]
    <3>1. query' = [j \in Key |-> IF j = k THEN Idle ELSE query[j]] BY <2>2, Updates DEF Inductive
    <3>2. Idle.step = "idle" BY DEF Idle
    <3> QED BY <3>1, <3>2
  <2> QED BY <1>1, <2>1, <2>2
<1>3. TypeOK' BY <1>1, <1>2 DEF Inductive, TypeOK, server, View
<1>4. Tables' BY <1>1, <1>2 DEF Inductive, Tables
<1>5. Rights' BY <1>1 DEF Inductive, Rights, Exists, server
<1>6. \A s \in Slot : CallSound(call[s])' BY <1>1 DEF Inductive, CallSound
<1>7. \A j \in Key : Settled(j)'
  <2>1. ASSUME NEW j \in Key \ {k} PROVE Settled(j)'
    BY <1>1, <1>2, <2>1, OwedStays, SettledStays DEF Inductive
  <2>2. Settled(k)'
    <3>1. CASE query' = [query EXCEPT ![k] = [step |-> "read", got |-> Now[k]]]
      <4>1. query'[k] = [step |-> "read", got |-> Now[k]] BY <3>1, Updates DEF Inductive
      <4> QED BY <1>1, <4>1 DEF Settled
    <3>2. CASE unheard' = unheard \cup {k} BY <3>2 DEF Settled
    <3> QED BY <1>1, <3>1, <3>2
  <2> QED BY <2>1, <2>2
<1> QED BY <1>3, <1>4, <1>5, <1>6, <1>7 DEF Inductive

LEMMA ArriveHolds == ASSUME Inductive, NEW k \in Key, Arrive(k) PROVE Inductive'
<1>1. /\ UNCHANGED <<server, view, call, unheard, events>> /\ Now' = Now /\ query[k].step = "read"
      /\ shown' = [j \in Key |-> IF j = k THEN query[k].got ELSE shown[j]]
      /\ query' = [j \in Key |-> IF j = k THEN Idle ELSE query[j]]
  BY Updates DEF Arrive, server, Now, Inductive
<1>2. TypeOK' BY <1>1 DEF Inductive, TypeOK, server, Idle
<1>3. Tables' BY <1>1 DEF Inductive, Tables
<1>4. Rights' BY <1>1 DEF Inductive, Rights, Exists, server
<1>5. \A s \in Slot : CallSound(call[s])' BY <1>1 DEF Inductive, CallSound
<1>6. \A j \in Key : Settled(j)'
  <2>1. ASSUME NEW j \in Key \ {k} PROVE Settled(j)'
    BY <1>1, <2>1, OwedStays, SettledStays DEF Inductive
  <2>2. Settled(k)'
    <3>1. Settled(k) BY DEF Inductive
    <3>2. query'[k].step = "idle" /\ shown'[k] = query[k].got BY <1>1 DEF Idle
    <3> QED BY <1>1, <3>1, <3>2, OwedStays DEF Settled
  <2> QED BY <2>1, <2>2
<1> QED BY <1>2, <1>3, <1>4, <1>5, <1>6 DEF Inductive

LEMMA FailHolds == ASSUME Inductive, NEW k \in Key, Fail(k) PROVE Inductive'
<1>1. /\ UNCHANGED <<server, view, shown, call>> /\ Now' = Now /\ unheard' = unheard \cup {k}
      /\ query' = [j \in Key |-> IF j = k THEN Idle ELSE query[j]]
  BY Updates DEF Fail, server, Now, Inductive
<1>2. TypeOK' BY <1>1 DEF Inductive, TypeOK, server, Idle
<1>3. Tables' BY <1>1 DEF Inductive, Tables
<1>4. Rights' BY <1>1 DEF Inductive, Rights, Exists, server
<1>5. \A s \in Slot : CallSound(call[s])' BY <1>1 DEF Inductive, CallSound
<1>6. \A j \in Key : Settled(j)'
  <2>1. ASSUME NEW j \in Key \ {k} PROVE Settled(j)'
    BY <1>1, <2>1, OwedStays, SettledStays DEF Inductive
  <2>2. Settled(k)' BY <1>1 DEF Settled
  <2> QED BY <2>1, <2>2
<1> QED BY <1>2, <1>3, <1>4, <1>5, <1>6 DEF Inductive

LEMMA OpenHolds == ASSUME Inductive, NEW v \in View, Open(v) PROVE Inductive'
<1>1. /\ UNCHANGED <<server, shown, call, unheard>> /\ Now' = Now /\ view' = v
      /\ v = "console" => IsRealmAdmin(realm[Me])
  BY DEF Open, server, Now
<1>2. PICK old : query' = [k \in Key |-> IF /\ k \in Mounted(v)
                                            /\ query[k].step = "stale" \/ (k \in old /\ query[k].step = "idle")
                                         THEN [Idle EXCEPT !.step = "due"] ELSE query[k]]
  BY DEF Open
<1>3. [Idle EXCEPT !.step = "due"].step = "due" BY DEF Idle
<1>4. \A k \in Key : query'[k] = query[k] \/ query'[k].step = "due" BY <1>2, <1>3
<1>5. TypeOK' BY <1>1, <1>4 DEF Inductive, TypeOK, server
<1>6. Tables'
  <2>1. query' = [k \in Key |-> query'[k]] BY <1>2
  <2> QED BY <1>1, <2>1 DEF Inductive, Tables
<1>7. Rights' BY <1>1 DEF Inductive, Rights, Exists, server
<1>8. \A s \in Slot : CallSound(call[s])' BY <1>1 DEF Inductive, CallSound
<1>9. ASSUME NEW k \in Key PROVE Settled(k)'
  <2>1. CASE query'[k] = query[k] BY <1>1, <2>1, OwedStays, SettledStays DEF Inductive
  <2>2. CASE query'[k].step = "due" BY <2>2 DEF Settled
  <2> QED BY <1>4, <2>1, <2>2
<1> QED BY <1>5, <1>6, <1>7, <1>8, <1>9 DEF Inductive

\* A role select writes into the cache: the call it sends owes that list a fetch.
LEMMA StartHolds ==
  ASSUME Inductive, NEW s \in Slot, NEW op \in Op, NEW p \in Person, NEW r \in RolesOf(op),
         Start(s, op, p, r)
  PROVE  Inductive'
<1> DEFINE c == [op |-> op, who |-> p, role |-> r, step |-> "sent", was |-> [k \in Written(op) |-> shown[k]]]
<1>1. /\ UNCHANGED <<server, view, unheard>> /\ Now' = Now
      /\ query' = [k \in Key |-> IF k \in Written(op) THEN Idle ELSE query[k]]
      /\ call[s].step = "none"
  BY DEF Start, server, Now
<1>2. call' = [z \in Slot |-> IF z = s THEN c ELSE call[z]]
  <2>1. call' = [call EXCEPT ![s] = c] BY DEF Start
  <2> HIDE DEF c
  <2> QED BY <2>1, Updates DEF Inductive
<1>3. shown' = [k \in Key |-> shown'[k]] /\ \A k \in Key \ Written(op) : shown'[k] = shown[k]
  <2>1. shown = [k \in Key |-> shown[k]] BY DEF Inductive, Tables
  <2>2. CASE op = "setWs"
    <3>1. shown' = [shown EXCEPT !["wsMembers"] = [shown["wsMembers"] EXCEPT !.role[p] = r]]
      BY <2>2 DEF Start
    <3>2. Written(op) = {"wsMembers"} BY <2>2 DEF Written
    <3> QED BY <2>1, <3>1, <3>2
  <2>3. CASE op = "setRealm"
    <3>1. shown' = [shown EXCEPT !["realmMembers"] = [shown["realmMembers"] EXCEPT ![p] = r]]
      BY <2>3 DEF Start
    <3>2. Written(op) = {"realmMembers"} BY <2>3 DEF Written
    <3> QED BY <2>1, <3>1, <3>2
  <2>4. CASE op \notin {"setWs", "setRealm"} BY <2>1, <2>4 DEF Start
  <2> QED BY <2>2, <2>3, <2>4
<1>4. c.op = op /\ c.who = p /\ c.role = r /\ c.step = "sent" /\ DOMAIN c.was = Written(op) OBVIOUS
<1>5. call'[s] = c /\ \A z \in Slot \ {s} : call'[z] = call[z] BY <1>2
<1> HIDE DEF c
<1>6. TypeOK'
  <2>1. DOMAIN shown' = Key BY <1>3
  <2>2. \A k \in Key : query'[k] \in {Idle, query[k]} BY <1>1
  <2>3. \A z \in Slot : call'[z] \in {c, call[z]} BY <1>5
  <2>4. Idle.step = "idle" BY DEF Idle
  <2> QED BY <1>1, <1>4, <2>1, <2>2, <2>3, <2>4 DEF Inductive, TypeOK, server
<1>7. Tables'
  <2>1. \A z \in Slot : call'[z] = [op |-> call'[z].op, who |-> call'[z].who, role |-> call'[z].role,
                                    was |-> call'[z].was, step |-> call'[z].step]
    BY <1>5 DEF c, Inductive, Tables
  <2> QED BY <1>1, <1>2, <1>3, <2>1 DEF Tables
<1>8. Rights' BY <1>1 DEF Inductive, Rights, Exists, server
<1>9. \A z \in Slot : CallSound(call[z])' BY <1>4, <1>5 DEF Inductive, CallSound
<1>10. ASSUME NEW k \in Key PROVE Settled(k)'
  <2>1. CASE k \in Written(op)
    <3>1. k \in Settles(op) BY <2>1, KeyFacts
    <3>2. Owed(k)' BY <1>4, <1>5, <3>1 DEF Owed
    <3> QED BY <3>2 DEF Settled
  <2>2. CASE k \notin Written(op)
    <3>1. Owed(k) => Owed(k)' BY <1>1, <1>5 DEF Owed
    <3> QED BY <1>1, <1>3, <2>2, <3>1, SettledStays DEF Inductive
  <2> QED BY <2>1, <2>2
<1> QED BY <1>6, <1>7, <1>8, <1>9, <1>10 DEF Inductive

\* An administrator's own realm role is not theirs to change.
LEMMA OwnRoleStays ==
  ASSUME TypeOK, Me \in Person, IsRealmAdmin(realm[Me]),
         NEW op \in Op, NEW p \in Person, NEW r \in RolesOf(op), Accepts(op, p, r), Effect(op, p, r)
  PROVE  realm'[Me] = realm[Me]
<1>1. realm[Me] \in {"OWNER", "MAINTAINER"} BY DEF IsRealmAdmin
<1>2. CASE op \in {"setRealm", "removeRealm", "addRealm"}
  <2>1. ASSUME p = Me PROVE FALSE
    <3>1. op # "addRealm" BY <1>1, <2>1 DEF Accepts
    <3>2. realm[Me] # "OWNER" /\ AuthorityOver(realm[Me], realm[Me])
      BY <1>2, <2>1, <3>1 DEF Accepts
    <3> QED BY <1>1, <3>2 DEF AuthorityOver, RealmAtLeast, REALM_ORDER
  <2> QED BY <2>1, RoleFacts, EffectFacts
<1>3. CASE op \notin {"setRealm", "removeRealm", "addRealm"}
  <2>1. realm[Me] # "none" BY <1>1
  <2> QED BY <1>3, <2>1, RoleFacts, EffectFacts
<1> QED BY <1>2, <1>3

\* What a served call changed, it owes a fetch or this client missed.
LEMMA ServeHolds ==
  ASSUME People, Inductive, NEW s \in Slot, NEW lost \in BOOLEAN, Serve(s, lost) PROVE Inductive'
<1> DEFINE c == call[s]
<1>1. UNCHANGED <<view, shown, query>> /\ c.step = "sent" BY DEF Serve
<1>2. c.op \in Op /\ c.who \in Person /\ c.role \in RolesOf(c.op) /\ DOMAIN c.was = Written(c.op)
  BY <1>1 DEF Inductive, CallSound
<1>3. PICK x \in {"done", "refused"} :
        /\ call' = [call EXCEPT ![s] = [call[s] EXCEPT !.step = x]]
        /\ \/ /\ Accepts(c.op, c.who, c.role) /\ Effect(c.op, c.who, c.role)
              /\ unheard' = unheard \cup (Changed \ IF x = "refused" THEN Settles(c.op) ELSE Fetches(c.op))
           \/ x = "refused" /\ UNCHANGED <<server, unheard>>
  BY DEF Serve
<1>4. call' = [z \in Slot |-> IF z = s THEN [c EXCEPT !.step = x] ELSE call[z]]
  BY <1>3, Updates DEF Inductive
<1>5. [c EXCEPT !.step = x] = [op |-> c.op, who |-> c.who, role |-> c.role, was |-> c.was, step |-> x]
  BY DEF Inductive, Tables
<1>6. /\ call'[s] = [op |-> c.op, who |-> c.who, role |-> c.role, was |-> c.was, step |-> x]
      /\ \A z \in Slot \ {s} : call'[z] = call[z]
  BY <1>4, <1>5
<1>7. /\ call'[s].op = c.op /\ call'[s].who = c.who /\ call'[s].role = c.role /\ call'[s].was = c.was
      /\ call'[s].step = x
  BY <1>6
<1>8. TypeOK /\ Changed \subseteq Key BY DEF Inductive, Changed
<1>9. TypeOK'
  <2>1. \A z \in Slot : call'[z].op \in Op \cup {"none"} /\ call'[z].step \in {"none", "sent", "done", "refused"}
    BY <1>2, <1>6, <1>7, <1>8 DEF TypeOK
  <2>2. CASE Effect(c.op, c.who, c.role) /\ unheard' \subseteq unheard \cup Changed
    <3>1. /\ realm' \in [Person -> RealmRole \cup {"none"}] /\ member' \in [Person -> Tried \cup {"none"}]
          /\ asks' \subseteq asks /\ orgAsks' \subseteq orgAsks /\ title' \in {"a", "b", "none"}
      BY <1>2, <1>8, <2>2, RoleFacts, EffectFacts
    <3> QED BY <1>1, <1>8, <2>1, <2>2, <3>1 DEF TypeOK
  <2>3. CASE UNCHANGED <<server, unheard>> BY <1>1, <1>8, <2>1, <2>3 DEF TypeOK, server
  <2> QED BY <1>3, <2>2, <2>3
<1>10. Tables'
  <2>1. \A z \in Slot : call'[z] = [op |-> call'[z].op, who |-> call'[z].who, role |-> call'[z].role,
                                     was |-> call'[z].was, step |-> call'[z].step]
    BY <1>6, <1>7 DEF Inductive, Tables
  <2> HIDE DEF c
  <2> QED BY <1>1, <1>4, <2>1 DEF Inductive, Tables
<1>11. Rights'
  <2>1. CASE Accepts(c.op, c.who, c.role) /\ Effect(c.op, c.who, c.role)
    <3>1. asks' \subseteq asks /\ (c.op = "remove" => asks' = {}) /\ (c.op # "remove" /\ Exists => Exists')
      BY <1>2, <1>8, <2>1, RoleFacts, EffectFacts
    <3>2. IsRealmAdmin(realm[Me]) => realm'[Me] = realm[Me]
      BY <1>2, <1>8, <2>1, OwnRoleStays DEF People
    <3> QED BY <1>1, <3>1, <3>2 DEF Inductive, Rights
  <2>2. CASE UNCHANGED server BY <1>1, <2>2 DEF Inductive, Rights, Exists, server
  <2> QED BY <1>3, <2>1, <2>2
<1>12. \A z \in Slot : CallSound(call[z])' BY <1>2, <1>6, <1>7 DEF Inductive, CallSound
<1>13. ASSUME NEW k \in Key PROVE Settled(k)'
  <2>1. Settles(c.op) \subseteq Fetches(c.op) BY <1>2, KeyFacts
  <2>2. Owed(k) => Owed(k)' BY <1>1, <1>3, <1>6, <1>7, <2>1 DEF Owed
  <2>3. CASE k \in unheard' BY <2>3 DEF Settled
  <2>4. CASE k \notin unheard' /\ Now'[k] = Now[k]
    <3>1. k \notin unheard BY <1>3, <2>4
    <3> QED BY <1>1, <2>2, <2>4, <3>1, SettledStays DEF Inductive
  <2>5. CASE k \notin unheard' /\ Now'[k] # Now[k]
    <3>1. k \in Changed BY <2>5 DEF Changed
    <3>2. ~UNCHANGED server BY <2>5 DEF server, Now
    <3>3. k \in IF x = "refused" THEN Settles(c.op) ELSE Fetches(c.op) BY <1>3, <2>5, <3>1, <3>2
    <3>4. Owed(k)' BY <1>7, <3>3 DEF Owed
    <3> QED BY <3>4 DEF Settled
  <2> QED BY <2>3, <2>4, <2>5
<1> QED BY <1>9, <1>10, <1>11, <1>12, <1>13 DEF Inductive

\* What an answer rolls back, it has fetched again.
LEMMA AnswerHolds == ASSUME Inductive, NEW s \in Slot, Answer(s) PROVE Inductive'
<1> DEFINE c  == call[s]
           ks == IF c.step = "done" THEN Fetches(c.op) ELSE Settles(c.op)
<1>1. /\ UNCHANGED <<server, events>> /\ Now' = Now /\ c.step \in {"done", "refused"}
      /\ view' \in {"launcher", view} /\ unheard' = unheard \cup Arriving(ks)
      /\ shown' = [k \in Key |-> IF c.step = "refused" /\ k \in DOMAIN c.was THEN c.was[k] ELSE shown[k]]
      /\ query' = Invalidate(query, ks)
  BY DEF Answer, server, Now
<1>2. call' = [z \in Slot |-> IF z = s THEN NoCall ELSE call[z]]
  <2>1. call' = [call EXCEPT ![s] = NoCall] BY DEF Answer
  <2> QED BY <2>1, Updates DEF Inductive
<1>3. c.op \in Op /\ DOMAIN c.was = Written(c.op) BY <1>1 DEF Inductive, CallSound
<1>4. /\ NoCall = [op |-> NoCall.op, who |-> NoCall.who, role |-> NoCall.role, was |-> NoCall.was, step |-> NoCall.step]
      /\ NoCall.op = "none" /\ NoCall.step = "none"
  BY DEF NoCall
<1>5. call'[s] = NoCall /\ \A z \in Slot \ {s} : call'[z] = call[z] BY <1>2
<1>6. c.step = "refused" => DOMAIN c.was = ks BY <1>3, KeyFacts
<1>7. ASSUME NEW k \in Key
      PROVE  /\ k \notin ks => query'[k] = query[k] /\ shown'[k] = shown[k]
             /\ k \in ks => \/ query'[k].step \in {"due", "stale"}
                            \/ query'[k] = query[k] /\ (query[k].step = "read" => k \in Arriving(ks))
             /\ query'[k].step \in {"idle", "stale", "due", "read"}
  <2> DEFINE q == IF k \notin ks THEN query[k]
                  ELSE IF k \in Mounted(view) THEN [Idle EXCEPT !.step = "due"]
                  ELSE IF query[k].step = "idle" THEN [Idle EXCEPT !.step = "stale"] ELSE query[k]
  <2>1. query'[k] = q BY <1>1 DEF Invalidate
  <2>2. [Idle EXCEPT !.step = "due"].step = "due" /\ [Idle EXCEPT !.step = "stale"].step = "stale" BY DEF Idle
  <2>3. query[k].step \in {"idle", "stale", "due", "read"} BY DEF Inductive, TypeOK
  <2>4. k \in ks \ Mounted(view) /\ query[k].step = "read" => k \in Arriving(ks) BY DEF Arriving
  <2>5. k \notin ks => shown'[k] = shown[k] BY <1>1, <1>6
  <2> HIDE DEF ks
  <2> QED BY <2>1, <2>2, <2>3, <2>4, <2>5
<1>8. TypeOK'
  <2>1. Arriving(ks) \subseteq Key
    <3>1. ks \subseteq Key BY <1>3, KeyFacts DEF Fetches, Key, WorkspaceMemberFetches, RealmFetches,
                                                   RequestFetches, OrgRequestFetches, Workspaces, Op
    <3> QED BY <3>1 DEF Arriving
  <2>2. \A z \in Slot : call'[z] \in {NoCall, call[z]} BY <1>5
  <2> HIDE DEF ks
  <2> QED BY <1>1, <1>4, <1>7, <2>1, <2>2 DEF Inductive, TypeOK, server, View
<1>9. Tables'
  <2>1. \A z \in Slot : call'[z] = [op |-> call'[z].op, who |-> call'[z].who, role |-> call'[z].role,
                                    was |-> call'[z].was, step |-> call'[z].step]
    BY <1>4, <1>5 DEF Inductive, Tables
  <2>2. query' = [k \in Key |-> query'[k]] BY <1>1 DEF Invalidate
  <2>3. shown' = [k \in Key |-> shown'[k]] BY <1>1
  <2> QED BY <1>2, <2>1, <2>2, <2>3 DEF Tables
<1>10. Rights' BY <1>1 DEF Inductive, Rights, Exists, server
<1>11. \A z \in Slot : CallSound(call[z])' BY <1>4, <1>5 DEF Inductive, CallSound
<1>12. ASSUME NEW k \in Key PROVE Settled(k)'
  <2>1. CASE k \notin ks
    <3>1. Owed(k) => Owed(k)'
      <4> SUFFICES ASSUME Owed(k) PROVE Owed(k)' OBVIOUS
      <4>1. PICK z \in Slot : /\ call[z].step # "none"
                              /\ k \in IF call[z].step = "done" THEN Fetches(call[z].op) ELSE Settles(call[z].op)
        BY DEF Owed
      <4>2. z # s BY <2>1, <4>1
      <4>3. call'[z] = call[z] BY <1>5, <4>2
      <4> QED BY <4>1, <4>3 DEF Owed
    <3> HIDE DEF ks
    <3> QED BY <1>1, <1>7, <2>1, <3>1, SettledStays DEF Inductive
  <2>2. CASE k \in ks
    <3> HIDE DEF ks
    <3>1. CASE query'[k].step \in {"due", "stale"} BY <3>1 DEF Settled
    <3>2. CASE query'[k] = query[k] /\ query[k].step = "read"
      <4>1. k \in unheard' BY <1>1, <1>7, <2>2, <3>2
      <4> QED BY <4>1 DEF Settled
    <3>3. CASE query'[k] = query[k] /\ query[k].step \in {"due", "stale"} BY <3>3 DEF Settled
    <3>4. ~(query'[k] = query[k] /\ query[k].step = "idle") \/ query'[k].step \in {"due", "stale"}
      <4>1. query[k].step = "idle" => query'[k].step \in {"due", "stale"}
        <5>1. query'[k] = IF k \in Mounted(view) THEN [Idle EXCEPT !.step = "due"]
                          ELSE IF query[k].step = "idle" THEN [Idle EXCEPT !.step = "stale"] ELSE query[k]
          BY <1>1, <2>2 DEF Invalidate
        <5>2. [Idle EXCEPT !.step = "due"].step = "due" /\ [Idle EXCEPT !.step = "stale"].step = "stale" BY DEF Idle
        <5> QED BY <5>1, <5>2
      <4> QED BY <4>1
    <3>5. query[k].step \in {"idle", "stale", "due", "read"} BY DEF Inductive, TypeOK
    <3> QED BY <1>7, <2>2, <3>1, <3>2, <3>3, <3>4, <3>5
  <2> QED BY <2>1, <2>2
<1> QED BY <1>8, <1>9, <1>10, <1>11, <1>12 DEF Inductive

\* A change elsewhere is not about Me, and is noted with every list it changes.
LEMMA ElsewhereHolds == ASSUME People, Inductive, Elsewhere PROVE Inductive'
<1>1. UNCHANGED <<view, shown, query, call>> /\ unheard' = unheard \cup Changed BY DEF Elsewhere
<1>2. PICK p \in Person \ {Me} :
        \/ \E op \in {"setWs", "removeWs"}, r \in Tried : Exists /\ member[p] # "none" /\ Effect(op, p, r)
        \/ \E op \in {"approve", "reject"} : p \in asks /\ Effect(op, p, "EDIT")
        \/ Exists /\ member[p] = "none" /\ asks' = asks \cup {p} /\ UNCHANGED <<realm, member, orgAsks, title>>
        \/ realm[p] = "none" /\ orgAsks' = orgAsks \cup {p} /\ UNCHANGED <<realm, member, asks, title>>
        \/ Exists /\ Effect("remove", p, "none")
  BY DEF Elsewhere
<1>3. TypeOK /\ Changed \subseteq Key BY DEF Inductive, Changed
<1>4. /\ realm' \in [Person -> RealmRole \cup {"none"}] /\ member' \in [Person -> Tried \cup {"none"}]
      /\ asks' \subseteq Person /\ orgAsks' \subseteq Person /\ title' \in {"a", "b", "none"}
      /\ realm'[Me] = realm[Me] /\ (asks' # {} => Exists')
  <2>1. ASSUME NEW op \in Op, NEW r, op \in {"setWs", "addWs", "approve"} => r \in Tried,
               op \notin {"setRealm", "addRealm"}, Effect(op, p, r)
        PROVE  /\ realm' \in [Person -> RealmRole \cup {"none"}] /\ member' \in [Person -> Tried \cup {"none"}]
               /\ asks' \subseteq Person /\ orgAsks' \subseteq Person /\ title' \in {"a", "b", "none"}
               /\ realm'[Me] = realm[Me] /\ (asks' # {} => Exists')
    <3>1. /\ realm' \in [Person -> RealmRole \cup {"none"}] /\ member' \in [Person -> Tried \cup {"none"}]
          /\ asks' \subseteq asks /\ orgAsks' \subseteq orgAsks /\ title' \in {"a", "b", "none"}
          /\ op = "remove" => asks' = {}
          /\ op # "remove" /\ Exists => Exists'
          /\ \A q \in Person \ {p} : realm'[q] = realm[q]
      BY <1>3, <2>1, EffectFacts
    <3>2. asks \subseteq Person /\ orgAsks \subseteq Person BY <1>3 DEF TypeOK
    <3>3. realm'[Me] = realm[Me] BY <3>1 DEF People
    <3>4. asks' # {} => Exists' BY <3>1 DEF Inductive, Rights
    <3> QED BY <3>1, <3>2, <3>3, <3>4
  <2>2. CASE \E op \in {"setWs", "removeWs"}, r \in Tried : Effect(op, p, r) BY <2>1, <2>2 DEF Op
  <2>3. CASE \E op \in {"approve", "reject"} : Effect(op, p, "EDIT") BY <2>1, <2>3 DEF Op, Tried
  <2>4. CASE Exists /\ asks' = asks \cup {p} /\ UNCHANGED <<realm, member, orgAsks, title>>
    BY <1>3, <2>4 DEF TypeOK, Exists
  <2>5. CASE orgAsks' = orgAsks \cup {p} /\ UNCHANGED <<realm, member, asks, title>>
    BY <1>3, <2>5 DEF TypeOK, Exists, Inductive, Rights
  <2>6. CASE Effect("remove", p, "none") BY <2>1, <2>6 DEF Op
  <2> QED BY <1>2, <2>2, <2>3, <2>4, <2>5, <2>6
<1>5. TypeOK' BY <1>1, <1>3, <1>4 DEF TypeOK
<1>6. Tables' BY <1>1 DEF Inductive, Tables
<1>7. Rights' BY <1>1, <1>4 DEF Inductive, Rights
<1>8. \A s \in Slot : CallSound(call[s])' BY <1>1 DEF Inductive, CallSound
<1>9. ASSUME NEW k \in Key PROVE Settled(k)'
  <2>1. CASE k \in Changed BY <1>1, <2>1 DEF Settled
  <2>2. CASE k \notin Changed
    <3>1. Now'[k] = Now[k] BY <2>2 DEF Changed
    <3> QED BY <1>1, <3>1, OwedStays, SettledStays DEF Inductive
  <2> QED BY <2>1, <2>2
<1> QED BY <1>5, <1>6, <1>7, <1>8, <1>9 DEF Inductive

LEMMA InitHolds == ASSUME People, Init PROVE Inductive
<1>1. /\ \E mine \in {"MEMBER", "MAINTAINER", "OWNER"}, theirs \in {"none", "MEMBER", "MAINTAINER"} :
           realm = [p \in Person |-> IF p = Me THEN mine ELSE theirs]
      /\ \E theirs \in {"none", "EDIT"} : member = [p \in Person |-> IF p = Me THEN "ADMIN" ELSE theirs]
      /\ asks \subseteq Person /\ orgAsks \subseteq Person /\ title = "a" /\ view = "launcher"
      /\ shown = Now /\ query = [k \in Key |-> Idle] /\ call = [s \in Slot |-> NoCall] /\ unheard = {}
  BY DEF Init
<1>2. realm \in [Person -> RealmRole \cup {"none"}] /\ member \in [Person -> Tried \cup {"none"}]
  BY <1>1 DEF RealmRole, Tried
<1>3. DOMAIN Now = Key /\ Now = [k \in Key |-> Now[k]] BY DEF Now, Key
<1>4. TypeOK
  <2>1. (\A k \in Key : query[k] = Idle) /\ Idle.step = "idle" BY <1>1 DEF Idle
  <2>2. (\A s \in Slot : call[s] = NoCall) /\ NoCall.op = "none" /\ NoCall.step = "none" BY <1>1 DEF NoCall
  <2> QED BY <1>1, <1>2, <1>3, <2>1, <2>2 DEF TypeOK, View
<1>5. Tables
  <2>1. NoCall = [op |-> NoCall.op, who |-> NoCall.who, role |-> NoCall.role, was |-> NoCall.was, step |-> NoCall.step]
    BY DEF NoCall
  <2>2. \A s \in Slot : call[s] = NoCall BY <1>1
  <2>3. call = [s \in Slot |-> [op |-> call[s].op, who |-> call[s].who, role |-> call[s].role,
                               was |-> call[s].was, step |-> call[s].step]]
    BY <1>1, <2>1, <2>2
  <2> QED BY <1>1, <1>3, <2>3 DEF Tables
<1>6. Rights BY <1>1 DEF Rights, Exists
<1>7. \A s \in Slot : CallSound(call[s]) BY <1>1 DEF CallSound, NoCall
<1>8. \A k \in Key : Settled(k) BY <1>1 DEF Settled, Idle
<1> QED BY <1>4, <1>5, <1>6, <1>7, <1>8 DEF Inductive

LEMMA StutterHolds == ASSUME Inductive, UNCHANGED vars PROVE Inductive'
<1>1. UNCHANGED <<server, view, shown, query, call, unheard>> /\ Now' = Now BY DEF vars, server, Now
<1>2. TypeOK' BY <1>1 DEF Inductive, TypeOK, server
<1>3. Tables' BY <1>1 DEF Inductive, Tables
<1>4. Rights' BY <1>1 DEF Inductive, Rights, Exists, server
<1>5. \A s \in Slot : CallSound(call[s])' BY <1>1 DEF Inductive, CallSound
<1>6. \A k \in Key : Settled(k)' BY <1>1, OwedStays, SettledStays DEF Inductive
<1> QED BY <1>2, <1>3, <1>4, <1>5, <1>6 DEF Inductive

LEMMA InductiveHolds == ASSUME People PROVE Spec => []Inductive
<1>1. Init => Inductive BY InitHolds
<1>2. Inductive /\ [Next]_vars => Inductive'
  <2> SUFFICES ASSUME Inductive, [Next]_vars PROVE Inductive' OBVIOUS
  <2>1. ASSUME NEW k \in Key, Read(k) \/ Arrive(k) \/ Fail(k) PROVE Inductive'
    BY <2>1, ReadHolds, ArriveHolds, FailHolds
  <2>2. ASSUME NEW v \in View, Open(v) PROVE Inductive' BY <2>2, OpenHolds
  <2>3. ASSUME NEW s \in Slot, NEW op \in Op, NEW p \in Person, NEW r \in RolesOf(op), Start(s, op, p, r)
        PROVE  Inductive'
    BY <2>3, StartHolds
  <2>4. ASSUME NEW s \in Slot, NEW lost \in BOOLEAN, Serve(s, lost) PROVE Inductive' BY <2>4, ServeHolds
  <2>5. ASSUME NEW s \in Slot, Answer(s) PROVE Inductive' BY <2>5, AnswerHolds
  <2>6. CASE Elsewhere BY <2>6, ElsewhereHolds
  <2>7. CASE UNCHANGED vars BY <2>7, StutterHolds
  <2> QED BY <2>1, <2>2, <2>3, <2>4, <2>5, <2>6, <2>7 DEF Next
<1> QED BY <1>1, <1>2, PTL DEF Spec

\* What the role rules come to for the roles a list shows.
LEMMA RowRules ==
  ASSUME NEW a \in RealmRole \cup {"none"}, NEW b \in RealmRole \cup {"none"},
         NEW ws \in Tried \cup {"none"}, NEW r, NEW self \in BOOLEAN
  PROVE  /\ RowManageable(self, a, b, ws) => CanManageMember(self, a, b, ws, "none")
         /\ \A n \in Nat : r \in OfferedRoles(self, a, b, ws, n) =>
              CanManageMember(self, a, b, ws, r) /\ ~(ws = "ADMIN" /\ n <= 1)
         /\ b # "none" /\ IsRealmAdmin(a) /\ RealmRowEditable(a, b) => AuthorityOver(a, b)
         /\ IsRealmAdmin(a) /\ (r = "MAINTAINER" => a = "OWNER") => AuthorityOver(a, r)
         /\ IsRealmAdmin(a) => RealmAtLeast(a, "MAINTAINER") /\ EffectiveWorkspaceRole(a, ws, "PRIVATE") = "ADMIN"
<1>1. RowManageable(self, a, b, ws) => CanManageMember(self, a, b, ws, "none")
  BY DEF RowManageable, CanManageMember
<1>2. ASSUME NEW n \in Nat, r \in OfferedRoles(self, a, b, ws, n)
      PROVE  CanManageMember(self, a, b, ws, r) /\ ~(ws = "ADMIN" /\ n <= 1)
  <2>1. ~(ws = "ADMIN" /\ n <= 1) /\ RowManageable(self, a, b, ws) BY <1>2 DEF OfferedRoles
  <2>2. IsRealmAdmin(a) \/ r # "ADMIN" BY <1>2 DEF OfferedRoles
  <2> QED BY <2>1, <2>2 DEF RowManageable, CanManageMember
<1>3. b # "none" /\ IsRealmAdmin(a) /\ RealmRowEditable(a, b) => AuthorityOver(a, b)
  BY DEF IsRealmAdmin, RealmRowEditable, AuthorityOver, RealmAtLeast, REALM_ORDER
<1>4. IsRealmAdmin(a) /\ (r = "MAINTAINER" => a = "OWNER") => AuthorityOver(a, r)
  BY DEF IsRealmAdmin, AuthorityOver, RealmAtLeast, REALM_ORDER
<1>5. IsRealmAdmin(a) => RealmAtLeast(a, "MAINTAINER") BY DEF IsRealmAdmin, RealmAtLeast, REALM_ORDER
<1>6. IsRealmAdmin(a) => EffectiveWorkspaceRole(a, ws, "PRIVATE") = "ADMIN"
  BY DEF IsRealmAdmin, EffectiveWorkspaceRole, MaxWorkspaceRole, WS_ORDER, Tried
<1> QED BY <1>1, <1>2, <1>3, <1>4, <1>5, <1>6

\* A realm administrator administers every workspace there is.
LEMMA Overlay ==
  ASSUME TypeOK, Me \in Person, IsRealmAdmin(realm[Me])
  PROVE  Maintains /\ (Exists => Administers)
<1>1. realm[Me] \in RealmRole \cup {"none"} /\ member[Me] \in Tried \cup {"none"} BY DEF TypeOK
<1> QED BY <1>1, RowRules DEF Maintains, Administers, Effective

\* The members' tab offers on a true list what the server accepts.
LEMMA MembersTabAccepted ==
  ASSUME People, TypeOK, NEW op \in {"setWs", "removeWs"}, NEW p \in Person, NEW r \in RolesOf(op),
         shown["wsMembers"] = [role |-> member, realmRole |-> realm], Administers, MembersTab(op, p, r)
  PROVE  Accepts(op, p, r)
<1> DEFINE n == Cardinality({q \in Person : member[q] = "ADMIN"})
<1>1. n \in Nat
  <2>1. IsFiniteSet({q \in Person : member[q] = "ADMIN"}) BY FS_Subset DEF People
  <2> QED BY <2>1, FS_CardinalityType
<1>2. realm[Me] \in RealmRole \cup {"none"} /\ realm[p] \in RealmRole \cup {"none"} /\ member[p] \in Tried \cup {"none"}
  BY DEF TypeOK, People
<1>3. /\ member[p] # "none"
      /\ IF op = "setWs" THEN r \in OfferedRoles(p = Me, realm[Me], realm[p], member[p], n)
         ELSE RowManageable(p = Me, realm[Me], realm[p], member[p]) /\ ~(member[p] = "ADMIN" /\ n <= 1)
  BY DEF MembersTab
<1>4. NotLastAdmin(p) <=> ~(member[p] = "ADMIN" /\ n <= 1) BY <1>1 DEF NotLastAdmin
<1> HIDE DEF n
<1>5. CASE op = "setWs"
  <2>1. CanManageMember(p = Me, realm[Me], realm[p], member[p], r) /\ ~(member[p] = "ADMIN" /\ n <= 1)
    <3>1. r \in OfferedRoles(p = Me, realm[Me], realm[p], member[p], n) BY <1>3, <1>5
    <3>2. (p = Me) \in BOOLEAN OBVIOUS
    <3> QED BY <1>1, <1>2, <3>1, <3>2, RowRules
  <2> QED BY <1>3, <1>4, <1>5, <2>1 DEF Accepts, Manages
<1>6. CASE op = "removeWs"
  <2>1. CanManageMember(p = Me, realm[Me], realm[p], member[p], "none") /\ ~(member[p] = "ADMIN" /\ n <= 1)
    <3>1. RowManageable(p = Me, realm[Me], realm[p], member[p]) /\ ~(member[p] = "ADMIN" /\ n <= 1) BY <1>3, <1>6
    <3>2. (p = Me) \in BOOLEAN OBVIOUS
    <3> QED BY <1>2, <3>1, <3>2, RowRules
  <2> QED BY <1>3, <1>4, <1>6, <2>1 DEF Accepts, Manages
<1> QED BY <1>5, <1>6

LEMMA ListsAtRest == Inductive => ListsSettle
BY DEF Inductive, ListsSettle, Settled, Owed, AtRest, Current, Mounted, Key, TypeOK, View

\* A console's or a modal's list, current, is what the server has.
LEMMA TrueLists ==
  ASSUME Inductive, AtRest, \A k \in Mounted(view) : Current(k)
  PROVE  /\ view = "settings" => /\ shown["wsMembers"] = [role |-> member, realmRole |-> realm]
                                 /\ shown["wsRequests"] = asks
         /\ view = "console" => /\ shown["realmMembers"] = realm /\ shown["realmRequests"] = asks
                                /\ shown["orgRequests"] = orgAsks /\ shown["workspaces"] = title
<1>1. \A k \in Mounted(view) : shown[k] = Now[k] BY ListsAtRest DEF ListsSettle
<1>2. /\ Now["wsMembers"] = [role |-> member, realmRole |-> realm] /\ Now["wsRequests"] = asks
      /\ Now["realmMembers"] = realm /\ Now["realmRequests"] = asks
      /\ Now["orgRequests"] = orgAsks /\ Now["workspaces"] = title
  BY DEF Now
<1>3. view = "settings" => Mounted(view) = {"wsMembers", "wsRequests"} BY DEF Mounted
<1>4. view = "console" => Mounted(view) = {"realmMembers", "realmRequests", "orgRequests", "workspaces"} BY DEF Mounted
<1> QED BY <1>1, <1>2, <1>3, <1>4

LEMMA ControlsAccepted ==
  ASSUME People, Inductive, AtRest, \A k \in Mounted(view) : Current(k), view = "settings" => Administers,
         NEW op \in Op \ {"addRealm", "addWs"}, NEW p \in Person, NEW r \in RolesOf(op), Offers(op, p, r)
  PROVE  Accepts(op, p, r) \/ (op = "setRealm" /\ r = "MAINTAINER" /\ realm[Me] # "OWNER")
<1>1. TypeOK /\ Rights BY DEF Inductive
<1>2. view = "console" => IsRealmAdmin(realm[Me]) /\ Maintains /\ (Exists => Administers)
  BY <1>1, Overlay DEF Rights, People
<1>3. CASE op \in {"setWs", "removeWs"}
  <2>1. MembersTab(op, p, r) BY <1>3 DEF Offers
  <2>2. view = "settings" BY <2>1 DEF MembersTab
  <2> QED BY <1>1, <1>3, <2>1, <2>2, TrueLists, MembersTabAccepted
<1>4. CASE op \in {"approve", "reject"}
  <2>1. RequestsTable(op, p) BY <1>4 DEF Offers
  <2>2. p \in asks /\ (view = "settings" \/ view = "console") BY <2>1, TrueLists DEF RequestsTable
  <2>3. Exists BY <1>1, <2>2 DEF Rights
  <2> QED BY <1>2, <1>4, <2>2, <2>3 DEF Accepts
<1>5. CASE op \in {"approveOrg", "rejectOrg"}
  <2>1. view = "console" /\ p \in orgAsks BY <1>5, TrueLists DEF Offers, OrgRequestsTable
  <2> QED BY <1>2, <1>5, <2>1 DEF Accepts
<1>6. CASE op \in {"setRealm", "removeRealm"}
  <2>1. view = "console" /\ realm[p] # "none" /\ RealmRowEditable(realm[Me], realm[p])
    BY <1>6, TrueLists DEF Offers, RealmMembersTab
  <2>2. realm[Me] \in RealmRole \cup {"none"} /\ realm[p] \in RealmRole \cup {"none"} BY <1>1 DEF TypeOK, People
  <2>3. AuthorityOver(realm[Me], realm[p]) BY <1>2, <2>1, <2>2, RowRules
  <2>4. (r = "MAINTAINER" /\ realm[Me] # "OWNER") \/ AuthorityOver(realm[Me], r) BY <1>2, <2>1, <2>2, RowRules
  <2>5. realm[p] # "OWNER" BY <2>1 DEF RealmRowEditable
  <2> QED BY <1>6, <2>1, <2>3, <2>4, <2>5 DEF Accepts
<1>7. CASE op \in {"rename", "remove"}
  <2>1. view = "settings" \/ (view = "console" /\ title # "none")
    BY <1>7, TrueLists DEF Offers, GeneralTab, WorkspacesTab
  <2> QED BY <1>2, <1>7, <2>1 DEF Accepts, Exists
<1> QED BY <1>3, <1>4, <1>5, <1>6, <1>7 DEF Op

\* The module's variables keep their types.
THEOREM ListsTyped == ASSUME People PROVE Spec => []TypeOK
<1>1. Inductive => TypeOK BY DEF Inductive
<1> QED BY <1>1, InductiveHolds, PTL

\* However the calls, the roll-backs of their optimistic writes and the fetches
\* overlap, once no call is in flight every current list is the server's
\* (the onMutate, onError and onSettled of the membership hooks).
THEOREM ListsAlwaysSettle == ASSUME People PROVE Spec => []ListsSettle
BY InductiveHolds, ListsAtRest, PTL

\* On current lists every control offered on a row is one the server accepts,
\* but for the one role select named in ControlsWork.
THEOREM ControlsAlwaysWork == ASSUME People PROVE Spec => []ControlsWork
<1>1. ASSUME Inductive PROVE ControlsWork BY <1>1, ControlsAccepted DEF ControlsWork
<1> QED BY <1>1, InductiveHolds, PTL
=============================================================================
