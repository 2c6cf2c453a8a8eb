------------------------------- MODULE ProfilesProofs -------------------------------
(***************************************************************************)
(* Proofs about modules AccountDoc, Friends and Profiles, for any players, *)
(* characters, requests in flight, scenarios, results and failures:        *)
(* friendships stay mutual, a ban gates every login that comes after it,   *)
(* the stored document stays whole and dressed, its columns agree with it, *)
(* and nobody is paid more than the ledger says.                           *)
(***************************************************************************)
EXTENDS Profiles, FiniteSetTheorems, WellFoundedInduction, TLAPS

--------------------------------------------------------------------------------
(* Friends *)

\* Every operation of the repository keeps the lists mutual.
LEMMA RequestKeeps ==
  ASSUME NEW s \in Lists, Mutual(s), NEW a \in People, NEW b \in People
  PROVE  addRequest(s, a, b) \in Lists /\ Mutual(addRequest(s, a, b))
<1>1. CASE a = b
  BY <1>1 DEF addRequest
<1>2. CASE a # b
  <2> DEFINE t == [s EXCEPT !.requests[a] = @ \cup {b}]
  <2>1. t \in Lists /\ t.friends = s.friends /\ t.requests = [s.requests EXCEPT ![a] = @ \cup {b}]
    BY DEF Lists
  <2>2. addRequest(s, a, b) = t
    BY <1>2 DEF addRequest
  <2> HIDE DEF t
  <2> QED
    BY <1>2, <2>1, <2>2 DEF Mutual, Lists
<1> QED
  BY <1>1, <1>2

LEMMA DeclineKeeps ==
  ASSUME NEW s \in Lists, Mutual(s), NEW a \in People, NEW b \in People
  PROVE  removeRequest(s, a, b) \in Lists /\ Mutual(removeRequest(s, a, b))
<1> DEFINE t == [s EXCEPT !.requests[a] = @ \ {b}]
<1>1. t \in Lists /\ t.friends = s.friends /\ t.requests = [s.requests EXCEPT ![a] = @ \ {b}]
  BY DEF Lists
<1>2. removeRequest(s, a, b) = t
  BY DEF removeRequest
<1> HIDE DEF t
<1> QED
  BY <1>1, <1>2 DEF Mutual, Lists

LEMMA RemoveKeeps ==
  ASSUME NEW s \in Lists, Mutual(s), NEW a \in People, NEW b \in People
  PROVE  removeFriendship(s, a, b) \in Lists /\ Mutual(removeFriendship(s, a, b))
<1> DEFINE t == [s EXCEPT !.friends[a] = @ \ {b}, !.friends[b] = @ \ {a}]
<1>1. t \in Lists /\ t.requests = s.requests
      /\ t.friends = [s.friends EXCEPT ![a] = @ \ {b}, ![b] = @ \ {a}]
  BY DEF Lists
<1>2. removeFriendship(s, a, b) = t
  BY DEF removeFriendship
<1> HIDE DEF t
<1>3. \A u, v \in People : v \in t.friends[u] <=>
        v \in s.friends[u] /\ ~(u = a /\ v = b) /\ ~(u = b /\ v = a)
  BY <1>1 DEF Lists
<1>4. \A u \in People : s.friends[u] \subseteq People /\ t.friends[u] \subseteq People
  BY <1>1 DEF Lists
<1> QED
  BY <1>1, <1>2, <1>3, <1>4 DEF Mutual

LEMMA ConfirmKeeps ==
  ASSUME NEW s \in Lists, Mutual(s), NEW a \in People, NEW b \in People
  PROVE  addFriendship(s, a, b) \in Lists /\ Mutual(addFriendship(s, a, b))
<1>1. CASE a = b
  BY <1>1 DEF addFriendship
<1>2. CASE a # b
  <2> DEFINE t == [s EXCEPT !.friends[a] = @ \cup {b}, !.friends[b] = @ \cup {a},
                            !.requests[a] = @ \ {b}, !.requests[b] = @ \ {a}]
  <2>1. t \in Lists /\ t.friends = [s.friends EXCEPT ![a] = @ \cup {b}, ![b] = @ \cup {a}]
        /\ t.requests = [s.requests EXCEPT ![a] = @ \ {b}, ![b] = @ \ {a}]
    BY DEF Lists
  <2>2. addFriendship(s, a, b) = t
    BY <1>2 DEF addFriendship
  <2> HIDE DEF t
  <2>3. \A u, v \in People : v \in t.friends[u] <=>
          v \in s.friends[u] \/ (u = a /\ v = b) \/ (u = b /\ v = a)
    BY <1>2, <2>1 DEF Lists
  <2>4. \A u \in People : /\ s.friends[u] \subseteq People /\ t.friends[u] \subseteq People
                          /\ t.requests[u] \subseteq s.requests[u]
    BY <2>1 DEF Lists
  <2>5. \A u \in People : u \notin t.friends[u] \cup t.requests[u]
    BY <1>2, <2>3, <2>4 DEF Mutual
  <2>6. ASSUME NEW u \in People, NEW v \in t.friends[u] PROVE u \in t.friends[v]
    <3>1. v \in People /\ (v \in s.friends[u] \/ (u = a /\ v = b) \/ (u = b /\ v = a))
      BY <2>3, <2>4, <2>6
    <3>2. v \in s.friends[u] => u \in s.friends[v]
      BY DEF Mutual
    <3> QED
      BY <2>3, <3>1, <3>2
  <2> QED
    BY <2>1, <2>2, <2>5, <2>6 DEF Mutual
<1> QED
  BY <1>1, <1>2

\* So does every endpoint, whoever calls it about whom.
LEMMA HandlerKeeps ==
  ASSUME NEW s \in Lists, Mutual(s), NEW k \in FriendOps,
         NEW a \in People, NEW b \in People, NEW c \in People
  PROVE  friendHandler(k, s, a, b, c) \in Lists /\ Mutual(friendHandler(k, s, a, b, c))
<1>1. CASE k = "RequestAddingFriend"
  BY <1>1, RequestKeeps DEF friendHandler, RequestAddingFriend
<1>2. CASE k = "ConfirmFriendRequest"
  BY <1>2, ConfirmKeeps DEF friendHandler, ConfirmFriendRequest
<1>3. CASE k = "DeclineFriendRequest"
  BY <1>3, DeclineKeeps DEF friendHandler, DeclineFriendRequest
<1>4. CASE k = "RemoveFriend"
  BY <1>4, RemoveKeeps DEF friendHandler, RemoveFriend
<1> QED
  BY <1>1, <1>2, <1>3, <1>4 DEF FriendOps

\* Only the friend endpoints touch the tables.
LEMMA SocialSteps ==
  ASSUME [Next]_vars
  PROVE  /\ ops' = ops
         /\ \/ social' = social
            \/ \E p \in Procs : friendRequest(p)
            \/ \E u \in People : othersFriendRequest(u)
<1>1. CASE UNCHANGED vars
  BY <1>1 DEF vars
<1>2. ASSUME NEW p \in Procs, Arrive(p) \/ requestFails(p)
      PROVE  ops' = ops /\ social' = social
  BY <1>2 DEF Arrive, requestFails, db
<1>3. ASSUME NEW p \in Procs, Step(p)
      PROVE  ops' = ops /\ (social' = social \/ friendRequest(p))
  BY <1>3 DEF Step, routerAuth, routerSave, friendRequest, loginLookup, loginCheckBan, loginSave,
       GetLoginData, sendLoginData, registerLookup, sqliteCreateFromLogin, registerInsert,
       registerRefresh, registerSave, adminLoad, adminSave, setAuthBan, db
<1>4. ASSUME NEW u \in People, othersFriendRequest(u) PROVE ops' = ops
  BY <1>4 DEF othersFriendRequest
<1>5. CASE (\E m \in Matches : publishResult(m)) \/ Settlement \/ settleFails \/ workerCrash
  BY <1>5 DEF publishResult, Settlement, subscribeStream, handleMatchResult, pushMatchStats,
       settleFails, workerCrash, db
<1> QED
  BY <1>1, <1>2, <1>3, <1>4, <1>5 DEF Next

\* The lists are mutual in every reachable state.
LEMMA ListsHold == Spec => []ListsInv
<1>1. Init => ListsInv
  BY DEF Init, ListsInv, Lists, Nobody, Mutual
<1>2. ListsInv /\ [Next]_vars => ListsInv'
  <2> SUFFICES ASSUME ListsInv, [Next]_vars, getRepo' = "PostgreSQL"
               PROVE  social' \in Lists /\ Mutual(social')
    BY DEF ListsInv, Mutual
  <2>1. ops' = ops
    BY SocialSteps
  <2>2. getRepo = "PostgreSQL" /\ lists = social
    BY <2>1 DEF getRepo, lists
  <2>3. social \in Lists /\ Mutual(social)
    BY <2>2 DEF ListsInv
  <2>4. CASE social' = social
    BY <2>3, <2>4
  <2>5. ASSUME NEW p \in Procs, friendRequest(p) PROVE social' \in Lists /\ Mutual(social')
    <3>1. PICK you, adder \in People : storeLists(friendHandler(proc[p].kind, lists, Self, you, adder))
      BY <2>5 DEF friendRequest
    <3>2. social' = friendHandler(proc[p].kind, social, Self, you, adder) /\ proc[p].kind \in FriendOps
      BY <2>2, <2>5, <3>1 DEF storeLists, friendRequest, At
    <3> QED
      BY <2>3, <3>2, HandlerKeeps, ProfilesAssumption
  <2>6. ASSUME NEW u \in People, othersFriendRequest(u) PROVE social' \in Lists /\ Mutual(social')
    <3>1. PICK k \in FriendOps \cap ops, adder \in People :
            storeLists(friendHandler(k, lists, u, Self, adder))
      BY <2>6 DEF othersFriendRequest
    <3>2. social' = friendHandler(k, social, u, Self, adder)
      BY <2>2, <3>1 DEF storeLists
    <3> QED
      BY <2>3, <3>2, HandlerKeeps, ProfilesAssumption
  <2> QED
    BY <2>4, <2>5, <2>6, SocialSteps
<1> QED
  BY <1>1, <1>2, PTL DEF Spec

\* For any number of players: the rows of Postgres never leave a friendship one-sided, however
\* requests, confirmations, removals and whole-document saves interleave.
THEOREM FriendsHold == Spec => []FriendsMutual
<1>1. ListsInv => FriendsMutual
  BY DEF ListsInv, FriendsMutual, Mutual, GetFriendIDs, GetFriendRequestList, lists
<1> QED
  BY <1>1, ListsHold, PTL

--------------------------------------------------------------------------------
(* The ban gate *)

\* The program counters after which a request is past the gate, or in the auth store.
Past == {"auth", "token", "lobby"}

\* How a step may change a request without touching the gate: it arrives, ends or goes on to a
\* place that is not past the gate.
Plain(p) ==
  /\ DOMAIN proc' = Procs /\ \A q \in Procs \ {p} : proc'[q] = proc[q]
  /\ \/ proc'[p] = Idle
     \/ /\ proc'[p].kind = proc[p].kind /\ proc'[p].early = proc[p].early
        /\ ProcShape(p)' /\ proc'[p].pc \notin Past

\* Idle requests are not gated.
LEMMA IdleShape ==
  /\ DOMAIN Idle = {"kind", "pc", "acc", "early"}
  /\ Idle.kind = "none" /\ Idle.pc = "idle" /\ Idle.early = TRUE
BY DEF Idle

\* The record of a request after a step that writes two of its fields.
LEMMA TwoFields ==
  ASSUME NEW c, NEW x, NEW r, DOMAIN r = {"kind", "pc", "acc", "early"}
  PROVE  /\ LET t == [r EXCEPT !.pc = c, !.acc = x]
            IN  /\ DOMAIN t = DOMAIN r /\ t.kind = r.kind /\ t.pc = c /\ t.early = r.early
         /\ LET t == [r EXCEPT !.pc = c, !.early = x]
            IN  /\ DOMAIN t = DOMAIN r /\ t.kind = r.kind /\ t.pc = c /\ t.early = x
OBVIOUS

\* A request's new record, as the steps write it.
LEMMA GotoShape ==
  ASSUME GateInv, NEW p \in Procs, NEW pc1, NEW acc1, Goto(p, pc1, acc1)
  PROVE  /\ DOMAIN proc' = Procs /\ \A q \in Procs \ {p} : proc'[q] = proc[q]
         /\ proc'[p].kind = proc[p].kind /\ proc'[p].pc = pc1 /\ proc'[p].early = proc[p].early
         /\ ProcShape(p)'
<1> DEFINE t == [proc[p] EXCEPT !.pc = pc1, !.acc = acc1]
<1>1. DOMAIN proc = Procs /\ DOMAIN proc[p] = {"kind", "pc", "acc", "early"}
  BY DEF GateInv, ProcShape
<1>2. proc' = [proc EXCEPT ![p] = t]
  BY <1>1 DEF Goto
<1>3. DOMAIN t = DOMAIN proc[p] /\ t.kind = proc[p].kind /\ t.pc = pc1 /\ t.early = proc[p].early
  BY <1>1, TwoFields
<1> HIDE DEF t
<1>4. proc'[p] = t /\ DOMAIN proc' = Procs /\ \A q \in Procs \ {p} : proc'[q] = proc[q]
  BY <1>1, <1>2
<1> QED
  BY <1>1, <1>3, <1>4 DEF ProcShape

LEMMA GotoPlain ==
  ASSUME GateInv, NEW p \in Procs, NEW pc1, pc1 \notin Past, NEW acc1, Goto(p, pc1, acc1)
  PROVE  Plain(p)
BY GotoShape DEF Plain

LEMMA EndPlain ==
  ASSUME GateInv, NEW p \in Procs, End(p)
  PROVE  Plain(p)
BY DEF End, Plain, GateInv

\* A plain step keeps the gate.
LEMMA PlainKeeps ==
  ASSUME GateInv, NEW p \in Procs, Plain(p), ops' = ops, auth' = auth
  PROVE  GateInv'
<1>1. \A q \in Procs : ProcShape(q)'
  BY IdleShape DEF GateInv, Plain, ProcShape
<1>2. ASSUME Gating, NEW q \in Procs PROVE Gated(q)'
  <2>1. Gated(q)
    BY <1>2 DEF GateInv
  <2>2. CASE q = p /\ proc'[p] # Idle
    BY <2>1, <2>2 DEF Plain, Gated, Past
  <2>3. CASE proc'[q] = Idle
    BY <2>3, IdleShape DEF Gated
  <2>4. CASE q # p
    BY <2>1, <2>4 DEF Plain, Gated
  <2> QED
    BY <2>2, <2>3, <2>4
<1> QED
  BY <1>1, <1>2 DEF GateInv, Plain, Gating, getRepo

\* A request that passes the ban gate was early: a late one finds the flag in the auth store.
LEMMA CheckKeeps ==
  ASSUME GateInv, NEW p \in Procs, NEW next, next \in {"token", "lobby"}, checkBan(p, next),
         ops' = ops, auth' = auth
  PROVE  GateInv'
<1>1. CASE End(p)
  BY <1>1, EndPlain, PlainKeeps
<1>2. CASE ~accountByOpenId /\ Goto(p, next, proc[p].acc)
  <2>1. /\ DOMAIN proc' = Procs /\ \A q \in Procs \ {p} : proc'[q] = proc[q]
        /\ proc'[p].kind = proc[p].kind /\ proc'[p].pc = next /\ proc'[p].early = proc[p].early
        /\ ProcShape(p)'
    BY <1>2, GotoShape
  <2>2. \A q \in Procs : ProcShape(q)'
    BY <2>1 DEF GateInv, ProcShape
  <2>3. ASSUME Gating PROVE proc[p].early
    BY <1>2, <2>3 DEF GateInv, Gated, Gating, accountByOpenId, isEnabled
  <2>4. ASSUME Gating, NEW q \in Procs PROVE Gated(q)'
    <3>1. Gated(q)
      BY <2>4 DEF GateInv
    <3> QED
      BY <2>1, <2>3, <2>4, <3>1 DEF Gated
  <2> QED
    BY <2>1, <2>2, <2>4 DEF GateInv, Gating, getRepo
<1>3. CASE proc' = [proc EXCEPT ![p].pc = next, ![p].early = TRUE]
  <2> DEFINE t == [proc[p] EXCEPT !.pc = next, !.early = TRUE]
  <2>1. DOMAIN proc = Procs /\ DOMAIN proc[p] = {"kind", "pc", "acc", "early"}
    BY DEF GateInv, ProcShape
  <2>2. proc' = [proc EXCEPT ![p] = t]
    BY <1>3, <2>1
  <2>b. DOMAIN t = DOMAIN proc[p] /\ t.kind = proc[p].kind /\ t.pc = next /\ t.early = TRUE
    BY <2>1, TwoFields
  <2> HIDE DEF t
  <2>3. proc'[p] = t /\ DOMAIN proc' = Procs /\ \A q \in Procs \ {p} : proc'[q] = proc[q]
    BY <2>1, <2>2
  <2>4. \A q \in Procs : ProcShape(q)'
    BY <2>1, <2>3, <2>b DEF GateInv, ProcShape
  <2>5. ASSUME Gating, NEW q \in Procs PROVE Gated(q)'
    <3>1. Gated(q)
      BY <2>5 DEF GateInv
    <3>2. CASE q = p
      BY <2>3, <2>b, <3>1, <3>2 DEF Gated
    <3>3. CASE q # p
      BY <2>3, <3>1, <3>3 DEF Gated
    <3> QED
      BY <3>2, <3>3
  <2> QED
    BY <2>3, <2>4, <2>5 DEF GateInv, Gating, getRepo
<1> QED
  BY <1>1, <1>2, <1>3 DEF checkBan, reject

\* A request arrives: late ones after the ban is in the auth store.
LEMMA ArriveKeeps ==
  ASSUME GateInv, NEW p \in Procs, Arrive(p)
  PROVE  GateInv'
<1>1. PICK k \in ops \ {"settle", "sqlite"} :
        proc' = [proc EXCEPT ![p] = [Idle EXCEPT !.kind = k, !.pc = "start", !.early = (auth.done # "ban")]]
  BY DEF Arrive
<1> DEFINE b == auth.done # "ban"
<1>2. b \in BOOLEAN /\ (~b => auth.done = "ban")
  OBVIOUS
<1>a. proc' = [proc EXCEPT ![p] = [Idle EXCEPT !.kind = k, !.pc = "start", !.early = b]]
  BY <1>1
<1> HIDE DEF b
<1> DEFINE t == [Idle EXCEPT !.kind = k, !.pc = "start", !.early = b]
<1>3. DOMAIN t = {"kind", "pc", "acc", "early"} /\ t.kind = k /\ t.pc = "start" /\ t.early = b
  BY DEF Idle
<1> HIDE DEF t
<1>4. proc'[p] = t /\ DOMAIN proc' = Procs /\ \A q \in Procs \ {p} : proc'[q] = proc[q]
  BY <1>a DEF GateInv, t
<1>5. ops' = ops /\ auth' = auth
  BY DEF Arrive, db
<1>6. \A q \in Procs : ProcShape(q)'
  BY <1>3, <1>4 DEF GateInv, ProcShape
<1>7. ASSUME Gating, NEW q \in Procs PROVE Gated(q)'
  <2>1. Gated(q)
    BY <1>7 DEF GateInv
  <2>2. CASE q = p
    BY <1>2, <1>3, <1>4, <1>5, <2>2 DEF Gated
  <2>3. CASE q # p
    BY <1>4, <1>5, <2>1, <2>3 DEF Gated
  <2> QED
    BY <2>2, <2>3
<1> QED
  BY <1>4, <1>5, <1>6, <1>7 DEF GateInv, Gating, getRepo

\* The operator's last step: the auth store has the flag of a ban, and only a ban is possible
\* in a scenario without unbans.
LEMMA AuthKeeps ==
  ASSUME GateInv, NEW p \in Procs, setAuthBan(p)
  PROVE  GateInv'
<1>1. auth' = [banned |-> isEnabled /\ proc[p].kind = "ban", done |-> proc[p].kind] /\ End(p) /\ ops' = ops
      /\ proc[p].pc = "auth" /\ proc[p].kind \in Admin
  BY DEF setAuthBan, At
<1>2. Plain(p)
  BY <1>1, EndPlain
<1>3. \A q \in Procs : ProcShape(q)'
  BY <1>2, IdleShape DEF GateInv, Plain, ProcShape
<1>4. ASSUME Gating PROVE auth'.done = "ban" /\ auth'.banned
  <2>1. proc[p].kind = "ban"
    BY <1>1, <1>4 DEF GateInv, Gated, Gating, Admin
  <2>2. isEnabled
    BY <1>4 DEF Gating, isEnabled
  <2> QED
    BY <1>1, <2>1, <2>2
<1>5. ASSUME Gating, NEW q \in Procs PROVE Gated(q)'
  <2>1. Gated(q)
    BY <1>5 DEF GateInv
  <2>2. CASE q = p
    BY <1>1, <2>2, IdleShape DEF End, Gated, GateInv
  <2>3. CASE q # p
    BY <1>1, <1>2, <1>4, <1>5, <2>1, <2>3 DEF Plain, Gated
  <2> QED
    BY <2>2, <2>3
<1> QED
  BY <1>1, <1>2, <1>3, <1>4, <1>5 DEF GateInv, Plain, Gating, getRepo

\* Login has no gate, and the two others meet it before they get a token.
LEMMA LookupKeeps ==
  ASSUME GateInv, NEW p \in Procs, loginLookup(p)
  PROVE  GateInv'
<1>1. ops' = ops /\ auth' = auth
  BY DEF loginLookup, db
<1>2. CASE End(p)
  BY <1>1, <1>2, EndPlain, PlainKeeps
<1>3. CASE proc[p].kind # "Login" /\ Goto(p, "ban", loadAccount)
  BY <1>1, <1>3, GotoPlain, PlainKeeps DEF Past
<1>4. CASE proc[p].kind = "Login" /\ Goto(p, "token", loadAccount)
  <2>1. /\ DOMAIN proc' = Procs /\ \A q \in Procs \ {p} : proc'[q] = proc[q]
        /\ proc'[p].kind = proc[p].kind /\ proc'[p].pc = "token" /\ proc'[p].early = proc[p].early
        /\ ProcShape(p)'
    BY <1>4, GotoShape
  <2>2. \A q \in Procs : ProcShape(q)'
    BY <2>1 DEF GateInv, ProcShape
  <2>3. ASSUME Gating, NEW q \in Procs PROVE Gated(q)'
    <3>1. Gated(q)
      BY <2>3 DEF GateInv
    <3> QED
      BY <1>1, <1>4, <2>1, <3>1 DEF Gated
  <2> QED
    BY <1>1, <2>1, <2>2, <2>3 DEF GateInv, Gating, getRepo
<1> QED
  BY <1>2, <1>3, <1>4 DEF loginLookup, reject, Ungated

\* A command on its way to the auth store is a ban or an unban.
LEMMA AdminKeeps ==
  ASSUME GateInv, NEW p \in Procs, adminSave(p)
  PROVE  GateInv'
<1>1. ops' = ops /\ auth' = auth
  BY DEF adminSave
<1>2. CASE End(p)
  BY <1>1, <1>2, EndPlain, PlainKeeps
<1>3. CASE proc[p].kind \in {"ban", "unban"} /\ Goto(p, "auth", proc[p].acc)
  <2>1. /\ DOMAIN proc' = Procs /\ \A q \in Procs \ {p} : proc'[q] = proc[q]
        /\ proc'[p].kind = proc[p].kind /\ proc'[p].pc = "auth" /\ proc'[p].early = proc[p].early
        /\ ProcShape(p)'
    BY <1>3, GotoShape
  <2>2. \A q \in Procs : ProcShape(q)'
    BY <2>1 DEF GateInv, ProcShape
  <2>3. ASSUME Gating, NEW q \in Procs PROVE Gated(q)'
    <3>1. Gated(q)
      BY <2>3 DEF GateInv
    <3> QED
      BY <1>1, <1>3, <2>1, <3>1 DEF Gated
  <2> QED
    BY <1>1, <2>1, <2>2, <2>3 DEF GateInv, Gating, getRepo
<1> QED
  BY <1>2, <1>3 DEF adminSave

\* The other steps of a request are plain.
LEMMA PlainSteps ==
  ASSUME GateInv, NEW p \in Procs,
         \/ routerAuth(p) \/ routerSave(p) \/ friendRequest(p) \/ loginSave(p) \/ sendLoginData(p)
         \/ registerLookup(p) \/ sqliteCreateFromLogin(p) \/ registerInsert(p)
         \/ registerRefresh(p) \/ registerSave(p) \/ adminLoad(p) \/ requestFails(p)
  PROVE  GateInv'
<1>1. ops' = ops /\ auth' = auth
  BY DEF routerAuth, routerSave, friendRequest, loginSave, sendLoginData, registerLookup,
       sqliteCreateFromLogin, registerInsert, registerRefresh, registerSave, adminLoad,
       requestFails, db
<1>2. \/ End(p)
      \/ Goto(p, "loaded", loadAccount)
      \/ Goto(p, "fill", DEFAULT_PLAYER)
      \/ registerLookup(p)
  BY DEF routerAuth, routerSave, friendRequest, loginSave, sendLoginData,
       sqliteCreateFromLogin, registerInsert, registerRefresh, registerSave, adminLoad, requestFails
<1>3. CASE registerLookup(p)
  <2> DEFINE pc1 == IF getRepo = "SQLite" THEN "create" ELSE IF row.exists THEN "refresh" ELSE "insert"
             acc1 == IF row.exists THEN loadAccount ELSE DEFAULT_PLAYER
  <2>1. End(p) \/ Goto(p, pc1, acc1)
    BY <1>3 DEF registerLookup, reject
  <2>2. pc1 \notin Past
    BY DEF Past
  <2> HIDE DEF pc1, acc1
  <2> QED
    BY <1>1, <2>1, <2>2, EndPlain, GotoPlain, PlainKeeps
<1>4. CASE End(p)
  BY <1>1, <1>4, EndPlain, PlainKeeps
<1>5. CASE Goto(p, "loaded", loadAccount)
  BY <1>1, <1>5, GotoPlain, PlainKeeps DEF Past
<1>6. CASE Goto(p, "fill", DEFAULT_PLAYER)
  BY <1>1, <1>6, GotoPlain, PlainKeeps DEF Past
<1> QED
  BY <1>2, <1>3, <1>4, <1>5, <1>6

\* The gate is an invariant.
LEMMA GateStep == GateInv /\ [Next]_vars => GateInv'
<1> SUFFICES ASSUME GateInv, [Next]_vars PROVE GateInv'
  OBVIOUS
<1>1. ASSUME UNCHANGED <<ops, auth, proc>> PROVE GateInv'
  BY <1>1 DEF GateInv, Gated, ProcShape, Gating, getRepo
<1>2. CASE UNCHANGED vars
  BY <1>1, <1>2 DEF vars
<1>3. ASSUME NEW p \in Procs, loginCheckBan(p) PROVE GateInv'
  BY <1>3, CheckKeeps DEF loginCheckBan, db
<1>4. ASSUME NEW p \in Procs, GetLoginData(p) PROVE GateInv'
  <2>1. ops' = ops /\ auth' = auth
    BY <1>4 DEF GetLoginData, db
  <2>2. checkBan(p, "lobby") \/ End(p)
    BY <1>4 DEF GetLoginData, reject
  <2> QED
    BY <2>1, <2>2, CheckKeeps, EndPlain, PlainKeeps
<1>5. CASE \E u \in People \ {Self} : othersFriendRequest(u)
  BY <1>1, <1>5 DEF othersFriendRequest
<1>6. CASE (\E m \in Matches : publishResult(m)) \/ Settlement \/ settleFails \/ workerCrash
  BY <1>1, <1>6 DEF publishResult, Settlement, subscribeStream, handleMatchResult, pushMatchStats,
       settleFails, workerCrash, db
<1> QED
  BY <1>2, <1>3, <1>4, <1>5, <1>6, ArriveKeeps, AuthKeeps, LookupKeeps, AdminKeeps, PlainSteps
     DEF Next, Step

\* It holds from the start.
LEMMA GateHolds == Spec => []GateInv
<1>1. Init => GateInv
  <2> SUFFICES ASSUME Init PROVE GateInv
    OBVIOUS
  <2>1. DOMAIN proc = Procs /\ \A p \in Procs : proc[p] = Idle
    BY DEF Init
  <2>2. auth.done = "none"
    BY DEF Init
  <2> QED
    BY <2>1, <2>2, IdleShape DEF GateInv, ProcShape, Gated
<1> QED
  BY <1>1, GateStep, PTL DEF Spec

\* Only loginSave issues a token.
LEMMA TokenSteps ==
  ASSUME [Next]_vars, issued' # issued
  PROVE  \E p \in Procs : loginSave(p)
<1>1. ASSUME NEW p \in Procs, Arrive(p) \/ requestFails(p) PROVE FALSE
  BY <1>1 DEF Arrive, requestFails, db
<1>2. ASSUME NEW p \in Procs, Step(p) PROVE loginSave(p)
  BY <1>2 DEF Step, routerAuth, routerSave, friendRequest, loginLookup, loginCheckBan,
       GetLoginData, sendLoginData, registerLookup, sqliteCreateFromLogin, registerInsert,
       registerRefresh, registerSave, adminLoad, adminSave, setAuthBan, db
<1>3. ASSUME NEW u \in People, othersFriendRequest(u) PROVE FALSE
  BY <1>3 DEF othersFriendRequest
<1>4. CASE (\E m \in Matches : publishResult(m)) \/ Settlement \/ settleFails \/ workerCrash
  BY <1>4 DEF publishResult, Settlement, subscribeStream, handleMatchResult, pushMatchStats,
       settleFails, workerCrash, db
<1> QED
  BY <1>1, <1>2, <1>3, <1>4 DEF Next, vars

\* On Postgres, for any requests in flight, saves that erase the document's flag and failing
\* queries: after a ban has taken effect no request that arrives later gets a token at a gated
\* endpoint or enters the lobby.
THEOREM BansGate == Spec => BanGates
<1>1. GateInv /\ GateInv' /\ [Next]_vars =>
        [Gating =>
           /\ issued' # issued =>
                \E p \in Procs : At(p, "token", Logins) /\ proc'[p] = Idle
                                 /\ (proc[p].early \/ proc[p].kind = "Login")
           /\ \A p \in Procs : proc'[p].pc = "lobby" => proc'[p].early]_vars
  <2> SUFFICES ASSUME GateInv, GateInv', [Next]_vars, Gating
               PROVE  /\ issued' # issued =>
                           \E p \in Procs : At(p, "token", Logins) /\ proc'[p] = Idle
                                            /\ (proc[p].early \/ proc[p].kind = "Login")
                      /\ \A p \in Procs : proc'[p].pc = "lobby" => proc'[p].early
    OBVIOUS
  <2>1. ASSUME issued' # issued
        PROVE  \E p \in Procs : At(p, "token", Logins) /\ proc'[p] = Idle
                                /\ (proc[p].early \/ proc[p].kind = "Login")
    <3>1. PICK p \in Procs : loginSave(p)
      BY <2>1, TokenSteps
    <3>2. At(p, "token", Logins) /\ proc'[p] = Idle
      BY <3>1 DEF loginSave, End, GateInv
    <3>3. proc[p].early \/ proc[p].kind = "Login"
      BY <3>2 DEF At, GateInv, Gated
    <3> QED
      BY <3>2, <3>3
  <2>2. ops' = ops
    BY SocialSteps
  <2>3. \A p \in Procs : proc'[p].pc = "lobby" => proc'[p].early
    BY <2>2 DEF GateInv, Gated, Gating, getRepo
  <2> QED
    BY <2>1, <2>3
<1> QED
  BY <1>1, GateHolds, PTL DEF Spec, BanGates

--------------------------------------------------------------------------------
(* Documents: every handler leaves a whole, dressed document with the coins it found. *)

\* What a handler may do to a document.
Kept(d, e) == e \in Docs /\ (Dressed(d) => Dressed(e)) /\ e.coins = d.coins

\* Most handlers leave characters and looks alone.
SameLooks(d, e) ==
  /\ e \in Docs /\ e.coins = d.coins /\ e.profiles = d.profiles
  /\ e.selected.avatar = d.selected.avatar /\ e.selected.clothes = d.selected.clothes

LEMMA SameLooksKeep ==
  ASSUME NEW d \in Docs, NEW e, SameLooks(d, e)
  PROVE  Kept(d, e)
BY DEF SameLooks, Kept, Dressed, selectedIn

LEMMA OverwriteKeeps ==
  ASSUME NEW d \in Docs, NEW f \in OptFields, NEW e \in Overwrite(d, f)
  PROVE  SameLooks(d, e)
BY DEF Docs, Overwrite, SameLooks, OptFields

LEMMA SlotsKeep ==
  ASSUME NEW d \in Docs, NEW e \in ChooseSlots(d)
  PROVE  SameLooks(d, e)
BY DEF Docs, ChooseSlots, SameLooks

\* The flags of a document: pass, mail, ban.
LEMMA FlagsKeep ==
  ASSUME NEW d \in Docs, NEW b \in BOOLEAN
  PROVE  /\ SameLooks(d, [d EXCEPT !.elite_pass = b])
         /\ SameLooks(d, [d EXCEPT !.read = b])
         /\ SameLooks(d, [d EXCEPT !.banned = b])
BY DEF Docs, SameLooks

LEMMA PassKeeps ==
  ASSUME NEW d \in Docs
  PROVE  \A e \in EPClaimBadge(d) \cup EPPurchaseBadge(d) \cup EPPurchase(d) \cup Purchase(d)
                    \cup ReadMail(d) : SameLooks(d, e)
<1>1. \A e \in EPClaimBadge(d) : SameLooks(d, e)
  BY DocAssumption DEF Docs, EPClaimBadge, SameLooks
<1>2. \A e \in EPPurchaseBadge(d) : SameLooks(d, e)
  BY DocAssumption DEF Docs, EPPurchaseBadge, SameLooks
<1>3. \A e \in Purchase(d) : SameLooks(d, e)
  BY DEF Docs, Purchase, SameLooks
<1>4. \A e \in EPPurchase(d) \cup ReadMail(d) : SameLooks(d, e)
  BY FlagsKeep DEF EPPurchase, ReadMail
<1> QED
  BY <1>1, <1>2, <1>3, <1>4

LEMMA ClanKeeps ==
  ASSUME NEW d \in Docs,
         NEW e \in CreateClan(d) \cup QuitClan(d) \cup DismissClan(d) \cup ModifyClanName(d)
                   \cup ModifyClanInfo(d) \cup RemoveClanMember(d)
  PROVE  SameLooks(d, e)
BY DocAssumption DEF Docs, CreateClan, QuitClan, DismissClan, ModifyClanName, ModifyClanInfo,
     RemoveClanMember, NoClan, SameLooks

LEMMA ModerationKeeps ==
  ASSUME NEW d \in Docs
  PROVE  \A e \in Logout(d) \cup setNickname(d) \cup setRole(d) \cup banDoc(d) \cup unbanDoc(d) :
           SameLooks(d, e)
<1>1. \A e \in Logout(d) : SameLooks(d, e)
  BY DEF Docs, Logout, SameLooks
<1>2. \A e \in setNickname(d) : SameLooks(d, e)
  BY DEF Docs, setNickname, SameLooks
<1>3. \A e \in setRole(d) : SameLooks(d, e)
  BY DEF Docs, setRole, SameLooks
<1>4. \A e \in banDoc(d) \cup unbanDoc(d) : SameLooks(d, e)
  BY FlagsKeep DEF banDoc, unbanDoc
<1> QED
  BY <1>1, <1>2, <1>3, <1>4

\* What logins, registrations and SQLite's friend lists write.
LEMMA FieldsKeep ==
  ASSUME NEW d \in Docs
  PROVE  /\ \A t \in Nat \cup {NoToken} : SameLooks(d, [d EXCEPT !.token = t])
         /\ \A v \in Values : SameLooks(d, [d EXCEPT !.nickname = v])
         /\ \A F, R \in SUBSET People : SameLooks(d, [d EXCEPT !.friends = F, !.requests = R])
<1>1. \A t \in Nat \cup {NoToken} : SameLooks(d, [d EXCEPT !.token = t])
  BY DEF Docs, SameLooks
<1>2. \A v \in Values : SameLooks(d, [d EXCEPT !.nickname = v])
  BY DEF Docs, SameLooks
<1>3. \A F, R \in SUBSET People : SameLooks(d, [d EXCEPT !.friends = F, !.requests = R])
  BY DEF Docs, SameLooks
<1> QED
  BY <1>1, <1>2, <1>3

\* One field of a profile.
LEMMA OutfitField ==
  ASSUME NEW r \in Profile, NEW v \in Values
  PROVE  LET q == [r EXCEPT !.clothes = v]
         IN  q \in Profile /\ q.is_selected = r.is_selected
BY DEF Profile

LEMMA SkillField ==
  ASSUME NEW r \in Profile, NEW v \in Values
  PROVE  LET q == [r EXCEPT !.skill = v]
         IN  q \in Profile /\ q.is_selected = r.is_selected /\ q.clothes = r.clothes
BY DEF Profile

LEMMA SelectedField ==
  ASSUME NEW r \in Profile, NEW b \in BOOLEAN
  PROVE  LET q == [r EXCEPT !.is_selected = b]
         IN  q \in Profile /\ q.is_selected = b /\ q.clothes = r.clothes
BY DEF Profile

\* Another roster of characters.
LEMMA RosterField ==
  ASSUME NEW d \in Docs, NEW P \in [Avatars -> Profile]
  PROVE  LET e == [d EXCEPT !.profiles = P]
         IN  e \in Docs /\ e.profiles = P /\ e.coins = d.coins /\ e.selected = d.selected
BY DEF Docs

LEMMA RosterOf ==
  ASSUME NEW d \in Docs
  PROVE  d.profiles \in [Avatars -> Profile]
BY DEF Docs

\* Rendering a character: selected_items follows it and nothing else changes.
LEMMA SyncLook ==
  ASSUME NEW d \in Docs, NEW a \in Avatars
  PROVE  LET e == syncLook(d, a)
         IN  /\ e \in Docs /\ e.profiles = d.profiles /\ e.coins = d.coins
             /\ e.selected.avatar = a /\ e.selected.clothes = d.profiles[a].clothes
BY DEF syncLook, Docs, Profile

\* SelectProfile selects one character and renders it.
LEMMA SelectKeeps ==
  ASSUME NEW d \in Docs, NEW e \in SelectProfile(d)
  PROVE  Kept(d, e)
<1>1. PICK a \in Avatars :
        e = syncSelectedItemsFromProfile(
              [d EXCEPT !.profiles = [x \in Avatars |-> [@[x] EXCEPT !.is_selected = (x = a)]]], a)
  BY DEF SelectProfile
<1> DEFINE P == [x \in Avatars |-> [d.profiles[x] EXCEPT !.is_selected = (x = a)]]
           f == [d EXCEPT !.profiles = P]
<1>2. /\ P \in [Avatars -> Profile]
      /\ \A x \in Avatars : P[x].is_selected = (x = a)
  <2>1. ASSUME NEW x \in Avatars PROVE P[x] \in Profile /\ P[x].is_selected = (x = a)
    <3> DEFINE b == (x = a)
               r == d.profiles[x]
    <3>1. b \in BOOLEAN /\ r \in Profile
      BY RosterOf
    <3>2. P[x] = [r EXCEPT !.is_selected = b]
      OBVIOUS
    <3> HIDE DEF b, P, r
    <3>3. P[x] \in Profile /\ P[x].is_selected = b
      BY <3>1, <3>2, SelectedField
    <3> QED
      BY <3>3 DEF b
  <2> QED
    BY <2>1
<1>3. P[a].clothes \in Values /\ P[a].skill \in Values
  BY <1>2 DEF Profile
<1>4. f \in Docs /\ f.profiles = P /\ f.coins = d.coins
  BY <1>2, RosterField
<1>5. e = syncSelectedItemsFromProfile(f, a)
  BY <1>1
<1> HIDE DEF f, P
<1>6. LET g == syncLook(f, a)
      IN  /\ g \in Docs /\ g.profiles = P /\ g.coins = d.coins
          /\ g.selected.avatar = a /\ g.selected.clothes = P[a].clothes
  BY <1>4, SyncLook
<1>7. e = [syncLook(f, a) EXCEPT !.selected.slot = P[a].skill]
  BY <1>4, <1>5 DEF syncSelectedItemsFromProfile
<1>8. /\ e \in Docs /\ e.profiles = P /\ e.coins = d.coins
      /\ e.selected.avatar = a /\ e.selected.clothes = P[a].clothes
  BY <1>3, <1>6, <1>7 DEF Docs
<1>9. selectedIn(e) = {a}
  BY <1>2, <1>8 DEF selectedIn
<1> QED
  BY <1>8, <1>9 DEF Kept, Dressed

\* ChangeClothes renders the outfit only when the character is the selected one.
LEMMA ClothesKeep ==
  ASSUME NEW d \in Docs, NEW e \in ChangeClothes(d)
  PROVE  Kept(d, e)
<1>1. PICK a \in Avatars, v \in Values : e = changeOutfit(d, a, v)
  BY DEF ChangeClothes
<1> DEFINE P == [d.profiles EXCEPT ![a] = [d.profiles[a] EXCEPT !.clothes = v]]
           f == [d EXCEPT !.profiles = P]
<1>2. /\ P \in [Avatars -> Profile]
      /\ \A x \in Avatars : /\ P[x].is_selected = d.profiles[x].is_selected
                            /\ x # a => P[x].clothes = d.profiles[x].clothes
  <2> DEFINE r == d.profiles[a]
             q == [r EXCEPT !.clothes = v]
  <2>1. d.profiles \in [Avatars -> Profile] /\ r \in Profile
    BY RosterOf
  <2> HIDE DEF r
  <2>2. q \in Profile /\ q.is_selected = r.is_selected
    BY <2>1, OutfitField
  <2>3. P = [d.profiles EXCEPT ![a] = q]
    BY DEF r
  <2> HIDE DEF P, q
  <2> QED
    BY <2>1, <2>2, <2>3 DEF r
<1>3. f = [d EXCEPT !.profiles[a].clothes = v]
  OBVIOUS
<1>4. f \in Docs /\ f.profiles = P /\ f.coins = d.coins /\ f.selected = d.selected
  BY <1>2, RosterField
<1>5. e = IF P[a].is_selected THEN syncLook(f, a) ELSE f
  BY <1>1, <1>3, <1>4 DEF changeOutfit
<1> HIDE DEF P, f
<1>6. selectedIn(f) = selectedIn(d)
  BY <1>2, <1>4 DEF selectedIn
<1>7. CASE P[a].is_selected
  <2>1. /\ e \in Docs /\ e.profiles = P /\ e.coins = d.coins
        /\ e.selected.avatar = a /\ e.selected.clothes = P[a].clothes
    BY <1>4, <1>5, <1>7, SyncLook
  <2>2. a \in selectedIn(d) /\ selectedIn(e) = selectedIn(d)
    BY <1>2, <1>7, <2>1 DEF selectedIn
  <2> QED
    BY <2>1, <2>2 DEF Kept, Dressed
<1>8. CASE ~P[a].is_selected
  <2>1. a \notin selectedIn(d) /\ e = f
    BY <1>2, <1>5, <1>8 DEF selectedIn
  <2>2. \A x \in selectedIn(d) : f.profiles[x].clothes = d.profiles[x].clothes
    BY <1>2, <1>4, <2>1 DEF selectedIn
  <2> QED
    BY <1>4, <1>6, <2>1, <2>2 DEF Kept, Dressed
<1> QED
  BY <1>7, <1>8

LEMMA SkillKeeps ==
  ASSUME NEW d \in Docs, NEW e \in EquipSkill(d)
  PROVE  Kept(d, e)
<1>1. PICK a \in Avatars, v \in Values : e = [d EXCEPT !.profiles[a].skill = v]
  BY DEF EquipSkill
<1> DEFINE P == [d.profiles EXCEPT ![a] = [d.profiles[a] EXCEPT !.skill = v]]
<1>2. /\ P \in [Avatars -> Profile]
      /\ \A x \in Avatars : /\ P[x].is_selected = d.profiles[x].is_selected
                            /\ P[x].clothes = d.profiles[x].clothes
  <2> DEFINE r == d.profiles[a]
             q == [r EXCEPT !.skill = v]
  <2>1. d.profiles \in [Avatars -> Profile] /\ r \in Profile
    BY RosterOf
  <2> HIDE DEF r
  <2>2. q \in Profile /\ q.is_selected = r.is_selected /\ q.clothes = r.clothes
    BY <2>1, SkillField
  <2>3. P = [d.profiles EXCEPT ![a] = q]
    BY DEF r
  <2> HIDE DEF P, q
  <2> QED
    BY <2>1, <2>2, <2>3 DEF r
<1>3. e = [d EXCEPT !.profiles = P]
  BY <1>1
<1>4. e \in Docs /\ e.profiles = P /\ e.coins = d.coins /\ e.selected = d.selected
  BY <1>2, <1>3, RosterField
<1> HIDE DEF P
<1>5. selectedIn(e) = selectedIn(d)
  BY <1>2, <1>4 DEF selectedIn
<1>6. \A x \in selectedIn(d) : e.profiles[x].clothes = d.profiles[x].clothes
  BY <1>2, <1>4 DEF selectedIn
<1> QED
  BY <1>4, <1>5, <1>6 DEF Kept, Dressed

\* GetProfiles may flag another character; the one that is rendered keeps its flag.
LEMMA ProfilesKeep ==
  ASSUME NEW d \in Docs, NEW e \in GetProfiles(d)
  PROVE  Kept(d, e)
<1>1. PICK a \in Avatars : e = [d EXCEPT !.profiles[a].is_selected = TRUE]
  BY DocAssumption DEF GetProfiles, FirstOf, Shown
<1> DEFINE P == [d.profiles EXCEPT ![a] = [d.profiles[a] EXCEPT !.is_selected = TRUE]]
<1>2. /\ P \in [Avatars -> Profile]
      /\ \A x \in Avatars : /\ d.profiles[x].is_selected => P[x].is_selected
                            /\ P[x].clothes = d.profiles[x].clothes
  <2> DEFINE r == d.profiles[a]
             q == [r EXCEPT !.is_selected = TRUE]
  <2>1. d.profiles \in [Avatars -> Profile] /\ r \in Profile
    BY RosterOf
  <2> HIDE DEF r
  <2>2. q \in Profile /\ q.is_selected /\ q.clothes = r.clothes
    BY <2>1, SelectedField
  <2>3. P = [d.profiles EXCEPT ![a] = q]
    BY DEF r
  <2> HIDE DEF P, q
  <2> QED
    BY <2>1, <2>2, <2>3 DEF r
<1>3. e = [d EXCEPT !.profiles = P]
  BY <1>1
<1>4. e \in Docs /\ e.profiles = P /\ e.coins = d.coins /\ e.selected = d.selected
  BY <1>2, <1>3, RosterField
<1> HIDE DEF P
<1>5. selectedIn(d) \subseteq selectedIn(e)
  BY <1>2, <1>4 DEF selectedIn
<1>6. \A x \in selectedIn(d) : e.profiles[x].clothes = d.profiles[x].clothes
  BY <1>2, <1>4 DEF selectedIn
<1> QED
  BY <1>4, <1>5, <1>6 DEF Kept, Dressed

\* GetBackpack renders a selected character, if there is one.
LEMMA BackpackKeeps ==
  ASSUME NEW d \in Docs, NEW e \in GetBackpack(d)
  PROVE  Kept(d, e)
<1>1. PICK a \in selectedProfile(d) : e = syncLook(d, a)
  BY DEF GetBackpack
<1>2. a \in Avatars /\ (selectedIn(d) # {} => a \in selectedIn(d))
  BY DocAssumption DEF selectedProfile, FirstOf, selectedIn
<1>3. /\ e \in Docs /\ e.profiles = d.profiles /\ e.coins = d.coins
      /\ e.selected.avatar = a /\ e.selected.clothes = d.profiles[a].clothes
  BY <1>1, <1>2, SyncLook
<1>4. selectedIn(e) = selectedIn(d)
  BY <1>3 DEF selectedIn
<1> QED
  BY <1>2, <1>3, <1>4 DEF Kept, Dressed

\* Every document handler may save, by endpoint.
LEMMA RequestKeepsDoc ==
  ASSUME NEW d \in Docs, NEW k \in Requests, NEW e \in handler(k, d)
  PROVE  Kept(d, e)
<1>1. CASE k \in {"ChooseBanner", "ChooseHeadPic", "ChooseRegion", "ChooseLoadout", "ChooseEmote",
                  "ChooseShow", "SetShowRank"}
  <2>1. \E f \in OptFields : e \in Overwrite(d, f)
    BY <1>1 DEF handler, ChooseBanner, ChooseHeadPic, ChooseRegion, ChooseLoadout, ChooseEmote,
         ChooseShow, SetShowRank, OptFields
  <2> QED
    BY <2>1, OverwriteKeeps, SameLooksKeep
<1>2. CASE k = "ChooseSlots"
  BY <1>2, SlotsKeep, SameLooksKeep DEF handler
<1>3. CASE k = "SelectProfile"
  BY <1>3, SelectKeeps DEF handler
<1>4. CASE k = "ChangeClothes"
  BY <1>4, ClothesKeep DEF handler
<1>5. CASE k = "EquipSkill"
  BY <1>5, SkillKeeps DEF handler
<1>6. CASE k = "GetProfiles"
  BY <1>6, ProfilesKeep DEF handler
<1>7. CASE k = "GetBackpack"
  BY <1>7, BackpackKeeps DEF handler
<1>8. CASE k \in {"EPClaimBadge", "EPPurchaseBadge", "EPPurchase", "Purchase", "ReadMail"}
  BY <1>8, PassKeeps, SameLooksKeep DEF handler
<1>9. CASE k \in {"CreateClan", "QuitClan", "DismissClan", "ModifyClanName", "ModifyClanInfo",
                  "RemoveClanMember"}
  <2>1. e \in CreateClan(d) \cup QuitClan(d) \cup DismissClan(d) \cup ModifyClanName(d)
              \cup ModifyClanInfo(d) \cup RemoveClanMember(d)
    BY <1>9 DEF handler
  <2> QED
    BY <2>1, ClanKeeps, SameLooksKeep
<1>10. CASE k = "Logout"
  BY <1>10, ModerationKeeps, SameLooksKeep DEF handler
<1> QED
  BY <1>1, <1>2, <1>3, <1>4, <1>5, <1>6, <1>7, <1>8, <1>9, <1>10 DEF Requests

\* A new account.
LEMMA DefaultDoc ==
  DEFAULT_PLAYER \in Docs /\ Dressed(DEFAULT_PLAYER) /\ DEFAULT_PLAYER.coins = StartCoins
<1>1. /\ FirstAvatar \in Avatars /\ FirstValue \in Values
      /\ StartCoins \in Nat /\ MaxBadges \in Nat
  BY DocAssumption
<1>2. /\ DefaultProfiles \in [Avatars -> Profile]
      /\ DefaultItems \in [avatar : Avatars, clothes : Values, slot : Values]
  BY <1>1 DEF DefaultProfiles, DefaultItems, Profile
<1>3. \A a \in Avatars : /\ DefaultProfiles[a].is_selected = (a = FirstAvatar)
                         /\ DefaultProfiles[a].clothes = FirstValue
  BY DEF DefaultProfiles
<1>4. NoClan \in [id : {0, 1}, name : Values, role : {"none", "captain"}, members : SUBSET {Self}]
  BY <1>1 DEF NoClan
<1>5. DEFAULT_PLAYER \in Docs
  BY <1>1, <1>2, <1>4 DEF DEFAULT_PLAYER, Docs
<1>6. /\ DEFAULT_PLAYER.coins = StartCoins /\ DEFAULT_PLAYER.profiles = DefaultProfiles
      /\ DEFAULT_PLAYER.selected = DefaultItems
  BY DEF DEFAULT_PLAYER
<1>7. selectedIn(DEFAULT_PLAYER) = {FirstAvatar}
  BY <1>1, <1>3, <1>6 DEF selectedIn
<1>8. DefaultItems.avatar = FirstAvatar /\ DefaultItems.clothes = FirstValue
  BY DEF DefaultItems
<1> QED
  BY <1>1, <1>3, <1>5, <1>6, <1>7, <1>8 DEF Dressed

--------------------------------------------------------------------------------
(* The sum of the ledger: what Earned computes, for any finite set of credited matches.  The   *)
(* fold picks its elements in a fixed order; the sum does not depend on it.                    *)

\* Induction over the numbers, for a property given as the set of those that have it.
LEMMA NumbersFrom0 ==
  ASSUME NEW S, 0 \in S, \A n \in Nat : n \in S => n + 1 \in S
  PROVE  Nat \subseteq S
<1> DEFINE T == {n \in Nat : n \notin S}
           R == OpToRel(<, Nat)
<1>1. IsWellFoundedOn(R, Nat)
  BY NatLessThanWellFounded
<1>2. \A x, y \in Nat : x < y => <<x, y>> \in R
  BY DEF OpToRel
<1> HIDE DEF R
<1> SUFFICES ASSUME T # {} PROVE FALSE
  OBVIOUS
<1>3. PICK n \in T : \A y \in T : ~(<<y, n>> \in R)
  BY <1>1, WFMin
<1>4. n \in Nat \ {0} /\ n - 1 \in Nat /\ n - 1 < n
  OBVIOUS
<1>5. n - 1 \notin T
  BY <1>2, <1>3, <1>4
<1> QED
  BY <1>4, <1>5

LEMMA OneLess ==
  ASSUME NEW s, IsFiniteSet(s), NEW x \in s
  PROVE  Cardinality(s) \in Nat /\ Cardinality(s \ {x}) = Cardinality(s) - 1
BY FS_RemoveElement, FS_CardinalityType

\* Induction over the subsets of a finite set, taking one element at a time.
LEMMA SubsetsFromEmpty ==
  ASSUME NEW S, IsFiniteSet(S), NEW G \in SUBSET SUBSET S, {} \in G,
         \A s \in SUBSET S : s # {} /\ (\A x \in s : s \ {x} \in G) => s \in G
  PROVE  SUBSET S \subseteq G
<1> DEFINE N == {n \in Nat : \A s \in SUBSET S : Cardinality(s) = n => s \in G}
<1>1. \A s \in SUBSET S : IsFiniteSet(s) /\ Cardinality(s) \in Nat
  BY FS_Subset, FS_CardinalityType
<1>2. 0 \in N
  BY <1>1, FS_EmptySet
<1>3. ASSUME NEW n \in Nat, n \in N PROVE n + 1 \in N
  <2> SUFFICES ASSUME NEW s \in SUBSET S, Cardinality(s) = n + 1 PROVE s \in G
    OBVIOUS
  <2>1. s # {}
    BY FS_EmptySet
  <2>2. ASSUME NEW x \in s PROVE s \ {x} \in G
    <3>1. Cardinality(s \ {x}) = n
      BY <1>1, OneLess
    <3> QED
      BY <1>3, <3>1
  <2> QED
    BY <2>1, <2>2
<1>4. Nat \subseteq N
  <2> HIDE DEF N
  <2> QED
    BY <1>2, <1>3, NumbersFrom0
<1> QED
  BY <1>1, <1>4

pick(s) == CHOOSE x \in s : TRUE
Adds(g, S) == g = [s \in SUBSET S |-> IF s = {} THEN 0 ELSE Award[pick(s)] + g[s \ {pick(s)}]]
iter(S) == CHOOSE g : Adds(g, S)

LEMMA SumIsIter == \A S : AwardSum(S) = iter(S)[S]
BY DEF AwardSum, MapThenSumSet, MapThenFoldSet, iter, Adds, pick

LEMMA PickIn == \A s : s # {} => pick(s) \in s
BY DEF pick

\* The same function on the subsets of at most n elements.
Upto(S, n) == {s \in SUBSET S : Cardinality(s) <= n}
AddsUpto(g, S, n) ==
  g = [s \in Upto(S, n) |-> IF s = {} THEN 0 ELSE Award[pick(s)] + g[s \ {pick(s)}]]

\* The recursion that defines the fold has a solution.
LEMMA FoldExists ==
  ASSUME NEW S, IsFiniteSet(S)
  PROVE  \E g : Adds(g, S)
<1> DEFINE N == {n \in Nat : \E g : AddsUpto(g, S, n)}
<1>1. \A s \in SUBSET S : IsFiniteSet(s) /\ Cardinality(s) \in Nat /\ Cardinality(s) <= Cardinality(S)
  BY FS_Subset, FS_CardinalityType
<1>2. 0 \in N
  <2> DEFINE g == [s \in Upto(S, 0) |-> 0]
  <2>1. \A s \in Upto(S, 0) : s = {}
    BY <1>1, FS_EmptySet DEF Upto
  <2>2. AddsUpto(g, S, 0)
    BY <2>1 DEF AddsUpto
  <2> QED
    BY <2>2
<1>3. ASSUME NEW n \in Nat, n \in N PROVE n + 1 \in N
  <2>1. PICK g : AddsUpto(g, S, n)
    BY <1>3
  <2> DEFINE h == [s \in Upto(S, n + 1) |-> IF s = {} THEN 0 ELSE Award[pick(s)] + g[s \ {pick(s)}]]
  <2>2. \A s \in Upto(S, n) : s \in Upto(S, n + 1)
    BY <1>1 DEF Upto
  <2>3. \A s \in Upto(S, n) : h[s] = g[s]
    <3>1. \A s \in Upto(S, n) : g[s] = IF s = {} THEN 0 ELSE Award[pick(s)] + g[s \ {pick(s)}]
      BY <2>1 DEF AddsUpto
    <3> QED
      BY <2>2, <3>1
  <2>4. ASSUME NEW s \in Upto(S, n + 1), s # {} PROVE s \ {pick(s)} \in Upto(S, n)
    <3>1. pick(s) \in s /\ s \in SUBSET S /\ Cardinality(s) <= n + 1
      BY <2>4, PickIn DEF Upto
    <3>2. Cardinality(s \ {pick(s)}) = Cardinality(s) - 1 /\ Cardinality(s) \in Nat
      BY <1>1, <3>1, OneLess
    <3> QED
      BY <3>1, <3>2 DEF Upto
  <2>5. AddsUpto(h, S, n + 1)
    <3>1. \A s \in Upto(S, n + 1) : s # {} => h[s \ {pick(s)}] = g[s \ {pick(s)}]
      BY <2>3, <2>4
    <3> QED
      BY <3>1 DEF AddsUpto
  <2> QED
    BY <2>5
<1>4. Nat \subseteq N
  <2> HIDE DEF N
  <2> QED
    BY <1>2, <1>3, NumbersFrom0
<1>5. PICK g : AddsUpto(g, S, Cardinality(S))
  BY <1>1, <1>4
<1>6. Upto(S, Cardinality(S)) = SUBSET S
  BY <1>1 DEF Upto
<1> QED
  BY <1>5, <1>6 DEF Adds, AddsUpto

LEMMA IterStep ==
  ASSUME NEW S, IsFiniteSet(S)
  PROVE  \A s \in SUBSET S :
           iter(S)[s] = IF s = {} THEN 0 ELSE Award[pick(s)] + iter(S)[s \ {pick(s)}]
<1> DEFINE g == iter(S)
<1>1. Adds(g, S)
  BY FoldExists DEF iter
<1> HIDE DEF g
<1>2. g = [s \in SUBSET S |-> IF s = {} THEN 0 ELSE Award[pick(s)] + g[s \ {pick(s)}]]
  BY <1>1 DEF Adds
<1>3. \A s \in SUBSET S : g[s] = IF s = {} THEN 0 ELSE Award[pick(s)] + g[s \ {pick(s)}]
  BY <1>2
<1> QED
  BY <1>3 DEF g

\* One element at a time, the one the fold picks.
LEMMA SumPick ==
  ASSUME NEW S, IsFiniteSet(S)
  PROVE  AwardSum(S) = IF S = {} THEN 0 ELSE Award[pick(S)] + AwardSum(S \ {pick(S)})
<1>1. CASE S = {}
  BY <1>1, IterStep, SumIsIter
<1>2. CASE S # {}
  <2> DEFINE T == S \ {pick(S)}
             G == {s \in SUBSET T : iter(S)[s] = iter(T)[s]}
  <2>1. IsFiniteSet(T) /\ SUBSET T \subseteq SUBSET S
    BY FS_Subset
  <2>2. \A s \in SUBSET T : iter(T)[s] = IF s = {} THEN 0 ELSE Award[pick(s)] + iter(T)[s \ {pick(s)}]
    BY <2>1, IterStep
  <2>3. \A s \in SUBSET T : iter(S)[s] = IF s = {} THEN 0 ELSE Award[pick(s)] + iter(S)[s \ {pick(s)}]
    BY <2>1, IterStep
  <2>4. {} \in G
    BY <2>2, <2>3
  <2>5. ASSUME NEW s \in SUBSET T, s # {}, \A x \in s : s \ {x} \in G PROVE s \in G
    BY <2>2, <2>3, <2>5, PickIn
  <2>6. SUBSET T \subseteq G
    <3>1. G \in SUBSET SUBSET T
      OBVIOUS
    <3> HIDE DEF G, T
    <3> QED
      BY <2>1, <2>4, <2>5, <3>1, SubsetsFromEmpty
  <2>7. iter(S)[T] = iter(T)[T]
    BY <2>6
  <2>8. iter(S)[S] = Award[pick(S)] + iter(S)[T]
    BY <1>2, IterStep
  <2> QED
    BY <1>2, <2>7, <2>8, SumIsIter
<1> QED
  BY <1>1, <1>2

LEMMA SumNat ==
  ASSUME NEW S \in SUBSET Matches, IsFiniteSet(S)
  PROVE  AwardSum(S) \in Nat
<1> DEFINE G == {s \in SUBSET S : AwardSum(s) \in Nat}
<1>1. \A s \in SUBSET S : IsFiniteSet(s)
  BY FS_Subset
<1>2. {} \in G /\ G \in SUBSET SUBSET S
  <2>1. AwardSum({}) = 0
    BY SumPick, FS_EmptySet
  <2> QED
    BY <2>1
<1>3. ASSUME NEW s \in SUBSET S, s # {}, \A x \in s : s \ {x} \in G PROVE s \in G
  <2>1. pick(s) \in s
    BY <1>3, PickIn
  <2>2. AwardSum(s) = Award[pick(s)] + AwardSum(s \ {pick(s)}) /\ Award[pick(s)] \in Nat
    BY <1>1, <1>3, <2>1, SumPick, ProfilesAssumption
  <2> QED
    BY <1>3, <2>1, <2>2
<1>4. SUBSET S \subseteq G
  <2> HIDE DEF G
  <2> QED
    BY <1>2, <1>3, SubsetsFromEmpty
<1> QED
  BY <1>4

\* Any element: the sum does not depend on the order.
LEMMA SumAny ==
  ASSUME NEW S \in SUBSET Matches, IsFiniteSet(S)
  PROVE  \A x \in S : AwardSum(S) = Award[x] + AwardSum(S \ {x})
<1> DEFINE G == {s \in SUBSET S : \A x \in s : AwardSum(s) = Award[x] + AwardSum(s \ {x})}
<1>1. \A s \in SUBSET S : IsFiniteSet(s) /\ AwardSum(s) \in Nat
  BY FS_Subset, SumNat
<1>2. \A x \in Matches : Award[x] \in Nat
  BY ProfilesAssumption
<1>3. ASSUME NEW s \in SUBSET S, s # {}, \A x \in s : s \ {x} \in G PROVE s \in G
  <2> DEFINE c == pick(s)
  <2>1. c \in s
    BY <1>3, PickIn
  <2>2. AwardSum(s) = Award[c] + AwardSum(s \ {c})
    BY <1>1, <1>3, SumPick
  <2> HIDE DEF c
  <2>3. ASSUME NEW x \in s, x # c PROVE AwardSum(s) = Award[x] + AwardSum(s \ {x})
    <3> DEFINE w == AwardSum((s \ {x}) \ {c})
    <3>1. AwardSum(s \ {c}) = Award[x] + AwardSum((s \ {c}) \ {x})
      BY <1>3, <2>1, <2>3
    <3>2. AwardSum(s \ {x}) = Award[c] + w
      BY <1>3, <2>1, <2>3
    <3>3. (s \ {c}) \ {x} = (s \ {x}) \ {c}
      OBVIOUS
    <3>4. w \in Nat /\ Award[x] \in Nat /\ Award[c] \in Nat
      BY <1>1, <1>2, <2>1
    <3>5. AwardSum(s) = Award[c] + (Award[x] + w)
      BY <2>2, <3>1, <3>3
    <3> HIDE DEF w
    <3> QED
      BY <3>2, <3>4, <3>5
  <2> QED
    BY <2>2, <2>3
<1>4. {} \in G /\ G \in SUBSET SUBSET S
  OBVIOUS
<1>5. SUBSET S \subseteq G
  <2> HIDE DEF G
  <2> QED
    BY <1>3, <1>4, SubsetsFromEmpty
<1> QED
  BY <1>5

--------------------------------------------------------------------------------
(* The account: what is stored, what requests hold, what the worker has been given. *)

LEMMA EarnedNat ==
  ASSUME IsFiniteSet(Credited)
  PROVE  Earned \in Nat
BY SumNat DEF Earned, Credited

\* A fresh row of the ledger adds its award, any other adds nothing.
LEMMA EarnedGrows ==
  ASSUME IsFiniteSet(Credited), NEW m \in Matches, NEW u, ledger' = ledger \cup {<<m, u>>}
  PROVE  /\ IsFiniteSet(Credited)' /\ Earned' \in Nat
         /\ Earned' = IF u = Self /\ <<m, u>> \notin ledger THEN Earned + Award[m] ELSE Earned
<1>1. Credited' = IF u = Self THEN Credited \cup {m} ELSE Credited
  BY DEF Credited
<1>2. IsFiniteSet(Credited')
  BY <1>1, FS_AddElement
<1>3. Earned = AwardSum(Credited) /\ Earned' = AwardSum(Credited')
  BY DEF Earned
<1>4. Credited' \in SUBSET Matches /\ Credited \in SUBSET Matches /\ Award[m] \in Nat
  BY ProfilesAssumption DEF Credited
<1>5. AwardSum(Credited') \in Nat /\ AwardSum(Credited) \in Nat
  BY <1>2, <1>4, SumNat
<1>6. CASE u = Self /\ <<m, u>> \notin ledger
  <2>1. m \in Credited' /\ Credited' \ {m} = Credited
    BY <1>1, <1>6 DEF Credited
  <2>2. AwardSum(Credited') = Award[m] + AwardSum(Credited)
    BY <1>2, <1>4, <2>1, SumAny
  <2> QED
    BY <1>2, <1>3, <1>4, <1>5, <1>6, <2>2
<1>7. CASE ~(u = Self /\ <<m, u>> \notin ledger)
  <2>1. Credited' = Credited
    BY <1>1, <1>7 DEF Credited
  <2> QED
    BY <1>2, <1>3, <1>5, <1>7, <2>1
<1> QED
  BY <1>6, <1>7

LEMMA SoundKept ==
  ASSUME NEW d, Sound(d), NEW e, Kept(d, e)
  PROVE  Sound(e)
BY DEF Sound, Kept

LEMMA SoundSame ==
  ASSUME NEW d, Sound(d), NEW e, SameLooks(d, e)
  PROVE  Sound(e)
BY SameLooksKeep, SoundKept DEF Sound

LEMMA NoDocApart == \A d : Sound(d) => d \in Docs /\ d # NoDoc
BY ProfilesAssumption DEF Sound

LEMMA SoundDefault ==
  ASSUME IsFiniteSet(Credited)
  PROVE  Sound(DEFAULT_PLAYER)
BY DefaultDoc, EarnedNat, DocAssumption DEF Sound

\* What a request or a command reads.
LEMMA SoundLoad ==
  ASSUME RowInv, IsFiniteSet(Credited), row.exists
  PROVE  Sound(loadAccount)
<1>1. row.token \in Nat \cup {NoToken} /\ (row.state # NoDoc => Sound(row.state))
  BY DEF RowInv
<1>2. \A d : Sound(d) => Sound([d EXCEPT !.token = row.token])
  BY <1>1, FieldsKeep, SoundSame DEF Sound
<1>3. CASE getRepo = "SQLite"
  <2>1. row.state # NoDoc
    BY <1>3 DEF RowInv
  <2> QED
    BY <1>1, <1>2, <1>3, <2>1 DEF loadAccount, sqliteRowToAccount
<1>4. CASE getRepo # "SQLite"
  <2> DEFINE d == IF row.state = NoDoc THEN DEFAULT_PLAYER ELSE row.state
  <2>1. Sound(d)
    BY <1>1, SoundDefault
  <2>2. loadAccount = IF row.token # NoToken THEN [d EXCEPT !.token = row.token] ELSE d
    BY <1>4 DEF loadAccount, rowToAccount
  <2> HIDE DEF d
  <2> QED
    BY <1>2, <2>1, <2>2
<1> QED
  BY <1>3, <1>4

\* The whole document and the columns derived from it.
Stored(d) == [exists |-> TRUE, token |-> d.token, nickname |-> d.nickname,
              clan_id |-> d.clan.id, state |-> d]

LEMMA SaveStores ==
  \A d : /\ saveAccount(d) <=> row' = Stored(d)
         /\ save(d) <=> row' = Stored(d)
         /\ sqliteSave(d) <=> row' = Stored(d)
BY DEF saveAccount, save, sqliteSave, denorm, Stored

\* The three things a step of a request does to the row.
RowStep ==
  \/ row' = row
  \/ \E d : Sound(d) /\ row' = Stored(d)
  \/ getRepo # "SQLite" /\ ~row.exists /\ row' = [NoRow EXCEPT !.exists = TRUE]

LEMMA StoredFields ==
  ASSUME NEW d \in Docs
  PROVE  LET r == Stored(d)
         IN  /\ r \in [exists : BOOLEAN, token : Nat \cup {NoToken}, nickname : Values,
                       clan_id : {0, 1}, state : Docs \cup {NoDoc}]
             /\ r.exists = TRUE /\ r.token = d.token /\ r.nickname = d.nickname
             /\ r.clan_id = d.clan.id /\ r.state = d
<1>1. d.token \in Nat \cup {NoToken} /\ d.nickname \in Values /\ d.clan.id \in {0, 1}
  BY DEF Docs
<1> QED
  BY <1>1 DEF Stored

LEMMA RowKeeps ==
  ASSUME RowInv, RowStep, ops' = ops, ledger' = ledger
  PROVE  /\ RowInv' /\ (row.exists => row'.exists)
         /\ row.state # NoDoc => row'.state # NoDoc
<1>1. Earned' = Earned /\ getRepo' = getRepo
  BY DEF Earned, Credited, getRepo
<1>2. CASE row' = row
  BY <1>1, <1>2 DEF RowInv, Sound, Dressed, selectedIn, ColumnsAgree
<1>3. ASSUME NEW d, Sound(d), row' = Stored(d)
      PROVE  RowInv' /\ row'.exists /\ row'.state # NoDoc
  <2>1. d \in Docs /\ d # NoDoc
    BY <1>3, NoDocApart
  <2>2. /\ row' \in [exists : BOOLEAN, token : Nat \cup {NoToken}, nickname : Values,
                     clan_id : {0, 1}, state : Docs \cup {NoDoc}]
        /\ row'.exists = TRUE /\ row'.token = d.token /\ row'.nickname = d.nickname
        /\ row'.clan_id = d.clan.id /\ row'.state = d
    BY <1>3, <2>1, StoredFields
  <2>3. Sound(row.state)'
    BY <1>1, <1>3, <2>2 DEF Sound, Dressed, selectedIn
  <2>4. ColumnsAgree'
    BY <2>2 DEF ColumnsAgree
  <2> QED
    BY <2>1, <2>2, <2>3, <2>4 DEF RowInv
<1>4. CASE getRepo # "SQLite" /\ ~row.exists /\ row' = [NoRow EXCEPT !.exists = TRUE]
  <2>1. /\ row' \in [exists : BOOLEAN, token : Nat \cup {NoToken}, nickname : Values,
                     clan_id : {0, 1}, state : Docs \cup {NoDoc}]
        /\ row'.state = NoDoc /\ row'.token = NoToken
    BY <1>4, DocAssumption DEF NoRow
  <2>2. row.state = NoDoc
    BY <1>4 DEF RowInv
  <2> QED
    BY <1>1, <1>4, <2>1, <2>2 DEF RowInv, ColumnsAgree
<1> QED
  BY <1>2, <1>3, <1>4 DEF RowStep

\* A request keeps its document while it moves on.
LEMMA GotoFlight ==
  ASSUME NEW r, InFlight(r), NEW c, Reached(c), NEW d, Sound(d),
         NEW t, t = [r EXCEPT !.pc = c, !.acc = d]
  PROVE  InFlight(t)
BY NoDocApart DEF InFlight, Reached

LEMMA IdleFlight == InFlight(Idle) /\ Idle.kind = "none" /\ "none" \notin Logins
BY DEF InFlight, Idle, Places, Reached, Logins

\* One request changes and the rest of the state stays as sound as it was.
LEMMA FlightKeeps ==
  ASSUME ProcInv, NEW p \in Procs, NEW r, InFlight(r), proc' = [proc EXCEPT ![p] = r],
         ops' = ops, ledger' = ledger, row.exists => row'.exists
  PROVE  ProcInv'
<1>1. Earned' = Earned /\ getRepo' = getRepo
  BY DEF Earned, Credited, getRepo
<1>2. \A t : InFlight(t) => InFlight(t)'
  BY <1>1 DEF InFlight, Reached, Sound, Dressed, selectedIn
<1>3. DOMAIN proc' = Procs /\ \A q \in Procs : InFlight(proc'[q])
  BY DEF ProcInv
<1> QED
  BY <1>2, <1>3 DEF ProcInv

\* The worker's part does not notice.
LEMMA SettleFrame ==
  ASSUME SettleInv, UNCHANGED settle, row.state # NoDoc => row'.state # NoDoc
  PROVE  SettleInv'
BY DEF SettleInv, settle, Credited

LEMMA FewLogins ==
  ASSUME DOMAIN proc = Procs
  PROVE  IsFiniteSet(LoggingIn) /\ Cardinality(LoggingIn) \in Nat
BY FS_Subset, FS_CardinalityType, ProfilesAssumption DEF LoggingIn

\* A request that moves on or ends is no new login.
LEMMA CountKeeps ==
  ASSUME CountInv, DOMAIN proc = Procs, NEW p \in Procs, NEW r, proc' = [proc EXCEPT ![p] = r],
         r.kind \in {proc[p].kind, "none"}, issued' = issued, faults' \in 0..MaxFaults,
         social' \in Lists
  PROVE  CountInv'
<1>1. LoggingIn' \in SUBSET LoggingIn
  BY DEF LoggingIn, Logins
<1>2. Cardinality(LoggingIn') \in Nat /\ Cardinality(LoggingIn') <= Cardinality(LoggingIn)
  BY <1>1, FewLogins, FS_Subset, FS_CardinalityType
<1> QED
  BY <1>2, FewLogins, ProfilesAssumption DEF CountInv

\* A login that is served makes room for the token it got.
LEMMA CountToken ==
  ASSUME CountInv, DOMAIN proc = Procs, NEW p \in Procs, proc' = [proc EXCEPT ![p] = Idle],
         proc[p].kind \in Logins, issued' = issued + 1, faults' = faults, social' = social
  PROVE  CountInv'
<1>1. LoggingIn' = LoggingIn \ {p} /\ p \in LoggingIn
  BY IdleFlight DEF LoggingIn
<1>2. Cardinality(LoggingIn') = Cardinality(LoggingIn) - 1
  BY <1>1, FewLogins, OneLess
<1> QED
  BY <1>2, FewLogins, ProfilesAssumption DEF CountInv

\* A login arrives within the bound on tokens.
LEMMA CountArrive ==
  ASSUME CountInv, DOMAIN proc = Procs, NEW p \in Procs, NEW r, proc' = [proc EXCEPT ![p] = r],
         r.kind \in Logins => issued + Cardinality(LoggingIn) < MaxTokens,
         UNCHANGED <<issued, faults, social>>
  PROVE  CountInv'
<1>1. CASE r.kind \in Logins
  <2>1. LoggingIn' = LoggingIn \cup {p}
    BY <1>1 DEF LoggingIn
  <2>2. Cardinality(LoggingIn') = IF p \in LoggingIn THEN Cardinality(LoggingIn)
                                  ELSE Cardinality(LoggingIn) + 1
    BY <2>1, FewLogins, FS_AddElement
  <2> QED
    BY <1>1, <2>2, FewLogins, ProfilesAssumption DEF CountInv
<1>2. CASE r.kind \notin Logins
  <2>1. LoggingIn' \in SUBSET LoggingIn
    BY <1>2 DEF LoggingIn
  <2>2. Cardinality(LoggingIn') \in Nat /\ Cardinality(LoggingIn') <= Cardinality(LoggingIn)
    BY <2>1, FewLogins, FS_Subset, FS_CardinalityType
  <2> QED
    BY <2>2, FewLogins, ProfilesAssumption DEF CountInv
<1> QED
  BY <1>1, <1>2

\* A step of a request: one row written or none, and the request moves on or ends.
LEMMA RequestStep ==
  ASSUME AccountInv, RowStep, NEW p \in Procs, NEW r, InFlight(r), proc' = [proc EXCEPT ![p] = r],
         r.kind \in {proc[p].kind, "none"}, ops' = ops, issued' = issued,
         faults' \in 0..MaxFaults, social' \in Lists, UNCHANGED settle
  PROVE  AccountInv'
<1>1. ledger' = ledger /\ DOMAIN proc = Procs
  BY DEF settle, AccountInv, ProcInv
<1>2. /\ RowInv' /\ (row.exists => row'.exists)
      /\ row.state # NoDoc => row'.state # NoDoc
  BY <1>1, RowKeeps DEF AccountInv
<1>3. ProcInv'
  BY <1>1, <1>2, FlightKeeps DEF AccountInv
<1>4. CountInv'
  BY <1>1, CountKeeps DEF AccountInv
<1>5. SettleInv'
  BY <1>2, SettleFrame DEF AccountInv
<1> QED
  BY <1>2, <1>3, <1>4, <1>5 DEF AccountInv

LEMMA EndStep ==
  ASSUME AccountInv, RowStep, NEW p \in Procs, End(p), ops' = ops, issued' = issued,
         faults' \in 0..MaxFaults, social' \in Lists, UNCHANGED settle
  PROVE  AccountInv'
BY IdleFlight, RequestStep DEF End

LEMMA GotoStep ==
  ASSUME AccountInv, RowStep, NEW p \in Procs, NEW c, Reached(c), NEW d, Sound(d), Goto(p, c, d),
         ops' = ops, issued' = issued, faults' \in 0..MaxFaults, social' \in Lists, UNCHANGED settle
  PROVE  AccountInv'
<1>1. PICK r : r = proc[p]
  OBVIOUS
<1>2. PICK t : t = [r EXCEPT !.pc = c, !.acc = d]
  OBVIOUS
<1>3. InFlight(r)
  BY <1>1 DEF AccountInv, ProcInv
<1>4. proc' = [proc EXCEPT ![p] = t]
  BY <1>1, <1>2 DEF Goto, AccountInv, ProcInv
<1>5. InFlight(t)
  BY <1>2, <1>3, GotoFlight
<1>6. t.kind = r.kind
  BY <1>2, <1>3 DEF InFlight
<1> QED
  BY <1>1, <1>4, <1>5, <1>6, RequestStep

\* What every step finds.
LEMMA Found ==
  ASSUME AccountInv
  PROVE  /\ IsFiniteSet(Credited) /\ faults \in 0..MaxFaults /\ social \in Lists
         /\ \A p \in Procs : /\ InFlight(proc[p])
                             /\ proc[p].pc \notin {"idle", "start"} => Sound(proc[p].acc)
         /\ row.exists => Sound(loadAccount)
         /\ row.token # NoToken => row.exists
         /\ row.state # NoDoc => Sound(row.state)
BY SoundLoad DEF AccountInv, SettleInv, CountInv, ProcInv, InFlight, RowInv

LEMMA ArriveStep ==
  ASSUME AccountInv, NEW p \in Procs, Arrive(p)
  PROVE  AccountInv'
<1>1. PICK k \in ops \ {"settle", "sqlite"} :
        /\ k \in Logins => issued + Cardinality(LoggingIn) < MaxTokens
        /\ proc' = [proc EXCEPT ![p] = [Idle EXCEPT !.kind = k, !.pc = "start",
                                                    !.early = (auth.done # "ban")]]
  BY DEF Arrive, LoggingIn
<1> DEFINE b == auth.done # "ban"
           t == [Idle EXCEPT !.kind = k, !.pc = "start", !.early = b]
<1>2. b \in BOOLEAN
  OBVIOUS
<1> HIDE DEF b
<1>3. InFlight(t) /\ t.kind = k
  BY <1>2 DEF InFlight, Idle, Places, Reached
<1>4. proc' = [proc EXCEPT ![p] = t]
  BY <1>1 DEF b
<1> HIDE DEF t
<1>5. /\ row' = row /\ ops' = ops /\ ledger' = ledger /\ UNCHANGED settle
      /\ UNCHANGED <<issued, faults, social>> /\ DOMAIN proc = Procs
  BY DEF Arrive, db, settle, AccountInv, ProcInv
<1>6. RowInv'
  BY <1>5, RowKeeps DEF AccountInv, RowStep
<1>7. ProcInv'
  BY <1>3, <1>4, <1>5, FlightKeeps DEF AccountInv
<1>8. CountInv'
  BY <1>1, <1>3, <1>4, <1>5, CountArrive DEF AccountInv
<1>9. SettleInv'
  BY <1>5, SettleFrame DEF AccountInv
<1> QED
  BY <1>6, <1>7, <1>8, <1>9 DEF AccountInv

\* Reading the account.
LEMMA ReadSteps ==
  ASSUME AccountInv, NEW p \in Procs, routerAuth(p) \/ loginLookup(p) \/ adminLoad(p)
  PROVE  AccountInv'
<1>1. /\ row' = row /\ ops' = ops /\ issued' = issued /\ faults' = faults /\ social' = social
      /\ UNCHANGED settle
  BY DEF routerAuth, loginLookup, adminLoad, db
<1>2. RowStep
  BY <1>1 DEF RowStep
<1>3. CASE End(p)
  BY <1>1, <1>2, <1>3, EndStep, Found
<1>4. ASSUME row.exists, NEW c \in {"loaded", "ban", "token"}, Goto(p, c, loadAccount)
      PROVE  AccountInv'
  BY <1>1, <1>2, <1>4, GotoStep, Found DEF Places, Reached
<1> QED
  BY <1>3, <1>4, Found DEF routerAuth, loginLookup, adminLoad, reject

\* A handler and its save.
LEMMA RouterSaveStep ==
  ASSUME AccountInv, NEW p \in Procs, routerSave(p)
  PROVE  AccountInv'
<1>1. /\ ops' = ops /\ issued' = issued /\ faults' = faults /\ social' = social
      /\ UNCHANGED settle /\ End(p) /\ proc[p].pc = "loaded" /\ proc[p].kind \in Requests
  BY DEF routerSave, At
<1>2. Sound(proc[p].acc)
  BY <1>1, Found
<1>3. RowStep
  <2>1. CASE row' = row
    BY <2>1 DEF RowStep
  <2>2. CASE \E d \in handler(proc[p].kind, proc[p].acc) : saveAccount(d)
    <3>1. PICK d \in handler(proc[p].kind, proc[p].acc) : saveAccount(d)
      BY <2>2
    <3>2. Sound(d)
      BY <1>1, <1>2, RequestKeepsDoc, SoundKept DEF Sound
    <3> QED
      BY <3>1, <3>2, SaveStores DEF RowStep
  <2> QED
    BY <2>1, <2>2 DEF routerSave
<1> QED
  BY <1>1, <1>3, EndStep, Found

\* The ban gates.
LEMMA GateSteps ==
  ASSUME AccountInv, NEW p \in Procs, loginCheckBan(p) \/ GetLoginData(p) \/ sendLoginData(p)
  PROVE  AccountInv'
<1>1. /\ row' = row /\ ops' = ops /\ issued' = issued /\ social' = social /\ UNCHANGED settle
      /\ proc[p].pc \notin {"idle", "start"}
  BY DEF loginCheckBan, GetLoginData, sendLoginData, db, At
<1>2. RowStep
  BY <1>1 DEF RowStep
<1>3. InFlight(proc[p]) /\ Sound(proc[p].acc) /\ faults \in 0..MaxFaults /\ social \in Lists
  BY <1>1, Found
<1>4. CASE End(p) /\ faults' = faults
  BY <1>1, <1>2, <1>3, <1>4, EndStep
<1>5. ASSUME NEW c \in {"token", "lobby"}, Goto(p, c, proc[p].acc), faults' = faults
      PROVE  AccountInv'
  BY <1>1, <1>2, <1>3, <1>5, GotoStep DEF Places, Reached
<1>6. ASSUME NEW c \in {"token", "lobby"}, faults < MaxFaults, faults' = faults + 1,
             proc' = [proc EXCEPT ![p].pc = c, ![p].early = TRUE]
      PROVE  AccountInv'
  <2> DEFINE t == [proc[p] EXCEPT !.pc = c, !.early = TRUE]
  <2>1. proc' = [proc EXCEPT ![p] = t]
    BY <1>6 DEF AccountInv, ProcInv
  <2>2. InFlight(t) /\ t.kind = proc[p].kind
    BY <1>3, NoDocApart DEF InFlight, Reached, Places
  <2> HIDE DEF t
  <2>3. faults' \in 0..MaxFaults
    BY <1>3, <1>6, ProfilesAssumption
  <2> QED
    BY <1>1, <1>2, <1>3, <2>1, <2>2, <2>3, RequestStep
<1> QED
  BY <1>4, <1>5, <1>6 DEF loginCheckBan, GetLoginData, sendLoginData, checkBan, reject

\* A login is served: the document it read earlier is written back with a new token.
LEMMA TokenStep ==
  ASSUME AccountInv, NEW p \in Procs, loginSave(p)
  PROVE  AccountInv'
<1>1. /\ ops' = ops /\ issued' = issued + 1 /\ faults' = faults /\ social' = social
      /\ UNCHANGED settle /\ End(p) /\ proc[p].pc = "token" /\ proc[p].kind \in Logins
      /\ saveAccount([proc[p].acc EXCEPT !.token = issued + 1])
  BY DEF loginSave, At
<1>2. issued + 1 \in Nat /\ Sound(proc[p].acc)
  BY <1>1, Found DEF AccountInv, CountInv
<1>3. RowStep
  BY <1>1, <1>2, FieldsKeep, SoundSame, SaveStores DEF RowStep, Sound
<1>4. ledger' = ledger /\ DOMAIN proc = Procs /\ proc' = [proc EXCEPT ![p] = Idle]
  BY <1>1 DEF settle, AccountInv, ProcInv, End
<1>5. /\ RowInv' /\ (row.exists => row'.exists)
      /\ row.state # NoDoc => row'.state # NoDoc
  BY <1>1, <1>3, <1>4, RowKeeps DEF AccountInv
<1>6. ProcInv'
  BY <1>1, <1>4, <1>5, IdleFlight, FlightKeeps DEF AccountInv
<1>7. CountInv'
  BY <1>1, <1>4, CountToken DEF AccountInv
<1>8. SettleInv'
  BY <1>1, <1>5, SettleFrame DEF AccountInv
<1> QED
  BY <1>5, <1>6, <1>7, <1>8 DEF AccountInv

\* Registration, with or without an account.
LEMMA RegisterLookupStep ==
  ASSUME AccountInv, NEW p \in Procs, registerLookup(p)
  PROVE  AccountInv'
<1> DEFINE c == IF getRepo = "SQLite" THEN "create" ELSE IF row.exists THEN "refresh" ELSE "insert"
           d == IF row.exists THEN loadAccount ELSE DEFAULT_PLAYER
<1>1. /\ row' = row /\ ops' = ops /\ issued' = issued /\ social' = social /\ UNCHANGED settle
      /\ (faults' = faults \/ (faults < MaxFaults /\ faults' = faults + 1))
  BY DEF registerLookup, db
<1>a. faults' \in 0..MaxFaults
  BY <1>1, Found, ProfilesAssumption
<1>2. RowStep
  BY <1>1 DEF RowStep
<1>3. Reached(c)
  BY DEF Places, Reached
<1>4. Sound(d)
  BY Found, SoundDefault
<1>5. End(p) \/ Goto(p, c, d)
  BY DEF registerLookup, reject
<1> HIDE DEF c, d
<1> QED
  BY <1>1, <1>2, <1>3, <1>4, <1>5, <1>a, EndStep, GotoStep, Found

LEMMA RegisterInsertStep ==
  ASSUME AccountInv, NEW p \in Procs, registerInsert(p)
  PROVE  AccountInv'
<1>1. /\ ops' = ops /\ issued' = issued /\ social' = social /\ UNCHANGED settle
      /\ faults' = faults /\ proc[p].pc = "insert"
  BY DEF registerInsert, At
<1>2. getRepo # "SQLite"
  BY <1>1, Found DEF InFlight, Reached
<1>3. CASE row.exists
  BY <1>1, <1>3, EndStep, Found DEF registerInsert, RowStep
<1>4. CASE ~row.exists
  <2>1. RowStep /\ Goto(p, "fill", DEFAULT_PLAYER)
    BY <1>2, <1>4 DEF registerInsert, RowStep
  <2> QED
    BY <1>1, <2>1, GotoStep, SoundDefault, Found DEF Places, Reached
<1> QED
  BY <1>3, <1>4

LEMMA RegisterSaveSteps ==
  ASSUME AccountInv, NEW p \in Procs,
         sqliteCreateFromLogin(p) \/ registerRefresh(p) \/ registerSave(p)
  PROVE  AccountInv'
<1>1. /\ ops' = ops /\ issued' = issued /\ social' = social /\ UNCHANGED settle
      /\ faults' = faults /\ proc[p].pc \in {"create", "refresh", "fill"} /\ End(p)
  BY DEF sqliteCreateFromLogin, registerRefresh, registerSave, At
<1>2. ASSUME NEW d, Sound(d), NEW v \in Values
      PROVE  save([d EXCEPT !.nickname = v]) \/ sqliteSave([d EXCEPT !.nickname = v]) => RowStep
  BY <1>2, FieldsKeep, SoundSame, SaveStores DEF RowStep, Sound
<1>3. CASE registerRefresh(p) \/ registerSave(p)
  <2>1. RowStep
    BY <1>1, <1>2, <1>3, Found DEF registerRefresh, registerSave
  <2> QED
    BY <1>1, <2>1, EndStep, Found
<1>4. CASE sqliteCreateFromLogin(p)
  <2>1. PICK v \in Values :
          sqliteSave([(IF row.exists THEN sqliteRowToAccount ELSE DEFAULT_PLAYER) EXCEPT !.nickname = v])
    BY <1>4 DEF sqliteCreateFromLogin
  <2>2. CASE ~row.exists
    BY <1>1, <1>2, <2>1, <2>2, EndStep, SoundDefault, Found
  <2>3. CASE row.exists
    <3>1. proc[p].pc = "create"
      BY <1>4 DEF sqliteCreateFromLogin, At
    <3>2. getRepo = "SQLite"
      BY <3>1, Found DEF InFlight, Reached
    <3>3. Sound(sqliteRowToAccount)
      BY <2>3, <3>2, Found DEF loadAccount
    <3> QED
      BY <1>1, <1>2, <2>1, <2>3, <3>3, EndStep, Found
  <2> QED
    BY <2>2, <2>3
<1> QED
  BY <1>3, <1>4

\* The operator's commands.
LEMMA AdminStep ==
  ASSUME AccountInv, NEW p \in Procs, adminSave(p) \/ setAuthBan(p)
  PROVE  AccountInv'
<1>1. /\ ops' = ops /\ issued' = issued /\ social' = social /\ UNCHANGED settle /\ faults' = faults
      /\ proc[p].pc \in {"loaded", "auth"}
  BY DEF adminSave, setAuthBan, At
<1>2. Sound(proc[p].acc)
  BY <1>1, Found
<1>3. CASE setAuthBan(p)
  BY <1>1, <1>3, EndStep, Found DEF setAuthBan, RowStep
<1>4. CASE adminSave(p)
  <2> DEFINE k == proc[p].kind
             d == proc[p].acc
             docs == CASE k = "setNickname" -> setNickname(d) [] k = "setRole" -> setRole(d)
                       [] k = "ban" -> banDoc(d) [] OTHER -> unbanDoc(d)
  <2>1. \A e \in docs : e \in setNickname(d) \cup setRole(d) \cup banDoc(d) \cup unbanDoc(d)
    OBVIOUS
  <2>2. \A e \in docs : Sound(e)
    <3> HIDE DEF docs, d
    <3>1. Sound(d) /\ d \in Docs
      BY <1>2 DEF d, Sound
    <3> QED
      BY <2>1, <3>1, ModerationKeeps, SoundSame
  <2>3. IF docs = {} THEN UNCHANGED row ELSE \E e \in docs : saveAccount(e)
    BY <1>4 DEF adminSave
  <2> HIDE DEF docs
  <2>4. RowStep
    BY <2>2, <2>3, SaveStores DEF RowStep
  <2>5. End(p) \/ Goto(p, "auth", d)
    BY <1>4 DEF adminSave
  <2> QED
    BY <1>1, <1>2, <2>4, <2>5, EndStep, GotoStep, Found DEF Places, Reached
<1> QED
  BY <1>3, <1>4

\* Every operation of the repository leaves lists of players.
LEMMA HandlerLists ==
  ASSUME NEW s \in Lists, NEW k \in FriendOps,
         NEW a \in People, NEW b \in People, NEW c \in People
  PROVE  friendHandler(k, s, a, b, c) \in Lists
<1>1. \A x, y \in People : addRequest(s, x, y) \in Lists
  BY DEF addRequest, Lists
<1>2. \A x, y \in People : addFriendship(s, x, y) \in Lists
  <2> SUFFICES ASSUME NEW x \in People, NEW y \in People, x # y PROVE addFriendship(s, x, y) \in Lists
    BY DEF addFriendship
  <2> DEFINE t == [s EXCEPT !.friends[x] = @ \cup {y}, !.friends[y] = @ \cup {x},
                            !.requests[x] = @ \ {y}, !.requests[y] = @ \ {x}]
  <2>1. t \in Lists
    BY DEF Lists
  <2>2. addFriendship(s, x, y) = t
    BY DEF addFriendship
  <2> QED
    BY <2>1, <2>2
<1>3. \A x, y \in People : removeRequest(s, x, y) \in Lists
  BY DEF removeRequest, Lists
<1>4. \A x, y \in People : removeFriendship(s, x, y) \in Lists
  BY DEF removeFriendship, Lists
<1> QED
  BY <1>1, <1>2, <1>3, <1>4 DEF friendHandler, RequestAddingFriend, ConfirmFriendRequest,
     DeclineFriendRequest, RemoveFriend, FriendOps

LEMMA ListsTyped ==
  ASSUME AccountInv
  PROVE  lists \in Lists
<1>1. CASE getRepo = "SQLite" /\ row.state # NoDoc
  <2>1. row.state.friends \in SUBSET People /\ row.state.requests \in SUBSET People
    BY <1>1, Found DEF Sound, Docs
  <2> QED
    BY <1>1, <2>1, Found, ProfilesAssumption DEF lists, Lists
<1>2. CASE ~(getRepo = "SQLite" /\ row.state # NoDoc)
  BY <1>2, Found DEF lists
<1> QED
  BY <1>1, <1>2

\* Writing the lists: tables, or the other's lists and the document.
LEMMA StoreKeeps ==
  ASSUME AccountInv, row.exists, NEW s \in Lists, storeLists(s)
  PROVE  social' \in Lists /\ RowStep
<1>1. CASE getRepo = "SQLite"
  <2>1. s.friends[Self] \in SUBSET People /\ s.requests[Self] \in SUBSET People
    BY ProfilesAssumption DEF Lists
  <2>2. social' \in Lists
    <3> DEFINE t == [s EXCEPT !.friends[Self] = {}, !.requests[Self] = {}]
    <3>1. t \in Lists
      BY DEF Lists
    <3>2. social' = t
      BY <1>1 DEF storeLists
    <3> QED
      BY <3>1, <3>2
  <2>3. Sound(sqliteRowToAccount)
    BY <1>1, Found DEF loadAccount
  <2>4. Sound([sqliteRowToAccount EXCEPT !.friends = s.friends[Self], !.requests = s.requests[Self]])
    BY <2>1, <2>3, FieldsKeep, SoundSame DEF Sound
  <2> QED
    BY <1>1, <2>2, <2>4, SaveStores DEF storeLists, RowStep
<1>2. CASE getRepo # "SQLite"
  BY <1>2 DEF storeLists, RowStep
<1> QED
  BY <1>1, <1>2

LEMMA FriendStep ==
  ASSUME AccountInv, NEW p \in Procs, friendRequest(p)
  PROVE  AccountInv'
<1>1. /\ ops' = ops /\ issued' = issued /\ UNCHANGED settle /\ faults' = faults /\ End(p)
      /\ proc[p].pc = "loaded" /\ proc[p].kind \in FriendOps
  BY DEF friendRequest, At
<1>2. PICK you, adder \in People : storeLists(friendHandler(proc[p].kind, lists, Self, you, adder))
  BY DEF friendRequest
<1>3. friendHandler(proc[p].kind, lists, Self, you, adder) \in Lists
  BY <1>1, ListsTyped, HandlerLists, ProfilesAssumption
<1>4. row.exists
  BY <1>1, Found DEF InFlight, Reached
<1> QED
  BY <1>1, <1>2, <1>3, <1>4, StoreKeeps, EndStep, Found

\* The requests stay as they are when nobody's ends.
LEMMA FlightFrame ==
  ASSUME ProcInv, proc' = proc, ops' = ops, Earned \in Nat, Earned' \in Nat, Earned <= Earned',
         row.exists => row'.exists
  PROVE  ProcInv'
<1>1. getRepo' = getRepo
  BY DEF getRepo
<1>2. \A d : Sound(d) => Sound(d)'
  BY DocAssumption DEF Sound, Dressed, selectedIn, Docs
<1>3. \A r : InFlight(r) => InFlight(r)'
  BY <1>1, <1>2 DEF InFlight, Reached
<1> QED
  BY <1>3 DEF ProcInv

LEMMA CountFrame ==
  ASSUME CountInv, proc' = proc, issued' = issued, faults' \in 0..MaxFaults, social' \in Lists
  PROVE  CountInv'
<1>1. LoggingIn' = LoggingIn
  BY DEF LoggingIn
<1> QED
  BY <1>1 DEF CountInv

LEMMA OthersStep ==
  ASSUME AccountInv, NEW u \in People, othersFriendRequest(u)
  PROVE  AccountInv'
<1>1. /\ ops' = ops /\ issued' = issued /\ UNCHANGED settle /\ faults' = faults /\ proc' = proc
      /\ row.exists /\ ledger' = ledger
  BY DEF othersFriendRequest, settle
<1>2. PICK k \in FriendOps \cap ops, adder \in People :
        storeLists(friendHandler(k, lists, u, Self, adder))
  BY DEF othersFriendRequest
<1>3. friendHandler(k, lists, u, Self, adder) \in Lists
  BY ListsTyped, HandlerLists, ProfilesAssumption
<1>4. social' \in Lists /\ RowStep
  BY <1>1, <1>2, <1>3, StoreKeeps
<1>5. /\ RowInv' /\ (row.exists => row'.exists)
      /\ row.state # NoDoc => row'.state # NoDoc
  BY <1>1, <1>4, RowKeeps DEF AccountInv
<1>6. Earned' = Earned /\ Earned \in Nat
  BY <1>1, Found, EarnedNat DEF Earned, Credited
<1>7. ProcInv'
  BY <1>1, <1>5, <1>6, FlightFrame DEF AccountInv
<1>8. CountInv'
  BY <1>1, <1>4, CountFrame, Found DEF AccountInv
<1>9. SettleInv'
  BY <1>1, <1>5, SettleFrame DEF AccountInv
<1> QED
  BY <1>5, <1>7, <1>8, <1>9 DEF AccountInv

LEMMA FailStep ==
  ASSUME AccountInv, NEW p \in Procs, requestFails(p)
  PROVE  AccountInv'
<1>1. /\ row' = row /\ ops' = ops /\ issued' = issued /\ social' = social /\ UNCHANGED settle
      /\ End(p) /\ faults < MaxFaults /\ faults' = faults + 1
  BY DEF requestFails, db
<1>2. faults' \in 0..MaxFaults
  BY <1>1, Found, ProfilesAssumption
<1> QED
  BY <1>1, <1>2, EndStep, Found DEF RowStep

\* The settlement never touches requests, lists and tokens.
LEMMA WorkerStep ==
  ASSUME AccountInv, SettleInv', UNCHANGED <<ops, proc, issued, social>>, faults' \in 0..MaxFaults,
         \/ row' = row /\ ledger' = ledger
         \/ RowInv' /\ row'.exists = row.exists /\ Earned' \in Nat /\ Earned <= Earned'
  PROVE  AccountInv'
<1>1. CASE row' = row /\ ledger' = ledger
  <2>1. RowInv'
    BY <1>1, RowKeeps DEF AccountInv, RowStep
  <2>2. Earned' = Earned /\ Earned \in Nat
    BY <1>1, Found, EarnedNat DEF Earned, Credited
  <2> QED
    BY <1>1, <2>1, <2>2, FlightFrame, CountFrame, Found DEF AccountInv
<1>2. CASE RowInv' /\ row'.exists = row.exists /\ Earned' \in Nat /\ Earned <= Earned'
  BY <1>2, FlightFrame, CountFrame, EarnedNat, Found DEF AccountInv
<1> QED
  BY <1>1, <1>2

LEMMA PublishStep ==
  ASSUME AccountInv, NEW m \in Matches, publishResult(m)
  PROVE  AccountInv'
<1>1. /\ stream' = Append(stream, m) /\ row.state # NoDoc
      /\ UNCHANGED <<ops, row, proc, issued, social, group, worker, ledger, faults>>
  BY DEF publishResult, db
<1>2. stream' \in Seq(Matches) /\ Len(stream') = Len(stream) + 1 /\ Len(stream) \in Nat
  BY <1>1 DEF AccountInv, SettleInv
<1>3. group' \in [last : 0..Len(stream'), pending : SUBSET (1..Len(stream'))]
      /\ group'.pending \subseteq 1..group'.last
  <2>1. group \in [last : 0..Len(stream), pending : SUBSET (1..Len(stream))]
        /\ group.pending \subseteq 1..group.last
    BY DEF AccountInv, SettleInv
  <2>2. 0..Len(stream) \subseteq 0..Len(stream') /\ 1..Len(stream) \subseteq 1..Len(stream')
    BY <1>2
  <2> QED
    BY <1>1, <2>1, <2>2
<1>4. SettleInv'
  BY <1>1, <1>2, <1>3 DEF AccountInv, SettleInv, Credited
<1> QED
  BY <1>1, <1>4, WorkerStep, Found

\* What XREADGROUP returns has not been given to anybody.
LEMMA SubscribeStep ==
  ASSUME AccountInv, subscribeStream
  PROVE  AccountInv'
<1> DEFINE n == Min({group.last + Batch, Len(stream)})
           new == [i \in 1..(n - group.last) |-> group.last + i]
<1>1. /\ worker' = [batch |-> new, next |-> 1]
      /\ group' = [last |-> n, pending |-> group.pending \cup Range(new)]
      /\ group.last < Len(stream)
      /\ UNCHANGED <<ops, row, proc, issued, social, stream, ledger, faults>>
  BY DEF subscribeStream, db
<1>2. /\ group.last \in Nat /\ Len(stream) \in Nat /\ Batch \in Nat \ {0}
      /\ group.pending \subseteq 1..group.last /\ Len(Roster) \in Nat
  BY ProfilesAssumption DEF AccountInv, SettleInv
<1>3. n \in Nat /\ group.last < n /\ n <= Len(stream)
  <2>1. n \in {group.last + Batch, Len(stream)}
    <3>1. \E x \in {group.last + Batch, Len(stream)} :
            \A y \in {group.last + Batch, Len(stream)} : x <= y
      BY <1>2
    <3> QED
      BY <3>1 DEF Min
  <2>2. \A y \in {group.last + Batch, Len(stream)} : n <= y
    <3>1. \E x \in {group.last + Batch, Len(stream)} :
            \A y \in {group.last + Batch, Len(stream)} : x <= y
      BY <1>2
    <3> QED
      BY <3>1 DEF Min
  <2> HIDE DEF n
  <2> QED
    BY <1>1, <1>2, <2>1, <2>2
<1> HIDE DEF n
<1>4. n - group.last \in Nat
  BY <1>2, <1>3
<1>5. DOMAIN new = 1..(n - group.last) /\ \A i \in DOMAIN new : new[i] = group.last + i
  OBVIOUS
<1>6. new \in Seq(Nat) /\ \A i \in DOMAIN new : new[i] \in 1..n /\ new[i] \in Range(new)
  <2>1. PICK k \in Nat : k = n - group.last
    BY <1>4
  <2>2. \A i \in 1..k : group.last + i \in Nat /\ group.last + i \in 1..n
    BY <1>2, <1>3, <2>1
  <2>3. new \in [1..k -> Nat]
    BY <2>1, <2>2
  <2>4. new \in Seq(Nat)
    BY <2>1, <2>3
  <2>5. \A i \in DOMAIN new : new[i] \in 1..n
    BY <1>5, <2>1, <2>2
  <2> QED
    BY <2>4, <2>5 DEF Range
<1>7. \A i, j \in DOMAIN new : new[i] = new[j] => i = j
  BY <1>2, <1>4, <1>5
<1>8. Range(new) \subseteq 1..n
  BY <1>6 DEF Range
<1> HIDE DEF new
<1>9. group' \in [last : 0..Len(stream'), pending : SUBSET (1..Len(stream'))]
      /\ group'.pending \subseteq 1..group'.last /\ Range(new) \subseteq group'.pending
  <2>1. group.pending \subseteq 1..n /\ 1..n \subseteq 1..Len(stream) /\ n \in 0..Len(stream)
    BY <1>2, <1>3
  <2>2. group'.last = n /\ group'.pending = group.pending \cup Range(new)
    BY <1>1
  <2> QED
    BY <1>1, <1>8, <2>1, <2>2
<1>10. worker'.batch = new /\ worker'.next = 1
       /\ worker' \in [batch : Seq(Nat), next : 1..(Len(Roster) + 1)]
  BY <1>1, <1>2, <1>6
<1>11. SettleInv'
  <2>1. \A i \in DOMAIN worker'.batch : worker'.batch[i] \in group'.pending
    BY <1>6, <1>9, <1>10
  <2>2. \A i, j \in DOMAIN worker'.batch : worker'.batch[i] = worker'.batch[j] => i = j
    BY <1>7, <1>10
  <2>3. stream' \in Seq(Matches) /\ (stream' # <<>> => row'.state # NoDoc)
        /\ IsFiniteSet(Credited)' /\ ledger' \subseteq Matches \X Range(Roster)
    BY <1>1 DEF AccountInv, SettleInv, Credited
  <2> QED
    BY <1>9, <1>10, <2>1, <2>2, <2>3 DEF SettleInv
<1> QED
  BY <1>1, <1>11, WorkerStep, Found

\* One player of one result: the row gains what the ledger gains.
LEMMA SettleStep ==
  ASSUME AccountInv, handleMatchResult
  PROVE  AccountInv'
<1> DEFINE m == stream[Head(worker.batch)]
           u == Roster[worker.next]
<1>1. /\ worker.batch # <<>> /\ worker.next <= Len(Roster) /\ settleMatchResult(m, u)
      /\ worker' = [worker EXCEPT !.next = @ + 1]
      /\ UNCHANGED <<ops, proc, issued, social, stream, group, faults>>
  BY DEF handleMatchResult
<1>2. /\ worker \in [batch : Seq(Nat), next : 1..(Len(Roster) + 1)] /\ Len(Roster) \in Nat
      /\ stream \in Seq(Matches) /\ group.pending \subseteq 1..Len(stream)
      /\ IsFiniteSet(Credited)
  BY ProfilesAssumption DEF AccountInv, SettleInv
<1>3. Head(worker.batch) \in 1..Len(stream)
  <2>1. 1 \in DOMAIN worker.batch /\ Head(worker.batch) = worker.batch[1]
    BY <1>1, <1>2
  <2> QED
    BY <1>2, <2>1 DEF AccountInv, SettleInv
<1>4. m \in Matches /\ stream # <<>>
  BY <1>2, <1>3
<1>5. u \in Range(Roster)
  BY <1>1, <1>2, ProfilesAssumption DEF Range
<1> HIDE DEF m, u
<1>6. row.state # NoDoc /\ Sound(row.state) /\ RowInv /\ Award[m] \in Nat
  BY <1>4, Found, ProfilesAssumption DEF AccountInv, SettleInv
<1>7. ledger' = ledger \cup {<<m, u>>}
      /\ row' = IF u = Self /\ <<m, u>> \notin ledger
                THEN [row EXCEPT !.state.coins = @ + Award[m]] ELSE row
  BY <1>1 DEF settleMatchResult
<1>8. /\ IsFiniteSet(Credited)' /\ Earned' \in Nat /\ Earned \in Nat
      /\ Earned' = IF u = Self /\ <<m, u>> \notin ledger THEN Earned + Award[m] ELSE Earned
  BY <1>2, <1>4, <1>7, EarnedGrows, EarnedNat
<1>9. Earned <= Earned'
  BY <1>6, <1>8
<1>10. RowInv' /\ row'.exists = row.exists /\ row'.state # NoDoc
  <2>1. CASE ~(u = Self /\ <<m, u>> \notin ledger)
    <3>1. row' = row /\ Earned' = Earned /\ ops' = ops
      BY <1>1, <1>7, <1>8, <2>1
    <3> QED
      BY <1>6, <3>1 DEF RowInv, Sound, Dressed, selectedIn, ColumnsAgree, getRepo
  <2>2. CASE u = Self /\ <<m, u>> \notin ledger
    <3>1. PICK d : d = row.state
      OBVIOUS
    <3>2. PICK e : e = [d EXCEPT !.coins = @ + Award[m]]
      OBVIOUS
    <3>3. d \in Docs /\ Sound(d)
      BY <1>6, <3>1 DEF Sound
    <3>4. /\ e \in Docs /\ e.coins = d.coins + Award[m] /\ e.token = d.token
          /\ e.nickname = d.nickname /\ e.clan = d.clan /\ e.profiles = d.profiles
          /\ e.selected = d.selected /\ d.coins \in Nat
      BY <1>6, <3>2, <3>3 DEF Docs
    <3>5. Dressed(e)
      BY <3>3, <3>4 DEF Sound, Dressed, selectedIn
    <3>6. Sound(e)'
      <4>1. d.coins <= StartCoins + Earned /\ StartCoins \in Nat
        BY <3>3, DocAssumption DEF Sound
      <4>2. e.coins <= StartCoins + Earned'
        BY <1>6, <1>8, <2>2, <3>4, <4>1
      <4> QED
        BY <3>4, <3>5, <4>2 DEF Sound, Dressed, selectedIn
    <3>7. row' = [row EXCEPT !.state = e]
      BY <1>7, <2>2, <3>1, <3>2 DEF RowInv
    <3>8. /\ row' \in [exists : BOOLEAN, token : Nat \cup {NoToken}, nickname : Values,
                       clan_id : {0, 1}, state : Docs \cup {NoDoc}]
          /\ row'.exists = row.exists /\ row'.token = row.token /\ row'.nickname = row.nickname
          /\ row'.clan_id = row.clan_id /\ row'.state = e
      BY <1>6, <3>4, <3>7 DEF RowInv
    <3>9. e # NoDoc /\ row.exists
      BY <1>6, <3>4, ProfilesAssumption DEF RowInv
    <3>10. ColumnsAgree'
      BY <1>6, <3>1, <3>4, <3>8 DEF RowInv, ColumnsAgree
    <3> QED
      BY <3>6, <3>8, <3>9, <3>10 DEF RowInv
  <2> QED
    BY <2>1, <2>2
<1>11. SettleInv'
  <2>1. worker'.batch = worker.batch /\ worker' \in [batch : Seq(Nat), next : 1..(Len(Roster) + 1)]
    BY <1>1, <1>2
  <2>2. ledger' \subseteq Matches \X Range(Roster)
    BY <1>4, <1>5, <1>7 DEF AccountInv, SettleInv
  <2> QED
    BY <1>1, <1>8, <1>10, <2>1, <2>2 DEF AccountInv, SettleInv
<1> QED
  BY <1>1, <1>8, <1>9, <1>10, <1>11, WorkerStep, Found

\* The rest of the batch, when its first entry is done or given up.
LEMMA TailBatch ==
  ASSUME SettleInv, worker.batch # <<>>
  PROVE  LET t == Tail(worker.batch)
         IN  /\ t \in Seq(Nat)
             /\ \A i \in DOMAIN t : t[i] \in group.pending /\ t[i] # Head(worker.batch)
             /\ \A i, j \in DOMAIN t : t[i] = t[j] => i = j
<1>1. PICK b : b = worker.batch
  OBVIOUS
<1>2. /\ b \in Seq(Nat) /\ b # <<>> /\ \A i \in DOMAIN b : b[i] \in group.pending
      /\ \A i, j \in DOMAIN b : b[i] = b[j] => i = j
  BY <1>1 DEF SettleInv
<1>3. PICK t : t = Tail(b)
  OBVIOUS
<1>4. /\ Len(b) \in Nat \ {0} /\ DOMAIN b = 1..Len(b) /\ Head(b) = b[1]
      /\ t \in Seq(Nat) /\ DOMAIN t = 1..(Len(b) - 1) /\ \A i \in 1..(Len(b) - 1) : t[i] = b[i + 1]
  BY <1>2, <1>3
<1>5. \A i \in DOMAIN t : i + 1 \in DOMAIN b /\ i + 1 # 1 /\ 1 \in DOMAIN b /\ t[i] = b[i + 1]
  BY <1>4
<1>6. \A i \in DOMAIN t : t[i] \in group.pending /\ t[i] # Head(b)
  BY <1>2, <1>4, <1>5
<1>7. \A i, j \in DOMAIN t : t[i] = t[j] => i = j
  BY <1>2, <1>4, <1>5
<1> QED
  BY <1>1, <1>3, <1>4, <1>6, <1>7

LEMMA WorkerMoves ==
  ASSUME AccountInv, pushMatchStats \/ settleFails \/ workerCrash
  PROVE  AccountInv'
<1>1. UNCHANGED <<ops, row, proc, issued, social, stream, ledger>> /\ worker.batch # <<>>
  BY DEF pushMatchStats, settleFails, workerCrash, db
<1>2. faults' \in 0..MaxFaults
  BY Found, ProfilesAssumption DEF pushMatchStats, settleFails, workerCrash
<1>3. /\ SettleInv /\ Len(Roster) \in Nat
      /\ group \in [last : 0..Len(stream), pending : SUBSET (1..Len(stream))]
  BY ProfilesAssumption DEF AccountInv, SettleInv
<1>4. IsFiniteSet(Credited)' /\ ledger' \subseteq Matches \X Range(Roster)
      /\ stream' \in Seq(Matches) /\ (stream' # <<>> => row'.state # NoDoc)
  BY <1>1, <1>3 DEF SettleInv, Credited
<1>5. PICK t : t = Tail(worker.batch)
  OBVIOUS
<1>6. /\ t \in Seq(Nat) /\ \A i \in DOMAIN t : t[i] \in group.pending /\ t[i] # Head(worker.batch)
      /\ \A i, j \in DOMAIN t : t[i] = t[j] => i = j
  BY <1>1, <1>3, <1>5, TailBatch
<1>7. CASE pushMatchStats
  <2>1. worker' = [batch |-> t, next |-> 1]
        /\ group' = [group EXCEPT !.pending = @ \ {Head(worker.batch)}]
    BY <1>5, <1>7 DEF pushMatchStats
  <2>2. worker'.batch = t /\ worker' \in [batch : Seq(Nat), next : 1..(Len(Roster) + 1)]
    BY <1>3, <1>6, <2>1
  <2>3. group' \in [last : 0..Len(stream), pending : SUBSET (1..Len(stream))]
        /\ group'.last = group.last /\ group'.pending = group.pending \ {Head(worker.batch)}
    BY <1>3, <2>1
  <2>4. SettleInv'
    BY <1>1, <1>3, <1>4, <1>6, <2>2, <2>3 DEF SettleInv
  <2> QED
    BY <1>1, <1>2, <2>4, WorkerStep
<1>8. CASE settleFails
  <2>1. worker' = [batch |-> t, next |-> 1] /\ group' = group
    BY <1>5, <1>8 DEF settleFails
  <2>2. worker'.batch = t /\ worker' \in [batch : Seq(Nat), next : 1..(Len(Roster) + 1)]
    BY <1>3, <1>6, <2>1
  <2>3. SettleInv'
    BY <1>1, <1>3, <1>4, <1>6, <2>1, <2>2 DEF SettleInv
  <2> QED
    BY <1>1, <1>2, <2>3, WorkerStep
<1>9. CASE workerCrash
  <2>1. worker'.batch = <<>> /\ worker' \in [batch : Seq(Nat), next : 1..(Len(Roster) + 1)]
        /\ group' = group
    BY <1>3, <1>9 DEF workerCrash, Asleep
  <2>2. SettleInv'
    BY <1>1, <1>3, <1>4, <2>1 DEF SettleInv
  <2> QED
    BY <1>1, <1>2, <2>2, WorkerStep
<1> QED
  BY <1>7, <1>8, <1>9

LEMMA AccountInit == Init => AccountInv
<1> SUFFICES ASSUME Init PROVE AccountInv
  OBVIOUS
<1>1. Credited = {} /\ IsFiniteSet(Credited)
  BY FS_EmptySet DEF Init, Credited
<1>2. Sound(DEFAULT_PLAYER)
  BY <1>1, SoundDefault
<1>3. RowInv
  <2>1. CASE "MajorRegister" \in ops
    <3>1. row = NoRow
      BY <2>1 DEF Init
    <3> QED
      BY <3>1, DocAssumption DEF RowInv, NoRow, ColumnsAgree
  <2>2. CASE "MajorRegister" \notin ops
    <3>1. row = Stored(DEFAULT_PLAYER)
      BY <2>2 DEF Init, Stored, DEFAULT_PLAYER, NoClan
    <3>2. DEFAULT_PLAYER \in Docs /\ DEFAULT_PLAYER # NoDoc
      BY <1>2, NoDocApart
    <3> QED
      BY <1>2, <3>1, <3>2, StoredFields DEF RowInv, ColumnsAgree
  <2> QED
    BY <2>1, <2>2
<1>4. ProcInv
  BY IdleFlight DEF Init, ProcInv
<1>5. CountInv
  <2>1. LoggingIn = {}
    BY IdleFlight DEF Init, LoggingIn
  <2>2. Cardinality(LoggingIn) = 0
    BY <2>1, FS_EmptySet
  <2> QED
    BY <2>2, ProfilesAssumption DEF Init, CountInv, Lists, Nobody
<1>6. SettleInv
  BY <1>1, ProfilesAssumption DEF Init, SettleInv, Asleep
<1> QED
  BY <1>3, <1>4, <1>5, <1>6 DEF AccountInv

LEMMA AccountNext == AccountInv /\ [Next]_vars => AccountInv'
<1> SUFFICES ASSUME AccountInv, [Next]_vars PROVE AccountInv'
  OBVIOUS
<1>1. CASE UNCHANGED vars
  <2>1. /\ row' = row /\ ledger' = ledger /\ UNCHANGED <<ops, proc, issued, social>>
        /\ UNCHANGED settle /\ faults' = faults
    BY <1>1 DEF vars, settle
  <2>2. SettleInv'
    BY <2>1, SettleFrame DEF AccountInv
  <2> QED
    BY <2>1, <2>2, WorkerStep, Found
<1>2. ASSUME NEW p \in Procs, Step(p) PROVE AccountInv'
  BY <1>2, ReadSteps, RouterSaveStep, FriendStep, GateSteps, TokenStep, RegisterLookupStep,
     RegisterInsertStep, RegisterSaveSteps, AdminStep DEF Step
<1>3. CASE \E u \in People \ {Self} : othersFriendRequest(u)
  BY <1>3, OthersStep
<1>4. CASE (\E m \in Matches : publishResult(m)) \/ Settlement \/ settleFails \/ workerCrash
  BY <1>4, PublishStep, SubscribeStep, SettleStep, WorkerMoves DEF Settlement
<1> QED
  BY <1>1, <1>2, <1>3, <1>4, ArriveStep, FailStep DEF Next

LEMMA AccountHolds == Spec => []AccountInv
BY AccountInit, AccountNext, PTL DEF Spec

\* For any requests in flight, readers of old documents, failing queries, crashes of the worker
\* and published results: every stored and every held document is a whole one, and the worker's
\* entries are pending entries of the stream.
THEOREM TypeCorrect == Spec => []TypeOK
<1>1. AccountInv => TypeOK
  <2> SUFFICES ASSUME AccountInv PROVE TypeOK
    OBVIOUS
  <2>1. row.state \in Docs \cup {NoDoc}
    BY DEF AccountInv, RowInv
  <2>2. \A p \in Procs : /\ proc[p].acc \in Docs \cup {NoDoc}
                         /\ proc[p].pc \notin {"idle", "start"} => proc[p].acc # NoDoc
    BY DEF AccountInv, ProcInv, InFlight
  <2>3. issued \in 0..MaxTokens /\ faults \in 0..MaxFaults /\ social \in Lists
    <3>1. Cardinality(LoggingIn) \in Nat /\ MaxTokens \in Nat
      BY FewLogins, ProfilesAssumption DEF AccountInv, ProcInv
    <3> QED
      BY <3>1 DEF AccountInv, CountInv
  <2>4. /\ stream \in Seq(Matches) /\ group.last \in 0..Len(stream)
        /\ group.pending \subseteq 1..group.last
        /\ worker.next \in 1..(Len(Roster) + 1) /\ ledger \subseteq Matches \X Range(Roster)
    BY DEF AccountInv, SettleInv
  <2>5. Range(worker.batch) \subseteq group.pending
    BY DEF AccountInv, SettleInv, Range
  <2> QED
    BY <2>1, <2>2, <2>3, <2>4, <2>5 DEF TypeOK
<1> QED
  BY <1>1, AccountHolds, PTL

\* Whoever saves last, the indexed columns are those of the stored document.
THEOREM ColumnsHold == Spec => []ColumnsAgree
<1>1. AccountInv => ColumnsAgree
  BY DEF AccountInv, RowInv
<1> QED
  BY <1>1, AccountHolds, PTL

\* For any characters, outfits and skills, and any order of the handlers that select, dress and
\* equip, also on documents read before another's save and when the selected one is hidden: what
\* is rendered is a selected character in its current outfit.
THEOREM WardrobeHolds == Spec => []Wardrobe
<1>1. AccountInv => Wardrobe
  BY DEF AccountInv, RowInv, Sound, Dressed, Wardrobe
<1> QED
  BY <1>1, AccountHolds, PTL

\* For any results, rosters, batches, redeliveries and crashes: nobody has more coins than the
\* ledger pays for, whatever old documents requests write back.
THEOREM NeverOverpaid == Spec => []NoOverpay
<1>1. AccountInv => NoOverpay
  BY DEF AccountInv, RowInv, Sound, NoOverpay
<1> QED
  BY <1>1, AccountHolds, PTL
========================================================================================
