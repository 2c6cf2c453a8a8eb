---------------------------------- MODULE Profiles ----------------------------------
(***************************************************************************)
(* One account's row in the database and everybody who reads and writes it:*)
(* HTTP requests (src/protocol/router.js), logins and registration, the    *)
(* operator's commands (src/admin/core.js) and the settlement worker       *)
(* (src/servers/settlement.js) that consumes match results from a Redis    *)
(* stream (src/bus/index.js).                                              *)
(*                                                                         *)
(* A request reads the whole document with one query and writes it back    *)
(* with another; the processes interleave between their queries.  The      *)
(* settlement updates one field in one transaction.  A failing query ends  *)
(* its request and leaves a stream entry pending.                          *)
(*                                                                         *)
(* The repository is Postgres or, in scenarios with "sqlite", SQLite,      *)
(* whose operations are synchronous: one step each, registration included, *)
(* and no settlement.                                                      *)
(***************************************************************************)
EXTENDS AccountDoc, Friends, Sequences, SequencesExt, FiniteSetsExt

CONSTANTS
  Procs,          \* requests in flight at the same time
  Scenarios,      \* which kinds of request a behaviour has
  Matches, Award, \* match id -> what Self earned in it
  Roster,         \* the players of a result, in its order
  Batch,          \* entries one XREADGROUP returns
  MaxTokens, MaxResults, MaxFaults,   \* bounds: logins, stream entries, failures
  NoDoc

\* What the document is made of.
Profile == [clothes : Values, skill : Values, is_selected : BOOLEAN]
Docs ==
  [token : Nat \cup {NoToken}, banned : BOOLEAN, nickname : Values, role : {0, 1, 100},
   coins : Nat, wallet : Nat, badges : 0..MaxBadges, elite_pass : BOOLEAN,
   profiles : [Avatars -> Profile],
   selected : [avatar : Avatars, clothes : Values, slot : Values],
   opt : [OptFields -> Values], backpack : SUBSET Values, read : BOOLEAN,
   clan : [id : {0, 1}, name : Values, role : {"none", "captain"}, members : SUBSET {Self}],
   friends : SUBSET People, requests : SUBSET People]

ASSUME ProfilesAssumption ==
  /\ Award \in [Matches -> Nat \ {0}] /\ Batch \in Nat \ {0}
  /\ Roster \in Seq(People) /\ Self \in Range(Roster)
  /\ {MaxTokens, MaxResults, MaxFaults} \subseteq Nat /\ IsFiniteSet(Procs)
  /\ Self \in People /\ \A o \in Scenarios : ~({"sqlite", "settle"} \subseteq o)
  /\ NoDoc \notin Docs

VARIABLES ops, row, social, auth, proc, issued, stream, group, worker, ledger, faults

db == <<row, social, auth, issued>>
settle == <<stream, group, worker, ledger>>
vars == <<ops, row, social, auth, proc, issued, stream, group, worker, ledger, faults>>

\* `early' is history: the request arrived before a ban had taken effect, or the query that
\* asks for it failed.
Idle == [kind |-> "none", pc |-> "idle", acc |-> NoDoc, early |-> TRUE]
\* A row: the indexed columns and the state column; NoDoc while the state is still '{}'.
NoRow == [exists |-> FALSE, token |-> NoToken, nickname |-> FirstValue, clan_id |-> 0,
          state |-> NoDoc]
Asleep == [batch |-> <<>>, next |-> 1]

\* Mutant: the token column is only written when the document has one.
denormKeepsToken(d) == [token |-> IF d.token = NoToken THEN row.token ELSE d.token,
                        nickname |-> d.nickname, clan_id |-> d.clan.id]

\* The columns that save derives from the document.
denorm(d) == [token |-> d.token, nickname |-> d.nickname, clan_id |-> d.clan.id]

\* Mutant: a placeholder is handed out as it is.
rowToAccountRaw == row.state

\* The document of the row, with the columns that win over it; a default one for '{}'.
rowToAccount ==
  LET d == IF row.state = NoDoc THEN DEFAULT_PLAYER ELSE row.state
  IN  IF row.token # NoToken THEN [d EXCEPT !.token = row.token] ELSE d

\* player.js has no default for '{}'; nobody sees such a row of SQLite.
sqliteRowToAccount ==
  IF row.token # NoToken THEN [row.state EXCEPT !.token = row.token] ELSE row.state

getRepo == IF "sqlite" \in ops THEN "SQLite" ELSE "PostgreSQL"

loadAccount == IF getRepo = "SQLite" THEN sqliteRowToAccount ELSE rowToAccount

save(d) == row' = [exists |-> TRUE, token |-> denorm(d).token, nickname |-> denorm(d).nickname,
                   clan_id |-> denorm(d).clan_id, state |-> d]

\* UPDATE ... SET, with the same columns.
sqliteSave(d) == row' = [exists |-> TRUE, token |-> d.token, nickname |-> d.nickname,
                         clan_id |-> d.clan.id, state |-> d]

saveAccount(d) == IF getRepo = "SQLite" THEN sqliteSave(d) ELSE save(d)

Goto(p, pc, acc) == proc' = [proc EXCEPT ![p].pc = pc, ![p].acc = acc]
End(p) == proc' = [proc EXCEPT ![p] = Idle]
At(p, pc, kinds) == proc[p].pc = pc /\ proc[p].kind \in kinds

Logins == {"MajorLogin", "PlatformLogin", "Login"}
Ungated == {"Login"}
Admin == {"setNickname", "setRole", "ban", "unban"}

\* The account starts registered, or not at all in a scenario with a registration; the auth
\* server's row of it is the second place of the ban flag.
Init ==
  /\ ops \in Scenarios
  /\ row = IF "MajorRegister" \in ops THEN NoRow
           ELSE [exists |-> TRUE, token |-> NoToken, nickname |-> FirstValue, clan_id |-> 0,
                 state |-> DEFAULT_PLAYER]
  /\ auth = [banned |-> FALSE, done |-> "none"] /\ social = Nobody
  /\ proc = [p \in Procs |-> Idle]
  /\ issued = 0 /\ stream = <<>> /\ ledger = {} /\ faults = 0
  /\ group = [last |-> 0, pending |-> {}] /\ worker = Asleep

Arrive(p) ==
  /\ proc[p] = Idle
  /\ \E k \in ops \ {"settle", "sqlite"} :
       /\ k \in Logins => issued + Cardinality({q \in Procs : proc[q].kind \in Logins}) < MaxTokens
       /\ proc' = [proc EXCEPT ![p] = [Idle EXCEPT !.kind = k, !.pc = "start",
                                                   !.early = (auth.done # "ban")]]
  /\ UNCHANGED <<ops, db, settle, faults>>

--------------------------------------------------------------------------------
(* An authenticated HTTP request: find the account by its Bearer token, run the handler,     *)
(* save.  A client presents the token the row has now, or one that no longer resolves.       *)

routerAuth(p) ==
  /\ At(p, "start", Requests \cup FriendOps \cup {"GetLoginData"})
  /\ \/ row.token # NoToken /\ Goto(p, "loaded", loadAccount)
     \/ End(p)     \* no such token: an empty answer
  /\ UNCHANGED <<ops, db, settle, faults>>

\* handler.fn and the save after it; a handler that did not ask for the save ends the request.
routerSave(p) ==
  /\ At(p, "loaded", Requests)
  /\ LET docs == handler(proc[p].kind, proc[p].acc)
     IN  IF docs = {} THEN UNCHANGED row ELSE \E d \in docs : saveAccount(d)
  /\ End(p)
  /\ UNCHANGED <<ops, social, auth, issued, settle, faults>>

--------------------------------------------------------------------------------
(* Friends.  The tables of Postgres are `social'; with SQLite Self's lists are in its        *)
(* document and `social' has the others'.                                                    *)

lists == IF getRepo = "SQLite" /\ row.state # NoDoc
         THEN [social EXCEPT !.friends[Self] = row.state.friends, !.requests[Self] = row.state.requests]
         ELSE social

storeLists(s) ==
  IF getRepo = "SQLite"
  THEN /\ social' = [s EXCEPT !.friends[Self] = {}, !.requests[Self] = {}]
       /\ sqliteSave([sqliteRowToAccount EXCEPT !.friends = s.friends[Self],
                                               !.requests = s.requests[Self]])
  ELSE social' = s /\ UNCHANGED row

\* The handler talks to the repository and leaves its document alone.
friendRequest(p) ==
  /\ At(p, "loaded", FriendOps)
  /\ \E you, adder \in People : storeLists(friendHandler(proc[p].kind, lists, Self, you, adder))
  /\ End(p)
  /\ UNCHANGED <<ops, auth, issued, settle, faults>>

\* The same endpoints, called by somebody else about Self.
othersFriendRequest(u) ==
  /\ row.exists /\ \E k \in FriendOps \cap ops, adder \in People :
                   storeLists(friendHandler(k, lists, u, Self, adder))
  /\ UNCHANGED <<ops, auth, proc, issued, settle, faults>>

GetFriendIDs(u) == lists.friends[u]
GetFriendRequestList(u) == lists.requests[u]

--------------------------------------------------------------------------------
(* Logins and registration *)

\* Version, signature and registration at the auth server: a client passes them or not, and
\* an error of the query lets it pass.
runLoginGate == BOOLEAN

\* Both refuse with an empty answer.  (The kick that goes with it is module Gateway's.)
reject(p) == End(p)

\* 404 without an account.
loginLookup(p) ==
  /\ At(p, "start", Logins)
  /\ \/ row.exists /\ Goto(p, IF proc[p].kind \in Ungated THEN "token" ELSE "ban", loadAccount)
     \/ ~row.exists /\ End(p)
     \/ proc[p].kind \notin Ungated /\ FALSE \in runLoginGate /\ reject(p)
  /\ UNCHANGED <<ops, db, settle, faults>>

\* Without Postgres there is no auth store: nobody is banned there.
isEnabled == getRepo = "PostgreSQL"
accountByOpenId == isEnabled /\ auth.banned

\* The document's own flag, then the auth store's; an error there lets the request pass.
checkBan(p, next) ==
  \/ /\ IF proc[p].acc.banned \/ accountByOpenId THEN reject(p) ELSE Goto(p, next, proc[p].acc)
     /\ UNCHANGED faults
  \/ /\ isEnabled /\ ~proc[p].acc.banned /\ faults < MaxFaults /\ faults' = faults + 1
     /\ proc' = [proc EXCEPT ![p].pc = next, ![p].early = TRUE]

loginCheckBan(p) ==
  /\ At(p, "ban", Logins) /\ checkBan(p, "token")
  /\ UNCHANGED <<ops, db, settle>>

loginSave(p) ==
  /\ At(p, "token", Logins)
  /\ issued' = issued + 1
  /\ saveAccount([proc[p].acc EXCEPT !.token = issued + 1])
  /\ End(p)
  /\ UNCHANGED <<ops, social, auth, settle, faults>>

\* The snapshot with which a client that has a token enters the lobby: gated once more.
GetLoginData(p) ==
  /\ At(p, "loaded", {"GetLoginData"})
  /\ checkBan(p, "lobby") \/ (FALSE \in runLoginGate /\ reject(p) /\ UNCHANGED faults)
  /\ UNCHANGED <<ops, db, settle>>
sendLoginData(p) ==
  /\ At(p, "lobby", {"GetLoginData"}) /\ End(p)
  /\ UNCHANGED <<ops, db, settle, faults>>

\* The registration gate and the ban gate, then the lookup: an existing account is refreshed.
registerLookup(p) ==
  /\ At(p, "start", {"MajorRegister"})
  /\ LET found == Goto(p, IF getRepo = "SQLite" THEN "create" ELSE IF row.exists THEN "refresh"
                          ELSE "insert",
                       IF row.exists THEN loadAccount ELSE DEFAULT_PLAYER)
     IN  \/ FALSE \in runLoginGate /\ reject(p) /\ UNCHANGED faults
         \/ (IF accountByOpenId THEN reject(p) ELSE found) /\ UNCHANGED faults
         \/ accountByOpenId /\ faults < MaxFaults /\ faults' = faults + 1 /\ found
  /\ UNCHANGED <<ops, db, settle>>

\* The lookup, the placeholder and the document in one synchronous call.
sqliteCreateFromLogin(p) ==
  /\ At(p, "create", {"MajorRegister"})
  /\ \E v \in Values :
       sqliteSave([(IF row.exists THEN sqliteRowToAccount ELSE DEFAULT_PLAYER) EXCEPT !.nickname = v])
  /\ End(p)
  /\ UNCHANGED <<ops, social, auth, issued, settle, faults>>

\* The placeholder gets the account id; open_id is unique, so a second insert fails.
registerInsert(p) ==
  /\ At(p, "insert", {"MajorRegister"})
  /\ IF row.exists THEN End(p) /\ UNCHANGED row
     ELSE row' = [NoRow EXCEPT !.exists = TRUE] /\ Goto(p, "fill", DEFAULT_PLAYER)
  /\ UNCHANGED <<ops, social, auth, issued, settle, faults>>

registerRefresh(p) ==
  /\ At(p, "refresh", {"MajorRegister"})
  /\ \E v \in Values : save([proc[p].acc EXCEPT !.nickname = v])
  /\ End(p)
  /\ UNCHANGED <<ops, social, auth, issued, settle, faults>>

registerSave(p) ==
  /\ At(p, "fill", {"MajorRegister"})
  /\ \E v \in Values : save([proc[p].acc EXCEPT !.nickname = v])
  /\ End(p)
  /\ UNCHANGED <<ops, social, auth, issued, settle, faults>>

--------------------------------------------------------------------------------
(* The operator's commands *)

adminLoad(p) ==
  /\ At(p, "start", Admin)
  /\ IF row.exists THEN Goto(p, "loaded", loadAccount) ELSE End(p)
  /\ UNCHANGED <<ops, db, settle, faults>>

adminSave(p) ==
  /\ At(p, "loaded", Admin)
  /\ LET k == proc[p].kind
         d == proc[p].acc
         docs == CASE k = "setNickname" -> setNickname(d) [] k = "setRole" -> setRole(d)
                   [] k = "ban" -> banDoc(d) [] OTHER -> unbanDoc(d)
     IN  /\ IF docs = {} THEN UNCHANGED row ELSE \E e \in docs : saveAccount(e)
         /\ IF k \in {"ban", "unban"} THEN Goto(p, "auth", d) ELSE End(p)
  /\ UNCHANGED <<ops, social, auth, issued, settle, faults>>

\* Mutant: only the game's own document is flagged.
setAuthBanSkipped(p) ==
  /\ At(p, "auth", Admin)
  /\ auth' = [auth EXCEPT !.done = proc[p].kind] /\ End(p)
  /\ UNCHANGED <<ops, row, social, issued, settle, faults>>

\* _setAuthBan: the auth store's flag, if there is one; with it the command has taken effect.
setAuthBan(p) ==
  /\ At(p, "auth", Admin)
  /\ auth' = [banned |-> isEnabled /\ proc[p].kind = "ban", done |-> proc[p].kind] /\ End(p)
  /\ UNCHANGED <<ops, row, social, issued, settle, faults>>

--------------------------------------------------------------------------------
(* Settlement *)

\* The match server publishes a result; publishing it again is what the ledger is for.
publishResult(m) ==
  /\ "settle" \in ops /\ row.state # NoDoc /\ Len(stream) < MaxResults
  /\ stream' = Append(stream, m)
  /\ UNCHANGED <<ops, db, proc, group, worker, ledger, faults>>

\* Mutant: of a batch only the first entry is handled.
subscribeStreamFirst ==
  /\ worker.batch = <<>> /\ group.last < Len(stream)
  /\ LET n == Min({group.last + Batch, Len(stream)})
     IN  /\ worker' = [batch |-> <<group.last + 1>>, next |-> 1]
         /\ group' = [last |-> n, pending |-> group.pending \cup (group.last + 1) .. n]
  /\ UNCHANGED <<ops, db, proc, stream, ledger, faults>>

\* XREADGROUP with '>': entries nobody of the group has been given, never a pending one again.
subscribeStream ==
  /\ worker.batch = <<>> /\ group.last < Len(stream)
  /\ LET n == Min({group.last + Batch, Len(stream)})
         new == [i \in 1..(n - group.last) |-> group.last + i]
     IN  /\ worker' = [batch |-> new, next |-> 1]
         /\ group' = [last |-> n, pending |-> group.pending \cup Range(new)]
  /\ UNCHANGED <<ops, db, proc, stream, ledger, faults>>

\* Mutant: the credit does not ask whether the insert was fresh.
settleMatchResultAlways(m, u) ==
  /\ ledger' = ledger \cup {<<m, u>>}
  /\ row' = IF u = Self THEN [row EXCEPT !.state.coins = @ + Award[m]] ELSE row

\* One transaction: the ledger row and, when it is new, the coins.  (The winner's other
\* columns are written to the ledger row only.)
settleMatchResult(m, u) ==
  /\ ledger' = ledger \cup {<<m, u>>}
  /\ row' = IF u = Self /\ <<m, u>> \notin ledger
            THEN [row EXCEPT !.state.coins = @ + Award[m]] ELSE row

\* handleMatchResult, player by player.
handleMatchResult ==
  /\ worker.batch # <<>> /\ worker.next <= Len(Roster)
  /\ settleMatchResult(stream[Head(worker.batch)], Roster[worker.next])
  /\ worker' = [worker EXCEPT !.next = @ + 1]
  /\ UNCHANGED <<ops, social, auth, issued, proc, stream, group, faults>>

\* The scoreboard is pushed to whoever is online (best effort), then the entry is acknowledged.
pushMatchStats ==
  /\ worker.batch # <<>> /\ worker.next > Len(Roster)
  /\ worker' = [batch |-> Tail(worker.batch), next |-> 1]
  /\ group' = [group EXCEPT !.pending = @ \ {Head(worker.batch)}]
  /\ UNCHANGED <<ops, db, proc, stream, ledger, faults>>

\* A transaction fails and is rolled back: the handler throws, the entry stays pending and
\* the loop goes on with the next one.
settleFails ==
  /\ worker.batch # <<>> /\ worker.next <= Len(Roster) /\ faults < MaxFaults
  /\ faults' = faults + 1
  /\ worker' = [batch |-> Tail(worker.batch), next |-> 1]
  /\ UNCHANGED <<ops, db, proc, stream, group, ledger>>

\* The worker dies and is started again with the same consumer name.
workerCrash ==
  /\ worker.batch # <<>> /\ faults < MaxFaults
  /\ faults' = faults + 1 /\ worker' = Asleep
  /\ UNCHANGED <<ops, db, proc, stream, group, ledger>>

\* A query of a request fails: the request ends with an error.
requestFails(p) ==
  /\ proc[p] # Idle /\ faults < MaxFaults
  /\ faults' = faults + 1 /\ End(p)
  /\ UNCHANGED <<ops, db, settle>>

Settlement ==
  subscribeStream \/ handleMatchResult \/ pushMatchStats

Step(p) ==
  \/ routerAuth(p) \/ routerSave(p) \/ friendRequest(p)
  \/ loginLookup(p) \/ loginCheckBan(p) \/ loginSave(p)
  \/ GetLoginData(p) \/ sendLoginData(p)
  \/ registerLookup(p) \/ sqliteCreateFromLogin(p) \/ registerInsert(p) \/ registerRefresh(p) \/ registerSave(p)
  \/ adminLoad(p) \/ adminSave(p) \/ setAuthBan(p)

Next ==
  \/ \E p \in Procs : Arrive(p) \/ Step(p) \/ requestFails(p)
  \/ \E u \in People \ {Self} : othersFriendRequest(u)
  \/ \E m \in Matches : publishResult(m)
  \/ Settlement \/ settleFails \/ workerCrash

\* The worker's loop never stops reading; requests may be cut off anywhere.
Spec == Init /\ [][Next]_vars /\ WF_vars(Settlement)

--------------------------------------------------------------------------------
(* Properties *)

\* Every document, in the row or in a request, is a whole one; entries given to the worker
\* are entries of the stream.
TypeOK ==
  /\ row.state \in Docs \cup {NoDoc} /\ social \in Lists
  /\ \A p \in Procs : proc[p].acc \in Docs \cup {NoDoc}
  /\ \A p \in Procs : proc[p].pc \notin {"idle", "start"} => proc[p].acc # NoDoc
  /\ issued \in 0..MaxTokens /\ faults \in 0..MaxFaults /\ stream \in Seq(Matches)
  /\ group.last \in 0..Len(stream) /\ group.pending \subseteq 1..group.last
  /\ Range(worker.batch) \subseteq group.pending /\ worker.next \in 1..(Len(Roster) + 1)
  /\ ledger \subseteq Matches \X Range(Roster)

\* The indexed columns say what the state column says, whoever wrote last
\* (player.js: "kept in sync on write").
ColumnsAgree ==
  row.state # NoDoc =>
    /\ row.token = row.state.token /\ row.nickname = row.state.nickname
    /\ row.clan_id = row.state.clan.id

\* What the lobby renders (selected_items) is a character flagged as selected, in its current
\* outfit: through any order of SelectProfile, ChangeClothes, EquipSkill, GetProfiles and
\* GetBackpack, two at a time, also when GetProfiles has flagged a second character because
\* the selected one is hidden.
Wardrobe ==
  row.state # NoDoc =>
    \E a \in selectedIn(row.state) :
      /\ row.state.selected.avatar = a
      /\ row.state.selected.clothes = row.state.profiles[a].clothes

\* In Postgres two friends have each other on their lists, and nobody is or asks himself: also
\* when they ask, accept, decline and remove each other at the same time and when their
\* documents are saved in between (postgres.js: "the two sides can never desync").
FriendsMutual ==
  getRepo = "PostgreSQL" =>
    \A u \in People : /\ u \notin GetFriendIDs(u) \cup GetFriendRequestList(u)
                      /\ \A v \in GetFriendIDs(u) : u \in GetFriendIDs(v)

Credited == {m \in Matches : <<m, Self>> \in ledger}
AwardSum(S) == MapThenSumSet(LAMBDA m : Award[m], S)
Earned == AwardSum(Credited)

\* However often a result is published, read again after a crash or settled next to
\* requests that save old documents, nobody is paid more than the ledger says
\* (postgres.js: "a redelivery hits the conflict and credits nothing").
NoOverpay == row.state # NoDoc => row.state.coins <= StartCoins + Earned

\* Nobody is unbanned, and the auth store is there to keep the flag.
Gating == getRepo = "PostgreSQL" /\ "unban" \notin ops

\* With Postgres, a request at the gated endpoints that arrives after a ban has taken effect
\* gets no token and no lobby, also when a request that was in flight has written the old
\* document over the flag.
BanGates ==
  [][Gating =>
       /\ issued' # issued =>
            \E p \in Procs : At(p, "token", Logins) /\ proc'[p] = Idle
                             /\ (proc[p].early \/ proc[p].kind = "Login")
       /\ \A p \in Procs : proc'[p].pc = "lobby" => proc'[p].early]_vars

SettledEntry(i) ==
  Len(stream) >= i /\ \A u \in Range(Roster) : <<stream[i], u>> \in ledger

\* Without failures every published result is settled for all its players.
Settled ==
  \A i \in 1..MaxResults :
    Len(stream) >= i ~> (faults > 0 \/ SettledEntry(i))

\* A match reward stays on the account (settlement.js: "stops match rewards/stats from
\* evaporating").
CreditsKept == row.state # NoDoc => row.state.coins >= StartCoins + Earned

--------------------------------------------------------------------------------
(* The inductive invariants of the proofs (module ProfilesProofs). *)

\* Two friends have each other, and nobody is or asks himself.
Mutual(s) ==
  \A u \in People : /\ u \notin s.friends[u] \cup s.requests[u]
                    /\ \A v \in s.friends[u] : u \in s.friends[v]

ListsInv == getRepo = "PostgreSQL" => social \in Lists /\ Mutual(social)

ProcShape(p) == DOMAIN proc[p] = {"kind", "pc", "acc", "early"}

\* A late request met a ban that is in the auth store, and stays there.
Gated(p) ==
  /\ proc[p].early \in BOOLEAN /\ proc[p].kind \in ops \cup {"none"}
  /\ ~proc[p].early => auth.done = "ban"
  /\ proc[p].pc = "auth" => proc[p].kind \in {"ban", "unban"}
  /\ proc[p].pc = "token" => proc[p].early \/ proc[p].kind = "Login"
  /\ proc[p].pc = "lobby" => proc[p].early

GateInv ==
  /\ DOMAIN proc = Procs /\ \A p \in Procs : ProcShape(p)
  /\ Gating => /\ \A p \in Procs : Gated(p)
               /\ auth.done = "ban" => auth.banned

\* A dressed document: what the lobby renders is a selected character as it is dressed.
Dressed(d) ==
  \E a \in selectedIn(d) :
    d.selected.avatar = a /\ d.selected.clothes = d.profiles[a].clothes

\* What a document that is stored, or will be, may look like.
Sound(d) == d \in Docs /\ Dressed(d) /\ d.coins <= StartCoins + Earned

RowInv ==
  /\ row \in [exists : BOOLEAN, token : Nat \cup {NoToken}, nickname : Values, clan_id : {0, 1},
              state : Docs \cup {NoDoc}]
  /\ row.state = NoDoc => row.token = NoToken /\ ~(row.exists /\ getRepo = "SQLite")
  /\ row.state # NoDoc => row.exists /\ Sound(row.state)
  /\ ColumnsAgree

Places == {"idle", "start", "loaded", "ban", "token", "lobby", "create", "refresh", "insert",
           "fill", "auth"}

\* Where a request may be: one that found the account finds it again; Postgres inserts a
\* placeholder, SQLite creates in one call.
Reached(c) ==
  /\ c \in Places
  /\ c = "loaded" => row.exists
  /\ c = "insert" => getRepo # "SQLite"
  /\ c = "create" => getRepo = "SQLite"

\* A request holds a document as sound as the stored one, of any age.
InFlight(r) ==
  /\ r \in [kind : ops \cup {"none"}, pc : Places, acc : Docs \cup {NoDoc}, early : BOOLEAN]
  /\ r.pc \notin {"idle", "start"} => r.acc # NoDoc
  /\ r.acc # NoDoc => Sound(r.acc)
  /\ Reached(r.pc)

ProcInv == DOMAIN proc = Procs /\ \A p \in Procs : InFlight(proc[p])

LoggingIn == {p \in Procs : proc[p].kind \in Logins}

CountInv ==
  /\ issued \in Nat /\ issued + Cardinality(LoggingIn) <= MaxTokens
  /\ faults \in 0..MaxFaults /\ social \in Lists

\* The worker's entries are distinct, given to the group and not acknowledged yet.
SettleInv ==
  /\ stream \in Seq(Matches) /\ (stream # <<>> => row.state # NoDoc)
  /\ group \in [last : 0..Len(stream), pending : SUBSET (1..Len(stream))]
  /\ group.pending \subseteq 1..group.last
  /\ worker \in [batch : Seq(Nat), next : 1..(Len(Roster) + 1)]
  /\ \A i \in DOMAIN worker.batch : worker.batch[i] \in group.pending
  /\ \A i, j \in DOMAIN worker.batch : worker.batch[i] = worker.batch[j] => i = j
  /\ IsFiniteSet(Credited) /\ ledger \subseteq Matches \X Range(Roster)

AccountInv == RowInv /\ ProcInv /\ CountInv /\ SettleInv
================================================================================
