----------------------------------- MODULE SignIn -----------------------------------
(***************************************************************************)
(* Signing in through Discord (auth/login-server) and the tokens that come *)
(* out of it (auth/connect-server), on the tables of auth/shared.          *)
(*                                                                         *)
(* The game's WebView opens a dialog, which reserves a pairing, and polls  *)
(* for its outcome.  The person authorises in some browser; Discord sends  *)
(* that browser to the callback, which finds or provisions the identity,   *)
(* issues tokens and completes the pairing.  Every query is a step: two    *)
(* callbacks, the polls, token requests and the expiry of the pairing      *)
(* interleave between them.                                                *)
(*                                                                         *)
(* Random ids (pairing, open_id, tokens) are fresh by construction; the    *)
(* open_id stands for the Discord user it was made for.  A page's pairing  *)
(* has the page's name, since every load of the dialog makes a new one.    *)
(*                                                                         *)
(* The tables are Postgres or, in scenarios with "mongo", MongoDB.         *)
(***************************************************************************)
EXTENDS Integers, FiniteSets, FiniteSetsExt

CONSTANTS
  Users,                 \* Discord users
  Pages, Polls,          \* loads of the dialog; poll requests at the server
  Callbacks, TokenOps,   \* requests in flight at the two servers
  Scenarios,             \* subsets of {"lost", "ops", "block", "faults", "expiry", "one", "mongo"};
                         \* "one": a single page
  Attempts,              \* withUidRetry
  MaxIssued, MaxFaults,  \* bounds: tokens before the last refresh, failures
  None

ASSUME SignInAssumption ==
  Attempts \in Nat \ {0} /\ MaxIssued \in Nat /\ MaxFaults \in Nat

FIRST_UID == 1

VARIABLES does, page, poll, pairing, cb, op, guests, accounts, issued, dead, served, faults

web == <<page, poll, served>>
tables == <<guests, accounts, issued, dead>>
vars == <<does, page, poll, pairing, cb, op, guests, accounts, issued, dead, served, faults>>

\* `live': the row's expires_at lies ahead.  url: who signed in, with which uid and token.
NoPairing == [st |-> "none", live |-> FALSE, url |-> None]
NoCallback == [pc |-> "none", page |-> None, user |-> None, uid |-> 0, left |-> 0, url |-> None]
NoOp == [pc |-> "done", user |-> None, seen |-> 0]
NoPoll == [pc |-> "done", page |-> None, st |-> "none"]

\* dead (tokens that a logout or a block has cleared) and served (answers that carried an
\* outcome) are history.
Init ==
  /\ does \in Scenarios
  /\ page = [w \in Pages |-> "closed"] /\ poll = [r \in Polls |-> NoPoll]
  /\ pairing = [w \in Pages |-> NoPairing] /\ cb = [c \in Callbacks |-> NoCallback]
  /\ op = [o \in TokenOps |-> NoOp]
  /\ guests = [u \in Users |-> None] /\ accounts = {}
  /\ issued = 0 /\ dead = {} /\ served = [w \in Pages |-> 0] /\ faults = 0

Provisioned == {u \in Users : guests[u] # None}

backend == IF "mongo" \in does THEN "mongo" ELSE "pg"

--------------------------------------------------------------------------------
(* Pairings *)

\* What a query on the row finds: Postgres filters expired rows out, MongoDB does not.
mongoFound(w) == pairing[w].st # "none"
pgFound(w) == pairing[w].st # "none" /\ pairing[w].live
Found(w) == IF backend = "mongo" THEN mongoFound(w) ELSE pgFound(w)
Pending(w) == Found(w) /\ pairing[w].st = "pending"

\* /dialog/oauth: a pending pairing, and a page that polls for it.
createPending ==
  /\ \E x \in Pages : page[x] = "closed"
  /\ "one" \in does => \A x \in Pages : page[x] = "closed"
  /\ LET w == CHOOSE x \in Pages : page[x] = "closed"
     IN  /\ page' = [page EXCEPT ![w] = "idle"]
         /\ pairing' = [pairing EXCEPT ![w] = [st |-> "pending", live |-> TRUE, url |-> None]]
  /\ UNCHANGED <<does, poll, cb, op, tables, served, faults>>

expire(w) ==
  /\ "expiry" \in does /\ pairing[w].live
  /\ pairing' = [pairing EXCEPT ![w].live = FALSE]
  /\ UNCHANGED <<does, web, cb, op, tables, faults>>

\* The sweeper of pg.js; MongoDB has a TTL index.
startPairingSweeper(w) ==
  /\ pairing[w].st # "none" /\ ~pairing[w].live
  /\ pairing' = [pairing EXCEPT ![w] = NoPairing]
  /\ UNCHANGED <<does, web, cb, op, tables, faults>>

--------------------------------------------------------------------------------
(* The WebView's poll loop, one request after the other *)

pollStart(w) ==
  /\ page[w] = "idle" /\ \E r \in Polls : poll[r] = NoPoll
  /\ page' = [page EXCEPT ![w] = "waiting"]
  /\ poll' = [poll EXCEPT ![CHOOSE r \in Polls : poll[r] = NoPoll] = [pc |-> "select", page |-> w, st |-> "none"]]
  /\ UNCHANGED <<does, pairing, cb, op, tables, served, faults>>

\* A refused (429) or lost request: the page polls again; the server may still be at it.
pollLost(w) ==
  /\ "lost" \in does /\ faults < MaxFaults /\ page[w] = "waiting"
  /\ page' = [page EXCEPT ![w] = "idle"] /\ faults' = faults + 1
  /\ poll' = [r \in Polls |-> IF poll[r].page = w /\ poll[r].pc # "done"
                              THEN [poll[r] EXCEPT !.pc = IF @ \in {"select", "selectLost"}
                                                          THEN "selectLost" ELSE "deleteLost"]
                              ELSE poll[r]]
  /\ UNCHANGED <<does, pairing, cb, op, tables, served>>

pollTimeout(w) ==
  /\ page[w] = "idle" /\ ~pairing[w].live
  /\ page' = [page EXCEPT ![w] = "timedout"]
  /\ UNCHANGED <<does, poll, pairing, cb, op, tables, served, faults>>

Answer(r, st) ==
  /\ poll' = [poll EXCEPT ![r] = NoPoll]
  /\ page' = IF poll[r].pc \in {"select", "delete"}
             THEN [page EXCEPT ![poll[r].page] = IF st = "pending" THEN "idle" ELSE st] ELSE page
  /\ served' = IF st \in {"completed", "failed"}
               THEN [served EXCEPT ![poll[r].page] = @ + 1] ELSE served

\* consumeIfCompleted, its SELECT: nothing there, or pending, and it is answered.
consumeSelect(r) ==
  /\ poll[r].pc \in {"select", "selectLost"}
  /\ LET w == poll[r].page
     IN  IF ~Found(w) THEN Answer(r, "expired")
         ELSE IF pairing[w].st = "pending" THEN Answer(r, "pending")
         ELSE /\ poll' = [poll EXCEPT ![r].st = pairing[w].st,
                                      ![r].pc = IF @ = "select" THEN "delete" ELSE "deleteLost"]
              /\ UNCHANGED <<page, served>>
  /\ UNCHANGED <<does, pairing, cb, op, tables, faults>>

\* Mutant: the answer does not ask what the DELETE returned.
consumeDeleteBlind(r) ==
  /\ poll[r].pc \in {"delete", "deleteLost"}
  /\ pairing' = [pairing EXCEPT ![poll[r].page] = NoPairing] /\ Answer(r, poll[r].st)
  /\ UNCHANGED <<does, cb, op, tables, faults>>

\* Its DELETE ... RETURNING: the answer is the row it took away, if it was still there.
consumeDelete(r) ==
  /\ backend = "pg" /\ poll[r].pc \in {"delete", "deleteLost"}
  /\ LET w == poll[r].page
         gone == pairing[w].st # poll[r].st
     IN  /\ pairing' = IF gone THEN pairing ELSE [pairing EXCEPT ![w] = NoPairing]
         /\ Answer(r, IF gone THEN "expired" ELSE poll[r].st)
  /\ UNCHANGED <<does, cb, op, tables, faults>>

\* Its deleteOne: the answer is the document that was read before.
mongoConsumeDelete(r) ==
  /\ backend = "mongo" /\ poll[r].pc \in {"delete", "deleteLost"}
  /\ pairing' = IF pairing[poll[r].page].st # poll[r].st THEN pairing
                ELSE [pairing EXCEPT ![poll[r].page] = NoPairing]
  /\ Answer(r, poll[r].st)
  /\ UNCHANGED <<does, cb, op, tables, faults>>

--------------------------------------------------------------------------------
(* The callback *)

Goto(c, pc) == cb' = [cb EXCEPT ![c].pc = pc]
CbAt(c, pc) == cb[c].pc = pc /\ UNCHANGED <<does, web, op, faults>>

Known == {cb[c].user : c \in Callbacks} \ {None}

\* A state that was signed for a pairing, and is no older than it may be (600 s, as long as a
\* pairing lasts).  A callback that fails this, or that brings Discord's refusal, ends here.
verifyState(w) == pairing[w].st # "none"

\* A browser arrives with a code and a state that names the pairing; one authorisation may
\* arrive twice.  People differ by name only: a new one is the first that has not come yet.
callback(w, u) ==
  /\ u \in Known \/ u = CHOOSE v \in Users : v \notin Known \/ Users = Known
  /\ verifyState(w) /\ \E c \in Callbacks : cb[c] = NoCallback
  /\ cb' = [cb EXCEPT ![CHOOSE c \in Callbacks : cb[c] = NoCallback] =
               [NoCallback EXCEPT !.pc = "check", !.page = w, !.user = u,
                                                !.left = Attempts]]
  /\ UNCHANGED <<does, web, pairing, op, tables, faults>>

findByPairId(c) ==
  /\ CbAt(c, "check") /\ Goto(c, IF Pending(cb[c].page) THEN "exchange" ELSE "done")
  /\ UNCHANGED <<pairing, tables>>

\* A call of Discord's API: a failure of either fails the pairing.
Discord(c, then) ==
  /\ \/ Goto(c, then) /\ UNCHANGED faults
     \/ "faults" \in does /\ faults < MaxFaults /\ faults' = faults + 1 /\ Goto(c, "fail")
  /\ UNCHANGED <<does, web, op, pairing, tables>>

exchangeCode(c) == cb[c].pc = "exchange" /\ Discord(c, "fetch")
fetchUser(c) == cb[c].pc = "fetch" /\ Discord(c, "find")

\* findByDcId; a blocked identity fails the pairing.
findByDcId(c) ==
  /\ CbAt(c, "find")
  /\ LET g == guests[cb[c].user]
     IN  IF g = None THEN Goto(c, "uid")
         ELSE cb' = [cb EXCEPT ![c].pc = IF g.renovation THEN "fail" ELSE "issue", ![c].uid = g.uid]
  /\ UNCHANGED <<pairing, tables>>

nextUid(c) ==
  /\ CbAt(c, "uid")
  /\ cb' = [cb EXCEPT ![c].pc = "guest",
                      ![c].uid = IF Provisioned = {} THEN FIRST_UID
                                 ELSE Max({guests[u].uid : u \in Provisioned}) + 1]
  /\ UNCHANGED <<pairing, tables>>

NewGuest(uid) == [uid |-> uid, access |-> 0, refresh |-> 0, renovation |-> FALSE]

\* Mutant: a conflict overwrites the row.
insertUserUpsert(c) ==
  /\ CbAt(c, "guest") /\ Goto(c, "account")
  /\ guests' = [guests EXCEPT ![cb[c].user] = NewGuest(cb[c].uid)]
  /\ UNCHANGED <<pairing, accounts, issued, dead>>

\* A conflict starts the provisioning again, from nextUid, until the attempts are used up and
\* the error goes to the global handler.
withUidRetry(c) ==
  cb' = [cb EXCEPT ![c].left = @ - 1, ![c].pc = IF cb[c].left > 1 THEN "uid" ELSE "done"]

\* dc_id is unique; uid is in Postgres, in MongoDB it is a plain index.
guestConflict(u, uid) ==
  \/ guests[u] # None
  \/ backend = "pg" /\ \E v \in Provisioned : guests[v].uid = uid

insertUser(c) ==
  /\ CbAt(c, "guest")
  /\ IF guestConflict(cb[c].user, cb[c].uid) THEN withUidRetry(c) /\ UNCHANGED guests
     ELSE Goto(c, "account") /\ guests' = [guests EXCEPT ![cb[c].user] = NewGuest(cb[c].uid)]
  /\ UNCHANGED <<pairing, accounts, issued, dead>>

\* uid is unique among the accounts of both: the guest row is there already.
insertAccount(c) ==
  /\ CbAt(c, "account")
  /\ IF \E v \in accounts : guests[v].uid = cb[c].uid THEN withUidRetry(c) /\ UNCHANGED accounts
     ELSE Goto(c, "issue") /\ accounts' = accounts \cup {cb[c].user}
  /\ UNCHANGED <<pairing, guests, issued, dead>>

\* Both tokens are replaced.
setTokens(u, n) == guests' = [guests EXCEPT ![u].access = n, ![u].refresh = n]

issueTokens(c) ==
  /\ CbAt(c, "issue") /\ issued' = issued + 1 /\ setTokens(cb[c].user, issued')
  /\ cb' = [cb EXCEPT ![c].pc = "complete",
                      ![c].url = [user |-> cb[c].user, uid |-> cb[c].uid, token |-> issued']]
  /\ UNCHANGED <<pairing, accounts, dead>>

\* Mutant: the row's status is not looked at.
markCompletedAgain(c) ==
  /\ CbAt(c, "complete") /\ Goto(c, "done")
  /\ pairing' = [pairing EXCEPT ![cb[c].page] = [@ EXCEPT !.st = "completed", !.url = cb[c].url]]
  /\ UNCHANGED tables

\* Only a pending row is written; otherwise the page says that the session has expired.
markCompleted(c) ==
  /\ CbAt(c, "complete") /\ Goto(c, "done")
  /\ pairing' = IF ~Pending(cb[c].page) THEN pairing
                ELSE [pairing EXCEPT ![cb[c].page].st = "completed", ![cb[c].page].url = cb[c].url]
  /\ UNCHANGED tables

markFailed(c) ==
  /\ CbAt(c, "fail") /\ Goto(c, "done")
  /\ pairing' = IF ~Pending(cb[c].page) THEN pairing
                ELSE [pairing EXCEPT ![cb[c].page].st = "failed"]
  /\ UNCHANGED tables

\* A query fails: the global error handler answers, the pairing stays as it is.
callbackThrows(c) ==
  /\ "faults" \in does /\ faults < MaxFaults /\ cb[c].pc \notin {"none", "done"}
  /\ faults' = faults + 1 /\ Goto(c, "done")
  /\ UNCHANGED <<does, web, op, pairing, tables>>

Callback(c) ==
  \/ findByPairId(c) \/ exchangeCode(c) \/ fetchUser(c) \/ findByDcId(c) \/ nextUid(c) \/ insertUser(c)
  \/ insertAccount(c) \/ issueTokens(c) \/ markCompleted(c) \/ markFailed(c)

--------------------------------------------------------------------------------
(* The tokens: inspect, exchange, the Graph paths, refresh and logout *)

\* A request of a client that presents the tokens of u; `seen' is the refresh token it read.
StartOp(pc, u) ==
  /\ "ops" \in does /\ u \in Provisioned /\ \E o \in TokenOps : op[o] = NoOp
  /\ op' = [op EXCEPT ![CHOOSE o \in TokenOps : op[o] = NoOp] =
               [pc |-> pc, user |-> u, seen |-> IF pc = "refresh" THEN guests[u].refresh ELSE 0]]
OpsOnly == UNCHANGED <<does, web, pairing, cb, faults>>

\* Of a blocked identity the tokens are cleared next.  (An unknown or an expired token ends
\* any of these requests; an access token that is good changes nothing by itself.)
validateAccessToken(u) ==
  /\ StartOp("clear", u) /\ guests[u].access # 0 /\ guests[u].renovation
  /\ UNCHANGED tables /\ OpsOnly
inspect(u) == validateAccessToken(u)
exchange(u) == validateAccessToken(u)
withUser(u) == validateAccessToken(u)
debugToken(u) == validateAccessToken(u)

\* POST /oauth/token: the refresh token is found; the same for a blocked identity.
validateRefreshToken(u) ==
  /\ StartOp("clear", u) /\ guests[u].refresh # 0 /\ guests[u].renovation
  /\ UNCHANGED tables /\ OpsOnly
refreshLookup(u) ==
  /\ StartOp("refresh", u) /\ guests[u].refresh # 0 /\ ~guests[u].renovation /\ issued < MaxIssued
  /\ UNCHANGED tables /\ OpsOnly

\* Mutant: the row is written back as it was read, with the new access token.
refreshAccessTokenRow(o) ==
  /\ op[o].pc = "refresh" /\ issued' = issued + 1
  /\ guests' = [guests EXCEPT ![op[o].user].access = issued', ![op[o].user].refresh = op[o].seen]
  /\ op' = [op EXCEPT ![o] = NoOp]
  /\ UNCHANGED <<accounts, dead>> /\ OpsOnly

refreshAccessToken(o) ==
  /\ op[o].pc = "refresh" /\ issued' = issued + 1
  /\ guests' = [guests EXCEPT ![op[o].user].access = issued'] /\ op' = [op EXCEPT ![o] = NoOp]
  /\ UNCHANGED <<accounts, dead>> /\ OpsOnly

\* GET /oauth/logout: both tokens name the identity.
logoutLookup(u) ==
  /\ StartOp("clear", u) /\ guests[u].access # 0 /\ guests[u].refresh # 0
  /\ UNCHANGED tables /\ OpsOnly

clearTokens(o) ==
  /\ op[o].pc = "clear" /\ op' = [op EXCEPT ![o] = NoOp]
  /\ LET g == guests[op[o].user]
     IN  /\ dead' = dead \cup ({g.access, g.refresh} \ {0})
         /\ guests' = [guests EXCEPT ![op[o].user].access = 0, ![op[o].user].refresh = 0]
  /\ UNCHANGED <<accounts, issued>> /\ OpsOnly

\* The operator blocks an identity (external: an UPDATE of the column).
renovate(u) ==
  /\ "block" \in does /\ u \in Provisioned /\ ~guests[u].renovation
  /\ guests' = [guests EXCEPT ![u].renovation = TRUE]
  /\ UNCHANGED <<does, web, pairing, cb, op, accounts, issued, dead, faults>>

Next ==
  \/ createPending
  \/ \E w \in Pages : \/ expire(w) \/ startPairingSweeper(w) \/ pollStart(w) \/ pollLost(w)
                      \/ pollTimeout(w) \/ \E u \in Users : callback(w, u)
  \/ \E r \in Polls : consumeSelect(r) \/ consumeDelete(r) \/ mongoConsumeDelete(r)
  \/ \E c \in Callbacks : Callback(c) \/ callbackThrows(c)
  \/ \E o \in TokenOps : refreshAccessToken(o) \/ clearTokens(o)
  \/ \E u \in Users : \/ inspect(u) \/ exchange(u) \/ withUser(u) \/ debugToken(u)
                      \/ validateRefreshToken(u) \/ refreshLookup(u) \/ logoutLookup(u)
                      \/ renovate(u)

Spec == Init /\ [][Next]_vars

--------------------------------------------------------------------------------
(* Properties *)

Provisioning(u) == \E c \in Callbacks : cb[c].user = u /\ cb[c].pc = "account"

\* However sign-ins race, a URL names the uid its person keeps; in Postgres two people never
\* share a uid, and a guest ends up with an account row unless a query failed.
Identity ==
  /\ \A w \in Pages : pairing[w].st = "completed" =>
       guests[pairing[w].url.user] # None /\ guests[pairing[w].url.user].uid = pairing[w].url.uid
  /\ backend = "pg" =>
       /\ \A u, v \in Provisioned : guests[u].uid = guests[v].uid => u = v
       /\ faults = 0 => \A u \in Provisioned : u \in accounts \/ Provisioning(u)

\* The outcome of a pairing in Postgres is handed out once (pair.js: "single-use"), also when
\* a poll is repeated while the server still works on the one before.
SingleUse == backend = "pg" => \A w \in Pages : served[w] <= 1

\* A pairing as module Pairing sees it.
Phase(w) ==
  IF page[w] = "closed" THEN [st |-> "new", url |-> None]
  ELSE IF pairing[w].st = "none" THEN [st |-> "gone", url |-> None]
  ELSE [st |-> pairing[w].st, url |-> pairing[w].url]

Bridge == INSTANCE Pairing WITH phase <- [w \in Pages |-> Phase(w)]

\* A pairing is decided at most once and taken away once: no second callback turns a failed or
\* completed pairing into something else or a URL into another, and none brings back one that
\* was handed out or has expired.
PairingLife == Bridge!Spec

\* A token that a logout, or the lookup of a blocked identity, has cleared never comes back,
\* also when a refresh with it was under way.
ClearedStaysCleared ==
  \A u \in Provisioned : guests[u].access \notin dead /\ guests[u].refresh \notin dead

--------------------------------------------------------------------------------
(* The inductive invariant of the proofs (module SignInProofs). *)

Urls == [user : Users, uid : Nat, token : Nat]
Guests == [uid : Nat, access : Nat, refresh : Nat, renovation : BOOLEAN]
ASSUME NoneApart == None \notin Guests /\ None \notin Urls /\ None \notin Users

Running == {"check", "exchange", "fetch", "find", "uid", "guest", "account", "issue", "complete",
            "fail"}

PageStates == {"closed", "idle", "waiting", "timedout", "expired", "completed", "failed"}
PollRec == [pc : {"done", "select", "selectLost", "delete", "deleteLost"},
            page : Pages \cup {None}, st : {"none", "pending", "completed", "failed"}]
PairingRec == [st : {"none", "pending", "completed", "failed"}, live : BOOLEAN,
               url : Urls \cup {None}]
CallbackRec == [pc : {"none", "done"} \cup Running, page : Pages \cup {None},
                user : Users \cup {None}, uid : Nat, left : Int, url : Urls \cup {None}]
OpRec == [pc : {"done", "clear", "refresh"}, user : Users \cup {None}, seen : Nat]

\* Every variable has its type.
TypeOK ==
  /\ page \in [Pages -> PageStates] /\ poll \in [Polls -> PollRec]
  /\ pairing \in [Pages -> PairingRec] /\ cb \in [Callbacks -> CallbackRec]
  /\ op \in [TokenOps -> OpRec] /\ guests \in [Users -> Guests \cup {None}]
  /\ accounts \subseteq Users /\ issued \in Nat /\ dead \subseteq Nat
  /\ served \in [Pages -> Nat] /\ faults \in Nat

\* nextUid's maximum exists.
UidsBounded == \E b \in Nat : \A u \in Provisioned : guests[u].uid <= b

\* A row is there only after its page was opened, and holds a URL only once completed; a poll
\* belongs to an open page, and deletes what it saw decided.
RowsOK ==
  /\ \A w \in Pages :
       /\ page[w] = "closed" => pairing[w].st = "none"
       /\ pairing[w].st = "completed" <=> pairing[w].url # None
  /\ \A r \in Polls : poll[r].pc # "done" =>
       poll[r].page \in Pages /\ page[poll[r].page] # "closed"
  /\ \A r \in Polls : poll[r].pc \in {"delete", "deleteLost"} => poll[r].st \in {"completed", "failed"}

\* What was handed out is gone.
ServedGone ==
  backend = "pg" => \A w \in Pages :
    served[w] = 0 \/ (served[w] = 1 /\ page[w] # "closed" /\ pairing[w].st = "none")

\* A callback past the provisioning carries its person's uid, and so does the URL it made; a
\* token request is about an identity that exists.
CarriesUid ==
  /\ \A c \in Callbacks :
       /\ cb[c].pc \in Running => cb[c].page \in Pages /\ cb[c].user \in Users
       /\ cb[c].pc \in {"account", "issue", "complete"} =>
            cb[c].user \in Provisioned /\ guests[cb[c].user].uid = cb[c].uid
       /\ cb[c].pc = "complete" =>
            cb[c].url # None /\ cb[c].url.user = cb[c].user /\ cb[c].url.uid = cb[c].uid
  /\ \A o \in TokenOps : op[o].pc # "done" => op[o].user \in Provisioned
  /\ accounts \subseteq Provisioned

\* Every token was issued once, to one identity; none of those in use is dead.
Tokens(u) == {guests[u].access, guests[u].refresh} \ {0}
TokensApart ==
  /\ dead \subseteq 1 .. issued
  /\ \A u \in Provisioned : Tokens(u) \subseteq (1 .. issued) \ dead
  /\ \A u, v \in Provisioned : u # v => Tokens(u) \cap Tokens(v) = {}

SignInInv ==
  TypeOK /\ UidsBounded /\ RowsOK /\ ServedGone /\ CarriesUid /\ TokensApart /\ Identity
================================================================================
