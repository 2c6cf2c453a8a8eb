--------------------------------- MODULE SignInProofs ---------------------------------
(***************************************************************************)
(* Proofs about the sign-in, for every number of people, pages, polls,     *)
(* callbacks and token requests, on Postgres and on MongoDB.               *)
(***************************************************************************)
EXTENDS SignIn, WellFoundedInduction, TLAPS

WebStep ==
  \/ createPending
  \/ \E w \in Pages : expire(w) \/ startPairingSweeper(w) \/ pollStart(w) \/ pollLost(w) \/ pollTimeout(w)
  \/ \E r \in Polls : consumeSelect(r) \/ consumeDelete(r) \/ mongoConsumeDelete(r)
CallbackStep ==
  \/ \E w \in Pages, u \in Users : callback(w, u)
  \/ \E c \in Callbacks : Callback(c) \/ callbackThrows(c)
TokenStep ==
  \/ \E o \in TokenOps : refreshAccessToken(o) \/ clearTokens(o)
  \/ \E u \in Users : \/ validateAccessToken(u) \/ validateRefreshToken(u) \/ refreshLookup(u)
                      \/ logoutLookup(u)

\* A step is one of the WebView's, of a callback, of a token request, or the operator's.
LEMMA StepKinds ==
  ASSUME [Next]_vars
  PROVE  WebStep \/ CallbackStep \/ TokenStep \/ (\E u \in Users : renovate(u)) \/ UNCHANGED vars
BY DEF Next, WebStep, CallbackStep, TokenStep, inspect, exchange, withUser, debugToken

\* A bounded, inhabited set of natural numbers has a maximum.
LEMMA MaxExists ==
  ASSUME NEW S \in SUBSET Nat, S # {}, NEW b \in Nat, \A x \in S : x <= b
  PROVE  Max(S) \in S
<1> DEFINE B == {n \in Nat : \A x \in S : x <= n}
           R == OpToRel(<, Nat)
<1>1. PICK m \in B : \A n \in B : ~(<<n, m>> \in R)
  <2>1. b \in B /\ B \subseteq Nat
    OBVIOUS
  <2> HIDE DEF R, B
  <2> QED
    BY <2>1, NatLessThanWellFounded, WFMin DEF R
<1>2. m \in Nat /\ (\A x \in S : x <= m /\ x \in Nat) /\ \A n \in B : ~(n < m)
  BY <1>1 DEF OpToRel
<1>3. m \in S
  <2> SUFFICES ASSUME m \notin S PROVE FALSE
    OBVIOUS
  <2>1. \A x \in S : x < m /\ x <= m - 1
    BY <1>2
  <2>2. m - 1 \in Nat /\ m - 1 < m
    <3>1. PICK x \in S : TRUE
      OBVIOUS
    <3>2. x \in Nat /\ x < m
      BY <1>2, <2>1
    <3> QED
      BY <1>2, <3>2
  <2>3. m - 1 \in B
    BY <2>1, <2>2
  <2> QED
    BY <1>2, <2>2, <2>3
<1>4. \A x \in S : m >= x
  BY <1>2
<1> QED
  BY <1>3, <1>4 DEF Max

\* A step of callback c assigns its own record, which keeps its page and its person; how it
\* comes to the commands that write a row.
LEMMA CallbackPut ==
  ASSUME TypeOK, CarriesUid, UidsBounded, NEW c \in Callbacks, Callback(c) \/ callbackThrows(c)
  PROVE  \E x \in CallbackRec :
           /\ cb' = [cb EXCEPT ![c] = x]
           /\ x.page = cb[c].page /\ x.user = cb[c].user /\ x.pc # "none" /\ cb[c].pc \in Running
           /\ x.pc = "account" =>
                /\ insertUser(c) /\ x.uid = cb[c].uid /\ ~guestConflict(x.user, x.uid)
                /\ guests' = [guests EXCEPT ![x.user] = NewGuest(x.uid)]
           /\ x.pc = "issue" =>
                \/ insertAccount(c) /\ x.uid = cb[c].uid
                \/ guests[x.user] # None /\ x.uid = guests[x.user].uid /\ UNCHANGED tables
           /\ x.pc = "complete" =>
                /\ issueTokens(c) /\ x.uid = cb[c].uid
                /\ x.url = [user |-> x.user, uid |-> x.uid, token |-> issued']
<1> USE DEF tables, web, Goto, CbAt
<1>0. cb[c] \in CallbackRec /\ cb \in [Callbacks -> CallbackRec]
  BY DEF TypeOK
<1>1. ASSUME NEW p \in {"done", "exchange", "fetch", "find", "fail", "uid"}, Goto(c, p), cb[c].pc \in Running
      PROVE  \E x \in CallbackRec :
               /\ cb' = [cb EXCEPT ![c] = x] /\ x.page = cb[c].page /\ x.user = cb[c].user
               /\ x.pc = p
  <2>1. [cb[c] EXCEPT !.pc = p] \in CallbackRec
    BY <1>0 DEF CallbackRec, Running
  <2>2. cb' = [cb EXCEPT ![c] = [cb[c] EXCEPT !.pc = p]]
    BY <1>0, <1>1
  <2> QED
    BY <1>0, <2>1, <2>2 DEF CallbackRec
<1>2. CASE findByPairId(c) \/ exchangeCode(c) \/ fetchUser(c) \/ markCompleted(c) \/ markFailed(c)
           \/ callbackThrows(c)
  <2>1. cb[c].pc \in Running
    BY <1>0, <1>2 DEF findByPairId, exchangeCode, fetchUser, markCompleted, markFailed, callbackThrows,
                Running, CallbackRec
  <2>2. \E p \in {"done", "exchange", "fetch", "find", "fail", "uid"} : Goto(c, p)
    BY <1>2 DEF findByPairId, exchangeCode, fetchUser, Discord, markCompleted, markFailed, callbackThrows
  <2> QED
    BY <1>1, <2>1, <2>2
<1>3. CASE findByDcId(c)
  <2> DEFINE g == guests[cb[c].user]
             x == [cb[c] EXCEPT !.pc = IF g.renovation THEN "fail" ELSE "issue", !.uid = g.uid]
  <2>1. cb[c].pc = "find" /\ "find" \in Running /\ cb[c].user \in Users
    BY <1>3 DEF findByDcId, CarriesUid, Running
  <2>2. CASE g = None
    BY <1>1, <1>3, <2>1, <2>2 DEF findByDcId
  <2>3. CASE g # None
    <3>1. g.uid \in Nat
      BY <2>1, <2>3 DEF TypeOK, Guests
    <3>2. x \in CallbackRec
      BY <1>0, <3>1 DEF CallbackRec, Running
    <3>3. cb' = [cb EXCEPT ![c] = x]
      BY <1>0, <1>3, <2>3 DEF findByDcId
    <3>4. x.page = cb[c].page /\ x.user = cb[c].user /\ x.uid = g.uid /\ x.pc \in {"fail", "issue"}
      BY <1>0 DEF CallbackRec
    <3> HIDE DEF x
    <3> QED
      BY <1>3, <2>1, <2>3, <3>2, <3>3, <3>4 DEF findByDcId
  <2> QED
    BY <2>2, <2>3
<1>4. CASE nextUid(c)
  <2> DEFINE S == {guests[u].uid : u \in Provisioned}
             n == IF Provisioned = {} THEN FIRST_UID ELSE Max(S) + 1
             x == [cb[c] EXCEPT !.pc = "guest", !.uid = n]
  <2>1. \A u \in Provisioned : guests[u].uid \in Nat
    BY DEF TypeOK, Provisioned, Guests
  <2>2. S \in SUBSET Nat /\ (Provisioned # {} => S # {})
    BY <2>1
  <2>3. \E b \in Nat : \A y \in S : y <= b
    BY DEF UidsBounded
  <2>4. Provisioned # {} => Max(S) \in Nat
    <3> HIDE DEF S
    <3> QED
      BY <2>2, <2>3, MaxExists
  <2>5. n \in Nat
    BY <2>4 DEF FIRST_UID
  <2>6. cb' = [cb EXCEPT ![c].pc = "guest", ![c].uid = n] /\ cb[c].pc = "uid" /\ "uid" \in Running
    BY <1>4 DEF nextUid, Running
  <2>7. x \in CallbackRec /\ cb' = [cb EXCEPT ![c] = x]
        /\ x.page = cb[c].page /\ x.user = cb[c].user /\ x.pc = "guest"
    <3> HIDE DEF n
    <3>1. x \in CallbackRec
      BY <1>0, <2>5 DEF CallbackRec, Running
    <3>2. cb' = [cb EXCEPT ![c] = x]
      BY <1>0, <2>6
    <3>3. x.page = cb[c].page /\ x.user = cb[c].user /\ x.pc = "guest"
      BY <1>0 DEF CallbackRec
    <3> QED
      BY <3>1, <3>2, <3>3
  <2> HIDE DEF x
  <2> QED
    BY <2>6, <2>7
<1>5. CASE withUidRetry(c) /\ cb[c].pc \in Running
  <2> DEFINE k == cb[c].left - 1
             p == IF cb[c].left > 1 THEN "uid" ELSE "done"
             x == [cb[c] EXCEPT !.left = k, !.pc = p]
  <2>0. k \in Int /\ p \in {"uid", "done"} /\ cb' = [cb EXCEPT ![c].left = k, ![c].pc = p]
    BY <1>0, <1>5 DEF CallbackRec, withUidRetry
  <2> HIDE DEF k, p
  <2>1. x \in CallbackRec
    BY <1>0, <2>0 DEF CallbackRec, Running
  <2>2. cb' = [cb EXCEPT ![c] = x]
    BY <1>0, <2>0
  <2>3. x.page = cb[c].page /\ x.user = cb[c].user /\ x.pc \in {"uid", "done"}
    BY <1>0, <2>0 DEF CallbackRec
  <2> HIDE DEF x
  <2> QED
    BY <1>5, <2>1, <2>2, <2>3
<1>6. CASE (insertUser(c) \/ insertAccount(c)) /\ ~withUidRetry(c)
  <2> DEFINE p == IF cb[c].pc = "guest" THEN "account" ELSE "issue"
             x == [cb[c] EXCEPT !.pc = p]
  <2>1. Goto(c, p) /\ cb[c].pc \in Running
    BY <1>6 DEF insertUser, insertAccount, Running
  <2>2. x \in CallbackRec
    BY <1>0 DEF CallbackRec, Running
  <2>3. cb' = [cb EXCEPT ![c] = x]
    BY <1>0, <2>1
  <2>4. x.page = cb[c].page /\ x.user = cb[c].user /\ x.uid = cb[c].uid /\ x.pc = p
    BY <1>0 DEF CallbackRec
  <2>5. p = "account" => insertUser(c) /\ ~guestConflict(cb[c].user, cb[c].uid)
                         /\ guests' = [guests EXCEPT ![cb[c].user] = NewGuest(cb[c].uid)]
    BY <1>6 DEF insertUser, insertAccount
  <2>6. p \in {"account", "issue"} /\ (p = "issue" => insertAccount(c))
    BY <1>6 DEF insertUser, insertAccount
  <2> HIDE DEF x, p
  <2> QED
    BY <2>1, <2>2, <2>3, <2>4, <2>5, <2>6
<1>7. CASE issueTokens(c)
  <2> DEFINE y == [user |-> cb[c].user, uid |-> cb[c].uid, token |-> issued']
             x == [cb[c] EXCEPT !.pc = "complete", !.url = y]
  <2>1. /\ cb[c].user \in Users /\ issued' \in Nat /\ cb[c].uid \in Nat /\ cb[c].pc \in Running
    BY <1>7 DEF issueTokens, CarriesUid, Running, TypeOK, CallbackRec
  <2>2. y \in Urls
    BY <2>1 DEF Urls
  <2>3. cb' = [cb EXCEPT ![c].pc = "complete", ![c].url = y]
    BY <1>7 DEF issueTokens
  <2>4. /\ x \in CallbackRec /\ cb' = [cb EXCEPT ![c] = x] /\ x.pc = "complete" /\ x.url = y
        /\ x.page = cb[c].page /\ x.user = cb[c].user /\ x.uid = cb[c].uid
    <3> HIDE DEF y
    <3>1. x \in CallbackRec
      BY <1>0, <2>2 DEF CallbackRec, Running
    <3>2. cb' = [cb EXCEPT ![c] = x]
      BY <1>0, <2>3
    <3>3. /\ x.page = cb[c].page /\ x.user = cb[c].user /\ x.pc = "complete" /\ x.url = y
          /\ x.uid = cb[c].uid
      BY <1>0 DEF CallbackRec
    <3> QED
      BY <3>1, <3>2, <3>3
  <2> HIDE DEF x
  <2> QED
    BY <1>7, <2>1, <2>4
<1>8. insertUser(c) \/ insertAccount(c) => cb[c].pc \in Running
  BY DEF insertUser, insertAccount, Running
<1> QED
  BY <1>2, <1>3, <1>4, <1>5, <1>6, <1>7, <1>8 DEF Callback

\* What the assignments of single fields make of a pairing's row ...
LEMMA PairingFields ==
  ASSUME TypeOK, NEW w \in Pages
  PROVE  /\ [pairing EXCEPT ![w].live = FALSE] \in [Pages -> PairingRec]
         /\ [pairing EXCEPT ![w] = NoPairing] \in [Pages -> PairingRec]
<1>1. \A y \in PairingRec : [pairing EXCEPT ![w] = y] \in [Pages -> PairingRec]
  BY DEF TypeOK
<1>2. pairing[w] \in PairingRec
  BY DEF TypeOK
<1>3. [pairing[w] EXCEPT !.live = FALSE] \in PairingRec /\ NoPairing \in PairingRec
  BY <1>2 DEF PairingRec, NoPairing
<1>4. [pairing EXCEPT ![w].live = FALSE] = [pairing EXCEPT ![w] = [pairing[w] EXCEPT !.live = FALSE]]
  BY <1>2 DEF TypeOK
<1> QED
  BY <1>1, <1>3, <1>4

\* ... of a poll ...
LEMMA PollFields ==
  ASSUME TypeOK, NEW r \in Polls
  PROVE  /\ [poll EXCEPT ![r] = NoPoll] \in [Polls -> PollRec]
         /\ \A q \in {"selectLost", "deleteLost"} : [poll[r] EXCEPT !.pc = q] \in PollRec
<1>1. poll[r] \in PollRec /\ NoPoll \in PollRec
  BY DEF TypeOK, NoPoll, PollRec
<1>2. \A q \in {"selectLost", "deleteLost"} : [poll[r] EXCEPT !.pc = q] \in PollRec
  BY <1>1 DEF PollRec
<1> QED
  BY <1>1, <1>2 DEF TypeOK

\* ... and of an identity.
LEMMA GuestFields ==
  ASSUME TypeOK, NEW u \in Provisioned
  PROVE  /\ [guests EXCEPT ![u].renovation = TRUE] \in [Users -> Guests \cup {None}]
         /\ \A n \in Nat : [guests EXCEPT ![u].access = n] \in [Users -> Guests \cup {None}]
         /\ \A n \in Nat : [guests EXCEPT ![u].access = n, ![u].refresh = n]
                             \in [Users -> Guests \cup {None}]
<1>1. \A y \in Guests : [guests EXCEPT ![u] = y] \in [Users -> Guests \cup {None}]
  BY DEF TypeOK
<1>2. u \in Users /\ guests[u] \in Guests
  BY DEF TypeOK, Provisioned
<1>3. [guests[u] EXCEPT !.renovation = TRUE] \in Guests
  BY <1>2 DEF Guests
<1>4. [guests EXCEPT ![u].renovation = TRUE]
        = [guests EXCEPT ![u] = [guests[u] EXCEPT !.renovation = TRUE]]
  BY <1>2 DEF TypeOK
<1>5. ASSUME NEW n \in Nat
      PROVE  /\ [guests EXCEPT ![u].access = n] \in [Users -> Guests \cup {None}]
             /\ [guests EXCEPT ![u].access = n, ![u].refresh = n] \in [Users -> Guests \cup {None}]
  <2>1. /\ [guests[u] EXCEPT !.access = n] \in Guests
        /\ [guests[u] EXCEPT !.access = n, !.refresh = n] \in Guests
    BY <1>2 DEF Guests
  <2>2. /\ [guests EXCEPT ![u].access = n] = [guests EXCEPT ![u] = [guests[u] EXCEPT !.access = n]]
        /\ [guests EXCEPT ![u].access = n, ![u].refresh = n]
              = [guests EXCEPT ![u] = [guests[u] EXCEPT !.access = n, !.refresh = n]]
    BY <1>2 DEF TypeOK
  <2> QED
    BY <1>1, <2>1, <2>2
<1> QED
  BY <1>1, <1>3, <1>4, <1>5

\* The WebView's steps keep the types.
LEMMA WebType ==
  ASSUME TypeOK, RowsOK, WebStep
  PROVE  TypeOK'
<1> USE DEF tables, web
<1>1. CASE createPending
  <2>1. [st |-> "pending", live |-> TRUE, url |-> None] \in PairingRec
    BY DEF PairingRec
  <2> QED
    BY <1>1, <2>1 DEF TypeOK, createPending, PageStates
<1>2. ASSUME NEW w \in Pages, expire(w) \/ startPairingSweeper(w) PROVE TypeOK'
  <2>1. pairing' \in [Pages -> PairingRec]
    BY <1>2, PairingFields DEF expire, startPairingSweeper
  <2> QED
    BY <1>2, <2>1 DEF TypeOK, expire, startPairingSweeper
<1>3. ASSUME NEW w \in Pages, pollStart(w) PROVE TypeOK'
  <2>1. [pc |-> "select", page |-> w, st |-> "none"] \in PollRec
    BY DEF PollRec
  <2> QED
    BY <1>3, <2>1 DEF TypeOK, pollStart, PageStates
<1>4. ASSUME NEW w \in Pages, pollLost(w) PROVE TypeOK'
  <2>1. poll' \in [Polls -> PollRec]
    <3>1. \A r \in Polls : \A q \in {"selectLost", "deleteLost"} :
             poll[r] \in PollRec /\ [poll[r] EXCEPT !.pc = q] \in PollRec
      BY PollFields DEF TypeOK
    <3>2. \A r \in Polls :
            (IF poll[r].pc \in {"select", "selectLost"} THEN "selectLost" ELSE "deleteLost")
              \in {"selectLost", "deleteLost"}
      OBVIOUS
    <3> QED
      BY <1>4, <3>1, <3>2 DEF pollLost
  <2> QED
    BY <1>4, <2>1 DEF TypeOK, pollLost, PageStates
<1>5. ASSUME NEW w \in Pages, pollTimeout(w) PROVE TypeOK'
  BY <1>5 DEF TypeOK, pollTimeout, PageStates
<1>6. ASSUME NEW r \in Polls, NEW st \in {"pending", "expired", "completed", "failed"},
             Answer(r, st), poll[r].page \in Pages
      PROVE  /\ page' \in [Pages -> PageStates]
             /\ poll' \in [Polls -> PollRec]
             /\ served' \in [Pages -> Nat]
  <2>1. poll' \in [Polls -> PollRec]
    BY <1>6, PollFields DEF Answer
  <2> QED
    BY <1>6, <2>1 DEF TypeOK, Answer, PageStates
<1>7. ASSUME NEW r \in Polls, consumeSelect(r) PROVE TypeOK'
  <2>1. poll[r].page \in Pages
    BY <1>7 DEF consumeSelect, RowsOK
  <2>2. CASE Answer(r, "expired") \/ Answer(r, "pending")
    BY <1>6, <1>7, <2>1, <2>2 DEF TypeOK, consumeSelect
  <2>3. CASE ~(Answer(r, "expired") \/ Answer(r, "pending"))
    <3>1. pairing[poll[r].page].st \in {"none", "pending", "completed", "failed"}
      BY <2>1 DEF TypeOK, PairingRec
    <3> DEFINE x == [poll[r] EXCEPT !.st = pairing[poll[r].page].st,
                                    !.pc = IF poll[r].pc = "select" THEN "delete" ELSE "deleteLost"]
    <3>2. x \in PollRec
      BY <3>1 DEF TypeOK, PollRec
    <3>3. poll' \in [Polls -> PollRec]
      <4>1. poll' = [poll EXCEPT ![r] = x]
        BY <1>7, <2>3 DEF consumeSelect, TypeOK
      <4> HIDE DEF x
      <4> QED
        BY <3>2, <4>1 DEF TypeOK
    <3> QED
      BY <1>7, <2>3, <3>3 DEF TypeOK, consumeSelect
  <2> QED
    BY <2>2, <2>3
<1>8. ASSUME NEW r \in Polls, consumeDelete(r) \/ mongoConsumeDelete(r) PROVE TypeOK'
  <2>1. poll[r].page \in Pages /\ poll[r].st \in {"completed", "failed"}
    BY <1>8 DEF consumeDelete, mongoConsumeDelete, RowsOK
  <2>2. PICK st \in {"pending", "expired", "completed", "failed"} : Answer(r, st)
    BY <1>8, <2>1 DEF consumeDelete, mongoConsumeDelete
  <2>3. pairing' \in [Pages -> PairingRec]
    BY <1>8, <2>1, PairingFields DEF consumeDelete, mongoConsumeDelete, TypeOK
  <2> QED
    BY <1>6, <1>8, <2>1, <2>2, <2>3 DEF TypeOK, consumeDelete, mongoConsumeDelete
<1> QED
  BY <1>1, <1>2, <1>3, <1>4, <1>5, <1>7, <1>8 DEF WebStep

\* So do the callbacks' ...
LEMMA CallbackType ==
  ASSUME TypeOK, CarriesUid, UidsBounded, CallbackStep
  PROVE  TypeOK'
<1> USE DEF tables, web, Goto, CbAt
<1>1. ASSUME NEW w \in Pages, NEW u \in Users, callback(w, u) PROVE TypeOK'
  <2> DEFINE x == [NoCallback EXCEPT !.pc = "check", !.page = w, !.user = u, !.left = Attempts]
  <2>1. NoCallback \in CallbackRec /\ Attempts \in Int
    BY SignInAssumption DEF CallbackRec, NoCallback
  <2>2. x \in CallbackRec
    BY <2>1 DEF CallbackRec, Running
  <2>3. cb' = [cb EXCEPT ![CHOOSE c \in Callbacks : cb[c] = NoCallback] = x]
    BY <1>1 DEF callback
  <2> HIDE DEF x
  <2> QED
    BY <1>1, <2>2, <2>3 DEF TypeOK, callback
<1>2. ASSUME NEW c \in Callbacks, Callback(c) \/ callbackThrows(c)
      PROVE  cb' \in [Callbacks -> CallbackRec]
  <2>1. PICK x \in CallbackRec : cb' = [cb EXCEPT ![c] = x]
    BY <1>2, CallbackPut
  <2> QED
    BY <2>1 DEF TypeOK
<1>3. ASSUME NEW c \in Callbacks, findByPairId(c) \/ exchangeCode(c) \/ fetchUser(c)
                                  \/ findByDcId(c) \/ nextUid(c) \/ callbackThrows(c)
      PROVE TypeOK'
  <2>1. faults' \in Nat
    BY <1>3 DEF findByPairId, exchangeCode, fetchUser, findByDcId, nextUid, callbackThrows, Discord,
                TypeOK
  <2>2. UNCHANGED <<page, poll, served, pairing, op, tables>>
    BY <1>3 DEF findByPairId, exchangeCode, fetchUser, findByDcId, nextUid, callbackThrows, Discord
  <2> QED
    BY <1>2, <1>3, <2>1, <2>2 DEF TypeOK, Callback
<1>4. ASSUME NEW c \in Callbacks, insertUser(c) PROVE TypeOK'
  <2>1. cb[c].user \in Users /\ cb[c].uid \in Nat
    BY <1>4 DEF insertUser, CarriesUid, Running, TypeOK, CallbackRec
  <2>2. NewGuest(cb[c].uid) \in Guests
    BY <2>1 DEF NewGuest, Guests
  <2>3. guests' \in [Users -> Guests \cup {None}]
    BY <1>4, <2>1, <2>2 DEF TypeOK, insertUser
  <2>4. UNCHANGED <<page, poll, served, pairing, op, accounts, issued, dead, faults>>
    BY <1>4 DEF insertUser
  <2> QED
    BY <1>2, <1>4, <2>3, <2>4 DEF TypeOK, Callback
<1>5. ASSUME NEW c \in Callbacks, insertAccount(c) PROVE TypeOK'
  <2>1. cb[c].user \in Users
    BY <1>5 DEF insertAccount, CarriesUid, Running
  <2>2. UNCHANGED <<page, poll, served, pairing, op, guests, issued, dead, faults>>
        /\ accounts' \subseteq Users
    BY <1>5, <2>1 DEF insertAccount, TypeOK
  <2> QED
    BY <1>2, <1>5, <2>2 DEF TypeOK, Callback
<1>6. ASSUME NEW c \in Callbacks, issueTokens(c) PROVE TypeOK'
  <2>1. cb[c].user \in Provisioned /\ issued' \in Nat
    BY <1>6 DEF TypeOK, issueTokens, CarriesUid
  <2>2. guests' \in [Users -> Guests \cup {None}]
    BY <1>6, <2>1, GuestFields DEF issueTokens, setTokens
  <2>3. UNCHANGED <<page, poll, served, pairing, op, accounts, dead, faults>>
    BY <1>6 DEF issueTokens
  <2> QED
    BY <1>2, <1>6, <2>1, <2>2, <2>3 DEF TypeOK, Callback
<1>7. ASSUME NEW c \in Callbacks, markCompleted(c) \/ markFailed(c) PROVE TypeOK'
  <2>1. cb[c].page \in Pages /\ cb[c].url \in Urls \cup {None}
    BY <1>7 DEF markCompleted, markFailed, CarriesUid, Running, TypeOK, CallbackRec
  <2>2. CASE pairing' = pairing
    BY <1>2, <1>7, <2>2 DEF TypeOK, Callback, markCompleted, markFailed
  <2>3. CASE pairing' # pairing
    <3> DEFINE w == cb[c].page
               v == cb[c].url
               x == [pairing[w] EXCEPT !.st = "completed", !.url = v]
               y == [pairing[w] EXCEPT !.st = "failed"]
    <3>1. x \in PairingRec /\ y \in PairingRec
      <4>1. v \in Urls \cup {None} /\ pairing[w] \in PairingRec
        BY <2>1 DEF TypeOK
      <4> HIDE DEF v, w
      <4> QED
        BY <4>1 DEF PairingRec
    <3>2. pairing' \in [Pages -> PairingRec]
      <4>1. pairing' = [pairing EXCEPT ![w] = x] \/ pairing' = [pairing EXCEPT ![w] = y]
        BY <1>7, <2>1, <2>3 DEF markCompleted, markFailed, TypeOK
      <4> HIDE DEF x, y
      <4> QED
        BY <2>1, <3>1, <4>1 DEF TypeOK
    <3>3. UNCHANGED <<page, poll, served, op, tables, faults>>
      BY <1>7 DEF markCompleted, markFailed
    <3> QED
      BY <1>2, <1>7, <3>2, <3>3 DEF TypeOK, Callback
  <2> QED
    BY <2>2, <2>3
<1> QED
  BY <1>1, <1>3, <1>4, <1>5, <1>6, <1>7 DEF CallbackStep, Callback

\* ... and the token requests'.
LEMMA TokenType ==
  ASSUME TypeOK, CarriesUid, TokenStep \/ (\E u \in Users : renovate(u))
  PROVE  TypeOK'
<1> USE DEF tables, web, OpsOnly
<1>1. ASSUME NEW u \in Users, NEW k \in {"clear", "refresh"}, StartOp(k, u), OpsOnly,
             UNCHANGED tables
      PROVE  TypeOK'
  <2>1. guests[u].refresh \in Nat
    BY <1>1 DEF StartOp, Provisioned, TypeOK, Guests
  <2>2. [pc |-> k, user |-> u, seen |-> IF k = "refresh" THEN guests[u].refresh ELSE 0] \in OpRec
    BY <2>1 DEF OpRec
  <2> QED
    BY <1>1, <2>2 DEF TypeOK, StartOp
<1>2. ASSUME NEW o \in TokenOps, refreshAccessToken(o) \/ clearTokens(o) PROVE TypeOK'
  <2>1. op[o].user \in Users /\ op[o].user \in Provisioned /\ guests[op[o].user] \in Guests
    BY <1>2 DEF TypeOK, refreshAccessToken, clearTokens, CarriesUid, Provisioned
  <2>2. NoOp \in OpRec
    BY DEF NoOp, OpRec
  <2>3. op' \in [TokenOps -> OpRec] /\ issued' \in Nat
    BY <1>2, <2>2 DEF TypeOK, refreshAccessToken, clearTokens
  <2>4. guests' \in [Users -> Guests \cup {None}]
    <3>1. CASE refreshAccessToken(o)
      BY <2>1, <2>3, <3>1, GuestFields DEF refreshAccessToken
    <3>2. CASE clearTokens(o)
      <4> DEFINE u == op[o].user
                 x == [guests[u] EXCEPT !.access = 0, !.refresh = 0]
      <4>1. x \in Guests
        BY <2>1 DEF Guests
      <4>2. guests' = [guests EXCEPT ![u] = x]
        BY <2>1, <3>2 DEF clearTokens, TypeOK
      <4> HIDE DEF x
      <4> QED
        BY <2>1, <4>1, <4>2 DEF TypeOK
    <3> QED
      BY <1>2, <3>1, <3>2
  <2>5. dead' \subseteq Nat
    BY <1>2, <2>1 DEF TypeOK, refreshAccessToken, clearTokens, Guests
  <2> QED
    BY <1>2, <2>3, <2>4, <2>5 DEF TypeOK, refreshAccessToken, clearTokens
<1>3. ASSUME NEW u \in Users, renovate(u) PROVE TypeOK'
  <2>1. guests' \in [Users -> Guests \cup {None}]
    BY <1>3, GuestFields DEF renovate
  <2> QED
    BY <1>3, <2>1 DEF TypeOK, renovate
<1> QED
  BY <1>1, <1>2, <1>3 DEF TokenStep, validateAccessToken, validateRefreshToken, refreshLookup,
                          logoutLookup

--------------------------------------------------------------------------------
(* The rows of the pairings. *)

SameRow(w) ==
  /\ pairing'[w].st = pairing[w].st /\ pairing'[w].url = pairing[w].url
  /\ page'[w] = "closed" <=> page[w] = "closed"
OpensRow(w) ==
  /\ page[w] = "closed" /\ page'[w] # "closed"
  /\ pairing'[w].st = "pending" /\ pairing'[w].url = None
DecidesRow(w) ==
  /\ pairing[w].st = "pending" /\ page' = page
  /\ \/ pairing'[w].st = "failed" /\ pairing'[w].url = pairing[w].url
     \/ /\ pairing'[w].st = "completed"
        /\ \E c \in Callbacks : cb[c].pc = "complete" /\ pairing'[w].url = cb[c].url
RemovesRow(w) ==
  /\ pairing[w].st # "none" /\ pairing'[w] = NoPairing
  /\ page'[w] = "closed" <=> page[w] = "closed"

\* A step opens, decides or removes at most one row.
LEMMA RowShape ==
  ASSUME TypeOK, RowsOK, CarriesUid, [Next]_vars
  PROVE  \/ \A w \in Pages : SameRow(w)
         \/ \E w \in Pages : /\ OpensRow(w) \/ DecidesRow(w) \/ RemovesRow(w)
                             /\ \A v \in Pages \ {w} : SameRow(v)
<1> USE DEF web
<1>0. ASSUME page' = page, pairing' = pairing PROVE \A w \in Pages : SameRow(w)
  BY <1>0 DEF SameRow
<1>1. CASE createPending
  <2> DEFINE w == CHOOSE x \in Pages : page[x] = "closed"
  <2>1. w \in Pages /\ page[w] = "closed"
    BY <1>1 DEF createPending
  <2>2. /\ page' = [page EXCEPT ![w] = "idle"]
        /\ pairing' = [pairing EXCEPT ![w] = [st |-> "pending", live |-> TRUE, url |-> None]]
    BY <1>1 DEF createPending
  <2> HIDE DEF w
  <2>3. OpensRow(w) /\ \A v \in Pages \ {w} : SameRow(v)
    BY <2>1, <2>2 DEF TypeOK, OpensRow, SameRow
  <2> QED
    BY <2>1, <2>3
<1>2. ASSUME NEW w \in Pages, expire(w) PROVE \A v \in Pages : SameRow(v)
  <2>1. pairing' = [pairing EXCEPT ![w] = [pairing[w] EXCEPT !.live = FALSE]] /\ page' = page
    BY <1>2 DEF expire, TypeOK
  <2>2. pairing[w] \in PairingRec
    BY DEF TypeOK
  <2>3. pairing'[w].st = pairing[w].st /\ pairing'[w].url = pairing[w].url
    BY <2>1, <2>2 DEF TypeOK, PairingRec
  <2> QED
    BY <2>1, <2>3 DEF TypeOK, SameRow
<1>3. ASSUME NEW w \in Pages, startPairingSweeper(w)
      PROVE  RemovesRow(w) /\ \A v \in Pages \ {w} : SameRow(v)
  BY <1>3 DEF startPairingSweeper, TypeOK, RemovesRow, SameRow
<1>4. ASSUME NEW w \in Pages, pollStart(w) \/ pollLost(w) \/ pollTimeout(w)
      PROVE  \A v \in Pages : SameRow(v)
  BY <1>4 DEF pollStart, pollLost, pollTimeout, SameRow, TypeOK
<1>5. ASSUME NEW r \in Polls, NEW st \in {"pending", "expired", "completed", "failed"},
             Answer(r, st), poll[r].pc # "done"
      PROVE  \A v \in Pages : page'[v] = "closed" <=> page[v] = "closed"
  BY <1>5 DEF Answer, RowsOK, TypeOK
<1>6. ASSUME NEW r \in Polls, consumeSelect(r) PROVE \A v \in Pages : SameRow(v)
  BY <1>5, <1>6 DEF consumeSelect, SameRow
<1>7. ASSUME NEW r \in Polls, consumeDelete(r) \/ mongoConsumeDelete(r)
      PROVE  \/ \A w \in Pages : SameRow(w)
             \/ \E w \in Pages : RemovesRow(w) /\ \A v \in Pages \ {w} : SameRow(v)
  <2> DEFINE w == poll[r].page
  <2>1. w \in Pages /\ poll[r].st \in {"completed", "failed"} /\ poll[r].pc # "done"
    BY <1>7 DEF consumeDelete, mongoConsumeDelete, RowsOK
  <2>2. \E st \in {"pending", "expired", "completed", "failed"} : Answer(r, st)
    BY <1>7, <2>1 DEF consumeDelete, mongoConsumeDelete
  <2>3. \A v \in Pages : page'[v] = "closed" <=> page[v] = "closed"
    BY <1>5, <2>1, <2>2
  <2>4. \/ pairing' = pairing
        \/ pairing[w].st = poll[r].st /\ pairing' = [pairing EXCEPT ![w] = NoPairing]
    BY <1>7 DEF consumeDelete, mongoConsumeDelete
  <2> HIDE DEF w
  <2> QED
    BY <2>1, <2>3, <2>4 DEF SameRow, RemovesRow, TypeOK
<1>8. ASSUME NEW c \in Callbacks, markCompleted(c) \/ markFailed(c)
      PROVE  \/ \A w \in Pages : SameRow(w)
             \/ \E w \in Pages : DecidesRow(w) /\ \A v \in Pages \ {w} : SameRow(v)
  <2> DEFINE w == cb[c].page
             u == cb[c].url
  <2>1. w \in Pages /\ page' = page /\ cb[c].pc \in {"complete", "fail"}
        /\ (cb[c].pc = "complete" <=> markCompleted(c))
    BY <1>8 DEF markCompleted, markFailed, CbAt, CarriesUid, Running
  <2>2. CASE pairing' = pairing
    BY <1>0, <2>1, <2>2
  <2>3. CASE pairing' # pairing
    <3>1. pairing[w].st = "pending"
      BY <1>8, <2>3 DEF markCompleted, markFailed, Pending
    <3>2. \/ /\ cb[c].pc = "complete"
             /\ pairing' = [pairing EXCEPT ![w] = [pairing[w] EXCEPT !.st = "completed", !.url = u]]
          \/ pairing' = [pairing EXCEPT ![w] = [pairing[w] EXCEPT !.st = "failed"]]
      BY <1>8, <2>1, <2>3 DEF markCompleted, markFailed, CbAt, TypeOK
    <3>3. pairing[w] \in PairingRec /\ pairing \in [Pages -> PairingRec]
      BY <2>1 DEF TypeOK
    <3> HIDE DEF w, u
    <3>4. \/ cb[c].pc = "complete" /\ pairing'[w].st = "completed" /\ pairing'[w].url = u
          \/ pairing'[w].st = "failed" /\ pairing'[w].url = pairing[w].url
      BY <2>1, <3>2, <3>3 DEF PairingRec
    <3>5. DecidesRow(w)
      BY <2>1, <3>1, <3>4 DEF DecidesRow, u
    <3>6. \A v \in Pages \ {w} : SameRow(v)
      BY <2>1, <3>2, <3>3 DEF SameRow
    <3> QED
      BY <2>1, <3>5, <3>6
  <2> QED
    BY <2>2, <2>3
<1>9. ASSUME NEW c \in Callbacks, Callback(c) \/ callbackThrows(c), ~(markCompleted(c) \/ markFailed(c))
      PROVE  page' = page /\ pairing' = pairing
  BY <1>9 DEF Callback, callbackThrows, findByPairId, exchangeCode, fetchUser, findByDcId, nextUid,
              insertUser, insertAccount, issueTokens, Discord, CbAt
<1>10. CASE TokenStep \/ (\E u \in Users : renovate(u)) \/ (\E w \in Pages, u \in Users : callback(w, u))
  BY <1>0, <1>10 DEF TokenStep, renovate, callback, refreshAccessToken, clearTokens, OpsOnly,
                     validateAccessToken, validateRefreshToken, refreshLookup, logoutLookup
<1>11. CASE UNCHANGED vars
  BY <1>0, <1>11 DEF vars
<1> QED
  BY <1>0, <1>1, <1>2, <1>3, <1>4, <1>6, <1>7, <1>8, <1>9, <1>10, <1>11, StepKinds
     DEF WebStep, CallbackStep

\* Rows and polls stay as RowsOK says.
LEMMA RowsStep ==
  ASSUME TypeOK, RowsOK, CarriesUid, [Next]_vars
  PROVE  RowsOK'
<1>1. ASSUME NEW w \in Pages
      PROVE  /\ page'[w] = "closed" => pairing'[w].st = "none"
             /\ pairing'[w].st = "completed" <=> pairing'[w].url # None
             /\ page[w] # "closed" => page'[w] # "closed"
  <2>0. /\ page[w] = "closed" => pairing[w].st = "none"
        /\ pairing[w].st = "completed" <=> pairing[w].url # None
    BY DEF RowsOK
  <2>1. CASE SameRow(w)
    BY <2>0, <2>1 DEF SameRow
  <2>2. CASE OpensRow(w)
    BY <2>2 DEF OpensRow
  <2>3. CASE DecidesRow(w)
    BY <2>0, <2>3 DEF DecidesRow, CarriesUid
  <2>4. CASE RemovesRow(w)
    BY <2>0, <2>4 DEF RemovesRow, NoPairing
  <2> QED
    BY <2>1, <2>2, <2>3, <2>4, RowShape
<1>2. ASSUME NEW r \in Polls
      PROVE  /\ poll'[r].pc # "done" => poll'[r].page \in Pages /\ page[poll'[r].page] # "closed"
             /\ poll'[r].pc \in {"delete", "deleteLost"} => poll'[r].st \in {"completed", "failed"}
  <2> USE DEF RowsOK
  <2>0. poll[r] \in PollRec /\ poll \in [Polls -> PollRec]
    BY DEF TypeOK
  <2>1. CASE poll' = poll
    BY <2>1
  <2>2. ASSUME NEW w \in Pages, pollStart(w)
        PROVE  poll'[r] = poll[r] \/ (poll'[r] = [pc |-> "select", page |-> w, st |-> "none"]
                                      /\ page[w] = "idle")
    BY <2>0, <2>2 DEF pollStart
  <2>3. ASSUME NEW w \in Pages, pollLost(w)
        PROVE  \/ poll'[r] = poll[r]
               \/ /\ poll[r].pc # "done" /\ poll'[r].page = poll[r].page /\ poll'[r].st = poll[r].st
                  /\ poll[r].pc \in {"select", "selectLost"} => poll'[r].pc = "selectLost"
    BY <2>0, <2>3 DEF pollLost, PollRec
  <2>4. ASSUME NEW t \in Polls, NEW st, Answer(t, st) PROVE poll'[r] = poll[r] \/ poll'[r] = NoPoll
    BY <2>0, <2>4 DEF Answer
  <2>5. ASSUME NEW t \in Polls, consumeSelect(t), poll'[r] # poll[r], poll'[r] # NoPoll
        PROVE  /\ poll[r].pc # "done" /\ poll'[r].page = poll[r].page
               /\ poll'[r].st \in {"completed", "failed"}
    <3>1. t = r /\ poll[r].pc # "done" /\ poll[r].page \in Pages
      BY <2>0, <2>4, <2>5 DEF consumeSelect
    <3>2. pairing[poll[r].page].st \in {"completed", "failed"}
      BY <2>4, <2>5, <3>1 DEF consumeSelect, Found, mongoFound, pgFound, TypeOK, PairingRec
    <3> DEFINE v == pairing[poll[r].page].st
               q == IF poll[r].pc = "select" THEN "delete" ELSE "deleteLost"
    <3>3. poll' = [poll EXCEPT ![r] = [poll[r] EXCEPT !.st = v, !.pc = q]]
      BY <2>0, <2>4, <2>5, <3>1 DEF consumeSelect
    <3> HIDE DEF v, q
    <3>4. poll'[r].page = poll[r].page /\ poll'[r].st = v
      BY <2>0, <3>3 DEF PollRec
    <3> QED
      BY <3>1, <3>2, <3>4 DEF v
  <2>6. ASSUME NEW t \in Polls, consumeDelete(t) \/ mongoConsumeDelete(t)
        PROVE  poll'[r] = poll[r] \/ poll'[r] = NoPoll
    BY <2>4, <2>6 DEF consumeDelete, mongoConsumeDelete
  <2>7. CASE ~WebStep \/ createPending \/ \E w \in Pages : expire(w) \/ startPairingSweeper(w) \/ pollTimeout(w)
    <3>1. WebStep \/ poll' = poll
      BY StepKinds DEF CallbackStep, TokenStep, renovate, callback, refreshAccessToken, clearTokens,
           OpsOnly, validateAccessToken, validateRefreshToken, refreshLookup, logoutLookup, web, vars,
           Callback, callbackThrows, findByPairId, exchangeCode, fetchUser, findByDcId, nextUid,
           insertUser, insertAccount, issueTokens, markCompleted, markFailed, Discord, CbAt
    <3> QED
      BY <2>1, <2>7, <3>1 DEF createPending, expire, startPairingSweeper, pollTimeout, web
  <2>8. NoPoll.pc = "done"
    BY DEF NoPoll
  <2>9. CASE \E w \in Pages : pollStart(w)
    <3>1. PICK w \in Pages : pollStart(w)
      BY <2>9
    <3>2. CASE poll'[r] = poll[r]
      BY <3>2
    <3>3. CASE poll'[r] = [pc |-> "select", page |-> w, st |-> "none"] /\ page[w] = "idle"
      <4>1. poll'[r].pc = "select" /\ poll'[r].page = w
        BY <3>3
      <4> QED
        BY <3>3, <4>1
    <3> QED
      BY <2>2, <3>1, <3>2, <3>3
  <2>10. CASE \E w \in Pages : pollLost(w)
    BY <2>0, <2>3, <2>10 DEF PollRec
  <2>11. CASE \E t \in Polls : consumeSelect(t)
    BY <2>5, <2>8, <2>11
  <2>12. CASE \E t \in Polls : consumeDelete(t) \/ mongoConsumeDelete(t)
    BY <2>6, <2>8, <2>12
  <2> QED
    BY <2>7, <2>9, <2>10, <2>11, <2>12 DEF WebStep
<1> QED
  BY <1>1, <1>2 DEF RowsOK

\* A poll that is answered with an outcome took the row away: nobody was served before.
LEMMA ServedStep ==
  ASSUME TypeOK, RowsOK, CarriesUid, ServedGone, [Next]_vars
  PROVE  ServedGone'
<1>0. does' = does
  BY StepKinds DEF WebStep, CallbackStep, TokenStep, renovate, callback, refreshAccessToken, clearTokens,
       OpsOnly, validateAccessToken, validateRefreshToken, refreshLookup, logoutLookup, vars,
       Callback, callbackThrows, findByPairId, exchangeCode, fetchUser, findByDcId, nextUid,
       insertUser, insertAccount, issueTokens, markCompleted, markFailed, Discord, CbAt,
       createPending, expire, startPairingSweeper, pollStart, pollLost, pollTimeout, consumeSelect,
       consumeDelete, mongoConsumeDelete
<1>1. SUFFICES ASSUME backend = "pg", NEW w \in Pages
               PROVE  served'[w] = 0 \/ (served'[w] = 1 /\ page'[w] # "closed" /\ pairing'[w].st = "none")
  BY <1>0 DEF ServedGone, backend
<1>2. CASE served'[w] = served[w]
  <2>1. CASE SameRow(w)
    BY <1>1, <1>2, <2>1 DEF SameRow, ServedGone
  <2>2. CASE OpensRow(w)
    BY <1>1, <1>2, <2>2 DEF OpensRow, ServedGone
  <2>3. CASE DecidesRow(w)
    BY <1>1, <1>2, <2>3 DEF DecidesRow, ServedGone
  <2>4. CASE RemovesRow(w)
    BY <1>1, <1>2, <2>4 DEF RemovesRow, ServedGone
  <2> QED
    BY <2>1, <2>2, <2>3, <2>4, RowShape
<1>3. CASE served'[w] # served[w]
  <2>1. PICK r \in Polls : consumeSelect(r) \/ consumeDelete(r)
    BY <1>1, <1>3, StepKinds DEF WebStep, CallbackStep, TokenStep, renovate, callback, refreshAccessToken,
       clearTokens, OpsOnly, validateAccessToken, validateRefreshToken, refreshLookup, logoutLookup, vars,
       Callback, callbackThrows, findByPairId, exchangeCode, fetchUser, findByDcId, nextUid,
       insertUser, insertAccount, issueTokens, markCompleted, markFailed, Discord, CbAt, web,
       createPending, expire, startPairingSweeper, pollStart, pollLost, pollTimeout,
       mongoConsumeDelete
  <2>2. ~consumeSelect(r)
    BY <1>3 DEF consumeSelect, Answer
  <2>3. /\ poll[r].page = w /\ served' = [served EXCEPT ![w] = @ + 1]
        /\ poll[r].st \in {"completed", "failed"} /\ pairing[w].st = poll[r].st
        /\ pairing' = [pairing EXCEPT ![w] = NoPairing]
    <3>1. /\ consumeDelete(r) /\ poll[r].page \in Pages /\ poll[r].st \in {"completed", "failed"}
      BY <2>1, <2>2 DEF consumeDelete, RowsOK
    <3>2. CASE pairing[poll[r].page].st # poll[r].st
      <4>1. Answer(r, "expired")
        BY <3>1, <3>2 DEF consumeDelete
      <4> QED
        BY <1>3, <4>1 DEF Answer
    <3>3. CASE pairing[poll[r].page].st = poll[r].st
      <4>1. Answer(r, poll[r].st) /\ pairing' = [pairing EXCEPT ![poll[r].page] = NoPairing]
        BY <3>1, <3>3 DEF consumeDelete
      <4>2. served' = [served EXCEPT ![poll[r].page] = @ + 1]
        BY <3>1, <4>1 DEF Answer
      <4>3. poll[r].page = w
        BY <1>3, <4>2 DEF TypeOK
      <4> QED
        BY <3>1, <3>3, <4>1, <4>2, <4>3
    <3> QED
      BY <3>2, <3>3
  <2>4. served[w] = 0 /\ page[w] # "closed"
    BY <1>1, <2>3 DEF ServedGone, RowsOK
  <2>5. page'[w] # "closed"
    BY <2>1, <2>2, <2>3, <2>4 DEF consumeDelete, Answer, TypeOK
  <2> QED
    BY <2>3, <2>4, <2>5 DEF TypeOK, NoPairing
<1> QED
  BY <1>2, <1>3

--------------------------------------------------------------------------------
(* Identities and their tokens. *)

\* Once there, an identity stays and keeps its uid; one that comes into being is the row of a
\* callback that found no conflict, and has no tokens.
LEMMA GuestShape ==
  ASSUME TypeOK, CarriesUid, UidsBounded, [Next]_vars
  PROVE  \A u \in Users :
           \/ u \in Provisioned /\ u \in Provisioned' /\ guests'[u].uid = guests[u].uid
           \/ guests[u] = None /\ guests'[u] = None
           \/ \E c \in Callbacks :
                /\ insertUser(c) /\ cb[c].user = u /\ cb'[c].pc = "account" /\ cb'[c].user = u
                /\ ~guestConflict(u, cb[c].uid) /\ u \in Provisioned'
                /\ guests' = [guests EXCEPT ![u] = NewGuest(cb[c].uid)]
<1>0. ASSUME guests' = guests, NEW u \in Users
      PROVE  \/ u \in Provisioned /\ u \in Provisioned' /\ guests'[u].uid = guests[u].uid
             \/ guests[u] = None /\ guests'[u] = None
  BY <1>0 DEF Provisioned
<1>1. ASSUME NEW v \in Provisioned, NEW x \in Guests, guests' = [guests EXCEPT ![v] = x],
             x.uid = guests[v].uid, NEW u \in Users
      PROVE  \/ u \in Provisioned /\ u \in Provisioned' /\ guests'[u].uid = guests[u].uid
             \/ guests[u] = None /\ guests'[u] = None
  BY <1>1, NoneApart DEF Provisioned, TypeOK
<1>2. ASSUME NEW c \in Callbacks, issueTokens(c), NEW u \in Users
      PROVE  \/ u \in Provisioned /\ u \in Provisioned' /\ guests'[u].uid = guests[u].uid
             \/ guests[u] = None /\ guests'[u] = None
  <2> DEFINE v == cb[c].user
             x == [guests[v] EXCEPT !.access = issued', !.refresh = issued']
  <2>1. v \in Provisioned /\ guests[v] \in Guests /\ issued' \in Nat
    BY <1>2 DEF issueTokens, CarriesUid, CbAt, Provisioned, TypeOK
  <2>2. guests' = [guests EXCEPT ![v] = x]
    BY <1>2, <2>1 DEF issueTokens, setTokens, TypeOK
  <2>3. x \in Guests /\ x.uid = guests[v].uid
    BY <2>1 DEF Guests
  <2> HIDE DEF x
  <2> QED
    BY <1>1, <2>1, <2>2, <2>3
<1>3. ASSUME NEW o \in TokenOps, refreshAccessToken(o) \/ clearTokens(o), NEW u \in Users
      PROVE  \/ u \in Provisioned /\ u \in Provisioned' /\ guests'[u].uid = guests[u].uid
             \/ guests[u] = None /\ guests'[u] = None
  <2> DEFINE v == op[o].user
             x == [guests[v] EXCEPT !.access = issued']
             y == [guests[v] EXCEPT !.access = 0, !.refresh = 0]
  <2>1. v \in Provisioned /\ guests[v] \in Guests /\ issued' \in Nat
    BY <1>3 DEF refreshAccessToken, clearTokens, CarriesUid, Provisioned, TypeOK
  <2>2. guests' = [guests EXCEPT ![v] = x] \/ guests' = [guests EXCEPT ![v] = y]
    BY <1>3, <2>1 DEF refreshAccessToken, clearTokens, TypeOK
  <2>3. x \in Guests /\ x.uid = guests[v].uid /\ y \in Guests /\ y.uid = guests[v].uid
    BY <2>1 DEF Guests
  <2> HIDE DEF x, y
  <2> QED
    BY <1>1, <2>1, <2>2, <2>3
<1>4. ASSUME NEW v \in Users, renovate(v), NEW u \in Users
      PROVE  \/ u \in Provisioned /\ u \in Provisioned' /\ guests'[u].uid = guests[u].uid
             \/ guests[u] = None /\ guests'[u] = None
  <2> DEFINE x == [guests[v] EXCEPT !.renovation = TRUE]
  <2>1. v \in Provisioned /\ guests[v] \in Guests
    BY <1>4 DEF renovate, Provisioned, TypeOK
  <2>2. guests' = [guests EXCEPT ![v] = x]
    BY <1>4, <2>1 DEF renovate, TypeOK
  <2>3. x \in Guests /\ x.uid = guests[v].uid
    BY <2>1 DEF Guests
  <2> HIDE DEF x
  <2> QED
    BY <1>1, <2>1, <2>2, <2>3
<1>5. ASSUME NEW c \in Callbacks, insertUser(c), guests' # guests, NEW u \in Users
      PROVE  \/ u \in Provisioned /\ u \in Provisioned' /\ guests'[u].uid = guests[u].uid
             \/ guests[u] = None /\ guests'[u] = None
             \/ /\ cb[c].user = u /\ cb'[c].pc = "account" /\ cb'[c].user = u
                /\ ~guestConflict(u, cb[c].uid) /\ u \in Provisioned'
                /\ guests' = [guests EXCEPT ![u] = NewGuest(cb[c].uid)]
  <2> DEFINE v == cb[c].user
             x == NewGuest(cb[c].uid)
  <2>1. v \in Users /\ cb[c].uid \in Nat
    BY <1>5 DEF insertUser, CbAt, CarriesUid, Running, TypeOK, CallbackRec
  <2>2. ~guestConflict(v, cb[c].uid) /\ Goto(c, "account") /\ guests' = [guests EXCEPT ![v] = x]
    BY <1>5 DEF insertUser
  <2>3. cb'[c].pc = "account" /\ cb'[c].user = v
    BY <2>2 DEF Goto, TypeOK, CallbackRec
  <2>4. x \in Guests
    BY <2>1 DEF NewGuest, Guests
  <2>5. guests'[v] = x /\ x # None /\ \A t \in Users \ {v} : guests'[t] = guests[t]
    BY <2>1, <2>2, <2>4, NoneApart DEF TypeOK
  <2> HIDE DEF x
  <2>6. CASE u = v
    BY <2>2, <2>3, <2>5, <2>6 DEF Provisioned, x
  <2>7. CASE u # v
    BY <2>5, <2>7 DEF Provisioned
  <2> QED
    BY <2>6, <2>7
<1>6. \/ guests' = guests
      \/ \E c \in Callbacks : issueTokens(c) \/ (insertUser(c) /\ guests' # guests)
      \/ \E o \in TokenOps : refreshAccessToken(o) \/ clearTokens(o)
      \/ \E u \in Users : renovate(u)
  BY StepKinds DEF WebStep, CallbackStep, TokenStep, callback, OpsOnly, validateAccessToken,
       validateRefreshToken, refreshLookup, logoutLookup, vars, tables,
       Callback, callbackThrows, findByPairId, exchangeCode, fetchUser, findByDcId, nextUid,
       insertAccount, markCompleted, markFailed, Discord, CbAt,
       createPending, expire, startPairingSweeper, pollStart, pollLost, pollTimeout, consumeSelect,
       consumeDelete, mongoConsumeDelete
<1> QED
  BY <1>0, <1>2, <1>3, <1>4, <1>5, <1>6

\* uids stay bounded.
LEMMA BoundStep ==
  ASSUME TypeOK, TypeOK', CarriesUid, UidsBounded, [Next]_vars
  PROVE  UidsBounded'
<1>1. PICK b \in Nat : \A u \in Provisioned : guests[u].uid <= b
  BY DEF UidsBounded
<1>2. CASE \A u \in Provisioned' : u \in Provisioned /\ guests'[u].uid = guests[u].uid
  BY <1>1, <1>2 DEF UidsBounded
<1>3. CASE ~\A u \in Provisioned' : u \in Provisioned /\ guests'[u].uid = guests[u].uid
  <2>1. PICK v \in Users, n \in Nat : guests' = [guests EXCEPT ![v] = NewGuest(n)]
    <3>1. PICK v \in Users : v \in Provisioned' /\ ~(v \in Provisioned /\ guests'[v].uid = guests[v].uid)
      BY <1>3 DEF Provisioned
    <3>2. PICK c \in Callbacks : guests' = [guests EXCEPT ![v] = NewGuest(cb[c].uid)]
      BY <3>1, GuestShape DEF Provisioned
    <3>3. cb[c].uid \in Nat
      BY DEF TypeOK, CallbackRec
    <3> QED
      BY <3>2, <3>3
  <2>2. NewGuest(n).uid = n
    BY DEF NewGuest
  <2>3. guests'[v] = NewGuest(n) /\ \A u \in Users \ {v} : guests'[u] = guests[u]
    BY <2>1 DEF TypeOK
  <2>4. \A u \in Provisioned' : (u = v /\ guests'[u].uid = n)
                                \/ (u \in Provisioned /\ guests'[u].uid = guests[u].uid)
    BY <2>2, <2>3 DEF Provisioned
  <2>5. \A u \in Provisioned : guests[u].uid \in Nat
    BY DEF TypeOK, Provisioned, Guests
  <2>6. b + n \in Nat /\ \A u \in Provisioned' : guests'[u].uid <= b + n
    BY <1>1, <2>1, <2>4, <2>5
  <2> QED
    BY <2>6 DEF UidsBounded
<1> QED
  BY <1>2, <1>3

\* A person keeps the uid.
LEMMA UidsStay ==
  ASSUME TypeOK, CarriesUid, UidsBounded, [Next]_vars
  PROVE  \A u \in Provisioned : u \in Provisioned' /\ guests'[u].uid = guests[u].uid
BY GuestShape DEF Provisioned, guestConflict

\* A callback past the provisioning, a token request and an account row belong to an identity.
LEMMA CarriesStep ==
  ASSUME TypeOK, TypeOK', CarriesUid, UidsBounded, [Next]_vars
  PROVE  CarriesUid'
<1> DEFINE Fine(c) == /\ cb[c].pc \in Running => cb[c].page \in Pages /\ cb[c].user \in Users
                      /\ cb[c].pc \in {"account", "issue", "complete"} =>
                           cb[c].user \in Provisioned /\ guests[cb[c].user].uid = cb[c].uid
                      /\ cb[c].pc = "complete" =>
                           cb[c].url # None /\ cb[c].url.user = cb[c].user /\ cb[c].url.uid = cb[c].uid
<1>0. \A c \in Callbacks : Fine(c)
  BY DEF CarriesUid
<1>1. ASSUME NEW d \in Callbacks, cb'[d] = cb[d] PROVE Fine(d)'
  BY <1>0, <1>1, UidsStay
<1>2. ASSUME NEW c \in Callbacks, Callback(c) \/ callbackThrows(c), NEW d \in Callbacks PROVE Fine(d)'
  <2>1. PICK x \in CallbackRec :
           /\ cb' = [cb EXCEPT ![c] = x]
           /\ x.page = cb[c].page /\ x.user = cb[c].user /\ x.pc # "none" /\ cb[c].pc \in Running
           /\ x.pc = "account" =>
                /\ insertUser(c) /\ x.uid = cb[c].uid /\ ~guestConflict(x.user, x.uid)
                /\ guests' = [guests EXCEPT ![x.user] = NewGuest(x.uid)]
           /\ x.pc = "issue" =>
                \/ insertAccount(c) /\ x.uid = cb[c].uid
                \/ guests[x.user] # None /\ x.uid = guests[x.user].uid /\ UNCHANGED tables
           /\ x.pc = "complete" =>
                /\ issueTokens(c) /\ x.uid = cb[c].uid
                /\ x.url = [user |-> x.user, uid |-> x.uid, token |-> issued']
    BY <1>2, CallbackPut
  <2>2. CASE d # c
    BY <1>1, <2>1, <2>2 DEF TypeOK
  <2>3. CASE d = c
    <3>1. cb'[d] = x
      BY <2>1, <2>3 DEF TypeOK
    <3>2. x.page \in Pages /\ x.user \in Users
      BY <1>0, <2>1
    <3>3. CASE x.pc = "account"
      <4>1. NewGuest(x.uid) \in Guests /\ NewGuest(x.uid).uid = x.uid
        BY <2>1 DEF NewGuest, Guests, CallbackRec
      <4>2. guests'[x.user] = NewGuest(x.uid) /\ NewGuest(x.uid) # None
        BY <2>1, <3>2, <3>3, <4>1, NoneApart DEF TypeOK
      <4> QED
        BY <3>1, <3>2, <3>3, <4>1, <4>2 DEF Provisioned
    <3>4. CASE x.pc = "issue"
      <4>1. CASE insertAccount(c) /\ x.uid = cb[c].uid
        <5>1. cb[c].pc = "account"
          BY <4>1 DEF insertAccount, CbAt
        <5> QED
          BY <1>0, <2>1, <3>1, <3>2, <3>4, <4>1, <5>1, UidsStay
      <4>2. CASE guests[x.user] # None /\ x.uid = guests[x.user].uid /\ UNCHANGED tables
        <5>1. x.user \in Provisioned
          BY <3>2, <4>2 DEF Provisioned
        <5> QED
          BY <3>1, <3>2, <3>4, <4>2, <5>1, UidsStay
      <4> QED
        BY <2>1, <3>4, <4>1, <4>2
    <3>5. CASE x.pc = "complete"
      <4>1. issueTokens(c) /\ x.uid = cb[c].uid /\ cb[c].pc = "issue"
            /\ x.url = [user |-> x.user, uid |-> x.uid, token |-> issued']
        BY <2>1, <3>5 DEF issueTokens, CbAt
      <4>2. x.url \in Urls /\ x.url.user = x.user /\ x.url.uid = x.uid
        BY <3>2, <4>1 DEF Urls, CallbackRec, TypeOK
      <4> QED
        BY <1>0, <2>1, <3>1, <3>2, <3>5, <4>1, <4>2, UidsStay, NoneApart
    <3> QED
      BY <3>1, <3>2, <3>3, <3>4, <3>5
  <2> QED
    BY <2>2, <2>3
<1>3. ASSUME NEW w \in Pages, NEW u \in Users, callback(w, u), NEW d \in Callbacks PROVE Fine(d)'
  <2> DEFINE x == [NoCallback EXCEPT !.pc = "check", !.page = w, !.user = u, !.left = Attempts]
  <2>1. NoCallback \in CallbackRec /\ Attempts \in Int
    BY SignInAssumption DEF CallbackRec, NoCallback
  <2>2. x.pc = "check" /\ x.page = w /\ x.user = u
    BY <2>1 DEF CallbackRec
  <2>3. cb' = [cb EXCEPT ![CHOOSE c \in Callbacks : cb[c] = NoCallback] = x]
    BY <1>3 DEF callback
  <2> HIDE DEF x
  <2>4. cb'[d] = cb[d] \/ cb'[d] = x
    BY <2>3 DEF TypeOK
  <2> QED
    BY <1>1, <2>2, <2>4
<1>4. ASSUME WebStep \/ TokenStep \/ (\E u \in Users : renovate(u)) \/ UNCHANGED vars,
             NEW d \in Callbacks
      PROVE  Fine(d)'
  <2>1. cb' = cb
    BY <1>4 DEF WebStep, TokenStep, renovate, refreshAccessToken, clearTokens, OpsOnly,
         validateAccessToken, validateRefreshToken, refreshLookup, logoutLookup, vars,
         createPending, expire, startPairingSweeper, pollStart, pollLost, pollTimeout, consumeSelect,
         consumeDelete, mongoConsumeDelete
  <2> QED
    BY <1>1, <2>1
<1>5. \A d \in Callbacks : Fine(d)'
  BY <1>2, <1>3, <1>4, StepKinds DEF CallbackStep
<1>6. \A o \in TokenOps : op'[o].pc # "done" => op'[o].user \in Provisioned'
  <2>1. ASSUME NEW k, NEW u \in Users, StartOp(k, u), NEW o \in TokenOps
        PROVE  op'[o] = op[o] \/ (op'[o].user = u /\ u \in Provisioned)
    BY <2>1 DEF StartOp, TypeOK
  <2>2. ASSUME NEW t \in TokenOps, refreshAccessToken(t) \/ clearTokens(t), NEW o \in TokenOps
        PROVE  op'[o] = op[o] \/ op'[o].pc = "done"
    BY <2>2 DEF refreshAccessToken, clearTokens, NoOp, TypeOK
  <2>3. TokenStep \/ op' = op
    BY StepKinds DEF WebStep, CallbackStep, callback, renovate, vars, web,
         Callback, callbackThrows, findByPairId, exchangeCode, fetchUser, findByDcId, nextUid,
         insertUser, insertAccount, issueTokens, markCompleted, markFailed, Discord, CbAt,
         createPending, expire, startPairingSweeper, pollStart, pollLost, pollTimeout, consumeSelect,
         consumeDelete, mongoConsumeDelete
  <2>4. \A o \in TokenOps : op'[o] = op[o] \/ op'[o].pc = "done" \/ op'[o].user \in Provisioned
    BY <2>1, <2>2, <2>3 DEF TokenStep, validateAccessToken, validateRefreshToken, refreshLookup,
         logoutLookup
  <2> QED
    BY <2>4, UidsStay DEF CarriesUid
<1>7. accounts' \subseteq Provisioned'
  <2>1. \/ accounts' = accounts
        \/ \E c \in Callbacks : insertAccount(c) /\ accounts' = accounts \cup {cb[c].user}
    BY StepKinds DEF WebStep, CallbackStep, TokenStep, callback, renovate, vars, tables, OpsOnly,
         validateAccessToken, validateRefreshToken, refreshLookup, logoutLookup, refreshAccessToken,
         clearTokens, Callback, callbackThrows, findByPairId, exchangeCode, fetchUser, findByDcId,
         nextUid, insertUser, insertAccount, issueTokens, markCompleted, markFailed, Discord,
         createPending, expire, startPairingSweeper, pollStart, pollLost, pollTimeout, consumeSelect,
         consumeDelete, mongoConsumeDelete
  <2>2. \A c \in Callbacks : insertAccount(c) => cb[c].user \in Provisioned
    BY <1>0 DEF insertAccount, CbAt
  <2> QED
    BY <2>1, <2>2, UidsStay DEF CarriesUid
<1> QED
  BY <1>5, <1>6, <1>7 DEF CarriesUid

\* Who is who stays as Identity says.
LEMMA IdentityStep ==
  ASSUME TypeOK, TypeOK', RowsOK, CarriesUid, UidsBounded, Identity, [Next]_vars
  PROVE  Identity'
<1>0. does' = does /\ accounts \subseteq accounts'
      /\ (faults' = 0 => faults = 0 /\ \A c \in Callbacks : ~callbackThrows(c))
  <2>1. faults' = faults \/ faults' = faults + 1
    BY StepKinds DEF WebStep, CallbackStep, TokenStep, renovate, callback, refreshAccessToken,
       clearTokens, OpsOnly, validateAccessToken, validateRefreshToken, refreshLookup, logoutLookup, vars,
       Callback, callbackThrows, findByPairId, exchangeCode, fetchUser, findByDcId, nextUid,
       insertUser, insertAccount, issueTokens, markCompleted, markFailed, Discord, CbAt,
       createPending, expire, startPairingSweeper, pollStart, pollLost, pollTimeout, consumeSelect,
       consumeDelete, mongoConsumeDelete
  <2>2. does' = does /\ accounts \subseteq accounts'
    BY StepKinds DEF WebStep, CallbackStep, TokenStep, renovate, callback, refreshAccessToken,
       clearTokens, OpsOnly, validateAccessToken, validateRefreshToken, refreshLookup, logoutLookup, vars,
       Callback, callbackThrows, findByPairId, exchangeCode, fetchUser, findByDcId, nextUid,
       insertUser, insertAccount, issueTokens, markCompleted, markFailed, Discord, CbAt, tables,
       createPending, expire, startPairingSweeper, pollStart, pollLost, pollTimeout, consumeSelect,
       consumeDelete, mongoConsumeDelete
  <2>3. \A c \in Callbacks : callbackThrows(c) => faults' = faults + 1
    BY DEF callbackThrows
  <2> QED
    BY <2>1, <2>2, <2>3 DEF TypeOK
<1>1. ASSUME NEW w \in Pages, pairing'[w].st = "completed"
      PROVE  /\ guests'[pairing'[w].url.user] # None
             /\ guests'[pairing'[w].url.user].uid = pairing'[w].url.uid
  <2>1. CASE SameRow(w)
    <3>1. /\ pairing[w].st = "completed" /\ pairing'[w].url = pairing[w].url
      BY <1>1, <2>1 DEF SameRow
    <3>2. pairing[w].url \in Urls
      BY <3>1 DEF RowsOK, TypeOK, PairingRec
    <3>3. pairing[w].url.user \in Provisioned /\ guests[pairing[w].url.user].uid = pairing[w].url.uid
      BY <3>1, <3>2 DEF Identity, Provisioned, Urls
    <3> QED
      BY <3>1, <3>3, UidsStay DEF Provisioned
  <2>2. CASE DecidesRow(w)
    <3>1. PICK c \in Callbacks : cb[c].pc = "complete" /\ pairing'[w].url = cb[c].url
      BY <1>1, <2>2 DEF DecidesRow
    <3>2. /\ cb[c].user \in Provisioned /\ guests[cb[c].user].uid = cb[c].uid
          /\ cb[c].url.user = cb[c].user /\ cb[c].url.uid = cb[c].uid
      BY <3>1 DEF CarriesUid
    <3> QED
      BY <3>1, <3>2, UidsStay DEF Provisioned
  <2>3. ~OpensRow(w) /\ ~RemovesRow(w)
    BY <1>1 DEF OpensRow, RemovesRow, NoPairing
  <2> QED
    BY <2>1, <2>2, <2>3, RowShape
<1>2. ASSUME backend = "pg", NEW u \in Provisioned', NEW v \in Provisioned', u # v
      PROVE  guests'[u].uid # guests'[v].uid
  <2>0. u \in Users /\ v \in Users
    BY DEF Provisioned
  <2>1. ASSUME NEW a \in Users, NEW b \in Users, a # b, b \in Provisioned', NEW c \in Callbacks,
               ~guestConflict(a, cb[c].uid), guests' = [guests EXCEPT ![a] = NewGuest(cb[c].uid)]
        PROVE  guests'[a].uid # guests'[b].uid
    <3>1. guests'[a].uid = cb[c].uid /\ guests'[b] = guests[b]
      BY <2>1 DEF TypeOK, NewGuest
    <3>2. b \in Provisioned
      BY <2>1, <3>1 DEF Provisioned
    <3> QED
      BY <1>2, <2>1, <3>1, <3>2 DEF guestConflict
  <2>2. CASE /\ u \in Provisioned /\ guests'[u].uid = guests[u].uid
             /\ v \in Provisioned /\ guests'[v].uid = guests[v].uid
    BY <1>2, <2>2 DEF Identity
  <2>3. guests'[u] # None /\ guests'[v] # None
    BY DEF Provisioned
  <2>4. CASE ~(u \in Provisioned /\ guests'[u].uid = guests[u].uid)
    <3>1. PICK c \in Callbacks : ~guestConflict(u, cb[c].uid)
                                 /\ guests' = [guests EXCEPT ![u] = NewGuest(cb[c].uid)]
      BY <2>0, <2>3, <2>4, GuestShape
    <3> QED
      BY <1>2, <2>0, <2>1, <3>1
  <2>5. CASE ~(v \in Provisioned /\ guests'[v].uid = guests[v].uid)
    <3>1. PICK c \in Callbacks : ~guestConflict(v, cb[c].uid)
                                 /\ guests' = [guests EXCEPT ![v] = NewGuest(cb[c].uid)]
      BY <2>0, <2>3, <2>5, GuestShape
    <3> QED
      BY <1>2, <2>0, <2>1, <3>1
  <2> QED
    BY <2>2, <2>4, <2>5
<1>3. ASSUME backend = "pg", faults' = 0, NEW u \in Provisioned'
      PROVE  u \in accounts' \/ Provisioning(u)'
  <2>0. u \in Users /\ guests'[u] # None
    BY DEF Provisioned
  <2>1. CASE u \notin Provisioned
    BY <2>0, <2>1, GuestShape DEF Provisioning
  <2>2. CASE u \in accounts
    BY <1>0, <2>2
  <2>3. CASE u \in Provisioned /\ u \notin accounts
    <3>1. PICK c \in Callbacks : cb[c].user = u /\ cb[c].pc = "account"
      BY <1>0, <1>3, <2>3 DEF Identity, Provisioning
    <3>2. CASE cb'[c] = cb[c]
      BY <3>1, <3>2 DEF Provisioning
    <3>3. CASE cb'[c] # cb[c]
      <4>1. Callback(c) \/ callbackThrows(c)
        <5>1. ASSUME NEW d \in Callbacks, d # c PROVE ~(Callback(d) \/ callbackThrows(d))
          <6>1. (Callback(d) \/ callbackThrows(d)) => \E x : cb' = [cb EXCEPT ![d] = x]
            BY CallbackPut
          <6> QED
            BY <3>3, <5>1, <6>1 DEF TypeOK
        <5>2. ASSUME NEW w \in Pages, NEW t \in Users, callback(w, t) PROVE FALSE
          <6> DEFINE d == CHOOSE e \in Callbacks : cb[e] = NoCallback
          <6>1. d \in Callbacks /\ cb[d] = NoCallback
            BY <5>2 DEF callback
          <6>2. \E x : cb' = [cb EXCEPT ![d] = x]
            BY <5>2 DEF callback
          <6>3. d # c
            BY <3>1, <6>1 DEF NoCallback
          <6> HIDE DEF d
          <6> QED
            BY <3>3, <6>1, <6>2, <6>3 DEF TypeOK
        <5>3. ~(WebStep \/ TokenStep \/ (\E t \in Users : renovate(t)) \/ UNCHANGED vars)
          BY <3>3 DEF WebStep, TokenStep, renovate, refreshAccessToken, clearTokens, OpsOnly,
               validateAccessToken, validateRefreshToken, refreshLookup, logoutLookup, vars,
               createPending, expire, startPairingSweeper, pollStart, pollLost, pollTimeout,
               consumeSelect, consumeDelete, mongoConsumeDelete
        <5> QED
          BY <5>1, <5>2, <5>3, StepKinds DEF CallbackStep
      <4>2. insertAccount(c)
        BY <1>0, <1>3, <3>1, <4>1 DEF Callback, findByPairId, exchangeCode, fetchUser, findByDcId,
             nextUid, insertUser, issueTokens, markCompleted, markFailed, CbAt
      <4>3. u \in Provisioned /\ guests[u].uid = cb[c].uid
        BY <3>1 DEF CarriesUid
      <4>4. ~\E v \in accounts : guests[v].uid = cb[c].uid
        BY <1>3, <2>3, <4>3 DEF Identity, CarriesUid
      <4> QED
        BY <3>1, <4>2, <4>4 DEF insertAccount
    <3> QED
      BY <3>2, <3>3
  <2> QED
    BY <2>1, <2>2, <2>3
<1> QED
  BY <1>0, <1>1, <1>2, <1>3 DEF Identity, backend

\* Every token stays with the one identity it was issued to, until it is dead.
LEMMA TokensStep ==
  ASSUME TypeOK, TypeOK', CarriesUid, TokensApart, [Next]_vars
  PROVE  TokensApart'
<1>0. issued \in Nat /\ dead \subseteq 1 .. issued
  BY DEF TypeOK, TokensApart
<1>1. ASSUME NEW v \in Users, NEW x \in Guests, guests' = [guests EXCEPT ![v] = x],
             \/ /\ v \in Provisioned /\ {x.access, x.refresh} \ {0} \subseteq Tokens(v) \cup {issued + 1}
                /\ issued' = issued + 1 /\ dead' = dead
             \/ /\ v \in Provisioned /\ {x.access, x.refresh} \ {0} \subseteq Tokens(v)
                /\ issued' = issued /\ dead' = dead
             \/ /\ v \in Provisioned /\ {x.access, x.refresh} \ {0} = {}
                /\ issued' = issued /\ dead' = dead \cup Tokens(v)
             \/ /\ v \notin Provisioned /\ {x.access, x.refresh} \ {0} = {}
                /\ issued' = issued /\ dead' = dead
      PROVE  TokensApart'
  <2> DEFINE X == {x.access, x.refresh} \ {0}
             old == IF v \in Provisioned THEN Tokens(v) ELSE {}
  <2>1. /\ Tokens(v)' = X /\ \A u \in Users \ {v} : Tokens(u)' = Tokens(u)
        /\ \A u \in Users \ {v} : u \in Provisioned' <=> u \in Provisioned
    BY <1>1 DEF Tokens, TypeOK, Provisioned
  <2>2. old \subseteq (1 .. issued) \ dead
        /\ \A u \in Provisioned \ {v} : Tokens(u) \subseteq (1 .. issued) \ dead /\ Tokens(u) \cap old = {}
    BY <1>1 DEF TokensApart
  <2>a. \/ X \subseteq old \cup {issued + 1} /\ issued' = issued + 1 /\ dead' = dead
        \/ X \subseteq old /\ issued' = issued /\ dead' = dead
        \/ X = {} /\ issued' = issued /\ dead' = dead \cup old
    BY <1>1
  <2> HIDE DEF X, old
  <2>b. issued + 1 \in Nat /\ issued + 1 \notin 1 .. issued /\ issued + 1 \in 1 .. (issued + 1)
        /\ 1 .. issued \subseteq 1 .. (issued + 1)
    BY <1>0
  <2>3. issued' \in Nat /\ 1 .. issued \subseteq 1 .. issued' /\ dead' \subseteq 1 .. issued'
    <3>1. issued' \in Nat /\ 1 .. issued \subseteq 1 .. issued'
      BY <1>0, <2>a, <2>b
    <3>2. dead' \subseteq 1 .. issued
      BY <1>0, <2>a, <2>2
    <3> QED
      BY <3>1, <3>2
  <2>4. X \subseteq (1 .. issued') \ dead'
    <3>1. CASE X \subseteq old \cup {issued + 1} /\ issued' = issued + 1 /\ dead' = dead
      BY <1>0, <2>2, <2>b, <3>1
    <3>2. CASE X \subseteq old /\ issued' = issued /\ dead' = dead
      BY <2>2, <3>2
    <3> QED
      BY <2>a, <3>1, <3>2
  <2>5. \A u \in Provisioned \ {v} : Tokens(u) \cap X = {} /\ Tokens(u) \subseteq (1 .. issued') \ dead'
    <3> SUFFICES ASSUME NEW u \in Provisioned \ {v}
                 PROVE  Tokens(u) \cap X = {} /\ Tokens(u) \subseteq (1 .. issued') \ dead'
      OBVIOUS
    <3>1. Tokens(u) \subseteq (1 .. issued) \ dead /\ Tokens(u) \cap old = {}
      BY <2>2
    <3>2. X \subseteq old \cup {issued + 1} /\ dead' \subseteq dead \cup old
      BY <2>a
    <3> QED
      BY <2>3, <2>b, <3>1, <3>2
  <2>6. Provisioned' \subseteq Users
    BY DEF Provisioned
  <2>7. \A u \in Provisioned' : Tokens(u)' \subseteq (1 .. issued') \ dead'
    BY <2>1, <2>4, <2>5, <2>6
  <2>8. \A u, t \in Provisioned' : u # t => Tokens(u)' \cap Tokens(t)' = {}
    BY <2>1, <2>5, <2>6 DEF TokensApart
  <2> QED
    BY <2>3, <2>7, <2>8 DEF TokensApart
<1>2. CASE UNCHANGED <<guests, issued, dead>>
  BY <1>2 DEF TokensApart, Tokens, Provisioned
<1>3. ASSUME NEW c \in Callbacks, insertUser(c), guests' # guests PROVE TokensApart'
  <2> DEFINE v == cb[c].user
             x == NewGuest(cb[c].uid)
  <2>1. v \in Users /\ x \in Guests /\ x.access = 0 /\ x.refresh = 0
    BY <1>3 DEF insertUser, CbAt, CarriesUid, Running, TypeOK, CallbackRec, NewGuest, Guests
  <2>2. v \notin Provisioned /\ guests' = [guests EXCEPT ![v] = x] /\ issued' = issued /\ dead' = dead
    BY <1>3 DEF insertUser, guestConflict, Provisioned
  <2> HIDE DEF x
  <2>3. {x.access, x.refresh} \ {0} = {}
    BY <2>1
  <2> QED
    BY <1>1, <2>1, <2>2, <2>3
<1>4. ASSUME NEW c \in Callbacks, issueTokens(c) PROVE TokensApart'
  <2> DEFINE v == cb[c].user
             x == [guests[v] EXCEPT !.access = issued + 1, !.refresh = issued + 1]
  <2>1. v \in Users /\ v \in Provisioned /\ guests[v] \in Guests /\ issued + 1 \in Nat
    BY <1>4 DEF issueTokens, CarriesUid, CbAt, Provisioned, TypeOK
  <2>2. guests' = [guests EXCEPT ![v] = x] /\ issued' = issued + 1 /\ dead' = dead
    BY <1>4, <2>1 DEF issueTokens, setTokens, TypeOK
  <2>3. x \in Guests /\ x.access = issued + 1 /\ x.refresh = issued + 1
    BY <2>1 DEF Guests
  <2> HIDE DEF x, v
  <2>4. {x.access, x.refresh} \ {0} \subseteq Tokens(v) \cup {issued + 1}
    BY <2>3
  <2> QED
    BY <1>1, <2>1, <2>2, <2>3, <2>4
<1>5. ASSUME NEW o \in TokenOps, refreshAccessToken(o) PROVE TokensApart'
  <2> DEFINE v == op[o].user
             x == [guests[v] EXCEPT !.access = issued + 1]
  <2>1. v \in Users /\ v \in Provisioned /\ guests[v] \in Guests /\ issued + 1 \in Nat
    BY <1>5 DEF refreshAccessToken, CarriesUid, Provisioned, TypeOK
  <2>2. guests' = [guests EXCEPT ![v] = x] /\ issued' = issued + 1 /\ dead' = dead
    BY <1>5, <2>1 DEF refreshAccessToken, TypeOK
  <2>3. x \in Guests /\ x.access = issued + 1 /\ x.refresh = guests[v].refresh
    BY <2>1 DEF Guests
  <2> HIDE DEF x, v
  <2>4. {x.access, x.refresh} \ {0} \subseteq Tokens(v) \cup {issued + 1}
    BY <2>3 DEF Tokens
  <2> QED
    BY <1>1, <2>1, <2>2, <2>3, <2>4
<1>6. ASSUME NEW o \in TokenOps, clearTokens(o) PROVE TokensApart'
  <2> DEFINE v == op[o].user
             x == [guests[v] EXCEPT !.access = 0, !.refresh = 0]
  <2>1. v \in Users /\ v \in Provisioned /\ guests[v] \in Guests
    BY <1>6 DEF clearTokens, CarriesUid, Provisioned, TypeOK
  <2>2. guests' = [guests EXCEPT ![v] = x] /\ issued' = issued /\ dead' = dead \cup Tokens(v)
    BY <1>6, <2>1 DEF clearTokens, TypeOK, Tokens
  <2>3. x \in Guests /\ x.access = 0 /\ x.refresh = 0
    BY <2>1 DEF Guests
  <2> HIDE DEF x
  <2>4. {x.access, x.refresh} \ {0} = {}
    BY <2>3
  <2> QED
    BY <1>1, <2>1, <2>2, <2>3, <2>4
<1>7. ASSUME NEW v \in Users, renovate(v) PROVE TokensApart'
  <2> DEFINE x == [guests[v] EXCEPT !.renovation = TRUE]
  <2>1. v \in Provisioned /\ guests[v] \in Guests
    BY <1>7 DEF renovate, Provisioned, TypeOK
  <2>2. guests' = [guests EXCEPT ![v] = x] /\ issued' = issued /\ dead' = dead
    BY <1>7, <2>1 DEF renovate, TypeOK
  <2>3. x \in Guests /\ x.access = guests[v].access /\ x.refresh = guests[v].refresh
    BY <2>1 DEF Guests
  <2> HIDE DEF x
  <2>4. {x.access, x.refresh} \ {0} \subseteq Tokens(v)
    BY <2>3 DEF Tokens
  <2> QED
    BY <1>1, <2>1, <2>2, <2>3, <2>4
<1>8. \/ UNCHANGED <<guests, issued, dead>>
      \/ \E c \in Callbacks : issueTokens(c) \/ (insertUser(c) /\ guests' # guests)
      \/ \E o \in TokenOps : refreshAccessToken(o) \/ clearTokens(o)
      \/ \E u \in Users : renovate(u)
  BY StepKinds DEF WebStep, CallbackStep, TokenStep, callback, OpsOnly, validateAccessToken,
       validateRefreshToken, refreshLookup, logoutLookup, vars, tables, insertUser,
       Callback, callbackThrows, findByPairId, exchangeCode, fetchUser, findByDcId, nextUid,
       insertAccount, markCompleted, markFailed, Discord, CbAt,
       createPending, expire, startPairingSweeper, pollStart, pollLost, pollTimeout, consumeSelect,
       consumeDelete, mongoConsumeDelete
<1> QED
  BY <1>2, <1>3, <1>4, <1>5, <1>6, <1>7, <1>8

--------------------------------------------------------------------------------
(* The theorems. *)

\* The invariant is inductive.
LEMMA SignInHolds == Spec => []SignInInv
<1>1. Init => SignInInv
  <2> SUFFICES ASSUME Init PROVE SignInInv
    OBVIOUS
  <2>1. NoPoll \in PollRec /\ NoPairing \in PairingRec /\ NoCallback \in CallbackRec /\ NoOp \in OpRec
    BY DEF NoPoll, PollRec, NoPairing, PairingRec, NoCallback, CallbackRec, NoOp, OpRec
  <2>2. TypeOK
    BY <2>1 DEF Init, TypeOK, PageStates
  <2>3. Provisioned = {}
    BY DEF Init, Provisioned
  <2>4. UidsBounded /\ TokensApart
    BY <2>3 DEF UidsBounded, TokensApart, Init
  <2>5. RowsOK /\ ServedGone
    BY DEF Init, RowsOK, ServedGone, NoPairing, NoPoll
  <2>6. CarriesUid
    BY DEF Init, CarriesUid, NoCallback, NoOp, Running
  <2>7. Identity
    BY <2>3 DEF Init, Identity, NoPairing
  <2> QED
    BY <2>2, <2>4, <2>5, <2>6, <2>7 DEF SignInInv
<1>2. SignInInv /\ [Next]_vars => SignInInv'
  <2> SUFFICES ASSUME SignInInv, [Next]_vars PROVE SignInInv'
    OBVIOUS
  <2> USE DEF SignInInv
  <2>1. TypeOK'
    <3>1. CASE UNCHANGED vars
      BY <3>1 DEF vars, TypeOK
    <3> QED
      BY <3>1, StepKinds, WebType, CallbackType, TokenType
  <2>2. RowsOK' /\ ServedGone'
    BY RowsStep, ServedStep
  <2>3. CarriesUid' /\ UidsBounded'
    BY <2>1, CarriesStep, BoundStep
  <2>4. Identity' /\ TokensApart'
    BY <2>1, IdentityStep, TokensStep
  <2> QED
    BY <2>1, <2>2, <2>3, <2>4
<1> QED
  BY <1>1, <1>2, PTL DEF Spec

\* For every number of people and of racing callbacks, on both stores: a URL names the uid its
\* person keeps; on Postgres two people never share a uid, and a guest row gets its account row
\* unless a query failed.
THEOREM IdentityHolds == Spec => []Identity
<1>1. SignInInv => Identity
  BY DEF SignInInv
<1> QED
  BY <1>1, SignInHolds, PTL

\* However many polls of a page are under way, lost or repeated, Postgres hands the outcome of a
\* pairing out at most once.
THEOREM OutcomeServedOnce == Spec => []SingleUse
<1>1. SignInInv => SingleUse
  BY DEF SignInInv, ServedGone, SingleUse, TypeOK
<1> QED
  BY <1>1, SignInHolds, PTL

\* A cleared token is never valid again, whatever refreshes, logouts, sign-ins and blocks race.
THEOREM ClearedHolds == Spec => []ClearedStaysCleared
<1>1. SignInInv => ClearedStaysCleared
  <2> SUFFICES ASSUME SignInInv, NEW u \in Provisioned
               PROVE  guests[u].access \notin dead /\ guests[u].refresh \notin dead
    BY DEF ClearedStaysCleared
  <2>1. Tokens(u) \cap dead = {} /\ 0 \notin dead
    BY DEF SignInInv, TokensApart, TypeOK
  <2> QED
    BY <2>1 DEF Tokens
<1> QED
  BY <1>1, SignInHolds, PTL

\* The rows with their callbacks, polls, expiry and sweeper implement the pairing that module
\* Pairing promises, on both stores.
THEOREM SignInImplementsPairing == Spec => PairingLife
<1> DEFINE phase == [w \in Pages |-> Phase(w)]
<1>1. Init => Bridge!Init
  BY DEF Init, Bridge!Init, Phase, Bridge!New
<1>2. SignInInv /\ SignInInv' /\ [Next]_vars => [Bridge!Next]_phase
  <2> SUFFICES ASSUME SignInInv, [Next]_vars PROVE Bridge!Next \/ phase' = phase
    OBVIOUS
  <2>0. TypeOK /\ RowsOK /\ CarriesUid
    BY DEF SignInInv
  <2>1. \A w \in Pages : SameRow(w) => Phase(w)' = Phase(w)
    BY DEF SameRow, Phase
  <2>2. CASE \A w \in Pages : SameRow(w)
    BY <2>1, <2>2
  <2>3. ASSUME NEW w \in Pages, OpensRow(w) \/ DecidesRow(w) \/ RemovesRow(w),
               \A v \in Pages \ {w} : SameRow(v)
        PROVE  Bridge!Next
    <3>1. phase' = [phase EXCEPT ![w] = Phase(w)'] /\ phase[w] = Phase(w) /\ phase'[w] = Phase(w)'
      BY <2>1, <2>3
    <3>2. CASE OpensRow(w)
      <4>1. Phase(w) = Bridge!New /\ Phase(w)' = Bridge!Opened
        BY <3>2 DEF OpensRow, Phase, Bridge!New, Bridge!Opened
      <4> HIDE DEF phase
      <4> QED
        BY <3>1, <4>1 DEF Bridge!Next, Bridge!Open, Bridge!Put, phase
    <3>3. CASE DecidesRow(w)
      <4>1. page[w] # "closed" /\ page'[w] # "closed" /\ pairing[w].url = None
        BY <2>0, <3>3 DEF DecidesRow, RowsOK
      <4>2. Phase(w) = Bridge!Opened
        BY <3>3, <4>1 DEF DecidesRow, Phase, Bridge!Opened
      <4>3. Phase(w)'.st \in {"completed", "failed"}
            /\ (Phase(w)'.st = "failed" => Phase(w)'.url = None)
        BY <3>3, <4>1 DEF DecidesRow, Phase
      <4> HIDE DEF phase
      <4> QED
        BY <3>1, <4>2, <4>3 DEF Bridge!Next, Bridge!Decide, Bridge!Put, phase
    <3>4. CASE RemovesRow(w)
      <4>1. page[w] # "closed" /\ page'[w] # "closed"
        BY <2>0, <3>4 DEF RemovesRow, RowsOK
      <4>2. Phase(w)' = Bridge!Gone
        BY <3>4, <4>1 DEF RemovesRow, Phase, NoPairing, Bridge!Gone
      <4>3. Phase(w).st # "new"
        BY <2>0, <4>1 DEF Phase, TypeOK, PairingRec
      <4>4. phase[w] # Bridge!New
        BY <3>1, <4>3 DEF Bridge!New
      <4>5. phase' = [phase EXCEPT ![w] = Bridge!Gone]
        BY <3>1, <4>2
      <4> HIDE DEF phase
      <4> QED
        BY <4>4, <4>5 DEF Bridge!Next, Bridge!Take, Bridge!Put, phase
    <3> QED
      BY <2>3, <3>2, <3>3, <3>4
  <2> QED
    BY <2>0, <2>2, <2>3, RowShape
<1> QED
  BY <1>1, <1>2, SignInHolds, PTL DEF Spec, PairingLife, Bridge!Spec
================================================================================
