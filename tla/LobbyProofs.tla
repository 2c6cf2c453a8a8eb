------------------------------ MODULE LobbyProofs ------------------------------
(***************************************************************************)
(* Proofs about a room as its clients see it and about START, for every    *)
(* set of players, start, capacity and number of seats a record may have.  *)
(***************************************************************************)
EXTENDS Lobby, RoomRulesProofs, TLAPS

--------------------------------------------------------------------------------
(* Pushes *)

\* One more push under way.
LEMMA AppendFacts ==
  ASSUME NEW S, NEW w \in Seq(S), NEW e \in S
  PROVE  /\ Append(w, e) \in Seq(S) /\ Append(w, e) # <<>>
         /\ Len(Append(w, e)) = Len(w) + 1 /\ DOMAIN Append(w, e) = 1 .. Len(w) + 1
         /\ Append(w, e)[Len(w) + 1] = e
         /\ \A i \in 1 .. Len(w) : Append(w, e)[i] = w[i]
OBVIOUS

LEMMA LenFacts ==
  ASSUME NEW S, NEW w \in Seq(S)
  PROVE  /\ Len(w) \in Nat /\ DOMAIN w = 1 .. Len(w) /\ (w = <<>> <=> Len(w) = 0)
         /\ \A i \in 1 .. Len(w) : w[i] \in S
OBVIOUS

\* One push delivered.
LEMMA TailFacts ==
  ASSUME NEW S, NEW w \in Seq(S), w # <<>>
  PROVE  /\ Tail(w) \in Seq(S) /\ Len(Tail(w)) = Len(w) - 1 /\ Head(w) = w[1] /\ 1 \in DOMAIN w
         /\ \A i \in 1 .. Len(w) - 1 : Tail(w)[i] = w[i + 1] /\ i + 1 \in DOMAIN w
         /\ DOMAIN Tail(w) = 1 .. Len(w) - 1 /\ (Tail(w) = <<>> <=> Len(w) = 1)
         /\ Len(w) \in Nat \ {0} /\ Head(w) \in S /\ DOMAIN w = 1 .. Len(w)
<1>1. Len(w) \in Nat \ {0} /\ DOMAIN w = 1 .. Len(w) /\ Head(w) = w[1]
  OBVIOUS
<1>2. Head(w) \in S /\ 1 \in DOMAIN w
  BY <1>1
<1>3. /\ Tail(w) \in Seq(S) /\ Len(Tail(w)) = Len(w) - 1 /\ DOMAIN Tail(w) = 1 .. Len(w) - 1
      /\ \A i \in 1 .. Len(w) - 1 : Tail(w)[i] = w[i + 1] /\ i + 1 \in DOMAIN w
  BY <1>1
<1>4. Tail(w) = <<>> <=> Len(w) = 1
  <2> DEFINE v == Tail(w)
  <2>1. v \in Seq(S) /\ Len(v) = Len(w) - 1
    BY <1>3
  <2> HIDE DEF v
  <2>2. v = <<>> <=> Len(v) = 0
    BY <2>1, LenFacts
  <2> QED
    BY <1>1, <2>1, <2>2 DEF v
<1> QED
  BY <1>1, <1>2, <1>3, <1>4

\* What a broadcast puts on the way to each account.
LEMMA BroadcastIs ==
  ASSUME wire \in [Accounts -> Seq(Msg)], NEW S, NEW E, NEW msg \in Msg, wire' = broadcast(S, E, msg)
  PROVE  /\ wire' \in [Accounts -> Seq(Msg)]
         /\ \A x \in Accounts :
              wire'[x] = IF x \in S \ E /\ on[x] THEN Append(wire[x], msg) ELSE wire[x]
<1>1. \A x \in Accounts : pushToAccount(wire, x, msg)[x] = IF on[x] THEN Append(wire[x], msg) ELSE wire[x]
  BY DEF pushToAccount, relay, notifyRaw
<1>2. \A x \in Accounts :
        wire'[x] = IF x \in S \ E /\ on[x] THEN Append(wire[x], msg) ELSE wire[x]
  BY <1>1 DEF broadcast
<1>3. \A x \in Accounts : wire[x] \in Seq(Msg) /\ Append(wire[x], msg) \in Seq(Msg)
  BY AppendFacts
<1>4. \A x \in Accounts : wire'[x] \in Seq(Msg)
  BY <1>2, <1>3
<1>5. wire' = [x \in Accounts |-> wire'[x]]
  BY DEF broadcast
<1> QED
  BY <1>2, <1>4, <1>5

Kept(x) == Offline(x) /\ Creating(x) /\ Shown(x)

\* What most steps leave alone of an account.
Still(x) ==
  /\ on'[x] = on[x] /\ creating'[x] = creating[x]
  /\ (x \in cleaning' => x \in cleaning) /\ (x \in raced => x \in raced')

Typed(x) == wire[x] \in Seq(Msg) /\ view[x] \in RoomRec \cup {NoRoom}

\* Nothing under way to x changes.
LEMMA Unmoved ==
  ASSUME NEW x \in Accounts, Typed(x), Kept(x), Still(x), wire'[x] = wire[x], view'[x] = view[x],
         on[x] => (Seats(x)' <=> Seats(x)) /\ (Seats(x) => room'.members = room.members),
         ~on[x] /\ x \notin cleaning' => ~Seats(x)',
         creating[x] # NoRoom => /\ room' # NoRoom /\ room'.owner = room.owner
                                 /\ x \in raced' \/ room'.members = room.members
  PROVE  Kept(x)'
<1>1. Offline(x)'
  BY DEF Kept, Offline, Still
<1>2. Creating(x)'
  BY DEF Kept, Creating, Still, AccountsIn
<1>3. Shown(x)'
  BY DEF Kept, Shown, UpToDate, Still
<1> QED
  BY <1>1, <1>2, <1>3 DEF Kept

\* A member that stays hears of the record as it is by now.
LEMMA Hears ==
  ASSUME NEW x \in Accounts, Typed(x), Kept(x), Still(x), NEW msg \in Msg, on[x], Seats(x), Seats(x)',
         room' # NoRoom, msg.room = room', msg.ntf # "DISMISS", ~Admits(x, msg), ~Expels(x, msg),
         wire'[x] = Append(wire[x], msg), view'[x] = view[x],
         creating[x] # NoRoom => x \in raced' /\ room'.owner = room.owner
  PROVE  Kept(x)'
<1> DEFINE w == wire[x]
           v == wire'[x]
<1>1. /\ v # <<>> /\ Len(v) = Len(w) + 1 /\ DOMAIN v = 1 .. Len(v) /\ v[Len(v)] = msg
      /\ \A i \in 1 .. Len(w) : v[i] = w[i]
  BY AppendFacts DEF Typed
<1>2. Len(w) \in Nat /\ DOMAIN w = 1 .. Len(w) /\ (w = <<>> <=> Len(w) = 0)
  BY LenFacts DEF Typed
<1> HIDE DEF w, v
<1>3. Offline(x)'
  BY DEF Kept, Offline, Still
<1>4. Creating(x)'
  <2>1. creating[x] # NoRoom =>
          /\ room.owner = x /\ view[x] = NoRoom /\ \A i \in DOMAIN w : ~Admits(x, w[i])
    BY DEF Kept, Creating, w
  <2>2. creating[x] # NoRoom => \A i \in DOMAIN v : ~Admits(x, v[i])
    BY <1>1, <1>2, <2>1
  <2> QED
    BY <2>1, <2>2 DEF Creating, Still, v
<1>5. Shown(x)'
  <2> SUFFICES ASSUME creating[x] = NoRoom, x \notin raced PROVE UpToDate(x)'
    BY DEF Shown, Still
  <2>1. UpToDate(x)
    BY DEF Kept, Shown
  <2>2. /\ \A i \in DOMAIN w : /\ Admits(x, w[i]) => i = 1 /\ view[x] = NoRoom
                               /\ Expels(x, w[i]) => i = Len(w)
                               /\ w[i].ntf # "DISMISS" => w[i].room # NoRoom
        /\ w # <<>> => ~Expels(x, w[Len(w)]) /\ (view[x] # NoRoom \/ Admits(x, w[1]))
        /\ w = <<>> => view[x] # NoRoom
    BY <2>1 DEF UpToDate, w
  <2>3. \A i \in DOMAIN w : ~Expels(x, w[i])
    BY <1>2, <2>2
  <2>4. \A i \in DOMAIN v : /\ Admits(x, v[i]) => i = 1 /\ view[x] = NoRoom
                            /\ Expels(x, v[i]) => i = Len(v)
                            /\ v[i].ntf # "DISMISS" => v[i].room # NoRoom
    BY <1>1, <1>2, <2>2, <2>3
  <2>5. ~Expels(x, v[Len(v)]) /\ v[Len(v)].room.members = room'.members
    BY <1>1
  <2>6. view[x] # NoRoom \/ Admits(x, v[1])
    BY <1>1, <1>2, <2>2
  <2> QED
    BY <1>1, <2>4, <2>5, <2>6 DEF UpToDate, v, Admits, Expels
<1> QED
  BY <1>3, <1>4, <1>5 DEF Kept

\* Whoever joins has nothing under way, and gets the push that shows it the room.
LEMMA Comes ==
  ASSUME NEW x \in Accounts, Typed(x), Kept(x), Still(x), NEW msg \in Msg, AtList(x), Seats(x)',
         creating[x] = NoRoom, msg.room = room', room' # NoRoom, Admits(x, msg),
         wire'[x] = Append(wire[x], msg), view'[x] = view[x]
  PROVE  Kept(x)'
<1> DEFINE v == wire'[x]
<1>1. v # <<>> /\ Len(v) = 1 /\ DOMAIN v = 1 .. 1 /\ v[1] = msg
  BY AppendFacts, LenFacts DEF Typed, AtList
<1> HIDE DEF v
<1>2. Offline(x)' /\ Creating(x)'
  BY DEF Kept, Offline, Creating, Still, AtList
<1>3. UpToDate(x)'
  <2>1. msg.ntf = "JOIN" /\ ~Expels(x, msg) /\ view[x] = NoRoom
    BY DEF Admits, Expels, AtList
  <2>2. \A i \in DOMAIN v : i = 1 /\ v[i] = msg
    BY <1>1
  <2> QED
    BY <1>1, <2>1, <2>2 DEF UpToDate, v, Admits, Expels
<1> QED
  BY <1>2, <1>3 DEF Kept, Shown

\* A kicked account, or the members of a dismissed room, are put out by the last push they get.
LEMMA PutOut ==
  ASSUME NEW x \in Accounts, Typed(x), Kept(x), Still(x), NEW msg \in Msg, on[x], Seats(x), ~Seats(x)',
         creating[x] = NoRoom, msg.ntf # "DISMISS" => msg.room # NoRoom,
         Expels(x, msg), wire'[x] = Append(wire[x], msg), view'[x] = view[x]
  PROVE  Kept(x)'
<1> DEFINE w == wire[x]
           v == wire'[x]
<1>1. /\ v # <<>> /\ Len(v) = Len(w) + 1 /\ DOMAIN v = 1 .. Len(v) /\ v[Len(v)] = msg
      /\ \A i \in 1 .. Len(w) : v[i] = w[i]
  BY AppendFacts DEF Typed
<1>2. Len(w) \in Nat /\ DOMAIN w = 1 .. Len(w) /\ (w = <<>> <=> Len(w) = 0)
  BY LenFacts DEF Typed
<1> HIDE DEF w, v
<1>3. Offline(x)' /\ Creating(x)'
  BY DEF Kept, Offline, Creating, Still
<1>4. ASSUME x \notin raced PROVE UpToDate(x)'
  <2>1. UpToDate(x)
    BY <1>4 DEF Kept, Shown
  <2>2. /\ \A i \in DOMAIN w : /\ Admits(x, w[i]) => i = 1 /\ view[x] = NoRoom
                               /\ Expels(x, w[i]) => i = Len(w)
                               /\ w[i].ntf # "DISMISS" => w[i].room # NoRoom
        /\ w # <<>> => ~Expels(x, w[Len(w)])
    BY <2>1 DEF UpToDate, w
  <2>3. \A i \in DOMAIN w : ~Expels(x, w[i])
    BY <1>2, <2>2
  <2>4. ~Admits(x, msg)
    BY DEF Admits, Expels
  <2>5. \A i \in DOMAIN v : /\ Admits(x, v[i]) => i = 1 /\ view[x] = NoRoom
                            /\ Expels(x, v[i]) => i = Len(v)
                            /\ v[i].ntf # "DISMISS" => v[i].room # NoRoom
    BY <1>1, <1>2, <2>2, <2>3, <2>4
  <2> QED
    BY <1>1, <2>5 DEF UpToDate, v, Admits, Expels
<1> QED
  BY <1>3, <1>4 DEF Kept, Shown, Still

\* Who leaves by itself stops showing the room at once; what is still under way to it shows it
\* nothing.
LEMMA Goes ==
  ASSUME NEW x \in Accounts, Typed(x), Kept(x), Still(x), InRoom(x), ~Seats(x)',
         wire'[x] = wire[x], view'[x] = NoRoom, Seats(x)
  PROVE  Kept(x)'
<1>1. creating[x] = NoRoom
  BY DEF Kept, Creating, InRoom
<1>2. Offline(x)' /\ Creating(x)'
  BY <1>1 DEF Kept, Offline, Creating, Still, InRoom
<1>3. ASSUME x \notin raced PROVE UpToDate(x)'
  <2>1. UpToDate(x) /\ view[x] # NoRoom
    BY <1>1, <1>3 DEF Kept, Shown, InRoom
  <2>2. wire[x] # <<>> => 1 \in DOMAIN wire[x]
    BY TailFacts DEF Typed
  <2>3. \A i \in DOMAIN wire[x] : ~Admits(x, wire[x][i])
    BY <2>1 DEF UpToDate
  <2> QED
    BY <2>1, <2>2, <2>3 DEF UpToDate, Admits, Expels
<1> QED
  BY <1>2, <1>3 DEF Kept, Shown, Still

--------------------------------------------------------------------------------
(* The handlers *)

\* An operation on the record that does not dismiss it, with its broadcast: the members that
\* stay are told, the rest is not concerned, and whoever comes or goes does as it should.
LEMMA Announced ==
  ASSUME PushInv, room # NoRoom, Sound(room'), room'.owner = room.owner,
         NEW S, NEW E, NEW msg \in Msg, msg.room = room', msg.ntf # "DISMISS",
         wire' = broadcast(S, E, msg),
         UNCHANGED <<mix, on, creating>>, cleaning' \subseteq cleaning,
         raced \subseteq raced', raced' \subseteq Accounts,
         \A x \in Accounts : creating[x] # NoRoom => x \in raced',
         view' \in [Accounts -> RoomRec \cup {NoRoom}],
         \A x \in Accounts : x \in cleaning => x \in cleaning' \/ ~Seats(x)',
         \A x \in Accounts :
           \/ /\ Seats(x) /\ Seats(x)' /\ x \in S \ E /\ ~Admits(x, msg) /\ ~Expels(x, msg)
              /\ view'[x] = view[x]
           \/ /\ ~Seats(x) /\ ~Seats(x)' /\ x \notin S \ E /\ view'[x] = view[x]
           \/ /\ ~Seats(x) /\ Seats(x)' /\ x \in S \ E /\ AtList(x) /\ Admits(x, msg)
              /\ view'[x] = view[x]
           \/ /\ Seats(x) /\ ~Seats(x)' /\ x \in S \ E /\ Expels(x, msg) /\ view'[x] = view[x]
              /\ x # room.owner
           \/ /\ Seats(x) /\ ~Seats(x)' /\ x \notin S \ E /\ InRoom(x) /\ view'[x] = NoRoom
           \/ /\ Seats(x) /\ ~Seats(x)' /\ ~on[x] /\ view'[x] = view[x]
  PROVE  PushInv'
<1>1. /\ TypeInv /\ wire \in [Accounts -> Seq(Msg)]
      /\ \A x \in Accounts : Typed(x) /\ Kept(x)
  BY DEF PushInv, TypeInv, Typed, Kept
<1>2. /\ wire' \in [Accounts -> Seq(Msg)]
      /\ \A x \in Accounts :
           wire'[x] = IF x \in S \ E /\ on[x] THEN Append(wire[x], msg) ELSE wire[x]
  BY <1>1, BroadcastIs
<1>3. TypeInv'
  BY <1>1, <1>2 DEF TypeInv
<1>4. RoomSound' /\ room' # NoRoom
  BY NoRoomIsNoRecord DEF RoomSound, Sound
<1>5. ASSUME NEW x \in Accounts PROVE Kept(x)'
  <2>1. Typed(x) /\ Kept(x) /\ Still(x)
    BY <1>1 DEF Still
  <2>2. creating[x] # NoRoom => x = room.owner /\ on[x] /\ x \in raced'
    BY <2>1 DEF Kept, Creating, Offline
  <2>3. ~on[x] => wire'[x] = wire[x] /\ (x \notin cleaning => ~Seats(x))
    BY <1>2, <2>1 DEF Kept, Offline
  <2>4. ASSUME ~on[x], view'[x] = view[x], Seats(x)' => Seats(x) PROVE Kept(x)'
    BY <1>4, <2>1, <2>2, <2>3, <2>4, Unmoved
  <2>5. CASE /\ Seats(x) /\ Seats(x)' /\ x \in S \ E /\ ~Admits(x, msg) /\ ~Expels(x, msg)
             /\ view'[x] = view[x]
    BY <1>2, <1>4, <2>1, <2>2, <2>4, <2>5, Hears
  <2>6. CASE ~Seats(x) /\ ~Seats(x)' /\ x \notin S \ E /\ view'[x] = view[x]
    BY <1>2, <1>4, <2>1, <2>2, <2>6, Unmoved
  <2>7. CASE /\ ~Seats(x) /\ Seats(x)' /\ x \in S \ E /\ AtList(x) /\ Admits(x, msg)
             /\ view'[x] = view[x]
    <3>1. creating[x] = NoRoom
      BY <2>2, <2>7 DEF PushInv, RoomSound, WellSeated, OwnerSeated, Seats
    <3> QED
      BY <1>2, <1>4, <2>1, <2>7, <3>1, Comes DEF AtList
  <2>8. CASE /\ Seats(x) /\ ~Seats(x)' /\ x \in S \ E /\ Expels(x, msg) /\ view'[x] = view[x]
             /\ x # room.owner
    BY <1>2, <1>4, <2>1, <2>2, <2>4, <2>8, PutOut
  <2>9. CASE Seats(x) /\ ~Seats(x)' /\ x \notin S \ E /\ InRoom(x) /\ view'[x] = NoRoom
    BY <1>2, <2>1, <2>9, Goes
  <2>10. CASE Seats(x) /\ ~Seats(x)' /\ ~on[x] /\ view'[x] = view[x]
    BY <2>4, <2>10
  <2> QED
    BY <2>5, <2>6, <2>7, <2>8, <2>9, <2>10
<1> QED
  BY <1>3, <1>4, <1>5 DEF PushInv, Kept

\* The facts about the room that every operation starts from.
LEMMA RoomFacts ==
  ASSUME PushInv, room # NoRoom
  PROVE  /\ Sound(room) /\ room \in RoomRec /\ room.owner \in Accounts
         /\ AccountsIn(room) \subseteq Accounts /\ room.owner \in AccountsIn(room)
BY DEF PushInv, RoomSound, Sound, RoomRec, MemberRec, AccountsIn, WellSeated, OwnerSeated

LEMMA OvertakeFacts ==
  ASSUME PushInv, Overtake
  PROVE  /\ raced \subseteq raced' /\ raced' \subseteq Accounts
         /\ \A x \in Accounts : creating[x] # NoRoom => x \in raced'
BY DEF PushInv, TypeInv, Overtake

\* Whoever shows the room is not the host of an unanswered CREATE, and when that host is still
\* alone with its record nobody else sits in it.
LEMMA NoneCreating ==
  ASSUME PushInv, NEW a \in Accounts, InRoom(a), Seats(a)
  PROVE  \A x \in Accounts : creating[x] # NoRoom => x \in raced
BY DEF PushInv, Creating, InRoom, Seats

LEMMA MsgOf ==
  ASSUME NEW k \in Pushes, NEW r \in RoomRec \cup {NoRoom}, NEW a \in Accounts
  PROVE  /\ [ntf |-> k, room |-> r, who |-> a] \in Msg
         /\ [ntf |-> k, room |-> r, who |-> a].ntf = k /\ [ntf |-> k, room |-> r, who |-> a].room = r
         /\ [ntf |-> k, room |-> r, who |-> a].who = a
BY DEF Msg

LEMMA ViewTyped == ASSUME PushInv PROVE view \in [Accounts -> RoomRec \cup {NoRoom}]
BY DEF PushInv, TypeInv

\* Rules: who sits in the record an operation computes.
LEMMA JoinedMembers ==
  ASSUME NEW r \in RoomRec, NEW a \in Accounts
  PROVE  AccountsIn(Joined(r, a)) = AccountsIn(r) \cup {a} /\ Joined(r, a).owner = r.owner
<1>1. PICK m0 : m0.account_id = a /\ Joined(r, a) = [r EXCEPT !.members = @ \cup {m0}]
  <2> DEFINE g == pickTeam(r)
             s == IF freeSeat(r, g) >= 0 THEN freeSeat(r, g) ELSE 0
  <2>1. Joined(r, a) = [r EXCEPT !.members = @ \cup {memberFromAccount(a, g, s)}]
    BY DEF Joined
  <2> HIDE DEF g, s
  <2> QED
    BY <2>1 DEF memberFromAccount
<1>2. Joined(r, a).members = r.members \cup {m0} /\ Joined(r, a).owner = r.owner
  BY <1>1 DEF RoomRec
<1> QED
  BY <1>1, <1>2 DEF AccountsIn

LEMMA WithoutMembers ==
  ASSUME NEW r \in RoomRec, NEW a \in Accounts
  PROVE  AccountsIn(Without(r, a)) = AccountsIn(r) \ {a} /\ Without(r, a).owner = r.owner
BY DEF Without, AccountsIn, RoomRec

LEMMA ChangedMembers ==
  ASSUME NEW r \in RoomRec, NEW size
  PROVE  AccountsIn(Changed(r, size)) = AccountsIn(r) /\ Changed(r, size).owner = r.owner
BY DEF Changed, AccountsIn, RoomRec

LEMMA SeatedMembers ==
  ASSUME NEW r \in RoomRec, NEW a \in AccountsIn(r), NEW g, NEW s
  PROVE  AccountsIn(Seated(r, a, g, s)) = AccountsIn(r) /\ Seated(r, a, g, s).owner = r.owner
<1> DEFINE m0 == memberFromAccount(a, g, s)
<1>1. m0.account_id = a
  BY DEF memberFromAccount
<1>2. /\ Seated(r, a, g, s).members = {m \in r.members : m.account_id # a} \cup {m0}
      /\ Seated(r, a, g, s).owner = r.owner
  <2> HIDE DEF m0
  <2> QED
    BY DEF Seated, RoomRec, m0
<1> HIDE DEF m0
<1> QED
  BY <1>1, <1>2 DEF AccountsIn

\* join
LEMMA JoinKeeps ==
  ASSUME PushInv, NEW a \in Accounts, RoomJoin(a)
  PROVE  PushInv'
<1> DEFINE msg == [ntf |-> "JOIN", room |-> room', who |-> a]
<1>1. PICK code : MayJoin(room, a, code)
  BY DEF RoomJoin
<1>2. room # NoRoom /\ a \notin AccountsIn(room) /\ room' = Joined(room, a)
  BY <1>1 DEF MayJoin, RoomJoin
<1>3. Sound(room) /\ Sound(room') /\ room \in RoomRec /\ room' \in RoomRec /\ room' # NoRoom
  BY <1>1, <1>2, RoomFacts, JoinedSound, NoRoomIsNoRecord DEF Sound
<1>4. AccountsIn(room') = AccountsIn(room) \cup {a} /\ room'.owner = room.owner
  BY <1>2, <1>3, JoinedMembers
<1>5. msg \in Msg /\ msg.ntf = "JOIN" /\ msg.room = room' /\ msg.who = a
  BY <1>3, MsgOf DEF Pushes
<1>6. wire' = broadcast(AccountsIn(room'), {}, msg)
  BY DEF RoomJoin, joinNtf
<1> HIDE DEF msg
<1>7. ASSUME NEW x \in Accounts
      PROVE  /\ Seats(x) <=> x \in AccountsIn(room)
             /\ Seats(x)' <=> x \in AccountsIn(room')
             /\ Admits(x, msg) <=> x = a
             /\ ~Expels(x, msg)
  BY <1>2, <1>3, <1>5 DEF Seats, Admits, Expels
<1>8. AtList(a) /\ UNCHANGED <<mix, on, creating, cleaning, view>>
  BY DEF RoomJoin
<1>9. Overtake
  BY DEF RoomJoin
<1> QED
  BY <1>2, <1>3, <1>4, <1>5, <1>6, <1>7, <1>8, <1>9, OvertakeFacts, ViewTyped, Announced

\* kick: the kicked account is told as well, though no member any more
LEMMA KickKeeps ==
  ASSUME PushInv, NEW a \in Accounts, NEW t \in Accounts, RoomKick(a, t)
  PROVE  PushInv'
<1> DEFINE msg == [ntf |-> "KICK", room |-> room', who |-> t]
<1>1. room # NoRoom /\ room.owner # t /\ t \in AccountsIn(room) /\ room' = Without(room, t)
  BY DEF RoomKick, MayKick
<1>2. Sound(room) /\ Sound(room') /\ room \in RoomRec /\ room' \in RoomRec /\ room' # NoRoom
  BY <1>1, RoomFacts, WithoutSound, NoRoomIsNoRecord DEF Sound
<1>3. AccountsIn(room') = AccountsIn(room) \ {t} /\ room'.owner = room.owner
  BY <1>1, <1>2, WithoutMembers
<1>4. msg \in Msg /\ msg.ntf = "KICK" /\ msg.room = room' /\ msg.who = t
  BY <1>2, MsgOf DEF Pushes
<1>5. wire' = broadcast(AccountsIn(room') \cup {t}, {}, msg)
  BY DEF RoomKick, kickNtf
<1> HIDE DEF msg
<1>6. ASSUME NEW x \in Accounts
      PROVE  /\ Seats(x) <=> x \in AccountsIn(room)
             /\ Seats(x)' <=> x \in AccountsIn(room')
             /\ ~Admits(x, msg)
             /\ Expels(x, msg) <=> x = t
  BY <1>1, <1>2, <1>4 DEF Seats, Admits, Expels
<1>7. UNCHANGED <<mix, on, creating, cleaning, view>> /\ Overtake
  BY DEF RoomKick
<1> QED
  BY <1>1, <1>2, <1>3, <1>4, <1>5, <1>6, <1>7, OvertakeFacts, ViewTyped, Announced

\* The operations that leave the membership alone, told to all members.
LEMMA MembersTold ==
  ASSUME PushInv, room # NoRoom, Sound(room'), AccountsIn(room') = AccountsIn(room),
         room'.owner = room.owner, NEW a \in Accounts,
         NEW k \in Pushes \ {"JOIN", "DISMISS", "KICK"},
         wire' = broadcast(AccountsIn(room'), {}, [ntf |-> k, room |-> room', who |-> a]),
         UNCHANGED <<mix, on, creating, cleaning, view>>,
         raced \subseteq raced', raced' \subseteq Accounts,
         \A x \in Accounts : creating[x] # NoRoom => x \in raced'
  PROVE  PushInv'
<1> DEFINE msg == [ntf |-> k, room |-> room', who |-> a]
<1>1. room' \in RoomRec /\ room' # NoRoom
  BY NoRoomIsNoRecord DEF Sound
<1>2. msg \in Msg /\ msg.ntf = k /\ msg.room = room' /\ msg.who = a
  BY <1>1, MsgOf
<1> HIDE DEF msg
<1>3. ASSUME NEW x \in Accounts
      PROVE  /\ Seats(x) <=> x \in AccountsIn(room)
             /\ Seats(x)' <=> x \in AccountsIn(room)
             /\ ~Admits(x, msg) /\ ~Expels(x, msg)
  BY <1>1, <1>2 DEF Seats, Admits, Expels
<1>4. msg.ntf # "DISMISS" /\ wire' = broadcast(AccountsIn(room'), {}, msg)
  BY <1>2 DEF msg
<1> QED
  BY <1>1, <1>2, <1>3, <1>4, ViewTyped, Announced

\* change: any size of the dialog, also one below the number of members
LEMMA ChangeKeeps ==
  ASSUME PushInv, NEW a \in Accounts, RoomChange(a)
  PROVE  PushInv'
<1>1. PICK size \in mix.sizes : room' = Changed(room, size)
  BY DEF RoomChange
<1>2. size \in Sizes /\ room # NoRoom
  BY ScenariosOffered DEF PushInv, TypeInv, RoomChange, MayChange
<1>3. Sound(room) /\ Sound(room') /\ room \in RoomRec
  BY <1>1, <1>2, RoomFacts, ChangedSound
<1>4. AccountsIn(room') = AccountsIn(room) /\ room'.owner = room.owner
  BY <1>1, <1>3, ChangedMembers
<1>5. "CHANGE" \in Pushes \ {"JOIN", "DISMISS", "KICK"}
  BY DEF Pushes
<1>6. /\ wire' = broadcast(AccountsIn(room'), {}, [ntf |-> "CHANGE", room |-> room', who |-> a])
      /\ UNCHANGED <<mix, on, creating, cleaning, view>> /\ Overtake
  BY DEF RoomChange
<1> QED
  BY <1>2, <1>3, <1>4, <1>5, <1>6, OvertakeFacts, MembersTold

\* switchSeat
LEMMA SwitchSeatKeeps ==
  ASSUME PushInv, NEW a \in Accounts, RoomSwitchSeat(a)
  PROVE  PushInv'
<1>1. PICK g, s : MaySwitchSeat(room, a, g, s) /\ room' = Seated(room, a, g, s)
  BY DEF RoomSwitchSeat
<1>2. room # NoRoom /\ a \in AccountsIn(room)
  BY <1>1 DEF MaySwitchSeat
<1>3. Sound(room) /\ Sound(room') /\ room \in RoomRec
  BY <1>1, <1>2, RoomFacts, SeatedSound
<1>4. AccountsIn(room') = AccountsIn(room) /\ room'.owner = room.owner
  BY <1>1, <1>2, <1>3, SeatedMembers
<1>5. "SWITCHSEAT" \in Pushes \ {"JOIN", "DISMISS", "KICK"}
  BY DEF Pushes
<1>6. /\ wire' = broadcast(AccountsIn(room'), {}, [ntf |-> "SWITCHSEAT", room |-> room', who |-> a])
      /\ UNCHANGED <<mix, on, creating, cleaning, view>> /\ Overtake
  BY DEF RoomSwitchSeat
<1> QED
  BY <1>2, <1>3, <1>4, <1>5, <1>6, OvertakeFacts, MembersTold

\* setReady and the countdown change no record, and nobody who shows the room can send them
\* while a CREATE is unanswered and not yet overtaken.
LEMMA ReadyKeeps ==
  ASSUME PushInv, NEW a \in Accounts, RoomSetReady(a) \/ RoomCountDown(a)
  PROVE  PushInv'
<1>1. InRoom(a) /\ room # NoRoom /\ UNCHANGED <<mix, room, creating, cleaning, raced, on, view>>
  BY DEF RoomSetReady, RoomCountDown, MaySetReady, store
<1>2. Seats(a)
  BY <1>1, RoomFacts DEF RoomSetReady, RoomCountDown, MaySetReady, Seats
<1>3. /\ \A x \in Accounts : creating[x] # NoRoom => x \in raced'
      /\ raced \subseteq raced' /\ raced' \subseteq Accounts
  BY <1>1, <1>2, NoneCreating DEF PushInv, TypeInv
<1>4. Sound(room)
  BY <1>1, RoomFacts
<1>5. PICK k \in Pushes \ {"JOIN", "DISMISS", "KICK"} :
        wire' = broadcast(AccountsIn(room'), {}, [ntf |-> k, room |-> room', who |-> a])
  BY <1>1 DEF RoomSetReady, RoomCountDown, setReadyNtf, Pushes
<1> QED
  BY <1>1, <1>3, <1>4, <1>5, MembersTold

\* Only the owner takes the room with it: the last member is the owner too.
LEMMA OwnerDismisses ==
  ASSUME NEW r, Sound(r), NEW a \in AccountsIn(r), Dismisses(r, a)
  PROVE  r.owner = a
<1> SUFFICES ASSUME r.owner # a, Cardinality(r.members) <= 1 PROVE FALSE
  BY DEF Dismisses
<1>1. PICK m \in r.members, n \in r.members : m.account_id = a /\ n.account_id = r.owner
  BY DEF Sound, WellSeated, OwnerSeated, AccountsIn
<1>2. IsFiniteSet(r.members) /\ Cardinality(r.members) \in Nat
  BY FS_CardinalityType DEF Sound
<1>3. Cardinality(r.members) = 0 \/ Cardinality(r.members) = 1
  BY <1>2
<1>4. m = n
  BY <1>2, <1>3, FS_EmptySet, FS_Singleton
<1> QED
  BY <1>1, <1>4

\* leave, by the member itself or after its socket closed
LEMMA LeavesKeep ==
  ASSUME PushInv, NEW a \in Accounts, Leaves(a), room # NoRoom, UNCHANGED <<mix, creating, on>>,
         \/ InRoom(a) /\ view' = [view EXCEPT ![a] = NoRoom] /\ cleaning' = cleaning
         \/ ~on[a] /\ view' = view /\ cleaning' = cleaning \ {a}
  PROVE  PushInv'
<1>1. Sound(room) /\ room \in RoomRec /\ a \in AccountsIn(room) /\ Overtake
  BY RoomFacts DEF Leaves
<1>2. view \in [Accounts -> RoomRec \cup {NoRoom}] /\ TypeInv /\ wire \in [Accounts -> Seq(Msg)]
  BY DEF PushInv, TypeInv
<1>3. /\ view' \in [Accounts -> RoomRec \cup {NoRoom}]
      /\ \A x \in Accounts \ {a} : view'[x] = view[x]
      /\ view'[a] = NoRoom
  BY <1>2 DEF PushInv, Offline
<1>4. /\ raced \subseteq raced' /\ raced' \subseteq Accounts
      /\ \A x \in Accounts : creating[x] # NoRoom => x \in raced'
  BY <1>1, OvertakeFacts
<1>5. cleaning' \subseteq cleaning /\ \A x \in Accounts \ {a} : x \in cleaning => x \in cleaning'
  OBVIOUS
<1>6. CASE ~Dismisses(room, a)
  <2> DEFINE msg == [ntf |-> "LEAVE", room |-> room', who |-> a]
  <2>1. room' = Without(room, a) /\ room.owner # a
    BY <1>6 DEF Leaves, Dismisses
  <2>2. Sound(room') /\ room' \in RoomRec /\ room' # NoRoom
    BY <1>1, <2>1, WithoutSound, NoRoomIsNoRecord DEF Sound
  <2>3. AccountsIn(room') = AccountsIn(room) \ {a} /\ room'.owner = room.owner
    BY <1>1, <2>1, WithoutMembers
  <2>4. msg \in Msg /\ msg.ntf = "LEAVE" /\ msg.room = room' /\ msg.who = a
    BY <2>2, MsgOf DEF Pushes
  <2>5. wire' = broadcast(AccountsIn(room'), {a}, msg)
    BY <1>6 DEF Leaves, leaveNtf
  <2> HIDE DEF msg
  <2>6. ASSUME NEW x \in Accounts
        PROVE  /\ Seats(x) <=> x \in AccountsIn(room)
               /\ Seats(x)' <=> x \in AccountsIn(room')
               /\ ~Admits(x, msg) /\ ~Expels(x, msg)
    BY <2>2, <2>4 DEF Seats, Admits, Expels
  <2>7. ASSUME NEW x \in Accounts
        PROVE  \/ /\ Seats(x) /\ Seats(x)' /\ x \in AccountsIn(room') \ {a} /\ ~Admits(x, msg)
                  /\ ~Expels(x, msg) /\ view'[x] = view[x]
               \/ /\ ~Seats(x) /\ ~Seats(x)' /\ x \notin AccountsIn(room') \ {a} /\ view'[x] = view[x]
               \/ /\ Seats(x) /\ ~Seats(x)' /\ x \notin AccountsIn(room') \ {a} /\ InRoom(x)
                  /\ view'[x] = NoRoom
               \/ Seats(x) /\ ~Seats(x)' /\ ~on[x] /\ view'[x] = view[x]
    <3>1. CASE x = a
      BY <1>1, <1>3, <2>3, <2>6, <3>1
    <3>2. CASE x # a
      BY <1>3, <2>3, <2>6, <3>2
    <3> QED
      BY <3>1, <3>2
  <2>8. \A x \in Accounts : x \in cleaning => x \in cleaning' \/ ~Seats(x)'
    BY <1>5, <2>3, <2>6
  <2>9. msg.ntf # "DISMISS"
    BY <2>4
  <2> QED
    BY <1>3, <1>4, <1>5, <2>2, <2>3, <2>4, <2>5, <2>7, <2>8, <2>9, Announced
<1>7. CASE Dismisses(room, a)
  <2> DEFINE msg == [ntf |-> "DISMISS", room |-> NoRoom, who |-> a]
  <2>1. room' = NoRoom /\ room.owner = a
    BY <1>1, <1>7, OwnerDismisses DEF Leaves
  <2>2. msg \in Msg /\ msg.ntf = "DISMISS"
    BY MsgOf DEF Pushes
  <2>3. wire' = broadcast(AccountsIn(room), {a}, msg)
    BY <1>7 DEF Leaves, dismissNtf
  <2> HIDE DEF msg
  <2>4. /\ wire' \in [Accounts -> Seq(Msg)]
        /\ \A x \in Accounts :
             wire'[x] = IF x \in AccountsIn(room) \ {a} /\ on[x] THEN Append(wire[x], msg) ELSE wire[x]
    BY <1>2, <2>2, <2>3, BroadcastIs
  <2>5. TypeInv'
    BY <1>2, <1>3, <1>4, <1>5, <2>4 DEF TypeInv
  <2>6. RoomSound'
    BY <2>1 DEF RoomSound
  <2>7. \A x \in Accounts : ~Seats(x)' /\ (Seats(x) <=> x \in AccountsIn(room)) /\ Expels(x, msg)
    BY <2>1, <2>2 DEF Seats, Expels
  <2>8. ASSUME NEW x \in Accounts PROVE Kept(x)'
    <3>1. Typed(x) /\ Kept(x) /\ Still(x)
      BY <1>2, <1>4, <1>5 DEF PushInv, Typed, Kept, Still
    <3>2. creating[x] = NoRoom
      BY <2>1, <3>1 DEF Kept, Creating, Offline, InRoom
    <3>3. CASE x # a /\ ~(x \in AccountsIn(room) /\ on[x])
      BY <1>3, <2>4, <2>7, <3>1, <3>2, <3>3, Unmoved
    <3>4. CASE x # a /\ x \in AccountsIn(room) /\ on[x]
      BY <1>3, <2>2, <2>4, <2>7, <3>1, <3>2, <3>4, PutOut
    <3>5. CASE x = a /\ InRoom(a)
      BY <1>1, <1>3, <2>4, <2>7, <3>1, <3>5, Goes
    <3>6. CASE x = a /\ ~on[a] /\ view' = view
      BY <2>4, <2>7, <3>1, <3>2, <3>6, Unmoved
    <3> QED
      BY <3>3, <3>4, <3>5, <3>6
  <2> QED
    BY <2>5, <2>6, <2>8 DEF PushInv, Kept
<1> QED
  BY <1>6, <1>7

LEMMA LeaveKeeps ==
  ASSUME PushInv, NEW a \in Accounts, RoomLeave(a)
  PROVE  PushInv'
BY LeavesKeep DEF RoomLeave

\* The leave that follows a closed socket.
LEMMA HandleDisconnectKeeps ==
  ASSUME PushInv, NEW a \in Accounts, handleDisconnect(a)
  PROVE  PushInv'
<1>1. a \in cleaning /\ cleaning' = cleaning \ {a} /\ UNCHANGED <<mix, creating, view, on>> /\ ~on[a]
  BY DEF handleDisconnect, PushInv, Offline
<1>2. CASE room # NoRoom /\ a \in AccountsIn(room)
  BY <1>1, <1>2, LeavesKeep DEF handleDisconnect
<1>3. CASE ~(room # NoRoom /\ a \in AccountsIn(room))
  <2>1. UNCHANGED <<room, wire, raced>>
    BY <1>3 DEF handleDisconnect
  <2>2. TypeInv' /\ RoomSound'
    BY <1>1, <2>1 DEF PushInv, TypeInv, RoomSound
  <2>3. ASSUME NEW x \in Accounts PROVE Kept(x)'
    <3>1. Typed(x) /\ Kept(x) /\ Still(x)
      BY <1>1, <2>1 DEF PushInv, TypeInv, Typed, Kept, Still
    <3>2. (Seats(x)' <=> Seats(x)) /\ ~Seats(a)
      BY <1>3, <2>1 DEF Seats
    <3>3. x # a => (~on[x] /\ x \notin cleaning' => ~Seats(x)')
      BY <1>1, <3>1, <3>2 DEF Kept, Offline
    <3>4. creating[x] # NoRoom => room' # NoRoom
      BY <2>1, <3>1 DEF Kept, Creating
    <3> QED
      BY <1>1, <2>1, <3>1, <3>2, <3>3, <3>4, Unmoved
  <2> QED
    BY <2>2, <2>3 DEF PushInv, Kept
<1> QED
  BY <1>2, <1>3

\* create: the record is there, its host is not answered yet
LEMMA CreateKeeps ==
  ASSUME PushInv, NEW a \in Accounts, RoomCreate(a)
  PROVE  PushInv'
<1>1. PICK size \in mix.sizes, code \in Codes \cup {NoCode} :
        room' = Created(a, size, code) /\ creating' = [creating EXCEPT ![a] = room']
  BY DEF RoomCreate
<1>2. Sound(room') /\ room' \in RoomRec /\ room' # NoRoom
  BY <1>1, ScenariosOffered, CreatedSound, NoRoomIsNoRecord DEF PushInv, TypeInv, Sound
<1>3. room'.owner = a /\ AccountsIn(room') = {a}
  BY <1>1 DEF Created, AccountsIn, memberFromAccount
<1>4. AtList(a) /\ room = NoRoom /\ UNCHANGED <<mix, cleaning, raced, wire, view, on>>
  BY DEF RoomCreate, clients
<1>5. TypeInv /\ creating \in [Accounts -> RoomRec \cup {NoRoom}]
  BY DEF PushInv, TypeInv
<1>6. /\ creating' \in [Accounts -> RoomRec \cup {NoRoom}] /\ creating'[a] = room'
      /\ \A x \in Accounts \ {a} : creating'[x] = creating[x]
  BY <1>1, <1>2, <1>5
<1>7. TypeInv' /\ RoomSound'
  BY <1>2, <1>4, <1>5, <1>6 DEF TypeInv, RoomSound, Sound
<1>8. ASSUME NEW x \in Accounts PROVE Kept(x)'
  <2>1. Typed(x) /\ Kept(x) /\ ~Seats(x) /\ creating[x] = NoRoom
    BY <1>4, <1>5 DEF PushInv, TypeInv, Typed, Kept, Seats, Creating
  <2>2. CASE x = a
    <3>1. wire'[a] = <<>> /\ view'[a] = NoRoom /\ on'[a] /\ DOMAIN wire'[a] = {}
      BY <1>4 DEF AtList
    <3>2. Offline(a)' /\ Creating(a)'
      BY <1>2, <1>3, <1>4, <1>6, <2>1, <2>2, <3>1 DEF Kept, Offline, Creating
    <3>3. Shown(a)'
      BY <1>2, <1>6 DEF Shown
    <3> QED
      BY <2>2, <3>2, <3>3 DEF Kept
  <2>3. CASE x # a
    <3>1. ~Seats(x)'
      BY <1>3, <2>3 DEF Seats
    <3>2. Still(x)
      BY <1>4, <1>6, <2>3 DEF Still
    <3> QED
      BY <1>4, <2>1, <3>1, <3>2, Unmoved
  <2> QED
    BY <2>2, <2>3
<1> QED
  BY <1>7, <1>8 DEF PushInv, Kept

\* The answer of CREATE: the record as it was created, which is the record unless overtaken.
LEMMA CreateReplyKeeps ==
  ASSUME PushInv, NEW a \in Accounts, RoomCreateReply(a)
  PROVE  PushInv'
<1>1. /\ creating[a] # NoRoom /\ UNCHANGED <<mix, room, cleaning, raced, wire, on>>
      /\ view' = [view EXCEPT ![a] = creating[a]] /\ creating' = [creating EXCEPT ![a] = NoRoom]
  BY DEF RoomCreateReply
<1>2. /\ TypeInv /\ creating \in [Accounts -> RoomRec \cup {NoRoom}]
      /\ view \in [Accounts -> RoomRec \cup {NoRoom}]
  BY DEF PushInv, TypeInv
<1>3. /\ creating' \in [Accounts -> RoomRec \cup {NoRoom}] /\ view' \in [Accounts -> RoomRec \cup {NoRoom}]
      /\ creating'[a] = NoRoom /\ view'[a] = creating[a]
      /\ \A x \in Accounts \ {a} : creating'[x] = creating[x] /\ view'[x] = view[x]
  BY <1>1, <1>2
<1>4. TypeInv' /\ RoomSound'
  BY <1>1, <1>2, <1>3 DEF PushInv, TypeInv, RoomSound
<1>5. ASSUME NEW x \in Accounts PROVE Kept(x)'
  <2>1. Typed(x) /\ Kept(x) /\ (Seats(x)' <=> Seats(x))
    BY <1>1, <1>2 DEF PushInv, TypeInv, Typed, Kept, Seats
  <2>2. CASE x = a
    <3>1. on[a] /\ a \notin cleaning
      BY <1>1, <2>1, <2>2 DEF Kept, Offline
    <3>2. Offline(a)' /\ Creating(a)'
      BY <1>1, <1>3, <3>1 DEF Offline, Creating
    <3>3. ASSUME a \notin raced PROVE UpToDate(a)'
      <4>1. /\ wire[a] = <<>> /\ room.members = creating[a].members /\ room # NoRoom
            /\ AccountsIn(room) = {a}
        BY <1>1, <2>1, <2>2, <3>3 DEF Kept, Creating
      <4> QED
        BY <1>1, <1>3, <4>1 DEF UpToDate, Seats
    <3> QED
      BY <1>1, <2>2, <3>2, <3>3 DEF Kept, Shown
  <2>3. CASE x # a
    <3>1. Still(x) /\ wire'[x] = wire[x] /\ view'[x] = view[x] /\ room' = room
      BY <1>1, <1>3, <2>3 DEF Still
    <3>2. (~on[x] /\ x \notin cleaning' => ~Seats(x)') /\ (creating[x] # NoRoom => room # NoRoom)
      BY <1>1, <2>1 DEF Kept, Offline, Creating
    <3> QED
      BY <2>1, <3>1, <3>2, Unmoved
  <2> QED
    BY <2>2, <2>3
<1> QED
  BY <1>4, <1>5 DEF PushInv, Kept

\* start and reenter change the state of the record only, and tell nobody; the poll answers the
\* record as it is by now.
LEMMA StateKeeps ==
  ASSUME PushInv, room # NoRoom => /\ room' # NoRoom /\ Sound(room')
                                   /\ room'.members = room.members /\ room'.owner = room.owner,
         room = NoRoom => room' = NoRoom,
         UNCHANGED <<mix, creating, cleaning, raced, wire, on>>,
         view' = view \/ \E a \in Accounts : InRoom(a) /\ view' = [view EXCEPT ![a] = room']
  PROVE  PushInv'
<1>1. TypeInv /\ view \in [Accounts -> RoomRec \cup {NoRoom}] /\ room' \in RoomRec \cup {NoRoom}
  BY RoomFacts DEF PushInv, TypeInv, Sound
<1>2. view' \in [Accounts -> RoomRec \cup {NoRoom}]
  BY <1>1
<1>3. TypeInv' /\ RoomSound'
  BY <1>1, <1>2 DEF TypeInv, RoomSound, Sound
<1>4. ASSUME NEW x \in Accounts PROVE Kept(x)'
  <2>1. Typed(x) /\ Kept(x) /\ Still(x)
    BY DEF PushInv, TypeInv, Typed, Kept, Still
  <2>2. (Seats(x)' <=> Seats(x)) /\ (Seats(x) => room'.members = room.members)
    BY DEF Seats, AccountsIn
  <2>3. creating[x] # NoRoom =>
          room' # NoRoom /\ room'.owner = room.owner /\ room'.members = room.members
    BY <2>1 DEF Kept, Creating
  <2>4. ~on[x] /\ x \notin cleaning' => ~Seats(x)'
    BY <2>1, <2>2 DEF Kept, Offline
  <2>5. CASE view'[x] = view[x]
    BY <2>1, <2>2, <2>3, <2>4, <2>5, Unmoved
  <2>6. CASE InRoom(x) /\ view'[x] = room'
    <3>1. creating[x] = NoRoom /\ on[x]
      BY <2>1, <2>6 DEF Kept, Creating, InRoom
    <3>2. Offline(x)' /\ Creating(x)'
      BY <2>1, <3>1 DEF Kept, Offline, Creating, Still
    <3>3. ASSUME x \notin raced PROVE UpToDate(x)'
      <4>0. view[x] # NoRoom
        BY <2>6 DEF InRoom
      <4>1. UpToDate(x) /\ view[x] # NoRoom
        BY <2>1, <3>1, <3>3, <4>0 DEF Kept, Shown
      <4>2. \A i \in DOMAIN wire[x] : ~Admits(x, wire[x][i])
        BY <4>1 DEF UpToDate
      <4>3. CASE Seats(x)
        BY <2>2, <2>6, <4>1, <4>2, <4>3 DEF UpToDate, Seats, Admits, Expels
      <4>4. CASE ~Seats(x)
        <5>1. wire[x] # <<>> /\ Expels(x, wire[x][Len(wire[x])])
          BY <4>1, <4>4 DEF UpToDate
        <5> QED
          BY <2>2, <4>1, <4>2, <4>4, <5>1 DEF UpToDate, Admits, Expels
      <4> QED
        BY <4>3, <4>4
    <3> QED
      BY <3>2, <3>3 DEF Kept, Shown
  <2> QED
    BY <1>1, <2>5, <2>6
<1> QED
  BY <1>3, <1>4 DEF PushInv, Kept

LEMMA StartKeeps ==
  ASSUME PushInv, NEW a \in Accounts, RoomStart(a)
  PROVE  PushInv'
<1>1. room # NoRoom /\ room' = Started(room)
  BY DEF RoomStart, MayStart
<1>2. Sound(room) /\ Sound(room') /\ room \in RoomRec
  BY <1>1, RoomFacts, StateSound
<1>3. room' # NoRoom /\ room'.members = room.members /\ room'.owner = room.owner
  BY <1>1, <1>2, NoRoomIsNoRecord DEF Started, RoomRec, Sound
<1> QED
  BY <1>1, <1>2, <1>3, StateKeeps DEF RoomStart, clients

LEMMA InfoKeeps ==
  ASSUME PushInv, NEW a \in Accounts, RoomInfo(a)
  PROVE  PushInv'
<1>1. /\ InRoom(a) /\ view' = [view EXCEPT ![a] = room']
      /\ UNCHANGED <<mix, creating, cleaning, raced, wire, on>>
      /\ room' = room \/ (room # NoRoom /\ room' = Reopened(room))
  BY DEF RoomInfo, MayReopen
<1>2. ASSUME room # NoRoom
      PROVE  /\ room' # NoRoom /\ Sound(room')
             /\ room'.members = room.members /\ room'.owner = room.owner
  <2>1. Sound(room) /\ Sound(Reopened(room)) /\ room \in RoomRec
    BY <1>2, RoomFacts, StateSound
  <2> QED
    BY <1>1, <1>2, <2>1, NoRoomIsNoRecord DEF Reopened, RoomRec, Sound
<1> QED
  BY <1>1, <1>2, StateKeeps

\* The socket closes.
LEMMA DisconnectKeeps ==
  ASSUME PushInv, NEW a \in Accounts, disconnect(a)
  PROVE  PushInv'
<1>1. /\ on' = [on EXCEPT ![a] = FALSE] /\ cleaning' = cleaning \cup {a} /\ UNCHANGED <<mix, room>>
      /\ view' = [view EXCEPT ![a] = NoRoom] /\ wire' = [wire EXCEPT ![a] = <<>>]
      /\ creating' = [creating EXCEPT ![a] = NoRoom] /\ raced' = raced \ {a}
  BY DEF disconnect
<1>2. TypeInv
  BY DEF PushInv
<1>3. TypeInv' /\ RoomSound'
  BY <1>1, <1>2 DEF PushInv, TypeInv, RoomSound
<1>4. /\ ~on'[a] /\ view'[a] = NoRoom /\ wire'[a] = <<>> /\ creating'[a] = NoRoom /\ a \in cleaning'
      /\ \A x \in Accounts \ {a} : /\ on'[x] = on[x] /\ view'[x] = view[x] /\ wire'[x] = wire[x]
                                   /\ creating'[x] = creating[x]
                                   /\ (x \in cleaning' <=> x \in cleaning)
                                   /\ (x \in raced' <=> x \in raced)
  BY <1>1, <1>2 DEF TypeInv
<1>5. ASSUME NEW x \in Accounts PROVE Kept(x)'
  <2>1. Typed(x) /\ Kept(x)
    BY DEF PushInv, TypeInv, Typed, Kept
  <2>2. CASE x = a
    BY <1>4, <2>2 DEF Kept, Offline, Creating, Shown
  <2>3. CASE x # a
    <3>1. Still(x) /\ wire'[x] = wire[x] /\ view'[x] = view[x] /\ room' = room
      BY <1>1, <1>4, <2>3 DEF Still
    <3>2. (Seats(x)' <=> Seats(x)) /\ (creating[x] # NoRoom => room # NoRoom)
      BY <1>1, <2>1 DEF Seats, Kept, Creating
    <3>3. ~on[x] /\ x \notin cleaning' => ~Seats(x)'
      BY <1>4, <2>1, <2>3, <3>2 DEF Kept, Offline
    <3> QED
      BY <2>1, <3>1, <3>2, <3>3, Unmoved
  <2> QED
    BY <2>2, <2>3
<1> QED
  BY <1>3, <1>5 DEF PushInv, Kept

LEMMA ReconnectKeeps ==
  ASSUME PushInv, NEW a \in Accounts, reconnect(a)
  PROVE  PushInv'
<1>1. /\ ~on[a] /\ a \notin cleaning /\ on' = [on EXCEPT ![a] = TRUE]
      /\ UNCHANGED <<mix, room, creating, cleaning, raced, wire, view>>
  BY DEF reconnect, store
<1>2. TypeInv
  BY DEF PushInv
<1>3. TypeInv' /\ RoomSound'
  BY <1>1, <1>2 DEF PushInv, TypeInv, RoomSound
<1>4. on'[a] /\ \A x \in Accounts \ {a} : on'[x] = on[x]
  BY <1>1, <1>2 DEF TypeInv
<1>5. ASSUME NEW x \in Accounts PROVE Kept(x)'
  <2>1. Typed(x) /\ Kept(x) /\ (Seats(x)' <=> Seats(x))
    BY <1>1 DEF PushInv, TypeInv, Typed, Kept, Seats
  <2>2. CASE x = a
    <3>1. wire[a] = <<>> /\ view[a] = NoRoom /\ creating[a] = NoRoom /\ ~Seats(a)
      BY <1>1, <2>1, <2>2 DEF Kept, Offline
    <3> QED
      BY <1>1, <1>4, <2>1, <2>2, <3>1 DEF Kept, Offline, Creating, Shown, UpToDate
  <2>3. CASE x # a
    <3>1. Still(x) /\ (creating[x] # NoRoom => room # NoRoom)
      BY <1>1, <1>4, <2>1, <2>3 DEF Still, Kept, Creating
    <3>2. ~on[x] /\ x \notin cleaning' => ~Seats(x)'
      BY <1>1, <2>1 DEF Kept, Offline
    <3> QED
      BY <1>1, <2>1, <3>1, <3>2, Unmoved
  <2> QED
    BY <2>2, <2>3
<1> QED
  BY <1>3, <1>5 DEF PushInv, Kept

\* The client takes the next push.
LEMMA NotifyKeeps ==
  ASSUME PushInv, NEW a \in Accounts, notify(a)
  PROVE  PushInv'
<1> DEFINE w == wire[a]
           msg == Head(wire[a])
<1>1. /\ w # <<>> /\ wire' = [wire EXCEPT ![a] = Tail(@)] /\ view' = [view EXCEPT ![a] = shows(a, msg)]
      /\ UNCHANGED <<mix, room, creating, cleaning, raced, on>>
  BY DEF notify, store
<1>2. TypeInv /\ w \in Seq(Msg) /\ view[a] \in RoomRec \cup {NoRoom}
  BY DEF PushInv, TypeInv
<1>3. /\ Tail(w) \in Seq(Msg) /\ Len(Tail(w)) = Len(w) - 1 /\ msg = w[1] /\ 1 \in DOMAIN w
      /\ \A i \in 1 .. Len(w) - 1 : Tail(w)[i] = w[i + 1] /\ i + 1 \in DOMAIN w
      /\ DOMAIN Tail(w) = 1 .. Len(w) - 1 /\ (Tail(w) = <<>> <=> Len(w) = 1)
      /\ Len(w) \in Nat \ {0} /\ msg \in Msg /\ DOMAIN w = 1 .. Len(w)
  <2> HIDE DEF w
  <2>1. msg = Head(w)
    BY DEF w
  <2> HIDE DEF msg
  <2> QED
    BY <1>1, <1>2, <2>1, TailFacts
<1>4. shows(a, msg) \in RoomRec \cup {NoRoom}
  BY <1>2, <1>3 DEF shows, Msg
<1>5. /\ wire'[a] = Tail(w) /\ view'[a] = shows(a, msg)
      /\ \A x \in Accounts \ {a} : wire'[x] = wire[x] /\ view'[x] = view[x]
      /\ wire' \in [Accounts -> Seq(Msg)] /\ view' \in [Accounts -> RoomRec \cup {NoRoom}]
  BY <1>1, <1>2, <1>3, <1>4 DEF TypeInv
<1>6. TypeInv' /\ RoomSound'
  BY <1>1, <1>2, <1>5 DEF PushInv, TypeInv, RoomSound
<1>7. ASSUME NEW x \in Accounts PROVE Kept(x)'
  <2>1. Typed(x) /\ Kept(x) /\ (Seats(x)' <=> Seats(x))
    BY <1>1 DEF PushInv, TypeInv, Typed, Kept, Seats
  <2>2. CASE x = a
    <3> DEFINE v == wire'[a]
    <3>1. on[a] /\ a \notin cleaning
      BY <1>1, <2>1, <2>2 DEF Kept, Offline
    <3>2. Offline(a)'
      BY <1>1, <3>1 DEF Offline
    <3>3. Creating(a)'
      <4> SUFFICES ASSUME creating[a] # NoRoom PROVE Creating(a)'
        BY <1>1 DEF Creating
      <4>1. /\ room # NoRoom /\ room.owner = a /\ view[a] = NoRoom /\ a \in raced
            /\ \A i \in DOMAIN w : ~Admits(a, w[i])
        BY <1>1, <2>1, <2>2 DEF Kept, Creating
      <4>2. shows(a, msg) = NoRoom
        BY <1>3, <4>1 DEF shows, Admits
      <4>3. \A i \in DOMAIN v : ~Admits(a, v[i])
        <5>1. v = Tail(w)
          BY <1>5
        <5> HIDE DEF v
        <5>2. \A i \in DOMAIN v : v[i] = w[i + 1] /\ i + 1 \in DOMAIN w
          BY <1>3, <5>1
        <5> QED
          BY <4>1, <5>2
      <4> QED
        BY <1>1, <1>5, <4>1, <4>2, <4>3 DEF Creating
    <3>4. ASSUME creating[a] = NoRoom, a \notin raced PROVE UpToDate(a)'
      <4>1. UpToDate(a)
        BY <2>1, <2>2, <3>1, <3>4 DEF Kept, Shown
      <4>2. \A i \in DOMAIN w : /\ Admits(a, w[i]) => i = 1 /\ view[a] = NoRoom
                                /\ Expels(a, w[i]) => i = Len(w)
                                /\ w[i].ntf # "DISMISS" => w[i].room # NoRoom
        BY <4>1 DEF UpToDate
      <4>3. v = Tail(w)
        BY <1>5
      <4>4. \A i \in DOMAIN v : /\ ~Admits(a, v[i]) /\ (Expels(a, v[i]) => i = Len(v))
                                /\ v[i].ntf # "DISMISS" => v[i].room # NoRoom
        <5> SUFFICES ASSUME NEW i \in DOMAIN v
                     PROVE  /\ ~Admits(a, v[i]) /\ (Expels(a, v[i]) => i = Len(v))
                            /\ v[i].ntf # "DISMISS" => v[i].room # NoRoom
          OBVIOUS
        <5>1. i \in 1 .. Len(w) - 1 /\ i + 1 \in DOMAIN w /\ v[i] = w[i + 1] /\ i + 1 # 1
          BY <1>3, <4>3
        <5> QED
          BY <1>3, <4>2, <4>3, <5>1
      <4>5. Len(w) # 1 => v # <<>> /\ v[Len(v)] = w[Len(w)] /\ 1 \in DOMAIN v
        BY <1>3, <4>3
      <4>6. Admits(a, msg) => msg.ntf # "DISMISS" /\ msg.room # NoRoom
        BY <1>3, <4>2 DEF Admits
      <4>7. shows(a, msg) = IF Expels(a, msg) THEN NoRoom
                            ELSE IF Admits(a, msg) \/ view[a] # NoRoom THEN msg.room ELSE NoRoom
        BY DEF shows, Expels, Admits
      <4>8. ~Expels(a, msg) => msg.room # NoRoom
        BY <1>3, <4>2 DEF Expels
      <4>9. CASE Seats(a)
        <5>1. /\ ~Expels(a, w[Len(w)]) /\ w[Len(w)].room.members = room.members
              /\ view[a] # NoRoom \/ Admits(a, w[1])
          BY <1>1, <4>1, <4>9 DEF UpToDate
        <5>2. ~Expels(a, msg)
          BY <1>3, <4>2, <5>1
        <5>3. view'[a] = msg.room /\ view'[a] # NoRoom
          BY <1>3, <1>5, <4>7, <4>8, <5>1, <5>2
        <5>4. v = <<>> => view'[a].members = room.members
          BY <1>3, <4>3, <5>1, <5>3
        <5>5. v # <<>> => ~Expels(a, v[Len(v)]) /\ v[Len(v)].room.members = room.members
          BY <1>3, <4>3, <4>5, <5>1
        <5> HIDE DEF v
        <5> QED
          BY <1>1, <2>1, <2>2, <4>4, <4>9, <5>3, <5>4, <5>5 DEF UpToDate, v, Admits, Expels
      <4>10. CASE ~Seats(a)
        <5>1. Expels(a, w[Len(w)]) \/ (view[a] = NoRoom /\ ~Admits(a, msg))
          BY <1>1, <1>3, <4>1, <4>10 DEF UpToDate
        <5>2. v = <<>> => view'[a] = NoRoom
          BY <1>3, <1>5, <4>3, <4>7, <5>1
        <5>3. v # <<>> => Expels(a, v[Len(v)]) \/ (view'[a] = NoRoom /\ ~Admits(a, v[1]))
          <6> SUFFICES ASSUME v # <<>> PROVE Expels(a, v[Len(v)]) \/ (view'[a] = NoRoom /\ ~Admits(a, v[1]))
            OBVIOUS
          <6>1. 1 \in DOMAIN v /\ v[Len(v)] = w[Len(w)]
            BY <1>3, <4>3, <4>5
          <6>2. ~Admits(a, v[1])
            BY <4>4, <6>1
          <6>3. view[a] = NoRoom /\ ~Admits(a, msg) => view'[a] = NoRoom
            BY <1>5, <4>7
          <6> QED
            BY <5>1, <6>1, <6>2, <6>3
        <5> HIDE DEF v
        <5> QED
          BY <1>1, <2>1, <2>2, <4>4, <4>10, <5>2, <5>3 DEF UpToDate, v, Admits, Expels
      <4> QED
        BY <4>9, <4>10
    <3> QED
      BY <1>1, <2>2, <3>2, <3>3, <3>4 DEF Kept, Shown
  <2>3. CASE x # a
    <3>1. Still(x) /\ wire'[x] = wire[x] /\ view'[x] = view[x]
      BY <1>1, <1>5, <2>3 DEF Still
    <3>2. (~on[x] /\ x \notin cleaning' => ~Seats(x)') /\ (creating[x] # NoRoom => room # NoRoom)
      BY <1>1, <2>1 DEF Kept, Offline, Creating
    <3> QED
      BY <1>1, <2>1, <3>1, <3>2, Unmoved
  <2> QED
    BY <2>2, <2>3
<1> QED
  BY <1>6, <1>7 DEF PushInv, Kept

LEMMA PushIdle ==
  ASSUME PushInv, UNCHANGED <<mix, room, creating, cleaning, raced, clients>>
  PROVE  PushInv'
BY DEF PushInv, TypeInv, RoomSound, Offline, Creating, Shown, UpToDate, Seats, clients

LEMMA PushInit == ASSUME Init PROVE PushInv
<1>1. RoomSound /\ raced = {} /\ cleaning = {}
  BY DEF Init, RoomSound
<1>2. <<>> \in Seq(Msg)
  OBVIOUS
<1>3. TypeInv
  BY <1>2 DEF Init, TypeInv
<1>4. ASSUME NEW a \in Accounts PROVE Offline(a) /\ Creating(a) /\ Shown(a)
  BY DEF Init, Offline, Creating, Shown, UpToDate, Seats
<1> QED
  BY <1>1, <1>3, <1>4 DEF PushInv

LEMMA PushStep == ASSUME PushInv, [Next]_vars PROVE PushInv'
<1>1. CASE UNCHANGED vars
  BY <1>1, PushIdle DEF vars, clients
<1>2. ASSUME NEW a \in Accounts, Handlers(a) PROVE PushInv'
  BY <1>2, CreateKeeps, CreateReplyKeeps, JoinKeeps, LeaveKeeps, ChangeKeeps, ReadyKeeps,
     SwitchSeatKeeps, StartKeeps, InfoKeeps, KickKeeps DEF Handlers
<1>3. ASSUME NEW a \in Accounts, disconnect(a) \/ handleDisconnect(a) \/ reconnect(a) \/ notify(a)
      PROVE  PushInv'
  BY <1>3, DisconnectKeeps, HandleDisconnectKeeps, ReconnectKeeps, NotifyKeeps
<1>4. CASE refresh \/ RoomStartSettings \/ RoomStartHandoff \/ RoomStartEnds \/ admitFirst
  BY <1>4, PushIdle DEF refresh, RoomStartSettings, RoomStartHandoff, RoomStartEnds, admitFirst
<1> QED
  BY <1>1, <1>2, <1>3, <1>4 DEF Next

LEMMA PushHolds == Spec => []PushInv
BY PushInit, PushStep, PTL DEF Spec

\* However joins, kicks, leaves, seat switches, lost connections and the pushes under way about
\* them interleave: once all have arrived, every connected member shows the roster of the record
\* (rooms.js broadcast, gateway.js push) and nobody else shows a room.
THEOREM ViewsHold == Spec => []ViewsAgree
<1>1. PushInv => ViewsAgree
  <2> SUFFICES ASSUME PushInv, Quiet, NEW a \in Accounts, on[a], a \notin raced
               PROVE  IF a \in (IF room = NoRoom THEN {} ELSE AccountsIn(room))
                      THEN Roster(view[a]) = room.members ELSE view[a] = NoRoom
    BY DEF ViewsAgree
  <2>1. UpToDate(a) /\ wire[a] = <<>>
    BY DEF PushInv, Quiet, Shown
  <2> QED
    BY <2>1 DEF UpToDate, Seats, Roster
<1> QED
  BY <1>1, PushHolds, PTL

--------------------------------------------------------------------------------
(* START *)

\* What the settings dialogs write into a record.
LEMMA PackFacts ==
  ASSUME NEW c
  PROVE  /\ DOMAIN pack(c) = {"rs", "rs2", "advanced", "blob"}
         /\ pack(c).blob # <<>> => pack(c).advanced = TRUE
BY DEF pack

LEMMA WrittenSame == ASSUME NEW c PROVE Written(c, c) = pack(c)
<1> DEFINE p == pack(c)
<1>1. p = [rs |-> p.rs, rs2 |-> p.rs2, advanced |-> p.advanced, blob |-> p.blob]
  BY DEF pack
<1> HIDE DEF p
<1>2. [p EXCEPT !.rs = p.rs, !.rs2 = p.rs2] = p
  BY <1>1
<1> QED
  BY <1>2 DEF Written, p

LEMMA ConfigIn == \A c, d \in Offered : ConfigOf(c, d) \in Configs
BY DEF Configs

LEMMA ConfigUpdate ==
  ASSUME NEW s, NEW t, NEW b, NEW c, NEW e, NEW r, r = [stored |-> s, simple |-> b, adv |-> e]
  PROVE  [r EXCEPT !.stored = t, !.simple = c] = [stored |-> t, simple |-> c, adv |-> e]
<1> DEFINE u == [r EXCEPT !.stored = t, !.simple = c]
<1>1. DOMAIN u = {"stored", "simple", "adv"} /\ u.stored = t /\ u.simple = c /\ u.adv = e
  OBVIOUS
<1>2. u = [i \in DOMAIN u |-> u[i]]
  OBVIOUS
<1> HIDE DEF u
<1>3. u = [stored |-> t, simple |-> c, adv |-> e]
  BY <1>1, <1>2
<1> QED
  BY <1>3 DEF u

\* A CHANGE leaves fields that one CREATE or CHANGE, or two of them, have written.
LEMMA ChangedConfigOf ==
  ASSUME NEW c \in Offered, config \in Configs
  PROVE  ChangedConfig(c) \in Configs
<1> DEFINE new == pack(c)
<1>1. CASE new.blob # <<>>
  <2>1. [new EXCEPT !.advanced = TRUE] = new
    <3>1. new = [rs |-> new.rs, rs2 |-> new.rs2, advanced |-> new.advanced, blob |-> new.blob]
      BY DEF pack
    <3>2. new.advanced = TRUE
      BY <1>1, PackFacts
    <3> HIDE DEF new
    <3> QED
      BY <3>1, <3>2
  <2>2. ChangedConfig(c) = ConfigOf(c, c)
    BY <1>1, <2>1, WrittenSame DEF ChangedConfig, ConfigOf
  <2> QED
    BY <2>2, ConfigIn
<1>2. CASE new.blob = <<>>
  <2>1. PICK b \in Offered, d \in Offered :
          config = [stored |-> Written(b, d), simple |-> b, adv |-> d.adv]
    BY DEF Configs, ConfigOf
  <2>2. Written(c, d) = [Written(b, d) EXCEPT !.rs = new.rs, !.rs2 = new.rs2]
    <3> DEFINE p == pack(d)
               q == pack(b)
    <3>1. p = [rs |-> p.rs, rs2 |-> p.rs2, advanced |-> p.advanced, blob |-> p.blob]
      BY DEF pack
    <3> HIDE DEF p, q, new
    <3>2. [p EXCEPT !.rs = new.rs, !.rs2 = new.rs2]
            = [[p EXCEPT !.rs = q.rs, !.rs2 = q.rs2] EXCEPT !.rs = new.rs, !.rs2 = new.rs2]
      BY <3>1
    <3> QED
      BY <3>2 DEF Written, p, q, new
  <2>3. ChangedConfig(c) = ConfigOf(c, d)
    <3>1. ChangedConfig(c) = [config EXCEPT !.stored = [@ EXCEPT !.rs = new.rs, !.rs2 = new.rs2], !.simple = c]
      BY <1>2 DEF ChangedConfig
    <3> DEFINE t == [Written(b, d) EXCEPT !.rs = new.rs, !.rs2 = new.rs2]
    <3>2. config.stored = Written(b, d)
      BY <2>1
    <3>3. ChangedConfig(c) = [config EXCEPT !.stored = t, !.simple = c]
      BY <3>1, <3>2
    <3> HIDE DEF t
    <3>4. ChangedConfig(c) = [stored |-> t, simple |-> c, adv |-> d.adv]
      BY <2>1, <3>3, ConfigUpdate
    <3> QED
      BY <2>2, <3>4 DEF t, ConfigOf
  <2> QED
    BY <2>3, ConfigIn
<1> QED
  BY <1>1, <1>2

\* Only CREATE, CHANGE and the end of a room touch the settings fields of the record.
LEMMA ConfigKept ==
  ASSUME PushInv, room # NoRoom => config \in Configs, [Next]_vars
  PROVE  room' # NoRoom => config' \in Configs
<1>0. mix.choices \subseteq Offered
  BY DEF PushInv, TypeInv, Offered
<1>1. ASSUME NEW a \in Accounts, RoomCreate(a) PROVE config' \in Configs
  <2>1. PICK c \in mix.choices : config' = [stored |-> pack(c), simple |-> c, adv |-> c.adv]
    BY <1>1 DEF RoomCreate
  <2> QED
    BY <1>0, <2>1, WrittenSame, ConfigIn DEF ConfigOf
<1>2. ASSUME NEW a \in Accounts, RoomChange(a) PROVE config' \in Configs
  <2>1. PICK c \in mix.choices : config' = ChangedConfig(c)
    BY <1>2 DEF RoomChange
  <2> QED
    BY <1>0, <1>2, <2>1, ChangedConfigOf DEF RoomChange, MayChange
<1>3. ASSUME NEW a \in Accounts, Leaves(a), room # NoRoom PROVE room' # NoRoom => config' \in Configs
  BY <1>3 DEF Leaves
<1>4. ASSUME NEW a \in Accounts,
             \/ RoomCreateReply(a) \/ RoomJoin(a) \/ RoomSetReady(a) \/ RoomSwitchSeat(a)
             \/ RoomCountDown(a) \/ RoomStart(a) \/ RoomInfo(a) \/ \E t \in Accounts : RoomKick(a, t)
             \/ disconnect(a) \/ reconnect(a) \/ notify(a)
      PROVE  config' = config /\ (room' # NoRoom => room # NoRoom)
  <2>1. CASE RoomCreateReply(a) \/ disconnect(a) \/ RoomSetReady(a) \/ RoomCountDown(a)
    BY <2>1 DEF RoomCreateReply, disconnect, RoomSetReady, RoomCountDown, store
  <2>2. CASE RoomJoin(a) \/ RoomSwitchSeat(a) \/ RoomStart(a)
    BY <2>2 DEF RoomJoin, RoomSwitchSeat, RoomStart, MayJoin, MayStart
  <2>3. CASE RoomInfo(a)
    BY <2>3 DEF RoomInfo, MayReopen
  <2>4. ASSUME NEW t \in Accounts, RoomKick(a, t) PROVE config' = config /\ (room' # NoRoom => room # NoRoom)
    BY <2>4 DEF RoomKick, MayKick
  <2>5. CASE reconnect(a) \/ notify(a)
    BY <2>5 DEF reconnect, notify, store
  <2> QED
    BY <1>4, <2>1, <2>2, <2>3, <2>4, <2>5
<1>5. ASSUME NEW a \in Accounts, RoomLeave(a) \/ handleDisconnect(a)
      PROVE  room' # NoRoom => config' \in Configs
  BY <1>3, <1>5 DEF RoomLeave, handleDisconnect
<1>6. CASE refresh \/ RoomStartSettings \/ RoomStartHandoff \/ RoomStartEnds \/ admitFirst
  BY <1>6 DEF refresh, RoomStartSettings, RoomStartHandoff, RoomStartEnds, admitFirst
<1>7. CASE UNCHANGED vars
  BY <1>7 DEF vars
<1> QED
  BY <1>1, <1>2, <1>4, <1>5, <1>6, <1>7 DEF Next, Handlers

\* Only START, its handoff, the match server and the cached fleet touch what a launch is made of.
LEMMA LaunchSteps ==
  ASSUME [Next]_vars
  PROVE  \/ UNCHANGED launch
         \/ refresh \/ RoomStartSettings \/ RoomStartHandoff \/ RoomStartEnds \/ admitFirst
         \/ \E a \in Accounts : RoomStart(a)
<1>1. ASSUME NEW a \in Accounts, Handlers(a), ~RoomStart(a) PROVE UNCHANGED launch
  BY <1>1 DEF Handlers, RoomCreate, RoomCreateReply, RoomJoin, RoomLeave, RoomChange, RoomSetReady,
       RoomSwitchSeat, RoomCountDown, RoomInfo, RoomKick, store
<1>2. ASSUME NEW a \in Accounts, disconnect(a) \/ handleDisconnect(a) \/ reconnect(a) \/ notify(a)
      PROVE  UNCHANGED launch
  BY <1>2 DEF disconnect, handleDisconnect, reconnect, notify, store
<1> QED
  BY <1>1, <1>2 DEF Next, vars

LEMMA IdleFacts == /\ Idle.mid = 0 /\ \A h \in HandoffRec : h # Idle /\ h.mid # 0
<1>1. Idle.mid = 0
  BY DEF Idle
<1>2. \A h \in HandoffRec : h.mid # 0
  BY DEF HandoffRec
<1> QED
  BY <1>1, <1>2

\* An element of a sequence after one of its entries is replaced.
LEMMA ReplaceFacts ==
  ASSUME NEW S, NEW s \in Seq(S), NEW i \in 1 .. Len(s), NEW e \in S
  PROVE  /\ [s EXCEPT ![i] = e] \in Seq(S) /\ Len([s EXCEPT ![i] = e]) = Len(s)
         /\ [s EXCEPT ![i] = e][i] = e
         /\ \A j \in 1 .. Len(s) : j # i => [s EXCEPT ![i] = e][j] = s[j]
OBVIOUS

LEMMA FailedFacts ==
  ASSUME NEW r \in LaunchRec
  PROVE  /\ [r EXCEPT !.failed = TRUE] \in LaunchRec
         /\ [r EXCEPT !.failed = TRUE].failed = TRUE
         /\ [r EXCEPT !.failed = TRUE].members = r.members
         /\ [r EXCEPT !.failed = TRUE].config = r.config
BY DEF LaunchRec

LEMMA WroteFacts ==
  ASSUME NEW h \in HandoffRec
  PROVE  /\ [h EXCEPT !.wrote = TRUE] \in HandoffRec /\ [h EXCEPT !.wrote = TRUE].wrote = TRUE
         /\ [h EXCEPT !.wrote = TRUE].mid = h.mid /\ [h EXCEPT !.wrote = TRUE].todo = h.todo
         /\ [h EXCEPT !.wrote = TRUE].addr = h.addr /\ [h EXCEPT !.wrote = TRUE].config = h.config
         /\ [h EXCEPT !.wrote = TRUE].host = h.host
BY DEF HandoffRec

LEMMA TodoFacts ==
  ASSUME NEW h \in HandoffRec, NEW m
  PROVE  LET t == [h EXCEPT !.todo = @ \ {m}]
         IN  /\ t \in HandoffRec /\ t.wrote = h.wrote /\ t.mid = h.mid /\ t.todo = h.todo \ {m}
             /\ t.addr = h.addr /\ t.config = h.config
BY DEF HandoffRec

\* The step a launch begins with: everything about earlier matches stays, and the members of
\* this one are those of the record the lock protected.
LEMMA StartLaunches ==
  ASSUME PushInv, LaunchInv, config' \in Configs, NEW a \in Accounts, RoomStart(a)
  PROVE  LaunchInv'
<1>0. PICK n \in Nat : n = Len(starts) + 1
  <2>1. Len(starts) \in Nat
    BY DEF LaunchInv, LaunchTypes
  <2> QED
    BY <2>1
<1> DEFINE new == [members |-> room.members, config |-> config, failed |-> FALSE]
<1>1. /\ room # NoRoom /\ starting = Idle /\ Len(starts) < MaxStarts /\ LaunchTypes
      /\ config' = config /\ config \in Configs
      /\ UNCHANGED <<servers, settings, handoff, applied, skipped>> /\ starts' = Append(starts, new)
  BY DEF RoomStart, MayStart, LaunchInv
<1>2. Sound(room) /\ room \in RoomRec
  BY <1>1, RoomFacts
<1>3. new \in LaunchRec /\ new.members = room.members /\ new.config = config /\ new.failed = FALSE
  BY <1>1, <1>2 DEF LaunchRec, RoomRec
<1>4. starts \in Seq(LaunchRec) /\ Len(starts) \in Nat
  BY <1>1 DEF LaunchTypes
<1> HIDE DEF new
<1>5. /\ starts' \in Seq(LaunchRec) /\ Len(starts') = n /\ starts'[n] = new
      /\ \A i \in 1 .. Len(starts) : starts'[i] = starts[i]
  BY <1>0, <1>1, <1>3, <1>4, AppendFacts
<1>6. PICK addr \in Fleet \cup {staticAddr} :
        starting' = [mid |-> n, todo |-> room.members, host |-> a, addr |-> addr,
                     config |-> config.stored, wrote |-> FALSE]
  BY <1>0 DEF RoomStart
<1>7. /\ starting'.mid = n /\ starting'.todo = room.members /\ starting'.wrote = FALSE
      /\ starting'.config = config.stored
  BY <1>6
<1>8. starting' \in HandoffRec
  BY <1>0, <1>1, <1>2, <1>4, <1>6 DEF HandoffRec, RoomRec
<1>9. n \in Nat \ {0} /\ n <= MaxStarts /\ MaxStarts \in Nat
  BY <1>0, <1>1, <1>4, ScenariosOffered
<1>10. LaunchTypes'
  <2>1. /\ handoff \subseteq Token /\ skipped \subseteq [mid : Nat, who : Accounts]
        /\ \A h \in handoff \cup skipped : h.mid \in 1 .. n
        /\ DOMAIN settings = 1 .. MaxStarts /\ DOMAIN applied = 1 .. MaxStarts /\ servers \subseteq Fleet
        /\ \A i \in 1 .. MaxStarts : i > n => settings[i] = Unset /\ applied[i] = Unset
    BY <1>0, <1>1, <1>4 DEF LaunchTypes
  <2> QED
    BY <1>1, <1>3, <1>5, <1>7, <1>8, <1>9, <2>1 DEF LaunchTypes
<1>11. ASSUME NEW i \in 1 .. Len(starts) PROVE Handed(i)' /\ Carried(i)'
  <2>1. Handed(i) /\ Carried(i) /\ starting.mid # i /\ starting'.mid # i /\ starts'[i] = starts[i]
    BY <1>0, <1>1, <1>4, <1>5, <1>7, IdleFacts DEF LaunchInv
  <2>2. Handed(i)'
    BY <1>1, <2>1 DEF Handed, Handled, Missed
  <2>3. Carried(i)'
    BY <1>1, <2>1 DEF Carried
  <2> QED
    BY <2>2, <2>3
<1>12. Handed(n)' /\ Carried(n)'
  <2>1. \A h \in handoff \cup skipped : h.mid # n
    BY <1>0, <1>1, <1>4 DEF LaunchTypes
  <2>2. settings[n] = Unset /\ applied[n] = Unset
    BY <1>0, <1>1, <1>4, <1>9 DEF LaunchTypes
  <2>3. Handled(n)' = {} /\ starts'[n].members = room.members
    BY <1>3, <1>5, <1>7 DEF Handled
  <2>4. \A m, k \in room.members : m.account_id = k.account_id => m = k
    BY <1>2 DEF Sound, WellSeated, OneEntryPerAccount
  <2>5. \A x : [mid |-> n, who |-> x] \notin skipped
    BY <2>1
  <2>6. Handed(n)'
    BY <1>1, <2>1, <2>3, <2>4, <2>5 DEF Handed, Missed
  <2>7. Carried(n)'
    BY <1>1, <1>3, <1>5, <1>7, <2>1, <2>2 DEF Carried
  <2> QED
    BY <2>6, <2>7
<1> QED
  BY <1>0, <1>4, <1>5, <1>10, <1>11, <1>12 DEF LaunchInv

\* Nothing about the settings of match i changes.
LEMMA CarriedSame ==
  ASSUME NEW i, Carried(i), starts'[i].config = starts[i].config, starts'[i].failed = starts[i].failed,
         settings'[i] = settings[i], applied'[i] = applied[i],
         (starting'.mid = i /\ ~starting'.wrote) <=> (starting.mid = i /\ ~starting.wrote),
         starting.mid = i /\ ~starting.wrote => handoff' = handoff
  PROVE  Carried(i)'
<1> DEFINE w == payload(starts[i].config.stored)
<1>1. w' = w
  OBVIOUS
<1>2. CASE starting.mid = i /\ ~starting.wrote
  BY <1>2 DEF Carried
<1>3. CASE ~(starting.mid = i /\ ~starting.wrote)
  <2>1. /\ settings[i] = IF starts[i].failed THEN Unset ELSE w
        /\ applied[i] # Unset =>
             applied[i] = IF starts[i].failed THEN defaultMatchSettings ELSE loadMatchSettings(w)
    BY <1>3 DEF Carried
  <2>2. ~(starting'.mid = i /\ ~starting'.wrote)
    BY <1>3
  <2> QED
    BY <1>1, <2>1, <2>2 DEF Carried
<1> QED
  BY <1>2, <1>3

\* The write is over, and what the match plays by, if it has begun, follows from it.
LEMMA CarriedDone ==
  ASSUME NEW i, ~(starting'.mid = i /\ ~starting'.wrote),
         NEW w, w = payload(starts'[i].config.stored), NEW f, f = starts'[i].failed,
         settings'[i] = IF f THEN Unset ELSE w,
         applied'[i] # Unset =>
           applied'[i] = IF f THEN defaultMatchSettings ELSE loadMatchSettings(w)
  PROVE  Carried(i)'
BY DEF Carried

\* The write of the settings, and its failure.
LEMMA SettingsKeep ==
  ASSUME LaunchInv, room' # NoRoom => config' \in Configs, RoomStartSettings
  PROVE  LaunchInv'
<1>1. /\ LaunchTypes /\ starting # Idle /\ ~starting.wrote /\ starting' = [starting EXCEPT !.wrote = TRUE]
      /\ UNCHANGED <<servers, handoff, applied, skipped>>
  BY DEF LaunchInv, RoomStartSettings
<1>2. PICK n : n = Len(starts)
  OBVIOUS
<1>3. /\ starting \in HandoffRec /\ starting.mid = n /\ n \in Nat \ {0} /\ n \in 1 .. Len(starts)
      /\ starting.config = starts[n].config.stored
      /\ n \in 1 .. MaxStarts /\ DOMAIN settings = 1 .. MaxStarts
      /\ starts \in Seq(LaunchRec) /\ starts[n] \in LaunchRec
  BY <1>1, <1>2, ScenariosOffered DEF LaunchTypes, HandoffRec
<1>4. /\ starting' \in HandoffRec /\ starting'.wrote = TRUE /\ starting'.mid = n
      /\ starting'.todo = starting.todo /\ starting'.addr = starting.addr
      /\ starting'.config = starting.config
  BY <1>1, <1>3, WroteFacts
<1>5. PICK f \in BOOLEAN :
        /\ f => settings' = settings /\ starts' = [starts EXCEPT ![n].failed = TRUE]
        /\ ~f => settings' = [settings EXCEPT ![n] = payload(starting.config)] /\ starts' = starts
  BY <1>3 DEF RoomStartSettings
<1>6. /\ starts' \in Seq(LaunchRec) /\ Len(starts') = n
      /\ starts'[n].members = starts[n].members /\ starts'[n].config = starts[n].config
      /\ f => starts'[n].failed = TRUE
      /\ ~f => starts'[n].failed = starts[n].failed
      /\ \A i \in 1 .. n : i # n => starts'[i] = starts[i]
  <2>1. CASE f
    <3> DEFINE e == [starts[n] EXCEPT !.failed = TRUE]
    <3>1. e \in LaunchRec /\ e.failed = TRUE /\ e.members = starts[n].members /\ e.config = starts[n].config
      BY <1>3, FailedFacts
    <3>2. starts' = [starts EXCEPT ![n] = e]
      BY <1>5, <2>1
    <3> HIDE DEF e
    <3> QED
      BY <1>2, <1>3, <2>1, <3>1, <3>2, ReplaceFacts
  <2>2. CASE ~f
    BY <1>2, <1>3, <1>5, <2>2
  <2> QED
    BY <2>1, <2>2
<1>7. /\ DOMAIN settings' = 1 .. MaxStarts
      /\ \A i \in 1 .. MaxStarts : i # n => settings'[i] = settings[i]
      /\ f => settings'[n] = settings[n]
      /\ ~f => settings'[n] = payload(starting.config)
  BY <1>3, <1>5
<1>8. LaunchTypes'
  <2>1. \A i \in 1 .. MaxStarts : i > n => settings'[i] = Unset /\ applied'[i] = Unset
    BY <1>1, <1>2, <1>3, <1>7 DEF LaunchTypes
  <2> QED
    BY <1>1, <1>2, <1>3, <1>4, <1>6, <1>7, <2>1 DEF LaunchTypes
<1>9. ASSUME NEW i \in 1 .. n PROVE Handed(i)' /\ Carried(i)'
  <2>1. Handed(i) /\ Carried(i) /\ starting'.mid = starting.mid /\ starts'[i].members = starts[i].members
    BY <1>2, <1>3, <1>4, <1>6, <1>9 DEF LaunchInv
  <2>2. Handed(i)'
    BY <1>1, <1>4, <2>1 DEF Handed, Handled, Missed
  <2>3. CASE i # n
    <3>1. settings'[i] = settings[i] /\ starts'[i] = starts[i] /\ applied'[i] = applied[i]
      <4>1. i \in 1 .. MaxStarts
        BY <1>3, <1>9, ScenariosOffered
      <4> QED
        BY <1>1, <1>3, <1>6, <1>7, <1>9, <2>3, <4>1
    <3>2. /\ starts'[i].config = starts[i].config /\ starts'[i].failed = starts[i].failed
          /\ settings'[i] = settings[i] /\ applied'[i] = applied[i]
          /\ (starting'.mid = i /\ ~starting'.wrote) <=> (starting.mid = i /\ ~starting.wrote)
          /\ starting.mid = i /\ ~starting.wrote => handoff' = handoff
      BY <1>3, <1>4, <2>3, <3>1
    <3> QED
      BY <2>1, <2>2, <3>2, CarriedSame
  <2>4. CASE i = n
    <3>1. settings[n] = Unset /\ ~starts[n].failed /\ applied[n] = Unset
      BY <1>1, <1>3, <2>1, <2>4 DEF Carried
    <3> QED
      <4> DEFINE w == payload(starts'[n].config.stored)
      <4>1. w = payload(starting.config)
        BY <1>3, <1>6
      <4>2. settings'[n] = IF starts'[n].failed THEN Unset ELSE w
        BY <1>6, <1>7, <3>1, <4>1
      <4>3. applied'[n] = Unset
        BY <1>1, <3>1
      <4> HIDE DEF w
      <4> QED
        <5>1. ~(starting'.mid = n /\ ~starting'.wrote)
          BY <1>4
        <5>2. w = payload(starts'[n].config.stored)
          BY DEF w
        <5>3. Carried(n)'
          BY <4>2, <4>3, <5>1, <5>2, CarriedDone
        <5> QED
          BY <2>2, <2>4, <5>3
  <2> QED
    BY <2>2, <2>3, <2>4
<1> QED
  BY <1>6, <1>8, <1>9 DEF LaunchInv

\* One member of the handoff: it gets its token, or its account is not found.
LEMMA HandoffKeeps ==
  ASSUME LaunchInv, room' # NoRoom => config' \in Configs, RoomStartHandoff
  PROVE  LaunchInv'
<1>1. /\ LaunchTypes /\ starting # Idle /\ starting.wrote
      /\ UNCHANGED <<servers, settings, starts, applied>>
  BY DEF LaunchInv, RoomStartHandoff, HandoffMayBegin
<1>2. PICK n : n = Len(starts)
  OBVIOUS
<1>3. PICK m \in starting.todo :
        /\ starting' = [starting EXCEPT !.todo = @ \ {m}]
        /\ \/ handoff' = handoff \cup {prepareToken(m)} /\ skipped' = skipped
           \/ handoff' = handoff /\ skipped' = skipped \cup {[mid |-> starting.mid, who |-> m.account_id]}
  BY DEF RoomStartHandoff
<1>4. /\ starting \in HandoffRec /\ starting.mid = n /\ n \in Nat \ {0} /\ n \in 1 .. Len(starts)
      /\ starting.config = starts[n].config.stored /\ starting.todo \subseteq starts[n].members
      /\ starts \in Seq(LaunchRec) /\ starts[n] \in LaunchRec
  BY <1>1, <1>2, ScenariosOffered DEF LaunchTypes, HandoffRec
<1>5. /\ starting' \in HandoffRec /\ starting'.wrote = starting.wrote /\ starting'.mid = n
      /\ starting'.todo = starting.todo \ {m} /\ starting'.addr = starting.addr
      /\ starting'.config = starting.config
  BY <1>3, <1>4, TodoFacts
<1>6. m \in MemberRec /\ m \in starts[n].members /\ m.account_id \in Accounts /\ m.group_id \in Teams
  BY <1>4 DEF LaunchRec, MemberRec
<1>7. PICK tok : tok = prepareToken(m)
  OBVIOUS
<1>8. /\ tok \in Token /\ tok.mid = n /\ tok.who = m.account_id /\ tok.addr = starting.addr
      /\ tok.team = m.group_id
  BY <1>4, <1>6, <1>7 DEF prepareToken, Token, HandoffRec
<1>9. PICK miss : miss = [mid |-> n, who |-> m.account_id]
  OBVIOUS
<1>10. miss \in [mid : Nat, who : Accounts] /\ miss.mid = n /\ miss.who = m.account_id
  BY <1>4, <1>6, <1>9
<1>11. PICK G \in SUBSET {tok}, M \in SUBSET {miss} :
         /\ handoff' = handoff \cup G /\ skipped' = skipped \cup M
         /\ (G = {tok} /\ M = {}) \/ (G = {} /\ M = {miss})
  BY <1>3, <1>4, <1>7, <1>9
<1>12. LaunchTypes'
  <2>1. /\ handoff' \subseteq Token /\ skipped' \subseteq [mid : Nat, who : Accounts]
        /\ \A h \in handoff' \cup skipped' : h.mid \in 1 .. Len(starts)
    BY <1>1, <1>4, <1>8, <1>10, <1>11 DEF LaunchTypes
  <2> QED
    BY <1>1, <1>2, <1>4, <1>5, <2>1 DEF LaunchTypes
<1>13. ASSUME NEW i \in 1 .. n PROVE Handed(i)' /\ Carried(i)'
  <2>1. Handed(i) /\ Carried(i) /\ starting'.mid = starting.mid
    BY <1>2, <1>4, <1>5, <1>13 DEF LaunchInv
  <2>2. CASE i # n
    <3>1. \A h \in handoff' : h.mid = i => h \in handoff
      BY <1>8, <1>11, <2>2
    <3>2. \A x : Missed(i, x)' <=> Missed(i, x)
      BY <1>10, <1>11, <2>2 DEF Missed
    <3>3. Handled(i)' = Handled(i) /\ starting.mid # i
      BY <1>1, <1>4, <1>5, <2>2 DEF Handled
    <3>4. \A h \in handoff : h \in handoff'
      BY <1>11
    <3>5. Handed(i)'
      BY <1>1, <2>1, <3>1, <3>2, <3>3, <3>4 DEF Handed
    <3>6. Carried(i)'
      BY <1>1, <2>1, <3>3 DEF Carried
    <3> QED
      BY <3>5, <3>6
  <2>3. CASE i = n
    <3>1. /\ \A k, l \in starts[n].members : k.account_id = l.account_id => k = l
          /\ \A h \in handoff : h.mid = n =>
               \E k \in Handled(n) : h.who = k.account_id /\ h.team = k.group_id /\ ~Missed(n, k.account_id)
          /\ \A k \in Handled(n) :
               Missed(n, k.account_id) \/ \E h \in handoff : h.mid = n /\ h.who = k.account_id
          /\ \A k \in starts[n].members \ Handled(n) : ~Missed(n, k.account_id)
          /\ \A h \in handoff : h.mid = n => h.addr = starting.addr
      BY <1>4, <2>1, <2>3 DEF Handed
    <3>2. Handled(n)' = Handled(n) \cup {m} /\ m \notin Handled(n) /\ Handled(n) \subseteq starts[n].members
      BY <1>1, <1>3, <1>4, <1>5, <1>6 DEF Handled
    <3>3. \A k \in starts[n].members : k # m => k.account_id # m.account_id
      BY <1>6, <3>1
    <3>4. ~Missed(n, m.account_id)
      BY <1>6, <3>1, <3>2
    <3>5. \A k \in starts[n].members : k # m => (Missed(n, k.account_id)' <=> Missed(n, k.account_id))
      <4> SUFFICES ASSUME NEW k \in starts[n].members, k # m
                   PROVE  Missed(n, k.account_id)' <=> Missed(n, k.account_id)
        OBVIOUS
      <4>1. [mid |-> n, who |-> k.account_id] # miss
        BY <1>10, <3>3
      <4> QED
        BY <1>1, <1>11, <4>1 DEF Missed
    <3>6. Missed(n, m.account_id)' <=> M = {miss}
      BY <1>9, <1>11, <3>4 DEF Missed
    <3>7. \A h \in handoff' : h.mid = n =>
            \E k \in Handled(n)' : h.who = k.account_id /\ h.team = k.group_id /\ ~Missed(n, k.account_id)'
      <4> SUFFICES ASSUME NEW h \in handoff', h.mid = n
                   PROVE  \E k \in Handled(n)' :
                            h.who = k.account_id /\ h.team = k.group_id /\ ~Missed(n, k.account_id)'
        OBVIOUS
      <4>1. CASE h \in handoff
        <5>1. PICK k \in Handled(n) : h.who = k.account_id /\ h.team = k.group_id /\ ~Missed(n, k.account_id)
          BY <3>1, <4>1
        <5> QED
          BY <3>2, <3>5, <5>1
      <4>2. CASE h \notin handoff
        BY <1>8, <1>11, <3>2, <3>6, <4>2
      <4> QED
        BY <4>1, <4>2
    <3>8. \A k \in Handled(n)' :
            Missed(n, k.account_id)' \/ \E h \in handoff' : h.mid = n /\ h.who = k.account_id
      <4> SUFFICES ASSUME NEW k \in Handled(n)'
                   PROVE  Missed(n, k.account_id)' \/ \E h \in handoff' : h.mid = n /\ h.who = k.account_id
        OBVIOUS
      <4>1. CASE k = m
        BY <1>8, <1>11, <3>6, <4>1
      <4>2. CASE k # m
        BY <1>11, <3>1, <3>2, <3>5, <4>2
      <4> QED
        BY <4>1, <4>2
    <3>9. \A k \in starts[n].members \ Handled(n)' : ~Missed(n, k.account_id)'
      BY <3>1, <3>2, <3>5
    <3>10. \A h \in handoff' : h.mid = n => h.addr = starting.addr
      BY <1>8, <1>11, <3>1
    <3>11. Handed(n)'
      BY <1>1, <1>5, <3>1, <3>7, <3>8, <3>9, <3>10 DEF Handed
    <3>12. Carried(n)'
      BY <1>1, <1>5, <2>1, <2>3 DEF Carried
    <3> QED
      BY <2>3, <3>11, <3>12
  <2> QED
    BY <2>2, <2>3
<1> QED
  BY <1>1, <1>2, <1>12, <1>13 DEF LaunchInv

\* The last member has been served.
LEMMA EndsKeep ==
  ASSUME LaunchInv, room' # NoRoom => config' \in Configs, RoomStartEnds
  PROVE  LaunchInv'
<1>1. /\ LaunchTypes /\ starting.wrote /\ starting.todo = {} /\ starting' = Idle /\ Idle.mid = 0
      /\ UNCHANGED <<servers, settings, handoff, applied, starts, skipped>>
  BY IdleFacts DEF LaunchInv, RoomStartEnds
<1>2. LaunchTypes'
  BY <1>1 DEF LaunchTypes
<1>3. ASSUME NEW i \in 1 .. Len(starts) PROVE Handed(i)' /\ Carried(i)'
  <2>1. Handed(i) /\ Carried(i) /\ i # 0
    BY DEF LaunchInv
  <2>2. Handled(i)' = Handled(i)
    BY <1>1, <2>1 DEF Handled
  <2>3. Handed(i)'
    BY <1>1, <2>1, <2>2 DEF Handed, Missed
  <2>4. Carried(i)'
    BY <1>1, <2>1 DEF Carried
  <2> QED
    BY <2>3, <2>4
<1> QED
  BY <1>1, <1>2, <1>3 DEF LaunchInv

\* The first admission of a match finds the settings written, or given up.
LEMMA AdmitKeeps ==
  ASSUME LaunchInv, room' # NoRoom => config' \in Configs, admitFirst
  PROVE  LaunchInv'
<1>1. PICK h \in handoff :
        applied[h.mid] = Unset /\ applied' = [applied EXCEPT ![h.mid] = loadMatchSettings(settings[h.mid])]
  BY DEF admitFirst
<1>2. LaunchTypes /\ UNCHANGED <<servers, starting, settings, handoff, starts, skipped>>
  BY DEF LaunchInv, admitFirst
<1>3. PICK n : n = h.mid
  OBVIOUS
<1>4. n \in 1 .. Len(starts) /\ n \in 1 .. MaxStarts /\ Len(starts) \in Nat
  BY <1>2, <1>3, ScenariosOffered DEF LaunchTypes
<1>5. /\ DOMAIN applied' = 1 .. MaxStarts /\ applied'[n] = loadMatchSettings(settings[n])
      /\ \A i \in 1 .. MaxStarts : i # n => applied'[i] = applied[i]
  BY <1>1, <1>2, <1>3, <1>4 DEF LaunchTypes
<1>6. LaunchTypes'
  BY <1>2, <1>4, <1>5 DEF LaunchTypes
<1>7. ASSUME NEW i \in 1 .. Len(starts) PROVE Handed(i)' /\ Carried(i)'
  <2>1. Handed(i) /\ Carried(i) /\ i \in 1 .. MaxStarts
    BY <1>2, <1>4, ScenariosOffered DEF LaunchInv, LaunchTypes
  <2>2. Handed(i)'
    BY <1>2, <2>1 DEF Handed, Handled, Missed
  <2>3. CASE i # n
    <3>1. /\ starts'[i].config = starts[i].config /\ starts'[i].failed = starts[i].failed
          /\ settings'[i] = settings[i] /\ applied'[i] = applied[i]
          /\ (starting'.mid = i /\ ~starting'.wrote) <=> (starting.mid = i /\ ~starting.wrote)
          /\ starting.mid = i /\ ~starting.wrote => handoff' = handoff
      BY <1>2, <1>5, <2>1, <2>3
    <3> QED
      BY <2>1, <2>2, <3>1, CarriedSame
  <2>4. CASE i = n
    <3>1. ~(starting.mid = n /\ ~starting.wrote)
      BY <1>1, <1>3, <2>1, <2>4 DEF Carried
    <3>2. settings[n] = IF starts[n].failed THEN Unset ELSE payload(starts[n].config.stored)
      BY <2>1, <2>4, <3>1 DEF Carried
    <3>3. loadMatchSettings(Unset) = defaultMatchSettings
      BY DEF loadMatchSettings
    <3>4. applied'[n] = IF starts[n].failed THEN defaultMatchSettings
                        ELSE loadMatchSettings(payload(starts[n].config.stored))
      BY <1>5, <3>2, <3>3
    <3> QED
      <4>1. ~(starting'.mid = n /\ ~starting'.wrote)
        BY <1>2, <3>1
      <4>2. settings'[n] = IF starts'[n].failed THEN Unset ELSE payload(starts'[n].config.stored)
        BY <1>2, <3>2
      <4>3. applied'[n] = IF starts'[n].failed THEN defaultMatchSettings
                          ELSE loadMatchSettings(payload(starts'[n].config.stored))
        BY <1>2, <3>4
      <4>4. Carried(n)'
        BY <4>1, <4>2, <4>3, CarriedDone
      <4> QED
        BY <2>2, <2>4, <4>4
  <2> QED
    BY <2>2, <2>3, <2>4
<1> QED
  BY <1>2, <1>6, <1>7 DEF LaunchInv

LEMMA LaunchIdle ==
  ASSUME LaunchInv, room' # NoRoom => config' \in Configs, servers' \subseteq Fleet,
         UNCHANGED <<starting, settings, handoff, applied, starts, skipped>>
  PROVE  LaunchInv'
BY DEF LaunchInv, LaunchTypes, Handed, Handled, Missed, Carried

LEMMA LaunchInit == ASSUME Init PROVE LaunchInv
<1>1. starts = <<>> /\ starts \in Seq(LaunchRec) /\ Len(starts) = 0
  BY DEF Init
<1> QED
  BY <1>1, ScenariosOffered DEF Init, LaunchInv, LaunchTypes

LEMMA LaunchStep == ASSUME PushInv, LaunchInv, [Next]_vars PROVE LaunchInv'
<1>1. room' # NoRoom => config' \in Configs
  BY ConfigKept DEF LaunchInv, LaunchTypes
<1>2. CASE UNCHANGED launch \/ refresh
  BY <1>1, <1>2, LaunchIdle DEF launch, refresh, LaunchInv, LaunchTypes
<1>3. ASSUME NEW a \in Accounts, RoomStart(a) PROVE LaunchInv'
  <2>1. config' \in Configs
    BY <1>3 DEF RoomStart, MayStart, LaunchInv, LaunchTypes
  <2> QED
    BY <1>3, <2>1, StartLaunches
<1> QED
  BY <1>1, <1>2, <1>3, SettingsKeep, HandoffKeeps, EndsKeep, AdmitKeeps, LaunchSteps

LEMMA LobbyHolds == Spec => []LobbyInv
<1>1. Init => LobbyInv
  BY PushInit, LaunchInit DEF LobbyInv
<1>2. LobbyInv /\ [Next]_vars => LobbyInv'
  BY PushStep, LaunchStep DEF LobbyInv
<1> QED
  BY <1>1, <1>2, PTL DEF Spec

\* Whatever happens to the room, the fleet and the accounts while a START is handing out its
\* match (RoomStart.js): the tokens name exactly the members the lock protected, but for those
\* whose account was not found, each on the team it had then, and all on one server.
THEOREM HandoffHolds == Spec => []HandoffWhole
<1>1. LobbyInv => HandoffWhole
  <2> SUFFICES ASSUME LobbyInv, NEW i \in 1 .. Len(starts)
      PROVE
        LET given == {[who |-> h.who, team |-> h.team] : h \in {x \in handoff : x.mid = i}}
            due == {[who |-> m.account_id, team |-> m.group_id] : m \in starts[i].members}
            lost == {d \in due : [mid |-> i, who |-> d.who] \in skipped}
        IN  /\ given \subseteq due /\ (starting.mid # i => given = due \ lost)
            /\ Cardinality({h.addr : h \in {x \in handoff : x.mid = i}}) <= 1
    BY DEF HandoffWhole
  <2> DEFINE given == {[who |-> h.who, team |-> h.team] : h \in {x \in handoff : x.mid = i}}
             due == {[who |-> m.account_id, team |-> m.group_id] : m \in starts[i].members}
             lost == {d \in due : [mid |-> i, who |-> d.who] \in skipped}
             addrs == {h.addr : h \in {x \in handoff : x.mid = i}}
  <2>1. Handed(i)
    BY DEF LobbyInv, LaunchInv
  <2>2. Handled(i) \subseteq starts[i].members /\ (starting.mid # i => Handled(i) = starts[i].members)
    BY DEF Handled
  <2>3. given \subseteq due \ lost
    <3> SUFFICES ASSUME NEW h \in handoff, h.mid = i
                 PROVE  [who |-> h.who, team |-> h.team] \in due \ lost
      OBVIOUS
    <3>1. PICK m \in Handled(i) : h.who = m.account_id /\ h.team = m.group_id /\ ~Missed(i, m.account_id)
      BY <2>1 DEF Handed
    <3> QED
      BY <2>2, <3>1 DEF Missed
  <2>4. ASSUME starting.mid # i PROVE due \ lost \subseteq given
    <3> SUFFICES ASSUME NEW d \in due \ lost PROVE d \in given
      OBVIOUS
    <3>1. PICK m \in starts[i].members : d = [who |-> m.account_id, team |-> m.group_id]
      OBVIOUS
    <3>2. ~Missed(i, m.account_id)
      BY <3>1 DEF Missed
    <3>3. PICK h \in handoff : h.mid = i /\ h.who = m.account_id
      BY <2>1, <2>2, <2>4, <3>2 DEF Handed
    <3>4. PICK k \in Handled(i) : h.who = k.account_id /\ h.team = k.group_id
      BY <2>1, <3>3 DEF Handed
    <3>5. k = m
      BY <2>1, <2>2, <3>3, <3>4 DEF Handed
    <3> QED
      BY <3>1, <3>3, <3>4, <3>5
  <2>5. Cardinality(addrs) <= 1
    <3>1. \A x, y \in addrs : x = y
      BY <2>1 DEF Handed
    <3>2. CASE addrs = {}
      BY <3>2, FS_EmptySet
    <3>3. ASSUME NEW x \in addrs PROVE Cardinality(addrs) <= 1
      <4>1. addrs = {x}
        BY <3>1
      <4>2. Cardinality({x}) = 1
        BY FS_Singleton
      <4> HIDE DEF addrs
      <4> QED
        BY <4>1, <4>2
    <3> QED
      BY <3>2, <3>3
  <2> QED
    BY <2>3, <2>4, <2>5
<1> QED
  BY <1>1, LobbyHolds, PTL

\* The protocol's half of the settings: the first admission of a match (matchsettings.go) never
\* comes before the write of RoomStart.js is over, so the match plays by what was stored, or by
\* the defaults when that write failed.
THEOREM SettingsLanded ==
  Spec => [](\A i \in 1 .. Len(starts) :
               applied[i] # Unset =>
                 applied[i] = IF starts[i].failed THEN defaultMatchSettings
                              ELSE loadMatchSettings(payload(starts[i].config.stored)))
<1>1. LobbyInv => \A i \in 1 .. Len(starts) :
                    applied[i] # Unset =>
                      applied[i] = IF starts[i].failed THEN defaultMatchSettings
                                   ELSE loadMatchSettings(payload(starts[i].config.stored))
  BY DEF LobbyInv, LaunchInv, Carried
<1> QED
  BY <1>1, LobbyHolds, PTL

\* For hosts whose choices the bit fields and the blob carry faithfully, however CREATE, CHANGE,
\* START, a failed write and an early first player interleave: the match plays by what the
\* dialogs showed at START, and only a failed write leaves the defaults.
THEOREM SettingsHold == CodecFaithful => (Spec => []SettingsApplied)
<1> SUFFICES ASSUME CodecFaithful PROVE Spec => []SettingsApplied
  OBVIOUS
<1>1. LobbyInv => SettingsApplied
  <2> SUFFICES ASSUME LobbyInv, NEW i \in 1 .. Len(starts), applied[i] # Unset
               PROVE  applied[i] = IF starts[i].failed THEN defaultMatchSettings
                                   ELSE Intended(starts[i].config.simple, starts[i].config.adv)
    BY DEF SettingsApplied
  <2>1. applied[i] = IF starts[i].failed THEN defaultMatchSettings
                     ELSE loadMatchSettings(payload(starts[i].config.stored))
    BY DEF LobbyInv, LaunchInv, Carried
  <2>2. starts[i].config \in Configs
    <3>1. starts \in Seq(LaunchRec)
      BY DEF LobbyInv, LaunchInv, LaunchTypes
    <3>2. starts[i] \in LaunchRec
      BY <3>1, LenFacts
    <3> QED
      BY <3>2 DEF LaunchRec
  <2>3. PICK c \in Offered, d \in Offered : starts[i].config = ConfigOf(c, d)
    BY <2>2 DEF Configs
  <2>4. /\ starts[i].config.stored = Written(c, d) /\ starts[i].config.simple = c
        /\ starts[i].config.adv = d.adv
    BY <2>3 DEF ConfigOf
  <2> QED
    BY <2>1, <2>4 DEF CodecFaithful
<1> QED
  BY <1>1, LobbyHolds, PTL


--------------------------------------------------------------------------------
(* The seat grid *)

\* A set of numbers has a least one.
LEMMA LeastIn ==
  ASSUME NEW S \in SUBSET Nat, S # {}
  PROVE  \E x \in S : \A y \in S : x <= y
<1> DEFINE R == OpToRel(<, Nat)
<1>1. IsWellFoundedOn(R, Nat)
  BY NatLessThanWellFounded
<1>2. \A x, y \in Nat : x < y => <<x, y>> \in R
  BY DEF OpToRel
<1> HIDE DEF R
<1>3. PICK x \in S : \A y \in S : ~(<<y, x>> \in R)
  BY <1>1, WFMin
<1>4. \A y \in S : ~(y < x)
  BY <1>2, <1>3
<1>5. \A y \in S : y \in Nat /\ x \in Nat
  OBVIOUS
<1> QED
  BY <1>4, <1>5

\* Induction over the numbers, for a set of them.
LEMMA NumbersFrom0 ==
  ASSUME NEW S, 0 \in S, \A n \in Nat : n \in S => n + 1 \in S
  PROVE  Nat \subseteq S
<1> DEFINE T == {n \in Nat : n \notin S}
<1> SUFFICES ASSUME T # {} PROVE FALSE
  OBVIOUS
<1>1. PICK n \in T : \A y \in T : n <= y
  <2> HIDE DEF T
  <2>1. T \in SUBSET Nat
    BY DEF T
  <2> QED
    BY <2>1, LeastIn
<1>2. n \in Nat \ {0} /\ n - 1 \in Nat /\ ~(n <= n - 1)
  OBVIOUS
<1>3. n - 1 \notin T
  BY <1>1, <1>2
<1> QED
  BY <1>2, <1>3

LEMMA GreatestIn ==
  ASSUME NEW n \in Nat, NEW S \in SUBSET (1 .. n), S # {}
  PROVE  Max(S) \in S /\ \A y \in S : Max(S) >= y
<1> DEFINE T == {k \in Nat : n - k \in S}
<1>1. T # {}
  <2>1. PICK y \in S : y \in 1 .. n
    OBVIOUS
  <2>2. n - y \in Nat /\ n - (n - y) = y
    BY <2>1
  <2> QED
    BY <2>2
<1>2. PICK k \in T : \A j \in T : k <= j
  BY <1>1, LeastIn
<1>3. \A y \in S : n - y \in T /\ y \in Int
  OBVIOUS
<1>4. n - k \in S /\ \A y \in S : n - k >= y
  BY <1>2, <1>3
<1> QED
  BY <1>4 DEF Max

\* The grid after the members of s, a set of places in the list, the last of them last.
empty(cap) == [s \in 0 .. (cap - 1) |-> 0]
Fills(g, S, order, cap) ==
  g = [s \in SUBSET S |-> IF s = {} THEN empty(cap)
                          ELSE place(g[s \ {Max(s)}], order[Max(s)], cap)]
gridOf(S, order, cap) == CHOOSE g : Fills(g, S, order, cap)

LEMMA GridIsFold ==
  \A order, cap : toRoomInfo(order, cap) = gridOf(DOMAIN order, order, cap)[DOMAIN order]
BY DEF toRoomInfo, FoldLeft, MapThenFoldSet, gridOf, Fills, empty

\* The same function on the sets of at most k places.
Upto(n, k) == {s \in SUBSET (1 .. n) : Cardinality(s) <= k}
FillsUpto(g, n, k, order, cap) ==
  g = [s \in Upto(n, k) |-> IF s = {} THEN empty(cap)
                            ELSE place(g[s \ {Max(s)}], order[Max(s)], cap)]

LEMMA OneLess ==
  ASSUME NEW s, IsFiniteSet(s), NEW x \in s
  PROVE  Cardinality(s) \in Nat /\ Cardinality(s \ {x}) = Cardinality(s) - 1
BY FS_RemoveElement, FS_CardinalityType

\* The recursion that defines the fold has a solution.
LEMMA GridExists ==
  ASSUME NEW n \in Nat, NEW order, NEW cap
  PROVE  \E g : Fills(g, 1 .. n, order, cap)
<1> DEFINE S == 1 .. n
           N == {k \in Nat : \E g : FillsUpto(g, n, k, order, cap)}
<1>0. IsFiniteSet(S)
  BY FS_Interval
<1>1. \A s \in SUBSET S : IsFiniteSet(s) /\ Cardinality(s) \in Nat /\ Cardinality(s) <= Cardinality(S)
  <2> HIDE DEF S
  <2> QED
    BY <1>0, FS_Subset, FS_CardinalityType
<1>2. 0 \in N
  <2> DEFINE g == [s \in Upto(n, 0) |-> empty(cap)]
  <2>1. \A s \in Upto(n, 0) : s = {}
    BY <1>1, FS_EmptySet DEF Upto
  <2>2. FillsUpto(g, n, 0, order, cap)
    BY <2>1 DEF FillsUpto
  <2> QED
    BY <2>2
<1>3. ASSUME NEW k \in Nat, k \in N PROVE k + 1 \in N
  <2>1. PICK g : FillsUpto(g, n, k, order, cap)
    BY <1>3
  <2> DEFINE h == [s \in Upto(n, k + 1) |-> IF s = {} THEN empty(cap)
                                            ELSE place(g[s \ {Max(s)}], order[Max(s)], cap)]
  <2>2. \A s \in Upto(n, k) : s \in Upto(n, k + 1)
    BY <1>1 DEF Upto
  <2>3. \A s \in Upto(n, k) : h[s] = g[s]
    <3>1. \A s \in Upto(n, k) : g[s] = IF s = {} THEN empty(cap)
                                       ELSE place(g[s \ {Max(s)}], order[Max(s)], cap)
      BY <2>1 DEF FillsUpto
    <3> QED
      BY <2>2, <3>1
  <2>4. ASSUME NEW s \in Upto(n, k + 1), s # {} PROVE s \ {Max(s)} \in Upto(n, k)
    <3>1. Max(s) \in s /\ s \in SUBSET S /\ Cardinality(s) <= k + 1
      BY <2>4, GreatestIn DEF Upto
    <3>2. Cardinality(s \ {Max(s)}) = Cardinality(s) - 1 /\ Cardinality(s) \in Nat
      BY <1>1, <3>1, OneLess
    <3>3. s \ {Max(s)} \in SUBSET S
      BY <3>1
    <3>4. Cardinality(s \ {Max(s)}) <= k
      BY <3>1, <3>2
    <3> QED
      BY <3>3, <3>4 DEF Upto
  <2>5. FillsUpto(h, n, k + 1, order, cap)
    <3>1. \A s \in Upto(n, k + 1) : s # {} => h[s \ {Max(s)}] = g[s \ {Max(s)}]
      BY <2>3, <2>4
    <3> QED
      BY <3>1 DEF FillsUpto
  <2> QED
    BY <2>5
<1>4. Nat \subseteq N
  <2> HIDE DEF N
  <2> QED
    BY <1>2, <1>3, NumbersFrom0
<1>5. PICK g : FillsUpto(g, n, Cardinality(S), order, cap)
  BY <1>1, <1>4
<1>6. Upto(n, Cardinality(S)) = SUBSET S
  BY <1>1 DEF Upto
<1> QED
  BY <1>5, <1>6 DEF Fills, FillsUpto

\* One member at a time, in the order of the list.
LEMMA GridStep ==
  ASSUME NEW n \in Nat, NEW order, NEW cap
  PROVE  \E G : /\ G[0] = empty(cap)
                /\ \A k \in 0 .. (n - 1) : G[k + 1] = place(G[k], order[k + 1], cap)
                /\ G[n] = gridOf(1 .. n, order, cap)[1 .. n]
<1> DEFINE g == gridOf(1 .. n, order, cap)
           G == [k \in 0 .. n |-> g[1 .. k]]
<1>1. Fills(g, 1 .. n, order, cap)
  BY GridExists DEF gridOf
<1> HIDE DEF g
<1>2. \A s \in SUBSET (1 .. n) : g[s] = IF s = {} THEN empty(cap)
                                        ELSE place(g[s \ {Max(s)}], order[Max(s)], cap)
  <2>1. g = [s \in SUBSET (1 .. n) |-> IF s = {} THEN empty(cap)
                                       ELSE place(g[s \ {Max(s)}], order[Max(s)], cap)]
    BY <1>1 DEF Fills
  <2> QED
    BY <2>1
<1>3. G[0] = empty(cap)
  <2>1. 1 .. 0 = {} /\ {} \in SUBSET (1 .. n)
    OBVIOUS
  <2> QED
    BY <1>2, <2>1
<1>4. ASSUME NEW k \in 0 .. (n - 1) PROVE G[k + 1] = place(G[k], order[k + 1], cap)
  <2> DEFINE s == 1 .. (k + 1)
  <2>1. s \in SUBSET (1 .. n) /\ s # {} /\ k + 1 \in s /\ \A y \in s : y <= k + 1
    OBVIOUS
  <2>2. Max(s) \in s /\ Max(s) >= k + 1
    BY <2>1, GreatestIn
  <2>3. Max(s) = k + 1
    BY <2>1, <2>2
  <2>4. s \ {k + 1} = 1 .. k
    OBVIOUS
  <2> HIDE DEF s
  <2>5. g[s] = place(g[1 .. k], order[k + 1], cap)
    BY <1>2, <2>1, <2>3, <2>4
  <2> QED
    BY <2>5 DEF s
<1>5. G[n] = gridOf(1 .. n, order, cap)[1 .. n]
  BY DEF g
<1> HIDE DEF G
<1> QED
  BY <1>3, <1>4, <1>5

\* A member is put on an empty seat as long as there is one.
LEMMA PlacesFree ==
  ASSUME NEW cap \in Nat, NEW grid, NEW m, {s \in 0 .. (cap - 1) : grid[s] = 0} # {}
  PROVE  \E s \in 0 .. (cap - 1) : grid[s] = 0 /\ place(grid, m, cap) = [grid EXCEPT ![s] = m.account_id]
<1> DEFINE open == {s \in 0 .. (cap - 1) : grid[s] = 0}
           t == IF m.seat \in open THEN m.seat
                ELSE IF open = {} THEN 0 ELSE CHOOSE x \in open : \A y \in open : x <= y
<1>1. \E x \in open : \A y \in open : x <= y
  <2>1. open \in SUBSET Nat /\ open # {}
    OBVIOUS
  <2> HIDE DEF open
  <2> QED
    BY <2>1, LeastIn
<1>2. t \in open
  <2> HIDE DEF open
  <2> QED
    BY <1>1 DEF open
<1>3. place(grid, m, cap) = [grid EXCEPT ![t] = m.account_id]
  BY DEF place
<1> HIDE DEF t
<1> QED
  BY <1>2, <1>3

\* The seats of a grid that show somebody, and what the grid is after k members of the list.
Taken(grid, cap) == {s \in 0 .. (cap - 1) : grid[s] # 0}
Partial(G, k, order, cap) ==
  /\ G[k] = [s \in 0 .. (cap - 1) |-> G[k][s]]
  /\ {G[k][s] : s \in Taken(G[k], cap)} = {order[i].account_id : i \in 1 .. k}
  /\ IsFiniteSet(Taken(G[k], cap)) /\ Cardinality(Taken(G[k], cap)) <= k

\* A list of as many members as there are seats, or fewer, all of different accounts: the grid
\* shows each of them, and nobody else.
LEMMA GridShows ==
  ASSUME NEW cap \in Nat, NEW n \in Nat, n <= cap, NEW order, DOMAIN order = 1 .. n,
         \A i \in 1 .. n : order[i].account_id # 0
  PROVE  Range(toRoomInfo(order, cap)) \ {0} = {order[i].account_id : i \in 1 .. n}
<1>1. PICK G : /\ G[0] = empty(cap)
               /\ \A k \in 0 .. (n - 1) : G[k + 1] = place(G[k], order[k + 1], cap)
               /\ G[n] = gridOf(1 .. n, order, cap)[1 .. n]
  BY GridStep
<1> DEFINE N == {k \in Nat : k <= n => Partial(G, k, order, cap)}
<1>2. 0 \in N
  <2>1. Taken(G[0], cap) = {} /\ 1 .. 0 = {} /\ G[0] = [s \in 0 .. (cap - 1) |-> G[0][s]]
    BY <1>1 DEF empty, Taken
  <2>2. Cardinality({}) = 0 /\ IsFiniteSet({})
    BY FS_EmptySet
  <2>3. Partial(G, 0, order, cap)
    BY <2>1, <2>2 DEF Partial
  <2> QED
    BY <2>3
<1>3. ASSUME NEW k \in Nat, k \in N PROVE k + 1 \in N
  <2> SUFFICES ASSUME k + 1 <= n PROVE Partial(G, k + 1, order, cap)
    OBVIOUS
  <2>0. Partial(G, k, order, cap)
    BY <1>3
  <2>1. k \in 0 .. (n - 1) /\ k < cap
    OBVIOUS
  <2>2. {s \in 0 .. (cap - 1) : G[k][s] = 0} # {}
    <3> SUFFICES ASSUME Taken(G[k], cap) = 0 .. (cap - 1) PROVE FALSE
      BY DEF Taken
    <3>1. Cardinality(0 .. (cap - 1)) = cap
      BY <2>1, FS_Interval
    <3>2. Cardinality(Taken(G[k], cap)) <= k
      BY <2>0 DEF Partial
    <3> QED
      BY <2>1, <3>1, <3>2
  <2>3. PICK t \in 0 .. (cap - 1) :
          G[k][t] = 0 /\ place(G[k], order[k + 1], cap) = [G[k] EXCEPT ![t] = order[k + 1].account_id]
    BY <2>2, PlacesFree
  <2>4. G[k + 1] = [G[k] EXCEPT ![t] = order[k + 1].account_id]
    BY <1>1, <2>1, <2>3
  <2>5. PICK a : a = order[k + 1].account_id /\ a # 0
    BY <2>1
  <2>6. /\ DOMAIN G[k] = 0 .. (cap - 1)
        /\ G[k + 1] = [s \in 0 .. (cap - 1) |-> IF s = t THEN a ELSE G[k][s]]
    BY <2>0, <2>4, <2>5 DEF Partial
  <2>7. Taken(G[k + 1], cap) = Taken(G[k], cap) \cup {t} /\ t \notin Taken(G[k], cap)
    BY <2>3, <2>5, <2>6 DEF Taken
  <2>8. {G[k + 1][s] : s \in Taken(G[k + 1], cap)} = {G[k][s] : s \in Taken(G[k], cap)} \cup {a}
    BY <2>3, <2>5, <2>6, <2>7 DEF Taken
  <2>9. {order[i].account_id : i \in 1 .. (k + 1)} = {order[i].account_id : i \in 1 .. k} \cup {a}
    <3>1. 1 .. (k + 1) = (1 .. k) \cup {k + 1}
      OBVIOUS
    <3> QED
      BY <2>5, <3>1
  <2>10. IsFiniteSet(Taken(G[k + 1], cap)) /\ Cardinality(Taken(G[k + 1], cap)) <= k + 1
    <3>1. IsFiniteSet(Taken(G[k], cap)) /\ Cardinality(Taken(G[k], cap)) <= k
      BY <2>0 DEF Partial
    <3>2. PICK T : T = Taken(G[k], cap)
      OBVIOUS
    <3>3. IsFiniteSet(T \cup {t}) /\ Cardinality(T \cup {t}) = Cardinality(T) + 1
      BY <2>7, <3>1, <3>2, FS_AddElement
    <3>4. Cardinality(T) \in Nat
      BY <3>1, <3>2, FS_CardinalityType
    <3>5. Cardinality(T \cup {t}) <= k + 1
      BY <3>1, <3>2, <3>3, <3>4
    <3> QED
      BY <2>7, <3>2, <3>3, <3>5
  <2>11. G[k + 1] = [s \in 0 .. (cap - 1) |-> G[k + 1][s]]
    BY <2>6
  <2> QED
    <3>1. {G[k][s] : s \in Taken(G[k], cap)} = {order[i].account_id : i \in 1 .. k}
      BY <2>0 DEF Partial
    <3>2. {G[k + 1][s] : s \in Taken(G[k + 1], cap)} = {order[i].account_id : i \in 1 .. (k + 1)}
      BY <2>8, <2>9, <3>1
    <3> QED
      BY <2>10, <2>11, <3>2 DEF Partial
<1>4. Nat \subseteq N
  <2> HIDE DEF N
  <2> QED
    BY <1>2, <1>3, NumbersFrom0
<1>5. Partial(G, n, order, cap)
  BY <1>4
<1>6. toRoomInfo(order, cap) = G[n]
  BY <1>1, GridIsFold
<1>7. Range(G[n]) \ {0} = {G[n][s] : s \in Taken(G[n], cap)}
  <2>1. DOMAIN G[n] = 0 .. (cap - 1)
    BY <1>5 DEF Partial
  <2> QED
    BY <2>1 DEF Range, Taken
<1> QED
  BY <1>5, <1>6, <1>7 DEF Partial

\* Every arrangement of a finite set lists all of it.
LEMMA SeqsCover ==
  ASSUME NEW T, IsFiniteSet(T), NEW order \in SetToSeqs(T)
  PROVE  /\ DOMAIN order = 1 .. Cardinality(T) /\ {order[i] : i \in 1 .. Cardinality(T)} = T
<1> DEFINE D == 1 .. Cardinality(T)
<1>1. order \in [D -> T] /\ \A i, j \in D : i # j => order[i] # order[j]
  BY DEF SetToSeqs
<1>2. Cardinality(T) \in Nat
  BY FS_CardinalityType
<1>3. order \in Injection(D, T)
  BY <1>1 DEF Injection, IsInjective
<1>4. Cardinality(D) = Cardinality(T)
  <2>1. Cardinality(1 .. Cardinality(T)) = Cardinality(T)
    BY <1>2, FS_Interval
  <2> QED
    BY <2>1
<1>5. order \in Surjection(D, T)
  <2> HIDE DEF D
  <2> QED
    BY <1>3, <1>4, FS_Injection
<1> QED
  BY <1>1, <1>5 DEF Surjection

LEMMA GridSound ==
  ASSUME Sound(room), NEW g \in Teams, Cardinality(TeamOf(room, g)) <= perTeamCap(room),
         NEW order \in SetToSeqs(TeamOf(room, g))
  PROVE  Range(toRoomInfo(order, perTeamCap(room))) \ {0} = {m.account_id : m \in TeamOf(room, g)}
<1> DEFINE T == TeamOf(room, g)
           n == Cardinality(T)
           cap == perTeamCap(room)
<1>1. cap \in Nat /\ room \in RoomRec
  BY CapBounds DEF Sound
<1>2. IsFiniteSet(T) /\ T \subseteq room.members
  BY FS_Subset DEF Sound, TeamOf
<1>3. n \in Nat
  BY <1>2, FS_CardinalityType
<1>4. DOMAIN order = 1 .. n /\ {order[i] : i \in 1 .. n} = T
  <2> HIDE DEF T
  <2> QED
    BY <1>2, SeqsCover DEF T
<1>5. \A m \in T : m.account_id # 0
  BY <1>1, <1>2, IdsAreNotZero DEF RoomRec, MemberRec
<1>6. \A i \in 1 .. n : order[i].account_id # 0
  BY <1>4, <1>5
<1> HIDE DEF T, n, cap
<1>7. Range(toRoomInfo(order, cap)) \ {0} = {order[i].account_id : i \in 1 .. n}
  <2>1. n <= cap
    BY DEF n, cap, T
  <2> QED
    BY <1>1, <1>3, <1>4, <1>6, <2>1, GridShows
<1>8. {order[i].account_id : i \in 1 .. n} = {m.account_id : m \in T}
  BY <1>4
<1> QED
  BY <1>7, <1>8 DEF cap, T

\* However CREATE, JOIN, SWITCHSEAT, KICK and a CHANGE to a smaller room follow one another, the
\* grid that toRoomInfo (rooms.js) sends shows every member of a team that is not over its size,
\* and nobody else, whatever order the member list is in.
THEOREM GridHolds == Spec => []GridComplete
<1>1. PushInv => GridComplete
  <2> SUFFICES ASSUME PushInv, room # NoRoom, NEW g \in Teams,
                      Cardinality(TeamOf(room, g)) <= perTeamCap(room),
                      NEW order \in SetToSeqs(TeamOf(room, g))
               PROVE  Range(toRoomInfo(order, perTeamCap(room))) \ {0}
                        = {m.account_id : m \in TeamOf(room, g)}
    BY DEF GridComplete
  <2>1. Sound(room)
    BY RoomFacts
  <2> QED
    BY <2>1, GridSound
<1> QED
  BY <1>1, PushHolds, PTL
================================================================================
