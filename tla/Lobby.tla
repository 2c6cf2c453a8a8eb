------------------------------------ MODULE Lobby ------------------------------------
(***************************************************************************)
(* The ROOM handlers of the TCP gateway (src/tcp/handlers/Room*.js): what  *)
(* each one sends to whom around the operation on the room, and what the   *)
(* clients then show.  The operation is one step on the record (module     *)
(* Rooms shows when it is).                                                *)
(*                                                                         *)
(* An operation under the room's lock releases it and publishes its        *)
(* notifications in one go on one Redis connection: they reach a member's  *)
(* gateway in the order of the operations, and make one step with theirs.  *)
(* What a handler does after further awaits is a step of its own: the      *)
(* answer to CREATE, which holds no lock, and the handoff of START.        *)
(***************************************************************************)
EXTENDS RoomRules, MatchSettings

CONSTANTS MaxStarts,    \* bound: matches started; no room is created after the last of them
          Fleet,        \* the match servers that may be registered
          staticAddr,   \* the configured address, for an empty fleet
          Scenarios     \* the operations a behaviour mixes besides CREATE, JOIN and LEAVE, the
                        \* sizes and choices of its hosts, the bound on the pushes under way to a client

\* The sizes the create dialog offers.
csRuleMembers == {8, 6, 4, 2}

ASSUME SizesOffered == Sizes \subseteq csRuleMembers
ASSUME StaticIsNoMember == staticAddr \notin Fleet

\* The first account has the id 10000001; 0 marks an empty seat.
ASSUME IdsAreNotZero == 0 \notin Accounts

ASSUME ScenariosOffered == MaxStarts \in Nat /\ \A m \in Scenarios : m.sizes \subseteq Sizes

VARIABLES mix, room, config, creating, cleaning, servers, starting, settings, handoff, applied,
          wire, view, on, starts, skipped, raced

launch == <<servers, starting, settings, handoff, applied, starts, skipped>>
store == <<mix, room, config, creating, cleaning, launch, raced>>
clients == <<wire, view, on>>
vars == <<mix, room, config, creating, cleaning, launch, wire, view, on, raced>>

Idle == [mid |-> 0]

\* config: the settings fields of the record, creating[a] the record CREATE is about to
\* answer, cleaning the accounts whose socket closed and whose leave is still to run; servers
\* the cached fleet, settings[i] the key of match i, applied[i] what it plays by.
\* starts, skipped and raced are history: raced are the accounts whose record changed before
\* their CREATE was answered; config.simple and config.adv, the choices behind the record's
\* bits and bytes, are history too; mix never changes.
Init ==
  /\ mix \in Scenarios
  /\ room = NoRoom /\ config = Unset /\ starting = Idle /\ cleaning = {} /\ starts = <<>>
  /\ handoff = {} /\ skipped = {} /\ servers = {}
  /\ settings = [i \in 1 .. MaxStarts |-> Unset] /\ applied = [i \in 1 .. MaxStarts |-> Unset]
  /\ creating = [a \in Accounts |-> NoRoom] /\ raced = {}
  /\ wire = [a \in Accounts |-> <<>>] /\ view = [a \in Accounts |-> NoRoom]
  /\ on = [a \in Accounts |-> TRUE]

--------------------------------------------------------------------------------
(* Pushes *)

Room == \A a \in Accounts : Len(wire[a]) < mix.wire

notifyRaw(w, a, msg) == [w EXCEPT ![a] = Append(@, msg)]

\* gw.push: the gateway that has the client's session relays it; nobody else does.
relay(w, a, msg) == IF on[a] THEN notifyRaw(w, a, msg) ELSE w

pushToAccount(w, a, msg) == relay(w, a, msg)

broadcast(members, except, msg) ==
  [x \in Accounts |-> IF x \in members \ except THEN pushToAccount(wire, x, msg)[x] ELSE wire[x]]

joinNtf(r, a) == broadcast(AccountsIn(r), {}, [ntf |-> "JOIN", room |-> r, who |-> a])
leaveNtf(r, a) == broadcast(AccountsIn(r), {a}, [ntf |-> "LEAVE", room |-> r, who |-> a])
dismissNtf(r, a) == broadcast(AccountsIn(r), {a}, [ntf |-> "DISMISS", room |-> NoRoom, who |-> a])
setReadyNtf(r, a) == broadcast(AccountsIn(r), {}, [ntf |-> "SETREADY", room |-> r, who |-> a])

\* Mutant: only the members that remain are told.
kickNtfRest(r, t) == broadcast(AccountsIn(r), {}, [ntf |-> "KICK", room |-> r, who |-> t])

\* The kicked account is pushed to as well, though no member any more.
kickNtf(r, t) == broadcast(AccountsIn(r) \cup {t}, {}, [ntf |-> "KICK", room |-> r, who |-> t])

--------------------------------------------------------------------------------
(* The handlers.  A refused operation answers with an error code and changes nothing.  A     *)
(* client creates or joins from the room list, when the pushes of a room it was in have      *)
(* arrived (they are faster than a person), and acts on the room it shows.                   *)

AtList(a) == on[a] /\ view[a] = NoRoom /\ wire[a] = <<>>

InRoom(a) == on[a] /\ view[a] # NoRoom

RoomCreate(a) ==
  /\ AtList(a) /\ room = NoRoom /\ creating[a] = NoRoom /\ Len(starts) < MaxStarts
  /\ \E size \in mix.sizes, code \in Codes \cup {NoCode} :
       /\ room' = Created(a, size, code)
       /\ creating' = [creating EXCEPT ![a] = room']
  /\ \E c \in mix.choices :
       config' = [stored |-> pack(c), simple |-> c, adv |-> c.adv]
  /\ UNCHANGED <<mix, cleaning, launch, raced, clients>>

\* "No broadcast": the record as create built it, whatever has happened to it since.
RoomCreateReply(a) ==
  /\ creating[a] # NoRoom
  /\ view' = [view EXCEPT ![a] = creating[a]] /\ creating' = [creating EXCEPT ![a] = NoRoom]
  /\ UNCHANGED <<mix, room, config, cleaning, launch, raced, wire, on>>

Overtake == raced' = raced \cup {a \in Accounts : creating[a] # NoRoom}

RoomJoin(a) ==
  /\ AtList(a) /\ Room
  /\ \E code \in Codes \cup {NoCode} : MayJoin(room, a, code)
  /\ room' = Joined(room, a) /\ wire' = joinNtf(room', a) /\ Overtake
  /\ UNCHANGED <<mix, config, creating, cleaning, launch, view, on>>

\* leave, and what the two callers of it tell the others.
Leaves(a) ==
  /\ a \in AccountsIn(room)
  /\ IF Dismisses(room, a)
     THEN room' = NoRoom /\ config' = Unset /\ wire' = dismissNtf(room, a)
     ELSE room' = Without(room, a) /\ wire' = leaveNtf(room', a) /\ UNCHANGED config
  /\ Overtake

RoomLeave(a) ==
  /\ InRoom(a) /\ Room /\ room # NoRoom
  /\ Leaves(a) /\ view' = [view EXCEPT ![a] = NoRoom]
  /\ UNCHANGED <<mix, creating, cleaning, launch, on>>

RoomKick(a, t) ==
  /\ "KICK" \in mix.ops /\ InRoom(a) /\ Room /\ MayKick(room, a, t)
  /\ room' = Without(room, t) /\ wire' = kickNtf(room', t) /\ Overtake
  /\ UNCHANGED <<mix, config, creating, cleaning, launch, view, on>>

\* The request has no `advanced' field: an empty blob leaves the old one in force.
ChangedConfig(c) ==
  LET new == pack(c)
  IN  IF new.blob # <<>>
      THEN [stored |-> [new EXCEPT !.advanced = TRUE], simple |-> c, adv |-> c.adv]
      ELSE [config EXCEPT !.stored = [@ EXCEPT !.rs = new.rs, !.rs2 = new.rs2], !.simple = c]

RoomChange(a) ==
  /\ "CHANGE" \in mix.ops /\ InRoom(a) /\ Room /\ MayChange(room, a)
  /\ \E size \in mix.sizes : room' = Changed(room, size)
  /\ \E c \in mix.choices : config' = ChangedConfig(c)
  /\ wire' = broadcast(AccountsIn(room'), {}, [ntf |-> "CHANGE", room |-> room', who |-> a])
  /\ Overtake
  /\ UNCHANGED <<mix, creating, cleaning, launch, view, on>>

RoomSetReady(a) ==
  /\ "SETREADY" \in mix.ops /\ InRoom(a) /\ Room /\ MaySetReady(room, a) /\ wire' = setReadyNtf(room, a)
  /\ UNCHANGED <<store, view, on>>

RoomSwitchSeat(a) ==
  /\ "SWITCHSEAT" \in mix.ops /\ InRoom(a) /\ Room /\ room # NoRoom
  /\ \E g \in Teams, s \in 0 .. (perTeamCap(room) - 1) :
       MaySwitchSeat(room, a, g, s) /\ room' = Seated(room, a, g, s)
  /\ wire' = broadcast(AccountsIn(room'), {}, [ntf |-> "SWITCHSEAT", room |-> room', who |-> a])
  /\ Overtake
  /\ UNCHANGED <<mix, config, creating, cleaning, launch, view, on>>

\* The members' countdown windows end in a START of their own; only the owner's is accepted.
RoomCountDown(a) ==
  /\ "COUNTDOWN" \in mix.ops /\ InRoom(a) /\ Room /\ room # NoRoom /\ room.owner = a
  /\ wire' = broadcast(AccountsIn(room), {}, [ntf |-> "COUNTDOWN", room |-> room, who |-> a])
  /\ UNCHANGED <<store, view, on>>

--------------------------------------------------------------------------------
(* START *)

\* The answer replaces the cached list; a failed read keeps it.
refresh ==
  /\ \E alive \in SUBSET (IF "FLEET" \in mix.ops THEN Fleet ELSE {}) : servers' = alive
  /\ UNCHANGED <<mix, room, config, creating, cleaning, starting, settings, handoff, applied,
                 starts, skipped, raced, clients>>

\* One of them at random, else the configured address.
pickServer(addr) == IF servers = {} THEN addr = staticAddr ELSE addr \in servers

\* The match id is drawn, and the server chosen, for the record the lock protected; no
\* notification.
RoomStart(a) ==
  /\ "START" \in mix.ops /\ InRoom(a) /\ MayStart(room, a) /\ starting = Idle
  /\ Len(starts) < MaxStarts
  /\ room' = Started(room)
  /\ starts' = Append(starts, [members |-> room.members, config |-> config, failed |-> FALSE])
  /\ \E addr \in Fleet \cup {staticAddr} :
       /\ pickServer(addr)
       /\ starting' = [mid |-> Len(starts) + 1, todo |-> room.members, host |-> a, addr |-> addr,
                       config |-> config.stored, wrote |-> FALSE]
  /\ UNCHANGED <<mix, config, creating, cleaning, servers, settings, handoff, applied, skipped,
                 raced, clients>>

\* Best effort: the handoff goes on when the write fails.
RoomStartSettings ==
  /\ starting # Idle /\ ~starting.wrote /\ starting' = [starting EXCEPT !.wrote = TRUE]
  /\ \/ /\ settings' = [settings EXCEPT ![starting.mid] = payload(starting.config)]
        /\ UNCHANGED starts
     \/ starts' = [starts EXCEPT ![starting.mid].failed = TRUE] /\ UNCHANGED settings
  /\ UNCHANGED <<mix, room, config, creating, cleaning, servers, handoff, applied, skipped, raced,
                 clients>>

\* Mutant: the write is not awaited.
HandoffMayBeginAtOnce == starting # Idle

HandoffMayBegin == starting # Idle /\ starting.wrote

\* Mutant: the team is read from the room as it is by now.
prepareTokenNow(m) ==
  [mid |-> starting.mid, who |-> m.account_id, addr |-> starting.addr,
   team |-> IF room # NoRoom /\ \E n \in room.members : n.account_id = m.account_id
            THEN (CHOOSE n \in room.members : n.account_id = m.account_id).group_id ELSE 0]

\* The token names the match and the member's team; it goes out with the server's address.
prepareToken(m) ==
  [mid |-> starting.mid, who |-> m.account_id, addr |-> starting.addr, team |-> m.group_id]

\* The handoff, member by member: the looks of all but the host need a query, and a member
\* whose account it does not find is skipped.
RoomStartHandoff ==
  /\ HandoffMayBegin
  /\ \E m \in starting.todo :
       /\ starting' = [starting EXCEPT !.todo = @ \ {m}]
       /\ \/ handoff' = handoff \cup {prepareToken(m)} /\ UNCHANGED skipped
          \/ /\ m.account_id # starting.host /\ UNCHANGED handoff
             /\ skipped' = skipped \cup {[mid |-> starting.mid, who |-> m.account_id]}
  /\ UNCHANGED <<mix, room, config, creating, cleaning, servers, settings, applied, starts, raced,
                 clients>>

RoomStartEnds ==
  /\ starting # Idle /\ starting.wrote /\ starting.todo = {} /\ starting' = Idle
  /\ UNCHANGED <<mix, room, config, creating, cleaning, servers, settings, handoff, applied,
                 starts, skipped, raced, clients>>

\* The first of them to reach the match server makes it load the settings, once.
admitFirst ==
  /\ \E h \in handoff :
       /\ applied[h.mid] = Unset
       /\ applied' = [applied EXCEPT ![h.mid] = loadMatchSettings(settings[h.mid])]
  /\ UNCHANGED <<mix, room, config, creating, cleaning, servers, starting, settings, handoff,
                 starts, skipped, raced, clients>>

--------------------------------------------------------------------------------
\* The poll of a client back in the lobby reopens the room and is answered with it.
RoomInfo(a) ==
  /\ "INFO" \in mix.ops /\ InRoom(a)
  /\ room' = IF MayReopen(room) THEN Reopened(room) ELSE room
  /\ view' = [view EXCEPT ![a] = room']
  /\ UNCHANGED <<mix, config, creating, cleaning, launch, raced, wire, on>>

\* The socket closes: nothing reaches the client any more, its leave comes later.
disconnect(a) ==
  /\ "CLOSE" \in mix.ops /\ on[a] /\ on' = [on EXCEPT ![a] = FALSE] /\ cleaning' = cleaning \cup {a}
  /\ view' = [view EXCEPT ![a] = NoRoom] /\ wire' = [wire EXCEPT ![a] = <<>>]
  /\ creating' = [creating EXCEPT ![a] = NoRoom] /\ raced' = raced \ {a}
  /\ UNCHANGED <<mix, room, config, launch>>

handleDisconnect(a) ==
  /\ a \in cleaning /\ cleaning' = cleaning \ {a} /\ Room
  /\ IF room # NoRoom /\ a \in AccountsIn(room) THEN Leaves(a) ELSE UNCHANGED <<room, config, wire, raced>>
  /\ UNCHANGED <<mix, creating, launch, view, on>>

\* A new login takes longer than the leave, which gives up within about a second.
reconnect(a) ==
  /\ ~on[a] /\ a \notin cleaning /\ on' = [on EXCEPT ![a] = TRUE]
  /\ UNCHANGED <<store, wire, view>>

--------------------------------------------------------------------------------
(* The client (external): what it does with a notification. *)

shows(a, msg) ==
  CASE msg.ntf = "DISMISS" -> NoRoom
    [] msg.ntf = "KICK" /\ msg.who = a -> NoRoom
    [] msg.ntf = "JOIN" /\ msg.who = a -> msg.room
    [] OTHER -> IF view[a] = NoRoom THEN NoRoom ELSE msg.room

notify(a) ==
  /\ wire[a] # <<>> /\ wire' = [wire EXCEPT ![a] = Tail(@)]
  /\ view' = [view EXCEPT ![a] = shows(a, Head(wire[a]))]
  /\ UNCHANGED <<store, on>>

Handlers(a) ==
  \/ RoomCreate(a) \/ RoomCreateReply(a) \/ RoomJoin(a) \/ RoomLeave(a) \/ RoomChange(a)
  \/ RoomSetReady(a) \/ RoomSwitchSeat(a) \/ RoomCountDown(a) \/ RoomStart(a) \/ RoomInfo(a)
  \/ \E t \in Accounts : RoomKick(a, t)

Next ==
  \/ \E a \in Accounts :
       Handlers(a) \/ disconnect(a) \/ handleDisconnect(a) \/ reconnect(a) \/ notify(a)
  \/ refresh \/ RoomStartSettings \/ RoomStartHandoff \/ RoomStartEnds \/ admitFirst

Spec == Init /\ [][Next]_vars

--------------------------------------------------------------------------------
(* The seat grid *)

\* Mutant: a seat that is out of range or taken becomes the first.
placeFirst(grid, m, cap) ==
  [grid EXCEPT ![IF m.seat < cap /\ grid[m.seat] = 0 THEN m.seat ELSE 0] = m.account_id]

\* Seat a client draws a member at: its own when it is in range and free, else the first free
\* one, else the first.  `grid' maps the seats of one team to accounts, 0 when empty.
place(grid, m, cap) ==
  LET open == {s \in 0 .. (cap - 1) : grid[s] = 0}
      s == IF m.seat \in open THEN m.seat
           ELSE IF open = {} THEN 0 ELSE CHOOSE x \in open : \A y \in open : x <= y
  IN  [grid EXCEPT ![s] = m.account_id]

\* The grid of a team, its members taken in the order of the list.
toRoomInfo(order, cap) ==
  FoldLeft(LAMBDA grid, m : place(grid, m, cap), [s \in 0 .. (cap - 1) |-> 0], order)

--------------------------------------------------------------------------------
(* Properties *)

Roster(r) == IF r = NoRoom THEN {} ELSE r.members

Quiet == /\ \A a \in Accounts : wire[a] = <<>> /\ creating[a] = NoRoom
         /\ cleaning = {}

\* When nothing is under way, every connected member shows the roster and seats of the record
\* and nobody else shows a room, whatever mix of joins, kicks, leaves, seat switches and
\* disconnects came before; but for a host whose CREATE was overtaken.
ViewsAgree ==
  Quiet => \A a \in Accounts :
             on[a] /\ a \notin raced =>
               IF a \in (IF room = NoRoom THEN {} ELSE AccountsIn(room))
               THEN Roster(view[a]) = room.members ELSE view[a] = NoRoom

\* A START hands the match to everybody who sat in the room at that moment and whose account
\* is found, on the team the host had arranged and with the same server for all, whatever
\* happens to the room and the fleet while the accounts are loaded.
HandoffWhole ==
  \A i \in 1 .. Len(starts) :
    LET given == {[who |-> h.who, team |-> h.team] : h \in {x \in handoff : x.mid = i}}
        due == {[who |-> m.account_id, team |-> m.group_id] : m \in starts[i].members}
        lost == {d \in due : [mid |-> i, who |-> d.who] \in skipped}
    IN  /\ given \subseteq due /\ (starting.mid # i => given = due \ lost)
        /\ Cardinality({h.addr : h \in {x \in handoff : x.mid = i}}) <= 1

\* However early the first player reaches the match server, the match plays by what the host's
\* dialogs showed at START: an unreadable blob falls back to the simple settings as a whole,
\* no part of it spoils the rest, and only a failed write leaves the defaults.
SettingsApplied ==
  \A i \in 1 .. Len(starts) :
    applied[i] # Unset =>
      applied[i] = IF starts[i].failed THEN defaultMatchSettings
                   ELSE Intended(starts[i].config.simple, starts[i].config.adv)

\* The grid shows every member of a team that is not over its size, also when a CHANGE has
\* made the room smaller than the seats its members hold.
GridComplete ==
  room # NoRoom =>
    \A g \in Teams :
      Cardinality(TeamOf(room, g)) <= perTeamCap(room) =>
        \A order \in SetToSeqs(TeamOf(room, g)) :
          Range(toRoomInfo(order, perTeamCap(room))) \ {0} = {m.account_id : m \in TeamOf(room, g)}
--------------------------------------------------------------------------------
(* Inductive invariants: why the properties hold. *)

Pushes == {"JOIN", "LEAVE", "DISMISS", "KICK", "CHANGE", "SETREADY", "SWITCHSEAT", "COUNTDOWN"}
Msg == [ntf : Pushes, room : RoomRec \cup {NoRoom}, who : Accounts]

RoomSound == room # NoRoom => room \in RoomRec /\ IsFiniteSet(room.members) /\ WellSeated(room)

TypeInv ==
  /\ mix \in Scenarios /\ raced \subseteq Accounts /\ cleaning \subseteq Accounts
  /\ wire \in [Accounts -> Seq(Msg)] /\ view \in [Accounts -> RoomRec \cup {NoRoom}]
  /\ creating \in [Accounts -> RoomRec \cup {NoRoom}] /\ on \in [Accounts -> BOOLEAN]

Seats(a) == room # NoRoom /\ a \in AccountsIn(room)

\* A push that puts the client of `a' out of its room, and the one that puts it into one.
Expels(a, msg) == msg.ntf = "DISMISS" \/ (msg.ntf = "KICK" /\ msg.who = a)
Admits(a, msg) == msg.ntf = "JOIN" /\ msg.who = a

\* Who is not connected shows nothing, and sits nowhere once its leave has run.
Offline(a) ==
  /\ a \in cleaning => ~on[a]
  /\ ~on[a] => /\ wire[a] = <<>> /\ view[a] = NoRoom /\ creating[a] = NoRoom
               /\ a \notin cleaning => ~Seats(a)

\* An unanswered CREATE: its host owns the room and shows none, and the record is as it was
\* created unless the answer is overtaken.
Creating(a) ==
  creating[a] # NoRoom =>
    /\ room # NoRoom /\ room.owner = a /\ view[a] = NoRoom
    /\ \A i \in DOMAIN wire[a] : ~Admits(a, wire[a][i])
    /\ a \notin raced => /\ wire[a] = <<>> /\ room.members = creating[a].members
                         /\ AccountsIn(room) = {a}

\* What the pushes under way will leave a client showing: a push that admits it can only be
\* the first of them, and the client shows no room yet; one that expels it can only be the
\* last; and the last carries the record.
UpToDate(a) ==
  LET w == wire[a]
  IN  /\ \A i \in DOMAIN w : /\ Admits(a, w[i]) => i = 1 /\ view[a] = NoRoom
                             /\ Expels(a, w[i]) => i = Len(w)
                             /\ w[i].ntf # "DISMISS" => w[i].room # NoRoom
      /\ IF Seats(a)
         THEN IF w = <<>> THEN view[a] # NoRoom /\ view[a].members = room.members
              ELSE /\ ~Expels(a, w[Len(w)]) /\ w[Len(w)].room.members = room.members
                   /\ view[a] # NoRoom \/ Admits(a, w[1])
         ELSE IF w = <<>> THEN view[a] = NoRoom
              ELSE Expels(a, w[Len(w)]) \/ (view[a] = NoRoom /\ ~Admits(a, w[1]))

Shown(a) == on[a] /\ creating[a] = NoRoom /\ a \notin raced => UpToDate(a)

PushInv == TypeInv /\ RoomSound /\ \A a \in Accounts : Offline(a) /\ Creating(a) /\ Shown(a)

\* The settings fields a record may carry: the bits of one CHANGE or CREATE, the blob of the
\* same or of an earlier one.
Written(c, d) == [pack(d) EXCEPT !.rs = pack(c).rs, !.rs2 = pack(c).rs2]
Offered == UNION {m.choices : m \in Scenarios}
ConfigOf(c, d) == [stored |-> Written(c, d), simple |-> c, adv |-> d.adv]
Configs == {ConfigOf(c, d) : c, d \in Offered}

\* Whatever a host chooses arrives at the match server as it was meant.
CodecFaithful ==
  \A c, d \in Offered : loadMatchSettings(payload(Written(c, d))) = Intended(c, d.adv)

LaunchRec == [members : SUBSET MemberRec, config : Configs, failed : BOOLEAN]
HandoffRec ==
  [mid : Nat \ {0}, todo : SUBSET MemberRec, host : Accounts, addr : Fleet \cup {staticAddr},
   config : {c.stored : c \in Configs}, wrote : BOOLEAN]
Token == [mid : Nat, who : Accounts, addr : Fleet \cup {staticAddr}, team : Teams]

LaunchTypes ==
  /\ room # NoRoom => config \in Configs
  /\ starts \in Seq(LaunchRec) /\ Len(starts) <= MaxStarts /\ servers \subseteq Fleet
  /\ \/ starting = Idle
     \/ /\ starting \in HandoffRec /\ starting.mid = Len(starts)
        /\ starting.todo \subseteq starts[Len(starts)].members
        /\ starting.config = starts[Len(starts)].config.stored
  /\ handoff \subseteq Token /\ skipped \subseteq [mid : Nat, who : Accounts]
  /\ \A h \in handoff \cup skipped : h.mid \in 1 .. Len(starts)
  /\ DOMAIN settings = 1 .. MaxStarts /\ DOMAIN applied = 1 .. MaxStarts
  /\ \A i \in 1 .. MaxStarts : i > Len(starts) => settings[i] = Unset /\ applied[i] = Unset

\* The handoff of match i so far: those of its members that have been served hold a token or
\* were skipped, never both, and all tokens name the server drawn for the match.
Handled(i) == IF starting.mid = i THEN starts[i].members \ starting.todo ELSE starts[i].members
Missed(i, a) == [mid |-> i, who |-> a] \in skipped

Handed(i) ==
  LET given == {h \in handoff : h.mid = i}
  IN  /\ \A m, n \in starts[i].members : m.account_id = n.account_id => m = n
      /\ \A h \in given : \E m \in Handled(i) :
           h.who = m.account_id /\ h.team = m.group_id /\ ~Missed(i, m.account_id)
      /\ \A m \in Handled(i) : Missed(i, m.account_id) \/ \E h \in given : h.who = m.account_id
      /\ \A m \in starts[i].members \ Handled(i) : ~Missed(i, m.account_id)
      /\ \A h, k \in given : h.addr = k.addr
      /\ starting.mid = i => \A h \in given : h.addr = starting.addr

\* What becomes of the settings: nothing while the write of START is under way, then the key,
\* or none when it failed; a match that has begun plays by that.
Carried(i) ==
  LET w == payload(starts[i].config.stored)
  IN  IF starting.mid = i /\ ~starting.wrote
      THEN /\ settings[i] = Unset /\ ~starts[i].failed /\ applied[i] = Unset
           /\ \A h \in handoff : h.mid # i
      ELSE /\ settings[i] = IF starts[i].failed THEN Unset ELSE w
           /\ applied[i] # Unset =>
                applied[i] = IF starts[i].failed THEN defaultMatchSettings ELSE loadMatchSettings(w)

LaunchInv == LaunchTypes /\ \A i \in 1 .. Len(starts) : Handed(i) /\ Carried(i)

LobbyInv == PushInv /\ LaunchInv
================================================================================
