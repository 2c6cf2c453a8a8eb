------------------------------- MODULE RoomRules -------------------------------
(***************************************************************************)
(* The rules of a custom room (src/tcp/rooms.js): what a room record holds *)
(* and what each operation computes from a loaded record before it writes  *)
(* it back.  Everything here is a pure operator on one record; how the     *)
(* records are read and written is in module Rooms.                        *)
(*                                                                         *)
(* The settings of the room, the nickname and the cosmetics of a member    *)
(* are opaque to the lobby and left out.  So is a member's `ready' flag:   *)
(* setReady stores it, playerInfo always sends `ready: true', and nothing  *)
(* else reads it.                                                          *)
(***************************************************************************)
EXTENDS Integers, FiniteSets

CONSTANTS
  Accounts,   \* account ids
  Codes,      \* join codes a host may choose
  NoCode,     \* no join code
  Sizes,      \* values of max_member_num that requests carry
  NoRoom      \* the answer of loadRoom for an absent record

ASSUME AccountsFinite == IsFiniteSet(Accounts)
ASSUME SizesPositive == Sizes \subseteq Nat \ {0}
ASSUME NoCodeIsNoCode == NoCode \notin Codes

NUM_TEAMS == 2
Teams == 1 .. NUM_TEAMS

MemberRec == [account_id : Accounts, group_id : Teams, seat : Nat]

RoomRec ==
  [owner : Accounts,
   code : Codes \cup {NoCode},
   max_member_num : Sizes,
   state : {"WAITING", "INGAME"},
   members : SUBSET MemberRec]

ASSUME NoRoomIsNoRecord == NoRoom \notin RoomRec

AccountsIn(room) == {m.account_id : m \in room.members}
TeamOf(room, g) == {m \in room.members : m.group_id = g}

--------------------------------------------------------------------------------
perTeamCap(room) ==
  LET half == (room.max_member_num + NUM_TEAMS - 1) \div NUM_TEAMS
  IN  IF half < 1 THEN 1 ELSE half

\* The emptier team, ties to team 1.
pickTeam(room) ==
  IF Cardinality(TeamOf(room, 2)) < Cardinality(TeamOf(room, 1)) THEN 2 ELSE 1

freeSeats(room, g) ==
  {s \in 0 .. (perTeamCap(room) - 1) : \A m \in TeamOf(room, g) : m.seat # s}

\* The lowest free seat of a team, -1 when it has none.
freeSeat(room, g) ==
  IF freeSeats(room, g) = {}
  THEN -1
  ELSE CHOOSE s \in freeSeats(room, g) : \A t \in freeSeats(room, g) : s <= t

memberFromAccount(a, g, s) == [account_id |-> a, group_id |-> g, seat |-> s]

--------------------------------------------------------------------------------
\* create: the record a host's request builds, the host on team 1, seat 0.
Created(a, size, code) ==
  [owner |-> a, code |-> code, max_member_num |-> size, state |-> "WAITING",
   members |-> {memberFromAccount(a, 1, 0)}]

\* Mutant: no check of the room's size.
MayJoinIgnoringSize(room, a, code) ==
  room # NoRoom /\ room.state = "WAITING" /\ a \notin AccountsIn(room)

MayJoin(room, a, code) ==
  /\ room # NoRoom
  /\ room.state = "WAITING"
  /\ ~(code # NoCode /\ room.code # NoCode /\ code # room.code)
  /\ a \notin AccountsIn(room)
  /\ Cardinality(room.members) < room.max_member_num

\* Mutant: the joiner takes seat 0 of its team whatever seats are free.
JoinedFirstSeat(room, a) ==
  [room EXCEPT !.members = @ \cup {memberFromAccount(a, pickTeam(room), 0)}]

Joined(room, a) ==
  LET g == pickTeam(room)
      s == freeSeat(room, g)
  IN  [room EXCEPT !.members =
         @ \cup {memberFromAccount(a, g, IF s >= 0 THEN s ELSE 0)}]

\* leave: an owner, or the last one, takes the whole room with it.  The test
\* looks at the owner and at the size of the list only.
Dismisses(room, a) == room.owner = a \/ Cardinality(room.members) <= 1

Without(room, a) == [room EXCEPT !.members = {m \in @ : m.account_id # a}]

MayKick(room, a, target) ==
  /\ room # NoRoom
  /\ room.owner = a
  /\ target # a
  /\ target \in AccountsIn(room)

MayChange(room, a) ==
  /\ room # NoRoom
  /\ room.owner = a
  /\ room.state = "WAITING"

\* size 0: the request carries no max_member_num.  Nothing stops a size below
\* the number of members.
Changed(room, size) ==
  IF size = 0 THEN room ELSE [room EXCEPT !.max_member_num = size]

MaySetReady(room, a) == room # NoRoom /\ a \in AccountsIn(room)

\* Mutant: the team of the request is not checked.
MaySwitchSeatAnyTeam(room, a, g, s) ==
  /\ room # NoRoom /\ room.state = "WAITING" /\ a \in AccountsIn(room)
  /\ s \in 0 .. (perTeamCap(room) - 1)
  /\ \A m \in room.members :
       ~(m.account_id # a /\ m.group_id = g /\ m.seat = s)

MaySwitchSeat(room, a, g, s) ==
  /\ room # NoRoom
  /\ room.state = "WAITING"
  /\ a \in AccountsIn(room)
  /\ g \in Teams
  /\ s \in 0 .. (perTeamCap(room) - 1)
  /\ \A m \in room.members :
       ~(m.account_id # a /\ m.group_id = g /\ m.seat = s)

Seated(room, a, g, s) ==
  [room EXCEPT !.members =
     {m \in @ : m.account_id # a} \cup {memberFromAccount(a, g, s)}]

MayStart(room, a) ==
  /\ room # NoRoom
  /\ room.owner = a
  /\ room.state = "WAITING"

Started(room) == [room EXCEPT !.state = "INGAME"]

MayReopen(room) == room # NoRoom /\ room.state = "INGAME"

Reopened(room) == [room EXCEPT !.state = "WAITING"]

--------------------------------------------------------------------------------
(* What a record must never lose. *)

OneEntryPerAccount(room) ==
  \A m, n \in room.members : m.account_id = n.account_id => m = n

OneMemberPerSeat(room) ==
  \A m, n \in room.members :
    m.group_id = n.group_id /\ m.seat = n.seat => m = n

OwnerSeated(room) == room.owner \in AccountsIn(room)

WellSeated(room) ==
  OneEntryPerAccount(room) /\ OneMemberPerSeat(room) /\ OwnerSeated(room)
================================================================================
