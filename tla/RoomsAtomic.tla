------------------------------ MODULE RoomsAtomic ------------------------------
(***************************************************************************)
(* What the custom-room store promises: every operation on a room is one   *)
(* indivisible step on the room's record.  Module Rooms, in which an       *)
(* operation is a chain of Redis commands under a lease, is shown to       *)
(* implement this one as long as no lease runs out under its holder.       *)
(***************************************************************************)
EXTENDS RoomRules

CONSTANT RoomIds
VARIABLE rooms          \* hash `rooms': room id -> record, or NoRoom

Init == rooms = [i \in RoomIds |-> NoRoom]

Put(i, room) == rooms' = [rooms EXCEPT ![i] = room]

Create(i, a) ==
  /\ rooms[i] = NoRoom
  /\ \E size \in Sizes, code \in Codes \cup {NoCode} : Put(i, Created(a, size, code))

Join(i, a) ==
  /\ \E code \in Codes \cup {NoCode} : MayJoin(rooms[i], a, code)
  /\ Put(i, Joined(rooms[i], a))

Leave(i, a) ==
  /\ rooms[i] # NoRoom
  /\ Put(i, IF Dismisses(rooms[i], a) THEN NoRoom ELSE Without(rooms[i], a))

Kick(i, a) ==
  \E target \in Accounts :
    /\ MayKick(rooms[i], a, target)
    /\ Put(i, Without(rooms[i], target))

Change(i, a) ==
  /\ MayChange(rooms[i], a)
  /\ \E size \in Sizes : Put(i, Changed(rooms[i], size))

SwitchSeat(i, a) ==
  /\ rooms[i] # NoRoom
  /\ \E g \in Teams, s \in 0 .. (perTeamCap(rooms[i]) - 1) :
       /\ MaySwitchSeat(rooms[i], a, g, s)
       /\ Put(i, Seated(rooms[i], a, g, s))

Start(i, a) == MayStart(rooms[i], a) /\ Put(i, Started(rooms[i]))

Reopen(i) == MayReopen(rooms[i]) /\ Put(i, Reopened(rooms[i]))

Next ==
  \E i \in RoomIds :
    \/ Reopen(i)
    \/ \E a \in Accounts :
         \/ Create(i, a) \/ Join(i, a) \/ Leave(i, a) \/ Kick(i, a)
         \/ Change(i, a) \/ SwitchSeat(i, a) \/ Start(i, a)

Spec == Init /\ [][Next]_rooms
================================================================================
