--------------------------------- MODULE Rooms ---------------------------------
(***************************************************************************)
(* The custom-room store as the gateways run it (src/tcp/rooms.js): every  *)
(* operation is an async function whose Redis commands are separate steps, *)
(* and any number of requests - of one client or of several, on one        *)
(* gateway or on several - are between two of their commands at a time.    *)
(*                                                                         *)
(*   rooms    hash `rooms'          index   hash `room:members'            *)
(*   seq      counter `room:seq'    lock    keys `room:lock:<id>'          *)
(*                                                                         *)
(* A request in flight is a slot r of Slots: req[r] is what the client     *)
(* sent, pc[r] the Redis command it issues next, id[r] the room it         *)
(* resolved, copy[r] its private record, todo[r] the members a dismissal   *)
(* has still to unindex.  A socket that closes runs leave as well          *)
(* (handleDisconnect), so a disconnect is a "leave" request.               *)
(***************************************************************************)
EXTENDS RoomRules

CONSTANTS
  Slots,         \* requests in flight at a time
  Ops,           \* bound: operations the clients of an instance use
  MaxRooms,      \* bound: room ids handed out
  MaxSeat,       \* bound: seat numbers a SWITCHSEAT may name
  Free, Orphan,  \* lock values: no key; the key of a request that is gone
  NoReq,
  SlowHolders,   \* may the 3000 ms lease run out under a live holder?
  Faults         \* may a gateway crash or a Redis command fail?

ASSUME SlotsFinite == IsFiniteSet(Slots)
ASSUME MaxRoomsNat == MaxRooms \in Nat /\ MaxSeat \in Nat
ASSUME LockValues == Free # Orphan /\ Free \notin Slots /\ Orphan \notin Slots
ASSUME Switches == SlowHolders \in BOOLEAN /\ Faults \in BOOLEAN

VARIABLES rooms, index, seq, lock, req, pc, id, copy, todo

store == <<rooms, index, seq>>
locals == <<req, pc, id, copy, todo>>
vars == <<rooms, index, seq, lock, req, pc, id, copy, todo>>

RoomIds == 1 .. MaxRooms

Requests ==
  [op : {"create"}, who : Accounts, size : Sizes, code : Codes \cup {NoCode}]
  \cup [op : {"join"}, who : Accounts, room_id : {0} \cup RoomIds,
        code : Codes \cup {NoCode}]
  \cup [op : {"leave", "ready"}, who : Accounts]
  \cup [op : {"kick"}, who : Accounts, room_id : RoomIds, target : Accounts]
  \cup [op : {"change"}, who : Accounts, room_id : RoomIds, size : {0} \cup Sizes]
  \cup [op : {"seat"}, who : Accounts, room_id : {0} \cup RoomIds,
        team : 1 .. (NUM_TEAMS + 1), seat : 0 .. MaxSeat]
  \cup [op : {"start"}, who : Accounts, room_id : RoomIds]
  \cup [op : {"reenter"}, room_id : RoomIds]

\* The commands of an operation, in the order it issues them.
Steps == {"idle", "lookup", "incr", "lock", "load", "unindex", "save", "index",
          "delete", "drop", "release"}

--------------------------------------------------------------------------------
Init ==
  /\ rooms = [i \in RoomIds |-> NoRoom]
  /\ index = [a \in Accounts |-> 0]
  /\ seq = 0
  /\ lock = [i \in RoomIds |-> Free]
  /\ req = [r \in Slots |-> NoReq]
  /\ pc = [r \in Slots |-> "idle"]
  /\ id = [r \in Slots |-> 0]
  /\ copy = [r \in Slots |-> NoRoom]
  /\ todo = [r \in Slots |-> {}]

Goto(r, step) == pc' = [pc EXCEPT ![r] = step]

\* The request is answered; its local variables are gone.
Finish(r) ==
  /\ req' = [req EXCEPT ![r] = NoReq]
  /\ pc' = [pc EXCEPT ![r] = "idle"]
  /\ id' = [id EXCEPT ![r] = 0]
  /\ copy' = [copy EXCEPT ![r] = NoRoom]
  /\ todo' = [todo EXCEPT ![r] = {}]

\* Ids not handed out yet, those of creates in flight excluded (MaxRooms bounds
\* the model, not the code).
Creating == {r \in Slots : pc[r] \in {"lookup", "incr"} /\ req[r].op = "create"}
IdsLeft == MaxRooms - seq - Cardinality(Creating)

\* A client's request arrives.  Requests that name their room go straight to its
\* lock; the others ask Redis first which room they mean.
Begin(r, q) ==
  LET named == q.op \in {"kick", "change", "start", "reenter"}
               \/ (q.op \in {"join", "seat"} /\ q.room_id # 0)
  IN  /\ pc[r] = "idle"
      /\ q.op \in Ops
      /\ q.op = "create" => IdsLeft > 0
      /\ ~(q.op = "join" /\ q.room_id = 0 /\ q.code = NoCode)
      /\ req' = [req EXCEPT ![r] = q]
      /\ id' = [id EXCEPT ![r] = IF named THEN q.room_id ELSE 0]
      /\ Goto(r, IF named THEN "lock" ELSE "lookup")
      /\ UNCHANGED <<rooms, index, seq, lock, copy, todo>>

--------------------------------------------------------------------------------
(* The reads before the lock. *)

\* create refuses an account that is in a room.
LookupCreate(r) ==
  /\ pc[r] = "lookup" /\ req[r].op = "create"
  /\ \/ /\ index[req[r].who] # 0
        /\ Finish(r)
     \/ /\ index[req[r].who] = 0
        /\ Goto(r, "incr")
        /\ UNCHANGED <<req, id, copy, todo>>
  /\ UNCHANGED <<store, lock>>

\* join by code takes any room whose record has that code.
LookupCode(r) ==
  LET found == {i \in RoomIds : rooms[i] # NoRoom /\ rooms[i].code = req[r].code}
  IN  /\ pc[r] = "lookup" /\ req[r].op = "join"
      /\ \/ /\ found = {}
            /\ Finish(r)
         \/ \E i \in found :
              /\ id' = [id EXCEPT ![r] = i]
              /\ Goto(r, "lock")
              /\ UNCHANGED <<req, copy, todo>>
      /\ UNCHANGED <<store, lock>>

\* leave, setReady and a switchSeat without room_id act on the indexed room.
LookupIndex(r) ==
  LET i == index[req[r].who]
  IN  /\ pc[r] = "lookup" /\ req[r].op \in {"leave", "ready", "seat"}
      /\ \/ /\ i = 0
            /\ Finish(r)
         \/ /\ i # 0
            /\ id' = [id EXCEPT ![r] = i]
            /\ Goto(r, "lock")
            /\ UNCHANGED <<req, copy, todo>>
      /\ UNCHANGED <<store, lock>>

Incr(r) ==
  /\ pc[r] = "incr"
  /\ seq' = seq + 1
  /\ id' = [id EXCEPT ![r] = seq + 1]
  /\ copy' = [copy EXCEPT ![r] = Created(req[r].who, req[r].size, req[r].code)]
  /\ Goto(r, "save")
  /\ UNCHANGED <<rooms, index, lock, req, todo>>

--------------------------------------------------------------------------------
(* withRoomLock *)

\* Mutant: SET without NX.
TakeableAlways(i) == TRUE

\* acquireLock: SET NX.
Takeable(i) == lock[i] = Free

Acquire(r) ==
  /\ pc[r] = "lock"
  /\ Takeable(id[r])
  /\ lock' = [lock EXCEPT ![id[r]] = r]
  /\ Goto(r, "load")
  /\ UNCHANGED <<store, req, id, copy, todo>>

\* Mutant: attempts without end.
GiveUpNever(r) == FALSE

\* Fifty attempts, 20 ms apart, all found the lock taken.
GiveUp(r) ==
  /\ pc[r] = "lock"
  /\ lock[id[r]] # Free
  /\ Finish(r)
  /\ UNCHANGED <<store, lock>>

\* Mutant: the lock is left to its lease.
FreedNever(r) == lock

\* releaseLock frees the key only if it still carries this request's token.
Freed(r) == IF lock[id[r]] = r THEN [lock EXCEPT ![id[r]] = Free] ELSE lock

Release(r) ==
  /\ pc[r] = "release"
  /\ lock' = Freed(r)
  /\ Finish(r)
  /\ UNCHANGED store

LeaseExpires(i) ==
  /\ lock[i] # Free
  /\ SlowHolders \/ lock[i] = Orphan
  /\ lock' = [lock EXCEPT ![i] = Free]
  /\ UNCHANGED <<store, locals>>

--------------------------------------------------------------------------------
(* The body under the lock: load, check, compute the record to write. *)

\* The rule the loaded record must satisfy for the request to go on.
Accepts(room, q) ==
  CASE q.op = "join"    -> MayJoin(room, q.who, q.code)
    [] q.op = "kick"    -> MayKick(room, q.who, q.target)
    [] q.op = "change"  -> MayChange(room, q.who)
    [] q.op = "ready"   -> MaySetReady(room, q.who)
    [] q.op = "seat"    -> MaySwitchSeat(room, q.who, q.team, q.seat)
    [] q.op = "start"   -> MayStart(room, q.who)
    [] q.op = "reenter" -> MayReopen(room)

Effect(room, q) ==
  CASE q.op = "join"    -> Joined(room, q.who)
    [] q.op = "kick"    -> Without(room, q.target)
    [] q.op = "change"  -> Changed(room, q.size)
    [] q.op = "ready"   -> room
    [] q.op = "seat"    -> Seated(room, q.who, q.team, q.seat)
    [] q.op = "start"   -> Started(room)
    [] q.op = "reenter" -> Reopened(room)

Load(r) ==
  LET room == rooms[id[r]]
  IN  /\ pc[r] = "load" /\ req[r].op # "leave"
      /\ \/ /\ Accepts(room, req[r])
            /\ copy' = [copy EXCEPT ![r] = Effect(room, req[r])]
            /\ Goto(r, "save")
         \/ /\ ~Accepts(room, req[r])
            /\ Goto(r, "release")
            /\ UNCHANGED copy
      /\ UNCHANGED <<store, lock, req, id, todo>>

\* Mutant: the index entry stays.
IndexedStill(a) == index

\* HDEL room:members.
Unindexed(a) == [index EXCEPT ![a] = 0]

\* leave loads the record, then drops its own index entry whatever it found.
LoadLeave(r) ==
  /\ pc[r] = "load" /\ req[r].op = "leave"
  /\ copy' = [copy EXCEPT ![r] = rooms[id[r]]]
  /\ Goto(r, "unindex")
  /\ UNCHANGED <<store, lock, req, id, todo>>

Unindex(r) ==
  LET room == copy[r]
      a == req[r].who
  IN  /\ pc[r] = "unindex"
      /\ index' = Unindexed(a)
      /\ \/ /\ room = NoRoom
            /\ Goto(r, "release")
            /\ UNCHANGED copy
         \/ /\ room # NoRoom
            /\ Dismisses(room, a)
            /\ Goto(r, "delete")
            /\ UNCHANGED copy
         \/ /\ room # NoRoom
            /\ ~Dismisses(room, a)
            /\ copy' = [copy EXCEPT ![r] = Without(room, a)]
            /\ Goto(r, "save")
      /\ UNCHANGED <<rooms, seq, lock, req, id, todo>>

Delete(r) ==
  /\ pc[r] = "delete"
  /\ rooms' = [rooms EXCEPT ![id[r]] = NoRoom]
  /\ todo' = [todo EXCEPT ![r] = AccountsIn(copy[r]) \ {req[r].who}]
  /\ Goto(r, "drop")
  /\ UNCHANGED <<index, seq, lock, req, id, copy>>

\* The dismissal's loop: one HDEL per other member, whatever room the entry
\* names by then.
Drop(r) ==
  /\ pc[r] = "drop"
  /\ \/ \E a \in todo[r] :
          /\ index' = Unindexed(a)
          /\ todo' = [todo EXCEPT ![r] = @ \ {a}]
          /\ UNCHANGED pc
     \/ /\ todo[r] = {}
        /\ Goto(r, "release")
        /\ UNCHANGED <<index, todo>>
  /\ UNCHANGED <<rooms, seq, lock, req, id, copy>>

Save(r) ==
  /\ pc[r] = "save"
  /\ rooms' = [rooms EXCEPT ![id[r]] = copy[r]]
  /\ Goto(r, IF req[r].op \in {"create", "join", "kick"} THEN "index" ELSE "release")
  /\ UNCHANGED <<index, seq, lock, req, id, copy, todo>>

\* create holds no lock and is done after its HSET.
Index(r) ==
  /\ pc[r] = "index"
  /\ index' = IF req[r].op = "kick"
              THEN Unindexed(req[r].target)
              ELSE [index EXCEPT ![req[r].who] = id[r]]
  /\ \/ /\ req[r].op = "create"
        /\ Finish(r)
     \/ /\ req[r].op # "create"
        /\ Goto(r, "release")
        /\ UNCHANGED <<req, id, copy, todo>>
  /\ UNCHANGED <<rooms, seq, lock>>

--------------------------------------------------------------------------------
(* Faults. *)

\* The gateway dies: its request stops where it is and its lock waits for the
\* lease to end.
Crash(r) ==
  /\ Faults
  /\ pc[r] # "idle"
  /\ lock' = [i \in RoomIds |-> IF lock[i] = r THEN Orphan ELSE lock[i]]
  /\ Finish(r)
  /\ UNCHANGED store

Holds(r) == id[r] # 0 /\ lock[id[r]] = r

\* A Redis command rejects: under the lock the `finally' still releases it,
\* elsewhere the request just fails.
Reject(r) ==
  /\ Faults
  /\ pc[r] \notin {"idle", "release"}
  /\ \/ /\ Holds(r)
        /\ Goto(r, "release")
        /\ UNCHANGED <<req, id, copy, todo>>
     \/ /\ ~Holds(r)
        /\ Finish(r)
  /\ UNCHANGED <<store, lock>>

--------------------------------------------------------------------------------
Work(r) ==
  \/ LookupCreate(r) \/ LookupCode(r) \/ LookupIndex(r) \/ Incr(r)
  \/ Acquire(r) \/ GiveUp(r) \/ Release(r)
  \/ Load(r) \/ LoadLeave(r) \/ Unindex(r) \/ Delete(r) \/ Drop(r)
  \/ Save(r) \/ Index(r)

Next ==
  \/ \E r \in Slots, q \in Requests : Begin(r, q)
  \/ \E r \in Slots : Work(r)
  \/ \E r \in Slots : Crash(r) \/ Reject(r)
  \/ \E i \in RoomIds : LeaseExpires(i)

Spec == Init /\ [][Next]_vars

\* A gateway's event loop keeps every request going, and Redis ends leases;
\* nothing obliges a client to send anything.
FairSpec ==
  /\ Spec
  /\ \A r \in Slots : WF_vars(Work(r))
  /\ \A i \in RoomIds : WF_vars(LeaseExpires(i))

--------------------------------------------------------------------------------
(* Properties. *)

\* Every variable has its type.
TypeOK ==
  /\ rooms \in [RoomIds -> RoomRec \cup {NoRoom}]
  /\ index \in [Accounts -> {0} \cup RoomIds]
  /\ seq \in 0 .. MaxRooms
  /\ lock \in [RoomIds -> Slots \cup {Free, Orphan}]
  /\ req \in [Slots -> Requests \cup {NoReq}]
  /\ pc \in [Slots -> Steps]
  /\ id \in [Slots -> {0} \cup RoomIds]
  /\ copy \in [Slots -> RoomRec \cup {NoRoom}]
  /\ todo \in [Slots -> SUBSET Accounts]

\* In every stored room no account is listed twice, no two members share a seat
\* of a team, and the owner is a member: whatever mix of joins, seat switches,
\* kicks, leaves and resizes is in flight.  freeSeat's -1 fallback to seat 0 in
\* join would break it if the emptier team could ever be full.
Seating == \A i \in RoomIds : rooms[i] # NoRoom => WellSeated(rooms[i])

\* An index entry that names a stored room is backed by that room's member list,
\* unless a kick that holds the room's lock is just about to remove the entry:
\* otherwise leave, setReady and the create guard act on a room the account is
\* not in.
IndexSound ==
  \A a \in Accounts :
    LET i == index[a]
    IN  i # 0 /\ rooms[i] # NoRoom =>
          \/ a \in AccountsIn(rooms[i])
          \/ \E r \in Slots : /\ pc[r] = "index" /\ id[r] = i
                              /\ req[r].op = "kick" /\ req[r].target = a

\* A record comes into being only by the create that drew its id: a dismissed
\* room is never written back by an operation that loaded it before.
NoResurrection ==
  [][\A i \in RoomIds :
       rooms[i] = NoRoom /\ rooms'[i] # NoRoom =>
         \E r \in Slots : pc[r] = "save" /\ id[r] = i /\ req[r].op = "create"]_vars

\* A member list grows only while the room is WAITING and only up to
\* max_member_num, although a change may have lowered that number below the
\* members already there.
AdmissionRule ==
  [][\A i \in RoomIds :
       rooms[i] # NoRoom /\ rooms'[i] # NoRoom
         /\ ~(AccountsIn(rooms'[i]) \subseteq AccountsIn(rooms[i])) =>
           /\ rooms[i].state = "WAITING"
           /\ Cardinality(rooms'[i].members) <= rooms[i].max_member_num]_vars

\* The read-modify-write chains are indivisible: every change of a record is one
\* atomic room operation applied to the record as it is ("concurrent joins/leaves
\* to the SAME room can't lose an update").
Atomic == INSTANCE RoomsAtomic WITH RoomIds <- RoomIds, rooms <- rooms
Atomicity == Atomic!Spec

\* A room is dismissed only by the leave of its owner or of its last member.
DismissalJustified ==
  [][\A i \in RoomIds :
       rooms[i] # NoRoom /\ rooms'[i] = NoRoom =>
         \E r \in Slots :
           /\ pc[r] = "delete" /\ id[r] = i
           /\ \/ req[r].who = rooms[i].owner
              \/ AccountsIn(rooms[i]) = {req[r].who}]_vars

\* Every request is answered, by its result or by the lock timeout.
RequestsEnd == \A r \in Slots : (pc[r] # "idle") ~> (pc[r] = "idle")

\* No room stays locked: whoever held the lock, crashed or not, it is free again.
LocksFreed == \A i \in RoomIds : (lock[i] # Free) ~> (lock[i] = Free)

--------------------------------------------------------------------------------
(* The inductive invariant of the proofs (module RoomsProofs). *)

InSection == {"load", "unindex", "save", "index", "delete", "drop", "release"}

\* Which operation can be at which command, and what its locals hold there.
LocalsOK ==
  \A r \in Slots :
    /\ pc[r] # "idle" => req[r] \in Requests
    /\ pc[r] = "lookup" => req[r].op \in {"create", "join", "leave", "ready", "seat"}
    /\ pc[r] = "incr" => req[r].op = "create"
    /\ pc[r] \in {"lock", "load", "unindex", "delete", "drop", "release"} =>
         req[r].op # "create"
    /\ pc[r] \in {"unindex", "delete", "drop"} => req[r].op = "leave"
    /\ pc[r] = "index" => req[r].op \in {"create", "join", "kick"}
    /\ pc[r] \in InSection \cup {"lock"} => id[r] \in RoomIds
    /\ pc[r] \in {"save", "delete"} => copy[r] \in RoomRec

\* A lock's token belongs to a request in the locked section of that room.
HoldersInside ==
  \A i \in RoomIds, r \in Slots :
    lock[i] = r => pc[r] \in InSection /\ req[r].op # "create" /\ id[r] = i

IdsSuffice == seq + Cardinality(Creating) <= MaxRooms

\* A request in the locked section owns the lock of its room.
LockOwned ==
  \A r \in Slots :
    pc[r] \in InSection /\ req[r].op # "create" => lock[id[r]] = r

\* `new' is what the rule of request q makes of the record `room'.
Outcome(room, q, new) ==
  \/ /\ q.op = "create"
     /\ room = NoRoom
     /\ new = Created(q.who, q.size, q.code)
  \/ /\ q.op = "leave"
     /\ room # NoRoom
     /\ ~Dismisses(room, q.who)
     /\ new = Without(room, q.who)
  \/ /\ q.op \notin {"create", "leave"}
     /\ Accepts(room, q)
     /\ new = Effect(room, q)

CopyOK(r) ==
  /\ pc[r] = "unindex" /\ copy[r] # NoRoom => copy[r] = rooms[id[r]]
  /\ pc[r] = "delete" =>
       /\ rooms[id[r]] # NoRoom
       /\ copy[r] = rooms[id[r]]
       /\ Dismisses(rooms[id[r]], req[r].who)
  /\ pc[r] = "save" => Outcome(rooms[id[r]], req[r], copy[r])

\* A request about to write holds what its rule makes of the record as it is now.
CopyCurrent == \A r \in Slots : CopyOK(r)

\* No id is drawn twice, and none is used before it is drawn.
IdsFresh ==
  /\ \A i \in RoomIds : i > seq => rooms[i] = NoRoom
  /\ \A r \in Slots : pc[r] = "save" /\ req[r].op = "create" =>
       /\ id[r] <= seq
       /\ \A t \in Slots \ {r} :
            pc[t] = "save" /\ req[t].op = "create" => id[t] # id[r]

\* No index entry, and no create about to write one, names a room id whose record is
\* still to be written.
IndexFresh ==
  /\ \A a \in Accounts : index[a] <= seq
  /\ \A r \in Slots : pc[r] = "index" /\ req[r].op = "create" => id[r] <= seq
  /\ \A r \in Slots : pc[r] = "save" /\ req[r].op = "create" =>
       /\ \A a \in Accounts : index[a] # id[r]
       /\ \A t \in Slots : pc[t] = "index" /\ req[t].op = "create" => id[t] # id[r]

\* A request about to write an index entry acts for a member of the room, and one about
\* to write a member off has removed the entry before.
IndexBacked(r) ==
  /\ pc[r] = "index" /\ req[r].op = "create" /\ rooms[id[r]] # NoRoom =>
       rooms[id[r]].owner = req[r].who
  /\ pc[r] = "index" /\ req[r].op = "join" =>
       rooms[id[r]] # NoRoom /\ req[r].who \in AccountsIn(rooms[id[r]])
  /\ pc[r] = "save" /\ req[r].op = "leave" => index[req[r].who] # id[r]

IndexInv == IndexSound /\ IndexFresh /\ \A r \in Slots : IndexBacked(r)

================================================================================
