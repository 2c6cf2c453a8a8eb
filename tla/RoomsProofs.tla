------------------------------ MODULE RoomsProofs ------------------------------
(***************************************************************************)
(* Proofs about the custom-room store, for every set of accounts and       *)
(* request slots, every room size and every number of rooms.               *)
(***************************************************************************)
EXTENDS Rooms, RoomRulesProofs

--------------------------------------------------------------------------------
(* The fields of a request, by operation. *)

LEMMA RequestFields ==
  ASSUME NEW q \in Requests
  PROVE  /\ q.op \in {"create", "join", "leave", "ready", "kick", "change", "seat",
                      "start", "reenter"}
         /\ q.op # "reenter" => q.who \in Accounts
         /\ q.op = "create" => q.size \in Sizes /\ q.code \in Codes \cup {NoCode}
         /\ q.op = "join" => q.room_id \in {0} \cup RoomIds
                             /\ q.code \in Codes \cup {NoCode}
         /\ q.op = "kick" => q.room_id \in RoomIds /\ q.target \in Accounts
         /\ q.op = "change" => q.room_id \in RoomIds /\ q.size \in {0} \cup Sizes
         /\ q.op = "seat" => q.room_id \in {0} \cup RoomIds
         /\ q.op \in {"start", "reenter"} => q.room_id \in RoomIds
BY DEF Requests

\* What an accepted request writes is a room record again.
LEMMA EffectType ==
  ASSUME NEW room \in RoomRec, NEW q \in Requests, q.op \notin {"create", "leave"},
         Accepts(room, q)
  PROVE  Effect(room, q) \in RoomRec
<1> USE RequestFields
<1>1. CASE q.op = "join"
  <2> DEFINE g == pickTeam(room)
             s == freeSeat(room, g)
             m0 == memberFromAccount(q.who, g, IF s >= 0 THEN s ELSE 0)
  <2>1. g \in Teams
    BY DEF pickTeam, Teams, NUM_TEAMS
  <2>2. s \in Nat \cup {-1}
    <3>1. CASE freeSeats(room, g) = {}
      BY <3>1 DEF freeSeat
    <3>2. CASE freeSeats(room, g) # {}
      <4>1. s \in freeSeats(room, g)
        BY <2>1, <3>2, FreeSeatIsFree
      <4> QED
        BY <4>1 DEF freeSeats
    <3> QED
      BY <3>1, <3>2
  <2>3. m0 \in MemberRec
    <3> HIDE DEF g, s
    <3> QED
      BY <1>1, <2>1, <2>2 DEF memberFromAccount, MemberRec
  <2>4. Effect(room, q) = [room EXCEPT !.members = room.members \cup {m0}]
    BY <1>1 DEF Effect, Joined, RoomRec
  <2> HIDE DEF m0
  <2> QED
    BY <2>3, <2>4 DEF RoomRec
<1>2. CASE q.op = "kick"
  BY <1>2 DEF Effect, Without, RoomRec
<1>3. CASE q.op = "change"
  BY <1>3 DEF Effect, Changed, RoomRec
<1>4. CASE q.op = "ready"
  BY <1>4 DEF Effect
<1>5. CASE q.op = "seat"
  <2> DEFINE m0 == memberFromAccount(q.who, q.team, q.seat)
             kept == {m \in room.members : m.account_id # q.who}
  <2>1. q.team \in Teams /\ q.seat \in Nat
    BY <1>5 DEF Accepts, MaySwitchSeat
  <2>2. m0 \in MemberRec
    BY <1>5, <2>1 DEF memberFromAccount, MemberRec
  <2>3. Effect(room, q) = [room EXCEPT !.members = kept \cup {m0}]
    BY <1>5 DEF Effect, Seated, RoomRec
  <2> HIDE DEF m0
  <2> QED
    BY <2>2, <2>3 DEF RoomRec
<1>6. CASE q.op = "start"
  BY <1>6 DEF Effect, Started, RoomRec
<1>7. CASE q.op = "reenter"
  BY <1>7 DEF Effect, Reopened, RoomRec
<1> QED
  BY <1>1, <1>2, <1>3, <1>4, <1>5, <1>6, <1>7

\* No operation but leave goes on without a record.
LEMMA AcceptsRecord ==
  ASSUME NEW room, NEW q \in Requests, q.op \notin {"create", "leave"}, Accepts(room, q)
  PROVE  room # NoRoom
BY RequestFields DEF Accepts, MayJoin, MayKick, MayChange, MaySetReady, MaySwitchSeat,
                     MayStart, MayReopen

--------------------------------------------------------------------------------
(* Type correctness. *)

TypeInv == TypeOK /\ LocalsOK /\ HoldersInside /\ IdsSuffice

\* Requests that only leave the create path, or never were on it, keep the count.
LEMMA CountKept ==
  ASSUME TypeOK, IdsSuffice, Creating' \subseteq Creating, seq' = seq
  PROVE  IdsSuffice'
<1>1. IsFiniteSet(Creating)
  BY SlotsFinite, FS_Subset DEF Creating
<1>2. IsFiniteSet(Creating') /\ Cardinality(Creating') <= Cardinality(Creating)
  BY <1>1, FS_Subset
<1>3. Cardinality(Creating) \in Nat /\ Cardinality(Creating') \in Nat
  BY <1>1, <1>2, FS_CardinalityType
<1> QED
  BY <1>2, <1>3, MaxRoomsNat DEF IdsSuffice, TypeOK

\* A request that is answered leaves typed locals behind.
LEMMA FinishType ==
  ASSUME TypeInv, NEW r \in Slots, Finish(r), UNCHANGED <<rooms, seq>>,
         index' \in [Accounts -> {0} \cup RoomIds],
         lock' \in [RoomIds -> Slots \cup {Free, Orphan}],
         \A i \in RoomIds : lock'[i] # r /\ lock'[i] \in {lock[i], Free, Orphan}
  PROVE  TypeInv'
<1>1. TypeOK'
  BY DEF TypeInv, TypeOK, Finish, Steps
<1>2. LocalsOK'
  BY DEF TypeInv, TypeOK, LocalsOK, Finish, InSection
<1>3. Creating' \subseteq Creating
  BY DEF Creating, Finish, TypeInv, TypeOK
<1>4. HoldersInside'
  BY LockValues DEF TypeInv, TypeOK, HoldersInside, Finish
<1> QED
  BY <1>1, <1>2, <1>3, <1>4, CountKept DEF TypeInv

\* A request that arrives keeps the type invariant.
LEMMA BeginType ==
  ASSUME TypeInv, NEW r \in Slots, NEW q \in Requests, Begin(r, q)
  PROVE  TypeInv'
<1> USE DEF TypeInv
<1> DEFINE named == q.op \in {"kick", "change", "start", "reenter"}
                    \/ (q.op \in {"join", "seat"} /\ q.room_id # 0)
<1>1. named => q.room_id \in RoomIds
  BY RequestFields
<1>2. TypeOK'
  BY <1>1 DEF TypeOK, Begin, Goto, Steps
<1>3. LocalsOK'
  BY <1>1, RequestFields DEF TypeOK, LocalsOK, Begin, Goto, InSection
<1>4. IdsSuffice'
  <2>1. IsFiniteSet(Creating) /\ Cardinality(Creating) \in Nat
    BY SlotsFinite, FS_Subset, FS_CardinalityType DEF Creating
  <2>2. CASE q.op = "create"
    <3>1. Creating' = Creating \cup {r}
      BY <2>2 DEF Creating, Begin, Goto, TypeOK
    <3>2. Cardinality(Creating') <= Cardinality(Creating) + 1
          /\ Cardinality(Creating') \in Nat
      <4>1. IsFiniteSet(Creating') /\ Cardinality(Creating') \in Nat
        BY <2>1, <3>1, FS_AddElement, FS_CardinalityType
      <4>2. Cardinality(Creating \cup {r})
              = IF r \in Creating THEN Cardinality(Creating) ELSE Cardinality(Creating) + 1
        BY <2>1, FS_AddElement
      <4> QED
        BY <2>1, <3>1, <4>1, <4>2
    <3>3. MaxRooms - seq - Cardinality(Creating) > 0 /\ seq' = seq
      BY <2>2 DEF Begin, IdsLeft
    <3> QED
      BY <2>1, <3>2, <3>3, MaxRoomsNat DEF IdsSuffice, TypeOK
  <2>3. CASE q.op # "create"
    <3>1. Creating' \subseteq Creating
      BY <2>3 DEF Creating, Begin, Goto, TypeOK
    <3> QED
      BY <3>1, CountKept DEF Begin
  <2> QED
    BY <2>2, <2>3
<1>5. HoldersInside'
  BY DEF TypeOK, HoldersInside, Begin, Goto, InSection
<1> QED
  BY <1>2, <1>3, <1>4, <1>5

\* The INCR of a create keeps it: its id is within the bound Begin reserved.
LEMMA IncrType ==
  ASSUME TypeInv, NEW r \in Slots, Incr(r)
  PROVE  TypeInv'
<1> USE DEF TypeInv
<1>1. req[r] \in Requests /\ req[r].op = "create"
  BY DEF LocalsOK, Incr
<1>2. Created(req[r].who, req[r].size, req[r].code) \in RoomRec
  BY <1>1, RequestFields, CreatedSound DEF Sound
<1>3. IsFiniteSet(Creating) /\ Cardinality(Creating) \in Nat
  BY SlotsFinite, FS_Subset, FS_CardinalityType DEF Creating
<1>4. r \in Creating /\ Creating' = Creating \ {r}
  BY <1>1 DEF Creating, Incr, Goto, TypeOK
<1>5. Cardinality(Creating') = Cardinality(Creating) - 1 /\ Cardinality(Creating') \in Nat
  BY <1>3, <1>4, FS_RemoveElement, FS_CardinalityType
<1>6. IdsSuffice' /\ seq + 1 \in RoomIds
  BY <1>3, <1>5, MaxRoomsNat DEF IdsSuffice, Incr, TypeOK, RoomIds
<1>7. TypeOK'
  BY <1>2, <1>6, MaxRoomsNat DEF TypeOK, Incr, Goto, Steps, RoomIds
<1>8. LocalsOK'
  BY <1>1, <1>2, <1>6 DEF TypeOK, LocalsOK, Incr, Goto, InSection
<1>9. HoldersInside'
  BY <1>1 DEF TypeOK, HoldersInside, Incr, Goto, InSection
<1> QED
  BY <1>6, <1>7, <1>8, <1>9

\* Every Redis command of an operation keeps it.
LEMMA WorkType ==
  ASSUME TypeInv, NEW r \in Slots, Work(r)
  PROVE  TypeInv'
<1> USE DEF TypeInv
<1>1. ASSUME TypeOK', LocalsOK', Creating' \subseteq Creating, seq' = seq,
             HoldersInside'
      PROVE  TypeInv'
  BY <1>1, CountKept
<1>2. ASSUME Finish(r), UNCHANGED <<store, lock>>, pc[r] \notin InSection
      PROVE  TypeInv'
  <2>1. \A i \in RoomIds : lock[i] # r
    BY <1>2 DEF HoldersInside
  <2> QED
    BY <1>2, <2>1, FinishType DEF store, TypeOK
<1>3. CASE LookupCreate(r)
  <2>1. CASE Goto(r, "incr") /\ UNCHANGED <<req, id, copy, todo, store, lock>>
    <3>1. TypeOK'
      BY <2>1 DEF TypeOK, Goto, Steps, store
    <3>2. LocalsOK'
      BY <1>3, <2>1 DEF TypeOK, LocalsOK, LookupCreate, Goto, InSection, store
    <3>3. Creating' \subseteq Creating
      BY <1>3, <2>1 DEF LookupCreate, Creating, Goto, TypeOK
    <3>4. HoldersInside'
      BY <1>3, <2>1 DEF TypeOK, HoldersInside, LookupCreate, Goto, InSection, store
    <3> QED
      BY <1>1, <3>4, <2>1, <3>1, <3>2, <3>3 DEF store
  <2> QED
    BY <1>2, <1>3, <2>1 DEF LookupCreate, InSection
<1>4. CASE LookupCode(r)
  <2>1. CASE \E i \in RoomIds : /\ id' = [id EXCEPT ![r] = i] /\ Goto(r, "lock")
                                /\ UNCHANGED <<req, copy, todo, store, lock>>
    <3>1. TypeOK'
      BY <2>1 DEF TypeOK, Goto, Steps, store
    <3>2. LocalsOK'
      BY <1>4, <2>1 DEF TypeOK, LocalsOK, LookupCode, Goto, InSection, store
    <3>3. Creating' \subseteq Creating
      BY <1>4, <2>1 DEF LookupCode, Creating, Goto, TypeOK
    <3>4. HoldersInside'
      BY <1>4, <2>1 DEF TypeOK, HoldersInside, LookupCode, Goto, InSection, store
    <3> QED
      BY <1>1, <3>4, <2>1, <3>1, <3>2, <3>3 DEF store
  <2> QED
    BY <1>2, <1>4, <2>1 DEF LookupCode, InSection
<1>5. CASE LookupIndex(r)
  <2>0. req[r] \in Requests /\ req[r].who \in Accounts
    BY <1>5, RequestFields DEF LookupIndex, LocalsOK
  <2>1. CASE /\ index[req[r].who] # 0 /\ id' = [id EXCEPT ![r] = index[req[r].who]]
             /\ Goto(r, "lock") /\ UNCHANGED <<req, copy, todo, store, lock>>
    <3>0. index[req[r].who] \in RoomIds
      BY <2>0, <2>1 DEF TypeOK
    <3>1. TypeOK'
      BY <2>1, <3>0 DEF TypeOK, Goto, Steps, store
    <3>2. LocalsOK'
      BY <1>5, <2>1, <3>0 DEF TypeOK, LocalsOK, LookupIndex, Goto, InSection, store
    <3>3. Creating' \subseteq Creating
      BY <1>5, <2>1 DEF LookupIndex, Creating, Goto, TypeOK
    <3>4. HoldersInside'
      BY <1>5, <2>1 DEF TypeOK, HoldersInside, LookupIndex, Goto, InSection, store
    <3> QED
      BY <1>1, <3>4, <2>1, <3>1, <3>2, <3>3 DEF store
  <2> QED
    BY <1>2, <1>5, <2>1 DEF LookupIndex, InSection
<1>6. CASE Incr(r)
  BY <1>6, IncrType
<1>7. CASE Acquire(r)
  <2>1. TypeOK'
    BY <1>7 DEF TypeOK, Acquire, Goto, Steps, store
  <2>2. LocalsOK'
    BY <1>7 DEF TypeOK, LocalsOK, Acquire, Goto, InSection, store
  <2>3. Creating' \subseteq Creating
    BY <1>7 DEF Acquire, Creating, Goto, TypeOK
  <2>5. HoldersInside'
    BY <1>7, LockValues DEF TypeOK, LocalsOK, HoldersInside, Acquire, Goto, InSection, store
  <2> QED
    BY <1>1, <2>5, <1>7, <2>1, <2>2, <2>3 DEF Acquire, store
<1>8. CASE GiveUp(r)
  BY <1>2, <1>8 DEF GiveUp, InSection
<1>9. CASE Release(r)
  <2>1. Freed(r) \in [RoomIds -> Slots \cup {Free, Orphan}]
    BY DEF Freed, TypeOK
  <2>2. \A i \in RoomIds : Freed(r)[i] # r /\ Freed(r)[i] \in {lock[i], Free}
    BY LockValues DEF Freed, TypeOK, HoldersInside
  <2> QED
    BY <1>9, <2>1, <2>2, FinishType DEF Release, store, TypeOK
<1>10. CASE Load(r)
  <2>0. id[r] \in RoomIds /\ req[r] \in Requests /\ req[r].op \notin {"create", "leave"}
    BY <1>10 DEF Load, LocalsOK, InSection
  <2>1. Accepts(rooms[id[r]], req[r]) => Effect(rooms[id[r]], req[r]) \in RoomRec
    BY <2>0, AcceptsRecord, EffectType DEF TypeOK
  <2>2. TypeOK'
    BY <1>10, <2>1 DEF TypeOK, Load, Goto, Steps, store
  <2>3. LocalsOK'
    BY <1>10, <2>0, <2>1 DEF TypeOK, LocalsOK, Load, Goto, InSection, store
  <2>4. Creating' \subseteq Creating
    BY <1>10 DEF Load, Creating, Goto, TypeOK
  <2>5. HoldersInside'
    BY <1>10 DEF TypeOK, LocalsOK, HoldersInside, Load, Goto, InSection, store
  <2> QED
    BY <1>1, <2>5, <1>10, <2>2, <2>3, <2>4 DEF Load, store
<1>11. CASE LoadLeave(r)
  <2>0. id[r] \in RoomIds
    BY <1>11 DEF LoadLeave, LocalsOK, InSection
  <2>1. TypeOK'
    BY <1>11, <2>0 DEF TypeOK, LoadLeave, Goto, Steps, store
  <2>2. LocalsOK'
    BY <1>11 DEF TypeOK, LocalsOK, LoadLeave, Goto, InSection, store
  <2>3. Creating' \subseteq Creating
    BY <1>11 DEF LoadLeave, Creating, Goto, TypeOK
  <2>5. HoldersInside'
    BY <1>11 DEF TypeOK, LocalsOK, HoldersInside, LoadLeave, Goto, InSection, store
  <2> QED
    BY <1>1, <2>5, <1>11, <2>1, <2>2, <2>3 DEF LoadLeave, store
<1>12. CASE Unindex(r)
  <2>0. req[r] \in Requests /\ req[r].op = "leave" /\ req[r].who \in Accounts
    BY <1>12, RequestFields DEF Unindex, LocalsOK
  <2>1. copy[r] # NoRoom => copy[r] \in RoomRec /\ Without(copy[r], req[r].who) \in RoomRec
    BY DEF TypeOK, Without, RoomRec
  <2>2. TypeOK'
    BY <1>12, <2>0, <2>1 DEF TypeOK, Unindex, Unindexed, Goto, Steps
  <2>3. LocalsOK'
    BY <1>12, <2>0, <2>1 DEF TypeOK, LocalsOK, Unindex, Goto, InSection
  <2>4. Creating' \subseteq Creating
    BY <1>12 DEF Unindex, Creating, Goto, TypeOK
  <2>5. HoldersInside'
    BY <1>12 DEF TypeOK, LocalsOK, HoldersInside, Unindex, Goto, InSection, store
  <2> QED
    BY <1>1, <2>5, <1>12, <2>2, <2>3, <2>4 DEF Unindex
<1>13. CASE Delete(r)
  <2>0. AccountsIn(copy[r]) \subseteq Accounts
    BY <1>13 DEF Delete, LocalsOK, AccountsIn, RoomRec, MemberRec
  <2>1. TypeOK'
    BY <1>13, <2>0 DEF TypeOK, Delete, Goto, Steps
  <2>2. LocalsOK'
    BY <1>13 DEF TypeOK, LocalsOK, Delete, Goto, InSection
  <2>3. Creating' \subseteq Creating
    BY <1>13 DEF Delete, Creating, Goto, TypeOK
  <2>5. HoldersInside'
    BY <1>13 DEF TypeOK, LocalsOK, HoldersInside, Delete, Goto, InSection, store
  <2> QED
    BY <1>1, <2>5, <1>13, <2>1, <2>2, <2>3 DEF Delete
<1>14. CASE Drop(r)
  <2>1. TypeOK'
    BY <1>14 DEF TypeOK, Drop, Unindexed, Goto, Steps
  <2>2. LocalsOK'
    BY <1>14 DEF TypeOK, LocalsOK, Drop, Goto, InSection
  <2>3. Creating' \subseteq Creating
    BY <1>14 DEF Drop, Creating, Goto, TypeOK
  <2>5. HoldersInside'
    BY <1>14 DEF TypeOK, LocalsOK, HoldersInside, Drop, Goto, InSection, store
  <2> QED
    BY <1>1, <2>5, <1>14, <2>1, <2>2, <2>3 DEF Drop
<1>15. CASE Save(r)
  <2>1. TypeOK'
    BY <1>15 DEF TypeOK, Save, Goto, Steps
  <2>2. LocalsOK'
    BY <1>15 DEF TypeOK, LocalsOK, Save, Goto, InSection
  <2>3. Creating' \subseteq Creating
    BY <1>15 DEF Save, Creating, Goto, TypeOK
  <2>5. HoldersInside'
    BY <1>15 DEF TypeOK, LocalsOK, HoldersInside, Save, Goto, InSection, store
  <2> QED
    BY <1>1, <2>5, <1>15, <2>1, <2>2, <2>3 DEF Save
<1>16. CASE Index(r)
  <2>0. /\ req[r] \in Requests /\ req[r].op \in {"create", "join", "kick"}
        /\ req[r].who \in Accounts /\ id[r] \in RoomIds
        /\ req[r].op = "kick" => req[r].target \in Accounts
    BY <1>16, RequestFields DEF Index, LocalsOK, InSection
  <2>1. index' \in [Accounts -> {0} \cup RoomIds]
    BY <1>16, <2>0 DEF TypeOK, Index, Unindexed
  <2>2. CASE req[r].op = "create"
    <3>1. \A i \in RoomIds : lock[i] # r
      BY <2>2 DEF HoldersInside
    <3> QED
      BY <1>16, <2>1, <2>2, <3>1, FinishType DEF Index, TypeOK
  <2>3. CASE req[r].op # "create"
    <3>1. TypeOK'
      BY <1>16, <2>1, <2>3 DEF TypeOK, Index, Goto, Steps
    <3>2. LocalsOK'
      BY <1>16, <2>3 DEF TypeOK, LocalsOK, Index, Goto, InSection
    <3>3. Creating' \subseteq Creating
      BY <1>16, <2>3 DEF Index, Creating, Goto, TypeOK
    <3>4. HoldersInside'
      BY <1>16, <2>3 DEF TypeOK, HoldersInside, Index, Goto, InSection, store
    <3> QED
      BY <1>1, <3>4, <1>16, <3>1, <3>2, <3>3 DEF Index
  <2> QED
    BY <2>2, <2>3
<1> QED
  BY <1>3, <1>4, <1>5, <1>6, <1>7, <1>8, <1>9, <1>10, <1>11, <1>12, <1>13, <1>14,
     <1>15, <1>16 DEF Work

\* Crashes, failing commands and ending leases keep it.
LEMMA FaultType ==
  ASSUME TypeInv, NEW r \in Slots, Crash(r) \/ Reject(r)
  PROVE  TypeInv'
<1> USE DEF TypeInv
<1>1. CASE Crash(r)
  <2>1. lock' \in [RoomIds -> Slots \cup {Free, Orphan}]
    BY <1>1 DEF Crash, TypeOK
  <2>2. \A i \in RoomIds : lock'[i] # r /\ lock'[i] \in {lock[i], Orphan}
    BY <1>1, LockValues DEF Crash
  <2> QED
    BY <1>1, <2>1, <2>2, FinishType DEF Crash, store, TypeOK
<1>2. CASE Reject(r) /\ ~Holds(r) /\ Finish(r)
  <2>1. \A i \in RoomIds : lock[i] # r
    BY <1>2 DEF Holds, HoldersInside, RoomIds
  <2> QED
    BY <1>2, <2>1, FinishType DEF Reject, store, TypeOK
<1>3. CASE Reject(r) /\ Holds(r) /\ Goto(r, "release") /\ UNCHANGED <<req, id, copy, todo>>
  <2>0. id[r] \in RoomIds /\ req[r].op # "create" /\ pc[r] \in InSection
    BY <1>3 DEF Holds, HoldersInside, TypeOK
  <2>1. TypeOK'
    BY <1>3 DEF TypeOK, Reject, Goto, Steps, store
  <2>2. Creating' \subseteq Creating
    BY <1>3 DEF Reject, Creating, Goto, TypeOK
  <2>3. LocalsOK'
    BY <1>3, <2>0 DEF TypeOK, LocalsOK, Reject, Goto, InSection, store
  <2>4. HoldersInside'
    BY <1>3, <2>0 DEF TypeOK, HoldersInside, Reject, Goto, InSection, store
  <2> QED
    BY <1>3, <2>1, <2>2, <2>3, <2>4, CountKept DEF Reject, store
<1> QED
  BY <1>1, <1>2, <1>3 DEF Reject

\* The types, with what a request in flight holds at each of its commands, are inductive.
LEMMA Typed == Spec => []TypeInv
<1>1. Init => TypeInv
  <2> SUFFICES ASSUME Init PROVE TypeInv
    OBVIOUS
  <2>1. TypeOK
    BY MaxRoomsNat DEF Init, TypeOK, Steps
  <2>2. LocalsOK
    BY DEF Init, LocalsOK, InSection
  <2>3. HoldersInside
    BY LockValues DEF Init, HoldersInside
  <2>4. Creating = {}
    BY DEF Init, Creating
  <2>5. IdsSuffice
    BY <2>4, FS_EmptySet, MaxRoomsNat DEF Init, IdsSuffice
  <2> QED
    BY <2>1, <2>2, <2>3, <2>5 DEF TypeInv
<1>2. TypeInv /\ [Next]_vars => TypeInv'
  <2> SUFFICES ASSUME TypeInv, [Next]_vars PROVE TypeInv'
    OBVIOUS
  <2>1. ASSUME NEW i \in RoomIds, LeaseExpires(i) PROVE TypeInv'
    <3>1. TypeOK'
      BY <2>1 DEF TypeInv, TypeOK, LeaseExpires, store, locals
    <3>2. LocalsOK'
      BY <2>1 DEF TypeInv, LocalsOK, LeaseExpires, store, locals
    <3>3. HoldersInside'
      BY <2>1, LockValues DEF TypeInv, TypeOK, HoldersInside, LeaseExpires, store, locals
    <3>4. Creating' \subseteq Creating /\ seq' = seq
      BY <2>1 DEF Creating, LeaseExpires, store, locals
    <3> QED
      BY <3>1, <3>2, <3>3, <3>4, CountKept DEF TypeInv
  <2>2. CASE UNCHANGED vars
    BY <2>2 DEF vars, TypeInv, TypeOK, LocalsOK, HoldersInside, IdsSuffice, Creating
  <2> QED
    BY <2>1, <2>2, BeginType, WorkType, FaultType DEF Next
<1> QED
  BY <1>1, <1>2, PTL DEF Spec

\* The types of the store, of the locks and of the requests in flight hold in every
\* reachable state, crashes, rejected commands and expired leases included.
THEOREM TypeCorrect == Spec => []TypeOK
<1>1. TypeInv => TypeOK
  BY DEF TypeInv
<1> QED
  BY <1>1, Typed, PTL

--------------------------------------------------------------------------------
(* The locked section, while no lease runs out under its holder. *)

SafeInv == TypeInv /\ LockOwned /\ CopyCurrent /\ IdsFresh

\* Nobody but its holder frees or takes the lock of a section that is running.
LEMMA LockOwnedStep ==
  ASSUME ~SlowHolders, TypeInv, LockOwned, [Next]_vars
  PROVE  LockOwned'
<1> USE DEF TypeInv, LockOwned, InSection
<1>1. ASSUME NEW r \in Slots, NEW q \in Requests, Begin(r, q) PROVE LockOwned'
  BY <1>1 DEF TypeOK, Begin, Goto
<1>2. ASSUME NEW r \in Slots, Finish(r), \A i \in RoomIds : lock[i] # r => lock'[i] = lock[i]
      PROVE  LockOwned'
  BY <1>2 DEF TypeOK, LocalsOK, Finish
<1>3. ASSUME NEW r \in Slots, Work(r) PROVE LockOwned'
  <2>1. CASE LookupCreate(r)
    BY <1>2, <2>1 DEF LookupCreate, TypeOK, Goto, store
  <2>2. CASE LookupCode(r)
    BY <1>2, <2>2 DEF LookupCode, TypeOK, Goto, store
  <2>3. CASE LookupIndex(r)
    BY <1>2, <2>3 DEF LookupIndex, TypeOK, Goto, store
  <2>4. CASE Incr(r)
    BY <2>4 DEF Incr, TypeOK, LocalsOK, Goto
  <2>5. CASE Acquire(r)
    BY <2>5, LockValues DEF Acquire, Takeable, TypeOK, LocalsOK, Goto, store
  <2>6. CASE GiveUp(r)
    BY <1>2, <2>6 DEF GiveUp
  <2>7. CASE Release(r)
    <3>1. \A i \in RoomIds : lock[i] # r => Freed(r)[i] = lock[i]
      BY <2>7 DEF Freed, TypeOK, LocalsOK
    <3> QED
      BY <1>2, <2>7, <3>1 DEF Release
  <2>8. CASE Load(r)
    BY <2>8 DEF Load, TypeOK, Goto, store
  <2>9. CASE LoadLeave(r)
    BY <2>9 DEF LoadLeave, TypeOK, Goto, store
  <2>10. CASE Unindex(r)
    BY <2>10 DEF Unindex, TypeOK, Goto
  <2>11. CASE Delete(r)
    BY <2>11 DEF Delete, TypeOK, Goto
  <2>12. CASE Drop(r)
    BY <2>12 DEF Drop, TypeOK, Goto
  <2>13. CASE Save(r)
    BY <2>13 DEF Save, TypeOK, Goto
  <2>14. CASE Index(r)
    BY <1>2, <2>14 DEF Index, TypeOK, Goto
  <2> QED
    BY <1>3, <2>1, <2>2, <2>3, <2>4, <2>5, <2>6, <2>7, <2>8, <2>9, <2>10, <2>11,
       <2>12, <2>13, <2>14 DEF Work
<1>4. ASSUME NEW r \in Slots, Crash(r) \/ Reject(r) PROVE LockOwned'
  <2>1. CASE Crash(r)
    BY <1>2, <2>1 DEF Crash
  <2>2. CASE Reject(r)
    BY <1>2, <2>2 DEF Reject, Holds, TypeOK, Goto, store
  <2> QED
    BY <1>4, <2>1, <2>2
<1>5. ASSUME NEW i \in RoomIds, LeaseExpires(i) PROVE LockOwned'
  <2>1. lock[i] = Orphan
    BY <1>5 DEF LeaseExpires
  <2> QED
    BY <1>5, <2>1, LockValues DEF LeaseExpires, TypeOK, LocalsOK, store, locals
<1>6. CASE UNCHANGED vars
  BY <1>6 DEF vars
<1> QED
  BY <1>1, <1>3, <1>4, <1>5, <1>6 DEF Next

\* A slot whose locals and whose record are untouched keeps its copy.
LEMMA CopyFrame ==
  ASSUME NEW t \in Slots, CopyOK(t), pc'[t] = pc[t], req'[t] = req[t], id'[t] = id[t],
         copy'[t] = copy[t], rooms'[id[t]] = rooms[id[t]]
  PROVE  CopyOK(t)'
BY DEF CopyOK, Outcome

\* A request that writes its record disturbs the copy of no other request: the
\* others in the section are in other rooms, and a create has an id of its own.
LEMMA WriteApart ==
  ASSUME SafeInv, NEW r \in Slots, NEW t \in Slots \ {r}, pc[r] \in {"save", "delete"},
         \/ pc[t] \in {"save", "delete"}
         \/ pc[t] = "unindex" /\ copy[t] # NoRoom
  PROVE  id[t] # id[r]
<1> USE DEF SafeInv, TypeInv
<1> SUFFICES ASSUME id[t] = id[r] PROVE FALSE
  OBVIOUS
<1>1. req[r] \in Requests /\ req[t] \in Requests /\ id[r] \in RoomIds
  BY DEF LocalsOK, InSection
<1>2. req[r].op = "create" \/ req[t].op = "create"
  BY <1>1 DEF LockOwned, InSection
<1>3. \A u \in {r, t} : req[u].op = "create" /\ pc[u] \in {"save", "delete", "unindex"} =>
                           pc[u] = "save" /\ rooms[id[r]] = NoRoom
  BY DEF LocalsOK, CopyCurrent, CopyOK, Outcome
<1>4. \A u \in {r, t} :
         req[u].op # "create"
         /\ (pc[u] \in {"save", "delete"} \/ (pc[u] = "unindex" /\ copy[u] # NoRoom)) =>
           rooms[id[r]] # NoRoom
  BY <1>1, AcceptsRecord DEF CopyCurrent, CopyOK, Outcome
<1>5. req[r].op = "create" /\ req[t].op = "create"
  BY <1>2, <1>3, <1>4
<1> QED
  BY <1>3, <1>5 DEF IdsFresh

\* A step of request r leaves the locals of the other requests alone.
OthersKept(r) ==
  \A t \in Slots \ {r} :
    pc'[t] = pc[t] /\ req'[t] = req[t] /\ id'[t] = id[t] /\ copy'[t] = copy[t]

\* A command of one request leaves the locals of every other request alone.
LEMMA StepsOfOne ==
  ASSUME TypeOK, NEW r \in Slots,
         \/ \E q \in Requests : Begin(r, q)
         \/ Work(r) \/ Crash(r) \/ Reject(r)
  PROVE  /\ OthersKept(r)
         /\ pc[r] \notin {"save", "delete"} => rooms' = rooms
<1> USE DEF OthersKept, TypeOK
<1>1. CASE \E q \in Requests : Begin(r, q)
  BY <1>1 DEF Begin, Goto
<1>2. CASE LookupCreate(r) \/ LookupCode(r) \/ LookupIndex(r)
  BY <1>2 DEF LookupCreate, LookupCode, LookupIndex, Finish, Goto, store
<1>3. CASE Incr(r) \/ Acquire(r) \/ GiveUp(r) \/ Release(r)
  BY <1>3 DEF Incr, Acquire, GiveUp, Release, Finish, Goto, store
<1>4. CASE Load(r) \/ LoadLeave(r)
  BY <1>4 DEF Load, LoadLeave, Goto, store
<1>5. CASE Unindex(r)
  BY <1>5 DEF Unindex, Goto
<1>6. CASE Delete(r) \/ Drop(r) \/ Save(r)
  BY <1>6 DEF Delete, Drop, Save, Goto
<1>7. CASE Index(r)
  BY <1>7 DEF Index, Finish, Goto
<1>8. CASE Crash(r) \/ Reject(r)
  BY <1>8 DEF Crash, Reject, Finish, Goto, store
<1> QED
  BY <1>1, <1>2, <1>3, <1>4, <1>5, <1>6, <1>7, <1>8 DEF Work

\* The private copy stays what the rule makes of the stored record: nobody else
\* writes that record while the lock is held.
LEMMA CopyStep ==
  ASSUME SafeInv, [Next]_vars
  PROVE  CopyCurrent'
<1> USE DEF SafeInv, TypeInv
<1>1. ASSUME NEW r \in Slots, OthersKept(r), rooms' = rooms, CopyOK(r)'
      PROVE  CopyCurrent'
  BY <1>1, CopyFrame DEF OthersKept, CopyCurrent
<1>2. ASSUME NEW r \in Slots, pc[r] \notin {"save", "delete"}, OthersKept(r), rooms' = rooms,
             pc'[r] \notin {"unindex", "delete", "save"}
      PROVE  CopyCurrent'
  <2>1. CopyOK(r)'
    BY <1>2 DEF CopyOK
  <2> QED
    BY <1>1, <1>2, <2>1
<1>3. ASSUME NEW r \in Slots, NEW q \in Requests, Begin(r, q) PROVE CopyCurrent'
  <2>1. pc'[r] \in {"lock", "lookup"} /\ pc[r] = "idle"
    BY <1>3 DEF Begin, Goto, TypeOK
  <2> QED
    BY <1>2, <1>3, <2>1, StepsOfOne
<1>4. ASSUME NEW r \in Slots, Work(r) \/ Crash(r) \/ Reject(r) PROVE CopyCurrent'
  <2>0. OthersKept(r) /\ (pc[r] \notin {"save", "delete"} => rooms' = rooms)
    BY <1>4, StepsOfOne
  <2>1. CASE LookupCreate(r) \/ LookupCode(r) \/ LookupIndex(r) \/ Acquire(r) \/ GiveUp(r)
    <3>1. pc'[r] \in {"idle", "incr", "lock", "load"} /\ pc[r] \in {"lookup", "lock"}
      BY <2>1 DEF LookupCreate, LookupCode, LookupIndex, Acquire, GiveUp, Finish, Goto,
                  TypeOK
    <3> QED
      BY <1>2, <2>0, <3>1
  <2>2. CASE Release(r) \/ Drop(r) \/ Index(r)
    <3>1. pc'[r] \in {"idle", "drop", "release"} /\ pc[r] \in {"release", "drop", "index"}
      BY <2>2 DEF Release, Drop, Index, Finish, Goto, TypeOK
    <3> QED
      BY <1>2, <2>0, <3>1
  <2>3. CASE Incr(r)
    <3>1. seq + 1 \in RoomIds
      BY <2>3, IncrType DEF TypeOK, Incr, Goto, LocalsOK, InSection
    <3>2. rooms[seq + 1] = NoRoom
      BY <3>1 DEF IdsFresh, TypeOK
    <3>3. /\ pc'[r] = "save" /\ id'[r] = seq + 1 /\ req'[r] = req[r] /\ rooms' = rooms
          /\ copy'[r] = Created(req[r].who, req[r].size, req[r].code)
          /\ req[r].op = "create"
      BY <2>3 DEF Incr, Goto, TypeOK, LocalsOK
    <3>4. CopyOK(r)'
      BY <3>2, <3>3 DEF CopyOK, Outcome
    <3> QED
      BY <1>1, <2>0, <3>3, <3>4
  <2>4. CASE Load(r)
    <3>1. req[r].op \notin {"create", "leave"}
      BY <2>4 DEF Load, LocalsOK
    <3>2. /\ rooms' = rooms /\ id'[r] = id[r] /\ req'[r] = req[r]
          /\ \/ pc'[r] = "release"
             \/ /\ pc'[r] = "save" /\ Accepts(rooms[id[r]], req[r])
                /\ copy'[r] = Effect(rooms[id[r]], req[r])
      BY <2>4 DEF Load, Goto, TypeOK, store
    <3>3. CopyOK(r)'
      BY <3>1, <3>2 DEF CopyOK, Outcome
    <3> QED
      BY <1>1, <2>0, <3>2, <3>3
  <2>5. CASE LoadLeave(r)
    <3>1. CopyOK(r)' /\ rooms' = rooms
      BY <2>5 DEF CopyOK, LoadLeave, Goto, TypeOK, store
    <3> QED
      BY <1>1, <2>0, <3>1
  <2>6. CASE Unindex(r)
    <3>1. req[r].op = "leave" /\ (copy[r] # NoRoom => copy[r] = rooms[id[r]])
      BY <2>6 DEF Unindex, LocalsOK, CopyCurrent, CopyOK
    <3>2. /\ rooms' = rooms /\ id'[r] = id[r] /\ req'[r] = req[r]
          /\ \/ pc'[r] = "release"
             \/ /\ pc'[r] = "delete" /\ copy[r] # NoRoom /\ copy'[r] = copy[r]
                /\ Dismisses(copy[r], req[r].who)
             \/ /\ pc'[r] = "save" /\ copy[r] # NoRoom
                /\ ~Dismisses(copy[r], req[r].who)
                /\ copy'[r] = Without(copy[r], req[r].who)
      BY <2>6 DEF Unindex, Goto, TypeOK
    <3>3. CopyOK(r)'
      BY <3>1, <3>2 DEF CopyOK, Outcome
    <3> QED
      BY <1>1, <2>0, <3>2, <3>3
  <2>7. CASE Delete(r) \/ Save(r)
    <3>1. /\ pc[r] \in {"save", "delete"} /\ pc'[r] \in {"drop", "index", "release"}
          /\ \A i \in RoomIds \ {id[r]} : rooms'[i] = rooms[i]
      BY <2>7 DEF Delete, Save, Goto, TypeOK
    <3>2. CopyOK(r)'
      BY <3>1 DEF CopyOK
    <3>3. ASSUME NEW t \in Slots \ {r} PROVE CopyOK(t)'
      <4>1. CASE \/ pc[t] \in {"save", "delete"}
                 \/ pc[t] = "unindex" /\ copy[t] # NoRoom
        <5>1. id[t] # id[r] /\ id[t] \in RoomIds
          BY <3>1, <4>1, WriteApart DEF LocalsOK, InSection
        <5> QED
          BY <2>0, <3>1, <3>3, <5>1, CopyFrame DEF OthersKept, CopyCurrent
      <4>2. CASE ~(\/ pc[t] \in {"save", "delete"}
                   \/ pc[t] = "unindex" /\ copy[t] # NoRoom)
        BY <2>0, <4>2 DEF OthersKept, CopyOK
      <4> QED
        BY <4>1, <4>2
    <3> QED
      BY <3>2, <3>3 DEF CopyCurrent
  <2>8. CASE Crash(r) \/ Reject(r)
    <3>1. pc'[r] \in {"idle", "release"} /\ rooms' = rooms
      BY <2>8 DEF Crash, Reject, Finish, Goto, TypeOK, store
    <3>2. CopyOK(r)'
      BY <3>1 DEF CopyOK
    <3> QED
      BY <1>1, <2>0, <3>1, <3>2
  <2> QED
    BY <1>4, <2>1, <2>2, <2>3, <2>4, <2>5, <2>6, <2>7, <2>8 DEF Work
<1>5. CASE (\E i \in RoomIds : LeaseExpires(i)) \/ UNCHANGED vars
  <2>1. UNCHANGED <<rooms, pc, req, id, copy>>
    BY <1>5 DEF LeaseExpires, vars, store, locals
  <2> QED
    BY <2>1, CopyFrame DEF CopyCurrent
<1> QED
  BY <1>3, <1>4, <1>5 DEF Next

\* INCR never hands an id out twice, so a create writes to an absent record.
LEMMA FreshStep ==
  ASSUME SafeInv, [Next]_vars
  PROVE  IdsFresh'
<1> USE DEF SafeInv, TypeInv, IdsFresh
<1>1. ASSUME NEW r \in Slots, OthersKept(r), seq' = seq, rooms' = rooms,
             ~(pc'[r] = "save" /\ req'[r].op = "create")
      PROVE  IdsFresh'
  BY <1>1 DEF OthersKept
<1>2. ASSUME NEW r \in Slots, NEW q \in Requests, Begin(r, q) PROVE IdsFresh'
  <2>1. pc'[r] # "save" /\ seq' = seq /\ rooms' = rooms /\ OthersKept(r)
    BY <1>2, StepsOfOne DEF Begin, Goto, TypeOK
  <2> QED
    BY <1>1, <2>1
<1>3. ASSUME NEW r \in Slots, Work(r) \/ Crash(r) \/ Reject(r) PROVE IdsFresh'
  <2>0. OthersKept(r) /\ (pc[r] \notin {"save", "delete"} => rooms' = rooms)
    BY <1>3, StepsOfOne
  <2>1. CASE LookupCreate(r) \/ LookupCode(r) \/ LookupIndex(r) \/ Acquire(r) \/ GiveUp(r)
             \/ Release(r) \/ LoadLeave(r)
    BY <1>1, <2>0, <2>1 DEF LookupCreate, LookupCode, LookupIndex, Acquire, GiveUp,
                            Release, LoadLeave, Finish, Goto, TypeOK, store
  <2>2. CASE Load(r) \/ Unindex(r) \/ Drop(r) \/ Index(r)
    <3>1. req[r].op # "create" \/ pc'[r] # "save"
      BY <2>2 DEF Load, Unindex, Drop, Index, LocalsOK, Finish, Goto, TypeOK
    <3>2. /\ seq' = seq /\ pc[r] \notin {"save", "delete"}
          /\ pc'[r] = "save" => req'[r] = req[r]
      BY <2>2 DEF Load, Unindex, Drop, Index, Finish, Goto, TypeOK, store
    <3> QED
      BY <1>1, <2>0, <3>1, <3>2
  <2>3. CASE Incr(r)
    <3>1. /\ seq \in Nat /\ seq' = seq + 1 /\ rooms' = rooms
          /\ id'[r] = seq + 1 /\ \A t \in Slots \ {r} : id'[t] = id[t]
      BY <2>0, <2>3, MaxRoomsNat DEF Incr, TypeOK, OthersKept
    <3>2. \A i \in RoomIds : i > seq' => rooms'[i] = NoRoom
      BY <3>1, MaxRoomsNat DEF RoomIds
    <3>3. \A t \in Slots \ {r} :
            pc'[t] = "save" /\ req'[t].op = "create" =>
              id'[t] <= seq /\ id'[t] \in Nat
      BY <2>0, <3>1, MaxRoomsNat DEF OthersKept, TypeOK, RoomIds
    <3>4. \A t, u \in Slots \ {r} :
            pc'[t] = "save" /\ req'[t].op = "create" /\ pc'[u] = "save"
            /\ req'[u].op = "create" /\ t # u => id'[t] # id'[u]
      BY <2>0 DEF OthersKept
    <3>5. \A t \in Slots \ {r} :
            pc'[t] = "save" /\ req'[t].op = "create" => id'[t] # id'[r] /\ id'[t] <= seq'
      BY <3>1, <3>3
    <3>6. id'[r] <= seq'
      BY <3>1
    <3> QED
      BY <3>2, <3>4, <3>5, <3>6
  <2>4. CASE Delete(r)
    BY <2>0, <2>4 DEF Delete, Goto, TypeOK, OthersKept
  <2>5. CASE Save(r)
    <3>1. id[r] \in RoomIds /\ req[r] \in Requests
      BY <2>5 DEF Save, LocalsOK, InSection
    <3>2. Outcome(rooms[id[r]], req[r], copy[r])
      BY <2>5 DEF Save, CopyCurrent, CopyOK
    <3>3. req[r].op # "create" => rooms[id[r]] # NoRoom
      BY <3>1, <3>2, AcceptsRecord DEF Outcome
    <3>4. id[r] <= seq
      BY <2>5, <3>1, <3>3 DEF Save, TypeOK, RoomIds
    <3>5. \A i \in RoomIds : i > seq' => rooms'[i] = NoRoom
      BY <2>5, <3>1, <3>4 DEF Save, TypeOK, RoomIds
    <3> QED
      BY <2>0, <2>5, <3>5 DEF Save, Goto, TypeOK, OthersKept
  <2>6. CASE Crash(r) \/ Reject(r)
    BY <1>1, <2>0, <2>6 DEF Crash, Reject, Finish, Goto, TypeOK, store
  <2> QED
    BY <1>3, <2>1, <2>2, <2>3, <2>4, <2>5, <2>6 DEF Work
<1>4. CASE (\E i \in RoomIds : LeaseExpires(i)) \/ UNCHANGED vars
  BY <1>4 DEF LeaseExpires, vars, store, locals
<1> QED
  BY <1>2, <1>3, <1>4 DEF Next

\* While leases outlive the sections they guard, a request in the locked section of
\* a room owns the room's lock, and what it is about to write is the outcome of its
\* rule on the record as stored at that moment: no update is lost.
THEOREM SectionsSafe ==
  ASSUME ~SlowHolders
  PROVE  Spec => []SafeInv
<1>1. Init => LockOwned /\ CopyCurrent /\ IdsFresh
  BY DEF Init, LockOwned, CopyCurrent, CopyOK, IdsFresh, InSection
<1>2. TypeInv /\ TypeInv' /\ LockOwned /\ CopyCurrent /\ IdsFresh /\ [Next]_vars =>
        LockOwned' /\ CopyCurrent' /\ IdsFresh'
  BY LockOwnedStep, CopyStep, FreshStep DEF SafeInv
<1> QED
  BY <1>1, <1>2, Typed, PTL DEF Spec, SafeInv

--------------------------------------------------------------------------------
(* Consequences for the stored records. *)

\* The rules keep a record sound, whatever the request.
LEMMA OutcomeSound ==
  ASSUME NEW room, room # NoRoom => Sound(room), NEW q \in Requests, NEW new,
         Outcome(room, q, new)
  PROVE  Sound(new)
<1> USE RequestFields
<1>1. CASE q.op = "create"
  BY <1>1, CreatedSound DEF Outcome
<1>2. CASE q.op = "leave"
  <2>1. Sound(room) /\ room.owner # q.who /\ new = Without(room, q.who)
    BY <1>2 DEF Outcome, Dismisses
  <2> QED
    BY <2>1, WithoutSound
<1>3. CASE q.op \notin {"create", "leave"}
  <2>0. Accepts(room, q) /\ new = Effect(room, q)
    BY <1>3 DEF Outcome
  <2>1. Sound(room)
    BY <1>3, <2>0, AcceptsRecord
  <2>2. CASE q.op = "join"
    BY <2>0, <2>1, <2>2, JoinedSound DEF Accepts, Effect
  <2>3. CASE q.op = "kick"
    <3>1. room.owner # q.target /\ new = Without(room, q.target)
      BY <2>0, <2>3 DEF Accepts, Effect, MayKick
    <3> QED
      BY <2>1, <3>1, WithoutSound
  <2>4. CASE q.op = "change"
    BY <2>0, <2>1, <2>4, ChangedSound DEF Effect
  <2>5. CASE q.op = "ready"
    BY <2>0, <2>1, <2>5 DEF Effect
  <2>6. CASE q.op = "seat"
    <3>1. MaySwitchSeat(room, q.who, q.team, q.seat)
          /\ new = Seated(room, q.who, q.team, q.seat)
      BY <2>0, <2>6 DEF Accepts, Effect
    <3> QED
      BY <2>1, <2>6, <3>1, SeatedSound
  <2>7. CASE q.op = "start" \/ q.op = "reenter"
    BY <2>0, <2>1, <2>7, StateSound DEF Effect
  <2> QED
    BY <1>3, <2>2, <2>3, <2>4, <2>5, <2>6, <2>7
<1> QED
  BY <1>1, <1>2, <1>3

\* A step changes at most one record, and then it is the last command of a rule
\* applied to that record as it stands.
LEMMA RecordStep ==
  ASSUME SafeInv, [Next]_vars, rooms' # rooms
  PROVE  \E r \in Slots :
           /\ id[r] \in RoomIds /\ req[r] \in Requests
           /\ rooms' = [rooms EXCEPT ![id[r]] = IF pc[r] = "save" THEN copy[r] ELSE NoRoom]
           /\ \/ pc[r] = "save" /\ Outcome(rooms[id[r]], req[r], copy[r])
              \/ /\ pc[r] = "delete" /\ req[r].op = "leave"
                 /\ rooms[id[r]] # NoRoom /\ Dismisses(rooms[id[r]], req[r].who)
<1> USE DEF SafeInv, TypeInv
<1>1. ~(\E i \in RoomIds : LeaseExpires(i)) /\ ~UNCHANGED vars
  BY DEF LeaseExpires, vars, store
<1>2. PICK r \in Slots : \/ \E q \in Requests : Begin(r, q)
                         \/ Work(r) \/ Crash(r) \/ Reject(r)
  BY <1>1 DEF Next
<1>3. pc[r] \in {"save", "delete"}
  BY <1>2, StepsOfOne
<1>4. Save(r) \/ Delete(r)
  BY <1>2, <1>3 DEF Begin, Work, Crash, Reject, LookupCreate, LookupCode, LookupIndex,
       Incr, Acquire, GiveUp, Release, Load, LoadLeave, Unindex, Drop, Index, store
<1>5. id[r] \in RoomIds /\ req[r] \in Requests /\ (pc[r] = "delete" => req[r].op = "leave")
  BY <1>3 DEF LocalsOK, InSection
<1>6. rooms' = [rooms EXCEPT ![id[r]] = IF pc[r] = "save" THEN copy[r] ELSE NoRoom]
  BY <1>4 DEF Save, Delete
<1>7. \/ pc[r] = "save" /\ Outcome(rooms[id[r]], req[r], copy[r])
      \/ /\ pc[r] = "delete"
         /\ rooms[id[r]] # NoRoom /\ Dismisses(rooms[id[r]], req[r].who)
  BY <1>3 DEF CopyCurrent, CopyOK
<1> QED
  BY <1>5, <1>6, <1>7

AllSound == \A i \in RoomIds : rooms[i] # NoRoom => Sound(rooms[i])

\* Every stored record is sound.
LEMMA RecordsSound ==
  ASSUME ~SlowHolders
  PROVE  Spec => []AllSound
<1>1. Init => AllSound
  BY DEF Init, AllSound
<1>2. SafeInv /\ AllSound /\ [Next]_vars => AllSound'
  <2> SUFFICES ASSUME SafeInv, AllSound, [Next]_vars, rooms' # rooms PROVE AllSound'
    BY DEF AllSound
  <2>1. PICK r \in Slots :
           /\ id[r] \in RoomIds /\ req[r] \in Requests
           /\ rooms' = [rooms EXCEPT ![id[r]] = IF pc[r] = "save" THEN copy[r] ELSE NoRoom]
           /\ \/ pc[r] = "save" /\ Outcome(rooms[id[r]], req[r], copy[r])
              \/ pc[r] = "delete"
    BY RecordStep
  <2>2. pc[r] = "save" => Sound(copy[r])
    BY <2>1, OutcomeSound DEF AllSound
  <2> QED
    BY <2>1, <2>2 DEF AllSound, SafeInv, TypeInv, TypeOK
<1> QED
  BY <1>1, <1>2, SectionsSafe, PTL DEF Spec

\* For every mix of requests in flight, crashes and failed commands included, no
\* stored room lists an account twice, seats two members in one place or loses its
\* owner.
THEOREM SeatingHolds ==
  ASSUME ~SlowHolders
  PROVE  Spec => []Seating
<1>1. AllSound => Seating
  BY DEF AllSound, Seating, Sound
<1> QED
  BY <1>1, RecordsSound, PTL

\* What a rule makes of a record lists somebody new only if the rule is a join, which
\* then found the room WAITING and not full.
LEMMA GrowthIsJoin ==
  ASSUME NEW room, Sound(room), NEW q \in Requests, NEW new, Outcome(room, q, new),
         room # NoRoom, ~(AccountsIn(new) \subseteq AccountsIn(room))
  PROVE  room.state = "WAITING" /\ Cardinality(new.members) <= room.max_member_num
<1> USE RequestFields
<1>0. room \in RoomRec /\ IsFiniteSet(room.members)
  BY DEF Sound
<1>1. q.op # "create"
  BY DEF Outcome
<1>2. \A a : AccountsIn(Without(room, a)) \subseteq AccountsIn(room)
  BY <1>0 DEF Without, AccountsIn, RoomRec
<1>3. q.op \notin {"leave", "create"} /\ Accepts(room, q) /\ new = Effect(room, q)
  BY <1>1, <1>2 DEF Outcome
<1>4. q.op # "kick" /\ q.op # "ready"
  BY <1>2, <1>3 DEF Effect
<1>5. q.op \notin {"change", "start", "reenter"}
  <2>1. /\ AccountsIn(Changed(room, q.size)) = AccountsIn(room)
        /\ AccountsIn(Started(room)) = AccountsIn(room)
        /\ AccountsIn(Reopened(room)) = AccountsIn(room)
    BY <1>0 DEF Changed, Started, Reopened, AccountsIn, RoomRec
  <2> QED
    BY <1>3, <2>1 DEF Effect
<1>6. q.op # "seat"
  <2> SUFFICES ASSUME q.op = "seat" PROVE FALSE
    OBVIOUS
  <2>1. q.who \in AccountsIn(room) /\ new = Seated(room, q.who, q.team, q.seat)
    BY <1>3 DEF Accepts, Effect, MaySwitchSeat
  <2>2. AccountsIn(new) \subseteq AccountsIn(room) \cup {q.who}
    BY <1>0, <2>1 DEF Seated, AccountsIn, RoomRec, memberFromAccount
  <2> QED
    BY <2>1, <2>2
<1>7. q.op = "join"
  BY <1>3, <1>4, <1>5, <1>6
<1>8. MayJoin(room, q.who, q.code) /\ new = Joined(room, q.who)
  BY <1>3, <1>7 DEF Accepts, Effect
<1>9. PICK m : new.members = room.members \cup {m}
  BY <1>0, <1>8 DEF Joined, RoomRec
<1>10. /\ Cardinality(room.members) \in Nat
       /\ Cardinality(new.members) = IF m \in room.members THEN Cardinality(room.members)
                                     ELSE Cardinality(room.members) + 1
  <2>1. Cardinality(room.members \cup {m}) =
          IF m \in room.members THEN Cardinality(room.members)
          ELSE Cardinality(room.members) + 1
    BY <1>0, FS_AddElement
  <2> QED
    BY <1>0, <1>9, <2>1, FS_CardinalityType
<1>11. room.max_member_num \in Nat /\ Cardinality(room.members) < room.max_member_num
  BY <1>0, <1>8, SizesPositive DEF MayJoin, RoomRec
<1> QED
  BY <1>8, <1>10, <1>11 DEF MayJoin

\* For every number of requests in flight and every room size: a member list grows only
\* while the room is WAITING, and never beyond max_member_num.
THEOREM AdmissionHolds ==
  ASSUME ~SlowHolders
  PROVE  Spec => AdmissionRule
<1> DEFINE Rule == \A i \in RoomIds :
             rooms[i] # NoRoom /\ rooms'[i] # NoRoom
               /\ ~(AccountsIn(rooms'[i]) \subseteq AccountsIn(rooms[i])) =>
                 /\ rooms[i].state = "WAITING"
                 /\ Cardinality(rooms'[i].members) <= rooms[i].max_member_num
<1>1. SafeInv /\ AllSound /\ [Next]_vars => [Rule]_vars
  <2> SUFFICES ASSUME SafeInv, AllSound, [Next]_vars, NEW i \in RoomIds,
                      rooms[i] # NoRoom, rooms'[i] # NoRoom,
                      ~(AccountsIn(rooms'[i]) \subseteq AccountsIn(rooms[i]))
               PROVE  /\ rooms[i].state = "WAITING"
                      /\ Cardinality(rooms'[i].members) <= rooms[i].max_member_num
    OBVIOUS
  <2>1. PICK r \in Slots :
           /\ id[r] \in RoomIds /\ req[r] \in Requests
           /\ rooms' = [rooms EXCEPT ![id[r]] = IF pc[r] = "save" THEN copy[r] ELSE NoRoom]
           /\ \/ pc[r] = "save" /\ Outcome(rooms[id[r]], req[r], copy[r])
              \/ pc[r] = "delete"
    BY RecordStep
  <2>2. id[r] = i /\ pc[r] = "save" /\ rooms'[i] = copy[r]
    BY <2>1 DEF SafeInv, TypeInv, TypeOK
  <2>3. Outcome(rooms[i], req[r], rooms'[i]) /\ Sound(rooms[i])
    BY <2>1, <2>2 DEF AllSound
  <2> QED
    BY <2>1, <2>3, GrowthIsJoin
<1> QED
  BY <1>1, SectionsSafe, RecordsSound, PTL DEF Spec, AdmissionRule

\* A dismissed room stays dismissed: only the create that drew an id brings its
\* record into being.
THEOREM NoRoomRises ==
  ASSUME ~SlowHolders
  PROVE  Spec => NoResurrection
<1> DEFINE Rule == \A i \in RoomIds :
             rooms[i] = NoRoom /\ rooms'[i] # NoRoom =>
               \E r \in Slots : pc[r] = "save" /\ id[r] = i /\ req[r].op = "create"
<1>1. SafeInv /\ [Next]_vars => [Rule]_vars
  <2> SUFFICES ASSUME SafeInv, [Next]_vars, NEW i \in RoomIds, rooms[i] = NoRoom,
                      rooms'[i] # NoRoom
               PROVE  \E r \in Slots : pc[r] = "save" /\ id[r] = i /\ req[r].op = "create"
    OBVIOUS
  <2>1. PICK r \in Slots :
           /\ id[r] \in RoomIds /\ req[r] \in Requests
           /\ rooms' = [rooms EXCEPT ![id[r]] = IF pc[r] = "save" THEN copy[r] ELSE NoRoom]
           /\ \/ pc[r] = "save" /\ Outcome(rooms[id[r]], req[r], copy[r])
              \/ pc[r] = "delete"
    BY RecordStep
  <2>2. id[r] = i /\ pc[r] = "save"
    BY <2>1 DEF SafeInv, TypeInv, TypeOK
  <2>3. req[r].op = "create"
    BY <2>1, <2>2, AcceptsRecord DEF Outcome
  <2> QED
    BY <2>2, <2>3
<1> QED
  BY <1>1, SectionsSafe, PTL DEF Spec, NoResurrection

--------------------------------------------------------------------------------
(* The index. *)

\* A rule other than create keeps the owner, and everybody but whom it writes off.
LEMMA OutcomeKeeps ==
  ASSUME NEW room, Sound(room), room # NoRoom, NEW q \in Requests, NEW new,
         Outcome(room, q, new)
  PROVE  /\ new.owner = room.owner
         /\ \A a \in AccountsIn(room) :
              \/ a \in AccountsIn(new)
              \/ q.op = "leave" /\ a = q.who
              \/ q.op = "kick" /\ a = q.target
<1> USE RequestFields
<1>0. room \in RoomRec
  BY DEF Sound
<1>1. \A b : /\ Without(room, b).owner = room.owner
             /\ \A a \in AccountsIn(room) \ {b} : a \in AccountsIn(Without(room, b))
  BY <1>0 DEF Without, AccountsIn, RoomRec
<1>2. CASE q.op = "leave"
  BY <1>1, <1>2 DEF Outcome
<1>3. CASE q.op \notin {"leave", "create"}
  <2>0. new = Effect(room, q)
    BY <1>3 DEF Outcome
  <2>1. CASE q.op = "kick"
    BY <1>1, <2>0, <2>1 DEF Effect
  <2>2. CASE q.op = "join"
    <3>1. new.owner = room.owner /\ room.members \subseteq new.members
      BY <1>0, <2>0, <2>2 DEF Effect, Joined, RoomRec
    <3> QED
      BY <3>1 DEF AccountsIn
  <2>3. CASE q.op = "seat"
    <3>1. new = Seated(room, q.who, q.team, q.seat)
      BY <2>0, <2>3 DEF Effect
    <3>2. new.owner = room.owner
          /\ new.members = {m \in room.members : m.account_id # q.who}
                             \cup {memberFromAccount(q.who, q.team, q.seat)}
      BY <1>0, <3>1 DEF Seated, RoomRec
    <3>3. memberFromAccount(q.who, q.team, q.seat).account_id = q.who
      BY DEF memberFromAccount
    <3> QED
      BY <3>2, <3>3 DEF AccountsIn
  <2>4. CASE q.op \in {"ready", "change", "start", "reenter"}
    <3>1. new.owner = room.owner /\ new.members = room.members
      BY <1>0, <2>0, <2>4 DEF Effect, Changed, Started, Reopened, RoomRec
    <3> QED
      BY <3>1 DEF AccountsIn
  <2> QED
    BY <1>3, <2>1, <2>2, <2>3, <2>4
<1> QED
  BY <1>2, <1>3 DEF Outcome

\* Entries are only removed, but for the one a create or a join writes.
LEMMA IndexStep ==
  ASSUME TypeInv, NEW r \in Slots, (\E q \in Requests : Begin(r, q)) \/ Work(r)
  PROVE  /\ \A a \in Accounts :
              \/ index'[a] \in {index[a], 0}
              \/ /\ pc[r] = "index" /\ req[r].op \in {"create", "join"}
                 /\ a = req[r].who /\ index'[a] = id[r]
         /\ pc[r] = "index" /\ req[r].op = "kick" => index'[req[r].target] = 0
         /\ seq' = seq \/ Incr(r)
<1> USE DEF TypeInv, TypeOK
<1>1. CASE (\E q \in Requests : Begin(r, q)) \/ LookupCreate(r) \/ LookupCode(r) \/ LookupIndex(r)
  BY <1>1 DEF Begin, LookupCreate, LookupCode, LookupIndex, store
<1>2. CASE Incr(r) \/ Acquire(r) \/ GiveUp(r) \/ Release(r) \/ Load(r) \/ LoadLeave(r)
           \/ Delete(r) \/ Save(r)
  BY <1>2 DEF Incr, Acquire, GiveUp, Release, Load, LoadLeave, Delete, Save, store
<1>3. CASE Unindex(r) \/ Drop(r)
  BY <1>3 DEF Unindex, Drop, Unindexed
<1>4. CASE Index(r)
  <2>1. req[r] \in Requests /\ req[r].op \in {"create", "join", "kick"}
    BY <1>4 DEF Index, LocalsOK
  <2> QED
    BY <1>4, <2>1, RequestFields DEF Index, Unindexed
<1> QED
  BY <1>1, <1>2, <1>3, <1>4 DEF Work

\* How a request comes to the commands that IndexFresh and IndexBacked speak of.
LEMMA Arrivals ==
  ASSUME TypeInv, NEW r \in Slots, (\E q \in Requests : Begin(r, q)) \/ Work(r)
  PROVE  /\ pc'[r] = "index" =>
              pc[r] = "save" /\ Save(r) /\ req'[r] = req[r] /\ id'[r] = id[r]
         /\ pc'[r] = "save" /\ req'[r].op = "create" =>
              Incr(r) /\ req'[r] = req[r] /\ id'[r] = seq + 1
         /\ pc'[r] = "save" /\ req'[r].op = "leave" =>
              Unindex(r) /\ req'[r] = req[r] /\ id'[r] = id[r]
<1> USE DEF TypeInv, TypeOK
<1>1. CASE (\E q \in Requests : Begin(r, q)) \/ LookupCreate(r) \/ LookupCode(r) \/ LookupIndex(r)
  BY <1>1 DEF Begin, LookupCreate, LookupCode, LookupIndex, Finish, Goto
<1>2. CASE Acquire(r) \/ GiveUp(r) \/ Release(r) \/ LoadLeave(r) \/ Delete(r) \/ Drop(r)
           \/ Index(r)
  BY <1>2 DEF Acquire, GiveUp, Release, LoadLeave, Delete, Drop, Index, Finish, Goto
<1>3. CASE Load(r)
  BY <1>3 DEF Load, Goto, LocalsOK
<1>4. CASE Unindex(r)
  BY <1>4 DEF Unindex, Goto, LocalsOK
<1>5. CASE Save(r)
  BY <1>5 DEF Save, Goto
<1>6. CASE Incr(r)
  BY <1>6 DEF Incr, Goto, LocalsOK
<1> QED
  BY <1>1, <1>2, <1>3, <1>4, <1>5, <1>6 DEF Work

\* A join about to write its entry shares the room with no writer.
LEMMA JoinAlone ==
  ASSUME SafeInv, NEW r \in Slots, NEW t \in Slots \ {r}, IndexBacked(t),
         pc[t] = "index", req[t].op = "join", pc[r] \in {"save", "delete"}
  PROVE  id[t] # id[r]
<1> USE DEF SafeInv, TypeInv
<1>1. req[r].op = "create" => rooms[id[r]] = NoRoom
  BY DEF CopyCurrent, CopyOK, Outcome, LocalsOK
<1>2. req[r].op # "create" => lock[id[r]] = r /\ lock[id[t]] = t
  BY DEF LockOwned, InSection
<1> QED
  BY <1>1, <1>2 DEF IndexBacked

\* The id of a room that a request writes to, or indexes, has been drawn.
LEMMA DrawnIds ==
  ASSUME SafeInv, IndexInv, NEW r \in Slots,
         \/ pc[r] = "index" /\ req[r].op \in {"create", "join"}
         \/ pc[r] = "save" /\ req[r].op = "create"
  PROVE  id[r] <= seq /\ id[r] \in RoomIds
<1> USE DEF SafeInv, TypeInv
<1>1. id[r] \in RoomIds
  BY DEF LocalsOK, InSection
<1>2. CASE pc[r] = "index" /\ req[r].op = "join"
  BY <1>1, <1>2, MaxRoomsNat DEF IndexInv, IndexBacked, IdsFresh, TypeOK, RoomIds
<1> QED
  BY <1>1, <1>2 DEF IndexInv, IndexFresh, IdsFresh

\* A step of one request keeps fresh ids out of the index.
LEMMA IndexFreshStep ==
  ASSUME SafeInv, IndexInv, NEW r \in Slots, (\E q \in Requests : Begin(r, q)) \/ Work(r)
  PROVE  IndexFresh'
<1> USE DEF SafeInv, TypeInv, IndexInv
<1>0. OthersKept(r)
  BY StepsOfOne
<1>1. seq \in Nat /\ seq' \in Nat /\ seq <= seq' /\ (Incr(r) => seq' = seq + 1 /\ index' = index)
  BY IndexStep, MaxRoomsNat DEF TypeOK, Incr
<1>2. \A a \in Accounts : index[a] \in Nat /\ index'[a] \in Nat /\ index'[a] <= seq
  <2> TAKE a \in Accounts
  <2>1. index[a] \in Nat /\ index[a] <= seq
    BY MaxRoomsNat DEF IndexFresh, TypeOK, RoomIds
  <2>2. CASE index'[a] \in {index[a], 0}
    BY <1>1, <2>1, <2>2
  <2>3. CASE pc[r] = "index" /\ req[r].op \in {"create", "join"} /\ index'[a] = id[r]
    BY <2>1, <2>3, DrawnIds, MaxRoomsNat DEF RoomIds
  <2> QED
    BY <2>2, <2>3, IndexStep
<1>3. ASSUME NEW t \in Slots, pc'[t] = "index", req'[t].op = "create"
      PROVE  id'[t] <= seq /\ id'[t] \in Nat
  <2>1. CASE t = r
    BY <1>3, <2>1, Arrivals, DrawnIds, MaxRoomsNat DEF RoomIds
  <2>2. CASE t # r
    BY <1>0, <1>3, <2>2, DrawnIds, MaxRoomsNat DEF OthersKept, RoomIds
  <2> QED
    BY <2>1, <2>2
<1>4. ASSUME NEW u \in Slots, pc'[u] = "save", req'[u].op = "create"
      PROVE  /\ \A a \in Accounts : index'[a] # id'[u]
             /\ \A t \in Slots : pc'[t] = "index" /\ req'[t].op = "create" => id'[t] # id'[u]
  <2>1. CASE u = r
    <3>1. id'[u] = seq + 1
      BY <1>4, <2>1, Arrivals
    <3> QED
      BY <1>1, <1>2, <1>3, <3>1
  <2>2. CASE u # r
    <3>0. pc[u] = "save" /\ req[u].op = "create" /\ id'[u] = id[u]
      BY <1>0, <1>4, <2>2 DEF OthersKept
    <3>1. id[u] \in RoomIds /\ rooms[id[u]] = NoRoom
      BY <3>0 DEF LocalsOK, InSection, CopyCurrent, CopyOK, Outcome
    <3>2. pc[r] = "index" /\ req[r].op \in {"create", "join"} => id[r] # id[u]
      BY <3>0, <3>1 DEF IndexFresh, IndexBacked
    <3>3. \A a \in Accounts : index[a] # id[u] /\ id[u] # 0
      BY <3>0, <3>1, MaxRoomsNat DEF IndexFresh, RoomIds
    <3>4. \A a \in Accounts : index'[a] # id[u]
      BY <3>2, <3>3, IndexStep
    <3>5. ASSUME NEW t \in Slots, pc'[t] = "index", req'[t].op = "create" PROVE id'[t] # id[u]
      <4>1. CASE t = r
        BY <2>2, <3>0, <3>5, <4>1, Arrivals DEF IdsFresh
      <4>2. CASE t # r
        BY <1>0, <3>0, <3>5, <4>2 DEF OthersKept, IndexFresh
      <4> QED
        BY <4>1, <4>2
    <3> QED
      BY <3>0, <3>4, <3>5
  <2> QED
    BY <2>1, <2>2
<1>5. \A a \in Accounts : index'[a] <= seq'
  BY <1>1, <1>2
<1>6. \A t \in Slots : pc'[t] = "index" /\ req'[t].op = "create" => id'[t] <= seq'
  BY <1>1, <1>3
<1> QED
  BY <1>4, <1>5, <1>6 DEF IndexFresh

\* A step of one request leaves every request about to write the index backed.
LEMMA IndexBackedStep ==
  ASSUME SafeInv, AllSound, IndexInv, NEW r \in Slots,
         (\E q \in Requests : Begin(r, q)) \/ Work(r), NEW t \in Slots
  PROVE  IndexBacked(t)'
<1> USE DEF SafeInv, TypeInv, IndexInv
<1>0. OthersKept(r) /\ (pc[r] \notin {"save", "delete"} => rooms' = rooms)
  BY StepsOfOne
<1>1. CASE t = r
  <2>1. ASSUME pc'[r] = "index", req'[r].op \in {"create", "join"}
        PROVE  /\ rooms'[id'[r]] = copy[r] /\ req'[r] = req[r] /\ req[r] \in Requests
               /\ Outcome(rooms[id[r]], req[r], copy[r]) /\ id[r] \in RoomIds
               /\ copy[r] \in RoomRec
    <3>1. pc[r] = "save" /\ Save(r) /\ req'[r] = req[r] /\ id'[r] = id[r]
      BY <2>1, Arrivals
    <3> QED
      BY <3>1 DEF Save, LocalsOK, InSection, CopyCurrent, CopyOK, TypeOK
  <2>2. pc'[r] = "index" /\ req'[r].op = "create" => rooms'[id'[r]].owner = req'[r].who
    BY <2>1 DEF Outcome, Created
  <2>3. ASSUME pc'[r] = "index", req'[r].op = "join"
        PROVE  rooms'[id'[r]] # NoRoom /\ req'[r].who \in AccountsIn(rooms'[id'[r]])
    <3>1. copy[r] = Joined(rooms[id[r]], req[r].who) /\ rooms[id[r]] # NoRoom
      BY <2>1, <2>3 DEF Outcome, Effect, Accepts, MayJoin
    <3>2. rooms[id[r]] \in RoomRec
      BY <2>1, <2>3, <3>1 DEF TypeOK
    <3>3. \E g, n : memberFromAccount(req[r].who, g, n) \in copy[r].members
      BY <3>1, <3>2 DEF Joined, RoomRec
    <3>4. req[r].who \in AccountsIn(copy[r])
      BY <3>3 DEF AccountsIn, memberFromAccount
    <3> QED
      BY <2>1, <2>3, <3>4, NoRoomIsNoRecord
  <2>4. ASSUME pc'[r] = "save", req'[r].op = "leave" PROVE index'[req'[r].who] # id'[r]
    <3>1. Unindex(r) /\ req'[r] = req[r] /\ id'[r] = id[r]
      BY <2>4, Arrivals
    <3>2. id[r] \in RoomIds /\ req[r].who \in Accounts
      BY <2>4, <3>1, RequestFields DEF Unindex, LocalsOK, InSection
    <3> QED
      BY <3>1, <3>2, MaxRoomsNat DEF Unindex, Unindexed, TypeOK, RoomIds
  <2> QED
    BY <1>1, <2>2, <2>3, <2>4 DEF IndexBacked
<1>2. CASE t # r
  <2>0. pc'[t] = pc[t] /\ req'[t] = req[t] /\ id'[t] = id[t]
    BY <1>0, <1>2 DEF OthersKept
  <2>1. rooms' # rooms => pc[r] \in {"save", "delete"}
    BY <1>0
  <2>2. rooms' # rooms =>
          /\ id[r] \in RoomIds /\ req[r] \in Requests
          /\ rooms' = [rooms EXCEPT ![id[r]] = IF pc[r] = "save" THEN copy[r] ELSE NoRoom]
          /\ pc[r] = "save" => Outcome(rooms[id[r]], req[r], copy[r])
    <3>1. rooms' # rooms => Save(r) \/ Delete(r)
      BY <2>1 DEF Begin, Work, LookupCreate, LookupCode, LookupIndex, Incr, Acquire, GiveUp,
                  Release, Load, LoadLeave, Unindex, Drop, Index, store
    <3> QED
      BY <2>1, <3>1 DEF Save, Delete, LocalsOK, InSection, CopyCurrent, CopyOK
  <2>3. ASSUME pc[t] = "index", req[t].op = "create", rooms'[id[t]] # NoRoom
        PROVE  rooms'[id[t]].owner = req[t].who
    <3>1. CASE rooms'[id[t]] = rooms[id[t]]
      BY <2>3, <3>1 DEF IndexBacked
    <3>2. CASE rooms'[id[t]] # rooms[id[t]]
      <4>1. id[t] \in RoomIds
        BY <2>3 DEF LocalsOK, InSection
      <4>2. /\ id[t] = id[r] /\ pc[r] = "save" /\ rooms'[id[t]] = copy[r]
            /\ Outcome(rooms[id[r]], req[r], copy[r]) /\ req[r] \in Requests
        BY <2>1, <2>2, <2>3, <3>2, <4>1 DEF TypeOK
      <4>3. req[r].op # "create"
        BY <2>3, <4>2 DEF IndexFresh
      <4>4. rooms[id[r]] # NoRoom /\ Sound(rooms[id[r]])
        BY <4>1, <4>2, <4>3, AcceptsRecord DEF Outcome, AllSound
      <4>5. copy[r].owner = rooms[id[r]].owner
        BY <4>2, <4>4, OutcomeKeeps
      <4> QED
        BY <2>3, <4>2, <4>4, <4>5 DEF IndexBacked
    <3> QED
      BY <3>1, <3>2
  <2>4. pc[t] = "index" /\ req[t].op = "join" => rooms'[id[t]] = rooms[id[t]]
    <3>1. pc[t] = "index" /\ req[t].op = "join" /\ rooms' # rooms => id[t] # id[r] /\ id[t] \in RoomIds
      BY <1>2, <2>1, JoinAlone DEF LocalsOK, InSection
    <3> QED
      BY <2>2, <3>1 DEF TypeOK
  <2>5. ASSUME pc[t] = "save", req[t].op = "leave" PROVE index'[req[t].who] # id[t]
    <3>1. id[t] \in RoomIds /\ req[t].who \in Accounts
      BY <2>5, RequestFields DEF LocalsOK, InSection
    <3>2. rooms[id[t]] # NoRoom /\ rooms[id[t]].owner # req[t].who
      BY <2>5 DEF CopyCurrent, CopyOK, Outcome, Dismisses
    <3>3. ~(pc[r] = "index" /\ req[r].op = "join" /\ id[r] = id[t])
      BY <1>2, <2>5, JoinAlone
    <3>4. ~(pc[r] = "index" /\ req[r].op = "create" /\ id[r] = id[t] /\ req[t].who = req[r].who)
      BY <3>2 DEF IndexBacked
    <3>5. index[req[t].who] # id[t] /\ id[t] # 0
      BY <2>5, <3>1, MaxRoomsNat DEF IndexBacked, RoomIds
    <3> QED
      BY <3>1, <3>3, <3>4, <3>5, IndexStep
  <2> QED
    BY <2>0, <2>3, <2>4, <2>5 DEF IndexBacked
<1> QED
  BY <1>1, <1>2

\* A step of one request leaves every entry backed by a member list.
LEMMA IndexSoundStep ==
  ASSUME SafeInv, AllSound, IndexInv, NEW r \in Slots,
         (\E q \in Requests : Begin(r, q)) \/ Work(r)
  PROVE  IndexSound'
<1> USE DEF SafeInv, TypeInv, IndexInv
<1>0. OthersKept(r) /\ (pc[r] \notin {"save", "delete"} => rooms' = rooms)
  BY StepsOfOne
<1> SUFFICES ASSUME NEW a \in Accounts, index'[a] # 0, rooms'[index'[a]] # NoRoom
             PROVE  \/ a \in AccountsIn(rooms'[index'[a]])
                    \/ \E t \in Slots : /\ pc'[t] = "index" /\ id'[t] = index'[a]
                                        /\ req'[t].op = "kick" /\ req'[t].target = a
  BY DEF IndexSound
<1>1. CASE pc[r] = "index" /\ req[r].op \in {"create", "join"}
           /\ a = req[r].who /\ index'[a] = id[r]
  <2>1. rooms' = rooms /\ id[r] \in RoomIds /\ rooms[id[r]] # NoRoom
    BY <1>0, <1>1 DEF LocalsOK, InSection
  <2>2. req[r].op = "create" => a \in AccountsIn(rooms[id[r]])
    BY <1>1, <2>1 DEF IndexBacked, AllSound, Sound, WellSeated, OwnerSeated
  <2>3. req[r].op = "join" => a \in AccountsIn(rooms[id[r]])
    BY <1>1 DEF IndexBacked
  <2> QED
    BY <1>1, <2>1, <2>2, <2>3
<1>2. CASE index'[a] = index[a] /\ rooms'[index[a]] = rooms[index[a]]
  <2>1. CASE a \in AccountsIn(rooms[index[a]])
    BY <1>2, <2>1
  <2>2. CASE \E t \in Slots : /\ pc[t] = "index" /\ id[t] = index[a]
                              /\ req[t].op = "kick" /\ req[t].target = a
    <3>1. PICK t \in Slots : /\ pc[t] = "index" /\ id[t] = index[a]
                             /\ req[t].op = "kick" /\ req[t].target = a
      BY <2>2
    <3>2. t # r
      BY <1>2, <3>1, IndexStep
    <3> QED
      BY <1>0, <1>2, <3>1, <3>2 DEF OthersKept
  <2> QED
    BY <1>2, <2>1, <2>2 DEF IndexSound
<1>3. CASE index'[a] = index[a] /\ rooms'[index[a]] # rooms[index[a]]
  <2>0. index[a] \in RoomIds
    BY <1>3 DEF TypeOK
  <2>1. pc[r] \in {"save", "delete"}
    BY <1>0, <1>3
  <2>2. Save(r) \/ Delete(r)
    BY <2>1 DEF Begin, Work, LookupCreate, LookupCode, LookupIndex, Incr, Acquire, GiveUp,
                Release, Load, LoadLeave, Unindex, Drop, Index
  <2>3. /\ Save(r) /\ pc[r] = "save" /\ index[a] = id[r] /\ rooms'[index[a]] = copy[r]
    BY <1>3, <2>0, <2>2 DEF Save, Delete, TypeOK
  <2>4. req[r] \in Requests /\ Outcome(rooms[id[r]], req[r], copy[r])
    BY <2>3 DEF LocalsOK, CopyCurrent, CopyOK
  <2>5. req[r].op # "create"
    BY <2>3 DEF IndexFresh
  <2>6. rooms[id[r]] # NoRoom /\ Sound(rooms[id[r]])
    BY <2>0, <2>3, <2>4, <2>5, AcceptsRecord DEF Outcome, AllSound
  <2>7. ~\E t \in Slots : pc[t] = "index" /\ id[t] = index[a] /\ req[t].op = "kick"
    BY <2>3, <2>5 DEF LockOwned, InSection
  <2>8. a \in AccountsIn(rooms[id[r]])
    BY <1>3, <2>3, <2>6, <2>7 DEF IndexSound
  <2>9. CASE req[r].op = "kick" /\ a = req[r].target
    BY <1>3, <2>3, <2>9 DEF Save, Goto, TypeOK
  <2>10. ~(req[r].op = "leave" /\ a = req[r].who)
    BY <2>3 DEF IndexBacked
  <2> QED
    BY <1>3, <2>3, <2>4, <2>6, <2>8, <2>9, <2>10, OutcomeKeeps
<1> QED
  BY <1>1, <1>2, <1>3, IndexStep

\* For every number of rooms, accounts and requests in flight, an account that joins a
\* second room included: an index entry that names a stored room is backed by its member
\* list, while no gateway crashes and no command fails.
THEOREM IndexHolds ==
  ASSUME ~SlowHolders, ~Faults
  PROVE  Spec => []IndexSound
<1>1. Init => IndexInv
  BY DEF Init, IndexInv, IndexSound, IndexFresh, IndexBacked
<1>2. SafeInv /\ AllSound /\ IndexInv /\ [Next]_vars => IndexInv'
  <2> SUFFICES ASSUME SafeInv, AllSound, IndexInv, [Next]_vars PROVE IndexInv'
    OBVIOUS
  <2>1. ASSUME NEW r \in Slots, (\E q \in Requests : Begin(r, q)) \/ Work(r) PROVE IndexInv'
    BY <2>1, IndexFreshStep, IndexBackedStep, IndexSoundStep DEF IndexInv
  <2>2. CASE (\E i \in RoomIds : LeaseExpires(i)) \/ UNCHANGED vars
    <3>1. UNCHANGED <<rooms, index, seq, pc, req, id>>
      BY <2>2 DEF LeaseExpires, vars, store, locals
    <3> QED
      BY <3>1 DEF IndexInv, IndexSound, IndexFresh, IndexBacked
  <2> QED
    BY <2>1, <2>2 DEF Next, Crash, Reject
<1>3. IndexInv => IndexSound
  BY DEF IndexInv
<1> QED
  BY <1>1, <1>2, <1>3, SectionsSafe, RecordsSound, PTL DEF Spec

--------------------------------------------------------------------------------
(* The store implements the atomic one. *)

\* The two instances of the rules are the same rules.
LEMMA SameRules ==
  ASSUME NEW room, NEW a, NEW b, NEW c
  PROVE  /\ Atomic!Created(a, b, c) = Created(a, b, c)
         /\ Atomic!MayJoin(room, a, b) = MayJoin(room, a, b)
         /\ Atomic!Joined(room, a) = Joined(room, a)
         /\ Atomic!Dismisses(room, a) = Dismisses(room, a)
         /\ Atomic!Without(room, a) = Without(room, a)
         /\ Atomic!MayKick(room, a, b) = MayKick(room, a, b)
         /\ Atomic!MayChange(room, a) = MayChange(room, a)
         /\ Atomic!Changed(room, a) = Changed(room, a)
         /\ Atomic!MaySwitchSeat(room, a, b, c) = MaySwitchSeat(room, a, b, c)
         /\ Atomic!perTeamCap(room) = perTeamCap(room)
         /\ Atomic!Seated(room, a, b, c) = Seated(room, a, b, c)
         /\ Atomic!MayStart(room, a) = MayStart(room, a)
         /\ Atomic!Started(room) = Started(room)
         /\ Atomic!MayReopen(room) = MayReopen(room)
         /\ Atomic!Reopened(room) = Reopened(room)
         /\ Atomic!Teams = Teams
<1>0. \A S : Atomic!Cardinality(S) = Cardinality(S)
  BY Zenon DEF Atomic!Cardinality, Cardinality
<1>1. Atomic!Teams = Teams /\ Atomic!perTeamCap(room) = perTeamCap(room)
  BY DEF Atomic!Teams, Teams, Atomic!NUM_TEAMS, NUM_TEAMS, Atomic!perTeamCap, perTeamCap
<1>2. Atomic!Created(a, b, c) = Created(a, b, c)
  BY DEF Atomic!Created, Created, Atomic!memberFromAccount, memberFromAccount
<1>3. Atomic!AccountsIn(room) = AccountsIn(room)
  BY DEF Atomic!AccountsIn, AccountsIn
<1>4. Atomic!MayJoin(room, a, b) = MayJoin(room, a, b)
  BY <1>0, <1>3 DEF Atomic!MayJoin, MayJoin
<1>5. \A g : Atomic!TeamOf(room, g) = TeamOf(room, g)
  BY DEF Atomic!TeamOf, TeamOf
<1>6. Atomic!pickTeam(room) = pickTeam(room)
  BY <1>0, <1>5 DEF Atomic!pickTeam, pickTeam
<1>7. \A g : Atomic!freeSeats(room, g) = freeSeats(room, g)
  BY <1>1, <1>5 DEF Atomic!freeSeats, freeSeats
<1>8. \A g : Atomic!freeSeat(room, g) = freeSeat(room, g)
  BY Zenon DEF Atomic!freeSeat, freeSeat, Atomic!freeSeats, freeSeats, Atomic!perTeamCap,
       perTeamCap, Atomic!TeamOf, TeamOf, Atomic!NUM_TEAMS, NUM_TEAMS
<1>9. Atomic!Joined(room, a) = Joined(room, a)
  BY <1>6, <1>8 DEF Atomic!Joined, Joined, Atomic!memberFromAccount, memberFromAccount
<1>10. /\ Atomic!Dismisses(room, a) = Dismisses(room, a)
       /\ Atomic!Without(room, a) = Without(room, a)
       /\ Atomic!Changed(room, a) = Changed(room, a)
       /\ Atomic!Started(room) = Started(room)
       /\ Atomic!Reopened(room) = Reopened(room)
  BY <1>0 DEF Atomic!Dismisses, Dismisses, Atomic!Without, Without, Atomic!Changed, Changed,
         Atomic!Started, Started, Atomic!Reopened, Reopened
<1>11. /\ Atomic!MayKick(room, a, b) = MayKick(room, a, b)
       /\ Atomic!MayChange(room, a) = MayChange(room, a)
       /\ Atomic!MayStart(room, a) = MayStart(room, a)
       /\ Atomic!MayReopen(room) = MayReopen(room)
  BY <1>3 DEF Atomic!MayKick, MayKick, Atomic!MayChange, MayChange, Atomic!MayStart,
              MayStart, Atomic!MayReopen, MayReopen
<1>12. Atomic!MaySwitchSeat(room, a, b, c) = MaySwitchSeat(room, a, b, c)
  BY <1>1, <1>3 DEF Atomic!MaySwitchSeat, MaySwitchSeat
<1>13. Atomic!Seated(room, a, b, c) = Seated(room, a, b, c)
  BY DEF Atomic!Seated, Seated, Atomic!memberFromAccount, memberFromAccount
<1> QED
  BY <1>1, <1>2, <1>4, <1>9, <1>10, <1>11, <1>12, <1>13

\* Writing the outcome of a rule is one operation of the atomic store, or none: a
\* ready flag and a change without a size leave the record as it is.
LEMMA SaveIsAtomic ==
  ASSUME TypeOK, NEW i \in RoomIds, NEW q \in Requests, NEW new,
         Outcome(rooms[i], q, new), rooms' = [rooms EXCEPT ![i] = new]
  PROVE  [Atomic!Next]_rooms
<1> USE RequestFields, SameRules
<1> DEFINE room == rooms[i]
<1>0. Atomic!Put(i, new)
  BY DEF Atomic!Put
<1>1. CASE q.op = "create"
  <2>1. Atomic!Create(i, q.who)
    BY <1>0, <1>1 DEF Outcome, Atomic!Create
  <2> QED
    BY <1>1, <2>1 DEF Atomic!Next
<1>2. CASE q.op = "leave"
  <2>1. Atomic!Leave(i, q.who)
    BY <1>0, <1>2 DEF Outcome, Atomic!Leave
  <2> QED
    BY <1>2, <2>1 DEF Atomic!Next
<1>3. CASE q.op \notin {"create", "leave"}
  <2>0. Accepts(room, q) /\ new = Effect(room, q) /\ room # NoRoom
    BY <1>3, AcceptsRecord DEF Outcome
  <2>1. CASE q.op = "join"
    <3>1. MayJoin(room, q.who, q.code) /\ new = Joined(room, q.who)
      BY <2>0, <2>1 DEF Accepts, Effect
    <3>2. Atomic!Join(i, q.who)
      BY <1>0, <2>1, <3>1 DEF Atomic!Join
    <3> QED
      BY <2>1, <3>2 DEF Atomic!Next
  <2>2. CASE q.op = "kick"
    <3>1. MayKick(room, q.who, q.target) /\ new = Without(room, q.target)
      BY <2>0, <2>2 DEF Accepts, Effect
    <3>2. Atomic!Kick(i, q.who)
      BY <1>0, <2>2, <3>1 DEF Atomic!Kick
    <3> QED
      BY <2>2, <3>2 DEF Atomic!Next
  <2>3. CASE q.op = "change"
    <3>1. MayChange(room, q.who) /\ new = Changed(room, q.size)
      BY <2>0, <2>3 DEF Accepts, Effect
    <3>2. CASE q.size = 0
      BY <3>1, <3>2 DEF Changed, TypeOK
    <3>3. CASE q.size # 0
      <4>1. Atomic!Change(i, q.who)
        BY <1>0, <2>3, <3>1, <3>3 DEF Atomic!Change
      <4> QED
        BY <2>3, <4>1 DEF Atomic!Next
    <3> QED
      BY <3>2, <3>3
  <2>4. CASE q.op = "ready"
    BY <2>0, <2>4 DEF Effect, TypeOK
  <2>5. CASE q.op = "seat"
    <3>1. MaySwitchSeat(room, q.who, q.team, q.seat)
          /\ new = Seated(room, q.who, q.team, q.seat)
      BY <2>0, <2>5 DEF Accepts, Effect
    <3>2. q.team \in Teams /\ q.seat \in 0 .. (perTeamCap(room) - 1)
      BY <3>1 DEF MaySwitchSeat
    <3>3. Atomic!SwitchSeat(i, q.who)
      BY <1>0, <2>0, <3>1, <3>2 DEF Atomic!SwitchSeat
    <3> QED
      BY <2>5, <3>3 DEF Atomic!Next
  <2>6. CASE q.op = "start"
    <3>1. Atomic!Start(i, q.who)
      BY <1>0, <2>0, <2>6 DEF Accepts, Effect, Atomic!Start
    <3> QED
      BY <2>6, <3>1 DEF Atomic!Next
  <2>7. CASE q.op = "reenter"
    <3>1. Atomic!Reopen(i)
      BY <1>0, <2>0, <2>7 DEF Accepts, Effect, Atomic!Reopen
    <3> QED
      BY <3>1 DEF Atomic!Next
  <2> QED
    BY <1>3, <2>1, <2>2, <2>3, <2>4, <2>5, <2>6, <2>7
<1> QED
  BY <1>1, <1>2, <1>3

\* While leases outlive the sections they guard, the chains of Redis commands
\* implement the store in which every operation is one step: "concurrent
\* joins/leaves to the SAME room can't lose an update".
THEOREM RoomsImplementAtomic ==
  ASSUME ~SlowHolders
  PROVE  Spec => Atomicity
<1>1. Init => Atomic!Init
  BY DEF Init, Atomic!Init
<1>2. SafeInv /\ [Next]_vars => [Atomic!Next]_rooms
  <2> SUFFICES ASSUME SafeInv, [Next]_vars, rooms' # rooms PROVE [Atomic!Next]_rooms
    OBVIOUS
  <2>1. PICK r \in Slots :
           /\ id[r] \in RoomIds /\ req[r] \in Requests
           /\ rooms' = [rooms EXCEPT ![id[r]] = IF pc[r] = "save" THEN copy[r] ELSE NoRoom]
           /\ \/ pc[r] = "save" /\ Outcome(rooms[id[r]], req[r], copy[r])
              \/ /\ pc[r] = "delete" /\ req[r].op = "leave"
                 /\ rooms[id[r]] # NoRoom /\ Dismisses(rooms[id[r]], req[r].who)
    BY RecordStep
  <2>2. CASE pc[r] = "save"
    BY <2>1, <2>2, SaveIsAtomic DEF SafeInv, TypeInv
  <2>3. CASE pc[r] = "delete"
    <3>1. rooms' = [rooms EXCEPT ![id[r]] = NoRoom] /\ req[r].who \in Accounts
      BY <2>1, <2>3, RequestFields
    <3>2. Atomic!Leave(id[r], req[r].who)
      BY <2>1, <2>3, <3>1, SameRules DEF Atomic!Leave, Atomic!Put
    <3> QED
      BY <2>1, <3>1, <3>2 DEF Atomic!Next
  <2> QED
    BY <2>1, <2>2, <2>3
<1> QED
  BY <1>1, <1>2, SectionsSafe, PTL DEF Spec, Atomicity, Atomic!Spec
================================================================================
