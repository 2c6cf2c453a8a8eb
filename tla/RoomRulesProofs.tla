---------------------------- MODULE RoomRulesProofs ----------------------------
(***************************************************************************)
(* What the rules of a custom room preserve, for every record and every    *)
(* room size.                                                              *)
(***************************************************************************)
EXTENDS RoomRules, FiniteSetTheorems, WellFoundedInduction, TLAPS

\* A record that keeps the promises of RoomRules and has finitely many members.
Sound(room) == room \in RoomRec /\ IsFiniteSet(room.members) /\ WellSeated(room)

\* The seats of the two teams together are enough for max_member_num members.
LEMMA CapBounds ==
  ASSUME NEW room \in RoomRec
  PROVE  perTeamCap(room) \in Nat \ {0} /\ room.max_member_num <= 2 * perTeamCap(room)
<1>1. room.max_member_num \in Nat \ {0}
  BY SizesPositive DEF RoomRec
<1>2. ASSUME NEW n \in Nat \ {0}
      PROVE  LET h == (n + 2 - 1) \div 2 IN h \in Nat /\ h >= 1 /\ n <= 2 * h
  BY SMT
<1> QED
  BY <1>1, <1>2 DEF perTeamCap, NUM_TEAMS

\* A team that has no seat left (freeSeat answers -1) has at least as many members
\* as a team may have seats: each seat is taken by someone.
LEMMA FullTeam ==
  ASSUME NEW room \in RoomRec, IsFiniteSet(room.members), NEW g \in Teams,
         freeSeats(room, g) = {}
  PROVE  perTeamCap(room) <= Cardinality(TeamOf(room, g))
<1> DEFINE team == TeamOf(room, g)
           f == [m \in team |-> m.seat]
           taken == {m.seat : m \in team}
           cap == perTeamCap(room)
<1>1. IsFiniteSet(team) /\ Cardinality(team) \in Nat
  BY FS_Subset, FS_CardinalityType DEF TeamOf
<1>2. f \in Surjection(team, taken)
  BY DEF Surjection
<1>3. IsFiniteSet(taken) /\ Cardinality(taken) <= Cardinality(team)
  BY <1>1, <1>2, FS_Surjection
<1>4. cap \in Nat \ {0}
  BY CapBounds
<1>5. 0 .. (cap - 1) \subseteq taken
  BY DEF freeSeats
<1>6. Cardinality(0 .. (cap - 1)) = cap
  BY <1>4, FS_Interval
<1>7. Cardinality(0 .. (cap - 1)) <= Cardinality(taken)
  BY <1>3, <1>5, FS_Subset
<1>8. Cardinality(taken) \in Nat
  BY <1>3, FS_CardinalityType
<1> QED
  BY <1>1, <1>3, <1>4, <1>6, <1>7, <1>8

\* While a room has fewer members than max_member_num, the team pickTeam chooses
\* has a free seat: the fallback of join to seat 0 is dead code.
THEOREM JoinFindsSeat ==
  ASSUME NEW room \in RoomRec, IsFiniteSet(room.members),
         Cardinality(room.members) < room.max_member_num
  PROVE  freeSeats(room, pickTeam(room)) # {}
<1> DEFINE one == TeamOf(room, 1)
           two == TeamOf(room, 2)
<1>1. IsFiniteSet(one) /\ IsFiniteSet(two)
  BY FS_Subset DEF TeamOf
<1>2. Cardinality(one) \in Nat /\ Cardinality(two) \in Nat
  BY <1>1, FS_CardinalityType
<1>3. one \cup two = room.members /\ one \cap two = {}
  BY DEF TeamOf, RoomRec, MemberRec, Teams, NUM_TEAMS
<1>4. Cardinality(room.members) = Cardinality(one) + Cardinality(two)
  <2>1. Cardinality(one \cup two)
          = Cardinality(one) + Cardinality(two) - Cardinality(one \cap two)
    BY <1>1, FS_Union
  <2>2. Cardinality(one \cap two) = 0
    BY <1>3, FS_EmptySet
  <2>3. Cardinality(one \cup two) = Cardinality(room.members)
    BY <1>3
  <2> HIDE DEF one, two
  <2> QED
    BY <1>2, <2>1, <2>2, <2>3
<1>5. room.max_member_num \in Nat \ {0}
  BY SizesPositive DEF RoomRec
<1>6. room.max_member_num <= 2 * perTeamCap(room) /\ perTeamCap(room) \in Nat
  BY CapBounds
<1>7. CASE Cardinality(two) < Cardinality(one)
  <2>1. pickTeam(room) = 2
    BY <1>7 DEF pickTeam
  <2>2. Cardinality(two) < perTeamCap(room)
    BY <1>2, <1>4, <1>5, <1>6, <1>7
  <2> QED
    BY <1>2, <1>6, <2>1, <2>2, FullTeam DEF Teams, NUM_TEAMS
<1>8. CASE ~(Cardinality(two) < Cardinality(one))
  <2>1. pickTeam(room) = 1
    BY <1>8 DEF pickTeam
  <2>2. Cardinality(one) < perTeamCap(room)
    BY <1>2, <1>4, <1>5, <1>6, <1>8
  <2> QED
    BY <1>2, <1>6, <2>1, <2>2, FullTeam DEF Teams, NUM_TEAMS
<1> QED
  BY <1>7, <1>8

\* freeSeat answers a free seat whenever there is one.
LEMMA FreeSeatIsFree ==
  ASSUME NEW room \in RoomRec, NEW g \in Teams, freeSeats(room, g) # {}
  PROVE  freeSeat(room, g) \in freeSeats(room, g)
<1> DEFINE F == freeSeats(room, g)
<1>1. F \subseteq Nat
  BY DEF freeSeats
<1>2. \E s \in F : \A t \in F : s <= t
  <2> DEFINE R == OpToRel(<, Nat)
  <2>1. PICK s \in F : \A t \in F : ~(<<t, s>> \in R)
    <3> HIDE DEF R, F
    <3> QED
      BY <1>1, NatLessThanWellFounded, WFMin DEF R, F
  <2>2. \A t \in F : ~(t < s)
    BY <1>1, <2>1 DEF OpToRel
  <2>3. \A t \in F : s <= t
    BY <1>1, <2>2
  <2> QED
    BY <2>3
<1> QED
  BY <1>2 DEF freeSeat

--------------------------------------------------------------------------------
(* Each operation keeps a sound record sound. *)

\* create
LEMMA CreatedSound ==
  ASSUME NEW a \in Accounts, NEW size \in Sizes, NEW code \in Codes \cup {NoCode}
  PROVE  Sound(Created(a, size, code))
<1>1. memberFromAccount(a, 1, 0) \in MemberRec
  BY DEF memberFromAccount, MemberRec, Teams, NUM_TEAMS
<1>2. Created(a, size, code) \in RoomRec
  BY <1>1 DEF Created, RoomRec
<1>3. IsFiniteSet(Created(a, size, code).members)
  BY FS_Singleton DEF Created
<1>4. WellSeated(Created(a, size, code))
  BY DEF WellSeated, OneEntryPerAccount, OneMemberPerSeat, OwnerSeated, AccountsIn,
         Created, memberFromAccount
<1> QED
  BY <1>2, <1>3, <1>4 DEF Sound

\* join: the joiner gets a seat of its own
LEMMA JoinedSound ==
  ASSUME NEW room, Sound(room), NEW a \in Accounts, NEW code, MayJoin(room, a, code)
  PROVE  Sound(Joined(room, a))
<1> DEFINE g == pickTeam(room)
           s == freeSeat(room, g)
           m0 == memberFromAccount(a, g, s)
<1>1. room \in RoomRec /\ IsFiniteSet(room.members) /\ WellSeated(room)
  BY DEF Sound
<1>2. a \notin AccountsIn(room) /\ Cardinality(room.members) < room.max_member_num
  BY DEF MayJoin
<1>3. g \in Teams
  BY DEF pickTeam, Teams, NUM_TEAMS
<1>4. s \in freeSeats(room, g)
  <2>1. freeSeats(room, g) # {}
    BY <1>1, <1>2, JoinFindsSeat
  <2> HIDE DEF g
  <2> QED
    BY <1>1, <1>3, <2>1, FreeSeatIsFree
<1>5. s \in Nat /\ s >= 0 /\ \A m \in room.members : m.group_id = g => m.seat # s
  BY <1>4 DEF freeSeats, TeamOf
<1> HIDE DEF g, s
<1>6. m0 \in MemberRec
  BY <1>3, <1>5 DEF memberFromAccount, MemberRec
<1>7. Joined(room, a) = [room EXCEPT !.members = room.members \cup {m0}]
  BY <1>1, <1>5 DEF Joined, g, s, RoomRec
<1>8. Joined(room, a) \in RoomRec /\ Joined(room, a).members = room.members \cup {m0}
  BY <1>1, <1>6, <1>7 DEF RoomRec
<1>9. Joined(room, a).owner = room.owner
  BY <1>1, <1>7 DEF RoomRec
<1>10. IsFiniteSet(Joined(room, a).members)
  BY <1>1, <1>8, FS_AddElement
<1>11. m0.account_id = a /\ m0.group_id = g /\ m0.seat = s
  BY DEF memberFromAccount
<1> HIDE DEF m0
<1>12. OneEntryPerAccount(Joined(room, a))
  BY <1>1, <1>2, <1>8, <1>11 DEF OneEntryPerAccount, WellSeated, AccountsIn
<1>13. OneMemberPerSeat(Joined(room, a))
  BY <1>1, <1>5, <1>8, <1>11 DEF OneMemberPerSeat, WellSeated
<1>14. OwnerSeated(Joined(room, a))
  BY <1>1, <1>8, <1>9 DEF OwnerSeated, WellSeated, AccountsIn
<1> QED
  BY <1>8, <1>10, <1>12, <1>13, <1>14 DEF Sound, WellSeated

\* leave and kick: whoever goes is not the owner
LEMMA WithoutSound ==
  ASSUME NEW room, Sound(room), NEW a, room.owner # a
  PROVE  Sound(Without(room, a))
<1> DEFINE kept == {m \in room.members : m.account_id # a}
<1>1. room \in RoomRec /\ IsFiniteSet(room.members) /\ WellSeated(room)
  BY DEF Sound
<1>2. /\ Without(room, a) \in RoomRec
      /\ Without(room, a).members = kept
      /\ Without(room, a).owner = room.owner
  BY <1>1 DEF Without, RoomRec
<1>3. IsFiniteSet(kept)
  BY <1>1, FS_Subset
<1>4. WellSeated(Without(room, a))
  BY <1>1, <1>2 DEF WellSeated, OneEntryPerAccount, OneMemberPerSeat, OwnerSeated,
                    AccountsIn
<1> QED
  BY <1>2, <1>3, <1>4 DEF Sound

\* change, start, reenter: the member list is as before
LEMMA SameMembersSound ==
  ASSUME NEW room, Sound(room), NEW new \in RoomRec,
         new.members = room.members, new.owner = room.owner
  PROVE  Sound(new)
BY DEF Sound, WellSeated, OneEntryPerAccount, OneMemberPerSeat, OwnerSeated, AccountsIn

\* change keeps a record well seated, a size below the member count included.
LEMMA ChangedSound ==
  ASSUME NEW room, Sound(room), NEW size \in {0} \cup Sizes
  PROVE  Sound(Changed(room, size))
<1>1. CASE size = 0
  BY <1>1 DEF Changed
<1>2. CASE size # 0
  <2>1. /\ Changed(room, size) \in RoomRec
        /\ Changed(room, size).members = room.members
        /\ Changed(room, size).owner = room.owner
    BY <1>2 DEF Changed, RoomRec, Sound
  <2> QED
    BY <2>1, SameMembersSound
<1> QED
  BY <1>1, <1>2

\* startMatch and reenter leave the members alone.
LEMMA StateSound ==
  ASSUME NEW room, Sound(room)
  PROVE  Sound(Started(room)) /\ Sound(Reopened(room))
<1>1. /\ Started(room) \in RoomRec
      /\ Started(room).members = room.members /\ Started(room).owner = room.owner
  BY DEF Started, RoomRec, Sound
<1>2. /\ Reopened(room) \in RoomRec
      /\ Reopened(room).members = room.members /\ Reopened(room).owner = room.owner
  BY DEF Reopened, RoomRec, Sound
<1> QED
  BY <1>1, <1>2, SameMembersSound

\* switchSeat: the target seat is free, or the mover's own
LEMMA SeatedSound ==
  ASSUME NEW room, Sound(room), NEW a \in Accounts, NEW g, NEW s,
         MaySwitchSeat(room, a, g, s)
  PROVE  Sound(Seated(room, a, g, s))
<1> DEFINE m0 == memberFromAccount(a, g, s)
           kept == {m \in room.members : m.account_id # a}
           new == Seated(room, a, g, s)
<1>1. room \in RoomRec /\ IsFiniteSet(room.members) /\ WellSeated(room)
  BY DEF Sound
<1>2. g \in Teams /\ s \in Nat
  BY DEF MaySwitchSeat
<1>3. \A m \in kept : ~(m.group_id = g /\ m.seat = s)
  BY DEF MaySwitchSeat
<1>4. m0 \in MemberRec
  BY <1>2 DEF memberFromAccount, MemberRec
<1>5. m0.account_id = a /\ m0.group_id = g /\ m0.seat = s
  BY DEF memberFromAccount
<1>6. new = [room EXCEPT !.members = kept \cup {m0}]
  BY <1>1 DEF Seated, RoomRec
<1>7. /\ new \in RoomRec
      /\ new.members = kept \cup {m0}
      /\ new.owner = room.owner
  <2> HIDE DEF new, m0
  <2> QED
    BY <1>1, <1>4, <1>6 DEF RoomRec
<1>8. IsFiniteSet(new.members)
  <2>1. IsFiniteSet(kept)
    BY <1>1, FS_Subset
  <2>2. IsFiniteSet(kept \cup {m0})
    BY <2>1, FS_AddElement
  <2> QED
    BY <1>7, <2>2
<1> HIDE DEF new, m0
<1>9. OneEntryPerAccount(new)
  BY <1>1, <1>5, <1>7 DEF OneEntryPerAccount, WellSeated
<1>10. OneMemberPerSeat(new)
  BY <1>1, <1>3, <1>5, <1>7 DEF OneMemberPerSeat, WellSeated
<1>11. OwnerSeated(new)
  BY <1>1, <1>5, <1>7 DEF OwnerSeated, WellSeated, AccountsIn
<1> QED
  BY <1>7, <1>8, <1>9, <1>10, <1>11 DEF Sound, WellSeated, new
================================================================================
