--------------------------- MODULE MatchmakerProofs ---------------------------
(***************************************************************************)
(* Proofs about the matchmaker, for every number of players, modes,        *)
(* replicas, faults and match sizes.                                       *)
(***************************************************************************)
EXTENDS Matchmaker, FiniteSetTheorems, TLAPS

\* A tick plans queued entries only, each group from one mode.
LEMMA TickPlan ==
  ASSUME TypeOK, NEW r \in Replicas, tick(r)
  PROVE  /\ \A E \in plan'[r] : \E m \in Modes : \A e \in E : e \in queue /\ e.mode = m
         /\ \A E, F \in plan'[r] : \A e \in E, f \in F : e.mode = f.mode => E = F
         /\ \A s \in Replicas \ {r} : plan'[s] = plan[s]
<1>1. plan' = [plan EXCEPT ![r] =
                 {Oldest(Group(m)) : m \in {n \in Modes : Due(Group(n))}}]
  BY DEF tick
<1>2. \A m \in Modes : \A e \in Oldest(Group(m)) : e \in queue /\ e.mode = m
  BY DEF Oldest, Group
<1> QED
  BY <1>1, <1>2 DEF TypeOK

\* One step of any action keeps the inductive invariant.
LEMMA BookStep ==
  ASSUME BookInv, [Next]_vars
  PROVE  BookInv'
<1> USE LeaseValues, BoundsNat DEF BookInv, replica
<1>1. CASE \E p \in Players, m \in Modes : enqueue(p, m)
  <2>1. TypeOK'
    BY <1>1 DEF TypeOK, Entry, Invite, Past, enqueue, Dequeued
  <2>2. Leading'
    BY <1>1 DEF TypeOK, Leading, enqueue, Dequeued
  <2>3. Past'
    <3>1. clock \in Int /\ clock' = clock + 1 /\ UNCHANGED <<plan, batch, invites>>
      BY <1>1 DEF enqueue, TypeOK
    <3>2. \A e \in queue' : e \in queue \/ e.joinedAt = clock + 1
      BY <1>1 DEF enqueue, Dequeued
    <3>3. /\ \A e \in queue : e.joinedAt \in Int
          /\ \A r \in Replicas : \A e \in Planned(r) \cup batch[r] : e.joinedAt \in Int
          /\ \A v \in invites : v.joinedAt \in Int
      BY DEF TypeOK, Entry, Invite, Planned
    <3> QED
      BY <3>1, <3>2, <3>3 DEF Past, Planned
  <2>4. Distinct'
    BY <1>1 DEF TypeOK, Distinct, Planned, Leading, enqueue, Dequeued
  <2>5. Unbooked'
    BY <1>1 DEF TypeOK, Holding, Unbooked, SameTicket, Planned, Leading, Past, Distinct,
      enqueue, Dequeued
  <2>6. OneInviteEach'
    BY <1>1 DEF TypeOK, Holding, OneInviteEach, Unbooked, SameTicket, enqueue, Dequeued
  <2>7. Holding'
    BY <1>1 DEF TypeOK, Holding, Leading, enqueue, Dequeued
  <2> QED
    BY <2>1, <2>2, <2>3, <2>4, <2>5, <2>6, <2>7
<1>2. CASE \E p \in Players : cancel(p) \/ Disconnect(p)
  <2>1. TypeOK'
    BY <1>2 DEF TypeOK, Entry, Invite, Past, cancel, Disconnect, Dequeued
  <2>2. Leading'
    BY <1>2 DEF TypeOK, Leading, cancel, Disconnect, Dequeued
  <2>3. Past'
    BY <1>2 DEF TypeOK, Entry, Past, Planned, Leading, cancel, Disconnect, Dequeued
  <2>4. Distinct'
    BY <1>2 DEF TypeOK, Distinct, Planned, Leading, cancel, Disconnect, Dequeued
  <2>5. Unbooked'
    BY <1>2 DEF TypeOK, Holding, Unbooked, SameTicket, Planned, Leading, Past, Distinct,
      cancel, Disconnect, Dequeued
  <2>6. OneInviteEach'
    BY <1>2 DEF TypeOK, Holding, OneInviteEach, Unbooked, SameTicket, cancel, Disconnect,
      Dequeued
  <2>7. Holding'
    BY <1>2 DEF TypeOK, Holding, Leading, cancel, Disconnect, Dequeued
  <2> QED
    BY <2>1, <2>2, <2>3, <2>4, <2>5, <2>6, <2>7
<1>3. CASE \/ \E p \in Players : Vanish(p) \/ Connect(p)
         \/ TimePasses \/ LeaseExpires \/ Stall
  <2>0. overran' \in BOOLEAN
    BY <1>3 DEF TypeOK, Vanish, Connect, TimePasses, LeaseExpires, Stall
  <2>1. TypeOK'
    BY <1>3, <2>0 DEF TypeOK, Entry, Invite, Past, Vanish, Connect, TimePasses, LeaseExpires,
      Stall, Fault
  <2>2. Leading'
    BY <1>3 DEF TypeOK, Leading, Vanish, Connect, TimePasses, LeaseExpires, Stall, Fault
  <2>3. Past'
    BY <1>3 DEF TypeOK, Entry, Past, Planned, Leading, Vanish, Connect, TimePasses,
      LeaseExpires, Stall, Fault
  <2>4. Distinct'
    BY <1>3 DEF TypeOK, Distinct, Planned, Leading, Vanish, Connect, TimePasses,
      LeaseExpires, Stall, Fault
  <2>5. Unbooked'
    BY <1>3 DEF TypeOK, Holding, Unbooked, SameTicket, Planned, Leading, Past, Distinct,
      Vanish, Connect, TimePasses, LeaseExpires, Stall, Fault
  <2>6. OneInviteEach'
    BY <1>3 DEF TypeOK, Holding, OneInviteEach, Unbooked, SameTicket, Vanish, Connect,
      TimePasses, LeaseExpires, Stall, Fault
  <2>7. Holding'
    BY <1>3 DEF TypeOK, Holding, Leading, Vanish, Connect, TimePasses, LeaseExpires, Stall, Fault
  <2> QED
    BY <2>1, <2>2, <2>3, <2>4, <2>5, <2>6, <2>7
<1>4. CASE \E r \in Replicas : Lead(r)
  <2>1. TypeOK'
    BY <1>4 DEF TypeOK, Entry, Invite, Past, Lead, Acquire, Demote, redis
  <2>2. Leading'
    BY <1>4 DEF TypeOK, Leading, Lead, Acquire, Demote, redis
  <2>3. Past'
    BY <1>4 DEF TypeOK, Entry, Past, Planned, Leading, Lead, Acquire, Demote,
      redis
  <2>4. Distinct'
    BY <1>4 DEF TypeOK, Distinct, Planned, Leading, Lead, Acquire, Demote,
      redis
  <2>5. Unbooked'
    BY <1>4 DEF TypeOK, Holding, Unbooked, SameTicket, Planned, Leading, Past, Distinct, Lead,
      Acquire, Demote, redis
  <2>6. OneInviteEach'
    BY <1>4 DEF TypeOK, Holding, OneInviteEach, Unbooked, SameTicket, Lead, Acquire,
      Demote, redis
  <2>7. Holding'
    BY <1>4 DEF TypeOK, Holding, Leading, Lead, Acquire, Demote, redis
  <2> QED
    BY <2>1, <2>2, <2>3, <2>4, <2>5, <2>6, <2>7
<1>5. CASE \E r \in Replicas : tick(r)
  <2> PICK r \in Replicas : tick(r)
    BY <1>5
  <2>0. /\ plan'[r] \subseteq SUBSET queue /\ pc'[r] = "incr" /\ batch'[r] = {}
        /\ \A E, F \in plan'[r] : \A e \in E, f \in F : e.who = f.who => e = f /\ E = F
        /\ \A s \in Replicas \ {r} : plan'[s] = plan[s] /\ pc'[s] = pc[s]
        /\ UNCHANGED <<queue, clock, horizon, online, lease, seq, up, isLeader, batch, match,
                       invites, faults>>
        /\ overran' \in BOOLEAN /\ (~overran' => ~overran /\ lease = r)
        /\ plan' \in [Replicas -> SUBSET SUBSET Entry]
        /\ pc' \in [Replicas -> {"idle", "incr", "claim", "push"}]
        /\ up[r] = "up"
    <3>1. plan'[r] \subseteq SUBSET queue
      BY TickPlan
    <3>2. \A E, F \in plan'[r] : \A e \in E, f \in F : e.who = f.who => e = f /\ E = F
      BY <3>1, TickPlan DEF Distinct
    <3>3. plan' \in [Replicas -> SUBSET SUBSET Entry]
      BY <3>1, TickPlan DEF tick, TypeOK
    <3>4. batch'[r] = {}
      BY DEF tick, Leading
    <3>5. overran' \in BOOLEAN /\ (~overran' => ~overran /\ lease = r)
      BY DEF tick, TypeOK
    <3> QED
      BY <3>1, <3>2, <3>3, <3>4, <3>5, TickPlan DEF tick, redis, TypeOK
  <2>1. TypeOK'
    BY <2>0 DEF TypeOK, Entry, Invite, Past
  <2>2. Leading'
    BY <2>0 DEF TypeOK, Leading
  <2>3. Past'
    BY <2>0 DEF TypeOK, Entry, Past, Planned, Leading
  <2>4. Distinct'
    BY <2>0 DEF TypeOK, Distinct, Planned, Leading
  <2>5. Unbooked'
    BY <2>0 DEF TypeOK, Holding, Unbooked, SameTicket, Planned, Leading, Past, Distinct
  <2>6. OneInviteEach'
    BY <2>0 DEF TypeOK, Holding, OneInviteEach, Unbooked, SameTicket
  <2>7. Holding'
    BY <2>0 DEF TypeOK, Holding, Leading
  <2> QED
    BY <2>1, <2>2, <2>3, <2>4, <2>5, <2>6, <2>7
<1>6. CASE \E r \in Replicas : Incr(r)
  <2>1. TypeOK'
    BY <1>6 DEF TypeOK, Entry, Invite, Past, Incr, Running
  <2>2. Leading'
    BY <1>6 DEF TypeOK, Leading, Incr, Running
  <2>3. Past'
    BY <1>6 DEF TypeOK, Entry, Past, Planned, Leading, Incr, Running
  <2>4. Distinct'
    BY <1>6 DEF TypeOK, Distinct, Planned, Leading, Incr, Running
  <2>5. Unbooked'
    BY <1>6 DEF TypeOK, Holding, Unbooked, SameTicket, Planned, Leading, Past, Distinct, Incr,
      Running
  <2>6. OneInviteEach'
    BY <1>6 DEF TypeOK, Holding, OneInviteEach, Unbooked, SameTicket, Incr, Running
  <2>7. Holding'
    BY <1>6 DEF TypeOK, Holding, Leading, Incr, Running
  <2> QED
    BY <2>1, <2>2, <2>3, <2>4, <2>5, <2>6, <2>7
<1>7. CASE \E r \in Replicas : Claim(r)
  <2>1. TypeOK'
    BY <1>7 DEF TypeOK, Entry, Invite, Past, Claim, Running, Dequeued
  <2>2. Leading'
    BY <1>7 DEF TypeOK, Leading, Claim, Running, Dequeued
  <2>3. Past'
    BY <1>7 DEF TypeOK, Entry, Past, Planned, Leading, Claim, Running, Dequeued
  <2>4. Distinct'
    BY <1>7 DEF TypeOK, Distinct, Planned, Leading, Claim, Running, Dequeued
  <2>5. Unbooked'
    BY <1>7 DEF TypeOK, Holding, Unbooked, SameTicket, Planned, Leading, Past, Distinct, Claim,
      Running, Dequeued
  <2>6. OneInviteEach'
    BY <1>7 DEF TypeOK, Holding, OneInviteEach, Unbooked, SameTicket, Claim, Running, Dequeued
  <2>7. Holding'
    BY <1>7 DEF TypeOK, Holding, Leading, Claim, Running, Dequeued
  <2> QED
    BY <2>1, <2>2, <2>3, <2>4, <2>5, <2>6, <2>7
<1>8. CASE \E r \in Replicas : Push(r)
  <2>1. TypeOK'
    BY <1>8 DEF TypeOK, Entry, Invite, Past, Push, Running, redis
  <2>2. Leading'
    BY <1>8 DEF TypeOK, Leading, Push, Running, redis
  <2>3. Past'
    BY <1>8 DEF TypeOK, Entry, Past, Planned, Leading, Push, Running, redis
  <2>4. Distinct'
    BY <1>8 DEF TypeOK, Distinct, Planned, Leading, Push, Running, redis
  <2>5. Unbooked'
    BY <1>8 DEF TypeOK, Holding, Unbooked, SameTicket, Planned, Leading, Past, Distinct, Push,
      Running, redis
  <2>6. OneInviteEach'
    BY <1>8 DEF TypeOK, Holding, OneInviteEach, Unbooked, SameTicket, Push, Running, redis
  <2>7. Holding'
    BY <1>8 DEF TypeOK, Holding, Leading, Push, Running, redis
  <2> QED
    BY <2>1, <2>2, <2>3, <2>4, <2>5, <2>6, <2>7
<1>9. CASE \E r \in Replicas : Formed(r)
  <2>1. TypeOK'
    BY <1>9 DEF TypeOK, Entry, Invite, Past, Formed, Running, redis
  <2>2. Leading'
    BY <1>9 DEF TypeOK, Leading, Formed, Running, redis
  <2>3. Past'
    BY <1>9 DEF TypeOK, Entry, Past, Planned, Leading, Formed, Running, redis
  <2>4. Distinct'
    BY <1>9 DEF TypeOK, Distinct, Planned, Leading, Formed, Running, redis
  <2>5. Unbooked'
    BY <1>9 DEF TypeOK, Holding, Unbooked, SameTicket, Planned, Leading, Past, Distinct,
      Formed, Running, redis
  <2>6. OneInviteEach'
    BY <1>9 DEF TypeOK, Holding, OneInviteEach, Unbooked, SameTicket, Formed, Running, redis
  <2>7. Holding'
    BY <1>9 DEF TypeOK, Holding, Leading, Formed, Running, redis
  <2> QED
    BY <2>1, <2>2, <2>3, <2>4, <2>5, <2>6, <2>7
<1>10. CASE \E r \in Replicas : TickFails(r)
  <2>1. TypeOK'
    BY <1>10 DEF TypeOK, Entry, Invite, Past, TickFails, Fault, DropTick, redis
  <2>2. Leading'
    BY <1>10 DEF TypeOK, Leading, TickFails, Fault, DropTick, redis
  <2>3. Past'
    BY <1>10 DEF TypeOK, Entry, Past, Planned, Leading, TickFails, Fault, DropTick,
      redis
  <2>4. Distinct'
    BY <1>10 DEF TypeOK, Distinct, Planned, Leading, TickFails, Fault, DropTick, redis
  <2>5. Unbooked'
    BY <1>10 DEF TypeOK, Holding, Unbooked, SameTicket, Planned, Leading, Past, Distinct,
      TickFails, Fault, DropTick, redis
  <2>6. OneInviteEach'
    BY <1>10 DEF TypeOK, Holding, OneInviteEach, Unbooked, SameTicket, TickFails, Fault,
      DropTick, redis
  <2>7. Holding'
    BY <1>10 DEF TypeOK, Holding, Leading, TickFails, Fault, DropTick, redis
  <2> QED
    BY <2>1, <2>2, <2>3, <2>4, <2>5, <2>6, <2>7
<1>11. CASE \E r \in Replicas : Crash(r)
  <2>1. TypeOK'
    BY <1>11 DEF TypeOK, Entry, Invite, Past, Crash, Fault, DropTick
  <2>2. Leading'
    BY <1>11 DEF TypeOK, Leading, Crash, Fault, DropTick
  <2>3. Past'
    BY <1>11 DEF TypeOK, Entry, Past, Planned, Leading, Crash, Fault, DropTick
  <2>4. Distinct'
    BY <1>11 DEF TypeOK, Distinct, Planned, Leading, Crash, Fault, DropTick
  <2>5. Unbooked'
    BY <1>11 DEF TypeOK, Holding, Unbooked, SameTicket, Planned, Leading, Past, Distinct,
      Crash, Fault, DropTick
  <2>6. OneInviteEach'
    BY <1>11 DEF TypeOK, Holding, OneInviteEach, Unbooked, SameTicket, Crash, Fault, DropTick
  <2>7. Holding'
    BY <1>11 DEF TypeOK, Holding, Leading, Crash, Fault, DropTick
  <2> QED
    BY <2>1, <2>2, <2>3, <2>4, <2>5, <2>6, <2>7
<1>12. CASE \E r \in Replicas : stopService(r)
  <2>1. TypeOK'
    BY <1>12 DEF TypeOK, Entry, Invite, Past, stopService, Fault
  <2>2. Leading'
    BY <1>12 DEF TypeOK, Leading, stopService, Fault
  <2>3. Past'
    BY <1>12 DEF TypeOK, Entry, Past, Planned, Leading, stopService, Fault
  <2>4. Distinct'
    BY <1>12 DEF TypeOK, Distinct, Planned, Leading, stopService, Fault
  <2>5. Unbooked'
    BY <1>12 DEF TypeOK, Holding, Unbooked, SameTicket, Planned, Leading, Past, Distinct,
      stopService, Fault
  <2>6. OneInviteEach'
    BY <1>12 DEF TypeOK, Holding, OneInviteEach, Unbooked, SameTicket, stopService, Fault
  <2>7. Holding'
    BY <1>12 DEF TypeOK, Holding, Leading, stopService, Fault
  <2> QED
    BY <2>1, <2>2, <2>3, <2>4, <2>5, <2>6, <2>7
<1>13. CASE \E r \in Replicas : Exit(r) \/ startService(r)
  <2>1. TypeOK'
    BY <1>13 DEF TypeOK, Entry, Invite, Past, Exit, startService, DropTick, redis
  <2>2. Leading'
    BY <1>13 DEF TypeOK, Leading, Exit, startService, DropTick, redis
  <2>3. Past'
    BY <1>13 DEF TypeOK, Entry, Past, Planned, Leading, Exit, startService, DropTick,
      redis
  <2>4. Distinct'
    BY <1>13 DEF TypeOK, Distinct, Planned, Leading, Exit, startService, DropTick,
      redis
  <2>5. Unbooked'
    BY <1>13 DEF TypeOK, Holding, Unbooked, SameTicket, Planned, Leading, Past, Distinct, Exit,
      startService, DropTick, redis
  <2>6. OneInviteEach'
    BY <1>13 DEF TypeOK, Holding, OneInviteEach, Unbooked, SameTicket, Exit, startService,
      DropTick, redis
  <2>7. Holding'
    BY <1>13 DEF TypeOK, Holding, Leading, Exit, startService, DropTick, redis
  <2> QED
    BY <2>1, <2>2, <2>3, <2>4, <2>5, <2>6, <2>7
<1>14. CASE \E r \in Replicas : Skip(r)
  <2>1. TypeOK'
    BY <1>14 DEF TypeOK, Entry, Invite, Past, Skip, Fault, Running, redis
  <2>2. Leading'
    BY <1>14 DEF TypeOK, Leading, Skip, Fault, Running, redis
  <2>3. Past'
    BY <1>14 DEF TypeOK, Entry, Past, Planned, Leading, Skip, Fault, Running, redis
  <2>4. Distinct'
    BY <1>14 DEF TypeOK, Distinct, Planned, Leading, Skip, Fault, Running, redis
  <2>5. Unbooked'
    BY <1>14 DEF TypeOK, Holding, Unbooked, SameTicket, Planned, Leading, Past, Distinct,
      Skip, Fault, Running, redis
  <2>6. OneInviteEach'
    BY <1>14 DEF TypeOK, Holding, OneInviteEach, Unbooked, SameTicket, Skip, Fault, Running, redis
  <2>7. Holding'
    BY <1>14 DEF TypeOK, Holding, Leading, Skip, Fault, Running, redis
  <2> QED
    BY <2>1, <2>2, <2>3, <2>4, <2>5, <2>6, <2>7
<1>15. CASE UNCHANGED vars
  BY <1>15 DEF vars, TypeOK, Leading, Holding, Past, Distinct, Unbooked, OneInviteEach, Planned,
             SameTicket
<1> QED
  BY <1>1, <1>2, <1>3, <1>4, <1>5, <1>6, <1>7, <1>8, <1>9, <1>10, <1>11, <1>12, <1>13,
     <1>14, <1>15 DEF Next, Work

\* The inductive invariant holds.
LEMMA Booking == Spec => []BookInv
<1>1. Init => BookInv
  <2>0. Init => overran \in BOOLEAN
    BY DEF Init
  <2>1. Init => TypeOK
    BY <2>0, BoundsNat DEF Init, TypeOK
  <2>2. Init => Leading /\ Holding
    BY DEF Init, Leading, Holding
  <2>3. Init => Past /\ Distinct /\ Unbooked /\ OneInviteEach
    BY DEF Init, Past, Distinct, Unbooked, OneInviteEach, Planned
  <2> QED
    BY <2>1, <2>2, <2>3 DEF BookInv
<1>2. BookInv /\ [Next]_vars => BookInv'
  BY BookStep
<1> QED
  BY <1>1, <1>2, PTL DEF Spec

\* Until a tick runs without the lease, one enqueue of a player leads to at most one match,
\* whatever crashes, stops, failing ticks and takeovers happen in between.
THEOREM BookedOnce == Spec => []NoDoubleBooking
<1>1. BookInv => NoDoubleBooking
  BY DEF BookInv, OneInviteEach, SameTicket, NoDoubleBooking, ClaimedOnce
<1> QED
  BY <1>1, Booking, PTL

--------------------------------------------------------------------------------
(* Whole matches. *)

\* slice(0, MATCH_SIZE) of a sorted group: since no two entries are of one age, the entries
\* with fewer than MATCH_SIZE older ones are no more than MATCH_SIZE.
LEMMA OldestSmall ==
  ASSUME NEW E, IsFiniteSet(E), \A e \in E : e.joinedAt \in Int,
         \A e, f \in E : e.joinedAt = f.joinedAt => e = f
  PROVE  IsFiniteSet(Oldest(E)) /\ Cardinality(Oldest(E)) <= MATCH_SIZE
<1> DEFINE Older(e) == {f \in E : f.joinedAt < e.joinedAt}
           age == [e \in Oldest(E) |-> Cardinality(Older(e))]
<1>1. \A e \in E : IsFiniteSet(Older(e)) /\ Cardinality(Older(e)) \in Nat
  BY FS_Subset, FS_CardinalityType
<1>2. \A e, f \in E : e.joinedAt < f.joinedAt => Cardinality(Older(e)) < Cardinality(Older(f))
  <2> SUFFICES ASSUME NEW e \in E, NEW f \in E, e.joinedAt < f.joinedAt
               PROVE  Cardinality(Older(e)) < Cardinality(Older(f))
    OBVIOUS
  <2>1. Older(e) \cup {e} \subseteq Older(f) /\ e \notin Older(e)
    OBVIOUS
  <2>2. Cardinality(Older(e) \cup {e}) = Cardinality(Older(e)) + 1
    BY <1>1, <2>1, FS_AddElement
  <2>3. Cardinality(Older(e) \cup {e}) <= Cardinality(Older(f))
    BY <1>1, <2>1, FS_Subset
  <2> QED
    BY <1>1, <2>2, <2>3
<1>3. Oldest(E) = {e \in E : Cardinality(Older(e)) < MATCH_SIZE}
  BY DEF Oldest
<1>4. age \in [Oldest(E) -> 0 .. (MATCH_SIZE - 1)]
  BY <1>1, <1>3, SizesNat
<1>5. \A e, f \in Oldest(E) : age[e] = age[f] => e = f
  <2> SUFFICES ASSUME NEW e \in Oldest(E), NEW f \in Oldest(E), age[e] = age[f]
               PROVE  e = f
    OBVIOUS
  <2>1. e \in E /\ f \in E /\ e.joinedAt \in Int /\ f.joinedAt \in Int
    BY <1>3
  <2>0. Cardinality(Older(e)) = Cardinality(Older(f))
    OBVIOUS
  <2>2. ~(e.joinedAt < f.joinedAt) /\ ~(f.joinedAt < e.joinedAt)
    <3> HIDE DEF Older
    <3> QED
      BY <1>1, <1>2, <2>0, <2>1
  <2> QED
    BY <2>1, <2>2
<1>6. age \in Injection(Oldest(E), 0 .. (MATCH_SIZE - 1))
  BY <1>4, <1>5 DEF Injection, IsInjective
<1>7. IsFiniteSet(0 .. (MATCH_SIZE - 1)) /\ Cardinality(0 .. (MATCH_SIZE - 1)) = MATCH_SIZE
  BY FS_Interval, SizesNat
<1> QED
  BY <1>6, <1>7, FS_Injection

\* A step that leaves the notifications, and what replicas forming a match hold, alone or
\* drops it.
LEMMA KeepsNumbered ==
  ASSUME TypeOK, WholeInv, UNCHANGED <<invites, seq>>,
         \A r \in Replicas : Forming(r)' =>
           Forming(r) /\ match'[r] = match[r] /\ batch'[r] = batch[r]
                      /\ (pc'[r] = "claim" => pc[r] = "claim")
  PROVE  Numbered' /\ MatchWhole'
<1>1. \A n : InvitesOf(n)' = InvitesOf(n)
  BY DEF InvitesOf
<1> QED
  BY <1>1 DEF WholeInv, Numbered, MatchWhole

\* One step of any action keeps it.
LEMMA WholeStep ==
  ASSUME BookInv, BookInv', WholeInv, [Next]_vars
  PROVE  WholeInv'
<1> USE SizesNat DEF BookInv, replica, redis
<1>0. /\ \A e \in queue : e.joinedAt \in Int /\ e.joinedAt <= clock
      /\ clock \in Int /\ seq \in Nat /\ match \in [Replicas -> Nat]
      /\ \A v \in invites : v.match \in Nat
  BY DEF TypeOK, Past, Entry, Invite
<1>1. CASE \E p \in Players, m \in Modes : enqueue(p, m)
  <2>1. PICK p \in Players, m \in Modes : enqueue(p, m)
    BY <1>1
  <2>2. Numbered' /\ MatchWhole'
    BY <2>1, KeepsNumbered DEF enqueue, Forming
  <2>3. Sized'
    <3>1. IsFiniteSet(Dequeued({p}))
      BY FS_Subset DEF Dequeued, WholeInv, Sized
    <3>2. IsFiniteSet(queue')
      BY <2>1, <3>1, FS_AddElement DEF enqueue
    <3>3. \A e, f \in queue' : e.joinedAt = f.joinedAt => e = f
      BY <1>0, <2>1 DEF enqueue, Dequeued, WholeInv, Sized
    <3> QED
      BY <2>1, <3>2, <3>3 DEF enqueue, WholeInv, Sized
  <2> QED
    BY <2>2, <2>3 DEF WholeInv
<1>2. CASE \E p \in Players : cancel(p) \/ Disconnect(p) \/ Vanish(p) \/ Connect(p)
  <2>1. UNCHANGED <<replica, invites, seq>> /\ queue' \subseteq queue
    BY <1>2 DEF cancel, Disconnect, Vanish, Connect, Dequeued
  <2>2. Numbered' /\ MatchWhole'
    BY <2>1, KeepsNumbered DEF Forming
  <2>3. Sized'
    BY <2>1, FS_Subset DEF WholeInv, Sized
  <2> QED
    BY <2>2, <2>3 DEF WholeInv
<1>3. CASE \/ TimePasses \/ LeaseExpires \/ Stall \/ UNCHANGED vars
         \/ \E r \in Replicas : Lead(r) \/ startService(r) \/ stopService(r)
  <2>1. UNCHANGED <<queue, pc, plan, batch, match, invites, seq>>
    BY <1>3 DEF TimePasses, LeaseExpires, Stall, vars, Lead, Acquire, Demote, startService,
       stopService
  <2>2. Numbered' /\ MatchWhole'
    BY <2>1, KeepsNumbered DEF Forming
  <2>3. Sized'
    BY <2>1 DEF WholeInv, Sized
  <2> QED
    BY <2>2, <2>3 DEF WholeInv
<1>4. CASE \E r \in Replicas : TickFails(r) \/ Crash(r) \/ Exit(r)
  <2>1. PICK r \in Replicas : TickFails(r) \/ Crash(r) \/ Exit(r)
    BY <1>4
  <2>2. /\ DropTick(r) /\ UNCHANGED <<queue, invites, seq>>
    BY <2>1 DEF TickFails, Crash, Exit
  <2>3. Numbered' /\ MatchWhole'
    BY <2>2, KeepsNumbered DEF Forming, DropTick, TypeOK
  <2>4. Sized'
    BY <2>2, FS_EmptySet DEF DropTick, TypeOK, WholeInv, Sized
  <2> QED
    BY <2>3, <2>4 DEF WholeInv
<1>5. CASE \E r \in Replicas : tick(r)
  <2>1. PICK r \in Replicas : tick(r)
    BY <1>5
  <2>2. Numbered' /\ MatchWhole'
    BY <2>1, KeepsNumbered DEF Forming, tick, TypeOK
  <2>3. \A m \in Modes : /\ IsFiniteSet(Oldest(Group(m)))
                         /\ Cardinality(Oldest(Group(m))) <= MATCH_SIZE
    <3> SUFFICES ASSUME NEW m \in Modes
                 PROVE  /\ IsFiniteSet(Oldest(Group(m)))
                        /\ Cardinality(Oldest(Group(m))) <= MATCH_SIZE
      OBVIOUS
    <3>1. IsFiniteSet(Group(m)) /\ Group(m) \subseteq queue
      BY FS_Subset DEF Group, WholeInv, Sized
    <3> QED
      BY <1>0, <3>1, OldestSmall DEF WholeInv, Sized
  <2>4. \A E \in plan'[r] : IsFiniteSet(E) /\ Cardinality(E) <= MATCH_SIZE
    <3>1. plan'[r] = {Oldest(Group(m)) : m \in {n \in Modes : Due(Group(n))}}
      BY <2>1 DEF tick, TypeOK
    <3> QED
      BY <2>3, <3>1
  <2>5. Sized'
    BY <2>1, <2>4 DEF tick, TypeOK, WholeInv, Sized
  <2> QED
    BY <2>2, <2>5 DEF WholeInv
<1>6. CASE \E r \in Replicas : Incr(r)
  <2>1. PICK r \in Replicas : Incr(r)
    BY <1>6
  <2>2. PICK E \in plan[r] : /\ batch' = [batch EXCEPT ![r] = E]
                             /\ plan' = [plan EXCEPT ![r] = @ \ {E}]
    BY <2>1 DEF Incr
  <2>3. /\ seq' = seq + 1 /\ match' = [match EXCEPT ![r] = seq + 1]
        /\ pc' = [pc EXCEPT ![r] = "claim"] /\ UNCHANGED <<queue, invites>>
    BY <2>1 DEF Incr
  <2>4. \A n : InvitesOf(n)' = InvitesOf(n)
    BY <2>3 DEF InvitesOf
  <2>5. InvitesOf(seq + 1) = {}
    BY <1>0 DEF InvitesOf, WholeInv, Numbered
  <2>6. IsFiniteSet(E) /\ Cardinality(E) \in Nat /\ Cardinality(E) <= MATCH_SIZE
    BY FS_CardinalityType DEF WholeInv, Sized
  <2>7. batch'[r] = E /\ match'[r] = seq + 1 /\ pc'[r] = "claim"
    BY <2>2, <2>3 DEF TypeOK
  <2>8. \A s \in Replicas \ {r} : /\ batch'[s] = batch[s] /\ match'[s] = match[s]
                                  /\ pc'[s] = pc[s]
    BY <2>2, <2>3 DEF TypeOK
  <2>9. Numbered'
    <3>1. IsFiniteSet(invites') /\ \A v \in invites' : v.match <= seq'
      BY <1>0, <2>3 DEF WholeInv, Numbered
    <3>2. ASSUME NEW s \in Replicas, Forming(s)'
          PROVE  /\ match'[s] <= seq'
                 /\ \A t \in Replicas \ {s} : Forming(t)' => match'[t] # match'[s]
      BY <1>0, <2>3, <2>7, <2>8, <3>2 DEF Forming, WholeInv, Numbered
    <3>3. ASSUME NEW s \in Replicas, Forming(s)'
          PROVE  /\ pc'[s] = "claim" => InvitesOf(match[s])' = {}
                 /\ \A v \in InvitesOf(match[s])', e \in batch'[s] : v.who # e.who
      BY <2>4, <2>5, <2>7, <2>8, <3>3 DEF Forming, WholeInv, Numbered
    <3>4. ASSUME NEW s \in Replicas, Forming(s)'
          PROVE  Cardinality(InvitesOf(match[s])') + Cardinality(batch'[s]) <= MATCH_SIZE
      <4>1. CASE s = r
        <5>1. InvitesOf(match[s])' = {}
          BY <2>3, <2>5, <2>7, <4>1 DEF InvitesOf
        <5> QED
          BY <2>6, <2>7, <4>1, <5>1, FS_EmptySet
      <4>2. CASE s # r
        BY <2>4, <2>8, <3>4, <4>2 DEF Forming, WholeInv, Numbered
      <4> QED
        BY <4>1, <4>2
    <3> QED
      BY <3>1, <3>2, <3>3, <3>4 DEF Numbered
  <2>10. Sized'
    BY <2>2, <2>3, <2>6, <2>7, <2>8 DEF TypeOK, WholeInv, Sized
  <2>11. MatchWhole'
    BY <2>3 DEF MatchWhole, WholeInv
  <2> QED
    BY <2>9, <2>10, <2>11 DEF WholeInv
<1>7. CASE \E r \in Replicas : Claim(r)
  <2>1. PICK r \in Replicas : Claim(r)
    BY <1>7
  <2>2. /\ queue' \subseteq queue /\ UNCHANGED <<plan, batch, match, invites, seq>>
        /\ pc' = [pc EXCEPT ![r] = "push"] /\ pc[r] = "claim"
    BY <2>1 DEF Claim, Dequeued
  <2>3. Numbered' /\ MatchWhole'
    BY <2>2, KeepsNumbered DEF Forming, TypeOK
  <2>4. Sized'
    BY <2>2, FS_Subset DEF WholeInv, Sized
  <2> QED
    BY <2>3, <2>4 DEF WholeInv
<1>8. CASE \E r \in Replicas : Formed(r)
  <2>1. PICK r \in Replicas : Formed(r)
    BY <1>8
  <2>2. Numbered' /\ MatchWhole'
    BY <2>1, KeepsNumbered DEF Forming, Formed, TypeOK
  <2>3. Sized'
    BY <2>1 DEF Formed, WholeInv, Sized
  <2> QED
    BY <2>2, <2>3 DEF WholeInv
<1>9. CASE \E r \in Replicas : Push(r) \/ Skip(r)
  <2>1. PICK r \in Replicas : Push(r) \/ Skip(r)
    BY <1>9
  <2>2. PICK e \in batch[r] :
          /\ batch' = [batch EXCEPT ![r] = @ \ {e}]
          /\ \/ invites' = invites \cup {[who |-> e.who, joinedAt |-> e.joinedAt,
                                           match |-> match[r], at |-> clock]}
             \/ invites' = invites
    BY <2>1 DEF Push, Skip
  <2> DEFINE new == [who |-> e.who, joinedAt |-> e.joinedAt, match |-> match[r], at |-> clock]
  <2>3. pc[r] = "push" /\ UNCHANGED <<queue, seq, pc, plan, match>>
    BY <2>1 DEF Push, Skip
  <2>4. /\ batch'[r] = batch[r] \ {e}
        /\ \A s \in Replicas \ {r} : batch'[s] = batch[s]
    BY <2>2 DEF TypeOK
  <2>5. IsFiniteSet(batch[r]) /\ Cardinality(batch'[r]) = Cardinality(batch[r]) - 1
        /\ IsFiniteSet(batch'[r]) /\ Cardinality(batch[r]) \in Nat
    BY <2>4, FS_RemoveElement, FS_CardinalityType DEF WholeInv, Sized
  <2>6. Sized'
    BY <2>3, <2>4, <2>5 DEF WholeInv, Sized
  <2>7. \A s \in Replicas : \A f \in batch'[s] : f \in batch[s] /\ (s = r => f.who # e.who)
    BY <2>4 DEF Distinct
  <2>8. CASE invites' = invites
    <3>1. \A n : InvitesOf(n)' = InvitesOf(n)
      BY <2>8 DEF InvitesOf
    <3>2. \A n \in Nat : IsFiniteSet(InvitesOf(n)) /\ Cardinality(InvitesOf(n)) \in Nat
      BY FS_Subset, FS_CardinalityType DEF InvitesOf, WholeInv, Numbered
    <3>3. Numbered'
      <4>1. ASSUME NEW s \in Replicas, Forming(s)'
            PROVE  /\ match'[s] <= seq'
                   /\ \A t \in Replicas \ {s} : Forming(t)' => match'[t] # match'[s]
                   /\ pc'[s] = "claim" => InvitesOf(match[s])' = {}
                   /\ \A v \in InvitesOf(match[s])', f \in batch'[s] : v.who # f.who
        BY <2>3, <2>7, <2>8, <4>1 DEF WholeInv, Numbered, Forming, InvitesOf
      <4>2. ASSUME NEW s \in Replicas, Forming(s)'
            PROVE  Cardinality(InvitesOf(match[s])') + Cardinality(batch'[s]) <= MATCH_SIZE
        <5>1. Forming(s) /\ InvitesOf(match[s])' = InvitesOf(match[s])
          BY <2>3, <2>8, <4>2 DEF Forming, InvitesOf
        <5>2. /\ Cardinality(InvitesOf(match[s])) + Cardinality(batch[s]) <= MATCH_SIZE
              /\ Cardinality(InvitesOf(match[s])) \in Nat
          BY <1>0, <3>2, <5>1 DEF WholeInv, Numbered
        <5>3. CASE s = r
          BY <2>5, <5>1, <5>2, <5>3
        <5>4. CASE s # r
          BY <2>4, <5>1, <5>2, <5>4
        <5> QED
          BY <5>3, <5>4
      <4> QED
        BY <2>3, <2>8, <4>1, <4>2 DEF WholeInv, Numbered
    <3> QED
      BY <2>6, <2>8, <3>3 DEF WholeInv, MatchWhole
  <2>9. CASE invites' = invites \cup {new}
    <3>0. Forming(r) /\ new \notin invites /\ new.match = match[r] /\ new.who = e.who
      <4>1. Forming(r) /\ new.match = match[r] /\ new.who = e.who
        BY <2>3 DEF Forming
      <4>2. \A v \in InvitesOf(match[r]) : v.who # e.who
        BY <4>1 DEF WholeInv, Numbered
      <4> HIDE DEF new
      <4> QED
        BY <4>1, <4>2 DEF InvitesOf
    <3>1. \A n : InvitesOf(n)' = IF n = match[r] THEN InvitesOf(n) \cup {new} ELSE InvitesOf(n)
      BY <2>9, <3>0 DEF InvitesOf
    <3>2. \A n : IsFiniteSet(InvitesOf(n)) /\ Cardinality(InvitesOf(n)) \in Nat
      BY FS_Subset, FS_CardinalityType DEF InvitesOf, WholeInv, Numbered
    <3>3. Cardinality(InvitesOf(match[r]) \cup {new}) = Cardinality(InvitesOf(match[r])) + 1
      <4> HIDE DEF new
      <4>1. new \notin InvitesOf(match[r]) /\ IsFiniteSet(InvitesOf(match[r]))
        BY <3>0, <3>2 DEF InvitesOf
      <4> QED
        BY <4>1, FS_AddElement
    <3>4. Cardinality(InvitesOf(match[r])) + Cardinality(batch[r]) <= MATCH_SIZE
      BY <3>0 DEF WholeInv, Numbered
    <3>5. Numbered'
      <4>1. IsFiniteSet(invites') /\ \A v \in invites' : v.match <= seq'
        BY <1>0, <2>3, <2>9, <3>0, FS_AddElement DEF WholeInv, Numbered
      <4>2. ASSUME NEW s \in Replicas, Forming(s)'
            PROVE  /\ match'[s] <= seq'
                   /\ \A t \in Replicas \ {s} : Forming(t)' => match'[t] # match'[s]
                   /\ pc'[s] = "claim" => InvitesOf(match[s])' = {}
        <5>1. Forming(s) /\ match'[s] = match[s] /\ (pc[s] = "claim" => s # r /\ match[s] # match[r])
          BY <2>3, <3>0, <4>2 DEF Forming, WholeInv, Numbered
        <5> QED
          BY <2>3, <2>9, <3>0, <4>2, <5>1 DEF Forming, WholeInv, Numbered, InvitesOf
      <4>3. ASSUME NEW s \in Replicas, Forming(s)'
            PROVE  \A v \in InvitesOf(match[s])', f \in batch'[s] : v.who # f.who
        <5>1. Forming(s) /\ match'[s] = match[s] /\ (s # r => match[s] # match[r])
          BY <2>3, <3>0, <4>3 DEF Forming, WholeInv, Numbered
        <5>2. \A v \in InvitesOf(match[s])' : v \in InvitesOf(match[s]) \/ (s = r /\ v = new)
          BY <2>9, <3>0, <5>1 DEF InvitesOf
        <5> QED
          BY <2>7, <3>0, <5>1, <5>2 DEF WholeInv, Numbered
      <4>4. ASSUME NEW s \in Replicas, Forming(s)'
            PROVE  Cardinality(InvitesOf(match[s])') + Cardinality(batch'[s]) <= MATCH_SIZE
        <5>1. Forming(s) /\ match'[s] = match[s] /\ (s # r => match[s] # match[r])
          BY <2>3, <3>0, <4>4 DEF Forming, WholeInv, Numbered
        <5>2. InvitesOf(match[s])' = IF s = r THEN InvitesOf(match[r]) \cup {new}
                                     ELSE InvitesOf(match[s])
          BY <2>9, <3>0, <5>1 DEF InvitesOf
        <5>3. CASE s = r
          BY <2>5, <3>2, <3>3, <3>4, <5>2, <5>3
        <5>4. CASE s # r
          BY <2>4, <5>1, <5>2, <5>4 DEF WholeInv, Numbered
        <5> QED
          BY <5>3, <5>4
      <4> QED
        BY <4>1, <4>2, <4>3, <4>4 DEF Numbered
    <3>6. MatchWhole'
      <4>1. ASSUME NEW v \in invites'
            PROVE  Cardinality({w \in invites' : w.match = v.match}) <= MATCH_SIZE
        <5>1. {w \in invites' : w.match = v.match} =
                IF v.match = match[r] THEN InvitesOf(match[r]) \cup {new} ELSE InvitesOf(v.match)
          BY <2>9, <3>0 DEF InvitesOf
        <5>2. Cardinality(batch[r]) >= 1
          <6>1. Cardinality(batch'[r]) \in Nat
            BY <2>5, FS_CardinalityType
          <6> QED
            BY <2>5, <6>1
        <5>3. CASE v.match = match[r]
          <6>1. Cardinality(InvitesOf(match[r])) \in Nat
            BY <3>2
          <6>2. Cardinality({w \in invites' : w.match = v.match}) =
                  Cardinality(InvitesOf(match[r])) + 1
            BY <3>3, <5>1, <5>3
          <6> QED
            BY <2>5, <3>4, <5>2, <6>1, <6>2
        <5>4. CASE v.match # match[r]
          BY <2>9, <3>0, <5>1, <5>4 DEF WholeInv, MatchWhole, InvitesOf
        <5> QED
          BY <5>3, <5>4
      <4>2. ASSUME NEW v \in invites', NEW w \in invites', w.match = v.match, w.who = v.who
            PROVE  w = v
        <5>1. \A x \in invites : x.match = match[r] => x.who # e.who
          BY <3>0 DEF WholeInv, Numbered, InvitesOf
        <5> QED
          BY <2>9, <3>0, <4>2, <5>1 DEF WholeInv, MatchWhole
      <4> QED
        BY <4>1, <4>2 DEF MatchWhole
    <3> QED
      BY <2>6, <3>5, <3>6 DEF WholeInv
  <2> QED
    BY <2>2, <2>8, <2>9
<1> QED
  BY <1>1, <1>2, <1>3, <1>4, <1>5, <1>6, <1>7, <1>8, <1>9 DEF Next, Work

\* The notifications of a match come from one group, are at most MATCH_SIZE and at most one
\* per player, also when ticks of several replicas overlap: match numbers are never shared,
\* and formMatch sends each number to the slice of one sorted group.
THEOREM WholeMatches == Spec => []MatchWhole
<1>1. Init => WholeInv
  BY FS_EmptySet DEF Init, WholeInv, Numbered, Sized, MatchWhole, Forming
<1>2. BookInv /\ BookInv' /\ WholeInv /\ [Next]_vars => WholeInv'
  BY WholeStep
<1>3. WholeInv => MatchWhole
  BY DEF WholeInv
<1> QED
  BY <1>1, <1>2, <1>3, Booking, PTL DEF Spec
================================================================================
