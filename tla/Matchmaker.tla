------------------------------- MODULE Matchmaker -------------------------------
(***************************************************************************)
(* The shared matchmaker (src/tcp/matchmaker.js): gateways write the queue *)
(* in Redis, and the replica that holds the lease `mm:leader' turns it     *)
(* into matches.  Every Redis command of a tick is a step of its own, so   *)
(* players come and go, replicas stop, crash and take over between any two *)
(* of them.                                                                *)
(*                                                                         *)
(*   queue  hash `mmqueue'      seq  counter `mm:matchseq'                 *)
(*   lease  key `mm:leader'     online  keys `presence:<uid>'              *)
(*                                                                         *)
(* A replica r is in state up[r] and has its module variables isLeader[r]  *)
(* and ticking (pc[r] # "idle"); plan[r] are the groups its tick has still *)
(* to form, batch[r] and match[r] the match it is forming.  Two variables  *)
(* are history: `invites' holds the MatchmakingSussNtf messages that       *)
(* reached a client, and `overran' says that a tick has run without the    *)
(* lease: nothing in the code prevents that, a property may except it.     *)
(*                                                                         *)
(* joinedAt is the count of enqueues so far instead of milliseconds, and   *)
(* the entries older than TIMEOUT_MS are those up to `horizon'.  The fleet *)
(* address, the secret and the prepare token of a match are left out.      *)
(***************************************************************************)
EXTENDS Integers, FiniteSets

CONSTANTS
  Players, Modes, Replicas,
  MIN_PLAYERS, MATCH_SIZE,
  Free, Dead,    \* lease values: no key; the key of a process that is gone
  MaxJoins,      \* bound: enqueues
  MaxFaults,     \* bound: crashes, stops, failing ticks, stalls and missing accounts
  MaxEvents,     \* bound: enqueues and those faults together
  Leavers        \* the players who may cancel, disconnect or lose their gateway

ASSUME PlayersFinite == IsFiniteSet(Players)
ASSUME SizesNat == MIN_PLAYERS \in Nat \ {0} /\ MATCH_SIZE \in Nat \ {0}
ASSUME LeaseValues == Free # Dead /\ Free \notin Replicas /\ Dead \notin Replicas
ASSUME BoundsNat == MaxJoins \in Nat /\ MaxFaults \in Nat /\ MaxEvents \in Nat
ASSUME LeaversPlay == Leavers \subseteq Players

VARIABLES queue, clock, horizon, online, lease, seq, up, isLeader, pc, plan, batch,
          match, invites, faults, overran

redis == <<queue, lease, seq, online>>
replica == <<up, isLeader, pc, plan, batch, match>>
vars == <<queue, clock, horizon, online, lease, seq, up, isLeader, pc, plan, batch,
          match, invites, faults, overran>>

Entry == [who : Players, mode : Modes, joinedAt : 1 .. MaxJoins]
Invite == [who : Players, joinedAt : 1 .. MaxJoins, match : Nat, at : 1 .. MaxJoins]

Init ==
  /\ queue = {} /\ clock = 0 /\ horizon = 0
  /\ online = Players
  /\ lease = Free /\ seq = 0
  /\ up = [r \in Replicas |-> "up"]
  /\ isLeader = [r \in Replicas |-> FALSE]
  /\ pc = [r \in Replicas |-> "idle"]
  /\ plan = [r \in Replicas |-> {}]
  /\ batch = [r \in Replicas |-> {}]
  /\ match = [r \in Replicas |-> 0]
  /\ invites = {} /\ faults = 0 /\ overran = FALSE

--------------------------------------------------------------------------------
(* The gateways' side. *)

\* HDEL mmqueue
Dequeued(ids) == {e \in queue : e.who \notin ids}

\* HSET mmqueue: a second enqueue replaces the first.
enqueue(p, m) ==
  /\ p \in online
  /\ clock < MaxJoins /\ clock + faults < MaxEvents
  /\ clock' = clock + 1
  /\ queue' = Dequeued({p}) \cup {[who |-> p, mode |-> m, joinedAt |-> clock + 1]}
  /\ UNCHANGED <<horizon, online, lease, seq, replica, invites, faults, overran>>

cancel(p) ==
  /\ p \in Leavers
  /\ p \in online
  /\ queue' = Dequeued({p})
  /\ UNCHANGED <<clock, horizon, online, lease, seq, replica, invites, faults, overran>>

\* The socket closes: cancel and markOffline.
Disconnect(p) ==
  /\ p \in Leavers
  /\ p \in online
  /\ queue' = Dequeued({p})
  /\ online' = online \ {p}
  /\ UNCHANGED <<clock, horizon, lease, seq, replica, invites, faults, overran>>

\* The gateway dies: nobody cancels, presence runs out.
Vanish(p) ==
  /\ p \in Leavers
  /\ p \in online
  /\ online' = online \ {p}
  /\ UNCHANGED <<queue, clock, horizon, lease, seq, replica, invites, faults, overran>>

Connect(p) ==
  /\ p \notin online
  /\ online' = online \cup {p}
  /\ UNCHANGED <<queue, clock, horizon, lease, seq, replica, invites, faults, overran>>

\* The oldest entries pass TIMEOUT_MS.
TimePasses ==
  /\ horizon < clock
  /\ horizon' = horizon + 1
  /\ UNCHANGED <<queue, clock, online, lease, seq, replica, invites, faults, overran>>

--------------------------------------------------------------------------------
(* Leader election. *)

Fault ==
  /\ faults < MaxFaults /\ clock + faults < MaxEvents
  /\ faults' = faults + 1

\* acquireLock: SET NX
Acquire(r) ==
  /\ up[r] = "up" /\ ~isLeader[r]
  /\ lease = Free
  /\ lease' = r
  /\ isLeader' = [isLeader EXCEPT ![r] = TRUE]
  /\ UNCHANGED <<queue, clock, horizon, online, seq, up, pc, plan, batch, match,
                 invites, faults, overran>>

\* renewLock found another token or none.  A renewal that succeeds changes nothing
\* but the lease's end.
Demote(r) ==
  /\ up[r] = "up" /\ isLeader[r] /\ lease # r
  /\ isLeader' = [isLeader EXCEPT ![r] = FALSE]
  /\ UNCHANGED <<redis, clock, horizon, up, pc, plan, batch, match, invites,
                 faults, overran>>

\* A lease ends when nobody renews it: its process is gone ...
LeaseExpires ==
  /\ lease = Dead
  /\ lease' = Free
  /\ UNCHANGED <<queue, clock, horizon, online, seq, replica, invites, faults, overran>>

\* ... or is stalled for longer than the lease, between two ticks or in one.
Stall ==
  /\ Fault
  /\ lease \in Replicas
  /\ lease' = Free
  /\ overran' = (overran \/ pc[lease] # "idle")
  /\ UNCHANGED <<queue, clock, horizon, online, seq, replica, invites>>

--------------------------------------------------------------------------------
(* The tick. *)

Group(m) == {e \in queue : e.mode = m}

\* The first MATCH_SIZE entries, oldest first.
Oldest(E) == {e \in E : Cardinality({f \in E : f.joinedAt < e.joinedAt}) < MATCH_SIZE}

\* Mutant: no timeout.
DueFull(E) == Cardinality(E) >= MIN_PLAYERS

\* Enough players, or one who has waited too long.
Due(E) ==
  /\ E # {}
  /\ \/ Cardinality(E) >= MIN_PLAYERS
     \/ \E e \in E : e.joinedAt <= horizon

\* A tick in flight goes on while the process shuts down.
Running(r) == up[r] \in {"up", "stopping"}

\* isLeader and ticking are checked, then HGETALL; what to form is decided on the
\* answer, the matches are formed one after the other.  isLeader is the replica's own
\* memory: the lease may be gone.
tick(r) ==
  LET due == {Oldest(Group(m)) : m \in {n \in Modes : Due(Group(n))}}
  IN  /\ up[r] = "up" /\ isLeader[r] /\ pc[r] = "idle"
      /\ due # {}
      /\ plan' = [plan EXCEPT ![r] = due]
      /\ pc' = [pc EXCEPT ![r] = "incr"]
      /\ overran' = (overran \/ lease # r)
      /\ UNCHANGED <<redis, clock, horizon, up, isLeader, batch, match, invites, faults>>

\* Mutant: the counter is read, not incremented.
IncrStale(r) ==
  /\ Running(r) /\ pc[r] = "incr"
  /\ \E E \in plan[r] :
       /\ batch' = [batch EXCEPT ![r] = E]
       /\ plan' = [plan EXCEPT ![r] = @ \ {E}]
  /\ match' = [match EXCEPT ![r] = seq + 1]
  /\ pc' = [pc EXCEPT ![r] = "claim"]
  /\ UNCHANGED <<redis, clock, horizon, up, isLeader, invites, faults, overran>>

\* formMatch: INCR mm:matchseq
Incr(r) ==
  /\ Running(r) /\ pc[r] = "incr"
  /\ \E E \in plan[r] :
       /\ batch' = [batch EXCEPT ![r] = E]
       /\ plan' = [plan EXCEPT ![r] = @ \ {E}]
  /\ seq' = seq + 1
  /\ match' = [match EXCEPT ![r] = seq + 1]
  /\ pc' = [pc EXCEPT ![r] = "claim"]
  /\ UNCHANGED <<queue, clock, horizon, online, lease, up, isLeader, invites,
                 faults, overran>>

\* Mutant: no claim.
ClaimNothing(r) ==
  /\ Running(r) /\ pc[r] = "claim"
  /\ pc' = [pc EXCEPT ![r] = "push"]
  /\ UNCHANGED <<redis, clock, horizon, up, isLeader, plan, batch, match, invites,
                 faults, overran>>

\* The claim removes the players from the queue and does not look at how many of
\* them were still there.
Claim(r) ==
  /\ Running(r) /\ pc[r] = "claim"
  /\ queue' = Dequeued({e.who : e \in batch[r]})
  /\ pc' = [pc EXCEPT ![r] = "push"]
  /\ UNCHANGED <<clock, horizon, online, lease, seq, up, isLeader, plan, batch, match,
                 invites, faults, overran>>

\* Mutant: the loop over the players ends after the first.
PushFirst(r) ==
  /\ Running(r) /\ pc[r] = "push"
  /\ \E e \in batch[r] :
       /\ batch' = [batch EXCEPT ![r] = {}]
       /\ invites' = invites \cup {[who |-> e.who, joinedAt |-> e.joinedAt,
                                    match |-> match[r], at |-> clock]}
  /\ UNCHANGED <<redis, clock, horizon, up, isLeader, pc, plan, match, faults, overran>>

\* One player of the match: the one with presence gets the notification, if a
\* gateway still holds the client.
Push(r) ==
  /\ Running(r) /\ pc[r] = "push"
  /\ \E e \in batch[r] :
       /\ batch' = [batch EXCEPT ![r] = @ \ {e}]
       /\ invites' = IF e.who \in online
                     THEN invites \cup {[who |-> e.who, joinedAt |-> e.joinedAt,
                                         match |-> match[r], at |-> clock]}
                     ELSE invites
  /\ UNCHANGED <<redis, clock, horizon, up, isLeader, pc, plan, match, faults, overran>>

\* getById finds no account: the player is skipped, although he is off the queue.
Skip(r) ==
  /\ Fault
  /\ Running(r) /\ pc[r] = "push"
  /\ \E e \in batch[r] : batch' = [batch EXCEPT ![r] = @ \ {e}]
  /\ UNCHANGED <<redis, clock, horizon, up, isLeader, pc, plan, match, invites, overran>>

\* The match is out; the next group, or the end of the tick.
Formed(r) ==
  /\ Running(r) /\ pc[r] = "push" /\ batch[r] = {}
  /\ pc' = [pc EXCEPT ![r] = IF plan[r] = {} THEN "idle" ELSE "incr"]
  /\ match' = [match EXCEPT ![r] = 0]
  /\ UNCHANGED <<redis, clock, horizon, up, isLeader, plan, batch, invites,
                 faults, overran>>

--------------------------------------------------------------------------------
(* Faults and shutdown. *)

DropTick(r) ==
  /\ pc' = [pc EXCEPT ![r] = "idle"]
  /\ plan' = [plan EXCEPT ![r] = {}]
  /\ batch' = [batch EXCEPT ![r] = {}]
  /\ match' = [match EXCEPT ![r] = 0]

\* A Redis command or the account query rejects: the rest of the tick is skipped.
TickFails(r) ==
  /\ Fault
  /\ Running(r) /\ pc[r] # "idle"
  /\ DropTick(r)
  /\ UNCHANGED <<redis, clock, horizon, up, isLeader, invites, overran>>

Crash(r) ==
  /\ Fault
  /\ up[r] = "up"
  /\ up' = [up EXCEPT ![r] = "down"]
  /\ isLeader' = [isLeader EXCEPT ![r] = FALSE]
  /\ lease' = IF lease = r THEN Dead ELSE lease
  /\ DropTick(r)
  /\ UNCHANGED <<queue, clock, horizon, online, seq, invites, overran>>

\* stopService: no new tick, and the lease goes to a standby at once, also when the last
\* tick is still in flight.
stopService(r) ==
  /\ Fault
  /\ up[r] = "up"
  /\ up' = [up EXCEPT ![r] = "stopping"]
  /\ lease' = IF isLeader[r] /\ lease = r THEN Free ELSE lease
  /\ isLeader' = [isLeader EXCEPT ![r] = FALSE]
  /\ overran' = (overran \/ pc[r] # "idle")
  /\ UNCHANGED <<queue, clock, horizon, online, seq, pc, plan, batch, match, invites>>

\* process.exit cuts an unfinished tick off.
Exit(r) ==
  /\ up[r] = "stopping"
  /\ up' = [up EXCEPT ![r] = "down"]
  /\ DropTick(r)
  /\ UNCHANGED <<redis, clock, horizon, isLeader, invites, faults, overran>>

startService(r) ==
  /\ up[r] = "down"
  /\ up' = [up EXCEPT ![r] = "up"]
  /\ UNCHANGED <<redis, clock, horizon, isLeader, pc, plan, batch, match, invites,
                 faults, overran>>

--------------------------------------------------------------------------------
Work(r) == tick(r) \/ Incr(r) \/ Claim(r) \/ Push(r) \/ Formed(r)
Lead(r) == Acquire(r) \/ Demote(r)

Next ==
  \/ \E p \in Players :
       \/ \E m \in Modes : enqueue(p, m)
       \/ cancel(p) \/ Disconnect(p) \/ Vanish(p) \/ Connect(p)
  \/ TimePasses \/ LeaseExpires \/ Stall
  \/ \E r \in Replicas :
       \/ Work(r) \/ Lead(r)
       \/ Skip(r) \/ TickFails(r) \/ Crash(r) \/ stopService(r) \/ Exit(r) \/ startService(r)

Spec == Init /\ [][Next]_vars

\* The timers keep ticking and keep contending for the lease, time passes, leases of
\* dead processes end, and a stopped replica is started again.  Nothing is assumed
\* of players.
FairSpec ==
  /\ Spec
  /\ WF_vars(TimePasses) /\ WF_vars(LeaseExpires)
  /\ \A r \in Replicas :
       WF_vars(Work(r)) /\ WF_vars(Lead(r)) /\ WF_vars(Exit(r)) /\ WF_vars(startService(r))

--------------------------------------------------------------------------------
(* Properties. *)

\* Every variable has its type; no ticket or timeout is ahead of the clock.
TypeOK ==
  /\ queue \subseteq Entry
  /\ clock \in 0 .. MaxJoins /\ horizon \in 0 .. clock
  /\ online \subseteq Players
  /\ lease \in Replicas \cup {Free, Dead}
  /\ seq \in Nat
  /\ up \in [Replicas -> {"up", "stopping", "down"}]
  /\ isLeader \in [Replicas -> BOOLEAN]
  /\ pc \in [Replicas -> {"idle", "incr", "claim", "push"}]
  /\ plan \in [Replicas -> SUBSET SUBSET Entry]
  /\ batch \in [Replicas -> SUBSET Entry]
  /\ match \in [Replicas -> Nat]
  /\ invites \subseteq Invite
  /\ faults \in 0 .. MaxFaults /\ overran \in BOOLEAN

\* One enqueue of a player leads to at most one match, whatever replicas take over
\* from whom: "a formed match still claims its players atomically via HDEL, which the
\* takeover leader also respects".
ClaimedOnce ==
  \A v, w \in invites : v.who = w.who /\ v.joinedAt = w.joinedAt => v.match = w.match

\* That holds until a tick runs without the lease, and only until then: a player who is
\* enqueued again, and leaders that crash, stop, fail and take over, never put one ticket
\* in two matches.
NoDoubleBooking == ~overran => ClaimedOnce

\* A match never mixes the players of two ticks: its notifications come from one
\* batch, hold at most MATCH_SIZE players and at most one notification each.
MatchWhole ==
  \A v \in invites :
    /\ Cardinality({w \in invites : w.match = v.match}) <= MATCH_SIZE
    /\ \A w \in invites : w.match = v.match /\ w.who = v.who => w = v

\* Nobody is stuck in the queue: an entry is claimed, replaced or withdrawn, although
\* leaders crash, stop and fail, and although its owner may be gone.
QueueDrains ==
  \A k \in 1 .. MaxJoins :
    (\E e \in queue : e.joinedAt = k) ~> ~(\E e \in queue : e.joinedAt = k)

\* Until something fails, the enqueue of a player who stays is answered by a
\* notification that comes after it, a lone player's after the timeout: whatever the
\* other players of his group do meanwhile.
Served ==
  \A p \in Players \ Leavers, k \in 1 .. MaxJoins :
    (\E e \in queue : e.who = p /\ e.joinedAt = k)
      ~> \/ \E v \in invites : v.who = p /\ v.at >= k
         \/ faults > 0

--------------------------------------------------------------------------------
(* The inductive invariant of the proofs (module MatchmakerProofs). *)

SameTicket(e, f) == e.who = f.who /\ e.joinedAt = f.joinedAt

Planned(r) == UNION plan[r]

\* Whoever ticks holds the lease, until a tick overruns.
Holding == ~overran => \A r \in Replicas : pc[r] # "idle" => lease = r

\* The life of a replica and of its tick agree.
Leading ==
  \A r \in Replicas :
    /\ isLeader[r] => up[r] = "up"
    /\ up[r] = "down" => pc[r] = "idle"
    /\ pc[r] = "idle" => plan[r] = {} /\ batch[r] = {}
    /\ pc[r] = "incr" => batch[r] = {}

\* No ticket is from the future.
Past ==
  /\ \A e \in queue : e.joinedAt <= clock
  /\ \A r \in Replicas : \A e \in Planned(r) \cup batch[r] : e.joinedAt <= clock
  /\ \A v \in invites : v.joinedAt <= clock

\* A player is at one place of the queue and of a tick.
Distinct ==
  /\ \A e, f \in queue : e.who = f.who => e = f
  /\ \A r \in Replicas :
       /\ \A e, f \in batch[r] : e.who = f.who => e = f
       /\ \A E, F \in plan[r] : \A e \in E, f \in F : e.who = f.who => e = f /\ E = F
       /\ \A e \in batch[r], f \in Planned(r) : e.who # f.who

\* Until a tick overruns, whoever is queued, planned or claimed has not been notified for
\* that ticket, and whoever is claimed is off the queue.
Unbooked == ~overran =>
  /\ \A e \in queue, v \in invites : ~SameTicket(e, v)
  /\ \A r \in Replicas :
       /\ \A e \in Planned(r) \cup batch[r], v \in invites : ~SameTicket(e, v)
       /\ pc[r] = "push" => \A e \in batch[r], f \in queue : ~SameTicket(e, f)

OneInviteEach == ~overran => \A v, w \in invites : SameTicket(v, w) => v = w

BookInv ==
  TypeOK /\ Leading /\ Past /\ Distinct /\ Holding /\ Unbooked /\ OneInviteEach

\* Match numbers.  A replica that forms a match has a number of its own, used by nobody
\* before it; it has notified each of its players at most once, and those it has notified
\* and those it has still to notify are no more than a match holds.
Forming(r) == pc[r] \in {"claim", "push"}
InvitesOf(n) == {v \in invites : v.match = n}

Numbered ==
  /\ IsFiniteSet(invites) /\ \A v \in invites : v.match <= seq
  /\ \A r \in Replicas : Forming(r) =>
       /\ match[r] <= seq
       /\ \A s \in Replicas \ {r} : Forming(s) => match[s] # match[r]
       /\ pc[r] = "claim" => InvitesOf(match[r]) = {}
       /\ \A v \in InvitesOf(match[r]), e \in batch[r] : v.who # e.who
       /\ Cardinality(InvitesOf(match[r])) + Cardinality(batch[r]) <= MATCH_SIZE

\* No two queued entries are of one age, and no group is larger than a match.
Sized ==
  /\ IsFiniteSet(queue) /\ \A e, f \in queue : e.joinedAt = f.joinedAt => e = f
  /\ \A r \in Replicas :
       /\ IsFiniteSet(batch[r])
       /\ \A E \in plan[r] : IsFiniteSet(E) /\ Cardinality(E) <= MATCH_SIZE

WholeInv == Numbered /\ Sized /\ MatchWhole
================================================================================
