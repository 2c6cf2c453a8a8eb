# Formal model of the Free Fire 1.70 server

TLA+ modules, TLC configurations and TLAPS proofs for the server tier in this
repository: the Node lobby and HTTP servers (`src/`), the sign-in servers (`auth/`), the
Go match server (`match-server/`) and what they share over Redis, Postgres, SQLite and
MongoDB. Paths below are relative to the repository root.

## 1. The system

| Component | State | Operations | Interacts with |
|---|---|---|---|
| Custom rooms, `src/tcp/rooms.js` | Redis: hash `rooms`, hash `room:members`, counter `room:seq`, keys `room:lock:<id>` | create, join, leave, kick, change, setReady, switchSeat, startMatch, reenter; list, get | run by every gateway; a closing socket runs leave |
| Room handlers, `src/tcp/handlers/Room*.js` | what each client shows; the handoff of a START | one per ROOM command, with its answer and its notifications | rooms, gateways, match servers |
| Match settings, `roomsettings.js`, `csadvanced.js`, `matchsettings.go` | Redis key per match | decode the dialogs' words and blob, write, load once | START, match server |
| Bus, `src/bus/index.js` | Redis: locks with lease, hashes, counters, presence keys, streams with consumer groups | acquire/renew/releaseLock, h*, incr, publish, subscribe | everything |
| Matchmaker, `src/tcp/matchmaker.js` | Redis: hash `mmqueue`, counter `mm:matchseq`, lease `mm:leader`; per replica `isLeader`, `ticking` | enqueue, cancel (gateways); leadership, tick, formMatch, stopService (replicas) | gateways, presence, fleet |
| TCP gateway, `src/tcp/gateway.js` | sockets, sessions map, presence keys | AUTH, frames, close, kick, heartbeat, `session.revoke`, `player.updated` | rooms, matchmaker, operator, HTTP tier |
| HTTP router and handlers, `src/protocol/router.js`, `src/handlers/` | none of their own | about a hundred endpoints; load, handler, save | accounts, gateway (pushes) |
| Accounts, `src/db/` | one row per account: a JSON document and columns derived from it; friend tables; settlement ledger | load, save, register, friend operations, settle | Postgres or SQLite |
| Settlement, `src/servers/settlement.js`, `match-server/results.go` | Redis stream, consumer group, ledger | publish, read in batches, settle player by player, acknowledge | match servers, accounts |
| Operator, `src/admin/` | none | setNickname, setRole, ban, unban, kick | accounts, auth store, gateways |
| Sign-in, `auth/login-server`, `auth/connect-server`, `auth/shared` | tables guests, accounts, pairings (Postgres or MongoDB) | dialog, polls, Discord callback, token refresh, logout, inspect | the game's WebView, a browser, Discord |
| CS match loop, `match-server/match.go`, `deathmatch.go`, `knockdown.go`, `combat.go` | phase, deadline, round, score, roster, bot, life/hp/knock/rescue maps | one goroutine: packet handlers from a mailbox, and the 50 ms tick | match manager, clients (UDP) |
| Match manager, `match-server/manager.go` | list of matches, reserved slots | join, register, reap | match loops |
| Loot, equipment, walls, consumables, economy, purchases | inventories, ground containers, walls, coins | pick up, drop, place, use, buy | match loop |
| UDP transport | sessions, retransmission queue, bounded mailbox | dispatch, ack, resend | match loop |

What is hard here, and what the properties are for (each item is in `PROJECT.json`
under `hazards`, with its line):

* **Interleaving at every `await`.** A room operation is five to eight Redis commands, a
  sign-in about ten queries, an HTTP request a load and a save of the whole document.
* **Leases.** Room lock and matchmaker leadership are keys with a TTL. A holder may die,
  stall past the TTL, or stop voluntarily in the middle of its work.
* **Reads before the lock, checks before the entry.** leave finds its room before it locks
  it; AUTH asks for the ban before the session exists that a ban would revoke.
* **Two writes where one is meant.** Record and index, claim and notification, the two
  places of the ban flag, guest row and account row, placeholder and document.
* **Whole-document saves.** Everybody who saves overwrites what others have written since.
* **Repeated delivery.** A stream entry, a poll, a browser callback, a close event.
* **Four maps for one body.** Life, HP, knock record and rescue of a player are changed by
  hits, zone, bleeding, team wipes, rescues, round resets, quits and the disconnect sweep.
* **Things that must happen.** Locks are freed, requests end, queued players are matched,
  revoked clients lose their channel, results are settled, phases end.

## 2. The modules

| Module | What it models |
|---|---|
| `RoomRules` | the rules of a room as operators on its record: who may do what, and what the record is then |
| `RoomsAtomic` | abstract specification: every room operation is one step |
| `Rooms` | the store as the gateways run it, one action per Redis command, with locks, leases, crashes and failing commands |
| `MatchSettings` | the settings words and the advanced blob from the host's dialog to the match server, as operators |
| `Lobby` | the ROOM handlers: notifications, what clients show, START and its handoff; extends `RoomRules` and `MatchSettings` |
| `Matchmaker` | queue, leader lease, tick and match formation command by command |
| `Gateway` | the sockets, sessions and presence of one account on several gateways, revokes, the operator's ban |
| `AccountDoc` | the account document and what each handler does to it |
| `Friends` | the friend lists and what each repository operation makes of them |
| `Profiles` | the row, the requests, logins, registration, operator and settlement around it; extends `AccountDoc` and `Friends` |
| `Pairing` | abstract specification of a sign-in bridge: opened once, decided once, taken once |
| `SignIn` | dialog, polls, callbacks, provisioning, tokens, expiry, query by query |
| `Match` | one match: phase machine, tick, admission, damage, knock, rescue, death, score |
| `RoomRulesProofs`, `RoomsProofs`, `LobbyProofs`, `MatchmakerProofs`, `GatewayProofs`, `ProfilesProofs`, `SignInProofs`, `MatchProofs` | the theorems |
| `MC*` | symmetry sets, scenarios and tables for TLC |

The composition follows the code: `Lobby` uses the operations of `RoomRules` as steps,
which `RoomsProofs!RoomsImplementAtomic` justifies; `Gateway`'s close is the `leave` request
of `Rooms` and the cancel of `Matchmaker`; the ban of `Gateway` is the one whose two database
writes are in `Profiles`.

**Rooms.** `rooms`, `index`, `seq`, `lock` are the four Redis structures. A request in
flight is a slot: its message (`req`), the command it issues next (`pc`), and its local
variables (`id`, `copy`, `todo`). Every action is one command of `rooms.js` with the
JavaScript up to the next `await`. `withRoomLock` is `Acquire`, `GiveUp`, `Release`;
a disconnect is a leave request. The record keeps owner, size, code, state and the members
with team and seat; names, maps, modes and settings are never looked at by an operation and
are left out, and so is `ready` (setReady still runs its commands). `SlowHolders` allows a
lease to run out under a live holder, `Faults` allows crashes and rejected commands.

**Lobby.** An operation and its notifications are one step, since lock release and publish
leave on one Redis connection; `wire[a]` holds what is under way to a client, `view[a]` what
it shows. The answer to CREATE and the handoff of START come after further awaits and are
steps of their own. START locks and reads the roster, stores the settings, then loads one
account after the other and pushes each its token; the match server reads the settings key
when the first player arrives, which may be before the last has been handed over.

**MatchSettings.** A choice is what the dialogs show, `pack` how the client writes it down
(external), `Intended` what it means; decoding in Node, the JSON payload and `loadMatchSettings`
in Go are translated with their widths (bit fields, one byte per price and event step, three
bytes per round) and their fallbacks (a blob that ends too early is dropped as a whole). The
CSV tables are constants, small ones in `MCLobby`.

**Matchmaker.** `queue`, `seq`, `lease`, `online` are Redis; `up`, `isLeader`, `pc`,
`plan`, `batch`, `match` belong to a replica. `joinedAt` is the number of the enqueue
rather than a time: only the order and "older than the timeout" matter, and the latter is
`horizon`, which may move up to the newest entry at any moment. A tick decides on the
answer of HGETALL which groups to form and then forms them one after the other, each with
INCR, HDEL and a push per player, in any order of the groups. A leader that stalls loses its
lease (`Stall`) and demotes itself at its next renewal (`Demote`). Until then it holds itself
for the leader: `tick` asks `isLeader` and never the lease, as in the code, and a tick in flight
also goes on while `stopService` hands the lease to the standby (`Running`). `overran` is
history: some tick has begun, or gone on, without the lease.

**Gateway.** One account, since accounts meet nowhere in this code. A socket is open, shut
(its close event still to come) or closed; `pc` is where its AUTH stands between the two
queries. The heartbeat, the expiry of the presence key, revokes and updates are actions of
their own; a crash takes a gateway's sockets, timers and subscriptions along. `raced` and the
version numbers are history.

**Profiles.** The row is `token`, `nickname`, `clan_id` and the document; a request is a slot
that has loaded (`loaded`) and not yet saved. A handler of `AccountDoc` is the set of
documents it may leave, over what a client can send; the fields kept are those a property
speaks about or several handlers touch, the others are one field `opt`. `early` is history:
the request arrived before the ban was complete. The order of the characters is left open but
for the first (`FirstOf`), the one character that GetProfiles hides is `BlockedAvatar`, and
`BlockedSkill` is its id as a skill, which hides whoever has it equipped; SelectProfile accepts
them all. With SQLite there is no auth store (`isEnabled`). The settlement worker reads batches of the
stream, settles one player per transaction, acknowledges, and may fail or crash between any
two. With "sqlite" in the scenario the repository is synchronous and the friend lists are
part of the document.

**SignIn.** `page` is the WebView's script, `poll` the requests of it that a server has,
`cb` the browser callbacks with their local variables, `op` the token requests. Random ids
are fresh by construction. A read of Postgres does not see an expired row, one of MongoDB
does. `dead` and `served` are history.

**Match.** A tick runs phase machine, zone, disconnect sweep, bleeding, rescues and heals
in this order, with no packet handler in between; `stage` says where it is, `"mail"`
between ticks. Deadlines, positions and timers are nondeterministic: a phase may end at
any tick, anybody may be out of the zone, a bleed may be due or not. `Body` puts together
what the maps `life`, `hp`, `knock` and `rescues` hold for one entity; an absent entry
reads as alive with HP 0 (`lifeOf`, and `applyDamage`'s early return). Someone who quit is
out of `players` but his packets are still handled, as in `main.go`, whose session table
keeps him. `reserve` is the only step of another goroutine and may fall into a tick. Hits are
reported in any phase; `late` is history: one was taken between the round reset and the fight.
The dev switches `holdPrepare`, `noZone` and `unlimitedMoneyTest` are not modelled.

## 3. The runs

`tlc -config <run>.cfg <module>`; all bounds are CONSTANTS named in the modules.

| Run | Instance | Checks | Result |
|---|---|---|---|
| `rooms_seats` | 3 accounts, 2 requests in flight, 1 room of 2 or 3 | TypeOK, Seating, IndexSound, NoResurrection, AdmissionRule, Atomicity (refinement of `RoomsAtomic`) | hold |
| `rooms_faults` | 2 accounts, 1 room with a join code, start and reenter, crashes and rejected commands, fair | RequestsEnd, LocksFreed | hold |
| `rooms_dismiss` | 2 leaves of one account in flight | DismissalJustified | violated, finding |
| `mm` | 2 players, one of whom may leave, 2 replicas, 3 enqueues and faults together (at most 2 faults: crash, stop, stall, failing tick, missing account), fair | NoDoubleBooking, MatchWhole, QueueDrains, Served | hold |
| `mm_overrun` | 3 players, 2 replicas, 1 fault | ClaimedOnce | violated, finding |
| `gateway` | 2 gateways, 2 sockets; one scenario each with a ban, a kick, two profile writes, application frames, a fault; fair | OneChannel, ReconnectSpared, RevokedCloses, BanHolds, OnlineShown | hold |
| `gateway_ghost` | 1 gateway, 2 sockets, clients that come and go, fair | PresenceCleared | violated, finding |
| `profiles` | 2 requests in flight, 22 mixes of endpoints, 2 logins, 2 results of 2 players, batches of 2, 1 fault | TypeOK, ColumnsAgree, Wardrobe, NoOverpay, FriendsMutual, BanGates, Settled | hold |
| `profiles_credit` | a purchase and a settlement | CreditsKept | violated, finding |
| `lobby` | 3 accounts, rooms of 2, 4, 6, 1 match, 7 mixes of commands and of host's choices | ViewsAgree, HandoffWhole, SettingsApplied, GridComplete | hold |
| `signin` | 2 people, 2 dialogs, 2 polls, 2 callbacks, 2 token requests; Postgres and MongoDB; lost polls, expiry, failing queries, blocks | Identity, SingleUse, ClearedStaysCleared, PairingLife (refinement of `Pairing`) | hold |
| `match` | 2 humans and the bot, room or queue, 2 HP, best of 3, hits in any phase, fair | TypeOK, Mortal, Tally, FreshRound, NoCancelOnceStarted, PhasesEnd, FightDecided | hold |

*Scenarios.* Gateway, Profiles, Lobby and SignIn choose in Init which kinds of event a
behaviour has. Each scenario mixes the operations that touch the same fields; all of them
together would only add interleavings of steps that commute. The five handlers that touch a
character's look are checked in three overlapping mixes; WardrobeHolds covers all five together.

*Why the bounds are enough to be interesting.* Two requests in flight are what every race
on a room, a row or a pairing consists of; three accounts are an owner, a member and somebody
in between, or a joiner; sizes 2 and 3 make full rooms, rooms shrunk below their members, and
teams of one and of two. Two replicas are a leader and a standby; three enqueues of two players
are a player who comes back, and two enqueues with a fault are a takeover in the middle of a
match for two. Two sockets of one account on two gateways meet on one gateway or
on two, with the old one's close before, during and after the new one's AUTH. Two logins make a
token that the other invalidates; two results make a batch, a repeated result and two different
ones. Two humans and a bot make a team of two against one, so that knock and rescue happen;
best of three reaches a second and a third round and both ways a match ends. HP 2 with damage 1
and 2 gives wounds, exact kills and overkill. What does not fit such bounds is proved for all of
them: IndexSound, for instance, is interesting when an account is in two rooms, which
`RoomsProofs!IndexHolds` covers. Every invariant and every action property of these runs is also
a theorem (section 5).

*Deadlock.* Checked except where clients may simply stop (bounded sign-ins, ended matches, and
in `mm_overrun` bounded enqueues).

*Fairness.* Rooms: each request's next command is weakly fair (the event loop resumes a
settled promise, Redis answers or rejects) and leases of dead holders end. Matchmaker: the
two `setInterval` timers of a live replica, expiry of dead leases, time, and a supervisor that
restarts a stopped replica (`docker-compose.yml` restarts its services). Gateway: the steps of
AUTH, the destroy timer, the close event, the heartbeat, the delivery of a revoke and the expiry
of the key, each for its socket or gateway; nothing is assumed of the operator, of clients or of
restarts. Profiles: the worker's loop (weak fairness of `Settlement`), nothing of requests.
Match: the ticker never stops (weak fairness of `Tick`), and a phase does not stay short of its
deadline for ever (strong fairness of `TickDue \/ LoopEnds`, strong because packets come in
between and because Go's `select` picks at random among the ready channels).

## 4. What the runs found

* `rooms_dismiss`: leave() dismisses a room that has one member left even if the caller is
  not that member. A LEAVE and the socket's close of one account, both past the index
  lookup, remove the account and then delete the owner's room.
* `mm_overrun`: `tick` looks only at the replica's own `isLeader`, so a leader that stalled past
  its lease and its successor are in a tick at the same time, where `matchmaker.js:14` says
  "exactly ONE is the ACTIVE processor at a time" and 146-147 "so at most one replica ever forms
  matches". formMatch does not look at how many players its HDEL removed, so both invite the same
  player; the header (16-18) says the claim prevents this. A graceful stop during a tick does the
  same (135-143). No property claims that one replica ticks at a time.
* `profiles_credit`: a request that loaded the document before a match was settled saves it
  afterwards, coins included, and the ledger keeps the reward from being credited again.
* `gateway_ghost`: a socket that closes while AUTH waits for its queries is registered
  afterwards; its close event is over, so session and presence stay and the heartbeat renews
  them.

Met while modelling, and kept out of the claims (TLC refutes the stronger statement when the
switch is set or the exception is removed):

* The room lock is a 3000 ms lease without renewal or fencing: with `SlowHolders = TRUE` the
  refinement of `RoomsAtomic` fails.
* An admission reserved before the start of a match runs after it (`matchhandle.go:53`), into
  a match that `match.go:80` calls locked.
* `handleTakeDamage` does not look at the phase (`combat.go:51-66`): a hit reported after the
  round reset is taken and shows in the next fight. FreshRound excepts exactly these fights
  (`late`) and says that nothing else of a round reaches the next.
* `SelectProfile` and `EquipSkill` accept what `GetProfiles` hides: once the selected character is
  hidden, GetProfiles flags another and saves two flags, where `GetProfiles.js:28` says "exactly
  one profile is flagged selected". Wardrobe says what holds all the same: the character rendered
  is one of the flagged, in its current outfit.
* With SQLite the auth store is disabled and a ban is only in the document, where an old save
  erases it; `BanGates` is stated for Postgres.
* A refresh in flight writes a new access token after a logout (`tokens.js:45-50`,
  `guests.pg.js:106-111`); ClearedStaysCleared speaks of the tokens that were cleared.
* Stream entries whose handler failed stay pending, but only new ones (`>`) are ever read
  (`bus/index.js:74` against its comment in 59-61 and `settlement.js:68`): `Settled` is stated
  up to the first failure.
* A CREATE holds no lock: a JOIN by code may be broadcast to the host before the answer that
  does not know the joiner. `ViewsAgree` excepts these hosts (`raced`).
* A socket in AUTH passes between the ban's flags and its revoke. `BanHolds` excepts it.
* After a conflict on `dc_id` withUidRetry computes another uid but meets the same conflict, so
  of two first sign-ins of one person one fails (`auth/shared/src/ids.js:28-31`).
* MongoDB: the result of deleteOne is not looked at, so two polls can both get the outcome
  (`pairings.mongo.js:67-71`, where `pairings.pg.js:6` says the semantics match exactly); `uid`
  is not unique there; expired pairings are still found. `SingleUse` and the second half of
  `Identity` are therefore stated for Postgres.
* SQLite keeps friend lists in the documents: a whole-document save that races a confirmation
  makes a friendship one-sided. `FriendsMutual` is stated for Postgres. ConfirmFriendRequest
  does not look for a pending request.
* Settings: a CHANGE with an empty blob keeps the old advanced settings (`rooms.js:330`); with
  255 rounds `roundsToWin` would leave its byte; an event table with some of the events reads the
  others as 0 in Go.

## 5. What is proved

For every value of the constants that satisfies the ASSUMEs (any number of accounts,
requests, rooms, sizes, sockets, gateways, people, callbacks, replicas, rounds, HP), checked by
TLAPS:

* `RoomsProofs!TypeCorrect`: types, with all faults and slow holders.
* `RoomsProofs!SeatingHolds`, `AdmissionHolds`, if no lease runs out under its holder
  (`~SlowHolders`). Seating is not inductive: a saved record is the copy a request computed
  earlier. The strengthening is that a request inside its section owns the lock of its room
  (`LockOwned`, `HoldersInside`), that its copy is a legal outcome of the record still stored
  (`CopyOK`, `CopyCurrent`), and that ids about to be created are unused (`IdsFresh`).
  `RoomRulesProofs` supplies, per operation, that a legal outcome of a well-seated room is
  well-seated, and that only join adds accounts.
* `RoomsProofs!IndexHolds`, without slow holders and faults. `IndexInv` adds that ids in the
  index have been drawn (`IndexFresh`), and for each request between its two writes which entry
  it still owes (`IndexBacked`).
* `RoomsProofs!NoRoomRises`: a dismissed room never comes back. A record can only be written
  where there is one (`CopyCurrent`) or under a fresh id (`IdsFresh`).
* `RoomsProofs!RoomsImplementAtomic`: `Rooms` implements `RoomsAtomic` with `rooms` mapped to
  itself: every save or delete is the step of the abstract operation that produced the copy,
  everything else a stutter.
* `RoomRulesProofs!JoinFindsSeat`: in a well-seated room below its limit the team that pickTeam
  chooses has a free seat, so join's fallback to seat 0 is dead code, even after the owner has
  shrunk the room.
* `MatchmakerProofs!BookedOnce`: one ticket, one match, until a tick has run without the lease.
  `BookInv` says that the holder of the lease leads (`Leading`), that until then every tick runs
  under it (`Holding`), that no ticket is from the future (`Past`), that a player is at one place
  of queue and tick (`Distinct`), and, again until then, that who is queued, planned or claimed
  has not been notified for that ticket (`Unbooked`).
* `MatchmakerProofs!WholeMatches`, for all ticks, also those that overlap: `WholeInv` says that a
  match number is used by one batch (`Numbered`) and that batches fit (`Sized`).
* `GatewayProofs!ChannelHolds`, `ReconnectHolds`: the sessions map and the open authenticated
  sockets agree. `ChannelInv` adds that a socket with work left belongs to a gateway that is up.
* `GatewayProofs!BanSealed`: the safety half of BanHolds. Once a ban is complete, every open
  channel has its end under way (destroy timer or unhandled revoke), but for those that were in
  AUTH when the revoke was handled. `SealInv` says the same of sockets still in AUTH with an
  answer from before the ban (`Exposed`), and that a kicked socket is past AUTH. What liveness
  adds, and TLC checks, is that timer and revoke run.
* `ProfilesProofs!FriendsHold`: each repository operation keeps the lists mutual, and no other
  step touches them.
* `ProfilesProofs!BansGate`, on Postgres: no late request passes the gate. `GateInv` says that a late request
  can only exist once the auth store has the flag, that the flag stays without an unban, and
  what is known of a request past the gate.
* `SignInProofs!IdentityHolds`, `OutcomeServedOnce`, `ClearedHolds`: from `SignInInv`, which adds
  that a row is what its status says (`RowsOK`), that a served pairing is gone (`ServedGone`),
  that a callback past the lookup carries its person's uid (`CarriesUid`), that every token
  belongs to one identity and none of them is dead (`TokensApart`), and that uids are below the
  next one (`UidsBounded`).
* `SignInProofs!SignInImplementsPairing`: `SignIn` implements `Pairing`, on both stores, with a
  page's phase read off its script and its row.
* `MatchProofs!TallyHolds`, `NeverCancelled`: for every number of rounds, one winner a round, the
  match over exactly at the majority or the last round, and no cancellation once started.
  `FlowInv` adds the ranges and that a cancelled match was never started; it needs only the
  phase machine, since no handler touches its variables.
* `MatchProofs!MortalHolds`: life, HP and knock record agree for every number of players and
  every HP and damage value, with hit reports in any phase. Mortal is not inductive: admission
  and the bot's arrival write life and HP but leave the knock record. `LifeInv` adds why it is
  clear: a session is admitted once and nothing happens to it before, and a bot comes only before
  the start. Every other change of a body is shown to map sound bodies to sound ones (`Becomes`).
* `MatchProofs!TypeCorrect`: types, from the two invariants above.

* `MatchProofs!RoundsFresh`: every fight begins with everybody up, unless a hit was reported
  after the round reset. The property looks at one step; `FreshInv` is what the many before it
  keep: from `reviveAll` (or the first admission) to the fight or to the first such hit all
  participants are up. It needs
  `LifeInv`: whoever comes in later, session or bot, has not been touched before.

`ProfilesProofs`, for any requests in flight, logins, results, rosters, batches and faults, on
Postgres and SQLite:

* `TypeCorrect`, `ColumnsHold`, `WardrobeHolds`, `NeverOverpaid`, all from `AccountInv`
  (`RowInv`, `ProcInv`, `CountInv`, `SettleInv`). The point of it is that a request keeps a
  document of any age and saves it whole, so what is claimed of the row has to hold of every
  document in flight as well (`InFlight`), and has to stay true of an old one.
* Wardrobe has to hold of every document in flight too (`Dressed`): GetProfiles and GetBackpack
  rely on a flag that is there, ChangeClothes on the rendered character being a flagged one. Each
  handler is shown to keep it (`SelectKeeps`, `ClothesKeep`, `ProfilesKeep`, `BackpackKeeps`).
* NoOverpay compares coins with a sum over the ledger. `Sound` says it of documents in flight
  too; they stay sound since the ledger only grows. That the sum grows by exactly the award of
  the entry added is the lemma on `AwardSum`. The sum is a fold of the community modules, that
  is, a CHOOSE of a recursive function on all subsets. The proof first shows by induction on
  cardinality that such a function exists and then reads its equation off.

`LobbyProofs`, for any players, room sizes, numbers of STARTs and mixes of commands:

* `ViewsHold`: once nothing is under way, clients show what the store has. `PushInv` says what the
  pushes under way to a client amount to (`UpToDate`): the last carries the record as it is now,
  one that puts the client out of its room can only be the last, and one that admits it only the
  first, while it shows no room. Around it: a client that is not connected shows nothing and sits
  nowhere once its leave has run (`Offline`); the host of an unanswered CREATE owns the room as it
  was created, unless overtaken (`Creating`), in which case nothing is claimed of it (`raced`).
* `HandoffHolds`: `Handed` follows a START member by member: served members hold a token or were
  skipped, never both; the others neither; all tokens name the server drawn at the beginning.
* `SettingsLanded`, `SettingsHold`: the way of the settings has two halves. The protocol's
  half is proved without further hypotheses: `Carried` says that nothing is read before the write
  is over, and that the key then holds what the record stored when START locked it; and a record
  stores the bits of one CREATE or CHANGE with the blob of the same or an earlier one (`Configs`).
  The codec's half, `CodecFaithful` (powers of two, byte arithmetic, recursion over the blob), is
  the hypothesis of `SettingsHold`. TLC evaluates it for the choices of the run
  (`MCLobby!CodecHolds`).
* `GridHolds`: the seat grid loses nobody. The grid is a fold over the member list; as above it
  is shown to exist and unrolled place by place (`GridStep`). After k members it shows exactly
  those k and has at most k seats taken (`Partial`), so while members are no more than seats,
  `place` finds an empty one.

Assumptions on constants that the proofs rest on are the ASSUMEs of the modules. Those that are
not mere types: account ids are not 0, the mark of an empty seat (`Lobby!IdsAreNotZero`; ids are
drawn from 10000001 on, `src/db/accounts.js:66`); scenarios offer only sizes a room can have
(`ScenariosOffered`); the roster of a result is a list of people with the account among them, and
requests in flight are finitely many (`ProfilesAssumption`).

*Induction.* The library's induction theorems take an operator, which the provers cannot
instantiate. Where induction over numbers or finite sets is needed it is made from the
well-foundedness of < on the naturals: a non-empty set of counterexamples has a least element
(`NumbersFrom0`, `LeastIn`, `SubsetsFromEmpty`).

Only model-checked:

* Liveness, since fairness and ENABLED are out of the prover's reach: RequestsEnd, LocksFreed,
  QueueDrains, Served, RevokedCloses, BanHolds, OnlineShown, Settled, PhasesEnd, FightDecided.
* The codec of the settings, `CodecFaithful`.

## 6. Not modelled

* Codecs, wire messages, framing, crypto, tokens' bytes, static data, pages, tooling: data
  conversion without protocol state.
* HTTP handlers that read the document or a table and answer; the replay guard (off by default).
* Match server: coins, loadouts, inventories, loot, walls, grenades, emotes, the streams to the
  clients and the spectator focus. They run inside the match goroutine, one handler at a time;
  their state is disjoint from the maps of `Match`.
* UDP transport: acknowledged and repeated datagrams, the mailbox of 256.
* The match manager beyond one match: routing of joins between several, reconnect, reaping.
* Fleet heartbeats: the list of servers is any set.

Next on the plan: `MatchManager` with several matches and reconnects, composed with `Match`'s
admission; the economy of a round; transport with repeated datagrams. Theorems: that
`Match` implements a plain score keeper, and the flat part of the settings codec (bit fields).
