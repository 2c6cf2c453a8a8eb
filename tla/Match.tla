---------------------------------- MODULE Match ----------------------------------
(***************************************************************************)
(* One Clash Squad match of the UDP match server (match-server/match.go,   *)
(* deathmatch.go, knockdown.go): the loop run() that owns all match state, *)
(* its phase machine, and the life of the participants in it - damage,     *)
(* knock-down, bleeding, rescue, death, round reset, quitting, admission.  *)
(*                                                                         *)
(* run() takes one event at a time: a packet handler from the mailbox      *)
(* (`stage' is "mail"), or a base tick, whose steps follow each other with *)
(* no handler in between: phase machine, zone, disconnects, knocks,        *)
(* rescues, heals.  The one thing another goroutine does is reserve a slot *)
(* (manager.join), which reads started and ended and then posts the        *)
(* admission to the mailbox: `pending'.                                    *)
(*                                                                         *)
(* Deadlines, timers, positions and hit reports are nondeterministic.      *)
(* What a client is shown, loadouts, coins, walls, flags and the total     *)
(* kill, death and damage counts are left out.                             *)
(***************************************************************************)
EXTENDS Integers, FiniteSets

CONSTANTS
  Humans,        \* sessions; a reconnecting client is a new one
  Bot, Nobody,   \* the filler bot; entity id 0
  NoKnock,       \* no knock record
  MaxHP, knockdownHP, knockBleedAmt, reviveHP,
  Damages,       \* bound: damage values of a hit
  maxRound, maxPlayers,
  Settings       \* the settings matches are made with

ASSUME HumansFinite == IsFiniteSet(Humans)
ASSUME IdsDiffer ==
  Bot \notin Humans /\ Nobody \notin Humans \cup {Bot}
    /\ NoKnock \notin Humans \cup {Bot, Nobody}
ASSUME HPPositive ==
  {MaxHP, knockdownHP, knockBleedAmt, reviveHP} \cup Damages \subseteq Nat \ {0}
ASSUME MatchBounds == {maxRound, maxPlayers} \subseteq Nat \ {0}
\* isCustom: a custom room's match, with the room's teams and no waiting; matchBot: a bot
\* fills in for missing opponents (MATCH_BOT).
SettingsRec == [isCustom : BOOLEAN, matchBot : BOOLEAN]
ASSUME MatchSettingsTyped == Settings \subseteq SettingsRec

VARIABLES settings, phase, stage, started, ended, closing, roundOver, round, teamScore,
          players, pending, team, bot, body, firstBlood,
          late   \* history: a hit was taken between the round reset and the fight

flow == <<settings, phase, started, ended, closing, roundOver, round, teamScore>>
roster == <<players, pending, team, bot>>
vars == <<settings, phase, stage, started, ended, closing, roundOver, round, teamScore,
          players, pending, team, bot, body, firstBlood, late>>

Entities == Humans \cup {Bot}
Teams == {1, 2}
roundsToWin == (maxRound + 1) \div 2

Phases == {"SetupBind", "SetupGap", "SetupWait", "Prepare", "Fight", "MatchEndPause",
           "PostBanner", "PostReviveBind", "PostBlack", "IntroWait", "Intro", "MatchEnd",
           "Cancelled"}

\* What the maps life, hp, knock and rescues hold for one entity: its life, its HP (0 when
\* it has no entry), the killer and the bleed pool of its knock record, and who is
\* rescuing it.
Body == [life : {"alive", "knocked", "dead"}, hp : Nat,
         knock : Entities \cup {Nobody, NoKnock}, pool : Nat, reviver : Humans \cup {Nobody}]

Up == [life |-> "alive", hp |-> MaxHP, knock |-> NoKnock, pool |-> 0, reviver |-> Nobody]
Absent == [Up EXCEPT !.hp = 0]

--------------------------------------------------------------------------------
(* Teams. *)

Participants == players \cup (IF bot THEN {Bot} ELSE {})
teamOf(e) == IF e = Bot THEN 2 ELSE team[e]
OnTeam(t) == {e \in Participants : teamOf(e) = t}
teamSize(t) == Cardinality(OnTeam(t))
Alive(t) == {e \in OnTeam(t) : body[e].life = "alive"}
HumansOn(t) == {p \in players : team[p] = t}

teamsReady ==
  /\ HumansOn(1) # {}
  /\ Cardinality(HumansOn(1)) = Cardinality(HumansOn(2))

\* allocSlot: a room's team as the token says, otherwise the team with fewer humans.
SlotTeams ==
  IF settings.isCustom
  THEN Teams
  ELSE {IF Cardinality(HumansOn(2)) < Cardinality(HumansOn(1)) THEN 2 ELSE 1}

\* Sessions once admitted: their packets are handled even after they left the roster.
Admitted == {h \in Humans : team[h] # 0}
Reserved == pending \cup Admitted

--------------------------------------------------------------------------------
\* admitFirst, and run() up to its loop.
Init ==
  /\ settings \in Settings
  /\ phase = "SetupBind" /\ stage = "mail"
  /\ started = FALSE /\ ended = FALSE /\ closing = FALSE /\ roundOver = FALSE
  /\ round = 1 /\ teamScore = [t \in Teams |-> 0]
  /\ pending = {} /\ bot = FALSE
  /\ \E h \in Humans, t \in (IF settings.isCustom THEN Teams ELSE {1}) :
       /\ players = {h}
       /\ team = [p \in Humans |-> IF p = h THEN t ELSE 0]
       /\ body = [e \in Entities |-> IF e = h THEN Up ELSE Absent]
  /\ firstBlood = Nobody /\ late = FALSE

--------------------------------------------------------------------------------
(* Admission. *)

canAdmit == ~ended /\ ~started /\ Cardinality(Reserved) < maxPlayers

\* manager.join: the slot is taken on what the loop's flags say now; the admission
\* itself waits in the mailbox.
reserve(h) ==
  /\ stage # "gone"
  /\ h \notin Reserved
  /\ canAdmit
  /\ pending' = pending \cup {h}
  /\ UNCHANGED <<flow, stage, players, team, bot, body, firstBlood, late>>

\* The posted admission runs, whatever has happened since; a bot makes room.
admitLater(h) ==
  /\ stage = "mail"
  /\ h \in pending
  /\ pending' = pending \ {h}
  /\ players' = players \cup {h}
  /\ \E t \in SlotTeams : team' = [team EXCEPT ![h] = t]
  /\ bot' = FALSE
  /\ body' = [body EXCEPT ![h].life = "alive", ![h].hp = MaxHP,
                          ![Bot].life = "alive", ![Bot].hp = 0]
  /\ UNCHANGED <<flow, stage, firstBlood, late>>

\* The leaver's entries go; a rescue of it or by it stays in the map.
removePlayer(h) ==
  /\ players' = players \ {h}
  /\ body' = [body EXCEPT ![h].life = "alive", ![h].hp = 0, ![h].knock = NoKnock,
                          ![h].pool = 0]

handlePlayerQuit(h) ==
  /\ stage = "mail"
  /\ h \in players
  /\ removePlayer(h)
  /\ UNCHANGED <<flow, stage, pending, team, bot, firstBlood, late>>

--------------------------------------------------------------------------------
(* Damage and death. *)

\* creditDeath for <<victim, killer>> pairs handled in some order: the first kill
\* across teams draws first blood.
creditDeath(pairs) ==
  LET across == {q \in pairs : q[2] # Nobody /\ teamOf(q[2]) # teamOf(q[1])}
  IN  IF firstBlood # Nobody \/ across = {}
      THEN UNCHANGED firstBlood
      ELSE firstBlood' \in {q[2] : q \in across}

killEntity(v, a) ==
  /\ body' = [body EXCEPT ![v].life = "dead", ![v].hp = 0]
  /\ creditDeath({<<v, a>>})

\* A knock record of `e' ends in death, and any rescue of it ends.
Finalized(e) == [Absent EXCEPT !.life = "dead"]

finalizeKnock(e) ==
  /\ body' = [body EXCEPT ![e] = Finalized(e)]
  /\ creditDeath({<<e, body[e].knock>>})

knockPlayer(v, a) ==
  /\ body' = [body EXCEPT ![v].life = "knocked", ![v].hp = knockdownHP,
                          ![v].knock = a, ![v].pool = knockdownHP]
  /\ UNCHANGED firstBlood

\* The last one standing of a team goes down: everyone knocked on it dies.
teamFellToZero(v, a) ==
  LET down == {e \in Entities : /\ body[e].knock # NoKnock
                                /\ body[e].life = "knocked"
                                /\ teamOf(e) = teamOf(v)}
  IN  /\ body' = [e \in Entities |-> IF e \in down \cup {v} THEN Finalized(e) ELSE body[e]]
      /\ creditDeath({<<v, a>>} \cup {<<e, body[e].knock>> : e \in down})

downOrKill(v, a) ==
  LET t == teamOf(v)
  IN  \/ teamSize(t) <= 1 /\ killEntity(v, a)
      \/ teamSize(t) > 1 /\ Alive(t) \ {v} # {} /\ knockPlayer(v, a)
      \/ teamSize(t) > 1 /\ Alive(t) \ {v} = {} /\ teamFellToZero(v, a)

\* The pool of a knock record shrinks, and is mirrored into the HP.
Drained(e, amount) ==
  /\ body' = [body EXCEPT ![e].hp = body[e].pool - amount, ![e].pool = @ - amount]
  /\ UNCHANGED firstBlood

\* Mutant: the pool is not clamped at 0.
damageKnockedUnclamped(v, dmg) ==
  /\ body[v].knock # NoKnock
  /\ Drained(v, dmg)

\* A downed player's pool takes the damage.
damageKnocked(v, dmg) ==
  /\ body[v].knock # NoKnock
  /\ \/ dmg >= body[v].pool /\ finalizeKnock(v)
     \/ dmg < body[v].pool /\ Drained(v, dmg)

applyDamage(v, a, dmg) ==
  /\ ~roundOver
  /\ \/ body[v].life = "knocked" /\ damageKnocked(v, dmg)
     \/ /\ body[v].life = "alive" /\ body[v].hp # 0
        /\ \/ dmg >= body[v].hp /\ downOrKill(v, a)
           \/ /\ dmg < body[v].hp
              /\ body' = [body EXCEPT ![v].hp = @ - dmg]
              /\ UNCHANGED firstBlood

\* cmd 106: a client reports a hit.  There is no check of the phase.
handleTakeDamage(v, a, dmg) ==
  /\ stage = "mail"
  /\ a \in Admitted
  /\ applyDamage(v, a, dmg)
  /\ late' = (late \/ phase # "Fight")
  /\ UNCHANGED <<flow, stage, roster>>

--------------------------------------------------------------------------------
(* Rescue. *)

startRescue(r, t) ==
  /\ stage = "mail"
  /\ r \in Admitted
  /\ body[t].life = "knocked" /\ body[r].life = "alive" /\ teamOf(r) = teamOf(t)
  /\ body[t].reviver = Nobody
  /\ body' = [body EXCEPT ![t].reviver = r]
  /\ UNCHANGED <<flow, stage, roster, firstBlood, late>>

stopRescue(r, t) ==
  /\ stage = "mail"
  /\ r \in Admitted
  /\ body[t].reviver = r
  /\ body' = [body EXCEPT ![t].reviver = Nobody]
  /\ UNCHANGED <<flow, stage, roster, firstBlood, late>>

\* Mutant: the knock record stays.
completeRescueKeepsKnock(b) ==
  [b EXCEPT !.life = "alive", !.hp = reviveHP, !.reviver = Nobody]

completeRescue(b) ==
  [b EXCEPT !.life = "alive", !.hp = reviveHP, !.knock = NoKnock, !.pool = 0,
            !.reviver = Nobody]

\* The test of stepRescue; an entity that left the match counts as alive.
Rescuable(t) == body[t].life = "knocked" /\ body[body[t].reviver].life = "alive"

\* stepRescue: void rescues are dropped, those whose time is up complete.
stepRescue(t) ==
  /\ stage = "rescue"
  /\ body[t].reviver # Nobody
  /\ body' = [body EXCEPT ![t] = IF Rescuable(t)
                                 THEN completeRescue(@)
                                 ELSE [@ EXCEPT !.reviver = Nobody]]
  /\ UNCHANGED <<flow, stage, roster, firstBlood, late>>

--------------------------------------------------------------------------------
(* The phase machine, first step of a tick. *)

enter(ph) == phase' = ph

startBuyPhase == started' = TRUE /\ enter("Prepare")

\* A room starts with whoever is there, a matchmade match waits for even teams.
enterPrepare ==
  IF ~started /\ ~teamsReady /\ ~settings.isCustom
  THEN enter("Prepare") /\ UNCHANGED started
  ELSE startBuyPhase

\* enterPrepare's and the expired wait's bot.
spawnFallbackBot ==
  /\ bot' = TRUE
  /\ body' = [body EXCEPT ![Bot].life = "alive", ![Bot].hp = MaxHP]

enterCancel == ended' = TRUE /\ enter("Cancelled")

\* The round's winner is team 1 if anybody of it stands, else team 2.
Winner == IF Alive(1) # {} THEN 1 ELSE 2

\* Mutant: only the local team is looked at.
LocalFell == Alive(1) = {}

TeamFell == Alive(1) = {} \/ Alive(2) = {}

\* Mutant: one win too many.
MatchOverLate(score) == (\E t \in Teams : score[t] > roundsToWin) \/ round >= maxRound

MatchOver(score) == (\E t \in Teams : score[t] >= roundsToWin) \/ round >= maxRound

endFight ==
  /\ phase = "Fight"
  /\ TeamFell
  /\ roundOver' = TRUE
  /\ teamScore' = [teamScore EXCEPT ![Winner] = @ + 1]
  /\ firstBlood' = Nobody
  /\ enter(IF MatchOver(teamScore') THEN "MatchEndPause" ELSE "PostBanner")
  /\ UNCHANGED <<started, ended, closing, round, bot, body, late>>

\* Mutant: knocks and rescues are not cleared.
reviveAllKeepsKnocks ==
  /\ body' = [e \in Entities |-> IF e \in Participants
                                THEN [body[e] EXCEPT !.life = "alive", !.hp = MaxHP]
                                ELSE body[e]]
  /\ roundOver' = FALSE /\ late' = FALSE

\* reviveAll: everybody back up, knocks, rescues and roundOver cleared.
reviveAll ==
  /\ body' = [e \in Entities |->
                IF e \in Participants
                THEN Up
                ELSE [body[e] EXCEPT !.knock = NoKnock, !.pool = 0, !.reviver = Nobody]]
  /\ roundOver' = FALSE /\ late' = FALSE

\* Prepare with players missing ends as soon as the teams are even.
StartEarly ==
  /\ phase = "Prepare" /\ ~started /\ teamsReady
  /\ startBuyPhase
  /\ UNCHANGED <<ended, closing, roundOver, round, teamScore, bot, body, firstBlood, late>>

\* A phase without more than its successor at its deadline.
After == [SetupBind |-> "SetupGap", SetupGap |-> "SetupWait", PostReviveBind |-> "PostBlack",
          IntroWait |-> "Intro"]

PlainEdge ==
  /\ phase \in DOMAIN After
  /\ enter(After[phase])
  /\ UNCHANGED <<started, ended, closing, roundOver, round, teamScore, bot, body, firstBlood, late>>

PrepareOpens ==
  /\ phase \in {"SetupWait", "Intro"}
  /\ enterPrepare
  /\ IF ~started /\ ~teamsReady /\ settings.isCustom /\ settings.matchBot /\ ~bot
     THEN spawnFallbackBot
     ELSE UNCHANGED <<bot, body>>
  /\ UNCHANGED <<ended, closing, roundOver, round, teamScore, firstBlood, late>>

\* Mutant: started is not looked at.
PrepareEndsUnlocked ==
  /\ phase = "Prepare"
  /\ ~settings.matchBot
  /\ enterCancel
  /\ UNCHANGED <<started, bot, body, closing, roundOver, round, teamScore, firstBlood, late>>

PrepareEnds ==
  /\ phase = "Prepare"
  /\ started \/ ~teamsReady
  /\ \/ /\ started
        /\ enter("Fight")
        /\ UNCHANGED <<started, ended, bot, body>>
     \/ /\ ~started /\ settings.matchBot
        /\ spawnFallbackBot
        /\ startBuyPhase
        /\ UNCHANGED ended
     \/ /\ ~started /\ ~settings.matchBot
        /\ enterCancel
        /\ UNCHANGED <<started, bot, body>>
  /\ UNCHANGED <<closing, roundOver, round, teamScore, firstBlood, late>>

postBannerEdge ==
  /\ phase = "PostBanner"
  /\ enter(IF \E p \in players : body[p].life # "alive" THEN "PostReviveBind" ELSE "PostBlack")
  /\ reviveAll
  /\ UNCHANGED <<started, ended, closing, round, teamScore, bot, firstBlood>>

NextRound ==
  /\ phase = "PostBlack"
  /\ round' = round + 1
  /\ enter("IntroWait")
  /\ UNCHANGED <<started, ended, closing, roundOver, teamScore, bot, body, firstBlood, late>>

\* matchEnd sends the results.
MatchEnds ==
  /\ phase = "MatchEndPause"
  /\ ended' = TRUE
  /\ enter("MatchEnd")
  /\ UNCHANGED <<started, closing, roundOver, round, teamScore, bot, body, firstBlood, late>>

\* Mutant: a cancelled match is not torn down.
CloseEndedOnly ==
  /\ phase = "MatchEnd"
  /\ ~closing
  /\ closing' = TRUE
  /\ UNCHANGED <<phase, started, ended, roundOver, round, teamScore, bot, body, firstBlood, late>>

\* tearingDown and close(m.done)
Close ==
  /\ phase \in {"MatchEnd", "Cancelled"}
  /\ ~closing
  /\ closing' = TRUE
  /\ UNCHANGED <<phase, started, ended, roundOver, round, teamScore, bot, body, firstBlood, late>>

Due == endFight \/ StartEarly \/ PlainEdge \/ PrepareOpens \/ PrepareEnds \/ postBannerEdge
         \/ NextRound \/ MatchEnds \/ Close

\* The deadline has not passed.
NotDue ==
  /\ ~(phase = "Fight" /\ TeamFell)
  /\ ~(phase = "Prepare" /\ ~started /\ teamsReady)
  /\ UNCHANGED <<flow, bot, body, firstBlood, late>>

TickDue ==
  /\ stage = "mail" /\ players # {}
  /\ Due
  /\ stage' = "zone"
  /\ UNCHANGED <<settings, players, pending, team>>

TickIdle ==
  /\ stage = "mail" /\ players # {}
  /\ NotDue
  /\ stage' = "zone"
  /\ UNCHANGED <<settings, players, pending, team>>

--------------------------------------------------------------------------------
(* The rest of a tick. *)

stepZone(p, dmg) ==
  /\ stage = "zone" /\ phase = "Fight"
  /\ p \in players /\ body[p].life = "alive"
  /\ applyDamage(p, Nobody, dmg)
  /\ UNCHANGED <<flow, stage, roster, late>>

\* At most one silent client a tick.
sweepDisconnects(h) ==
  /\ stage = "sweep"
  /\ h \in players
  /\ removePlayer(h)
  /\ stage' = "knock"
  /\ UNCHANGED <<flow, pending, team, bot, firstBlood, late>>

\* Every phase bleeds.
stepKnock(e) ==
  /\ stage = "knock"
  /\ body[e].knock # NoKnock
  /\ \/ body[e].pool <= knockBleedAmt /\ finalizeKnock(e)
     \/ body[e].pool > knockBleedAmt /\ Drained(e, knockBleedAmt)
  /\ UNCHANGED <<flow, stage, roster, late>>

\* stepHeal and stepEP.
stepHeal(p) ==
  /\ stage = "heal"
  /\ p \in players
  /\ body[p].life = "alive" /\ body[p].hp < MaxHP
  /\ body' = [body EXCEPT ![p].hp = @ + 1]
  /\ UNCHANGED <<flow, stage, roster, firstBlood, late>>

StageAfter == [zone |-> "sweep", sweep |-> "knock", knock |-> "rescue", rescue |-> "heal",
               heal |-> "mail"]

\* The step is done with everybody; void rescues do not outlive theirs.
StageDone ==
  /\ stage \in DOMAIN StageAfter
  /\ stage = "rescue" => \A t \in Entities : body[t].reviver # Nobody => Rescuable(t)
  /\ stage' = StageAfter[stage]
  /\ UNCHANGED <<flow, roster, body, firstBlood, late>>

\* done is closed, or a tick finds the roster empty; reap.
LoopEnds ==
  /\ stage = "mail"
  /\ closing \/ players = {}
  /\ stage' = "gone"
  /\ UNCHANGED <<flow, roster, body, firstBlood, late>>

--------------------------------------------------------------------------------
Tick == TickDue \/ TickIdle \/ StageDone \/ LoopEnds
  \/ \E p \in Humans : sweepDisconnects(p) \/ stepHeal(p) \/ \E d \in Damages : stepZone(p, d)
  \/ \E e \in Entities : stepKnock(e) \/ stepRescue(e)

Mail ==
  \E h \in Humans :
    \/ reserve(h) \/ admitLater(h) \/ handlePlayerQuit(h)
    \/ \E e \in Entities :
         \/ startRescue(h, e) \/ stopRescue(h, e)
         \/ \E d \in Damages : handleTakeDamage(e, h, d)

Next == Tick \/ Mail

Spec == Init /\ [][Next]_vars

\* The ticker never stops, a phase does not stay short of its deadline for ever, and the
\* select takes a closed channel in the end.  Nothing is assumed of clients.
FairSpec == Spec /\ WF_vars(Tick) /\ SF_vars(TickDue \/ LoopEnds)

--------------------------------------------------------------------------------
(* Properties. *)

\* Every variable has its type.
TypeOK ==
  /\ settings \in SettingsRec
  /\ phase \in Phases /\ stage \in DOMAIN StageAfter \cup {"mail", "gone"}
  /\ {started, ended, closing, roundOver, bot} \subseteq BOOLEAN
  /\ round \in 1 .. maxRound
  /\ teamScore \in [Teams -> 0 .. maxRound]
  /\ players \subseteq Humans /\ pending \subseteq Humans
  /\ team \in [Humans -> {0} \cup Teams]
  /\ body \in [Entities -> Body]
  /\ firstBlood \in Entities \cup {Nobody} /\ late \in BOOLEAN

\* Life, HP and knock record of a participant agree: one who is up can be hurt, one who
\* is down bleeds and is shown its pool as HP, one who is dead does neither.  Somebody up
\* with no HP could not be hit any more (applyDamage ignores HP 0), and the round would
\* never end.
Mortal ==
  \A e \in Participants :
    /\ body[e].life = "alive" => body[e].hp > 0 /\ body[e].knock = NoKnock
    /\ body[e].life = "knocked" =>
         body[e].hp > 0 /\ body[e].knock # NoKnock /\ body[e].hp = body[e].pool
    /\ body[e].life = "dead" => body[e].hp = 0 /\ body[e].knock = NoKnock

Decided == {"MatchEndPause", "MatchEnd"}
BetweenRounds == {"PostBanner", "PostReviveBind", "PostBlack"}

\* Every round has one winner, and the match is over exactly when a team has its
\* majority or the rounds are used up.
Tally ==
  /\ teamScore[1] + teamScore[2] =
       IF phase \in Decided \cup BetweenRounds THEN round ELSE round - 1
  /\ (phase \in Decided) <=>
       (\E t \in Teams : teamScore[t] >= roundsToWin) \/ teamScore[1] + teamScore[2] >= maxRound

\* A fight begins with everybody up, at full HP, without knocks or rescues left over from the
\* round before ("so a new round starts everyone up"); only a hit that is reported after the
\* round reset and before the fight, which handleTakeDamage does not refuse, can change that.
FreshRound ==
  [][phase # "Fight" /\ phase' = "Fight" => late \/ \A e \in Participants : body[e] = Up]_vars

\* A match that has begun is never called off, and its lock is never opened again.
NoCancelOnceStarted ==
  [][started => started' /\ phase' # "Cancelled"]_vars

\* Every phase but the fight itself ends: waiting players get their match or the lobby,
\* a decided round leads to the next one, an ended match is torn down.
PhasesEnd == (phase # "Fight") ~> (phase = "Fight" \/ stage = "gone")

\* A fight in which a whole team is down is scored, unless a late admission or a rescue
\* puts somebody back on it first.
FightDecided ==
  LET over == phase = "Fight" /\ (Alive(1) = {} \/ Alive(2) = {})
  IN  over ~> (~over \/ stage = "gone")
================================================================================
