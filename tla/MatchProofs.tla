------------------------------- MODULE MatchProofs -------------------------------
(***************************************************************************)
(* Proofs about one match, for every number of sessions, rounds, HP and    *)
(* damage values; hits are reported in any phase.                          *)
(***************************************************************************)
EXTENDS Match, TLAPS

--------------------------------------------------------------------------------
(* The score and the phase machine. *)

\* What the phase machine alone keeps: a fight, and all that follows, is under way only
\* in a started match, a cancelled one was never started, and the score is right.
FlowInv ==
  /\ phase \in Phases
  /\ round \in 1 .. maxRound
  /\ teamScore \in [Teams -> Nat]
  /\ started \in BOOLEAN
  /\ phase = "Cancelled" => ~started
  /\ Tally

\* The arithmetic of a scored round: one more win, and the match is decided or it is not.
LEMMA EndFightScores ==
  ASSUME FlowInv, endFight
  PROVE  FlowInv'
<1> USE MatchBounds DEF FlowInv
<1>1. Winner \in Teams
  BY DEF Winner, Teams
<1>2. /\ teamScore' \in [Teams -> Nat]
      /\ teamScore'[1] + teamScore'[2] = teamScore[1] + teamScore[2] + 1
  BY <1>1 DEF endFight, Teams
<1>3. teamScore[1] + teamScore[2] = round - 1 /\ round' = round /\ started' = started
  BY DEF endFight, Tally, Decided, BetweenRounds
<1>4. phase' = IF MatchOver(teamScore') THEN "MatchEndPause" ELSE "PostBanner"
  BY DEF endFight, enter
<1>5. Tally'
  <2>1. teamScore'[1] + teamScore'[2] = round
    BY <1>2, <1>3
  <2>2. (phase' \in Decided) <=> MatchOver(teamScore')
    BY <1>4 DEF Decided
  <2>3. phase' \in Decided \cup BetweenRounds
    BY <1>4 DEF Decided, BetweenRounds
  <2> QED
    BY <1>3, <2>1, <2>2, <2>3 DEF Tally, MatchOver, Decided, BetweenRounds
<1> QED
  BY <1>2, <1>3, <1>4, <1>5 DEF Phases

\* One step of any action keeps FlowInv.
LEMMA FlowStep ==
  ASSUME FlowInv, [Next]_vars
  PROVE  FlowInv' /\ (started => started' /\ phase' # "Cancelled")
<1> USE MatchBounds DEF FlowInv
<1>1. CASE UNCHANGED flow
  BY <1>1 DEF flow, Tally, Decided, BetweenRounds
<1>2. CASE TickDue
  <2>1. CASE endFight
    BY <2>1, EndFightScores DEF endFight, enter
  <2>2. CASE StartEarly \/ PrepareOpens \/ PrepareEnds
    <3>1. /\ phase \in {"SetupWait", "Intro", "Prepare"}
          /\ \/ phase' \in {"Prepare", "Fight"} /\ started' \in BOOLEAN /\ (started => started')
             \/ phase' = "Cancelled" /\ ~started /\ started' = started
          /\ UNCHANGED <<round, teamScore>>
      <4>1. CASE StartEarly
        BY <4>1 DEF StartEarly, startBuyPhase, enter
      <4>2. CASE PrepareOpens
        BY <4>2 DEF PrepareOpens, enterPrepare, startBuyPhase, enter
      <4>3. CASE PrepareEnds
        <5>1. CASE started
          BY <4>3, <5>1 DEF PrepareEnds, enter
        <5>2. CASE ~started /\ phase' = "Prepare" /\ started' = TRUE
          BY <4>3, <5>2 DEF PrepareEnds
        <5>3. CASE ~started /\ phase' = "Cancelled" /\ started' = started
          BY <4>3, <5>3 DEF PrepareEnds
        <5> QED
          BY <4>3, <5>1, <5>2, <5>3 DEF PrepareEnds, startBuyPhase, enter, enterCancel
      <4> QED
        BY <2>2, <4>1, <4>2, <4>3
    <3> QED
      BY <3>1 DEF Tally, Decided, BetweenRounds, Phases
  <2>7. CASE PlainEdge
    <3>1. /\ \/ phase = "SetupBind" /\ phase' = "SetupGap"
             \/ phase = "SetupGap" /\ phase' = "SetupWait"
             \/ phase = "PostReviveBind" /\ phase' = "PostBlack"
             \/ phase = "IntroWait" /\ phase' = "Intro"
          /\ UNCHANGED <<started, round, teamScore>>
      BY <2>7 DEF PlainEdge, After, enter
    <3> QED
      BY <3>1 DEF Tally, Decided, BetweenRounds, Phases
  <2>3. CASE postBannerEdge
    BY <2>3 DEF postBannerEdge, enter, Tally, Decided, BetweenRounds, Phases
  <2>4. CASE NextRound
    BY <2>4 DEF NextRound, enter, Tally, Decided, BetweenRounds, Phases
  <2>5. CASE MatchEnds
    BY <2>5 DEF MatchEnds, enter, Tally, Decided, BetweenRounds, Phases
  <2>6. CASE Close
    BY <2>6 DEF Close, Tally, Decided, BetweenRounds
  <2> QED
    BY <1>2, <2>1, <2>2, <2>3, <2>4, <2>5, <2>6, <2>7 DEF TickDue, Due
<1>3. CASE [Next]_vars /\ ~TickDue
  <2>1. UNCHANGED flow
    BY <1>3 DEF Next, vars, Tick, Mail, TickIdle, NotDue, StageDone, LoopEnds,
      sweepDisconnects, stepHeal, stepZone, stepKnock, stepRescue, reserve, admitLater,
      handlePlayerQuit, startRescue, stopRescue, handleTakeDamage, flow
  <2> QED
    BY <1>1, <2>1
<1> QED
  BY <1>2, <1>3

\* FlowInv holds of every behaviour.
LEMMA FlowInvariant == Spec => []FlowInv
<1>0. roundsToWin \in Nat \ {0} /\ maxRound \in Nat \ {0}
  BY MatchBounds DEF roundsToWin
<1>1. Init => FlowInv
  <2> SUFFICES ASSUME Init PROVE FlowInv
    OBVIOUS
  <2>1. /\ phase = "SetupBind" /\ started = FALSE /\ round = 1
        /\ teamScore = [t \in Teams |-> 0]
    BY DEF Init
  <2>2. Tally
    <3>1. \A t \in Teams : teamScore[t] = 0
      BY <2>1
    <3>2. teamScore[1] = 0 /\ teamScore[2] = 0
      BY <3>1 DEF Teams
    <3> QED
      BY <1>0, <2>1, <3>1, <3>2 DEF Tally, Decided, BetweenRounds
  <2>3. phase \in Phases
    BY <2>1 DEF Phases
  <2>4. teamScore \in [Teams -> Nat]
    BY <2>1
  <2>5. round \in 1 .. maxRound
    BY <1>0, <2>1
  <2>6. started \in BOOLEAN /\ (phase = "Cancelled" => ~started)
    BY <2>1
  <2> QED
    BY <2>2, <2>3, <2>4, <2>5, <2>6 DEF FlowInv
<1> QED
  BY <1>1, FlowStep, PTL DEF Spec

\* endFight, NextRound: every round is won once, and the match ends exactly when a team
\* has the majority or the rounds are used up, for every number of rounds.
THEOREM TallyHolds == Spec => []Tally
<1>1. FlowInv => Tally
  BY DEF FlowInv
<1> QED
  BY <1>1, FlowInvariant, PTL

\* enterCancel: a match once started is not called off and not unlocked.
THEOREM NeverCancelled == Spec => NoCancelOnceStarted
<1>1. FlowInv /\ [Next]_vars => [started => started' /\ phase' # "Cancelled"]_vars
  BY FlowStep
<1> QED
  BY <1>1, FlowInvariant, PTL DEF Spec, NoCancelOnceStarted

--------------------------------------------------------------------------------
(* Life and death. *)

\* What Mortal says of one participant.
Sound(b) ==
  /\ b.life = "alive" => b.hp > 0 /\ b.knock = NoKnock
  /\ b.life = "knocked" => b.hp > 0 /\ b.knock # NoKnock /\ b.hp = b.pool
  /\ b.life = "dead" => b.hp = 0 /\ b.knock = NoKnock

\* Mortal is not inductive: an admission and the bot's arrival write life and HP but not
\* the knock record.  It is clear because a session is admitted once, nothing happens to
\* it before, and a bot comes only before the start and so at most once.
LifeInv ==
  /\ players \subseteq Humans /\ pending \subseteq Humans
  /\ team \in [Humans -> {0} \cup Teams]
  /\ bot \in BOOLEAN /\ started \in BOOLEAN
  /\ body \in [Entities -> Body]
  /\ players \subseteq Admitted /\ pending \cap Admitted = {}
  /\ \A h \in Humans : team[h] = 0 => body[h] = Absent
  /\ ~started => ~bot /\ body[Bot] = Absent
  /\ Mortal

\* A body may become another: it keeps its type, stays sound, and is nobody's still if it
\* was nobody's.
Becomes(b, c) == c \in Body /\ (Sound(b) => Sound(c)) /\ (b = Absent => c = Absent)

\* A step that leaves the roster alone and lets every body become what it may.
LEMMA QuietStep ==
  ASSUME LifeInv, UNCHANGED roster, started' \in BOOLEAN, started => started',
         body' = [e \in Entities |-> body'[e]],
         \A e \in Entities : Becomes(body[e], body'[e])
  PROVE  LifeInv'
<1>1. body' \in [Entities -> Body]
  BY DEF Becomes
<1>2. Participants' = Participants /\ Participants \subseteq Entities
  BY DEF Participants, roster, LifeInv, Entities
<1>3. Mortal'
  <2>1. \A e \in Participants : Sound(body[e])
    BY DEF LifeInv, Mortal, Sound
  <2>2. \A e \in Participants' : Sound(body'[e])
    BY <1>2, <2>1 DEF Becomes
  <2> QED
    BY <2>2 DEF Mortal, Sound
<1>4. Admitted' = Admitted
  BY DEF Admitted, roster
<1>5. \A h \in Humans : team'[h] = 0 => body'[h] = Absent
  BY DEF LifeInv, Becomes, Entities, roster
<1>6. ~started' => ~bot' /\ body'[Bot] = Absent
  BY DEF LifeInv, Becomes, Entities, roster
<1> QED
  BY <1>1, <1>3, <1>4, <1>5, <1>6 DEF LifeInv, roster

\* Bodies that are left alone, and the dead.
LEMMA BecomesFacts ==
  ASSUME NEW b \in Body
  PROVE  /\ Becomes(b, b)
         /\ \A e : b # Absent => Becomes(b, Finalized(e))
<1>1. Becomes(b, b)
  BY DEF Becomes
<1>2. ASSUME NEW e PROVE Finalized(e) \in Body /\ Sound(Finalized(e))
  BY IdsDiffer, HPPositive DEF Finalized, Absent, Up, Body, Sound
<1> QED
  BY <1>1, <1>2 DEF Becomes

\* A step that writes one body.
LEMMA OneBecomes ==
  ASSUME body \in [Entities -> Body], NEW v \in Entities, NEW c, Becomes(body[v], c),
         body' = [body EXCEPT ![v] = c]
  PROVE  /\ body' = [e \in Entities |-> body'[e]]
         /\ \A e \in Entities : Becomes(body[e], body'[e])
<1>1. \A e \in Entities : body'[e] = IF e = v THEN c ELSE body[e]
  OBVIOUS
<1>2. \A e \in Entities : Becomes(body[e], body[e])
  BY BecomesFacts
<1> QED
  BY <1>1, <1>2

\* The bodies a hit, the bleeding, a rescue or a heal leaves behind.
LEMMA Wounds ==
  ASSUME NEW b \in Body
  PROVE  /\ b.life = "alive" /\ b.hp # 0 =>
              Becomes(b, [b EXCEPT !.life = "dead", !.hp = 0])
         /\ \A a \in Entities \cup {Nobody} :
              b.life = "alive" /\ b.hp # 0 =>
                Becomes(b, [b EXCEPT !.life = "knocked", !.hp = knockdownHP,
                                     !.knock = a, !.pool = knockdownHP])
         /\ \A n \in Nat \ {0} :
              b.life = "alive" /\ n < b.hp => Becomes(b, [b EXCEPT !.hp = b.hp - n])
         /\ \A n \in Nat \ {0} :
              b.knock # NoKnock /\ n < b.pool =>
                Becomes(b, [b EXCEPT !.hp = b.pool - n, !.pool = b.pool - n])
         /\ \A r \in Humans :
              b.life = "knocked" => Becomes(b, [b EXCEPT !.reviver = r])
         /\ b.reviver # Nobody => Becomes(b, [b EXCEPT !.reviver = Nobody])
         /\ b.life = "knocked" => Becomes(b, completeRescue(b))
<1>0. /\ knockdownHP \in Nat \ {0} /\ reviveHP \in Nat \ {0}
      /\ NoKnock \notin Entities \cup {Nobody}
      /\ Absent.life = "alive" /\ Absent.hp = 0 /\ Absent.knock = NoKnock
      /\ Absent.reviver = Nobody
  BY HPPositive, IdsDiffer DEF Entities, Absent, Up
<1> USE <1>0 DEF Becomes, Sound, Body
<1>1. b.life = "alive" /\ b.hp # 0 => Becomes(b, [b EXCEPT !.life = "dead", !.hp = 0])
  OBVIOUS
<1>2. ASSUME NEW a \in Entities \cup {Nobody}, b.life = "alive", b.hp # 0
      PROVE  Becomes(b, [b EXCEPT !.life = "knocked", !.hp = knockdownHP,
                                  !.knock = a, !.pool = knockdownHP])
  <2> DEFINE c == [b EXCEPT !.life = "knocked", !.hp = knockdownHP,
                            !.knock = a, !.pool = knockdownHP]
  <2> SUFFICES Becomes(b, c)
    OBVIOUS
  <2>1. /\ c.life = "knocked" /\ c.hp = knockdownHP /\ c.knock = a /\ c.pool = knockdownHP
        /\ c \in Body
    BY <1>2
  <2> HIDE DEF c
  <2> QED
    BY <1>2, <2>1
<1>3. ASSUME NEW n \in Nat \ {0}, b.life = "alive", n < b.hp
      PROVE  Becomes(b, [b EXCEPT !.hp = b.hp - n])
  BY <1>3
<1>4. ASSUME NEW n \in Nat \ {0}, b.knock # NoKnock, n < b.pool
      PROVE  Becomes(b, [b EXCEPT !.hp = b.pool - n, !.pool = b.pool - n])
  <2> DEFINE m == b.pool - n
             c == [b EXCEPT !.hp = m, !.pool = m]
  <2> SUFFICES Becomes(b, c)
    OBVIOUS
  <2>2. m \in Nat /\ m > 0
    BY <1>4
  <2> HIDE DEF m
  <2>1. /\ c.life = b.life /\ c.hp = m /\ c.knock = b.knock /\ c.pool = m
        /\ c \in Body
    BY <2>2
  <2> HIDE DEF c
  <2> QED
    BY <1>4, <2>1, <2>2
<1>5. ASSUME NEW r \in Humans, b.life = "knocked"
      PROVE  Becomes(b, [b EXCEPT !.reviver = r])
  BY <1>5
<1>6. b.reviver # Nobody => Becomes(b, [b EXCEPT !.reviver = Nobody])
  OBVIOUS
<1>7. b.life = "knocked" => Becomes(b, completeRescue(b))
  <2> DEFINE c == completeRescue(b)
  <2> SUFFICES b.life = "knocked" => Becomes(b, c)
    OBVIOUS
  <2>1. c.life = "alive" /\ c.hp = reviveHP /\ c.knock = NoKnock /\ c \in Body
    BY DEF completeRescue
  <2> HIDE DEF c
  <2> QED
    BY <2>1
<1> HIDE DEF Becomes, Sound, Body
<1> QED
  BY <1>1, <1>2, <1>3, <1>4, <1>5, <1>6, <1>7

\* finalizeKnock and Drained: what the end or the loss of a knock record's pool does.
LEMMA KnockBecomes ==
  ASSUME body \in [Entities -> Body], NEW e \in Entities, body[e].knock # NoKnock,
         \/ finalizeKnock(e)
         \/ \E n \in Nat \ {0} : n < body[e].pool /\ Drained(e, n)
  PROVE  /\ body' = [f \in Entities |-> body'[f]]
         /\ \A f \in Entities : Becomes(body[f], body'[f])
<1>0. body[e] \in Body /\ body[e] # Absent
  BY DEF Absent, Up
<1>1. CASE finalizeKnock(e)
  <2>1. body' = [body EXCEPT ![e] = Finalized(e)]
    BY <1>1 DEF finalizeKnock
  <2> QED
    BY <1>0, <2>1, BecomesFacts, OneBecomes
<1>2. ASSUME NEW n \in Nat \ {0}, n < body[e].pool, Drained(e, n)
      PROVE  /\ body' = [f \in Entities |-> body'[f]]
             /\ \A f \in Entities : Becomes(body[f], body'[f])
  <2> DEFINE c == [body[e] EXCEPT !.hp = body[e].pool - n, !.pool = body[e].pool - n]
  <2>1. body' = [body EXCEPT ![e] = c]
    BY <1>0, <1>2 DEF Drained, Body
  <2>2. Becomes(body[e], c)
    BY <1>0, <1>2, Wounds
  <2> HIDE DEF c
  <2> QED
    BY <2>1, <2>2, OneBecomes
<1> QED
  BY <1>1, <1>2

\* applyDamage, whatever the attacker and the phase.
LEMMA DamageBecomes ==
  ASSUME body \in [Entities -> Body], NEW v \in Entities, NEW a \in Humans \cup {Nobody},
         NEW dmg \in Damages, applyDamage(v, a, dmg)
  PROVE  /\ body' = [e \in Entities |-> body'[e]]
         /\ \A e \in Entities : Becomes(body[e], body'[e])
<1>0. /\ dmg \in Nat \ {0} /\ a \in Entities \cup {Nobody}
      /\ body[v] \in Body
  BY HPPositive DEF Entities
<1>1. CASE body[v].life = "knocked" /\ damageKnocked(v, dmg)
  BY <1>0, <1>1, KnockBecomes DEF damageKnocked
<1>2. CASE body[v].life = "alive" /\ body[v].hp # 0 /\ downOrKill(v, a)
  <2>1. CASE killEntity(v, a)
    <3> DEFINE c == [body[v] EXCEPT !.life = "dead", !.hp = 0]
    <3>1. body' = [body EXCEPT ![v] = c]
      BY <1>0, <2>1 DEF killEntity, Body
    <3>2. Becomes(body[v], c)
      BY <1>0, <1>2, Wounds
    <3> HIDE DEF c
    <3> QED
      BY <3>1, <3>2, OneBecomes
  <2>2. CASE knockPlayer(v, a)
    <3> DEFINE c == [body[v] EXCEPT !.life = "knocked", !.hp = knockdownHP,
                                    !.knock = a, !.pool = knockdownHP]
    <3>1. body' = [body EXCEPT ![v] = c]
      BY <1>0, <2>2 DEF knockPlayer, Body
    <3>2. Becomes(body[v], c)
      BY <1>0, <1>2, Wounds
    <3> HIDE DEF c
    <3> QED
      BY <3>1, <3>2, OneBecomes
  <2>3. CASE teamFellToZero(v, a)
    <3> DEFINE down == {e \in Entities : /\ body[e].knock # NoKnock
                                         /\ body[e].life = "knocked"
                                         /\ teamOf(e) = teamOf(v)}
    <3>1. body' = [e \in Entities |-> IF e \in down \cup {v} THEN Finalized(e) ELSE body[e]]
      BY <2>3 DEF teamFellToZero
    <3>2. \A e \in down \cup {v} : body[e] \in Body /\ body[e] # Absent
      BY <1>0, <1>2 DEF Absent, Up
    <3> HIDE DEF down
    <3>3. \A e \in Entities : Becomes(body[e], body'[e])
      BY <3>1, <3>2, BecomesFacts
    <3> QED
      BY <3>1, <3>3
  <2> QED
    BY <1>2, <2>1, <2>2, <2>3 DEF downOrKill
<1>3. CASE /\ body[v].life = "alive" /\ dmg < body[v].hp
           /\ body' = [body EXCEPT ![v].hp = @ - dmg]
  <2> DEFINE c == [body[v] EXCEPT !.hp = body[v].hp - dmg]
  <2>1. body' = [body EXCEPT ![v] = c]
    BY <1>0, <1>3
  <2>2. Becomes(body[v], c)
    BY <1>0, <1>3, Wounds
  <2> HIDE DEF c
  <2> QED
    BY <2>1, <2>2, OneBecomes
<1> QED
  BY <1>1, <1>2, <1>3 DEF applyDamage

\* Bodies with the same fields are the same.
LEMMA SameBody ==
  ASSUME NEW b \in Body, NEW c \in Body, b.life = c.life, b.hp = c.hp, b.knock = c.knock,
         b.pool = c.pool, b.reviver = c.reviver
  PROVE  b = c
BY DEF Body

\* Nobody's body: cleared it is the same, with HP it is one that is up.
LEMMA AbsentFacts ==
  /\ Absent = [Absent EXCEPT !.knock = NoKnock, !.pool = 0, !.reviver = Nobody]
  /\ Absent = [Absent EXCEPT !.life = "alive", !.hp = 0]
  /\ Up = [Absent EXCEPT !.life = "alive", !.hp = MaxHP]
<1> DEFINE c == [Absent EXCEPT !.knock = NoKnock, !.pool = 0, !.reviver = Nobody]
           d == [Absent EXCEPT !.life = "alive", !.hp = 0]
           u == [Absent EXCEPT !.life = "alive", !.hp = MaxHP]
<1>0. /\ Absent \in Body /\ Up \in Body /\ MaxHP \in Nat
      /\ Absent.life = "alive" /\ Absent.hp = 0 /\ Absent.knock = NoKnock
      /\ Absent.pool = 0 /\ Absent.reviver = Nobody
      /\ Up.life = "alive" /\ Up.hp = MaxHP /\ Up.knock = NoKnock
      /\ Up.pool = 0 /\ Up.reviver = Nobody
  BY HPPositive DEF Absent, Up, Body
<1>1. /\ c \in Body /\ c.life = "alive" /\ c.hp = 0 /\ c.knock = NoKnock
      /\ c.pool = 0 /\ c.reviver = Nobody
  BY <1>0 DEF Body
<1>2. /\ d \in Body /\ d.life = "alive" /\ d.hp = 0 /\ d.knock = NoKnock
      /\ d.pool = 0 /\ d.reviver = Nobody
  BY <1>0 DEF Body
<1>3. /\ u \in Body /\ u.life = "alive" /\ u.hp = MaxHP /\ u.knock = NoKnock
      /\ u.pool = 0 /\ u.reviver = Nobody
  BY <1>0 DEF Body
<1>4. Absent = c /\ Absent = d /\ Up = u
  <2> HIDE DEF c, d, u
  <2> QED
    BY <1>0, <1>1, <1>2, <1>3, SameBody
<1> QED
  BY <1>4

\* A step that leaves bodies and bot alone.
LEMMA IdleBodies ==
  ASSUME LifeInv, UNCHANGED <<players, team, bot, body>>, pending' \subseteq Humans,
         pending' \cap Admitted = {}, started' \in BOOLEAN, started => started'
  PROVE  LifeInv'
<1>1. Participants' = Participants /\ Admitted' = Admitted
  BY DEF Participants, Admitted
<1>2. Mortal'
  BY <1>1 DEF LifeInv, Mortal
<1>3. ~started' => ~bot' /\ body'[Bot] = Absent
  BY DEF LifeInv
<1> QED
  BY <1>1, <1>2, <1>3 DEF LifeInv

\* spawnFallbackBot: the one bot of a match has no knock record from before.
LEMMA SpawnStep ==
  ASSUME LifeInv, ~started, spawnFallbackBot, started' = TRUE,
         UNCHANGED <<players, pending, team>>
  PROVE  LifeInv'
<1>0. MaxHP \in Nat \ {0} /\ Bot \in Entities /\ Bot \notin Humans
  BY HPPositive, IdsDiffer DEF Entities
<1>1. body[Bot] = Absent /\ body' = [body EXCEPT ![Bot] = Up]
  <2>1. body[Bot] = Absent
    BY DEF LifeInv
  <2>2. body' = [body EXCEPT ![Bot] = [Absent EXCEPT !.life = "alive", !.hp = MaxHP]]
    BY <1>0, <2>1 DEF spawnFallbackBot, LifeInv, Absent, Up
  <2> QED
    BY <2>1, <2>2, AbsentFacts
<1>2. Up \in Body /\ Sound(Up)
  BY <1>0 DEF Up, Body, Sound
<1>3. body' \in [Entities -> Body]
  BY <1>1, <1>2 DEF LifeInv
<1>4. Participants' = players \cup {Bot} /\ players \subseteq Participants
  BY DEF Participants, spawnFallbackBot
<1>5. Mortal'
  <2>1. \A e \in players : Sound(body[e]) /\ body'[e] = body[e]
    BY <1>0, <1>1, <1>4 DEF LifeInv, Mortal, Sound, Entities
  <2>2. body'[Bot] = Up
    BY <1>0, <1>1 DEF LifeInv
  <2>3. \A e \in Participants' : Sound(body'[e])
    BY <1>2, <1>4, <2>1, <2>2
  <2> QED
    BY <2>3 DEF Mortal, Sound
<1>6. Admitted' = Admitted /\ bot' = TRUE
  BY DEF Admitted, spawnFallbackBot
<1>7. \A h \in Humans : team'[h] = 0 => body'[h] = Absent
  BY <1>0, <1>1 DEF LifeInv, Entities
<1> QED
  BY <1>3, <1>5, <1>6, <1>7 DEF LifeInv

\* reviveAll: whoever is there is up again, nobody else comes to life.
LEMMA ReviveStep ==
  ASSUME LifeInv, reviveAll, UNCHANGED <<roster, started>>
  PROVE  LifeInv'
<1>0. MaxHP \in Nat \ {0} /\ Up \in Body /\ Sound(Up) /\ ~Sound(Absent)
  BY HPPositive DEF Up, Absent, Body, Sound
<1>1. \A e \in Participants : Sound(body[e])
  BY DEF LifeInv, Mortal, Sound
<1>2. ASSUME NEW e \in Entities \ Participants
      PROVE  body'[e] \in Body /\ (body[e] = Absent => body'[e] = Absent)
  <2> DEFINE c == [body[e] EXCEPT !.knock = NoKnock, !.pool = 0, !.reviver = Nobody]
  <2>1. body'[e] = c
    BY DEF reviveAll
  <2>0. body[e] \in Body
    BY DEF LifeInv
  <2>2. c \in Body
    BY <2>0 DEF Body
  <2> QED
    BY <2>1, <2>2, AbsentFacts
<1>3. \A e \in Participants \cap Entities : body'[e] = Up
  BY DEF reviveAll
<1>4. body' = [e \in Entities |-> body'[e]]
  BY DEF reviveAll
<1>5. body' \in [Entities -> Body]
  BY <1>0, <1>2, <1>3, <1>4
<1>6. Participants' = Participants /\ Participants \subseteq Entities /\ Admitted' = Admitted
  BY DEF Participants, Admitted, roster, LifeInv, Entities
<1>7. Mortal'
  <2>1. \A e \in Participants' : Sound(body'[e])
    BY <1>0, <1>3, <1>6
  <2> QED
    BY <2>1 DEF Mortal, Sound
<1>8. \A e \in Entities : body[e] = Absent => body'[e] = Absent
  BY <1>0, <1>1, <1>2
<1> QED
  BY <1>5, <1>6, <1>7, <1>8 DEF LifeInv, roster, Entities

\* removePlayer: the others stay as they are.
LEMMA LeaveStep ==
  ASSUME LifeInv, NEW h \in players, removePlayer(h),
         UNCHANGED <<started, pending, team, bot>>
  PROVE  LifeInv'
<1>0. h \in Humans /\ h \in Entities /\ team[h] # 0 /\ h # Bot
  BY IdsDiffer DEF LifeInv, Admitted, Entities
<1> DEFINE c == [body[h] EXCEPT !.life = "alive", !.hp = 0, !.knock = NoKnock, !.pool = 0]
<1>1. body' = [body EXCEPT ![h] = c]
  BY <1>0 DEF removePlayer, LifeInv, Body
<1>2. c \in Body
  BY <1>0 DEF LifeInv, Body
<1> HIDE DEF c
<1>3. body' \in [Entities -> Body] /\ \A e \in Entities \ {h} : body'[e] = body[e]
  BY <1>1, <1>2 DEF LifeInv
<1>4. Participants' \subseteq Participants \ {h} /\ Participants \subseteq Entities
  BY <1>0 DEF Participants, removePlayer, LifeInv, Entities
<1>5. Mortal'
  BY <1>3, <1>4 DEF LifeInv, Mortal
<1>6. Admitted' = Admitted /\ players' \subseteq players
  BY DEF Admitted, removePlayer
<1> QED
  BY <1>0, <1>3, <1>5, <1>6 DEF LifeInv, Entities

\* admitLater: a session comes in once, and untouched.
LEMMA AdmitStep ==
  ASSUME LifeInv, NEW h \in Humans, admitLater(h)
  PROVE  LifeInv'
<1>0. /\ MaxHP \in Nat \ {0} /\ h \in Entities /\ Bot \in Entities /\ h # Bot
      /\ h \notin Admitted /\ team[h] = 0 /\ body[h] = Absent /\ started' = started
  BY HPPositive, IdsDiffer DEF LifeInv, Admitted, Entities, admitLater, flow
<1> DEFINE c == [body[Bot] EXCEPT !.life = "alive", !.hp = 0]
<1>1. body' = [body EXCEPT ![h] = Up, ![Bot] = c]
  <2>1. Up = [body[h] EXCEPT !.life = "alive", !.hp = MaxHP]
    BY <1>0, AbsentFacts
  <2> QED
    BY <1>0, <2>1 DEF admitLater, LifeInv
<1>2. Up \in Body /\ Sound(Up) /\ c \in Body /\ (body[Bot] = Absent => c = Absent)
  <2>1. Up \in Body /\ Sound(Up)
    BY <1>0 DEF Body, Up, Sound
  <2>2. c \in Body
    BY <1>0 DEF LifeInv, Body
  <2>3. body[Bot] = Absent => c = Absent
    BY AbsentFacts
  <2> QED
    BY <2>1, <2>2, <2>3
<1> HIDE DEF c
<1>3. /\ body' \in [Entities -> Body] /\ body'[h] = Up /\ body'[Bot] = c
      /\ \A e \in Entities \ {h, Bot} : body'[e] = body[e]
  BY <1>0, <1>1, <1>2 DEF LifeInv
<1>4. /\ Participants' = players \cup {h} /\ players \subseteq Participants
      /\ players \subseteq Humans /\ Bot \notin Humans
  BY IdsDiffer DEF Participants, admitLater, LifeInv
<1>5. Mortal'
  <2>1. \A e \in players : Sound(body[e])
    BY <1>4 DEF LifeInv, Mortal, Sound
  <2>2. \A e \in Participants' : Sound(body'[e])
    BY <1>2, <1>3, <1>4, <2>1 DEF Entities
  <2> QED
    BY <2>2 DEF Mortal, Sound
<1>6. PICK t \in SlotTeams : team' = [team EXCEPT ![h] = t]
  BY DEF admitLater
<1>7. t \in Teams /\ t # 0
  BY <1>6 DEF SlotTeams, Teams
<1>8. /\ team' \in [Humans -> {0} \cup Teams] /\ Admitted' = Admitted \cup {h}
      /\ \A g \in Humans : team'[g] = 0 => team[g] = 0 /\ g # h
  BY <1>6, <1>7 DEF LifeInv, Admitted
<1>9. \A g \in Humans : team'[g] = 0 => body'[g] = Absent
  BY <1>3, <1>4, <1>8 DEF LifeInv, Entities
<1>10. ~started' => ~bot' /\ body'[Bot] = Absent
  BY <1>0, <1>2, <1>3 DEF LifeInv, admitLater
<1>11. players' = players \cup {h} /\ pending' = pending \ {h} /\ bot' = FALSE
  BY DEF admitLater
<1> QED
  BY <1>0, <1>3, <1>5, <1>8, <1>9, <1>10, <1>11 DEF LifeInv

\* One step of any action keeps LifeInv.
LEMMA LifeStep ==
  ASSUME LifeInv, FlowInv, [Next]_vars
  PROVE  LifeInv'
<1>0. /\ started' \in BOOLEAN /\ (started => started')
      /\ body \in [Entities -> Body] /\ players \subseteq Entities /\ Humans \subseteq Entities
      /\ pending \subseteq Humans /\ pending \cap Admitted = {} /\ Admitted \subseteq Humans
  BY FlowStep DEF LifeInv, FlowInv, Entities, Admitted
<1>1. CASE UNCHANGED <<roster, body>>
  BY <1>0, <1>1, IdleBodies DEF roster
<1>2. CASE TickDue
  <2>1. CASE endFight \/ StartEarly \/ PlainEdge \/ NextRound \/ MatchEnds \/ Close
    <3>1. UNCHANGED <<roster, body>>
      BY <1>2, <2>1 DEF TickDue, roster, endFight, StartEarly, PlainEdge, NextRound,
        MatchEnds, Close
    <3> QED
      BY <1>1, <3>1
  <2>2. CASE PrepareOpens
    <3>1. CASE UNCHANGED <<bot, body>>
      BY <1>1, <1>2, <3>1 DEF TickDue, roster
    <3>2. CASE ~started /\ settings.isCustom /\ spawnFallbackBot
      <4>1. started' = TRUE
        BY <2>2, <3>2 DEF PrepareOpens, enterPrepare, startBuyPhase
      <4> QED
        BY <1>2, <3>2, <4>1, SpawnStep DEF TickDue
    <3> QED
      BY <2>2, <3>1, <3>2 DEF PrepareOpens
  <2>3. CASE PrepareEnds
    <3>1. CASE UNCHANGED <<bot, body>>
      BY <1>1, <1>2, <3>1 DEF TickDue, roster
    <3>2. CASE ~started /\ spawnFallbackBot /\ started' = TRUE
      BY <1>2, <3>2, SpawnStep DEF TickDue
    <3> QED
      BY <2>3, <3>1, <3>2 DEF PrepareEnds, startBuyPhase
  <2>4. CASE postBannerEdge
    <3>1. reviveAll /\ UNCHANGED <<roster, started>>
      BY <1>2, <2>4 DEF TickDue, postBannerEdge, roster
    <3> QED
      BY <3>1, ReviveStep
  <2> QED
    BY <1>2, <2>1, <2>2, <2>3, <2>4 DEF TickDue, Due
<1>3. CASE TickIdle \/ StageDone \/ LoopEnds \/ UNCHANGED vars
  <2>1. UNCHANGED <<roster, body>>
    BY <1>3 DEF TickIdle, NotDue, StageDone, LoopEnds, roster, vars
  <2> QED
    BY <1>1, <2>1
<1>4. CASE \E h \in Humans : reserve(h)
  <2>1. PICK h \in Humans : reserve(h)
    BY <1>4
  <2>2. /\ UNCHANGED <<players, team, bot, body>> /\ pending' \subseteq Humans
        /\ pending' \cap Admitted = {}
    BY <1>0, <2>1 DEF reserve, Reserved
  <2> QED
    BY <1>0, <2>2, IdleBodies
<1>5. CASE \E h \in Humans : admitLater(h)
  BY <1>5, AdmitStep
<1>6. CASE \E h \in Humans : handlePlayerQuit(h) \/ sweepDisconnects(h)
  <2>1. PICK h \in Humans : handlePlayerQuit(h) \/ sweepDisconnects(h)
    BY <1>6
  <2>2. h \in players /\ removePlayer(h) /\ UNCHANGED <<started, pending, team, bot>>
    BY <2>1 DEF handlePlayerQuit, sweepDisconnects, flow
  <2> QED
    BY <2>2, LeaveStep
<1>7. CASE \E p \in Humans : stepHeal(p)
  <2>1. PICK p \in Humans : stepHeal(p)
    BY <1>7
  <2> DEFINE c == [body[p] EXCEPT !.hp = body[p].hp + 1]
  <2>2. /\ body[p] \in Body /\ p \in players /\ body[p].life = "alive" /\ UNCHANGED roster
        /\ body' = [body EXCEPT ![p] = c]
    BY <1>0, <2>1 DEF stepHeal
  <2>3. Sound(body[p])
    BY <2>2 DEF LifeInv, Mortal, Sound, Participants
  <2>4. c \in Body /\ c.life = "alive" /\ c.hp = body[p].hp + 1 /\ c.knock = body[p].knock
    BY <2>2 DEF Body
  <2>5. Absent.life = "alive" /\ Absent.hp = 0 /\ body[p].hp \in Nat
    BY <2>2 DEF Absent, Up, Body
  <2> HIDE DEF c
  <2>6. Becomes(body[p], c)
    BY <2>2, <2>3, <2>4, <2>5 DEF Becomes, Sound
  <2> QED
    BY <1>0, <2>2, <2>6, OneBecomes, QuietStep
<1>8. CASE \/ \E p \in Humans, d \in Damages : stepZone(p, d)
           \/ \E h \in Humans, e \in Entities, d \in Damages : handleTakeDamage(e, h, d)
  <2>1. PICK v \in Entities, a \in Humans \cup {Nobody}, d \in Damages :
          applyDamage(v, a, d) /\ UNCHANGED roster
    BY <1>0, <1>8 DEF stepZone, handleTakeDamage
  <2> QED
    BY <1>0, <2>1, DamageBecomes, QuietStep
<1>9. CASE \E e \in Entities : stepKnock(e)
  <2>1. PICK e \in Entities : stepKnock(e)
    BY <1>9
  <2>2. /\ body[e].knock # NoKnock /\ UNCHANGED roster /\ knockBleedAmt \in Nat \ {0}
        /\ \/ finalizeKnock(e)
           \/ \E n \in Nat \ {0} : n < body[e].pool /\ Drained(e, n)
    <3>1. knockBleedAmt \in Nat \ {0} /\ body[e].pool \in Nat
      BY <1>0, HPPositive DEF Body
    <3> QED
      BY <2>1, <3>1 DEF stepKnock
  <2> QED
    BY <1>0, <2>2, KnockBecomes, QuietStep
<1>10. CASE \E r \in Humans, t \in Entities : startRescue(r, t) \/ stopRescue(r, t)
  <2>1. PICK r \in Humans, t \in Entities : startRescue(r, t) \/ stopRescue(r, t)
    BY <1>10
  <2>2. r # Nobody /\ body[t] \in Body /\ UNCHANGED roster
    BY <1>0, <2>1, IdsDiffer DEF startRescue, stopRescue
  <2>3. \E c : Becomes(body[t], c) /\ body' = [body EXCEPT ![t] = c]
    <3>1. CASE startRescue(r, t)
      <4>1. Becomes(body[t], [body[t] EXCEPT !.reviver = r])
        BY <2>2, <3>1, Wounds DEF startRescue
      <4> QED
        BY <3>1, <4>1 DEF startRescue
    <3>2. CASE stopRescue(r, t)
      <4>1. Becomes(body[t], [body[t] EXCEPT !.reviver = Nobody])
        BY <2>2, <3>2, Wounds DEF stopRescue
      <4> QED
        BY <3>2, <4>1 DEF stopRescue
    <3> QED
      BY <2>1, <3>1, <3>2
  <2> QED
    BY <1>0, <2>2, <2>3, OneBecomes, QuietStep
<1>11. CASE \E t \in Entities : stepRescue(t)
  <2>1. PICK t \in Entities : stepRescue(t)
    BY <1>11
  <2> DEFINE c == IF Rescuable(t) THEN completeRescue(body[t])
                                  ELSE [body[t] EXCEPT !.reviver = Nobody]
  <2>2. body' = [body EXCEPT ![t] = c] /\ UNCHANGED roster /\ body[t].reviver # Nobody
    BY <1>0, <2>1 DEF stepRescue
  <2>3. Becomes(body[t], c)
    <3>1. body[t] \in Body
      BY <1>0
    <3>2. CASE Rescuable(t)
      BY <3>1, <3>2, Wounds DEF Rescuable
    <3>3. CASE ~Rescuable(t)
      BY <2>2, <3>1, <3>3, Wounds
    <3> QED
      BY <3>2, <3>3
  <2> HIDE DEF c
  <2> QED
    BY <1>0, <2>2, <2>3, OneBecomes, QuietStep
<1> QED
  BY <1>2, <1>3, <1>4, <1>5, <1>6, <1>7, <1>8, <1>9, <1>10, <1>11 DEF Next, Tick, Mail

\* LifeInv holds of every behaviour.
LEMMA LifeInvariant == Spec => []LifeInv
<1>1. Init => LifeInv
  <2> SUFFICES ASSUME Init PROVE LifeInv
    OBVIOUS
  <2>1. PICK h \in Humans, t \in Teams :
          /\ players = {h}
          /\ team = [p \in Humans |-> IF p = h THEN t ELSE 0]
          /\ body = [e \in Entities |-> IF e = h THEN Up ELSE Absent]
    BY DEF Init, Teams
  <2>2. started = FALSE /\ bot = FALSE /\ pending = {}
    BY DEF Init
  <2>3. MaxHP \in Nat \ {0} /\ Bot \notin Humans /\ Bot \in Entities /\ h \in Entities
    BY HPPositive, IdsDiffer DEF Entities
  <2>4. Up \in Body /\ Absent \in Body /\ Sound(Up)
    BY <2>3 DEF Up, Absent, Body, Sound
  <2>5. body \in [Entities -> Body] /\ body[Bot] = Absent /\ body[h] = Up
    BY <2>1, <2>3, <2>4
  <2>6. Mortal
    <3>1. Participants = {h}
      BY <2>1, <2>2 DEF Participants
    <3> QED
      BY <2>4, <2>5, <3>1 DEF Mortal, Sound
  <2>7. /\ team \in [Humans -> {0} \cup Teams] /\ team[h] # 0
        /\ \A g \in Humans : team[g] = 0 => body[g] = Absent
    BY <2>1 DEF Teams, Entities
  <2> QED
    BY <2>1, <2>2, <2>5, <2>6, <2>7 DEF LifeInv, Admitted
<1> QED
  BY <1>1, LifeStep, FlowInvariant, PTL DEF Spec

\* applyDamage, stepKnock, stepRescue, reviveAll: whoever plays can be hurt while up,
\* bleeds while down and does neither once dead, whatever clients report and when.
THEOREM MortalHolds == Spec => []Mortal
<1>1. LifeInv => Mortal
  BY DEF LifeInv
<1> QED
  BY <1>1, LifeInvariant, PTL

--------------------------------------------------------------------------------
(* A new round. *)

\* The phases between reviveAll, or the first admission, and the fight.
Peace == {"SetupBind", "SetupGap", "SetupWait", "Prepare", "PostReviveBind", "PostBlack",
          "IntroWait", "Intro"}

\* FreshRound looks at one step, so this is what all the ticks and packets before it keep:
\* knocks are cleared where the phases of peace begin, and in them only a hit report makes one.
FreshInv == phase \in Peace /\ ~late => \A e \in Participants : body[e] = Up

\* Packets, disconnects and the rest of a tick write the bodies of those who are hurt, down,
\* being rescued or leaving.
LEMMA PeaceKept ==
  ASSUME FreshInv, phase' = phase, late' = late,
         phase \in Peace /\ ~late => /\ Participants' \subseteq Participants
                            /\ \A e \in Participants' : body[e] = Up => body'[e] = Up
  PROVE  FreshInv'
BY DEF FreshInv

LEMMA PeaceOneHurt ==
  ASSUME LifeInv, FreshInv, UNCHANGED <<flow, roster, late>>, NEW t \in Entities, NEW c,
         body' = [body EXCEPT ![t] = c], body[t] # Up
  PROVE  FreshInv'
<1>1. Participants' = Participants /\ Participants \subseteq Entities /\ phase' = phase
  BY DEF Participants, roster, flow, LifeInv, Entities
<1>2. \A e \in Participants : body[e] = Up => body'[e] = body[e]
  BY <1>1 DEF LifeInv
<1> QED
  BY <1>1, <1>2, PeaceKept

LEMMA PeaceLeave ==
  ASSUME LifeInv, FreshInv, NEW h \in players, removePlayer(h), phase' = phase, bot' = bot,
         late' = late
  PROVE  FreshInv'
<1>1. /\ Participants' \subseteq Participants \ {h} /\ Participants \subseteq Entities
      /\ h \in Entities
  BY IdsDiffer DEF Participants, removePlayer, LifeInv, Entities
<1>2. \A e \in Entities \ {h} : body'[e] = body[e]
  BY DEF removePlayer, LifeInv
<1> QED
  BY <1>1, <1>2, PeaceKept

\* A session that comes in has never been hurt.
LEMMA PeaceAdmit ==
  ASSUME LifeInv, FreshInv, NEW h \in Humans, admitLater(h)
  PROVE  FreshInv'
<1>1. h \in Entities /\ Bot \in Entities /\ h # Bot /\ body[h] = Absent
  BY IdsDiffer DEF LifeInv, Admitted, Entities, admitLater
<1>2. body'[h] = Up
  BY <1>1, AbsentFacts DEF admitLater, LifeInv
<1>3. \A e \in Entities \ {h, Bot} : body'[e] = body[e]
  BY <1>1 DEF admitLater, LifeInv
<1>4. /\ Participants' = players \cup {h} /\ players \subseteq Participants
      /\ players \subseteq Entities \ {Bot}
  BY IdsDiffer DEF Participants, admitLater, LifeInv, Entities
<1>5. phase' = phase /\ late' = late
  BY DEF admitLater, flow
<1> QED
  BY <1>2, <1>3, <1>4, <1>5 DEF FreshInv

\* The bot that fills in is up, and nobody else changes.
LEMMA PeaceSpawn ==
  ASSUME LifeInv, FreshInv, ~started, spawnFallbackBot, phase \in Peace, ~late,
         UNCHANGED <<players, team>>
  PROVE  \A e \in Participants' : body'[e] = Up
<1>1. Bot \in Entities /\ Bot \notin Humans /\ body[Bot] = Absent
  BY IdsDiffer DEF LifeInv, Entities
<1>2. body'[Bot] = Up
  BY <1>1, AbsentFacts DEF spawnFallbackBot, LifeInv
<1>3. \A e \in Entities \ {Bot} : body'[e] = body[e]
  BY <1>1 DEF spawnFallbackBot, LifeInv
<1>4. /\ Participants' = players \cup {Bot} /\ players \subseteq Participants
      /\ players \subseteq Entities \ {Bot}
  BY <1>1 DEF Participants, spawnFallbackBot, LifeInv, Entities
<1> QED
  BY <1>2, <1>3, <1>4 DEF FreshInv

\* The phase machine: a fight is left for the banner or the end of the match, never for a
\* phase of peace.
LEMMA PeaceTick ==
  ASSUME LifeInv, FreshInv, TickDue
  PROVE  FreshInv'
<1>0. UNCHANGED <<players, team>>
  BY DEF TickDue
<1>1. ASSUME UNCHANGED <<bot, body, late>>, phase \in Peace \/ phase' \notin Peace PROVE FreshInv'
  <2>1. Participants' = Participants
    BY <1>0, <1>1 DEF Participants
  <2> QED
    BY <1>1, <2>1 DEF FreshInv
<1>2. CASE endFight \/ MatchEnds
  BY <1>1, <1>2 DEF endFight, MatchEnds, enter, Peace
<1>3. CASE StartEarly \/ NextRound
  BY <1>1, <1>3 DEF StartEarly, NextRound, Peace
<1>4. CASE PlainEdge
  BY <1>1, <1>4 DEF PlainEdge, After, Peace
<1>5. CASE Close
  BY <1>1, <1>5 DEF Close, Peace
<1>6. CASE PrepareOpens \/ PrepareEnds
  <2>1. phase \in Peace
    BY <1>6 DEF PrepareOpens, PrepareEnds, Peace
  <2>2. late' = late
    BY <1>6 DEF PrepareOpens, PrepareEnds
  <2>3. CASE UNCHANGED <<bot, body>>
    BY <1>1, <2>1, <2>2, <2>3
  <2>4. CASE spawnFallbackBot /\ ~started
    BY <1>0, <2>1, <2>2, <2>4, PeaceSpawn DEF FreshInv
  <2> QED
    BY <1>6, <2>3, <2>4 DEF PrepareOpens, PrepareEnds
<1>7. CASE postBannerEdge
  <2>1. Participants' = Participants /\ Participants \subseteq Entities
    BY <1>0, <1>7 DEF Participants, postBannerEdge, LifeInv, Entities
  <2> QED
    BY <1>7, <2>1 DEF postBannerEdge, reviveAll, FreshInv
<1> QED
  BY <1>2, <1>3, <1>4, <1>5, <1>6, <1>7 DEF TickDue, Due

LEMMA FreshStep ==
  ASSUME LifeInv, FreshInv, [Next]_vars
  PROVE  FreshInv'
<1> USE DEF flow, roster
<1>1. CASE TickDue
  BY <1>1, PeaceTick
<1>2. CASE TickIdle \/ StageDone \/ LoopEnds \/ UNCHANGED vars \/ \E h \in Humans : reserve(h)
  <2>1. UNCHANGED <<phase, players, bot, body, late>>
    BY <1>2 DEF TickIdle, NotDue, StageDone, LoopEnds, vars, reserve
  <2> QED
    BY <2>1, PeaceKept DEF Participants
<1>3. CASE \E h \in Humans : sweepDisconnects(h) \/ handlePlayerQuit(h)
  <2>1. PICK h \in players : removePlayer(h) /\ phase' = phase /\ bot' = bot /\ late' = late
    BY <1>3 DEF sweepDisconnects, handlePlayerQuit
  <2> QED
    BY <2>1, PeaceLeave
<1>4. CASE \E h \in Humans : admitLater(h)
  BY <1>4, PeaceAdmit
<1>5. CASE \E p \in Humans : stepHeal(p)
  <2>1. PICK p \in Humans : stepHeal(p)
    BY <1>5
  <2>2. p \in Entities /\ body[p] # Up
    BY <2>1, HPPositive DEF stepHeal, Up, Entities
  <2> QED
    BY <2>1, <2>2, PeaceOneHurt DEF stepHeal
<1>6. CASE \E e \in Entities : stepKnock(e)
  <2>1. PICK e \in Entities : stepKnock(e)
    BY <1>6
  <2>2. body[e] # Up
    BY <2>1 DEF stepKnock, Up
  <2>3. PICK c : body' = [body EXCEPT ![e] = c]
    <3>1. CASE finalizeKnock(e)
      BY <3>1 DEF finalizeKnock
    <3>2. CASE Drained(e, knockBleedAmt)
      BY <3>2 DEF Drained
    <3> QED
      BY <2>1, <3>1, <3>2 DEF stepKnock
  <2> QED
    BY <2>1, <2>2, <2>3, PeaceOneHurt DEF stepKnock
<1>7. CASE \E e \in Entities : stepRescue(e)
  <2>1. PICK e \in Entities : stepRescue(e)
    BY <1>7
  <2>2. body[e] # Up
    BY <2>1 DEF stepRescue, Up
  <2> QED
    BY <2>1, <2>2, PeaceOneHurt DEF stepRescue
<1>8. CASE \E r \in Humans, t \in Entities : startRescue(r, t) \/ stopRescue(r, t)
  <2>1. PICK r \in Humans, t \in Entities : startRescue(r, t) \/ stopRescue(r, t)
    BY <1>8
  <2>2. body[t] # Up
    BY <2>1, IdsDiffer DEF startRescue, stopRescue, Up
  <2> QED
    BY <2>1, <2>2, PeaceOneHurt DEF startRescue, stopRescue
<1>9. CASE \E p \in Humans, d \in Damages : stepZone(p, d)
  BY <1>9 DEF stepZone, FreshInv, Peace
<1>10. CASE \E h \in Humans, e \in Entities, d \in Damages : handleTakeDamage(e, h, d)
  BY <1>10 DEF handleTakeDamage, FreshInv, Peace
<1> QED
  BY <1>1, <1>2, <1>3, <1>4, <1>5, <1>6, <1>7, <1>8, <1>9, <1>10 DEF Next, Tick, Mail

\* reviveAll, admitLater and spawnFallbackBot together: every fight begins with everybody up,
\* at full HP, and no knock or rescue of the round before is left, unless a hit was reported
\* between the round reset and the fight (handleTakeDamage does not look at the phase).
THEOREM RoundsFresh == Spec => FreshRound
<1>1. Init => FreshInv
  <2> SUFFICES ASSUME Init PROVE FreshInv
    OBVIOUS
  <2>1. PICK h \in Humans : players = {h} /\ body = [e \in Entities |-> IF e = h THEN Up ELSE Absent]
    BY DEF Init
  <2>2. Participants = {h} /\ h \in Entities
    BY <2>1 DEF Init, Participants, Entities
  <2> QED
    BY <2>1, <2>2 DEF FreshInv
<1>2. FreshInv /\ [Next]_vars
        => [phase # "Fight" /\ phase' = "Fight"
              => late \/ \A e \in Participants : body[e] = Up]_vars
  <2> SUFFICES ASSUME FreshInv, Next, phase # "Fight", phase' = "Fight", ~late
               PROVE  \A e \in Participants : body[e] = Up
    OBVIOUS
  <2>1. TickDue
    BY DEF Next, Tick, Mail, TickIdle, NotDue, StageDone, LoopEnds, sweepDisconnects, stepHeal,
      stepZone, stepKnock, stepRescue, reserve, admitLater, handlePlayerQuit, startRescue,
      stopRescue, handleTakeDamage, flow
  <2>2. phase = "Prepare"
    BY <2>1 DEF TickDue, Due, endFight, StartEarly, PlainEdge, After, PrepareOpens, enterPrepare,
      startBuyPhase, PrepareEnds, postBannerEdge, NextRound, MatchEnds, Close, enter
  <2> QED
    BY <2>2 DEF FreshInv, Peace
<1> QED
  BY <1>1, <1>2, FreshStep, LifeInvariant, PTL DEF Spec, FreshRound

--------------------------------------------------------------------------------
(* Types. *)

\* What TypeOK says beyond FlowInv and LifeInv.
RestOK ==
  /\ settings \in SettingsRec
  /\ stage \in DOMAIN StageAfter \cup {"mail", "gone"}
  /\ ended \in BOOLEAN /\ closing \in BOOLEAN /\ roundOver \in BOOLEAN
  /\ firstBlood \in Entities \cup {Nobody}

\* creditDeath names one of the killers it was given.
LEMMA CreditType ==
  ASSUME firstBlood \in Entities \cup {Nobody}, NEW pairs,
         \A q \in pairs : q[2] \in Entities \cup {Nobody}, creditDeath(pairs)
  PROVE  firstBlood' \in Entities \cup {Nobody}
BY DEF creditDeath

\* Whoever is credited by a hit is a participant or nobody.
LEMMA DamageCredit ==
  ASSUME body \in [Entities -> Body], firstBlood \in Entities \cup {Nobody},
         NEW v \in Entities, NEW a \in Humans \cup {Nobody}, NEW dmg, applyDamage(v, a, dmg)
  PROVE  firstBlood' \in Entities \cup {Nobody}
<1>0. /\ a \in Entities \cup {Nobody}
      /\ \A e \in Entities : body[e].knock # NoKnock => body[e].knock \in Entities \cup {Nobody}
  BY DEF Entities, Body
<1>1. CASE UNCHANGED firstBlood
  BY <1>1
<1>2. CASE creditDeath({<<v, a>>})
  <2>1. \A q \in {<<v, a>>} : q[2] \in Entities \cup {Nobody}
    BY <1>0
  <2> QED
    BY <1>2, <2>1, CreditType
<1>3. CASE body[v].knock # NoKnock /\ creditDeath({<<v, body[v].knock>>})
  <2>1. \A q \in {<<v, body[v].knock>>} : q[2] \in Entities \cup {Nobody}
    BY <1>0, <1>3
  <2> QED
    BY <1>3, <2>1, CreditType
<1>4. CASE teamFellToZero(v, a)
  <2> DEFINE down == {e \in Entities : /\ body[e].knock # NoKnock
                                       /\ body[e].life = "knocked"
                                       /\ teamOf(e) = teamOf(v)}
             pairs == {<<v, a>>} \cup {<<e, body[e].knock>> : e \in down}
  <2>1. creditDeath(pairs)
    BY <1>4 DEF teamFellToZero
  <2>2. \A q \in pairs : q[2] \in Entities \cup {Nobody}
    BY <1>0
  <2> HIDE DEF pairs
  <2> QED
    BY <2>1, <2>2, CreditType
<1> QED
  BY <1>1, <1>2, <1>3, <1>4 DEF applyDamage, damageKnocked, Drained, finalizeKnock,
    downOrKill, killEntity, knockPlayer

\* One step of any action keeps RestOK.
LEMMA RestStep ==
  ASSUME RestOK, LifeInv, [Next]_vars
  PROVE  RestOK'
<1> USE DEF RestOK, StageAfter
<1>0. body \in [Entities -> Body] /\ Humans \subseteq Entities
  BY DEF LifeInv, Entities
<1>1. CASE TickDue
  <2>1. CASE endFight \/ MatchEnds \/ Close \/ PrepareEnds
    BY <1>1, <2>1 DEF TickDue, endFight, MatchEnds, Close, PrepareEnds, enterCancel
  <2>2. CASE StartEarly \/ PlainEdge \/ PrepareOpens \/ NextRound
    BY <1>1, <2>2 DEF TickDue, StartEarly, PlainEdge, PrepareOpens, NextRound
  <2>3. CASE postBannerEdge
    BY <1>1, <2>3 DEF TickDue, postBannerEdge, reviveAll
  <2> QED
    BY <1>1, <2>1, <2>2, <2>3 DEF TickDue, Due
<1>2. CASE TickIdle \/ StageDone \/ LoopEnds \/ UNCHANGED vars
  BY <1>2 DEF TickIdle, NotDue, StageDone, LoopEnds, flow, vars
<1>3. CASE \E p \in Humans : \/ sweepDisconnects(p) \/ stepHeal(p) \/ reserve(p)
                             \/ admitLater(p) \/ handlePlayerQuit(p)
  BY <1>3 DEF sweepDisconnects, stepHeal, reserve, admitLater, handlePlayerQuit, flow
<1>4. CASE \/ \E e \in Entities : stepRescue(e)
           \/ \E r \in Humans, t \in Entities : startRescue(r, t) \/ stopRescue(r, t)
  BY <1>4 DEF stepRescue, startRescue, stopRescue, flow
<1>5. CASE \/ \E p \in Humans, d \in Damages : stepZone(p, d)
           \/ \E h \in Humans, e \in Entities, d \in Damages : handleTakeDamage(e, h, d)
  <2>1. PICK v \in Entities, a \in Humans \cup {Nobody}, d \in Damages :
          applyDamage(v, a, d) /\ UNCHANGED <<flow, stage>>
    BY <1>0, <1>5 DEF stepZone, handleTakeDamage
  <2>2. firstBlood' \in Entities \cup {Nobody}
    BY <1>0, <2>1, DamageCredit
  <2> QED
    BY <2>1, <2>2 DEF flow
<1>6. CASE \E e \in Entities : stepKnock(e)
  <2>1. PICK e \in Entities : stepKnock(e)
    BY <1>6
  <2>2. firstBlood' \in Entities \cup {Nobody}
    <3>1. CASE finalizeKnock(e)
      <4>1. body[e].knock \in Entities \cup {Nobody}
        BY <1>0, <2>1 DEF stepKnock, Body
      <4>2. \A q \in {<<e, body[e].knock>>} : q[2] \in Entities \cup {Nobody}
        BY <4>1
      <4> QED
        BY <3>1, <4>2, CreditType DEF finalizeKnock
    <3> QED
      BY <2>1, <3>1 DEF stepKnock, Drained
  <2> QED
    BY <2>1, <2>2 DEF stepKnock, flow
<1> QED
  BY <1>1, <1>2, <1>3, <1>4, <1>5, <1>6 DEF Next, Tick, Mail

\* The history variable is a flag.
LateOK == late \in BOOLEAN
LEMMA LateStep == LateOK /\ [Next]_vars => LateOK'
<1> USE DEF LateOK
<1> SUFFICES ASSUME LateOK, [Next]_vars PROVE late' \in BOOLEAN
  OBVIOUS
<1>1. CASE late' = late \/ late' = FALSE \/ late' = (late \/ phase # "Fight")
  BY <1>1, Zenon
<1>2. ASSUME late' # late PROVE late' = FALSE \/ late' = (late \/ phase # "Fight")
  BY <1>2 DEF Next, Tick, Mail, TickDue, Due, endFight, StartEarly, PlainEdge, PrepareOpens,
    PrepareEnds, postBannerEdge, reviveAll, NextRound, MatchEnds, Close, TickIdle, NotDue,
    StageDone, LoopEnds, sweepDisconnects, stepHeal, stepZone, stepKnock, stepRescue, reserve,
    admitLater, handlePlayerQuit, startRescue, stopRescue, handleTakeDamage, vars
<1> QED
  BY <1>1, <1>2

\* Every variable keeps its type: HP and pools never go below 0, and neither the rounds
\* nor a team's wins exceed the number of rounds.
THEOREM TypeCorrect == Spec => []TypeOK
<1>1. Init => RestOK
  BY MatchSettingsTyped DEF Init, RestOK
<1>2. Init => LateOK
  BY DEF Init, LateOK
<1>3. FlowInv /\ LifeInv /\ RestOK /\ LateOK => TypeOK
  <2> SUFFICES ASSUME FlowInv, LifeInv, RestOK, LateOK PROVE TypeOK
    OBVIOUS
  <2>1. teamScore \in [Teams -> 0 .. maxRound]
    <3>1. /\ teamScore[1] \in Nat /\ teamScore[2] \in Nat
          /\ teamScore[1] + teamScore[2] <= round
      BY DEF FlowInv, Tally, Teams
    <3>2. \A t \in Teams : teamScore[t] \in 0 .. maxRound
      BY <3>1, MatchBounds DEF FlowInv, Teams
    <3> QED
      BY <3>2 DEF FlowInv
  <2>2. {started, ended, closing, roundOver, bot} \subseteq BOOLEAN
    BY Zenon DEF FlowInv, LifeInv, RestOK
  <2> QED
    BY <2>1, <2>2 DEF TypeOK, FlowInv, LifeInv, RestOK, LateOK
<1> QED
  BY <1>1, <1>2, <1>3, RestStep, LateStep, FlowInvariant, LifeInvariant, PTL DEF Spec
================================================================================
