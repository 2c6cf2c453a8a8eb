CONSTANTS
  Humans = {h1, h2}
  Bot = Bot
  Nobody = Nobody
  NoKnock = NoKnock
  MaxHP = 2
  knockdownHP = 2
  knockBleedAmt = 1
  reviveHP = 1
  Damages = {1, 2}
  maxRound = 3
  maxPlayers = 3
  Settings <- AnySettings
SPECIFICATION FairSpec
CHECK_DEADLOCK FALSE
INVARIANTS TypeOK Mortal Tally
PROPERTIES FreshRound NoCancelOnceStarted PhasesEnd FightDecided
