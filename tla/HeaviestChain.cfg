SPECIFICATION FairSpec
CONSTANTS
  Importer = {queue, miner}
  Own = {miner}
  Difficulty = {1, 2}
  InitialDifficulty = 1
  MaxReorgDepth = 3
  MaxBlocks = 5
INVARIANTS TypeOK SelectionIsHeaviest AsleepOnlyWhenCaughtUp
PROPERTIES ImportKeepsHeaviest OnlyRacesLighten FinalityCatchesUp
CHECK_DEADLOCK TRUE
