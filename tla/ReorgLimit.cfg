SPECIFICATION Spec
CONSTANTS
  Importer = {queue}
  Own = {queue}
  Difficulty = {1, 4}
  InitialDifficulty = 4
  MaxReorgDepth = 3
  MaxBlocks = 6
PROPERTIES ReorgLimit
