SPECIFICATION FairSpec
CONSTANTS
  solvable = solvable
  unsolvable = unsolvable
  JobId = {j1, j2}
  Work = {solvable, unsolvable}
  MaxNonce = 3
  Width = 5
  Sha <- MCSha
  Valid <- MCValid
INVARIANTS
  TypeOK
  SearchSound
  MathematicsHolds
PROPERTIES
  JobsEnd
  ImplementsNonceSearch
