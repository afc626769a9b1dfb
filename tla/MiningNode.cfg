SPECIFICATION FairSpec
CONSTANTS
  Tip = {t1, t2, t3, t4, t5}
  Pre = {p1, p2, p3, p4, p5}
  JobId = {j1, j2, j3, j4}
  MaxFaults = 2
  NoBuild = NoBuild
  NoJob = NoJob
  NoSeal = NoSeal
INVARIANTS
  TypeOK
  VersionPinsMetadata
  GoodSealsKept
  JobsLeakOnlyByLostCancel
PROPERTIES
  BuildTracksBest
  BlocksKeepComing
