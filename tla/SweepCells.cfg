\* A sweep of two cells and another beside it or after it; one may be killed.
\* A run of more than no tick is too long, one with no beacon for two stalls.
CONSTANTS
  good = good  bad = bad  mnist = mnist  gemm = gemm
  Sweeps = {1, 2}
  Asked <- MCAsked
  Buildable = {good}
  Apps = {mnist}
  Files = {"host"}
  MaxKills = 1
  Stall = 1
  Limit = 0
  MaxLines = 1
SPECIFICATION FairSpec
INVARIANTS OwnDirectoriesTellTheTruth NoCellIsDropped
PROPERTIES SweepEnds
CHECK_DEADLOCK FALSE
