\* A sweep of one cell, then one for another board into the same directory.
CONSTANTS
  good = good  bad = bad  mnist = mnist  gemm = gemm
  Sweeps = {1, 2}
  Asked <- MCAgain
  Buildable = {good}
  Apps = {mnist}
  Files = {"host"}
  MaxKills = 0
  Stall = 0
  Limit = 1
  MaxLines = 1
SPECIFICATION Spec
INVARIANTS RowsAreTrue
CHECK_DEADLOCK FALSE
