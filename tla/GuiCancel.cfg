\* One job, cancelled.
CONSTANTS
  d1 = d1  d2 = d2
  Dirs = {}
  OldRows <- MCOldRows
  Cells = 0
  Limits = {1, 2}
  MaxJobs = 1
  MaxSweeps = 0
  MaxReports = 0
SPECIFICATION Spec
INVARIANTS CancelSignals
