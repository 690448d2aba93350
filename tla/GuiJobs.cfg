\* Three jobs, the first two of them sweeps of one row or runs; two directories
\* that nothing tells apart.
CONSTANTS
  d1 = d1  d2 = d2
  Dirs = {d1, d2}
  OldRows <- MCOldRows
  Cells = 1
  Limits = {1, 2}
  MaxJobs = 3
  MaxSweeps = 2
  MaxReports = 1
SPECIFICATION Spec
SYMMETRY DirSymmetry
INVARIANTS StatusIsTrue NoIdleSlot LiveIsReal SettledRowsAreOnDisk ReportIsOfCurrent
PROPERTIES StartsInOrder
