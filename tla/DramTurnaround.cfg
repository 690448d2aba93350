\* Bank groups of the lpddr5 preset: a burst to another group comes between a
\* write and a read of the same one.
CONSTANTS
  wq_depth = 4  wq_high = 3  wq_low = 2  channels = 1  ranks = 1
  bankgroups = 4  banks = 4  rows = 32768  cols = 64  nb = 2  burst = 2
  ctrl = 16  tCK = 1  tRCD = 15  tRP = 15  tRPab = 17  tRAS = 34  tRC = 49
  tRL = 18  tWL = 10  tRRD_S = 4  tRRD_L = 4  tFAW = 16  tCCD_S = 2
  tCCD_L = 4  tWTR_S = 4  tWTR_L = 11  tRTW = 12  tRTW_L = 14  tWR = 28
  tRTP = 6  tREFI = 3124  tRFC = 168
  Fields <- RoBaCoBg
  Lines = {0, 1, 512}
  Spans = {1}
  Gaps = {0, 25}
  MaxAccesses = 3
SPECIFICATION Spec
INVARIANTS WritesTurnAround
CHECK_DEADLOCK FALSE
