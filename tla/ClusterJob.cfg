SPECIFICATION Spec
CONSTANTS
  Word = 2048
  FloatBytes = 4
  HalfBytes = 2
  LineBytes = 8
  HeapStart = 20
  HeapEnd = 304
  MainBase = 512
  NbCompute = 2
  GEMM_UNROLL = 2
  F_UNROLL = 2
  MFCC_UNROLL = 2
  ROWS = 2
  VLMAX = 3
  Engines <- MCEngines
  Jobs <- MCJobs
INVARIANTS ResultIsReference StreamsAreSpent PlanIsSound
