\* Every main, either front end; one wait that gives up and one trap.
CONSTANTS
  sn = sn  sp = sp  c1 = c1  A = A  F0 = F0  F1 = F1  I = I  Y = Y
  Engines = {sn, sp}
  Cores = {c1}
  Kernels <- PKernels
  NoKernel = "none"
  Args <- PArgs
  Slots <- PSlots
  NoSlot = NoSlot
  Buffers <- PBuffers
  OutSlot <- POutSlot
  Ptr <- PPtr
  OperandsFit <- PArgs
  NeedsScratch = {"mfcc"}
  ScratchFits <- PArgs
  RequiresStaging = {sp}
  Jobs <- PJobs
  Blank = Blank
  SeqMod = 8
  CountMod = 16
  BootWords = {0}
  MaxOwed = 2
  MaxTimeouts = 1
  MaxTraps = 1
  Programs = {"kws", "kws_serial", "network"}
  FrontEnds = {sn, sp}
  Clips = 3
  NodeEngines <- PNodeEngines
  Mfcc <- PMfcc
  Node <- PNode
SPECIFICATION FairProgram
INVARIANTS ExitZeroIsTrue
PROPERTIES FeaturesHeld MainReturns
CHECK_DEADLOCK FALSE
