\* One cluster with two compute cores, every kind of job; posts run ahead of waits by two.
CONSTANTS
  sn = sn  sp = sp  c1 = c1  c2 = c2  c3 = c3  A = A  C = C  X = X  Y = Y  W = W
  Engines = {sp}
  Cores = {c1, c2}
  Kernels <- MCKernels
  NoKernel = "none"
  Args <- MCArgs
  Slots <- MCSlots
  NoSlot = NoSlot
  Buffers <- MCBuffers
  OutSlot <- MCOutSlot
  Ptr <- MCPtr
  OperandsFit <- MCOperandsFit
  NeedsScratch = {"mfcc"}
  ScratchFits <- MCScratchFits
  RequiresStaging = {sp}
  Jobs <- JobsAll
  Blank = Blank
  SeqMod = 2
  CountMod = 3
  BootWords = {0, 1}
  MaxOwed = 2
  MaxTimeouts = 0
  MaxTraps = 0
SPECIFICATION FairSpec
INVARIANTS TypeOK BarrierAligned DescriptorStable ServesPostedJob ResultDelivered TrustedIntact EveryLossCounted
PROPERTIES WritesOnlyOwnOutput EveryJobIsFinished EveryCallReturns OffloadContract
