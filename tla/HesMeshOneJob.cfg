\* One wait may run out, then the program posts again.
CONSTANTS
  sn = sn  sp = sp  c1 = c1  c2 = c2  c3 = c3  A = A  C = C  X = X  Y = Y  W = W
  Engines = {sp}
  Cores = {c1, c2}
  Kernels <- MCKernels
  NoKernel = "none"
  Args <- MCArgs
  Slots <- MCSlots
  NoSlot = NoSlot
  Buffers <- MCBuffers
  OutSlot <- MCOutSlot
  Ptr <- MCPtr
  OperandsFit <- MCOperandsFit
  NeedsScratch = {"mfcc"}
  ScratchFits <- MCScratchFits
  RequiresStaging = {sp}
  Jobs <- JobsFew
  Blank = Blank
  SeqMod = 4
  CountMod = 2
  BootWords = {0}
  MaxOwed = 2
  MaxTimeouts = 1
  MaxTraps = 0
SPECIFICATION Spec
INVARIANTS OneJobPerEngine
