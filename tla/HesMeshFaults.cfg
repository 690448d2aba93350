\* One cluster; two waits of the host may run out and one core may trap.
CONSTANTS
  sn = sn  sp = sp  c1 = c1  c2 = c2  c3 = c3  A = A  C = C  X = X  Y = Y  W = W
  Engines = {sp}
  Cores = {c1, c2}
  Kernels <- MCKernels
  NoKernel = "none"
  Args <- MCArgs
  Slots <- MCSlots
  NoSlot = NoSlot
  Buffers <- MCBuffers
  OutSlot <- MCOutSlot
  Ptr <- MCPtr
  OperandsFit <- MCOperandsFit
  NeedsScratch = {"mfcc"}
  ScratchFits <- MCScratchFits
  RequiresStaging = {sp}
  Jobs <- JobsLate
  Blank = Blank
  SeqMod = 4
  CountMod = 4
  BootWords = {0, 1}
  MaxOwed = 1
  MaxTimeouts = 2
  MaxTraps = 1
SPECIFICATION Spec
INVARIANTS NoStaleDone WrongNumbersAreCounted
PROPERTIES TrapIsNeverDone
CHECK_DEADLOCK FALSE
