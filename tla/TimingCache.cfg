\* Lines that share an L2 set, requests of one line or two.
CONSTANTS
  L1s = {"icache", "dcache"}
  L2 = "l2"
  G <- WriteBack
  Lines = {0, 2, 4}
  Spans = {1, 2}
  Gaps = {3}
  MemLatencies = {50}
  MaxRequests = 4
SPECIFICATION Spec
INVARIANTS LruIsExact StoresReachMemory LoadsWaitForRefills
PROPERTIES OnlyStoresAreWritten
CHECK_DEADLOCK FALSE
