CONSTANTS
  t1 = t1
  t2 = t2
  k1 = k1
  k2 = k2
  Tab <- Tabs
  Socket <- Sockets
  MaxFrame = 3
  Window = 1
  MaxBreak = 2
SPECIFICATION Spec
INVARIANTS
  FrameTakenOnce
  SkippedSoundHasGap
  FinalsKeptOnce
SYMMETRY SocketSymmetry
CHECK_DEADLOCK FALSE
