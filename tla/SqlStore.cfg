\* The table against the list: one saver at a time, a clock that advances.
CONSTANTS
  i = i  j = j  s = s
  Interrupts = {i, j}
  NoInterrupt = NoInterrupt
  Keeps = {0, 1, 2}
  MaxSaves = 4
  MaxTime = 6
  Savers = {s}
  Ticks = {1}
  Skew = 1
SPECIFICATION Spec
SYMMETRY InterruptSymmetry
INVARIANTS TypeOK
PROPERTIES MemorySpec HeadSurvivesKeepLast RegrantedOnlyAfterRetention
