\* Anybody calls anything at any time, answers of committed writes get lost; the
\* store compares heads.
CONSTANTS
  a = a  b = b  i = i  j = j
  End = End  Missing = Missing  NoInterrupt = NoInterrupt  NoEvent = NoEvent
  Nodes = {a, b}
  Interrupts = {i, j}
  Workers = {w1, w2}
  Starts = {a}
  EdgeTargets <- BrokenEdges
  Outcomes <- AnyOutcomes
  DynamicNodes = {b}
  InterruptBefore = {}
  InterruptAfter = {b}
  HandoffInterrupts = {j}
  SchemaInterrupts = {j}
  Policy = "ResetToPending"
  MaxSteps = 2
  MaxAttempts = 1
  Kinds = {"run", "resume", "input"}
  Exclusive = FALSE
  HasHead = TRUE
  StoreErrors = TRUE
  LostAnswers = TRUE
  MaxOps = 4
  MaxFaults = 1
SPECIFICATION Spec
SYMMETRY WorkerSymmetry
INVARIANTS RunsContiguous
CHECK_DEADLOCK FALSE
