\* A resume that fails after its first checkpoint cannot be tried again.
CONSTANTS
  a = a  b = b  i = i  j = j
  End = End  Missing = Missing  NoInterrupt = NoInterrupt  NoEvent = NoEvent
  Nodes = {a, b}
  Interrupts = {i, j}
  Workers = {w1, w2}
  Starts = {a}
  EdgeTargets <- LineEdges
  Outcomes <- ApprovalOutcomes
  DynamicNodes = {}
  InterruptBefore = {}
  InterruptAfter = {}
  HandoffInterrupts = {}
  SchemaInterrupts = {}
  Policy = "ResetToPending"
  MaxSteps = 2
  MaxAttempts = 2
  Kinds = {"run", "resume", "input"}
  Exclusive = TRUE
  HasHead = FALSE
  StoreErrors = FALSE
  LostAnswers = FALSE
  MaxOps = 4
  MaxFaults = 0
SPECIFICATION Spec
SYMMETRY WorkerSymmetry
INVARIANTS PendingIsClaimable
CHECK_DEADLOCK FALSE
