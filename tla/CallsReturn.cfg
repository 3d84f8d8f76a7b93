\* Every call returns and gives its claim back, with conflicts, rollbacks and a looping
\* graph, without faults, schemas and handoffs.
CONSTANTS
  a = a  b = b  i = i  j = j
  End = End  Missing = Missing  NoInterrupt = NoInterrupt  NoEvent = NoEvent
  Nodes = {a, b}
  Interrupts = {i, j}
  Workers = {w1, w2}
  Starts = {a}
  EdgeTargets <- LoopEdges
  Outcomes <- AnyOutcomes
  DynamicNodes = {}
  InterruptBefore = {}
  InterruptAfter = {}
  HandoffInterrupts = {}
  SchemaInterrupts = {}
  Policy = "ResetToPending"
  MaxSteps = 2
  MaxAttempts = 2
  Kinds = {"run", "resume", "input"}
  Exclusive = FALSE
  HasHead = TRUE
  StoreErrors = FALSE
  LostAnswers = FALSE
  MaxOps = 3
  MaxFaults = 0
SPECIFICATION FairSpec
INVARIANTS RowsPerCallBounded InProgressIsActive
PROPERTIES CallsReturn
CHECK_DEADLOCK FALSE
