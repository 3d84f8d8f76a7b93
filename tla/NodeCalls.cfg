\* Invocations of a looping graph with retries, children, crashes and resumes.
CONSTANTS
  a = a  b = b  i = i  j = j
  End = End  Missing = Missing  NoInterrupt = NoInterrupt  NoEvent = NoEvent
  Nodes = {a, b}
  Interrupts = {i}
  Workers = {w1}
  Starts = {a}
  EdgeTargets <- LoopEdges
  Outcomes <- FlakyOutcomes
  DynamicNodes = {b}
  InterruptBefore = {}
  InterruptAfter = {}
  HandoffInterrupts = {}
  SchemaInterrupts = {}
  Policy = "ResetToPending"
  MaxSteps = 3
  MaxAttempts = 3
  Kinds = {"run", "resume", "input"}
  Exclusive = TRUE
  HasHead = FALSE
  StoreErrors = TRUE
  LostAnswers = FALSE
  MaxOps = 2
  MaxFaults = 1
  ChildNodes = {a}
  BaseDelay = 10
  MaxDelay = 16
  Jitter = TRUE
  U64Max = 40
  RecordLimit = 2
  MaxChildren = 2
SPECIFICATION NodeCallsSpec
INVARIANTS NodeCallsTypeOK KeysNameSteps InputReachesFirstAttempt PauseInRange RecordsAreTheLast
CHECK_DEADLOCK FALSE
