\* Duplicate webhook deliveries, crashes, store errors and recoveries on a store
\* without a head; callers keep run and resume to a quiet thread.
CONSTANTS
  a = a  b = b  i = i  j = j
  End = End  Missing = Missing  NoInterrupt = NoInterrupt  NoEvent = NoEvent
  Nodes = {a, b}
  Interrupts = {i, j}
  Workers = {w1, w2}
  Starts = {a}
  EdgeTargets <- LoopEdges
  Outcomes <- AnyOutcomes
  DynamicNodes = {}
  InterruptBefore = {b}
  InterruptAfter = {}
  HandoffInterrupts = {j}
  SchemaInterrupts = {}
  Policy = "ResetToPending"
  MaxSteps = 3
  MaxAttempts = 2
  Kinds = {"run", "resume", "input"}
  Exclusive = TRUE
  HasHead = FALSE
  StoreErrors = TRUE
  LostAnswers = FALSE
  MaxOps = 5
  MaxFaults = 2
SPECIFICATION Spec
SYMMETRY WorkerSymmetry
INVARIANTS TypeOK SingleWorker NothingOverwritten ResolvedOnce
PROPERTIES LifecycleSpec
CHECK_DEADLOCK FALSE
