\* A node yields: its finished sibling is saved as Done without its output.
CONSTANTS
  N = 2
  Graphs <- Pair
  Outcomes <- OkOrYield
  Registered <- AllKnown
  InterruptBefore = {}
  InterruptAfter = {}
  FailurePolicy = "FailFast"
  Policy = "ResetToPending"
  MaxConcurrent = 2
  MaxAttempts = 1
  Budget = 2
  Given = {"kept"}
  MaxCalls = 2
  MaxFaults = 0
SPECIFICATION Spec
INVARIANTS SavedOutputs
CHECK_DEADLOCK FALSE
