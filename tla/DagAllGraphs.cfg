\* Every dependency relation on three nodes, failures, crashes, failed saves, restarts.
CONSTANTS
  N = 3
  Graphs <- AllGraphs
  Outcomes <- AnythingButYield
  Registered <- AllKnown
  InterruptBefore = {2}
  InterruptAfter = {3}
  FailurePolicy = "FailFast"
  Policy = "ResetToPending"
  MaxConcurrent = 2
  MaxAttempts = 1
  Budget = 3
  Given = {"kept"}
  MaxCalls = 4
  MaxFaults = 2
SPECIFICATION Spec
INVARIANTS TypeOK InputsComplete SavedOutputs MergeOrder FinishedIsComplete DeadlockIsReal
CHECK_DEADLOCK FALSE
