\* Whatever a node may return, answers to yields, restarts, an unknown step type and a
\* concurrency limit of zero, and any DAG value handed over, on eight relations.
CONSTANTS
  N = 3
  Graphs <- Shapes
  Outcomes <- Anything
  Registered <- JoinUnknown
  InterruptBefore = {3}
  InterruptAfter = {1}
  FailurePolicy = "ContinueOnError"
  Policy = "SkipAndContinue"
  MaxConcurrent = 0
  MaxAttempts = 2
  Budget = 2
  Given = {"kept", "left", "rebuilt"}
  MaxCalls = 3
  MaxFaults = 1
SPECIFICATION FairSpec
INVARIANTS DependenciesFirst BudgetPerCall
PROPERTIES SnapshotSettled CheckpointedNotRerun DagCallsReturn ProgressSpec
CHECK_DEADLOCK FALSE
