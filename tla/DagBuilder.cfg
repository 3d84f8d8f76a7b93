\* Every list of three distinct entries with up to two dependencies each, and
\* lists with repeated step types, in a build that checks for overflow.
CONSTANTS
  a = a  b = b  c = c  unknown = unknown
  Names = {a, b, c, unknown}
  Unconstrained = Unconstrained
  Inputs <- AllInputs
  Allowlists <- SomeLists
  UsizeMax = 7
  OverflowChecks = TRUE
SPECIFICATION FairSpec
INVARIANTS TypeOK AcceptedIsSound ReportedCycleIsReal NoUnderflow
PROPERTIES BuildReturns
CHECK_DEADLOCK FALSE
