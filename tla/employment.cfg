SPECIFICATION FairSpec
CONSTANTS
  s1 = s1 s2 = s2
  Sessions = {s1, s2}
  Targets = {"day_zero", "in_progress"}
  MaxCases = 1
  MaxRequests = 6
  MaxFaults = 1
INVARIANTS TerminatedWasCleared TerminationStands
PROPERTY HiredIsLinked
CHECK_DEADLOCK FALSE
