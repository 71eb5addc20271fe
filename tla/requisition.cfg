SPECIFICATION Spec
CONSTANTS
  u1 = u1
  u2 = u2
  Users = {u1, u2}
  MaxRevisions = 3
  MaxRequests = 3
  MaxHolds = 2
SYMMETRY Symmetry
INVARIANTS LiveWasApproved QueueMatchesStatus LiveAsScanned PostedStaysPosted
CHECK_DEADLOCK FALSE
