SPECIFICATION Spec
CONSTANTS
  s1 = s1
  s2 = s2
  p1 = p1
  p2 = p2
  Sessions = {s1, s2}
  Panelists = {p1, p2}
  Panels = {{p1, p2}}
  Rounds = {"technical", "hr"}
  HrRounds = {"hr"}
  Targets = {"recruiter_rejected"}
  MaxInterviews = 2
  MaxRequests = 6
SYMMETRY Symmetry
INVARIANTS OneLiveRound DecisionBasis
PROPERTY LogIsChain
CHECK_DEADLOCK FALSE
