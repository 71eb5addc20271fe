SPECIFICATION Spec
CONSTANTS
  o1 = o1
  o2 = o2
  s1 = s1
  s2 = s2
  c1 = c1
  c2 = c2
  Offers = {o1, o2}
  OverBand = {o1}
  Staff = {s1, s2}
  Clicks = {c1, c2}
  Targets = {"hr_round"}
  Advice = {"proceed"}
  MaxRequests = 1
  MaxFaults = 1
SYMMETRY Symmetry
INVARIANTS OverBandApproved AnsweredOnce HireFollowsAnswer AcceptedIsHired
