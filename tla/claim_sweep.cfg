SPECIFICATION FairSpec
CONSTANTS
  p1 = p1 p2 = p2 s1 = s1 w1 = w1 w2 = w2 c1 = c1 c2 = c2 r1 = r1
  Partners = {p1}
  Sessions = {s1}
  Contacts <- OnePerson
  Requisitions = {r1}
  MaxPersons = 1
  MaxClaims = 2
  MaxRequests = 2
  Workers = {w1, w2}
  Jobs = {"sweep"}
  Connections = {c1, c2}
  MaxLocks = 2
  MaxFaults = 1
PROPERTIES ExpiryIsWarned LapsedIsFreed
CHECK_DEADLOCK FALSE
