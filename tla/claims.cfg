SPECIFICATION ClaimsSpec
CONSTANTS
  p1 = p1 p2 = p2 s1 = s1 s2 = s2 r1 = r1 r2 = r2
  Partners = {p1, p2}
  Sessions = {s1, s2}
  Contacts <- TwoPeople
  Requisitions = {r1, r2}
  MaxPersons = 3
  MaxClaims = 3
  MaxRequests = 3
SYMMETRY Symmetry
INVARIANTS Exclusive NobodyTwice
PROPERTY NoPoaching
CHECK_DEADLOCK FALSE
