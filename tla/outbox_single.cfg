SPECIFICATION FairSpec
CONSTANTS
  w1 = w1
  w2 = w2
  r1 = r1
  r2 = r2
  Workers = {w1}
  Rows = {r1, r2}
  BatchSize = 2
  AttemptCap = 2
  MaxAbandons = 1
INVARIANTS DuplicatesExplained AttemptsBounded
PROPERTY ImplementsQueue
