SPECIFICATION Spec
CONSTANTS
  agentA = agentA
  agentB = agentB
  row1 = row1
  row2 = row2
  row3 = row3
  Agents = {agentA, agentB}
  Rows = {row1, row2, row3}
  AgentOf <- TwoAndOne
  Mode <- RequiredAndAuto
  MaxFaults = 1
SYMMETRY Symmetry
INVARIANTS SentAsApproved OneRunInProgress
CHECK_DEADLOCK FALSE
