SPECIFICATION FairSpec
CONSTANTS
  agentA = agentA
  agentB = agentB
  row1 = row1
  row2 = row2
  row3 = row3
  Agents = {agentA}
  Rows = {row1, row2}
  AgentOf <- SharedAgent
  Mode <- AllOptional
  MaxFaults = 0
INVARIANTS RejectionIsTerminal PendingIsPaused
PROPERTY ApprovedRunsFinish
CHECK_DEADLOCK FALSE
