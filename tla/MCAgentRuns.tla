---------------------------- MODULE MCAgentRuns ----------------------------
(* Model-checking instances of AgentRuns.                                  *)
EXTENDS AgentRuns, TLC

CONSTANTS agentA, agentB, row1, row2, row3

\* One agent follows up two applications, another one a third.
TwoAndOne == row1 :> agentA @@ row2 :> agentA @@ row3 :> agentB

\* One agent follows up two applications.
SharedAgent == row1 :> agentA @@ row2 :> agentA

RequiredAndAuto == agentA :> "human_required" @@ agentB :> "auto"
AllOptional == [a \in Agents |-> "human_optional"]

\* The two applications of the first agent are alike.
Symmetry == Permutations({row1, row2})
=============================================================================
