---------------------------- MODULE MCAgentDeploy ----------------------------
(* Two deployments at once on one machine, which can be bound to a panel.    *)
EXTENDS AgentDeploy

CONSTANTS d1, d2, m1

MCDeployments == {d1, d2}
MCMachines == {m1}
MCPanels == {"panel"}
MCHostName == [m \in MCMachines |-> "host"]
=============================================================================
