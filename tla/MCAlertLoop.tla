----------------------------- MODULE MCAlertLoop -----------------------------
(* One panel and one agent.  The panel is fine, busy, busy while its site list *)
(* does not answer, or answers its disk call with an error object.  The agent  *)
(* has a full disk and reports or is silent.                                   *)
EXTENDS AlertLoop

CONSTANTS p1, a1, data

MCPanels == {p1}
MCRank == [p \in MCPanels |-> 1]
MCAgents == {a1}
MCMounts == {data}

Machine(answers, hot, odd) == [answers |-> answers, hot |-> hot, odd |-> odd]
Fine == Machine(Items, {}, FALSE)
Busy == Machine(Items, {"cpu"}, FALSE)
BusyNoSites == Machine(Items \ {"sites"}, {"cpu"}, FALSE)
Refusing == Machine(Items, {}, TRUE)
MCPanelStates == {Fine, Busy, BusyNoSites, Refusing}

Row(fresh, hot, detail) == [fresh |-> fresh, hot |-> hot, detail |-> detail]
MCAgentStates == {Row(fresh, {}, {data}) : fresh \in BOOLEAN}

\* A configuration, and the empty one, with the default cooldown, that a reader
\* finds while another thread is writing the file.
MCSettings == {[cooldown |-> 1, panels |-> MCPanels],
               [cooldown |-> DefaultCooldown, panels |-> {}]}
=============================================================================
