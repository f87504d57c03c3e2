----------------------------- MODULE AlertRules -----------------------------
(***************************************************************************)
(* What one look at a panel or at an agent's stored sample says is wrong:  *)
(* BTClient.collect_all (bt_client.py) and evaluate_alerts and             *)
(* evaluate_agent_alerts (notifier.py).                                    *)
(*                                                                         *)
(* Percentages and thresholds are abstracted to the metrics that are at or *)
(* over their threshold.  An alert's key is the pair of a source and of    *)
(* what is wrong with it.                                                  *)
(***************************************************************************)

CONSTANT NoDetail   \* an agent that has never sent a disk_detail list

\* The five calls of collect_all, in the panel's API.
Items == {"system", "network", "disk", "sites", "databases"}

Metrics == {"cpu", "mem", "disk"}

\* The calls a metric is read from: CPU falls back on the network call.
ItemsOf == [cpu |-> {"system", "network"}, mem |-> {"system"}, disk |-> {"disk"}]

\* A panel's machine: the calls it answers, the metrics over their threshold,
\* and whether its disk call answers with an object (the API's error message)
\* where a list belongs.
Machines == [answers : SUBSET Items, hot : SUBSET Metrics, odd : BOOLEAN]

\* What collect_all makes of it: one failing call puts the whole panel offline.
CollectAll(m) ==
    [online |-> m.answers = Items,
     hot    |-> {x \in m.hot : ItemsOf[x] \cap m.answers # {}},
     odd    |-> m.odd /\ "disk" \in m.answers]

\* evaluate_alerts: nothing else is looked at when the panel is offline.
EvaluateAlerts(p, result) ==
    IF result.online THEN {p} \X result.hot ELSE {<<p, "offline">>}

\* evaluate_alerts walks the disk list; an object in its place makes it fail.
EvaluationRaises(result) == result.online /\ result.odd

\* An agent's rows: whether its last sample is recent enough to be listed, the
\* metrics over their threshold in it, the mount points over theirs in the
\* latest disk_detail it has sent.
AgentRows(Mounts) ==
    [fresh : BOOLEAN, hot : SUBSET Metrics, detail : {NoDetail} \cup SUBSET Mounts]

\* evaluate_agent_alerts: the detail, where there is one, replaces the sample's
\* own disk figure.
EvaluateAgentAlerts(a, row) ==
    LET mounts == IF row.detail # NoDetail THEN row.detail
                  ELSE IF "disk" \in row.hot THEN {"/"} ELSE {}
    IN  {a} \X ((row.hot \ {"disk"}) \cup mounts)
=============================================================================
