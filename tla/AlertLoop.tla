------------------------------ MODULE AlertLoop ------------------------------
(***************************************************************************)
(* The alert thread: background_alert_loop of app.py with the Notifier it  *)
(* keeps for the life of the process (notifier.py).                        *)
(*                                                                         *)
(* A round loads config.yaml, fetches every panel, evaluates them in the   *)
(* order of the configuration, then evaluates every agent that is still    *)
(* reporting, notifies each alert as it comes, and at its very end lets go *)
(* of the problems the round has not seen.  Any exception abandons the     *)
(* round where it stands.  The machines, the agents' rows, the settings    *)
(* and the clock change at any point of a round.                           *)
(*                                                                         *)
(* Sending is best effort: neither channel reports back, so a message that *)
(* is lost leaves no trace in the state and is not modelled.               *)
(***************************************************************************)
EXTENDS Naturals, FiniteSets, AlertRules

CONSTANTS
    Panels,        \* the BT panels (or Nightcord-Status) that may be configured
    Rank,          \* the order of the panels in config.yaml
    Agents,        \* the panel names agents report under
    Mounts,        \* mount points
    PanelStates,   \* the states a panel's machine may be in
    AgentStates,   \* the states of an agent's rows in metrics.db
    Settings,      \* the configurations that may be saved
    Unreadable,    \* config.yaml while it cannot be parsed
    DefaultCooldown,
    LeastCooldown, MostCooldown

ASSUME RulesAssumption ==
    /\ PanelStates \subseteq Machines
    /\ AgentStates \subseteq AgentRows(Mounts)
    /\ \A w \in AgentStates : [w EXCEPT !.fresh = FALSE] \in AgentStates
    /\ Rank \in [Panels -> Nat]

ASSUME SettingsAssumption ==
    /\ Settings \subseteq [cooldown : Nat, panels : SUBSET Panels]
    /\ Unreadable \notin Settings
    /\ LeastCooldown \in Nat /\ MostCooldown \in Nat
    /\ DefaultCooldown \in LeastCooldown..MostCooldown
    /\ \A s \in Settings :
          LeastCooldown <= s.cooldown /\ s.cooldown <= MostCooldown

VARIABLES
    settings,   \* config.yaml
    machine,    \* the panels' machines
    rows,       \* what metrics.db holds of each agent
    phase,      \* where the alert thread is
    loaded,     \* the cooldown of the configuration this round has loaded
    results,    \* the fetched results not evaluated yet
    listed,     \* the active agents not evaluated yet
    pending,    \* the alerts of the source just evaluated, not yet notified
    seen,       \* active_keys: the alerts of this round so far
    cooldown,   \* Notifier.cooldown
    active,     \* Notifier._active
    since,      \* time since Notifier._last_sent, MostCooldown when long ago
    absent      \* history: keys a whole round has missed since their last message

settingsVars == <<settings, machine, rows>>
roundVars    == <<phase, loaded, results, listed, pending, seen>>
notifierVars == <<cooldown, active, since, absent>>
vars == <<settingsVars, roundVars, notifierVars>>

\* Every alert some state of a panel or of an agent's rows gives rise to.
PanelKeys == UNION {EvaluateAlerts(p, CollectAll(m)) : p \in Panels, m \in PanelStates}
AgentKeys == UNION {EvaluateAgentAlerts(a, w) : a \in Agents, w \in AgentStates}
Keys == PanelKeys \cup AgentKeys

Phases == {"asleep", "fetching", "panels", "agents"}

NoResults == [p \in {} |-> 0]

-----------------------------------------------------------------------------
\* A plausible slip: no cooldown, a problem that is back is news at once.
ShouldSend_NoCooldown(k) == k \notin active

\* A plausible slip: the problem is still among the announced ones, but the
\* cooldown alone decides.
ShouldSend_Repeats(k) == since[k] >= cooldown

\* _should_send's answer.
ShouldSend(k) == k \notin active /\ since[k] >= cooldown

\* A plausible slip: a message held back by the cooldown starts it afresh.
Stamp_Always(k) ==
    /\ since' = [since EXCEPT ![k] = IF k \notin active THEN 0 ELSE @]
    /\ active' = IF ShouldSend(k) THEN active \cup {k} ELSE active

\* _should_send's bookkeeping, done before anything is sent.
Stamp(k) ==
    /\ since' = [since EXCEPT ![k] = IF ShouldSend(k) THEN 0 ELSE @]
    /\ active' = IF ShouldSend(k) THEN active \cup {k} ELSE active

\* A plausible slip: the announced problems are kept for ever.
ResolveKeys_Keeps == UNCHANGED active

\* resolve: a problem the whole round has not seen is over.
ResolveKeys == active' = active \cap seen

-----------------------------------------------------------------------------
Init ==
    /\ settings \in Settings
    /\ machine \in [Panels -> PanelStates]
    /\ rows \in [Agents -> AgentStates]
    /\ phase = "asleep"
    /\ loaded = 0
    /\ results = NoResults
    /\ listed = {}
    /\ pending = {}
    /\ seen = {}
    /\ cooldown = DefaultCooldown
    /\ active = {}
    /\ since = [k \in Keys |-> MostCooldown]
    /\ absent = Keys

\* load_config at the top of the round.
Wake ==
    /\ phase = "asleep"
    /\ settings # Unreadable
    /\ phase' = "fetching"
    /\ loaded' = settings.cooldown
    /\ UNCHANGED <<settingsVars, results, listed, pending, seen, notifierVars>>

\* A plausible slip: no default for a cooldown the configuration leaves out.
Fetch_NoDefault ==
    /\ phase = "fetching"
    /\ settings # Unreadable
    /\ results' = [p \in settings.panels |-> CollectAll(machine[p])]
    /\ cooldown' = IF settings.panels = {} THEN 0 ELSE loaded
    /\ phase' = "panels"
    /\ UNCHANGED <<settingsVars, loaded, listed, pending, seen, active, since, absent>>

\* fetch_all reads the panel list again, then every panel; update_config.
Fetch ==
    /\ phase = "fetching"
    /\ settings # Unreadable
    /\ results' = [p \in settings.panels |-> CollectAll(machine[p])]
    /\ cooldown' = loaded
    /\ phase' = "panels"
    /\ UNCHANGED <<settingsVars, loaded, listed, pending, seen, active, since, absent>>

\* The round is over: its local variables are gone.
EndRound ==
    /\ phase' = "asleep"
    /\ loaded' = 0
    /\ results' = NoResults
    /\ listed' = {}
    /\ pending' = {}
    /\ seen' = {}

\* The panel of the smallest rank among those still to be evaluated.
NextPanel(p) ==
    /\ phase = "panels"
    /\ pending = {}
    /\ p \in DOMAIN results
    /\ \A q \in DOMAIN results : Rank[p] <= Rank[q]

EvaluatePanel(p) ==
    /\ NextPanel(p)
    /\ ~EvaluationRaises(results[p])
    /\ pending' = EvaluateAlerts(p, results[p])
    /\ results' = [q \in DOMAIN results \ {p} |-> results[q]]
    /\ UNCHANGED <<settingsVars, phase, loaded, listed, seen, notifierVars>>

\* active_keys.add and notify for one alert.
Notify(k) ==
    /\ k \in pending
    /\ pending' = pending \ {k}
    /\ seen' = seen \cup {k}
    /\ Stamp(k)
    /\ absent' = IF ShouldSend(k) THEN absent \ {k} ELSE absent
    /\ UNCHANGED <<settingsVars, phase, loaded, results, listed, cooldown>>

\* list_active_panels: the agents that have reported lately.
ListAgents ==
    /\ phase = "panels"
    /\ pending = {}
    /\ results = NoResults
    /\ phase' = "agents"
    /\ listed' = {a \in Agents : rows[a].fresh}
    /\ UNCHANGED <<settingsVars, loaded, results, pending, seen, notifierVars>>

EvaluateAgent(a) ==
    /\ phase = "agents"
    /\ pending = {}
    /\ a \in listed
    /\ pending' = EvaluateAgentAlerts(a, rows[a])
    /\ listed' = listed \ {a}
    /\ UNCHANGED <<settingsVars, phase, loaded, results, seen, notifierVars>>

\* resolve, at the end of a round that has gone all the way.
Resolve ==
    /\ phase = "agents"
    /\ pending = {}
    /\ listed = {}
    /\ ResolveKeys
    /\ absent' = absent \cup (Keys \ seen)
    /\ EndRound
    /\ UNCHANGED <<settingsVars, cooldown, since>>

\* What makes a round fail for as long as it lasts.
RoundRaises ==
    \/ phase = "fetching" /\ settings = Unreadable
    \/ \E p \in Panels : NextPanel(p) /\ EvaluationRaises(results[p])

\* A plausible slip: resolve stands in a "finally".
Abandoned_Resolves ==
    /\ EndRound
    /\ ResolveKeys
    /\ UNCHANGED <<settingsVars, cooldown, since, absent>>

\* An exception ends the round at once: nothing is resolved.
Abandoned ==
    /\ EndRound
    /\ UNCHANGED <<settingsVars, notifierVars>>

\* The configuration cannot be parsed or a panel's answer cannot be walked.
Abandon == RoundRaises /\ Abandoned

\* metrics.db raises where the round reads it, be it locked, full or damaged: at
\* the end of fetch_all, for the list of active agents, or for one of them.
DatabaseRaises ==
    /\ \/ phase = "fetching"
       \/ phase = "panels" /\ pending = {} /\ results = NoResults
       \/ phase = "agents" /\ pending = {} /\ listed # {}
    /\ Abandoned

\* The world outside the alert thread.
MachineChanges(p) ==
    /\ \E m \in PanelStates \ {machine[p]} : machine' = [machine EXCEPT ![p] = m]
    /\ UNCHANGED <<settings, rows, roundVars, notifierVars>>

AgentReports(a) ==
    /\ \E w \in AgentStates \ {rows[a]} :
          w.fresh /\ rows' = [rows EXCEPT ![a] = w]
    /\ UNCHANGED <<settings, machine, roundVars, notifierVars>>

AgentFallsSilent(a) ==
    /\ rows[a].fresh
    /\ rows' = [rows EXCEPT ![a].fresh = FALSE]
    /\ UNCHANGED <<settings, machine, roundVars, notifierVars>>

SaveSettings ==
    /\ \E s \in (Settings \cup {Unreadable}) \ {settings} : settings' = s
    /\ UNCHANGED <<machine, rows, roundVars, notifierVars>>

Tick ==
    /\ \E k \in Keys : since[k] < MostCooldown
    /\ since' = [k \in Keys |-> IF since[k] < MostCooldown THEN since[k] + 1
                                                            ELSE since[k]]
    /\ UNCHANGED <<settingsVars, roundVars, cooldown, active, absent>>

\* The process restarts: the notifier is a new one.
Restart ==
    /\ EndRound
    /\ cooldown' = DefaultCooldown
    /\ active' = {}
    /\ since' = [k \in Keys |-> MostCooldown]
    /\ absent' = Keys
    /\ UNCHANGED settingsVars

Round ==
    \/ Wake
    \/ Fetch
    \/ \E p \in Panels : EvaluatePanel(p)
    \/ \E k \in Keys : Notify(k)
    \/ ListAgents
    \/ \E a \in Agents : EvaluateAgent(a)
    \/ Resolve
    \/ Abandon

World ==
    \/ \E p \in Panels : MachineChanges(p)
    \/ \E a \in Agents : AgentReports(a)
    \/ \E a \in Agents : AgentFallsSilent(a)
    \/ SaveSettings
    \/ Tick

Next ==
    \/ Round
    \/ World
    \/ DatabaseRaises
    \/ Restart

\* The thread sleeps for a minute and starts over, whatever happened; time
\* passes.  Nothing is asked of the machines or of who edits the settings.
Fairness == WF_vars(Round) /\ WF_vars(Tick)

Spec == Init /\ [][Next]_vars /\ Fairness

-----------------------------------------------------------------------------
\* The shape of the state.
TypeOK ==
    /\ settings \in Settings \cup {Unreadable}
    /\ machine \in [Panels -> PanelStates]
    /\ rows \in [Agents -> AgentStates]
    /\ phase \in Phases
    /\ loaded \in Nat
    /\ phase = "fetching" => loaded \in LeastCooldown..MostCooldown
    /\ DOMAIN results \subseteq Panels
    /\ \A p \in DOMAIN results : results[p] \in {CollectAll(m) : m \in PanelStates}
    /\ listed \subseteq Agents
    /\ pending \subseteq Keys
    /\ seen \subseteq Keys
    /\ cooldown \in LeastCooldown..MostCooldown
    /\ active \subseteq Keys
    /\ since \in [Keys -> 0..MostCooldown]
    /\ absent \subseteq Keys

\* A message about k goes out in this step: the notifier stamps it.
Sends(k) == k \in active' \ active \/ since'[k] < since[k]

\* README.md:35, "fires once when a problem starts, not on every check cycle":
\* between two messages about the same problem at least one round has gone all
\* the way without seeing it, whatever rounds were abandoned in between.
OnceWhileSeen ==
    [][\A k \in Keys : Sends(k) => k \in absent]_vars

\* A problem is let go of only by a round that has looked at every source and
\* not found it, or by a restart: an abandoned round forgets nothing.
ForgottenOnlyWhenAbsent ==
    [][\A k \in active \ active' : k \in absent' \/ Restart]_vars

\* The life of each problem as the notifier's state shows it.
Lifecycle == INSTANCE ProblemLifecycle WITH
    status <- [k \in Keys |-> IF k \in active THEN "announced"
                              ELSE IF since[k] < LeastCooldown THEN "cooling"
                              ELSE "clear"]

\* Each problem goes from clear to announced to cooling to clear, also when the
\* cooldown is edited while problems are open.
FollowsLifecycle == Lifecycle!Spec

-----------------------------------------------------------------------------
\* The panels config.yaml names.
Configured == IF settings = Unreadable THEN {} ELSE settings.panels

\* What a round would find wrong now.
ProblemsNow ==
    UNION {EvaluateAlerts(p, CollectAll(machine[p])) : p \in Configured}
      \cup UNION {IF rows[a].fresh THEN EvaluateAgentAlerts(a, rows[a]) ELSE {} :
                     a \in Agents}

\* No round has to be abandoned for what it reads.
Undisturbed ==
    /\ settings # Unreadable
    /\ \A p \in Configured : ~EvaluationRaises(CollectAll(machine[p]))

\* The process ends or the database fails, in a step that is not just as well a
\* step of a round (a quiet round ends in the state of a fresh process).
Disturbs == (Restart \/ DatabaseRaises) /\ ~Round

\* From some time on every round goes all the way.
Settled == <>[]Undisturbed /\ <>[][~Disturbs]_vars

\* A problem that stays is announced in the end and remembered from then on:
\* neither the cooldown nor an earlier episode can silence it for good.
LastingProblemAnnounced ==
    \A k \in Keys : Settled /\ <>[](k \in ProblemsNow) => <>[](k \in active)

\* A problem that is over for good is let go of, so that the next one of its
\* kind is news again.
SolvedProblemForgotten ==
    \A k \in Keys : Settled /\ <>[](k \notin ProblemsNow) => <>[](k \notin active)

\* bt_client.py:88, "a single item that fails does not affect the others": a
\* panel whose system call answers and shows a busy CPU is announced as such.
OneItemDoesNotHideAnother ==
    \A p \in Panels :
        /\ Settled
        /\ <>[](/\ p \in Configured
                /\ "cpu" \in machine[p].hot
                /\ "system" \in machine[p].answers)
        => <>(<<p, "cpu">> \in active)
=============================================================================
