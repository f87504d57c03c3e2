--------------------------- MODULE AlertLoopProofs ---------------------------
(***************************************************************************)
(* What the alert thread guarantees for any panels, agents and settings.   *)
(*                                                                         *)
(* The inductive invariant is TypeOK together with SilentWasAbsent: a      *)
(* problem the notifier does not hold as announced has been missed by a    *)
(* whole round since its last message.  It ties the code's _active to the  *)
(* history of complete rounds, and both "once per episode" and the life of *)
(* a problem follow from it step by step.                                  *)
(***************************************************************************)
EXTENDS AlertLoop, TLAPS

\* A problem that is not announced has been absent from a whole round.
SilentWasAbsent == Keys \ active \subseteq absent

LEMMA InitTypeOK == Init => TypeOK
  BY SettingsAssumption DEF Init, TypeOK, NoResults, Phases

\* The panel evaluated next yields alerts that have keys.
LEMMA PanelAlertsTyped ==
  ASSUME TypeOK, NEW p \in Panels, EvaluatePanel(p)
  PROVE  EvaluateAlerts(p, results[p]) \subseteq Keys
<1>1. p \in DOMAIN results
  BY DEF EvaluatePanel, NextPanel
<1>2. PICK m \in PanelStates : results[p] = CollectAll(m)
  BY <1>1 DEF TypeOK
<1>3. EvaluateAlerts(p, CollectAll(m)) \subseteq PanelKeys
  BY DEF PanelKeys
<1>4. QED
  BY <1>2, <1>3 DEF Keys

\* So does an agent's row.
LEMMA AgentAlertsTyped ==
  ASSUME TypeOK, NEW a \in Agents
  PROVE  EvaluateAgentAlerts(a, rows[a]) \subseteq Keys
<1>1. rows[a] \in AgentStates
  BY DEF TypeOK
<1>2. EvaluateAgentAlerts(a, rows[a]) \subseteq AgentKeys
  BY <1>1 DEF AgentKeys
<1>3. QED
  BY <1>2 DEF Keys

LEMMA NextTypeOK == TypeOK /\ [Next]_vars => TypeOK'
<1> SUFFICES ASSUME TypeOK, [Next]_vars PROVE TypeOK'
  OBVIOUS
<1> USE SettingsAssumption
<1>1. CASE Wake
  BY <1>1 DEF TypeOK, Wake, Phases, settingsVars, notifierVars
<1>2. CASE Fetch
  BY <1>2 DEF TypeOK, Fetch, Phases, settingsVars
<1>3. ASSUME NEW p \in Panels, EvaluatePanel(p) PROVE TypeOK'
  BY <1>3, PanelAlertsTyped DEF TypeOK, EvaluatePanel, settingsVars, notifierVars
<1>4. ASSUME NEW k \in Keys, Notify(k) PROVE TypeOK'
  BY <1>4 DEF TypeOK, Notify, Stamp, settingsVars
<1>5. CASE ListAgents
  BY <1>5 DEF TypeOK, ListAgents, Phases, settingsVars, notifierVars
<1>6. ASSUME NEW a \in Agents, EvaluateAgent(a) PROVE TypeOK'
  BY <1>6, AgentAlertsTyped DEF TypeOK, EvaluateAgent, settingsVars, notifierVars
<1>7. CASE Resolve
  BY <1>7 DEF TypeOK, Resolve, ResolveKeys, EndRound, NoResults, Phases, settingsVars
<1>8. CASE Abandoned
  BY <1>8 DEF TypeOK, Abandoned, EndRound, NoResults, Phases, settingsVars, notifierVars
<1>9. ASSUME NEW p \in Panels, MachineChanges(p) PROVE TypeOK'
  BY <1>9 DEF TypeOK, MachineChanges, roundVars, notifierVars
<1>10. ASSUME NEW a \in Agents, AgentReports(a) PROVE TypeOK'
  BY <1>10 DEF TypeOK, AgentReports, roundVars, notifierVars
<1>11. ASSUME NEW a \in Agents, AgentFallsSilent(a) PROVE TypeOK'
  BY <1>11, RulesAssumption DEF TypeOK, AgentFallsSilent, roundVars, notifierVars
<1>12. CASE SaveSettings
  BY <1>12 DEF TypeOK, SaveSettings, roundVars, notifierVars
<1>13. CASE Tick
  BY <1>13 DEF TypeOK, Tick, settingsVars, roundVars
<1>14. CASE Restart
  BY <1>14 DEF TypeOK, Restart, EndRound, NoResults, Phases, settingsVars
<1>15. CASE UNCHANGED vars
  BY <1>15 DEF TypeOK, vars, settingsVars, roundVars, notifierVars
<1>16. QED
  BY <1>1, <1>2, <1>3, <1>4, <1>5, <1>6, <1>7, <1>8, <1>9, <1>10, <1>11, <1>12,
     <1>13, <1>14, <1>15 DEF Next, Round, World, Abandon, DatabaseRaises

\* Settings, rounds and the notifier keep their types.
THEOREM TypeCorrect == Spec => []TypeOK
  BY InitTypeOK, NextTypeOK, PTL DEF Spec

-----------------------------------------------------------------------------
\* Only these steps touch the notifier's memory and the history.
LEMMA NotifierSteps ==
  ASSUME [Next]_vars
  PROVE  \/ \E k \in Keys : Notify(k)
         \/ Resolve
         \/ Restart
         \/ Tick /\ UNCHANGED <<active, absent>>
         \/ UNCHANGED <<active, since, absent>>
  BY DEF Next, Round, World, vars, Wake, Fetch, EvaluatePanel, ListAgents,
         EvaluateAgent, Abandon, DatabaseRaises, Abandoned, MachineChanges,
         AgentReports, AgentFallsSilent, SaveSettings, Tick, notifierVars

LEMMA NextSilentWasAbsent ==
    TypeOK /\ SilentWasAbsent /\ [Next]_vars => SilentWasAbsent'
<1> SUFFICES ASSUME TypeOK, SilentWasAbsent, [Next]_vars PROVE SilentWasAbsent'
  OBVIOUS
<1>1. ASSUME NEW k \in Keys, Notify(k) PROVE SilentWasAbsent'
  BY <1>1 DEF SilentWasAbsent, Notify, Stamp
<1>2. CASE Resolve
  BY <1>2 DEF SilentWasAbsent, Resolve, ResolveKeys
<1>3. CASE Restart
  BY <1>3 DEF SilentWasAbsent, Restart
<1>4. CASE UNCHANGED <<active, absent>>
  BY <1>4 DEF SilentWasAbsent
<1>5. QED
  BY <1>1, <1>2, <1>3, <1>4, NotifierSteps

LEMMA AlwaysSilentWasAbsent == Spec => []SilentWasAbsent
<1>1. Init => SilentWasAbsent
  BY DEF Init, SilentWasAbsent
<1>2. QED
  BY <1>1, TypeCorrect, NextSilentWasAbsent, PTL DEF Spec

\* A message goes out only where _should_send has said so.
LEMMA SendsWhenDue ==
  ASSUME TypeOK, [Next]_vars, NEW k \in Keys, Sends(k)
  PROVE  Notify(k) /\ ShouldSend(k)
<1>1. ASSUME NEW j \in Keys, Notify(j) PROVE Notify(k) /\ ShouldSend(k)
  <2>1. CASE ShouldSend(j) /\ j = k
    BY <1>1, <2>1
  <2>2. CASE ~(ShouldSend(j) /\ j = k)
    <3>1. since'[k] = since[k] /\ since[k] \in 0..MostCooldown
      BY <1>1, <2>2 DEF TypeOK, Notify, Stamp
    <3>2. k \notin active' \ active
      BY <1>1, <2>2 DEF Notify, Stamp
    <3>3. QED
      BY <3>1, <3>2, SettingsAssumption DEF Sends
  <2>3. QED
    BY <2>1, <2>2
<1>2. ASSUME Resolve \/ Restart PROVE FALSE
  BY <1>2, SettingsAssumption
     DEF TypeOK, Resolve, ResolveKeys, Restart, Sends
<1>3. ASSUME Tick, UNCHANGED active PROVE FALSE
  BY <1>3, SettingsAssumption DEF TypeOK, Tick, Sends
<1>4. ASSUME UNCHANGED <<active, since>> PROVE FALSE
  BY <1>4, SettingsAssumption DEF TypeOK, Sends
<1>5. QED
  BY <1>1, <1>2, <1>3, <1>4, NotifierSteps

\* Two messages about a problem are separated by a whole round without it.
THEOREM SentOnceWhileSeen == Spec => OnceWhileSeen
<1>1. TypeOK /\ SilentWasAbsent /\ [Next]_vars
        => [\A k \in Keys : Sends(k) => k \in absent]_vars
  BY SendsWhenDue DEF ShouldSend, SilentWasAbsent
<1>2. QED
  BY <1>1, TypeCorrect, AlwaysSilentWasAbsent, PTL DEF Spec, OnceWhileSeen

\* No abandoned round makes the notifier forget a problem.
THEOREM NothingForgottenEarly == Spec => ForgottenOnlyWhenAbsent
<1>1. ASSUME TypeOK, [Next]_vars, NEW k \in active \ active'
      PROVE  k \in absent' \/ Restart
  <2>1. k \in Keys
    BY <1>1 DEF TypeOK
  <2>2. ASSUME NEW j \in Keys, Notify(j) PROVE FALSE
    BY <1>1, <2>2 DEF Notify, Stamp
  <2>3. CASE Resolve
    BY <1>1, <2>1, <2>3 DEF Resolve, ResolveKeys
  <2>4. QED
    BY <1>1, <2>2, <2>3, NotifierSteps
<1>2. TypeOK /\ [Next]_vars
        => [\A k \in active \ active' : k \in absent' \/ Restart]_vars
  BY <1>1
<1>3. QED
  BY <1>2, TypeCorrect, PTL DEF Spec, ForgottenOnlyWhenAbsent

-----------------------------------------------------------------------------
\* The status of a problem, as FollowsLifecycle maps it.
StatusOf(k) == IF k \in active THEN "announced"
               ELSE IF since[k] < LeastCooldown THEN "cooling"
               ELSE "clear"

\* Every step of the alert thread is a step of the problem's life or leaves it
\* alone.
THEOREM ImplementsLifecycle == Spec => FollowsLifecycle
<1> DEFINE Status == [k \in Keys |-> StatusOf(k)]
<1>1. Init => Lifecycle!Init
  BY SettingsAssumption DEF Init, Lifecycle!Init
<1>2. ASSUME TypeOK, [Next]_vars
      PROVE  [Lifecycle!Next]_(Status)
  <2>0. Status' \in [Keys -> Lifecycle!Statuses]
    BY DEF StatusOf, Lifecycle!Statuses
  <2>1. ASSUME NEW k \in Keys, Notify(k), ShouldSend(k) PROVE Lifecycle!Announce(k)
    <3>1. active' = active \cup {k} /\ since' = [since EXCEPT ![k] = 0]
      BY <2>1 DEF Notify, Stamp
    <3>2. StatusOf(k) = "clear"
      BY <1>2, <2>1, SettingsAssumption DEF TypeOK, ShouldSend, StatusOf
    <3>3. \A j \in Keys : j # k => StatusOf(j)' = StatusOf(j)
      BY <1>2, <3>1 DEF TypeOK, StatusOf
    <3>4. StatusOf(k)' = "announced"
      BY <3>1 DEF StatusOf
    <3>5. Status' = [Status EXCEPT ![k] = "announced"]
      BY <3>3, <3>4
    <3>6. QED
      BY <3>2, <3>5 DEF Lifecycle!Announce, StatusOf
  <2>2. ASSUME NEW k \in Keys, Notify(k), ~ShouldSend(k) PROVE UNCHANGED Status
    BY <1>2, <2>2 DEF TypeOK, Notify, Stamp, StatusOf
  <2>3. CASE Resolve
    BY <1>2, <2>0, <2>3
       DEF TypeOK, Resolve, ResolveKeys, StatusOf, Lifecycle!Next, Lifecycle!Settle
  <2>4. CASE Restart
    BY <2>4, SettingsAssumption DEF Restart, Lifecycle!Next, Lifecycle!Forget
  <2>5. CASE Tick /\ UNCHANGED active
    BY <1>2, <2>0, <2>5, SettingsAssumption
       DEF TypeOK, Tick, StatusOf, Lifecycle!Next, Lifecycle!Cool
  <2>6. CASE UNCHANGED <<active, since>>
    BY <2>6 DEF StatusOf
  <2>7. QED
    BY <1>2, <2>1, <2>2, <2>3, <2>4, <2>5, <2>6, NotifierSteps DEF Lifecycle!Next
<1>3. QED
  BY <1>1, <1>2, TypeCorrect, PTL
     DEF Spec, FollowsLifecycle, Lifecycle!Spec, StatusOf
=============================================================================
