-------------------------- MODULE MetricsStoreProofs --------------------------
(***************************************************************************)
(* When an agent counts as active, and what its card puts together, proved *)
(* for any number of agents, any intervals and clocks under                *)
(* TimesAssumption.                                                        *)
(*                                                                         *)
(* What is listed depends on the timestamps only, so two invariants tie    *)
(* them to real time.  RowKeepsUp: the latest row is by its timestamp no   *)
(* older than the newest sample stored, plus what a clock may be slow.     *)
(* InTime: of an agent without trouble, the last sample is stored or still *)
(* on its way, and the one before it is stored.                            *)
(*                                                                         *)
(* The third, FactsInOrder, is about the other two tables and the reports  *)
(* that write them: a report's sample is stored before its mount points;   *)
(* nothing stored or under way is younger than the agent's last sample or  *)
(* lookup; and, a report's time after the last trouble, the report of the  *)
(* last sample is alone under way, with no older facts than the stored.    *)
(***************************************************************************)
EXTENDS MetricsStore, TLAPS

RowKeepsUp ==
    \A a \in Agents : heard[a] + Behind <= Retention =>
        latest[a] # None /\ latest[a].age <= heard[a] + Behind

\* The last sample, taken since the trouble ended, is stored or on its way.
LastOnItsWay(a) ==
    steady[a] > agent[a].since =>
        \/ heard[a] <= agent[a].since
        \/ \E r \in reports[a] : r.made = agent[a].since /\ r.stage = "sent"

\* The sample before it, if that was taken since then, is stored.
EarlierStored(a) ==
    steady[a] > agent[a].since + Cycle => heard[a] <= agent[a].since + Cycle

InTime ==
    \A a \in Agents : IF agent[a] = Off THEN steady[a] = 0
                      ELSE LastOnItsWay(a) /\ EarlierStored(a)

\* Of a running agent nothing under way or stored was made after its last sample
\* or looked up after its last lookup; and the report of that sample, unless it is
\* the first after a trouble, is alone under way, with no older address than the
\* stored one.
InOrder(a) ==
    /\ agent[a].since < Cycle \/ steady[a] > 0 =>
          /\ \A r \in reports[a] : r.made >= agent[a].since
          /\ detail[a] # None => detail[a] >= agent[a].since
          /\ latest[a] # None => latest[a].made >= agent[a].since
    /\ ip[a] # None => ip[a] >= agent[a].checked
    /\ \A r \in reports[a] : r.ext # None => r.ext + r.made >= agent[a].checked
    /\ steady[a] > agent[a].since => \A r \in reports[a] :
          /\ r.made = agent[a].since
          /\ \A q \in reports[a] : q = r
          /\ r.ext # None /\ ip[a] # None => r.ext + r.made <= ip[a]

\* The mount points read with the last sample, and those of the one before it.
ListInTime(a) ==
    /\ whole[a] /\ steady[a] > agent[a].since =>
          \/ detail[a] # None /\ detail[a] <= agent[a].since
          \/ \E r \in reports[a] : r.disk
    /\ whole[a] /\ steady[a] > agent[a].since + Cycle =>
          detail[a] # None /\ detail[a] <= agent[a].since + Cycle

\* The sample of a report is stored before its mount points.
SampleFirst(a) ==
    /\ \A r \in reports[a] : r.stage # "sent" => heard[a] <= r.made
    /\ detail[a] # None => heard[a] <= detail[a]

Together(a) == SampleFirst(a) /\ (agent[a] # Off => InOrder(a) /\ ListInTime(a))

FactsInOrder == \A a \in Agents : Together(a)

Inv == TypeOK /\ RowKeepsUp /\ InTime /\ FactsInOrder

-----------------------------------------------------------------------------
\* The constants' sums, once and for all.
LEMMA Times ==
  /\ Cycle \in Nat /\ Window \in Nat /\ Old \in Nat
  /\ Cycle > MaxRound /\ Window = Cycle + MaxRound
  /\ Window + Behind <= Stale /\ Stale <= Retention /\ Old = Retention + 1
  BY TimesAssumption DEF Cycle, Window, Old

\* A running agent is a record of the shape Running describes.
LEMMA RunningTyped ==
  ASSUME TypeOK, NEW a \in Agents, agent[a] # Off
  PROVE  agent[a] \in Running
  BY DEF TypeOK

\* A lookup leaves an agent running, with a sample as old as before.
LEMMA LookedUpTyped ==
  ASSUME NEW g \in Running, g.known => g.ip, NEW h \in LookedUp(g)
  PROVE  /\ h \in Running /\ h.since = g.since
         /\ h.known => h.ip
         /\ h.known => h.checked \in 0..(Refresh - 1)
<1>1. CASE h = g
  <2>1. ~(g.ip /\ g.known) \/ g.checked < Refresh
    <3>1. CASE \E k \in BOOLEAN : g = [g EXCEPT !.known = k, !.checked = 0]
      <4>1. g.checked = 0
        BY <3>1 DEF Running
      <4>2. QED
        BY <4>1, TimesAssumption
    <3>2. CASE ~(g.ip /\ (g.checked >= Refresh \/ ~g.known))
      BY <3>2, TimesAssumption DEF Running
    <3>3. QED
      BY <1>1, <3>1, <3>2 DEF LookedUp
  <2>2. QED
    BY <1>1, <2>1, TimesAssumption DEF Running
<1>2. ASSUME NEW k \in BOOLEAN, g.ip, h = [g EXCEPT !.known = k, !.checked = 0]
      PROVE  h \in Running /\ h.since = g.since /\ h.ip /\ h.checked = 0
  <2>1. 0 \in 0..Refresh
    BY TimesAssumption
  <2>2. h \in Running /\ h.since = g.since /\ h.ip = g.ip /\ h.checked = 0
    BY <1>2, <2>1 DEF Running
  <2>3. QED
    BY <1>2, <2>2
<1>3. h = g \/ (g.ip /\ \E k \in BOOLEAN : h = [g EXCEPT !.known = k, !.checked = 0])
  BY DEF LookedUp
<1>4. 0 \in 0..(Refresh - 1)
  BY TimesAssumption
<1>5. QED
  BY <1>1, <1>2, <1>3, <1>4

\* A row made of a report is a row.
LEMMA RowTyped ==
  ASSUME NEW r \in Reports
  PROVE  RowOf(r) \in Rows
<1>1. /\ r.made \in 0..MaxRound /\ r.skew \in -Behind..Ahead
  BY DEF Reports, Skews
<1>2. /\ r.made - r.skew \in -Ahead..Old
      /\ r.made \in 0..(Old + Ahead)
      /\ r.made - (r.made - r.skew) = r.skew
  BY <1>1, Times, TimesAssumption
<1>3. QED
  BY <1>1, <1>2 DEF RowOf, Rows, Skews

\* Reports that go on, or a second older, are reports.
LEMMA AdvanceTyped ==
  ASSUME TypeOK, NEW a \in Agents, NEW r \in reports[a],
         NEW s \in {"sent", "inserted", "located"}, Advance(a, r, s)
  PROVE  reports' \in [Agents -> SUBSET Reports]
<1>1. r \in Reports
  BY DEF TypeOK
<1>2. [r EXCEPT !.stage = s] \in Reports
  BY <1>1 DEF Reports
<1>3. QED
  BY <1>2 DEF TypeOK, Advance

\* The fields of a row are numbers, and its clock was off by what is allowed.
LEMMA RowFields ==
  ASSUME NEW row \in Rows
  PROVE  /\ row.age \in Int /\ row.age >= -Ahead /\ row.age <= Old
         /\ row.made \in Nat /\ row.made <= Old + Ahead
         /\ row.made - row.age >= -Behind /\ row.made - row.age <= Ahead
  BY Times, TimesAssumption DEF Rows, Skews

\* A row that pruning leaves alone is a row a second later.
LEMMA OlderRowTyped ==
  ASSUME NEW row \in Rows, row.age <= Retention
  PROVE  [age |-> row.age + 1, made |-> row.made + 1] \in Rows
<1>1. /\ row.age + 1 \in -Ahead..Old
      /\ row.made + 1 \in 0..(Old + Ahead)
      /\ (row.made + 1) - (row.age + 1) \in -Behind..Ahead
  BY RowFields, Times, TimesAssumption
<1>2. QED
  BY <1>1 DEF Rows, Skews

\* An agent that starts, and one that is a second older, is running.
LEMMA StartedTyped ==
  ASSUME NEW withIp \in BOOLEAN, NEW found \in {FALSE, withIp}
  PROVE  [since |-> Cycle, ip |-> withIp, known |-> found, checked |-> 0] \in Running
<1>1. found \in BOOLEAN
  OBVIOUS
<1>2. Cycle \in 0..Cycle /\ 0 \in 0..Refresh
  BY Times, TimesAssumption
<1>3. QED
  BY <1>1, <1>2 DEF Running

OlderAgent(g) == [g EXCEPT !.since = @ + 1, !.checked = Min(@ + 1, Refresh)]

LEMMA OlderAgentTyped ==
  ASSUME NEW g \in Running, g.since < Cycle
  PROVE  /\ OlderAgent(g) \in Running
         /\ OlderAgent(g).known = g.known /\ OlderAgent(g).ip = g.ip
         /\ OlderAgent(g).since = g.since + 1
<1>1. g.since + 1 \in 0..Cycle /\ Min(g.checked + 1, Refresh) \in 0..Refresh
  BY Times, TimesAssumption DEF Running, Min
<1>2. QED
  BY <1>1 DEF Running, OlderAgent

LEMMA InitTypeOK == Init => TypeOK
  BY Times, TimesAssumption DEF Init, TypeOK

\* Every step keeps the shape of the state.
LEMMA NextTypeOK == TypeOK /\ [Next]_vars => TypeOK'
<1> SUFFICES ASSUME TypeOK, [Next]_vars PROVE TypeOK'
  OBVIOUS
<1>1. ASSUME NEW a \in Agents, Start(a) PROVE TypeOK'
  <2>1. PICK withIp \in BOOLEAN : \E found \in {FALSE, withIp} :
           agent' = [agent EXCEPT ![a] = [since |-> Cycle, ip |-> withIp,
                                          known |-> found, checked |-> 0]]
    BY <1>1 DEF Start
  <2>2. PICK found \in {FALSE, withIp} :
           agent' = [agent EXCEPT ![a] = [since |-> Cycle, ip |-> withIp,
                                          known |-> found, checked |-> 0]]
    BY <2>1
  <2>3. [since |-> Cycle, ip |-> withIp, known |-> found, checked |-> 0] \in Running
    BY StartedTyped
  <2>31. found => withIp
    OBVIOUS
  <2>4. /\ agent' \in [Agents -> Running \cup {Off}]
        /\ \A b \in Agents : agent'[b] # Off /\ agent'[b].known => agent'[b].ip
    BY <2>2, <2>3, <2>31 DEF TypeOK
  <2>5. /\ steady' \in [Agents -> 0..(Window + 1)]
        /\ whole' \in [Agents -> BOOLEAN]
    BY <1>1, Times DEF Start, Resets, TypeOK
  <2>6. QED
    BY <1>1, <2>4, <2>5 DEF Start, TypeOK
<1>2. ASSUME NEW a \in Agents, Stop(a) PROVE TypeOK'
  <2>1. /\ steady' \in [Agents -> 0..(Window + 1)]
        /\ whole' \in [Agents -> BOOLEAN]
    BY <1>2, Times DEF Stop, Resets, TypeOK
  <2>2. QED
    BY <1>2, <2>1 DEF Stop, TypeOK
<1>3. ASSUME NEW a \in Agents, Collect(a) PROVE TypeOK'
  <2>1. PICK g \in LookedUp(agent[a]), skew \in Skews, disk \in BOOLEAN :
           /\ agent' = [agent EXCEPT ![a] = [g EXCEPT !.since = 0]]
           /\ reports' = [reports EXCEPT ![a] = @ \cup
                  {[made |-> 0, skew |-> skew, disk |-> disk, stage |-> "sent",
                    ext |-> IF g.known THEN g.checked ELSE None]}]
           /\ whole' = [whole EXCEPT ![a] = @ /\ disk]
    BY <1>3 DEF Collect
  <2>2. /\ g \in Running /\ (g.known => g.ip)
        /\ g.known => g.checked \in 0..(Refresh - 1)
    BY <1>3, RunningTyped, LookedUpTyped DEF Collect, TypeOK
  <2>3. /\ [g EXCEPT !.since = 0] \in Running
        /\ [g EXCEPT !.since = 0].known = g.known /\ [g EXCEPT !.since = 0].ip = g.ip
    BY <2>2, Times DEF Running
  <2>4. /\ agent' \in [Agents -> Running \cup {Off}]
        /\ \A b \in Agents : agent'[b] # Off /\ agent'[b].known => agent'[b].ip
    BY <2>1, <2>2, <2>3 DEF TypeOK
  <2>5. [made |-> 0, skew |-> skew, disk |-> disk, stage |-> "sent",
         ext |-> IF g.known THEN g.checked ELSE None] \in Reports
    BY <2>2, TimesAssumption DEF Reports
  <2>6. reports' \in [Agents -> SUBSET Reports]
    BY <2>1, <2>5 DEF TypeOK
  <2>7. whole' \in [Agents -> BOOLEAN]
    BY <2>1 DEF TypeOK
  <2>8. QED
    BY <1>3, <2>4, <2>6, <2>7 DEF Collect, TypeOK
<1>4. ASSUME NEW a \in Agents, NEW r \in reports[a], InsertSample(a, r) PROVE TypeOK'
  <2>1. r \in Reports /\ r.made \in 0..MaxRound
    BY DEF TypeOK, Reports
  <2>2. latest' \in [Agents -> Rows \cup {None}]
    BY <1>4, <2>1, RowTyped DEF InsertSample, TypeOK
  <2>3. heard' \in [Agents -> 0..Old]
    BY <1>4, <2>1, Times, TimesAssumption DEF InsertSample, TypeOK, Min
  <2>4. QED
    BY <1>4, <2>2, <2>3, AdvanceTyped DEF InsertSample, TypeOK
<1>5. ASSUME NEW a \in Agents, NEW r \in reports[a], UpsertIp(a, r) PROVE TypeOK'
  <2>1. r \in Reports /\ r.made \in 0..MaxRound /\ r.ext \in 0..(Refresh - 1) \cup {None}
    BY DEF TypeOK, Reports
  <2>2. r.ext # None => r.ext + r.made \in 0..OldAddress
    BY <2>1, TimesAssumption DEF OldAddress
  <2>3. ip' \in [Agents -> 0..OldAddress \cup {None}]
    BY <1>5, <2>2 DEF UpsertIp, TypeOK
  <2>4. QED
    BY <1>5, <2>3, AdvanceTyped DEF UpsertIp, TypeOK
<1>6. ASSUME NEW a \in Agents, NEW r \in reports[a], UpsertDiskDetail(a, r)
      PROVE TypeOK'
  <2>1. r.made \in 0..Old
    <3>1. r.made \in 0..MaxRound
      BY DEF TypeOK, Reports
    <3>2. QED
      BY <3>1, Times, TimesAssumption
  <2>2. QED
    BY <1>6, <2>1 DEF UpsertDiskDetail, TypeOK
<1>7. ASSUME NEW a \in Agents, NEW r \in reports[a], Lose(a, r) PROVE TypeOK'
  <2>1. /\ steady' \in [Agents -> 0..(Window + 1)]
        /\ whole' \in [Agents -> BOOLEAN]
    BY <1>7, Times DEF Lose, Resets, TypeOK
  <2>2. QED
    BY <1>7, <2>1 DEF Lose, TypeOK
<1>8. CASE Prune
  BY <1>8 DEF Prune, TypeOK
<1>9. CASE Tick
  <2>1. /\ agent' \in [Agents -> Running \cup {Off}]
        /\ \A a \in Agents : agent'[a] # Off /\ agent'[a].known => agent'[a].ip
    <3>1. ASSUME NEW a \in Agents, agent[a] # Off
          PROVE  /\ OlderAgent(agent[a]) \in Running
                 /\ OlderAgent(agent[a]).known = agent[a].known
                 /\ OlderAgent(agent[a]).ip = agent[a].ip
      BY <1>9, <3>1, RunningTyped, OlderAgentTyped DEF Tick
    <3>2. QED
      BY <1>9, <3>1 DEF Tick, TypeOK, OlderAgent
  <2>2. reports' \in [Agents -> SUBSET Reports]
    <3>1. ASSUME NEW a \in Agents, NEW r \in reports[a]
          PROVE  [r EXCEPT !.made = @ + 1] \in Reports
      <4>1. r \in Reports /\ r.made < MaxRound
        BY <1>9 DEF Tick, TypeOK
      <4>2. QED
        BY <4>1, TimesAssumption DEF Reports
    <3>2. QED
      BY <1>9, <3>1 DEF Tick
  <2>3. latest' \in [Agents -> Rows \cup {None}]
    <3>1. ASSUME NEW a \in Agents, latest[a] # None, ~Expired(latest[a])
          PROVE  [age |-> latest[a].age + 1, made |-> latest[a].made + 1] \in Rows
      <4>1. latest[a] \in Rows /\ latest[a].age <= Retention
        BY <3>1, RowFields, TimesAssumption DEF Expired, TypeOK
      <4>2. QED
        BY <4>1, OlderRowTyped
    <3>2. QED
      BY <1>9, <3>1 DEF Tick, TypeOK
  <2>4. heard' \in [Agents -> 0..Old] /\ steady' \in [Agents -> 0..(Window + 1)]
    <3>1. ASSUME NEW a \in Agents
          PROVE  /\ Min(heard[a] + 1, Old) \in 0..Old
                 /\ Min(steady[a] + 1, Window + 1) \in 0..(Window + 1)
                 /\ 0 \in 0..(Window + 1)
      <4>1. heard[a] \in 0..Old /\ steady[a] \in 0..(Window + 1)
        BY DEF TypeOK
      <4>2. QED
        BY <4>1, Times DEF Min
    <3>2. QED
      BY <1>9, <3>1 DEF Tick
  <2>5. /\ ip' \in [Agents -> 0..OldAddress \cup {None}]
        /\ detail' \in [Agents -> 0..Old \cup {None}]
    <3>1. ASSUME NEW most \in Nat, NEW age \in 0..most \cup {None}
          PROVE  Older(age, most) \in 0..most \cup {None}
      BY MarkersAssumption DEF Older, Min
    <3>2. OldAddress \in Nat
      BY TimesAssumption DEF OldAddress
    <3>3. QED
      BY <1>9, <3>1, <3>2, Times DEF Tick, TypeOK
  <2>6. QED
    BY <1>9, <2>1, <2>2, <2>3, <2>4, <2>5 DEF Tick, TypeOK
<1>10. CASE UNCHANGED vars
  BY <1>10 DEF vars, TypeOK
<1>11. QED
  BY <1>1, <1>2, <1>3, <1>4, <1>5, <1>6, <1>7, <1>8, <1>9, <1>10 DEF Next, Report

-----------------------------------------------------------------------------
\* Only a stored sample, pruning and time touch what RowKeepsUp is about.
LEMMA NextRowKeepsUp == TypeOK /\ RowKeepsUp /\ [Next]_vars => RowKeepsUp'
<1> SUFFICES ASSUME TypeOK, RowKeepsUp, [Next]_vars,
                    NEW b \in Agents, heard'[b] + Behind <= Retention
             PROVE  latest'[b] # None /\ latest'[b].age <= heard'[b] + Behind
  BY DEF RowKeepsUp
<1>0. /\ heard[b] \in 0..Old
      /\ latest[b] # None => latest[b] \in Rows /\ latest[b].age \in Int
      /\ heard[b] + Behind <= Retention =>
            latest[b] # None /\ latest[b].age <= heard[b] + Behind
  BY RowFields DEF TypeOK, RowKeepsUp
<1>1. CASE UNCHANGED <<latest, heard>>
  BY <1>0, <1>1
<1>2. ASSUME NEW a \in Agents, NEW r \in reports[a], InsertSample(a, r)
      PROVE  latest'[b] # None /\ latest'[b].age <= heard'[b] + Behind
  <2>1. CASE a # b
    BY <1>0, <1>2, <2>1 DEF InsertSample, TypeOK
  <2>2. CASE a = b
    <3>1. r \in Reports /\ r.made \in 0..MaxRound /\ r.skew \in -Behind..Ahead
      BY DEF TypeOK, Reports, Skews
    <3>2. RowOf(r) \in Rows /\ RowOf(r).age = r.made - r.skew
      BY <3>1, RowTyped DEF RowOf
    <3>3. RowOf(r) # None
      BY <3>2, MarkersAssumption
    <3>4. /\ heard'[b] = Min(heard[b], r.made)
          /\ latest'[b] = IF latest[b] = None \/ Newer(RowOf(r), latest[b])
                          THEN RowOf(r) ELSE latest[b]
      BY <1>2, <2>2 DEF InsertSample, TypeOK
    <3>5. CASE heard[b] <= r.made
      BY <1>0, <3>1, <3>2, <3>3, <3>4, <3>5, TimesAssumption DEF Min, Newer
    <3>6. CASE ~(heard[b] <= r.made)
      BY <1>0, <3>1, <3>2, <3>3, <3>4, <3>6, TimesAssumption DEF Min, Newer
    <3>7. QED
      BY <3>5, <3>6
  <2>3. QED
    BY <2>1, <2>2
<1>3. CASE Prune
  BY <1>0, <1>3, TimesAssumption DEF Prune, Expired
<1>4. CASE Tick
  <2>1. /\ heard'[b] = Min(heard[b] + 1, Old)
        /\ latest'[b] = IF latest[b] = None \/ Expired(latest[b]) THEN latest[b]
                        ELSE [age |-> latest[b].age + 1, made |-> latest[b].made + 1]
    BY <1>4 DEF Tick
  <2>2. heard'[b] = heard[b] + 1 /\ heard[b] + 1 + Behind <= Retention
    BY <1>0, <2>1, Times, TimesAssumption DEF Min
  <2>3. latest[b] # None /\ latest[b].age <= heard[b] + Behind /\ ~Expired(latest[b])
    BY <1>0, <2>2, TimesAssumption DEF Expired
  <2>4. latest'[b] = [age |-> latest[b].age + 1, made |-> latest[b].made + 1]
    BY <2>1, <2>3
  <2>5. latest'[b].age = latest[b].age + 1
    BY <2>4
  <2>6. latest'[b] # None
    <3>1. latest[b] \in Rows /\ latest[b].age <= Retention
      BY <1>0, <2>2, <2>3, TimesAssumption
    <3>2. QED
      BY <2>4, <3>1, OlderRowTyped, MarkersAssumption
  <2>7. QED
    BY <1>0, <2>2, <2>3, <2>5, <2>6, TimesAssumption
<1>5. QED
  BY <1>1, <1>2, <1>3, <1>4 DEF Next, Report, Start, Stop, Collect, UpsertIp,
     UpsertDiskDetail, Lose, vars

-----------------------------------------------------------------------------
\* Every step of an agent, of one of its reports, and of time keeps InTime.
LEMMA NextInTime == TypeOK /\ InTime /\ [Next]_vars => InTime'
<1> SUFFICES ASSUME TypeOK, InTime, [Next]_vars, NEW b \in Agents
             PROVE  IF agent'[b] = Off THEN steady'[b] = 0
                    ELSE LastOnItsWay(b)' /\ EarlierStored(b)'
  BY DEF InTime
<1>0. /\ heard[b] \in Nat /\ steady[b] \in Nat
      /\ agent[b] = Off => steady[b] = 0
      /\ agent[b] # Off => /\ agent[b].since \in 0..Cycle
                           /\ LastOnItsWay(b) /\ EarlierStored(b)
      /\ \A r \in reports[b] : r \in Reports /\ r.made \in 0..MaxRound
  <2>1. heard[b] \in 0..Old /\ steady[b] \in 0..(Window + 1) /\ reports[b] \subseteq Reports
    BY DEF TypeOK
  <2>2. agent[b] # Off => agent[b].since \in 0..Cycle
    BY RunningTyped DEF Running
  <2>3. QED
    BY <2>1, <2>2, Times DEF InTime, Reports
<1>1. CASE UNCHANGED <<agent, steady, heard, reports>>
  BY <1>0, <1>1 DEF LastOnItsWay, EarlierStored
<1>2. ASSUME NEW a \in Agents, a # b, Start(a) \/ Stop(a) \/ Collect(a)
      PROVE  UNCHANGED <<agent[b], steady[b], heard[b], reports[b]>>
  BY <1>2 DEF Start, Stop, Collect, Resets, TypeOK
<1>3. ASSUME NEW a \in Agents, a # b, NEW r \in reports[a], Report(a, r)
      PROVE  UNCHANGED <<agent[b], steady[b], heard[b], reports[b]>>
  BY <1>3 DEF Report, InsertSample, UpsertIp, UpsertDiskDetail, Lose, Resets,
              Advance, TypeOK
<1>4. ASSUME UNCHANGED <<agent[b], steady[b], heard[b], reports[b]>>
      PROVE  IF agent'[b] = Off THEN steady'[b] = 0
             ELSE LastOnItsWay(b)' /\ EarlierStored(b)'
  BY <1>0, <1>4 DEF LastOnItsWay, EarlierStored
<1>5. CASE Start(b)
  <2>1. agent'[b].since = Cycle /\ steady'[b] = 0
    BY <1>5 DEF Start, Resets, TypeOK
  <2>2. agent'[b] # Off
    <3>1. PICK withIp \in BOOLEAN : \E found \in {FALSE, withIp} :
             agent' = [agent EXCEPT ![b] = [since |-> Cycle, ip |-> withIp,
                                            known |-> found, checked |-> 0]]
      BY <1>5 DEF Start
    <3>2. PICK found \in {FALSE, withIp} :
             agent' = [agent EXCEPT ![b] = [since |-> Cycle, ip |-> withIp,
                                            known |-> found, checked |-> 0]]
      BY <3>1
    <3>3. [since |-> Cycle, ip |-> withIp, known |-> found, checked |-> 0] \in Running
      BY StartedTyped
    <3>4. agent'[b] = [since |-> Cycle, ip |-> withIp, known |-> found, checked |-> 0]
      BY <3>2 DEF TypeOK
    <3>5. QED
      BY <3>3, <3>4, MarkersAssumption
  <2>3. QED
    BY <2>1, <2>2, Times DEF LastOnItsWay, EarlierStored
<1>6. CASE Stop(b)
  BY <1>6 DEF Stop, Resets, TypeOK
<1>7. CASE Collect(b)
  <2>1. PICK g \in LookedUp(agent[b]), skew \in Skews, disk \in BOOLEAN :
           /\ agent' = [agent EXCEPT ![b] = [g EXCEPT !.since = 0]]
           /\ reports' = [reports EXCEPT ![b] = @ \cup
                  {[made |-> 0, skew |-> skew, disk |-> disk, stage |-> "sent",
                    ext |-> IF g.known THEN g.checked ELSE None]}]
    BY <1>7 DEF Collect
  <2>2. /\ agent[b] # Off /\ agent[b].since >= Interval
        /\ heard' = heard /\ steady' = steady
    BY <1>7 DEF Collect
  <2>3. g \in Running
    BY <2>2, RunningTyped, LookedUpTyped DEF TypeOK
  <2>4. agent'[b].since = 0
    BY <2>1, <2>3 DEF TypeOK, Running
  <2>5. \E r \in reports'[b] : r.made = 0 /\ r.stage = "sent"
    <3>1. [made |-> 0, skew |-> skew, disk |-> disk, stage |-> "sent",
           ext |-> IF g.known THEN g.checked ELSE None] \in reports'[b]
      BY <2>1 DEF TypeOK
    <3>2. QED
      BY <3>1
  <2>6. steady[b] > Cycle => heard[b] <= Cycle
    BY <1>0, <2>2, Times, TimesAssumption DEF LastOnItsWay
  <2>7. Cycle \in Nat
    BY Times
  <2>8. LastOnItsWay(b)' /\ EarlierStored(b)'
    BY <2>2, <2>4, <2>5, <2>6, <2>7 DEF LastOnItsWay, EarlierStored
  <2>9. agent'[b] # Off
    <3>1. [g EXCEPT !.since = 0] \in Running
      BY <2>3, Times DEF Running
    <3>2. QED
      BY <2>1, <3>1, MarkersAssumption DEF TypeOK
  <2>10. QED
    BY <2>8, <2>9
<1>8. ASSUME NEW r \in reports[b], InsertSample(b, r)
      PROVE  IF agent'[b] = Off THEN steady'[b] = 0
             ELSE LastOnItsWay(b)' /\ EarlierStored(b)'
  <2>1. /\ agent' = agent /\ steady' = steady
        /\ heard'[b] = Min(heard[b], r.made)
        /\ \A q \in reports[b] : q # r => q \in reports'[b]
    BY <1>8 DEF InsertSample, Advance, TypeOK
  <2>2. heard'[b] <= heard[b] /\ heard'[b] <= r.made /\ heard'[b] \in Nat
    BY <1>0, <2>1, TimesAssumption DEF Min
  <2>3. QED
    BY <1>0, <2>1, <2>2, Times, TimesAssumption DEF LastOnItsWay, EarlierStored
<1>9. ASSUME NEW r \in reports[b], UpsertIp(b, r) \/ UpsertDiskDetail(b, r)
      PROVE  IF agent'[b] = Off THEN steady'[b] = 0
             ELSE LastOnItsWay(b)' /\ EarlierStored(b)'
  <2>1. /\ agent' = agent /\ steady' = steady /\ heard' = heard
        /\ r.stage # "sent"
        /\ \A q \in reports[b] : q # r => q \in reports'[b]
    BY <1>9 DEF UpsertIp, UpsertDiskDetail, Advance, TypeOK
  <2>2. QED
    BY <1>0, <2>1 DEF LastOnItsWay, EarlierStored
<1>10. ASSUME NEW r \in reports[b], Lose(b, r)
       PROVE  IF agent'[b] = Off THEN steady'[b] = 0
              ELSE LastOnItsWay(b)' /\ EarlierStored(b)'
  <2>1. agent' = agent /\ steady'[b] = 0
    BY <1>10 DEF Lose, Resets, TypeOK
  <2>2. QED
    BY <1>0, <2>1, Times DEF LastOnItsWay, EarlierStored
<1>11. CASE Tick
  <2>1. /\ agent[b] = Off => agent'[b] = Off /\ steady'[b] = 0
        /\ agent[b] # Off => steady'[b] = Min(steady[b] + 1, Window + 1)
        /\ heard'[b] = Min(heard[b] + 1, Old)
        /\ reports'[b] = {[r EXCEPT !.made = @ + 1] : r \in reports[b]}
    BY <1>11 DEF Tick
  <2>2. heard'[b] <= heard[b] + 1 /\ heard'[b] \in Nat
    BY <1>0, <2>1, Times DEF Min
  <2>3. CASE agent[b] # Off
    <3>1. agent'[b].since = agent[b].since + 1 /\ agent'[b] # Off
      BY <1>11, <2>3, RunningTyped, OlderAgentTyped, MarkersAssumption
         DEF Tick, OlderAgent
    <3>2. steady'[b] <= steady[b] + 1 /\ steady'[b] \in Nat
      BY <1>0, <2>1, <2>3, Times DEF Min
    <3>3. ASSUME NEW r \in reports[b]
          PROVE  \E q \in reports'[b] : q.made = r.made + 1 /\ q.stage = r.stage
      <4>1. [r EXCEPT !.made = @ + 1] \in reports'[b]
        BY <2>1
      <4>2. r \in Reports
        BY <1>0
      <4>3. QED
        BY <4>1, <4>2 DEF Reports
    <3>4. EarlierStored(b)'
      BY <1>0, <2>2, <2>3, <3>1, <3>2, Times DEF EarlierStored
    <3>5. ASSUME steady'[b] > agent'[b].since
          PROVE  \/ heard'[b] <= agent'[b].since
                 \/ \E q \in reports'[b] : q.made = agent'[b].since /\ q.stage = "sent"
      <4>1. \/ heard[b] <= agent[b].since
            \/ \E r \in reports[b] : r.made = agent[b].since /\ r.stage = "sent"
        BY <1>0, <2>3, <3>1, <3>2, <3>5, Times DEF LastOnItsWay
      <4>2. CASE heard[b] <= agent[b].since
        BY <1>0, <2>2, <2>3, <3>1, <4>2, Times
      <4>3. CASE \E r \in reports[b] : r.made = agent[b].since /\ r.stage = "sent"
        BY <3>1, <3>3, <4>3
      <4>4. QED
        BY <4>1, <4>2, <4>3
    <3>6. LastOnItsWay(b)'
      BY <3>5 DEF LastOnItsWay
    <3>7. QED
      BY <3>1, <3>4, <3>6
  <2>4. QED
    BY <2>1, <2>3
<1>12. QED
  BY <1>1, <1>2, <1>3, <1>4, <1>5, <1>6, <1>7, <1>8, <1>9, <1>10, <1>11
     DEF Next, Report, Prune, vars

-----------------------------------------------------------------------------
\* The numbers FactsInOrder compares.
LEMMA FactTypes ==
  ASSUME TypeOK, NEW b \in Agents
  PROVE  /\ heard[b] \in 0..Old /\ steady[b] \in 0..(Window + 1)
         /\ ip[b] # None => ip[b] \in 0..OldAddress
         /\ detail[b] # None => detail[b] \in 0..Old
         /\ latest[b] # None => latest[b] \in Rows /\ latest[b].made \in Nat
         /\ reports[b] \subseteq Reports
         /\ agent[b] # Off => /\ agent[b] \in Running
                              /\ agent[b].since \in 0..Cycle
                              /\ agent[b].checked \in 0..Refresh
<1>1. agent[b] # Off => /\ agent[b] \in Running
                        /\ agent[b].since \in 0..Cycle
                        /\ agent[b].checked \in 0..Refresh
  BY RunningTyped DEF Running
<1>2. latest[b] # None => latest[b] \in Rows /\ latest[b].made \in Nat
  BY RowFields DEF TypeOK
<1>3. QED
  BY <1>1, <1>2 DEF TypeOK

LEMMA ReportFields ==
  ASSUME NEW r \in Reports
  PROVE  /\ r.made \in 0..MaxRound /\ r.made \in Nat /\ r.made <= MaxRound
         /\ r.ext # None => r.ext \in 0..(Refresh - 1) /\ r.ext + r.made \in 0..OldAddress
         /\ r.disk \in BOOLEAN
  BY TimesAssumption DEF Reports, OldAddress

\* A lookup is the newest there is.
LEMMA LookedUpChecked ==
  ASSUME NEW g \in Running, NEW h \in LookedUp(g)
  PROVE  h.checked \in {0, g.checked}
  BY DEF LookedUp, Running

\* A report that goes on is the same report at another stage.
LEMMA Advanced ==
  ASSUME TypeOK, NEW a \in Agents, NEW r \in reports[a], NEW s \in {"sent", "inserted", "located"},
         Advance(a, r, s)
  PROVE  \E q \in Reports : /\ reports'[a] = (reports[a] \ {r}) \cup {q}
                            /\ q.made = r.made /\ q.ext = r.ext
                            /\ q.disk = r.disk /\ q.stage = s
<1> DEFINE q == [r EXCEPT !.stage = s]
<1>1. q \in Reports /\ q.made = r.made /\ q.ext = r.ext /\ q.disk = r.disk /\ q.stage = s
  BY DEF TypeOK, Reports
<1>2. reports'[a] = (reports[a] \ {r}) \cup {q}
  BY DEF TypeOK, Advance
<1> HIDE DEF q
<1>3. QED
  BY <1>1, <1>2

\* When a sample is due and no trouble has been since the one before, the report
\* of that one has ended.
LEMMA NoneUnderWay ==
  ASSUME TypeOK, NEW b \in Agents, agent[b] # Off, InOrder(b),
         agent[b].since >= Interval, steady[b] > 0
  PROVE  reports[b] = {}
<1> SUFFICES ASSUME NEW r \in reports[b] PROVE FALSE
  OBVIOUS
<1>1. r.made >= agent[b].since
  BY DEF InOrder
<1>2. r \in Reports /\ agent[b].since \in 0..Cycle
  BY FactTypes
<1>3. QED
  BY <1>1, <1>2, ReportFields, Times, TimesAssumption

LEMMA StartTogether ==
  ASSUME TypeOK, TypeOK', NEW b \in Agents, Together(b), Start(b)
  PROVE  Together(b)'
<1>1. /\ steady'[b] = 0 /\ UNCHANGED <<reports, latest, ip, detail, heard>>
      /\ agent'[b].since = Cycle /\ agent'[b].checked = 0
  BY DEF Start, Resets, TypeOK
<1>2. SampleFirst(b)'
  BY <1>1 DEF Together, SampleFirst
<1>3. ip[b] # None => ip[b] >= 0
  BY FactTypes, TimesAssumption DEF OldAddress
<1>4. ASSUME NEW r \in reports[b], r.ext # None PROVE r.ext + r.made >= 0
  <2>1. r \in Reports
    BY FactTypes
  <2>2. QED
    BY <1>4, <2>1, ReportFields, TimesAssumption DEF OldAddress
<1>5. InOrder(b)' /\ ListInTime(b)'
  BY <1>1, <1>3, <1>4, Times DEF InOrder, ListInTime
<1>6. QED
  BY <1>2, <1>5 DEF Together

LEMMA StopTogether ==
  ASSUME TypeOK, NEW b \in Agents, Together(b), Stop(b)
  PROVE  Together(b)'
<1>1. agent'[b] = Off /\ UNCHANGED <<reports, detail, heard>>
  BY DEF Stop, TypeOK
<1>2. QED
  BY <1>1 DEF Together, SampleFirst

\* A new sample: younger than all that is stored or under way.
LEMMA CollectTogether ==
  ASSUME TypeOK, TypeOK', NEW b \in Agents, Together(b), Collect(b)
  PROVE  Together(b)'
<1>1. PICK g \in LookedUp(agent[b]), skew \in Skews, disk \in BOOLEAN :
         /\ agent' = [agent EXCEPT ![b] = [g EXCEPT !.since = 0]]
         /\ reports' = [reports EXCEPT ![b] = @ \cup
                {[made |-> 0, skew |-> skew, disk |-> disk, stage |-> "sent",
                  ext |-> IF g.known THEN g.checked ELSE None]}]
         /\ whole' = [whole EXCEPT ![b] = @ /\ disk]
  BY DEF Collect
<1> DEFINE new == [made |-> 0, skew |-> skew, disk |-> disk, stage |-> "sent",
                   ext |-> IF g.known THEN g.checked ELSE None]
<1>2. /\ agent[b] # Off /\ agent[b].since >= Interval
      /\ UNCHANGED <<latest, ip, detail, heard, steady>>
  BY DEF Collect
<1>3. /\ agent[b] \in Running /\ agent[b].since \in 0..Cycle
      /\ agent[b].checked \in 0..Refresh
      /\ steady[b] \in 0..(Window + 1) /\ heard[b] \in 0..Old
      /\ ip[b] # None => ip[b] \in 0..OldAddress
      /\ detail[b] # None => detail[b] \in 0..Old
      /\ latest[b] # None => latest[b].made \in Nat
      /\ reports[b] \subseteq Reports
  BY <1>2, FactTypes
<1>4. g \in Running /\ g.checked \in {0, agent[b].checked}
  <2>1. agent[b].known => agent[b].ip
    BY <1>2 DEF TypeOK
  <2>2. QED
    BY <1>3, <2>1, LookedUpTyped, LookedUpChecked
<1>5. /\ agent'[b].since = 0 /\ agent'[b].checked = g.checked
      /\ reports'[b] = reports[b] \cup {new}
      /\ whole'[b] = (whole[b] /\ disk)
  BY <1>1, <1>4 DEF TypeOK, Running
<1>6. new.made = 0 /\ new.stage = "sent" /\ new.disk = disk
      /\ (new.ext # None => new.ext = g.checked)
  OBVIOUS
<1>7. InOrder(b) /\ ListInTime(b) /\ SampleFirst(b)
  BY <1>2 DEF Together
<1>8. ASSUME NEW r \in reports[b]
      PROVE  r.made >= 0 /\ (r.ext # None => r.ext + r.made \in 0..OldAddress)
  <2>1. r \in Reports
    BY <1>3
  <2>2. QED
    BY <2>1, ReportFields
<1> HIDE DEF new
<1>9. steady[b] > 0 => reports[b] = {}
  BY <1>2, <1>7, NoneUnderWay
<1>10. g.checked <= agent[b].checked /\ g.checked \in Nat
  BY <1>3, <1>4, TimesAssumption
<1>11. SampleFirst(b)'
  BY <1>2, <1>5, <1>6, <1>7 DEF SampleFirst
<1>12. ip[b] # None => ip[b] >= g.checked
  <2>1. ip[b] # None => ip[b] >= agent[b].checked /\ ip[b] \in Int
    BY <1>3, <1>7, TimesAssumption DEF InOrder, OldAddress
  <2>2. QED
    BY <1>3, <1>10, <2>1
<1>13. InOrder(b)'
  <2>1. /\ \A r \in reports'[b] : r.made >= 0
        /\ detail'[b] # None => detail'[b] >= 0
        /\ latest'[b] # None => latest'[b].made >= 0
    <3>1. ASSUME NEW r \in reports'[b] PROVE r.made >= 0
      <4>1. r \in reports[b] \/ r = new
        BY <1>5
      <4>2. QED
        BY <1>6, <1>8, <4>1
    <3>2. QED
      BY <1>2, <1>3, <3>1
  <2>2. ASSUME NEW r \in reports'[b], r.ext # None PROVE r.ext + r.made >= g.checked
    <3>1. CASE r \in reports[b]
      <4>1. r.ext + r.made >= agent[b].checked
        BY <1>7, <2>2, <3>1 DEF InOrder
      <4>2. r.ext + r.made \in 0..OldAddress
        BY <1>8, <2>2, <3>1
      <4>3. QED
        BY <1>3, <1>10, <4>1, <4>2, TimesAssumption DEF OldAddress
    <3>2. CASE r = new
      BY <1>6, <1>10, <2>2, <3>2
    <3>3. QED
      BY <1>5, <3>1, <3>2
  <2>3. ASSUME steady'[b] > 0, NEW r \in reports'[b]
        PROVE  /\ r.made = 0 /\ \A q \in reports'[b] : q = r
               /\ r.ext # None /\ ip'[b] # None => r.ext + r.made <= ip'[b]
    <3>1. reports'[b] = {new}
      BY <1>2, <1>5, <1>9, <2>3
    <3>2. new.ext # None /\ ip[b] # None => new.ext + new.made <= ip[b]
      BY <1>3, <1>6, <1>10, <1>12, TimesAssumption DEF OldAddress
    <3>3. QED
      BY <1>2, <1>6, <2>3, <3>1, <3>2
  <2>4. QED
    BY <1>2, <1>5, <1>12, <2>1, <2>2, <2>3 DEF InOrder
<1>14. ListInTime(b)'
  <2>1. ASSUME whole'[b], steady'[b] > 0 PROVE \E r \in reports'[b] : r.disk
    BY <1>5, <1>6, <2>1
  <2>2. ASSUME whole'[b], steady'[b] > 0 + Cycle
        PROVE  detail'[b] # None /\ detail'[b] <= 0 + Cycle
    <3>1. /\ reports[b] = {} /\ steady[b] > agent[b].since
          /\ steady[b] > Cycle /\ agent[b].since <= Cycle
      <4>1. steady[b] > Cycle /\ agent[b].since <= Cycle
        BY <1>2, <1>3, <2>2, Times
      <4>2. QED
        BY <1>3, <1>9, <4>1, Times
    <3>2. whole[b]
      BY <1>5, <2>2
    <3>3. detail[b] # None /\ detail[b] <= agent[b].since
      BY <1>7, <3>1, <3>2 DEF ListInTime
    <3>4. QED
      BY <1>2, <1>3, <3>1, <3>3, Times
  <2>3. QED
    BY <1>5, <2>1, <2>2 DEF ListInTime
<1>15. QED
  BY <1>11, <1>13, <1>14 DEF Together

\* The report of the last sample, and older ones, store what they carry.
LEMMA ReportTogether ==
  ASSUME TypeOK, NEW b \in Agents, Together(b), NEW r \in reports[b],
         InsertSample(b, r) \/ UpsertIp(b, r) \/ UpsertDiskDetail(b, r)
  PROVE  Together(b)'
<1>1. r \in Reports /\ reports[b] \subseteq Reports /\ heard[b] \in 0..Old
  BY FactTypes
<1>2. /\ r.made \in Nat /\ r.made <= MaxRound
      /\ r.ext # None => r.ext + r.made \in 0..OldAddress
  BY <1>1, ReportFields
<1>3. UNCHANGED <<agent, steady, whole>>
  BY DEF InsertSample, UpsertIp, UpsertDiskDetail
<1>4. \A q \in reports'[b] : \/ q \in reports[b]
                             \/ /\ q.made = r.made /\ q.ext = r.ext /\ q.disk = r.disk
                                /\ q.stage # "sent" /\ ~UpsertDiskDetail(b, r)
  <2>1. CASE UpsertDiskDetail(b, r)
    BY <2>1 DEF UpsertDiskDetail, TypeOK
  <2>2. CASE ~UpsertDiskDetail(b, r)
    <3>1. PICK s \in {"inserted", "located"} : Advance(b, r, s)
      BY <2>2 DEF InsertSample, UpsertIp
    <3>2. PICK p \in Reports : /\ reports'[b] = (reports[b] \ {r}) \cup {p}
                               /\ p.made = r.made /\ p.ext = r.ext
                               /\ p.disk = r.disk /\ p.stage = s
      BY <3>1, Advanced
    <3>3. QED
      BY <2>2, <3>2
  <2>3. QED
    BY <2>1, <2>2
<1>5. /\ heard'[b] \in Nat /\ heard'[b] <= heard[b]
      /\ InsertSample(b, r) => heard'[b] <= r.made
      /\ ~InsertSample(b, r) => heard'[b] = heard[b] /\ r.stage # "sent"
  BY <1>1, <1>2, Times DEF InsertSample, UpsertIp, UpsertDiskDetail, Min, TypeOK
<1>6. detail'[b] # detail[b] => /\ UpsertDiskDetail(b, r) /\ r.disk
                                /\ detail'[b] = r.made
  BY DEF InsertSample, UpsertIp, UpsertDiskDetail, TypeOK
<1>7. UpsertDiskDetail(b, r) => detail'[b] = IF r.disk THEN r.made ELSE detail[b]
  BY DEF UpsertDiskDetail, TypeOK
<1>8. ip'[b] # ip[b] => r.ext # None /\ ip'[b] = r.ext + r.made
  BY DEF InsertSample, UpsertIp, UpsertDiskDetail, TypeOK
<1>9. latest'[b] # latest[b] => latest'[b].made = r.made
  BY DEF InsertSample, UpsertIp, UpsertDiskDetail, RowOf, TypeOK
<1>10. SampleFirst(b)'
  <2>1. SampleFirst(b)
    BY DEF Together
  <2>2. ASSUME NEW q \in reports'[b], q.stage # "sent" PROVE heard'[b] <= q.made
    <3>1. CASE q \in reports[b]
      <4>1. heard[b] <= q.made /\ q \in Reports
        BY <1>1, <2>1, <2>2, <3>1 DEF SampleFirst
      <4>2. QED
        BY <1>1, <1>5, <4>1, ReportFields, Times
    <3>2. CASE q \notin reports[b]
      <4>1. q.made = r.made
        BY <1>4, <3>2
      <4>2. ~InsertSample(b, r) => heard[b] <= r.made
        BY <1>5, <2>1 DEF SampleFirst
      <4>3. QED
        BY <1>5, <4>1, <4>2
    <3>3. QED
      BY <3>1, <3>2
  <2>3. ASSUME detail'[b] # None PROVE heard'[b] <= detail'[b]
    <3>1. CASE detail'[b] # detail[b]
      <4>1. heard'[b] = heard[b] /\ heard[b] <= r.made
        <5>1. ~InsertSample(b, r)
          BY <1>6, <3>1 DEF InsertSample, UpsertDiskDetail
        <5>2. QED
          BY <1>5, <2>1, <5>1 DEF SampleFirst
      <4>2. QED
        BY <1>6, <3>1, <4>1
    <3>2. CASE detail'[b] = detail[b]
      <4>1. heard[b] <= detail[b] /\ detail[b] \in 0..Old
        BY <2>1, <2>3, <3>2, FactTypes DEF SampleFirst
      <4>2. QED
        BY <1>1, <1>5, <3>2, <4>1, Times
    <3>3. QED
      BY <3>1, <3>2
  <2>4. QED
    BY <2>2, <2>3 DEF SampleFirst
<1>11. ASSUME agent[b] # Off PROVE InOrder(b)' /\ ListInTime(b)'
  <2>1. InOrder(b) /\ ListInTime(b)
    BY <1>11 DEF Together
  <2>2. /\ agent[b].since \in 0..Cycle /\ agent[b].checked \in 0..Refresh
        /\ steady[b] \in 0..(Window + 1)
    BY <1>11, FactTypes
  <2>3. ASSUME agent[b].since < Cycle \/ steady[b] > 0
        PROVE  /\ \A q \in reports'[b] : q.made >= agent[b].since
               /\ detail'[b] # None => detail'[b] >= agent[b].since
               /\ latest'[b] # None => latest'[b].made >= agent[b].since
    <3>1. /\ \A q \in reports[b] : q.made >= agent[b].since
          /\ detail[b] # None => detail[b] >= agent[b].since
          /\ latest[b] # None => latest[b].made >= agent[b].since
      BY <2>1, <2>3 DEF InOrder
    <3>2. r.made >= agent[b].since
      BY <3>1
    <3>3. QED
      BY <1>4, <1>6, <1>9, <3>1, <3>2
  <2>4. ASSUME ip'[b] # None PROVE ip'[b] >= agent[b].checked
    <3>1. CASE ip'[b] = ip[b]
      BY <2>1, <2>4, <3>1 DEF InOrder
    <3>2. CASE ip'[b] # ip[b]
      BY <1>8, <2>1, <3>2 DEF InOrder
    <3>3. QED
      BY <3>1, <3>2
  <2>5. ASSUME NEW q \in reports'[b], q.ext # None PROVE q.ext + q.made >= agent[b].checked
    <3>1. PICK p \in reports[b] : p.ext = q.ext /\ p.made = q.made
      BY <1>4
    <3>2. p.ext + p.made >= agent[b].checked
      BY <2>1, <2>5, <3>1 DEF InOrder
    <3>3. QED
      BY <3>1, <3>2
  <2>6. ASSUME steady[b] > agent[b].since
        PROVE  /\ reports[b] = {r} /\ r.made = agent[b].since
               /\ r.ext # None /\ ip[b] # None => r.ext + r.made <= ip[b]
    <3>1. \A q \in reports[b] : q = r
      BY <2>1, <2>6 DEF InOrder
    <3>2. /\ r.made = agent[b].since
          /\ r.ext # None /\ ip[b] # None => r.ext + r.made <= ip[b]
      BY <2>1, <2>6 DEF InOrder
    <3>3. QED
      BY <3>1, <3>2
  <2>7. ASSUME steady[b] > agent[b].since, NEW q \in reports'[b]
        PROVE  /\ q.made = agent[b].since
               /\ \A p \in reports'[b] : p = q
               /\ q.ext # None /\ ip'[b] # None => q.ext + q.made <= ip'[b]
    <3>1. q.made = r.made /\ q.ext = r.ext
      BY <1>4, <2>6, <2>7
    <3>2. \A p \in reports'[b] : p = q
      <4>1. CASE UpsertDiskDetail(b, r)
        BY <2>6, <2>7, <4>1 DEF UpsertDiskDetail, TypeOK
      <4>2. CASE ~UpsertDiskDetail(b, r)
        <5>1. PICK s \in {"inserted", "located"} : Advance(b, r, s)
          BY <4>2 DEF InsertSample, UpsertIp
        <5>2. PICK n \in Reports : reports'[b] = (reports[b] \ {r}) \cup {n}
          BY <5>1, Advanced
        <5>3. QED
          BY <2>6, <2>7, <5>2
      <4>3. QED
        BY <4>1, <4>2
    <3>3. r.ext # None /\ ip'[b] # None => r.ext + r.made <= ip'[b]
      <4>1. CASE ip'[b] = ip[b]
        BY <2>6, <2>7, <4>1
      <4>2. CASE ip'[b] # ip[b]
        BY <1>2, <1>8, <4>2, TimesAssumption DEF OldAddress
      <4>3. QED
        BY <4>1, <4>2
    <3>4. QED
      BY <2>6, <2>7, <3>1, <3>2, <3>3
  <2>8. ASSUME whole[b], steady[b] > agent[b].since
        PROVE  \/ detail'[b] # None /\ detail'[b] <= agent[b].since
               \/ \E q \in reports'[b] : q.disk
    <3>1. \/ detail[b] # None /\ detail[b] <= agent[b].since
          \/ r.disk
      BY <2>1, <2>6, <2>8 DEF ListInTime
    <3>2. CASE UpsertDiskDetail(b, r)
      <4>1. r.made # None /\ r.made <= agent[b].since
        BY <1>2, <2>2, <2>6, <2>8, MarkersAssumption, Times
      <4>2. QED
        BY <1>7, <3>1, <3>2, <4>1
    <3>3. CASE ~UpsertDiskDetail(b, r)
      <4>1. PICK s \in {"inserted", "located"} : Advance(b, r, s)
        BY <3>3 DEF InsertSample, UpsertIp
      <4>2. PICK n \in Reports : /\ reports'[b] = (reports[b] \ {r}) \cup {n}
                                 /\ n.disk = r.disk
        BY <4>1, Advanced
      <4>3. detail'[b] = detail[b]
        BY <1>6, <3>3
      <4>4. QED
        BY <3>1, <4>2, <4>3
    <3>4. QED
      BY <3>2, <3>3
  <2>9. ASSUME whole[b], steady[b] > agent[b].since + Cycle
        PROVE  detail'[b] # None /\ detail'[b] <= agent[b].since + Cycle
    <3>1. detail[b] # None /\ detail[b] <= agent[b].since + Cycle
      BY <2>1, <2>9 DEF ListInTime
    <3>2. steady[b] > agent[b].since
      BY <2>2, <2>9, Times
    <3>3. r.made # None /\ r.made <= agent[b].since + Cycle
      BY <1>2, <2>2, <2>6, <3>2, MarkersAssumption, Times
    <3>4. QED
      BY <1>6, <3>1, <3>3
  <2>10. InOrder(b)'
    BY <1>3, <2>3, <2>4, <2>5, <2>7 DEF InOrder
  <2>11. ListInTime(b)'
    BY <1>3, <2>8, <2>9 DEF ListInTime
  <2>12. QED
    BY <2>10, <2>11
<1>12. QED
  BY <1>3, <1>10, <1>11 DEF Together

LEMMA LoseTogether ==
  ASSUME TypeOK, NEW b \in Agents, Together(b), NEW r \in reports[b], Lose(b, r)
  PROVE  Together(b)'
<1>1. /\ UNCHANGED <<agent, latest, ip, detail, heard>> /\ steady'[b] = 0
      /\ reports'[b] = reports[b] \ {r}
  BY DEF Lose, Resets, TypeOK
<1>2. SampleFirst(b)'
  BY <1>1 DEF Together, SampleFirst
<1>3. ASSUME agent[b] # Off PROVE InOrder(b)' /\ ListInTime(b)'
  <2>1. InOrder(b) /\ agent[b].since \in 0..Cycle
    BY <1>3, FactTypes DEF Together
  <2>2. QED
    BY <1>1, <2>1, Times DEF InOrder, ListInTime
<1>4. QED
  BY <1>1, <1>2, <1>3 DEF Together

\* What is stored is a second older a second later, up to the bound.
LEMMA OlderBounds ==
  ASSUME NEW most \in Nat, NEW age, age # None => age \in 0..most
  PROVE  /\ age = None <=> Older(age, most) = None
         /\ age # None => /\ Older(age, most) \in 0..most
                          /\ Older(age, most) <= age + 1
                          /\ Older(age, most) = most \/ Older(age, most) = age + 1
<1>1. CASE age = None
  BY <1>1 DEF Older
<1>2. CASE age # None
  <2>1. Older(age, most) = Min(age + 1, most) /\ age \in 0..most
    BY <1>2 DEF Older
  <2>2. Min(age + 1, most) \in 0..most
    BY <2>1 DEF Min
  <2>3. QED
    BY <1>2, <2>1, <2>2, MarkersAssumption DEF Min
<1>3. QED
  BY <1>1, <1>2

\* Time passes for all that is compared alike.
LEMMA TickTogether ==
  ASSUME TypeOK, NEW b \in Agents, Together(b), Tick
  PROVE  Together(b)'
<1>1. /\ heard[b] \in 0..Old /\ steady[b] \in 0..(Window + 1)
      /\ reports[b] \subseteq Reports
      /\ detail[b] # None => detail[b] \in 0..Old
      /\ ip[b] # None => ip[b] \in 0..OldAddress
  BY FactTypes
<1>2. OldAddress \in Nat /\ OldAddress = Refresh + MaxRound
  BY TimesAssumption DEF OldAddress
<1>3. /\ heard'[b] = Min(heard[b] + 1, Old)
      /\ detail'[b] = Older(detail[b], Old)
      /\ ip'[b] = Older(ip[b], OldAddress)
      /\ reports'[b] = {[r EXCEPT !.made = @ + 1] : r \in reports[b]}
      /\ whole'[b] = whole[b]
  BY DEF Tick
<1>4. /\ heard'[b] \in 0..Old /\ heard'[b] <= heard[b] + 1
  BY <1>1, <1>3, Times DEF Min
<1>5. /\ detail[b] = None <=> detail'[b] = None
      /\ detail[b] # None => /\ detail'[b] \in 0..Old /\ detail'[b] <= detail[b] + 1
                             /\ detail'[b] = Old \/ detail'[b] = detail[b] + 1
  BY <1>1, <1>3, OlderBounds, Times
<1>6. /\ ip[b] = None <=> ip'[b] = None
      /\ ip[b] # None => /\ ip'[b] \in 0..OldAddress /\ ip'[b] <= ip[b] + 1
                         /\ ip'[b] = OldAddress \/ ip'[b] = ip[b] + 1
  BY <1>1, <1>2, <1>3, OlderBounds
<1>7. ASSUME NEW r \in reports[b]
      PROVE  /\ r \in Reports /\ r.made + 1 <= MaxRound
             /\ [r EXCEPT !.made = @ + 1] \in reports'[b]
             /\ [r EXCEPT !.made = @ + 1].made = r.made + 1
             /\ [r EXCEPT !.made = @ + 1].stage = r.stage
             /\ [r EXCEPT !.made = @ + 1].ext = r.ext
             /\ [r EXCEPT !.made = @ + 1].disk = r.disk
  <2>1. r \in Reports /\ r.made < MaxRound
    BY <1>1 DEF Tick
  <2>2. [r EXCEPT !.made = @ + 1] \in reports'[b]
    BY <1>3
  <2>3. r.made \in Nat /\ MaxRound \in Nat
    BY <2>1, ReportFields, TimesAssumption
  <2>4. /\ [r EXCEPT !.made = @ + 1].made = r.made + 1
        /\ [r EXCEPT !.made = @ + 1].stage = r.stage
        /\ [r EXCEPT !.made = @ + 1].ext = r.ext
        /\ [r EXCEPT !.made = @ + 1].disk = r.disk
    BY <2>1 DEF Reports
  <2>5. QED
    BY <2>1, <2>2, <2>3, <2>4
<1>8. ASSUME NEW q \in reports'[b]
      PROVE  \E r \in reports[b] : /\ q = [r EXCEPT !.made = @ + 1]
                                   /\ q.made = r.made + 1 /\ q.stage = r.stage
                                   /\ q.ext = r.ext /\ q.disk = r.disk
  <2>1. PICK r \in reports[b] : q = [r EXCEPT !.made = @ + 1]
    BY <1>3
  <2>2. QED
    BY <1>7, <2>1
<1>9. SampleFirst(b)'
  <2>1. SampleFirst(b)
    BY DEF Together
  <2>2. ASSUME NEW q \in reports'[b], q.stage # "sent" PROVE heard'[b] <= q.made
    <3>1. PICK r \in reports[b] : q.made = r.made + 1 /\ q.stage = r.stage
      BY <1>8
    <3>2. heard[b] <= r.made /\ r \in Reports
      BY <1>1, <2>1, <2>2, <3>1 DEF SampleFirst
    <3>3. QED
      BY <1>1, <1>4, <3>1, <3>2, ReportFields, Times
  <2>3. ASSUME detail'[b] # None PROVE heard'[b] <= detail'[b]
    BY <1>1, <1>4, <1>5, <2>1, <2>3, Times DEF SampleFirst
  <2>4. QED
    BY <2>2, <2>3 DEF SampleFirst
<1>10. CASE agent[b] = Off
  <2>1. agent'[b] = Off
    BY <1>10 DEF Tick
  <2>2. QED
    BY <1>9, <2>1 DEF Together
<1>11. CASE agent[b] # Off
  <2>1. InOrder(b) /\ ListInTime(b)
    BY <1>11 DEF Together
  <2>2. /\ agent[b] \in Running /\ agent[b].since \in 0..Cycle
        /\ agent[b].checked \in 0..Refresh /\ agent[b].since < Cycle
    BY <1>11, FactTypes DEF Tick
  <2>3. /\ agent'[b].since = agent[b].since + 1
        /\ agent'[b].checked = Min(agent[b].checked + 1, Refresh)
    BY <1>11, <2>2 DEF Tick, Running
  <2>4. /\ agent'[b].checked <= agent[b].checked + 1 /\ agent'[b].checked \in 0..Refresh
    BY <2>2, <2>3, TimesAssumption DEF Min
  <2>5. steady'[b] = Min(steady[b] + 1, Window + 1)
    BY <1>11 DEF Tick
  <2>6. steady'[b] <= steady[b] + 1 /\ steady'[b] \in 0..(Window + 1)
    BY <1>1, <2>5, Times DEF Min
  <2>7. /\ \A r \in reports[b] : r.made >= agent[b].since
        /\ detail[b] # None => detail[b] >= agent[b].since
        /\ latest[b] # None => latest[b].made >= agent[b].since
    BY <2>1, <2>2 DEF InOrder
  <2>8. ASSUME NEW q \in reports'[b] PROVE q.made >= agent'[b].since
    <3>1. PICK r \in reports[b] : q.made = r.made + 1
      BY <1>8
    <3>2. r \in Reports /\ r.made >= agent[b].since
      BY <1>1, <2>7
    <3>3. QED
      BY <2>2, <2>3, <3>1, <3>2, ReportFields
  <2>9. detail'[b] # None => detail'[b] >= agent'[b].since
    BY <1>1, <1>5, <2>2, <2>3, <2>7, Times, TimesAssumption
  <2>10. latest'[b] # None => latest'[b].made >= agent'[b].since
    <3>1. CASE latest[b] = None
      BY <3>1 DEF Tick
    <3>2. CASE latest[b] # None /\ Expired(latest[b])
      <4>1. latest'[b] = latest[b] /\ latest[b].age > Retention
        BY <3>2 DEF Tick, Expired
      <4>2. latest[b] \in Rows
        BY <3>2, FactTypes
      <4>3. QED
        BY <2>2, <2>3, <4>1, <4>2, RowFields, Times, TimesAssumption
    <3>3. CASE latest[b] # None /\ ~Expired(latest[b])
      <4>1. latest'[b].made = latest[b].made + 1
        BY <3>3 DEF Tick
      <4>2. latest[b].made \in Nat
        BY <3>3, FactTypes
      <4>3. QED
        BY <2>2, <2>3, <2>7, <3>3, <4>1, <4>2
    <3>4. QED
      BY <3>1, <3>2, <3>3
  <2>11. ip'[b] # None => ip'[b] >= agent'[b].checked
    <3>1. ip[b] # None => ip[b] >= agent[b].checked
      BY <2>1 DEF InOrder
    <3>2. QED
      BY <1>1, <1>2, <1>6, <2>2, <2>4, <3>1, TimesAssumption
  <2>12. ASSUME NEW q \in reports'[b], q.ext # None
         PROVE  q.ext + q.made >= agent'[b].checked
    <3>1. PICK r \in reports[b] : q.made = r.made + 1 /\ q.ext = r.ext
      BY <1>8
    <3>2. r \in Reports /\ r.ext + r.made >= agent[b].checked
      BY <1>1, <2>1, <2>12, <3>1 DEF InOrder
    <3>3. r.made \in Nat /\ r.ext \in 0..(Refresh - 1)
      BY <2>12, <3>1, <3>2, ReportFields
    <3>4. QED
      BY <2>2, <2>4, <3>1, <3>2, <3>3, TimesAssumption
  <2>13. ASSUME steady'[b] > agent'[b].since PROVE steady[b] > agent[b].since
    BY <1>1, <2>2, <2>3, <2>6, <2>13, Times
  <2>14. ASSUME steady'[b] > agent'[b].since, NEW q \in reports'[b]
         PROVE  /\ q.made = agent'[b].since
                /\ \A p \in reports'[b] : p = q
                /\ q.ext # None /\ ip'[b] # None => q.ext + q.made <= ip'[b]
    <3>1. PICK r \in reports[b] : /\ q = [r EXCEPT !.made = @ + 1]
                                  /\ q.made = r.made + 1 /\ q.ext = r.ext
      BY <1>8
    <3>2. /\ r.made = agent[b].since
          /\ \A n \in reports[b] : n = r
          /\ r.ext # None /\ ip[b] # None => r.ext + r.made <= ip[b]
      BY <2>1, <2>13, <2>14 DEF InOrder
    <3>3. \A p \in reports'[b] : p = q
      BY <1>3, <3>1, <3>2
    <3>4. ASSUME q.ext # None, ip'[b] # None PROVE q.ext + q.made <= ip'[b]
      <4>1. r.ext + r.made <= ip[b] /\ ip[b] # None
        BY <1>6, <3>1, <3>2, <3>4
      <4>2. r.made + 1 <= MaxRound /\ r.made \in Nat /\ r.ext \in 0..(Refresh - 1)
        BY <1>7, <3>1, <3>4, ReportFields
      <4>3. QED
        BY <1>1, <1>2, <1>6, <3>1, <4>1, <4>2, TimesAssumption
    <3>5. QED
      BY <2>3, <3>1, <3>2, <3>3, <3>4
  <2>15. InOrder(b)'
    BY <2>8, <2>9, <2>10, <2>11, <2>12, <2>14 DEF InOrder
  <2>16. ASSUME whole[b], steady'[b] > agent'[b].since
         PROVE  \/ detail'[b] # None /\ detail'[b] <= agent'[b].since
                \/ \E q \in reports'[b] : q.disk
    <3>1. \/ detail[b] # None /\ detail[b] <= agent[b].since
          \/ \E r \in reports[b] : r.disk
      BY <2>1, <2>13, <2>16 DEF ListInTime
    <3>2. CASE detail[b] # None /\ detail[b] <= agent[b].since
      BY <1>1, <1>5, <2>2, <2>3, <3>2, Times
    <3>3. CASE \E r \in reports[b] : r.disk
      BY <1>7, <3>3
    <3>4. QED
      BY <3>1, <3>2, <3>3
  <2>17. ASSUME whole[b], steady'[b] > agent'[b].since + Cycle
         PROVE  detail'[b] # None /\ detail'[b] <= agent'[b].since + Cycle
    <3>1. steady[b] > agent[b].since + Cycle
      BY <1>1, <2>2, <2>3, <2>6, <2>17, Times
    <3>2. detail[b] # None /\ detail[b] <= agent[b].since + Cycle
      BY <2>1, <2>17, <3>1 DEF ListInTime
    <3>3. QED
      BY <1>1, <1>5, <2>2, <2>3, <3>2, Times
  <2>18. ListInTime(b)'
    BY <1>3, <2>16, <2>17 DEF ListInTime
  <2>19. QED
    BY <1>9, <2>15, <2>18 DEF Together
<1>12. QED
  BY <1>10, <1>11

\* Pruning, and what another agent or report does, leaves an agent's facts alone.
LEMMA OthersTogether ==
  ASSUME NEW b \in Agents, Together(b),
         agent'[b] = agent[b], reports'[b] = reports[b], heard'[b] = heard[b],
         ip'[b] = ip[b], detail'[b] = detail[b], steady'[b] = steady[b],
         whole'[b] = whole[b], latest'[b] \in {latest[b], None}
  PROVE  Together(b)'
  BY DEF Together, SampleFirst, InOrder, ListInTime

LEMMA NextFactsInOrder == TypeOK /\ TypeOK' /\ FactsInOrder /\ [Next]_vars => FactsInOrder'
<1> SUFFICES ASSUME TypeOK, TypeOK', FactsInOrder, [Next]_vars, NEW b \in Agents
             PROVE  Together(b)'
  BY DEF FactsInOrder
<1>0. Together(b)
  BY DEF FactsInOrder
<1>1. ASSUME NEW a \in Agents, Start(a) \/ Stop(a) \/ Collect(a) PROVE Together(b)'
  <2>1. CASE a = b
    BY <1>0, <1>1, <2>1, StartTogether, StopTogether, CollectTogether
  <2>2. CASE a # b
    BY <1>0, <1>1, <2>2, OthersTogether DEF Start, Stop, Collect, Resets, TypeOK
  <2>3. QED
    BY <2>1, <2>2
<1>2. ASSUME NEW a \in Agents, NEW r \in reports[a], Report(a, r) PROVE Together(b)'
  <2>1. CASE a = b
    BY <1>0, <1>2, <2>1, ReportTogether, LoseTogether DEF Report
  <2>2. CASE a # b
    BY <1>0, <1>2, <2>2, OthersTogether
       DEF Report, InsertSample, UpsertIp, UpsertDiskDetail, Lose, Resets, Advance, TypeOK
  <2>3. QED
    BY <2>1, <2>2
<1>3. CASE Prune
  BY <1>0, <1>3, OthersTogether DEF Prune
<1>4. CASE Tick
  BY <1>0, <1>4, TickTogether
<1>5. CASE UNCHANGED vars
  BY <1>0, <1>5, OthersTogether DEF vars
<1>6. QED
  BY <1>1, <1>2, <1>3, <1>4, <1>5 DEF Next

-----------------------------------------------------------------------------
\* The invariants hold from the start.
LEMMA InitInv == Init => Inv
<1>1. Init => RowKeepsUp
  BY Times, TimesAssumption DEF Init, RowKeepsUp
<1>2. Init => InTime
  BY DEF Init, InTime
<1>3. Init => FactsInOrder
  BY DEF Init, FactsInOrder, Together, SampleFirst
<1>4. QED
  BY <1>1, <1>2, <1>3, InitTypeOK DEF Inv

LEMMA AlwaysInv == Spec => []Inv
<1>1. Inv /\ [Next]_vars => Inv'
  BY NextTypeOK, NextRowKeepsUp, NextInTime, NextFactsInOrder DEF Inv
<1>2. QED
  BY <1>1, InitInv, PTL DEF Spec

\* metrics.db, the agents and their reports keep their shape, and a stored
\* timestamp is off by no more than the clock that wrote it.
THEOREM TypeCorrect == Spec => []TypeOK
<1>1. Inv => TypeOK
  BY DEF Inv
<1>2. QED
  BY <1>1, AlwaysInv, PTL

\* What is listed is by its timestamp no older than the newest stored sample.
LEMMA NewestShown == Inv => NewestIsShown
<1>1. SUFFICES ASSUME Inv, NEW a \in Agents, latest[a] # None,
                      latest[a].age <= Stale
               PROVE  latest[a].made <= heard[a] + Ahead + Behind
  BY DEF NewestIsShown, Listed
<1>2. latest[a] \in Rows /\ heard[a] \in 0..Old
  BY <1>1 DEF Inv, TypeOK
<1>3. latest[a].age <= heard[a] + Behind
  <2>1. CASE heard[a] + Behind <= Retention
    BY <1>1, <2>1 DEF Inv, RowKeepsUp
  <2>2. CASE ~(heard[a] + Behind <= Retention)
    BY <1>1, <1>2, <2>2, RowFields, Times, TimesAssumption
  <2>3. QED
    BY <2>1, <2>2
<1>4. QED
  BY <1>2, <1>3, RowFields, Times, TimesAssumption

\* A window without trouble puts the latest row within the staleness limit.
LEMMA ReportingListed == Inv => ReportingIsListed
<1>1. SUFFICES ASSUME Inv, NEW a \in Agents, steady[a] > Window
               PROVE  latest[a] # None /\ latest[a].age <= Stale
  BY DEF ReportingIsListed, Listed
<1>2. /\ heard[a] \in 0..Old /\ steady[a] \in 0..(Window + 1)
      /\ reports[a] \subseteq Reports
  BY <1>1 DEF Inv, TypeOK
<1>3. agent[a] # Off
  BY <1>1, Times DEF Inv, InTime
<1>4. agent[a].since \in 0..Cycle
  BY <1>1, <1>3, RunningTyped DEF Inv, Running
<1>5. LastOnItsWay(a) /\ EarlierStored(a)
  BY <1>1, <1>3 DEF Inv, InTime
<1>6. heard[a] <= Window
  <2>1. CASE heard[a] <= agent[a].since
    BY <1>2, <1>4, <2>1, Times, TimesAssumption
  <2>2. CASE \E r \in reports[a] : r.made = agent[a].since
    <3>1. agent[a].since <= MaxRound
      BY <1>2, <2>2, TimesAssumption DEF Reports
    <3>2. QED
      BY <1>1, <1>2, <1>4, <1>5, <3>1, Times, TimesAssumption DEF EarlierStored
  <2>3. QED
    BY <1>1, <1>2, <1>4, <1>5, <2>1, <2>2, Times, TimesAssumption DEF LastOnItsWay
<1>7. heard[a] + Behind <= Stale /\ heard[a] + Behind <= Retention
  BY <1>2, <1>6, Times, TimesAssumption
<1>8. latest[a] # None /\ latest[a].age <= heard[a] + Behind
  BY <1>1, <1>7 DEF Inv, RowKeepsUp
<1>9. latest[a].age \in Int
  BY <1>1, <1>8, RowFields DEF Inv, TypeOK
<1>10. QED
  BY <1>2, <1>7, <1>8, <1>9, TimesAssumption

\* The newest stored sample is hidden by no more than the clock was off.
THEOREM NewestAlwaysShown == Spec => []NewestIsShown
  BY NewestShown, AlwaysInv, PTL

\* An agent that gets its reports through is listed without a gap: its newest
\* sample is at most a cycle and a round old, so its row is within the window
\* and not pruned.
THEOREM ReportingAlwaysListed == Spec => []ReportingIsListed
  BY ReportingListed, AlwaysInv, PTL

LEMMA HangsTogether == Inv => CardHangsTogether
<1> SUFFICES ASSUME Inv, NEW a \in Agents
             PROVE  /\ Listed(a) /\ detail[a] # None
                          => latest[a].made <= detail[a] + Ahead + Behind
                    /\ whole[a] /\ steady[a] > Window
                          => detail[a] # None /\ detail[a] <= latest[a].made + Cycle
  BY DEF CardHangsTogether
<1>1. /\ heard[a] \in 0..Old /\ steady[a] \in 0..(Window + 1)
      /\ detail[a] # None => detail[a] \in 0..Old
      /\ latest[a] # None => latest[a].made \in Nat
      /\ reports[a] \subseteq Reports
      /\ agent[a] # Off => agent[a].since \in 0..Cycle
  BY FactTypes DEF Inv
<1>2. SampleFirst(a) /\ (agent[a] # Off => InOrder(a) /\ ListInTime(a))
  BY DEF Inv, FactsInOrder, Together
<1>3. ASSUME Listed(a), detail[a] # None
      PROVE  latest[a].made <= detail[a] + Ahead + Behind
  <2>1. latest[a].made <= heard[a] + Ahead + Behind /\ latest[a] # None
    BY <1>3, NewestShown DEF NewestIsShown, Listed
  <2>2. heard[a] <= detail[a]
    BY <1>2, <1>3 DEF SampleFirst
  <2>3. QED
    BY <1>1, <1>3, <2>1, <2>2, Times, TimesAssumption
<1>4. ASSUME whole[a], steady[a] > Window
      PROVE  detail[a] # None /\ detail[a] <= latest[a].made + Cycle
  <2>1. latest[a] # None
    BY <1>4, ReportingListed DEF ReportingIsListed, Listed
  <2>2. agent[a] # Off
    BY <1>4, Times DEF Inv, InTime
  <2>3. InOrder(a) /\ ListInTime(a) /\ agent[a].since \in 0..Cycle
    BY <1>1, <1>2, <2>2
  <2>4. steady[a] > agent[a].since /\ steady[a] > 0
    BY <1>1, <1>4, <2>3, Times, TimesAssumption
  <2>5. /\ latest[a].made >= agent[a].since
        /\ \A r \in reports[a] : r.made >= agent[a].since
    BY <2>1, <2>3, <2>4 DEF InOrder
  <2>6. CASE detail[a] # None /\ detail[a] <= agent[a].since
    BY <1>1, <2>1, <2>3, <2>5, <2>6, Times
  <2>7. CASE \E r \in reports[a] : r.disk
    <3>1. PICK r \in reports[a] : r.made >= agent[a].since
      BY <2>5, <2>7
    <3>2. r \in Reports
      BY <1>1
    <3>3. agent[a].since <= MaxRound
      BY <2>3, <3>1, <3>2, ReportFields, Times, TimesAssumption
    <3>4. steady[a] > agent[a].since + Cycle
      BY <1>1, <1>4, <2>3, <3>3, Times, TimesAssumption
    <3>5. detail[a] # None /\ detail[a] <= agent[a].since + Cycle
      BY <1>4, <2>3, <3>4 DEF ListInTime
    <3>6. QED
      BY <1>1, <2>1, <2>3, <2>5, <3>5, Times
  <2>8. QED
    BY <1>4, <2>3, <2>4, <2>6, <2>7 DEF ListInTime
<1>5. QED
  BY <1>3, <1>4

\* The sample and the mount points of a card: the mount points are of no later
\* time, but for the clock, and while lists get through lag by a cycle at most.
THEOREM CardAlwaysHangsTogether == Spec => []CardHangsTogether
  BY HangsTogether, AlwaysInv, PTL

\* After the time of a report without trouble, the only report under way is that
\* of the last sample: what it stores is no older than what is stored.
THEOREM FactsAlwaysForward == Spec => FactsMoveForward
<1>1. ASSUME Inv, Next, NEW a \in Agents, steady[a] > MaxRound, ~Tick
      PROVE  NotOlder(ip'[a], ip[a]) /\ NotOlder(detail'[a], detail[a])
  <2>1. /\ steady[a] \in 0..(Window + 1)
        /\ ip[a] # None => ip[a] \in 0..OldAddress
        /\ detail[a] # None => detail[a] \in 0..Old
        /\ reports[a] \subseteq Reports
        /\ agent[a] # Off => agent[a].since \in 0..Cycle
    BY <1>1, FactTypes DEF Inv
  <2>2. ASSUME ip'[a] = ip[a], detail'[a] = detail[a]
        PROVE  NotOlder(ip'[a], ip[a]) /\ NotOlder(detail'[a], detail[a])
    BY <2>1, <2>2, Times, TimesAssumption DEF NotOlder, OldAddress
  <2>3. ASSUME NEW r \in reports[a], UpsertIp(a, r) \/ UpsertDiskDetail(a, r)
        PROVE  NotOlder(ip'[a], ip[a]) /\ NotOlder(detail'[a], detail[a])
    <3>1. agent[a] # Off /\ steady[a] > 0
      BY <1>1, <2>1, TimesAssumption DEF Inv, InTime
    <3>2. InOrder(a) /\ agent[a].since \in 0..Cycle
      BY <1>1, <2>1, <3>1 DEF Inv, FactsInOrder, Together
    <3>3. r \in Reports /\ r.made >= agent[a].since
      BY <2>1, <3>1, <3>2 DEF InOrder
    <3>4. steady[a] > agent[a].since
      BY <1>1, <2>1, <3>2, <3>3, ReportFields, TimesAssumption
    <3>5. /\ r.made = agent[a].since
          /\ r.ext # None /\ ip[a] # None => r.ext + r.made <= ip[a]
          /\ detail[a] # None => detail[a] >= agent[a].since
      BY <3>1, <3>2, <3>4 DEF InOrder
    <3>6. /\ r.made # None
          /\ r.ext # None => r.ext + r.made # None
      BY <3>3, ReportFields, MarkersAssumption, TimesAssumption DEF OldAddress
    <3>7. CASE UpsertIp(a, r)
      <4>1. /\ ip'[a] = IF r.ext = None THEN ip[a] ELSE r.ext + r.made
            /\ detail'[a] = detail[a]
        BY <1>1, <3>7 DEF UpsertIp, Inv, TypeOK
      <4>2. NotOlder(ip'[a], ip[a])
        BY <2>1, <3>5, <3>6, <4>1, TimesAssumption DEF NotOlder, OldAddress
      <4>3. NotOlder(detail'[a], detail[a])
        BY <2>1, <4>1, Times DEF NotOlder
      <4>4. QED
        BY <4>2, <4>3
    <3>8. CASE UpsertDiskDetail(a, r)
      <4>1. /\ detail'[a] = IF r.disk THEN r.made ELSE detail[a]
            /\ ip'[a] = ip[a]
        BY <1>1, <3>8 DEF UpsertDiskDetail, Inv, TypeOK
      <4>2. NotOlder(detail'[a], detail[a])
        BY <2>1, <3>2, <3>5, <3>6, <4>1, Times DEF NotOlder
      <4>3. NotOlder(ip'[a], ip[a])
        BY <2>1, <4>1, TimesAssumption DEF NotOlder, OldAddress
      <4>4. QED
        BY <4>2, <4>3
    <3>9. QED
      BY <2>3, <3>7, <3>8
  <2>4. ASSUME NEW c \in Agents, Start(c) \/ Stop(c) \/ Collect(c)
        PROVE  ip'[a] = ip[a] /\ detail'[a] = detail[a]
    BY <2>4 DEF Start, Stop, Collect
  <2>5. ASSUME NEW c \in Agents, NEW r \in reports[c], Report(c, r),
               ~(c = a /\ (UpsertIp(a, r) \/ UpsertDiskDetail(a, r)))
        PROVE  ip'[a] = ip[a] /\ detail'[a] = detail[a]
    BY <1>1, <2>5 DEF Report, InsertSample, UpsertIp, UpsertDiskDetail, Lose, Inv, TypeOK
  <2>6. CASE Prune
    BY <2>2, <2>6 DEF Prune
  <2>7. QED
    BY <1>1, <2>2, <2>3, <2>4, <2>5, <2>6 DEF Next
<1>2. Inv /\ [Next]_vars =>
        [\A a \in Agents : steady[a] > MaxRound /\ ~Tick =>
            NotOlder(ip'[a], ip[a]) /\ NotOlder(detail'[a], detail[a])]_vars
  BY <1>1
<1>3. QED
  BY <1>2, AlwaysInv, PTL DEF Spec, FactsMoveForward
=============================================================================
