----------------------------- MODULE MetricsStore -----------------------------
(***************************************************************************)
(* metrics.db, the agents that report into it, and what the status page    *)
(* and the alert thread make of it: an agent counts as active while the    *)
(* timestamp of its latest row, written by the agent's own clock, is at    *)
(* most AGENT_STALE_SECONDS old by the dashboard's.                        *)
(*                                                                         *)
(* An agent's clock may be set at any time: at every reading it is up to   *)
(* Ahead seconds fast or Behind seconds slow.  All times are kept as ages. *)
(* Of an agent's rows only the one with the greatest timestamp is kept     *)
(* here: list_active_panels and get_latest see no other, and pruning       *)
(* removes it last.  An agent that reports nothing but samples, such as    *)
(* the ESXi reporter for each virtual machine, is one without report_ip    *)
(* and without mount points.                                               *)
(***************************************************************************)
EXTENDS Integers, FiniteSets

CONSTANTS
    Agents,         \* panel names, one per agent
    Interval,       \* interval_seconds
    MaxRound,       \* the longest from a sample to the end of its report
    Refresh,        \* EXTERNAL_IP_REFRESH_SECONDS
    Stale,          \* AGENT_STALE_SECONDS
    Retention,      \* retention_days
    Ahead, Behind,  \* how far an agent's clock may be fast or slow
    MaxReports,     \* bound: reports of one agent under way when it starts
    None, Off

Cycle == Interval + MaxRound   \* the longest from a sample to the next
Window == Cycle + MaxRound     \* and to the end of that one's report

ASSUME TimesAssumption ==
    /\ Interval \in Nat /\ MaxRound \in Nat /\ MaxRound < Interval
    /\ Refresh \in Nat \ {0} /\ Stale \in Nat /\ Retention \in Nat
    /\ Ahead \in Nat /\ Behind \in Nat
    /\ Window + Behind <= Stale /\ Stale <= Retention

VARIABLES
    agent,    \* the agents' processes: time since the last sample, whether
              \* they report addresses, the external address they have cached
    reports,  \* posted and not yet answered, per agent
    latest,   \* the row with the greatest timestamp, per agent
    ip,       \* how long ago the stored external address was looked up
    detail,   \* and the stored list of mount points was read
    heard,    \* history: how long ago the newest stored sample was taken
    steady,   \* history: for how long an agent has run and no report was lost
    whole     \* history: and every report meanwhile had mount points

vars == <<agent, reports, latest, ip, detail, heard, steady, whole>>

Old == Retention + 1             \* bound: no sample is counted as older
OldAddress == Refresh + MaxRound \* bound: no address is counted as older
Skews == -Behind..Ahead

\* checked is the age of last_external_ip_check, and of the address if known.
Running == [since : 0..Cycle, ip : BOOLEAN, known : BOOLEAN, checked : 0..Refresh]

Reports == [made : 0..MaxRound, skew : Skews, ext : 0..(Refresh - 1) \cup {None},
            disk : BOOLEAN, stage : {"sent", "inserted", "located"}]

Rows == {row \in [age : -Ahead..Old, made : 0..(Old + Ahead)] :
            row.made - row.age \in Skews}

ASSUME MarkersAssumption ==
    None \notin Int /\ None \notin Rows /\ Off \notin Running

Min(a, b) == IF a < b THEN a ELSE b

\* The age of what is stored, a second later.
Older(age, most) == IF age = None THEN None ELSE Min(age + 1, most)

-----------------------------------------------------------------------------
Init ==
    /\ agent = [a \in Agents |-> Off]
    /\ reports = [a \in Agents |-> {}]
    /\ latest = [a \in Agents |-> None]
    /\ ip = [a \in Agents |-> None]
    /\ detail = [a \in Agents |-> None]
    /\ heard = [a \in Agents |-> Old]
    /\ steady = [a \in Agents |-> 0]
    /\ whole = [a \in Agents |-> TRUE]

\* Something is amiss with the agent, or it begins anew: so do its histories.
Resets(a) ==
    /\ steady' = [steady EXCEPT ![a] = 0]
    /\ whole' = [whole EXCEPT ![a] = TRUE]

\* main: both addresses are looked up, and the first sample is due at once.
Start(a) ==
    /\ agent[a] = Off
    /\ Cardinality(reports[a]) < MaxReports
    /\ \E withIp \in BOOLEAN : \E found \in {FALSE, withIp} :
           agent' = [agent EXCEPT ![a] = [since |-> Cycle, ip |-> withIp,
                                          known |-> found, checked |-> 0]]
    /\ Resets(a)
    /\ UNCHANGED <<reports, latest, ip, detail, heard>>

Stop(a) ==
    /\ agent[a] # Off
    /\ agent' = [agent EXCEPT ![a] = Off]
    /\ Resets(a)
    /\ UNCHANGED <<reports, latest, ip, detail, heard>>

\* The external address is looked up again when it is old or missing.  When
\* no service answers, the cached one is gone, too.
LookedUp(g) ==
    IF g.ip /\ (g.checked >= Refresh \/ ~g.known)
    THEN {[g EXCEPT !.known = k, !.checked = 0] : k \in BOOLEAN}
    ELSE {g}

\* A plausible slip: a timer takes the samples, every second, on threads of their
\* own, and does not wait for the answer to the one before.
Collect_Unpaced(a) ==
    /\ agent[a] # Off
    /\ agent[a].since > 0
    /\ \E g \in LookedUp(agent[a]), skew \in Skews, disk \in BOOLEAN :
           /\ agent' = [agent EXCEPT ![a] = [g EXCEPT !.since = 0]]
           /\ reports' = [reports EXCEPT ![a] = @ \cup
                  {[made |-> 0, skew |-> skew, disk |-> disk, stage |-> "sent",
                    ext |-> IF g.known THEN g.checked ELSE None]}]
           /\ whole' = [whole EXCEPT ![a] = @ /\ disk]
    /\ UNCHANGED <<latest, ip, detail, heard, steady>>

\* report_once: collect, look up, post.  However long the post takes, the
\* next sample is taken interval_seconds after its end.
Collect(a) ==
    /\ agent[a] # Off
    /\ agent[a].since >= Interval
    /\ \E g \in LookedUp(agent[a]), skew \in Skews, disk \in BOOLEAN :
           /\ agent' = [agent EXCEPT ![a] = [g EXCEPT !.since = 0]]
           /\ reports' = [reports EXCEPT ![a] = @ \cup
                  {[made |-> 0, skew |-> skew, disk |-> disk, stage |-> "sent",
                    ext |-> IF g.known THEN g.checked ELSE None]}]
           /\ whole' = [whole EXCEPT ![a] = @ /\ disk]
    /\ UNCHANGED <<latest, ip, detail, heard, steady>>

\* The report goes on to the next transaction of its handler.
Advance(a, r, stage) ==
    reports' = [reports EXCEPT ![a] = (@ \ {r}) \cup {[r EXCEPT !.stage = stage]}]

\* A row with the same timestamp is replaced.
RowOf(r) == [age |-> r.made - r.skew, made |-> r.made]

\* A plausible slip: ORDER BY ts without DESC.
Newer_Ascending(row, old) == row.age >= old.age

Newer(row, old) == row.age <= old.age

\* A plausible slip: one row per agent, the greatest timestamp kept and the
\* values replaced.
InsertSample_OneRow(a, r) ==
    /\ r.stage = "sent"
    /\ latest' = [latest EXCEPT ![a] =
                     IF @ = None \/ Newer(RowOf(r), @) THEN RowOf(r)
                     ELSE [@ EXCEPT !.made = r.made]]
    /\ heard' = [heard EXCEPT ![a] = Min(@, r.made)]
    /\ Advance(a, r, "inserted")
    /\ UNCHANGED <<agent, ip, detail, steady, whole>>

\* api_metrics_report has accepted the report: the first transaction.
InsertSample(a, r) ==
    /\ r.stage = "sent"
    /\ latest' = [latest EXCEPT ![a] =
                     IF @ = None \/ Newer(RowOf(r), @) THEN RowOf(r) ELSE @]
    /\ heard' = [heard EXCEPT ![a] = Min(@, r.made)]
    /\ Advance(a, r, "inserted")
    /\ UNCHANGED <<agent, ip, detail, steady, whole>>

\* The second.  A missing address does not replace a stored one.
UpsertIp(a, r) ==
    /\ r.stage = "inserted"
    /\ ip' = [ip EXCEPT ![a] = IF r.ext = None THEN @ ELSE r.ext + r.made]
    /\ Advance(a, r, "located")
    /\ UNCHANGED <<agent, latest, detail, heard, steady, whole>>

\* A plausible slip: the list is stored once per agent (INSERT OR IGNORE).
UpsertDiskDetail_Once(a, r) ==
    /\ r.stage = "located"
    /\ detail' = [detail EXCEPT ![a] = IF r.disk /\ @ = None THEN r.made ELSE @]
    /\ reports' = [reports EXCEPT ![a] = @ \ {r}]
    /\ UNCHANGED <<agent, latest, ip, heard, steady, whole>>

\* The third, and the answer.  An empty list does not replace a stored one.
UpsertDiskDetail(a, r) ==
    /\ r.stage = "located"
    /\ detail' = [detail EXCEPT ![a] = IF r.disk THEN r.made ELSE @]
    /\ reports' = [reports EXCEPT ![a] = @ \ {r}]
    /\ UNCHANGED <<agent, latest, ip, heard, steady, whole>>

\* A report does not arrive, is refused, or ends between two transactions.
\* The agent does not send it again.
Lose(a, r) ==
    /\ reports' = [reports EXCEPT ![a] = @ \ {r}]
    /\ Resets(a)
    /\ UNCHANGED <<agent, latest, ip, detail, heard>>

\* A plausible slip: retention_days taken for seconds.
Expired_Seconds(row) == row # None /\ row.age > 1

Expired(row) == row # None /\ row.age > Retention

Prune ==
    /\ latest' = [a \in Agents |-> IF Expired(latest[a]) THEN None ELSE latest[a]]
    /\ UNCHANGED <<agent, reports, ip, detail, heard, steady, whole>>

\* Time passes up to the next sample that is due and the end of a report.
\* The age of a row that pruning removes no longer matters.
Tick ==
    /\ \A a \in Agents : agent[a] # Off => agent[a].since < Cycle
    /\ \A a \in Agents : \A r \in reports[a] : r.made < MaxRound
    /\ agent' = [a \in Agents |-> IF agent[a] = Off THEN Off
           ELSE [agent[a] EXCEPT !.since = @ + 1, !.checked = Min(@ + 1, Refresh)]]
    /\ reports' = [a \in Agents |-> {[r EXCEPT !.made = @ + 1] : r \in reports[a]}]
    /\ latest' = [a \in Agents |->
           IF latest[a] = None \/ Expired(latest[a]) THEN latest[a]
           ELSE [age |-> latest[a].age + 1, made |-> latest[a].made + 1]]
    /\ heard' = [a \in Agents |-> Min(heard[a] + 1, Old)]
    /\ steady' = [a \in Agents |-> IF agent[a] = Off THEN 0
                                   ELSE Min(steady[a] + 1, Window + 1)]
    /\ ip' = [a \in Agents |-> Older(ip[a], OldAddress)]
    /\ detail' = [a \in Agents |-> Older(detail[a], Old)]
    /\ UNCHANGED whole

Report(a, r) == \/ InsertSample(a, r) \/ UpsertIp(a, r)
                \/ UpsertDiskDetail(a, r) \/ Lose(a, r)

Next ==
    \/ \E a \in Agents : Start(a) \/ Stop(a) \/ Collect(a)
    \/ \E a \in Agents : \E r \in reports[a] : Report(a, r)
    \/ Prune
    \/ Tick

Spec == Init /\ [][Next]_vars

-----------------------------------------------------------------------------
\* list_active_panels, as the status page and the alert thread call it.
Listed(a) == latest[a] # None /\ latest[a].age <= Stale

\* The agents, their reports and the tables keep their shape; what the latest
\* row says of its age is off by no more than the clock that wrote it.
TypeOK ==
    /\ agent \in [Agents -> Running \cup {Off}]
    /\ \A a \in Agents : agent[a] # Off /\ agent[a].known => agent[a].ip
    /\ reports \in [Agents -> SUBSET Reports]
    /\ latest \in [Agents -> Rows \cup {None}]
    /\ ip \in [Agents -> 0..OldAddress \cup {None}]
    /\ detail \in [Agents -> 0..Old \cup {None}]
    /\ heard \in [Agents -> 0..Old]
    /\ steady \in [Agents -> 0..(Window + 1)]
    /\ whole \in [Agents -> BOOLEAN]

\* A clock that was set back, or reports that overtake each other, hide the
\* newest sample behind an older one by no more than the clock was off
\* (get_latest goes by the timestamps).
NewestIsShown ==
    \A a \in Agents : Listed(a) => latest[a].made <= heard[a] + Ahead + Behind

\* An agent that has run and got its reports through for one cycle and one
\* round is listed, and stays so whatever is pruned and however its clock
\* wavers within Ahead and Behind (TimesAssumption: slow by less than a window
\* short of AGENT_STALE_SECONDS): no card, and no alert, flickers while nothing
\* is wrong.
ReportingIsListed == \A a \in Agents : steady[a] > Window => Listed(a)

\* The sample and the mount points that a card, or the alert thread, puts
\* together are stored by two transactions with a third in between, of reports
\* that may end after the first, or overtake each other.  Mount points never
\* belong to a time after the sample beside them, but for what the clock was off;
\* and while every report gets through with a list they lag behind the sample
\* by a cycle at most (app.py:414-434, 345-360, 698-703).
CardHangsTogether ==
    \A a \in Agents :
        /\ Listed(a) /\ detail[a] # None
              => latest[a].made <= detail[a] + Ahead + Behind
        /\ whole[a] /\ steady[a] > Window
              => detail[a] # None /\ detail[a] <= latest[a].made + Cycle

NotOlder(new, old) == old = None \/ (new # None /\ new <= old)

\* Once an agent has run for longer than a report takes, its stored address and
\* mount points never give way to older ones: not to those of a report of the
\* process before, not to an address cached too long, not to nothing at all
\* because a lookup has failed or a list is empty (metrics_agent.py:127-163,
\* upsert_ip, upsert_disk_detail).
FactsMoveForward ==
    [][\A a \in Agents : steady[a] > MaxRound /\ ~Tick =>
          NotOlder(ip'[a], ip[a]) /\ NotOlder(detail'[a], detail[a])]_vars
=============================================================================
