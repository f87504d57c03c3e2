# Nightcord-Panopticon: specifications and proofs

TLA+ modules for the dashboard in `src/` (a Flask program that watches BT
panels, receives reports of its own agents, shows both on one page and sends
alerts), the configurations that check them with TLC, and theorems about them
checked by TLAPS. File and line references are to the repository.

```
tlc -workers 2 -config LoginGuard.cfg MCLoginGuard     # one line per run below
tlapm LoginGuardProofs.tla
```

## 1. The system

The dashboard is one Python process (`python app.py`), or several workers of it
under gunicorn plus one such process for the alerts (SETUP.md:91-97). In a
process every HTTP request runs on a thread of its own; there are two background
threads. The state that outlives a request is in five places:

| Component | State | Operations | Shared with |
|---|---|---|---|
| Login and brute-force guard (`auth.py`, `app.py:129-286`) | `_fails`, `_lockouts`, two limits, in memory | `is_locked`, `record_failure`, `record_success`, assignment of the limits | every login thread; limits come from `config.yaml` |
| Alert thread (`app.py:679-713`) and `Notifier` (`notifier.py`) | `_active`, `_last_sent`, `cooldown`, in memory | a round: load, fetch, evaluate, notify, resolve | panels (network), `metrics.db`, `config.yaml` |
| Status cache (`app.py:46`, `378-389`, `685-686`, `493`, `600`) | `_cache["data"]`, `_cache["ts"]`, in memory, per process | check and answer, fetch and store, clear | `/api/status`, alert thread, settings page, deployment |
| `config.yaml` (`app.py:60-92`, `config_editor.py`, `agent_hosts.py`) | panels, login, passkeys, notification settings, agent secret, remembered hosts, session secret | read whole, change, write whole, from seven handlers | every component |
| `metrics.db` (`metrics_store.py`, `app.py:392-437`, `716-726`) | samples, addresses and mount points per agent | report (three transactions), queries, prune | agents, alert thread, status page |

Around them: `_merge_qingyuan` (`app.py:326-375`) joins agents and panels on one
card; `agent_deploy.py` and `_deploy_and_report` install an agent over SSH, with a
worker thread, a queue and a streamed answer; `webauthn_manager.py` wraps the
passkey ceremony, whose challenge lives in the session cookie;
`agent/metrics_agent.py` and `esxi_reporter/` are loops on other machines that post
samples; `bt_client.py` and `nightcord_status_client.py` read the panels;
`static/` is the browser side; `run.py` and the shell scripts start things.

What is hard in it:

* **Check, then act.** A login asks `is_locked` in one critical section and reports
  its outcome in another; `/api/status` checks the cache and reads it again;
  handlers read `config.yaml` and write it back seconds later.
* **Slow readers.** A fetch takes seconds and stores what it read before a save.
* **Abandoned rounds.** Any exception ends an alert round where it stands.
* **Memory only.** Lockouts and announced problems are forgotten by a restart.
* **Two clocks.** An agent stamps its samples, the dashboard judges their age.

What makes each component correct:

* guard: the number of guesses between two resets is bounded; a lockout is cut
  short for a reason, and ends;
* alerting: one message per episode of a problem, none lost by an abandoned round,
  a problem that stays is announced, one that is over is forgotten;
* cache: nothing shown is older than a stated bound, and a save is seen;
* configuration: no change is lost, no reader sees half a file, what a form does
  not show survives the form;
* metrics store: an agent counts as active only while it reports; what is shown
  of it belongs together.

`PROJECT.json` lists the hazards line by line with the properties that would notice.

## 2. Modules

| Module | Models | Extended by |
|---|---|---|
| `LoginGuard` | `auth.py`, the password and passkey login handlers | `MCLoginGuard`, `LoginGuardProofs` |
| `AlertRules` | what one look at a panel or an agent says is wrong: `collect_all`, `evaluate_alerts`, `evaluate_agent_alerts` | `AlertLoop` |
| `AlertLoop` | `background_alert_loop` with its `Notifier` | `MCAlertLoop`, `AlertLoopProofs` |
| `ProblemLifecycle` | the abstract life of one problem: clear, announced, cooling | instantiated by `AlertLoop` |
| `StatusCache` | `_cache` and all who touch it | `MCStatusCache`, `StatusCacheProofs` |
| `ConfigFile` | `config.yaml` and every handler that changes it, the start of the workers | `MCConfigFile`, `ConfigFileProofs` |
| `MetricsStore` | `metrics.db`, the agents (`agent/`, `esxi_reporter/`) and the queries for who is active | `MCMetricsStore`, `MetricsStoreProofs` |
| `AgentDeploy` | `agent_deploy.py`, `agent_hosts.py`, `_deploy_and_report` | `MCAgentDeploy`, `AgentDeployProofs` |
| `Settings` | `config_editor.py`, and the cards `fetch_all` and `_merge_qingyuan` make | `MCAdminTabs`, `SettingsProofs` |
| `Passkeys` | the session cookie, logins, logouts and passkey ceremonies from several tabs | `MCAdminTabs`, `PasskeysProofs` |

Each module keeps the code's names where it can. Operators whose names have a suffix
(`Refuse_Extends`, `Stamp_Always`, ...) are plausible slips of the operator named before the
underscore. No action uses them; they are there to show that the properties
can fail.

### LoginGuard

`fails` and `lockouts` are the guard's dictionaries, with 0 and `NoLockout` for a missing
entry; `guard` holds its two limits, `file` the limits in `config.yaml`. `lockouts` holds
the time that remains, since the code only compares `unlock_ts - time.time()`
with 0, so no clock has to be bounded. `req` is what each request thread is doing.

A login goes `Arrive` (load the configuration), `Refuse` or `Admit` (`is_locked`),
`SetMaxAttempts`, `SetLockoutSeconds` (two unlocked assignments), then `Fail`,
`PasswordLogin`, `SaveSignCount` followed by `PasskeyLogin`, or `Break` (an exception the guard
is not told of). The password handler and the passkey handler are the same up
to the verification, so one set of actions stands for both. A passkey login
writes back the whole configuration it has loaded, and with it the old limits:
that is `file' = req[r].limits`. `LoginOptions` is the options call, which only
matters to the guard when it drops an expired lockout. `SaveLimits`, `Tick` and
`Restart` are the settings page, time, and a new process.

### AlertRules and AlertLoop

Percentages and thresholds become the set of metrics at or over their threshold.
A panel's machine says which of the five API calls it answers, what is hot, and
whether its disk call answers with an error object in place of a list.
`CollectAll` and the two evaluations are pure operators on that.

A round is `Wake` (load the configuration), `Fetch` (reads the panel list a second time
and every panel; takes over the cooldown), `EvaluatePanel` in the order of the
configuration with `Notify` for each alert, `ListAgents`, `EvaluateAgent` for each active
agent, `Resolve`. `Abandon` and `DatabaseRaises` are the `except` clause: the first for what a round finds in
`config.yaml` and in the panels' answers, which fails it for as long as it lasts; the second for `metrics.db`, which may
raise or not whenever the round reads it, also after the panels' problems have been announced. Between any two of these the machines,
the agents' rows and the settings may change and time may pass; the settings
may also be unparsable for a while, or empty, as a reader finds them while
another thread writes the file. `Stamp` is the bookkeeping of `_should_send`. `since` is the
age of `_last_sent`, capped at `MostCooldown`. `absent` is a history variable: the problems
that some completed round has missed since their last message.

The order of alerts within one source is left open (the code's order is one of
those). Message texts and the two channels are left out: they change no state
and report nothing back, so a lost message leaves no trace (a limit of the
design, listed among the hazards). A Nightcord-Status source is, to this thread,
a panel that is never hot.

### StatusCache

What a fetch returns is abstracted to an `epoch`, which advances when the panels or the
settings change. A fetch shows the epoch in which it started: it reads the panel list
first and panels later, so this is the oldest state its result can show, and the
properties are bounds on how old that is. `data` and `ts` are separate, per worker process,
and every read and write of them is a step of its own. `ended` (how long ago each epoch
ended) and `saved` with the request's `after` (the last finished save when it arrived) are
history variables. Time passes only while every running thread waits for the
network; the few statements between a check and an answer take no time.

### ConfigFile

Every handler that changes `config.yaml` has the same three steps, and they are the
actions: `Load` (the whole file into a copy), `EmptyFile` (`open(CONFIG_PATH, "w")`, with the
change made to the copy just before), `WriteFile` (the text is flushed and the file closed). What differs is
the request: `saveForm` (`merge_submitted`), `register`, `delete` and `login` of a passkey, `deploy`
(`_ensure_metrics_agent_secret`), `remember` and `forget` of a host, `startup` (`ensure_session_secret`).
`Accepted` is whether the handler writes at all, `Changed` what it does to its copy; `Decline` ends a
handler that has nothing to write. A worker serves with the secret of its own copy (`Serve`),
or of its own making while there is no file (`StartUnconfigured`).

An emptied file loads as `{}`, so `EmptyConfig` is what a reader finds in the middle of a
write, and what a crash there leaves for good (`Crash` then takes it for the last
configuration). When two writes overlap, the first text written is
overwritten from the start by the second, and its end remains if it was longer:
`Garbled`, a text that does not parse. Whether it was longer is left open. That such a rest never parses,
and that a text is written in one piece (the files are smaller than a buffer), are
simplifications. A load that raises changes nothing and is not an action.

The fields of the form are abstracted to what it shows in clear (`edits`) and the secrets it may leave
blank (`keys`), the agents' section to its secret and whether the rest of it is there (`ready`); random tokens are numbered as they
are made. `_ensure_metrics_agent_secret` saves the file also where there is a secret, if the section is switched off
or lacks `retention_days` (as in config.example.yaml:43-46), and keeps that secret: `AgentsEnsured`.
`Changed` only says which of the changes (`MergeSubmitted`, `PasskeysChanged`, `AgentsEnsured`, `SessionEnsured`, `HostsChanged`) a request makes. `whole`, `behind` and `raced` are history: the configuration last written to
the end, whether another writer has come between, whether another has finished
since this one emptied the file.

### MetricsStore

`agent` is what each agent's process remembers, `reports` what it has posted and what has
not been answered, `latest`, `ip` and `detail` the three tables. A report is `Collect`
(`report_once`: the sample, the addresses, the post), then the handler's three transactions
`InsertSample`, `UpsertIp`, `UpsertDiskDetail`, between any two of which others come; `Lose` ends it
anywhere before its last (no answer, a refusal, a crash), and the agent does not send it again. An
agent waits `interval_seconds` after the end of a report, so one that is given up on by
the client and still being served can be overtaken by the next. `Prune` is the clean-up thread.

All times are ages. A row has two: `age` by its timestamp, `made` in fact; they differ by what
the agent's clock was fast or slow at that reading (`Skews`), which the agent may
find different at every sample. Only the row with the greatest timestamp is
kept, because `get_latest` and `list_active_panels` see no other. An address is kept as the time since it
was looked up, a list of mount points as the time since it was made; both grow older in the table.
`heard`, `steady` and `whole` are history variables: how long ago the newest stored sample was
taken, how long an agent has run without losing a report, and whether all of its reports meanwhile had mount points.

`TimesAssumption` says what the defaults satisfy with room to spare: reports take less
than the interval (8 s and 60 s), two intervals and what a clock may be slow are less than
`AGENT_STALE_SECONDS` (180 s), which is less than the retention (30 days). An agent whose clock is slower than that is never listed; the
assumption excludes it, and so nothing below is said of it.

### AgentDeploy

`Begin` is everything up to the start of the worker thread, for a first deployment
(`Deploy`) or again with the remembered password (`Redeploy`); `SaveSecret` writes `config.yaml`, from the copy it
loaded, where the section had no secret or was not `ready`: with the secret it has made up, or the one that was there. `Step` is the worker: the commands
of `deploy_agent` are grouped into `install`, which ends with the new files on the machine, and
`restart`, which makes the agent read them. `Fail` is any exception in a step, before or
after its effect. The generator is `Close` (the browser has gone), `Finish`, or, when
the machine is to be remembered, `LookForKey`, `CreateKey`, `WriteKey` of `_get_fernet`, and `Remember` or `BadKey`.
Of the queue only the sentinel is kept: log lines change nothing. `AgentRestarts` is systemd,
`Crash` the dashboard. `alone` is a history variable: no other deployment on that machine and no
other save of the secret since this one began. What loading and writing `config.yaml` in two steps
does to two handlers at once is in `ConfigFile`; here `save_host` and `delete_host` are one step. The status cache,
which a deployment clears at its end, is in `StatusCache`.

### Settings

`cfg` holds what the form shows; `Redacted` is the form as shown, `Acceptable` and `Merged` are the two
results of `merge_submitted`, and `Submit` sends a form one part of which is anything: edited, or
left from before somebody else's edit. `Blank` stands for an empty field and for the
hidden placeholder, which the code treats alike; a key missing from the file is modelled
by the default that every reader uses for it. The login, Feishu and e-mail sections
follow one rule and are one kind; the cooldown follows the rule of plain fields, the
thresholds that of `limits`. The sections without a form are carried over: that is in `ConfigFile`.

`Results` is the list of cards in `fetch_all`: the panels' results as they come in (`answered`), sorted
by `Sorted`, and Nightcord-Status. `Page` is `_merge_qingyuan` for some order of the agents (`turns`; the query
has no `ORDER BY`); its `own` gives every agent with a card of its own the place of that card. `Report` and `FallSilent` are what the metrics store makes of an agent.

Some things are true of the code that the properties therefore name, and do not hide. A hidden
key belongs to a panel's name: give a panel the name of another one, or swap two
names, and the keys stay with the names (`SavesWhatWasEdited` renames with a new
key only, and says that a new name with a hidden key is refused). A cleared text is not cleared: the old one stays, and a
cleared threshold becomes the built-in one (`ClearedFields`), where config_editor.py:7 says that only what is really filled in replaces the old value.
config_editor.py:7-8 says that no half-configured state is saved; that is so for panels and secrets, but an e-mail section
can be switched on without an `smtp_host` or a receiver (`NeverHalfConfigured` covers keys and secrets only).
Of two agents that belong on one card, the later displaces the earlier. Cards of agents
without a panel are appended in the order of a query without `ORDER BY` (app.py:346, 368), so their order is not determined.

### Passkeys

A tab takes a copy of the cookie along when it asks (`Ask`, `SendAnswer`); the handler, one action each,
changes the copy; `Receive` puts it back into the browser's `jar`. Flask sends the
cookie of a permanent session with every reply, changed or not, so a poll from before a
logout restores the session. `Sign` is the authenticator, which counts every use; `GiveUp` the user who closes
the dialogue. `left` and `clear` are history variables: nothing from before the last logout is
outstanding; no other tab has had the cookie set or changed the passkeys since this one asked for options.
Left out: lockouts (`LoginGuard`), overlapping writes of the file (`ConfigFile`), wrong passwords, the
RP id, which is set and taken together with the challenge, and authenticators that do not count.
Which request a page makes, and that the answer of the authenticator is posted only after the options have come,
is translated from login.html:98-135 and settings.html:261-301; cookie, browser and authenticator are external.

## 3. Runs

| Run | Bounds | Shows |
|---|---|---|
| `login_guard` | two addresses, two threads, limits (2 attempts, 4 s) and (3 attempts, 1 s) | `TypeOK`, `OverLimitIsLocked`, `GuessesBounded`, `LockoutCutForAReason`, `LockoutIsLimited`, `LockoutRunsOut` |
| `login_guard_early` | the same | violation of `LockoutHoldsUntilExpiry` |
| `alert_loop` | one panel in four states, one agent, cooldowns 1 and 2 | `TypeOK`, `OnceWhileSeen`, `ForgottenOnlyWhenAbsent`, `FollowsLifecycle`, `LastingProblemAnnounced`, `SolvedProblemForgotten` |
| `alert_items` | the same | violation of `OneItemDoesNotHideAnother` |
| `status_cache` | one worker with its alert thread, two requests, two changes, TTL 2, fetches of up to 2 | `TypeOK`, `ServesRecentState`, `QuietSaveIsSeen`, `NullOnlyAcrossSave` |
| `status_cache_stale` | the same | violation of `SaveForcesRefetch` |
| `config_file` | two threads, one worker, all nine kinds of handler, one value of each field, two tokens, a file as in the example (a metrics_agent section with a secret, switched off) or none | `TypeOK`, `WholeOrTorn`, `NoHalfForm`, `OthersKept`, `AloneIsAtomic` |
| `config_file_passkeys` | two threads, the form and a registration | violation of `SavingKeepsPasskeys` |
| `config_file_secret` | two workers starting | violation of `WorkersShareSecret` |
| `metrics_store` | one agent, interval 2, reports of up to 1, clock up to 1 fast or slow, stale after 5, retention 6 | `TypeOK`, `NewestIsShown`, `ReportingIsListed`, `CardHangsTogether`, `FactsMoveForward` |
| `agent_deploy` | two deployments on one machine, one panel to bind it to, two secrets; a metrics_agent section with or without a secret, ready or not | `TypeOK`, `RememberedDecrypts`, `ToldOkIsTrue`, `NameKept`, `EveryStreamEnds` |
| `admin_tabs` | up to two panels of two names, URLs and keys, one section, two agents; two tabs, two passkeys, three ceremonies | `SettingsTypeOK`, `NeverHalfConfigured`, `SavesWhatWasEdited`, `AgentsOnTheirCards`, `PageIsDetermined`, `PasskeysTypeOK`, `LogoutLasts`, `UndisturbedSucceeds` |

**login_guard.** The guard does not promise what one would first write down. With
two threads, `max_attempts` is exceeded: every thread may have passed the check
before the first failure is counted. What holds is `GuessesBounded`: failures counted
plus logins under way never exceed `MostAttempts - 1` plus the number of threads.
`OverLimitIsLocked` says that enough failures always lock, even with limits half written by one request
and used by another. `LockoutCutForAReason` says what can take more of a lockout away than time does: a
restart, a success of the same address let through before the lockout, or a failure of such a login, which puts
the length in force by then in its place (auth.py:37-38; here 4 s can become 1 s); nothing else. `LockoutRunsOut` says that a lockout ends although
failures in flight start it afresh, `LockoutIsLimited` how soon: what is left of it, and one more for each
login in flight (`LongestLock`), never grows while the address is locked and shrinks every second. Two addresses show that they do not disturb each other,
two threads every race of two logins, two pairs of limits every mixture. The
lockouts are 1 and 4 so that one outlasts several steps of the other.

**login_guard_early.** README.md:151-153 promises a 429 for every request of a locked
address until the window passes. TLC finds a login that was admitted before the
lockout, succeeds during it, and with `record_success` lifts it.

**alert_loop.** One panel is enough for each of the rules and for a round that is
abandoned at the panel before the agent is reached, or at the agents with the panel's problems announced; one agent gives the second
kind of key and staleness. Two cooldowns, one of them the default that goes with
an empty configuration, let it be edited in both directions. `OnceWhileSeen` is README.md:35,
"fires once when a problem starts, not on every check cycle", as an action property;
`FollowsLifecycle` is the refinement of `ProblemLifecycle`. The two liveness
properties are conditional: they are about a problem that lasts (or is over)
while, from some time on, no round is abandoned and the process is not restarted (`Settled`: nothing to be read makes
a round fail, and neither `Restart` nor `DatabaseRaises` takes a step that is not one of a round, too).
Without that premise they are false, and rightly so: a panel that keeps raising
keeps everything after it from being evaluated.

**alert_items.** bt_client.py:88 says that one failing item does not affect the others.
TLC finds a panel whose site list does not answer and whose busy CPU, read all
the same, is never announced.

**status_cache.** `ServesRecentState`: no answer shows a state that ended `TTL + MaxFetch` ago or
longer, however stores interleave. The bound is exact: with one less TLC finds a
violation. `QuietSaveIsSeen`: after a save with no fetch under way, the same worker never
serves the old settings. `NullOnlyAcrossSave`: the answer `null` needs a save between the two reads.
Two requests give a slow and a fast fetch, the alert thread a third. A save in another worker, which clears
nothing here, is to this worker a change like `PanelsChange`. Two changes
are enough to tell older from newest with one in between.

**status_cache_stale.** The comment at app.py:493 says that a save forces the next request to fetch.
TLC finds a fetch that was under way and stores the old panels after the clearing.

**config_file.** Handlers may lose each other's changes, so the run asks what is
left that can be relied on. `WholeOrTorn`: a load finds the configuration last written to the
end, the empty one only while somebody is writing, and anything else only after two
writes have overlapped. `NoHalfForm`: a form whose secrets were left blank is never saved
without them, although it may have been merged into a file that was empty at that moment.
`OthersKept`: a handler nobody has come between changes its own section and no other, and
`AloneIsAtomic`: it has the effect of a single step, with its guard and its change taken of the
configuration as it is when the handler ends. Two
threads and a starting worker make every pair of handlers, and every handler with a worker's start in it;
one value of each field tells present from absent, which is all the properties look at.

**config_file_passkeys.** config_editor.py:106-107 says that saving the settings must not lose registered
passkeys. TLC finds a registration that is finished between the load and the write
of the form.

**config_file_secret.** app.py:79-83 says that all workers read the same session secret. TLC finds two workers
that start together, each making one up.

**metrics_store.** `NewestIsShown`: an older sample hides a newer one by no more than
the clock was off. `ReportingIsListed`: an agent whose reports get through is
active from `Window` seconds (one interval and two reports) after its start, however its clock wavers within
`Ahead` and `Behind` and whatever is pruned: no card, and no alert, flickers. `CardHangsTogether`: the sample and the mount
points that a card or an alert puts together are stored by two transactions of reports that may overtake each other or
end in between; the mount points are never of a later time than the sample, but for what the clock was off, and no more than
one cycle older while every report gets through with a list. `FactsMoveForward`: of an agent that has run for longer than a
report takes, neither a stored address nor the mount points give way to older ones, or to none when a lookup fails or a list is empty.
(Before that, a report of the process before may still bring back what it knew.)
One agent is enough, since agents share no row; a report may take as long as half an interval,
so that reports overtake each other, and an agent may be restarted while its last
reports are under way. Stale and retention are the least the assumption allows, so
that the bounds are met.

**agent_deploy.** `RememberedDecrypts`: no password is remembered under a key that is not, or no
longer, the one in the file, when two deployments make the first key at once or the
dashboard goes down in between. (An empty key file does stay for good: then nothing can
be remembered any more, which the property allows.) `ToldOkIsTrue`: when the last line says that all
went well, and no other deployment has come between, the *running* agent has the new
name and secret, the secret is the one the dashboard expects, and the machine is
remembered if that was asked for. With another one between, none of this holds: two
first deployments each make up a secret, and the later save wins. `NameKept`: a machine deployed
again keeps its name (app.py:663-664). `EveryStreamEnds`: the browser is not left waiting, unless the
machine hangs in a step for good. Two deployments on one machine make
every race there is for the secret, the key file and the machine itself.

**admin_tabs.** Two modules without common state, so one moves while the other is still in its
initial state; checking both in one run loses nothing. `NeverHalfConfigured` is config_editor.py:7-8 for keys and secrets: no
form, however stale, leaves a panel without its key or a section switched on without its
secret. `SavesWhatWasEdited` is config_editor.py:5-8: any one edit of the form as shown that fills something in, removes, adds or
reorders panels or throws a switch is, saved, the same edit of the file, whatever stays hidden; one that leaves a panel incomplete is
refused; and what is cleared is not (`ClearedFields`). `AgentsOnTheirCards` is app.py:328-337 for every order of answers and agents:
an agent is on a card of its name, else at its address, else on its own, or displaced by one that belongs
there too. `PageIsDetermined`: apart from panels of the same name, the page does not
depend on which panel answered first; and where no agent is displaced, the order of the agents decides nothing but the order of the
cards of their own. Two panels, one with a URL that has no host name, one agent with
a panel's name and one without, and a Nightcord-Status result at one of the addresses make every pair of rules meet.
`LogoutLasts` and `UndisturbedSucceeds` say what two tabs that share a cookie may still rely on: a
logout lasts unless an older request was under way during it, and a ceremony succeeds if
no other tab's reply or change has come between. Three ceremonies let two tabs overlap and one of
them start over; two uses let a count be behind.

### Bounds

`MaxSecrets` and `MaxCount` bound the tokens made and the logins of a passkey in `ConfigFile`.
`MaxSecrets` bounds the secrets `AgentDeploy` makes up, `MaxReports` the reports of one agent that are under way
when it is restarted in `MetricsStore`, `PanelLists` the lists submitted in `Settings`, `MaxChallenges` and
`MaxUses` the ceremonies begun and the uses of a credential in `Passkeys`.
In `MetricsStore` no time passes while a sample is due or a report is at its limit, as `Interval` and
`MaxRound` mean just that; `Old` caps ages beyond the retention.
`MostAttempts`, `MostSeconds`, `LeastCooldown` and `MostCooldown` are not bounds of the model but parameters of
its properties, and the proofs are for all their values. `MaxEpoch` bounds the changes in
`StatusCache`; `TTL` and `MaxFetch` stand for 10 s and the clients' timeouts. `Old`, `OldAddress` and `MostCooldown` cap
ages that no guard tells apart beyond them, and no stored fact is older when it is stored. `fails` needs no cap: `GuessesBounded` bounds it.

### Fairness

`LoginGuard`: time passes (`WF(Tick)`). Nothing is assumed of clients, who may never come back.
`AlertLoop`: the thread goes on (`WF(Round)`), because its loop has no exit, catches every exception
and calls only functions with timeouts; time passes (`WF(Tick)`). Nothing is assumed
of machines, agents, the database, or whoever edits the settings. `AgentDeploy`: a deployment's worker and
generator go on (`WF(GoesOn(d))`), because they are threads that wait for nothing but the machine and each
other, except that the machine may stop answering in any step: SFTP transfers, `sudo tee` and the wait for an exit
status have no timeout (agent_deploy.py:75, 150, 223). Of the steps nothing is assumed, and `EveryStreamEnds` excludes a
deployment that stays in a step. The browser is taken to read what it is sent, or to go away. The other modules state no liveness.

### Deadlock

Checked in all runs: a request may always arrive, time may always pass, and the
machine may always go down.

## 4. Proofs

The eight proof modules prove for every value of the constants, under
the named assumptions of the modules (attempts are positive and bounded by `MostAttempts`, lockouts by `MostSeconds`; there
are finitely many request threads; cooldowns are between `LeastCooldown` and `MostCooldown`; the agents' states
are closed under falling silent; `CACHE_TTL` is positive; a first `config.yaml` with a form has
its secrets; `TimesAssumption` of `MetricsStore`, above; the lists submitted are lists of inputs, the Nightcord-Status cards a list; the markers are none of the values they stand beside):

| Theorem | Statement | Argument |
|---|---|---|
| `LoginGuardProofs!TypeCorrect` | `Spec => []TypeOK` | inductive by itself |
| `OverLimitAlwaysLocked` | `Spec => []OverLimitIsLocked` | inductive with `TypeOK`: `guard.attempts <= MostAttempts` whoever wrote it last |
| `GuessesAlwaysBounded` | `Spec => []GuessesBounded` | needs `OverLimitIsLocked`: an address is admitted only without a running lockout, hence with fewer than `MostAttempts` failures; a failure removes its own request from `Admitted`, so the sum does not grow; the case of an admission is a count of threads |
| `LockoutCut` | `Spec => LockoutCutForAReason` | action by action, from `TypeOK`: whoever set `guard.seconds` last, it is a length some configuration had (`LockoutLengths`) |
| `LockoutAlwaysLimited` | `Spec => LockoutIsLimited` | a failure that starts a lockout afresh uses up a login let through before (`AnswerFreesPlace`), none is let through during it (`AdmittedShrinks`), so a full lockout is traded for at most a full one; whatever else happens leaves the lockout or ends it (`LeftKept`). This is the safety half of `LockoutRunsOut`: the quantity time cannot run down for ever |
| `AlertLoopProofs!TypeCorrect` | `Spec => []TypeOK` | inductive; `Keys` is closed under evaluation |
| `SentOnceWhileSeen` | `Spec => OnceWhileSeen` | invariant `AlwaysSilentWasAbsent`: every key not in `active` is in `absent` |
| `NothingForgottenEarly` | `Spec => ForgottenOnlyWhenAbsent` | `Resolve` lets go only of keys not in `seen` |
| `ImplementsLifecycle` | `Spec => FollowsLifecycle` | every action maps to a step or a stutter of `ProblemLifecycle` under the mapping in `AlertLoop` |
| `StatusCacheProofs!TypeCorrect` | `Spec => []TypeOK` | inductive by itself |
| `RecentStateServed` | `Spec => ServesRecentState` | two invariants. `NotLongOver`: what a fetch shows ended no earlier than the fetch began. `CacheNotLongOver`: what is in the cache ended at most `MaxFetch` before the cache's time stamp; while a store is half done, at most `MaxFetch` ago, whoever's data those are; at a hit, less than `MaxFetch + TTL` ago |
| `QuietSaveSeen` | `Spec => QuietSaveIsSeen` | invariant `SavesSeen`: after a quiet save, the cache and every fetch that can reach it show the save; each action keeps that for every save (`ShownSinceKept`), because a new fetch shows the present |
| `NullNeedsASave` | `Spec => NullOnlyAcrossSave` | invariant `ClearedBySave`: the saves of a worker have growing epochs, and a request past the check with an empty cache is older than its worker's last save |
| `ConfigFileProofs!TypeCorrect` | `Spec => []TypeOK` | inductive; a change makes a configuration of a configuration |
| `FileIsWholeOrTorn` | `Spec => []WholeOrTorn` | with `NotRaced`: a handler that has only loaded counts as unraced, so by emptying the file it makes it `Torn`; whoever finishes a write makes it whole or garbled |
| `FormNeverHalf` | `Spec => []NoHalfForm` | invariant `FormInv`: the file, what was last written and every copy under way are complete; the empty configuration is |
| `AloneAlwaysAtomic` | `Spec => AloneIsAtomic` | invariant `QuietInv`: the copy of a handler nobody has come between equals `whole`, or once it is changed what the request makes of `whole`, and nobody has raced with it |
| `OthersAlwaysKept` | `Spec => OthersKept` | from the same invariant, with the lemma that a change stays in its section (`ChangedIsLocal`) |
| `MetricsStoreProofs!TypeCorrect` | `Spec => []TypeOK` | inductive by itself; it holds that a row's two ages differ by a skew |
| `NewestAlwaysShown` | `Spec => []NewestIsShown` | invariant `RowKeepsUp`: the latest row's timestamp is no older than the newest stored sample and what a clock may be slow |
| `ReportingAlwaysListed` | `Spec => []ReportingIsListed` | with `InTime`: of an agent without trouble, the last sample is stored or on its way, and the one before it is stored; so one was stored within `Window`, and `RowKeepsUp` and `TimesAssumption` do the rest |
| `CardAlwaysHangsTogether` | `Spec => []CardHangsTogether` | invariant `FactsInOrder`: the stored list is no newer than the newest stored sample (`SampleFirst`), nothing stored or under way is younger than the agent's last sample and lookup (`InOrder`), and the list read with the sample before the last is stored by then (`ListInTime`) |
| `FactsAlwaysForward` | `Spec => FactsMoveForward` | from the same invariant: an agent that has run longer than a report takes has one report under way at most, that of its last sample, with an address no older than the stored one |
| `AgentDeployProofs!TypeCorrect` | `Spec => []TypeOK` | inductive by itself |
| `RememberedAlwaysDecrypts` | `Spec => []RememberedDecrypts` | invariant `KeyInv`: while somebody creates or writes the key it is `Empty` and nobody has been remembered; once it is a key it never changes; copies of `config.yaml` under way hold hosts under that key only |
| `ToldOkAlwaysTrue` | `Spec => ToldOkIsTrue` | invariant `AloneInv`: how far a deployment that is alone has got is what the machine and the secret in the file show |
| `NameAlwaysKept` | `Spec => NameKept` | the same invariant, for the name |
| `SettingsTypeCorrect` | `SettingsSpec => []SettingsTypeOK` | with the next one: that a key is found is what makes a merged panel well formed |
| `AlwaysConfigured` | `SettingsSpec => []NeverHalfConfigured` | a form is saved only if `Acceptable`, and `Merged` then finds the same keys |
| `EditsAlwaysSaved` | `SettingsSpec => []SavesWhatWasEdited` | a form that stands, part by part, for the parts of a configuration stands for that configuration (`PartByPart`); the form as shown stands for the file, because the last panel of a name is the only one (`KeyNamedIsOwn`) and has its key; each kind of edit changes one part, or adds, removes or moves one |
| `AgentsAlwaysOnTheirCards` | `SettingsSpec => []AgentsOnTheirCards` | an order as `Sorted` picks it exists (`SortedIsInOrder`): each panel stands at the place after the number of those before it; so every panel has a card, and `PageIs` says which agent each card takes |
| `PageAlwaysDetermined` | `SettingsSpec => []PageIsDetermined` | panels with names of their own are sorted into the order of the file (`SortedIsFileOrder`); there are as many cards taken as agents, so no two agents share one (`OneEach`), and each card shows the agent whose card it is, whatever the order (`PageFixed`) |
| `PasskeysTypeCorrect` | `PasskeysSpec => []PasskeysTypeOK` | inductive by itself |
| `LogoutAlwaysLasts` | `PasskeysSpec => []LogoutLasts` | invariant `LogoutInv`: after such a logout, the cookies under way are not logged in either, unless from a login |
| `UndisturbedAlwaysSucceeds` | `PasskeysSpec => UndisturbedSucceeds` | invariant `CeremonyInv`: as long as a ceremony is undisturbed, its challenge is in the jar or in its own copy, and the count it brings is ahead of the one stored |

The orders in `SettingsProofs` are made and compared by counting (`TotalOrder`, `InPlace`, `OneEach`), not by
induction over the list: a total order on finitely many panels puts each of them at the place after
the number of its predecessors, and a map between two sets of the same size that misses nothing is one
to one. For that, `InvPage` adds to the inductive invariant that the agents listed are finitely many.

Only model-checked: the liveness properties `LockoutRunsOut`, `LastingProblemAnnounced`,
`SolvedProblemForgotten` and `EveryStreamEnds`, since TLAPS 1.4.5 has no proof rules for `ENABLED` and fairness. Every
safety property of a passing run, invariant or action property, is proved.

## 5. Not modelled

Could still be done:

1. A composed module in which `StatusCache`, `AlertLoop` and `AgentDeploy` share one `ConfigFile`: now
   each takes what a reader can find there as its input.
2. What handlers of `ConfigFile` that do overlap lose, as an abstract store with snapshots: `AloneIsAtomic`
   says that the others are single steps.
3. Which of two cooldowns, or of two thresholds, decides in a round between whose two reads of `config.yaml` it was saved.
4. Handlers of `Passkeys` that overlap each other; only their writes to the file do, in `ConfigFile`.
5. The ESXi reporter's round over several hosts, of which one that does not answer delays the next: to
   `MetricsStore` each host is an agent whose interval is that of the round.

Left out for good: rendering and styling in `static/` (of the pages' code only the order of requests is translated, in `Passkeys`), the charts' history query, which only
reads, message formats, the output of remote commands and SMTP details, the cryptography of WebAuthn and Fernet, what
psutil and the ESXi API measure, and `run.py`, `gen_password_hash.py` and the shell scripts: sequential input and output without
state that anything else relies on.
