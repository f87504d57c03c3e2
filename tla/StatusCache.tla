------------------------------ MODULE StatusCache ------------------------------
(***************************************************************************)
(* The status cache of app.py and everybody who touches it: /api/status,   *)
(* the alert thread, and the handlers that save config.yaml and then clear *)
(* the cache.                                                              *)
(*                                                                         *)
(* _cache is a plain dictionary of the process, with two entries that are  *)
(* read and written one at a time and without a lock; under gunicorn every *)
(* worker process has a cache of its own.  What a fetch returns is         *)
(* abstracted to the epoch it shows: the epoch advances when the panels    *)
(* change and when the settings do.  A fetch shows the epoch it started in *)
(* (it reads the list of panels first).                                    *)
(*                                                                         *)
(* Timestamps are kept as ages.  Time passes only while every thread that  *)
(* runs waits for the network: the few statements between a check and an   *)
(* answer, or between the two writes, take no second of their own.         *)
(***************************************************************************)
EXTENDS Integers

CONSTANTS
    Requests,   \* the threads that may serve /api/status at once
    Workers,    \* the worker processes
    Alerting,   \* those of them that run the alert thread
    TTL,        \* CACHE_TTL
    MaxFetch,   \* the longest a fetch takes, by the clients' timeouts
    MaxEpoch,   \* bound: changes of the panels and of the settings
    None,       \* no data
    Idle        \* a thread with nothing to do

ASSUME BoundsAssumption ==
    /\ TTL \in Nat \ {0} /\ MaxFetch \in Nat /\ MaxEpoch \in Nat
    /\ Alerting \subseteq Workers
    /\ None \notin Nat

Epochs == 0..MaxEpoch

\* How long ago something has to be so that its age no longer matters.
Old == TTL + MaxFetch + 1

VARIABLES
    epoch,    \* the settings and the panels as they are now
    ended,    \* history: how long ago each past epoch ended
    data, ts, \* _cache["data"], and the age of _cache["ts"], of each worker
    req,      \* the threads serving /api/status
    loop,     \* the alert thread of each worker
    saving,   \* workers with a handler between save_config and the clearing
    saved     \* history: the last save each worker has finished

vars == <<epoch, ended, data, ts, req, loop, saving, saved>>

\* A finished save: its epoch, and whether no fetch of the worker that had
\* started before it was still under way.
Saves == [epoch : Epochs, quiet : BOOLEAN]

Stages == {"arrived", "sawData", "hit", "fetching", "storing"}

\* A request remembers the last save finished before it arrived (history).
Serving == [stage : Stages, worker : Workers, age : 0..MaxFetch, shows : Epochs,
            after : Saves]

Looping == [stage : {"fetching", "storing"}, age : 0..MaxFetch, shows : Epochs]

Min(a, b) == IF a < b THEN a ELSE b

-----------------------------------------------------------------------------
Init ==
    /\ epoch = 0
    /\ ended = [e \in Epochs |-> 0]
    /\ data = [w \in Workers |-> None]
    /\ ts = [w \in Workers |-> TTL]
    /\ req = [r \in Requests |-> Idle]
    /\ loop = [w \in Workers |-> Idle]
    /\ saving = {}
    /\ saved = [w \in Workers |-> [epoch |-> 0, quiet |-> FALSE]]

At(r, s) == req[r] # Idle /\ req[r].stage = s

Goto(r, s) == req' = [req EXCEPT ![r].stage = s]

Answer(r) == req' = [req EXCEPT ![r] = Idle]

\* api_status: now = time.time().
Arrive(r, w) ==
    /\ req[r] = Idle
    /\ req' = [req EXCEPT ![r] = [stage |-> "arrived", worker |-> w, age |-> 0,
                                  shows |-> 0, after |-> saved[w]]]
    /\ UNCHANGED <<epoch, ended, data, ts, loop, saving, saved>>

\* The first half of the check: _cache["data"] is not None.
SeeData(r) ==
    /\ At(r, "arrived")
    /\ data[req[r].worker] # None
    /\ Goto(r, "sawData")
    /\ UNCHANGED <<epoch, ended, data, ts, loop, saving, saved>>

\* The second half: now - _cache["ts"] < CACHE_TTL.
SeeFresh(r) ==
    /\ At(r, "sawData")
    /\ ts[req[r].worker] < TTL
    /\ Goto(r, "hit")
    /\ UNCHANGED <<epoch, ended, data, ts, loop, saving, saved>>

\* A plausible slip: serving the cached data makes it young again.
AnswerCached_Slides(r) ==
    /\ At(r, "hit")
    /\ Answer(r)
    /\ ts' = [ts EXCEPT ![req[r].worker] = 0]
    /\ UNCHANGED <<epoch, ended, data, loop, saving, saved>>

\* The answer reads _cache["data"] once more.
AnswerCached(r) ==
    /\ At(r, "hit")
    /\ Answer(r)
    /\ UNCHANGED <<epoch, ended, data, ts, loop, saving, saved>>

\* Either half of the check fails: fetch_all.
BeginFetch(r) ==
    /\ \/ At(r, "arrived") /\ data[req[r].worker] = None
       \/ At(r, "sawData") /\ ts[req[r].worker] >= TTL
    /\ req' = [req EXCEPT ![r].stage = "fetching", ![r].shows = epoch]
    /\ UNCHANGED <<epoch, ended, data, ts, loop, saving, saved>>

\* A plausible slip: the result of a failed fetch is stored all the same.
FetchFails_Stores(r) ==
    /\ At(r, "fetching")
    /\ Answer(r)
    /\ data' = [data EXCEPT ![req[r].worker] = None]
    /\ ts' = [ts EXCEPT ![req[r].worker] = 0]
    /\ UNCHANGED <<epoch, ended, loop, saving, saved>>

\* config.yaml is missing or cannot be parsed: an error is answered.
FetchFails(r) ==
    /\ At(r, "fetching")
    /\ Answer(r)
    /\ UNCHANGED <<epoch, ended, data, ts, loop, saving, saved>>

StoreData(r) ==
    /\ At(r, "fetching")
    /\ data' = [data EXCEPT ![req[r].worker] = req[r].shows]
    /\ Goto(r, "storing")
    /\ UNCHANGED <<epoch, ended, ts, loop, saving, saved>>

\* _cache["ts"] becomes the time at which the request arrived; the fetched
\* data are answered.
StoreTime(r) ==
    /\ At(r, "storing")
    /\ ts' = [ts EXCEPT ![req[r].worker] = Min(req[r].age, TTL)]
    /\ Answer(r)
    /\ UNCHANGED <<epoch, ended, data, loop, saving, saved>>

-----------------------------------------------------------------------------
\* background_alert_loop: fetch, store, and only then look at the clock.
LoopFetch(w) ==
    /\ loop[w] = Idle
    /\ loop' = [loop EXCEPT ![w] = [stage |-> "fetching", age |-> 0, shows |-> epoch]]
    /\ UNCHANGED <<epoch, ended, data, ts, req, saving, saved>>

LoopStoreData(w) ==
    /\ loop[w] # Idle /\ loop[w].stage = "fetching"
    /\ data' = [data EXCEPT ![w] = loop[w].shows]
    /\ loop' = [loop EXCEPT ![w].stage = "storing"]
    /\ UNCHANGED <<epoch, ended, ts, req, saving, saved>>

LoopStoreTime(w) ==
    /\ loop[w] # Idle /\ loop[w].stage = "storing"
    /\ ts' = [ts EXCEPT ![w] = 0]
    /\ loop' = [loop EXCEPT ![w] = Idle]
    /\ UNCHANGED <<epoch, ended, data, req, saving, saved>>

\* The exception is swallowed; the thread sleeps and tries again.
LoopFails(w) ==
    /\ loop[w] # Idle /\ loop[w].stage = "fetching"
    /\ loop' = [loop EXCEPT ![w] = Idle]
    /\ UNCHANGED <<epoch, ended, data, ts, req, saving, saved>>

\* The panels change by themselves.
PanelsChange ==
    /\ epoch < MaxEpoch
    /\ epoch' = epoch + 1
    /\ UNCHANGED <<ended, data, ts, req, loop, saving, saved>>

\* api_save_config and the end of an agent's deployment: the file first ...
SaveConfig(w) ==
    /\ w \notin saving
    /\ epoch < MaxEpoch
    /\ epoch' = epoch + 1
    /\ saving' = saving \cup {w}
    /\ UNCHANGED <<ended, data, ts, req, loop, saved>>

\* Fetches of worker w that will store what they read before epoch e.
Overlapping(w, e) ==
    \/ \E r \in Requests : /\ req[r] # Idle
                           /\ req[r].worker = w
                           /\ req[r].stage \in {"fetching", "storing"}
                           /\ req[r].shows < e
    \/ loop[w] # Idle /\ loop[w].shows < e

NoteSave(w) ==
    /\ saving' = saving \ {w}
    /\ saved' = [saved EXCEPT ![w] = [epoch |-> epoch, quiet |-> ~Overlapping(w, epoch)]]

\* A plausible slip: a handler that saves the settings and clears nothing.
ClearCache_Forgotten(w) ==
    /\ w \in saving
    /\ NoteSave(w)
    /\ UNCHANGED <<epoch, ended, data, ts, req, loop>>

\* A plausible slip: the time is cleared to None as well.
ClearCache_Both(w) ==
    /\ w \in saving
    /\ data' = [data EXCEPT ![w] = None]
    /\ ts' = [ts EXCEPT ![w] = None]
    /\ NoteSave(w)
    /\ UNCHANGED <<epoch, ended, req, loop>>

\* ... then _cache["data"] = None, in the worker that has served the save.
ClearCache(w) ==
    /\ w \in saving
    /\ data' = [data EXCEPT ![w] = None]
    /\ NoteSave(w)
    /\ UNCHANGED <<epoch, ended, ts, req, loop>>

\* A second passes: every thread that runs is waiting for a panel's answer, and
\* none of them has waited for longer than its timeouts allow.
Tick ==
    /\ \A r \in Requests : req[r] # Idle =>
          req[r].stage = "fetching" /\ req[r].age < MaxFetch
    /\ \A w \in Workers : loop[w] # Idle =>
          loop[w].stage = "fetching" /\ loop[w].age < MaxFetch
    /\ ended' = [e \in Epochs |-> IF e < epoch THEN Min(ended[e] + 1, Old) ELSE 0]
    /\ ts' = [w \in Workers |-> Min(ts[w] + 1, TTL)]
    /\ req' = [r \in Requests |-> IF req[r] = Idle THEN Idle
                                  ELSE [req[r] EXCEPT !.age = @ + 1]]
    /\ loop' = [w \in Workers |-> IF loop[w] = Idle THEN Idle
                                  ELSE [loop[w] EXCEPT !.age = @ + 1]]
    /\ UNCHANGED <<epoch, data, saving, saved>>

Serve(r) ==
    \/ \E w \in Workers : Arrive(r, w)
    \/ SeeData(r)
    \/ SeeFresh(r)
    \/ AnswerCached(r)
    \/ BeginFetch(r)
    \/ FetchFails(r)
    \/ StoreData(r)
    \/ StoreTime(r)

Loop(w) == LoopFetch(w) \/ LoopStoreData(w) \/ LoopStoreTime(w) \/ LoopFails(w)

Next ==
    \/ \E r \in Requests : Serve(r)
    \/ \E w \in Alerting : Loop(w)
    \/ PanelsChange
    \/ \E w \in Workers : SaveConfig(w)
    \/ \E w \in Workers : ClearCache(w)
    \/ Tick

Spec == Init /\ [][Next]_vars

-----------------------------------------------------------------------------
\* The shape of the state.
TypeOK ==
    /\ epoch \in Epochs
    /\ ended \in [Epochs -> 0..Old]
    /\ data \in [Workers -> Epochs \cup {None}]
    /\ ts \in [Workers -> 0..TTL]
    /\ req \in [Requests -> Serving \cup {Idle}]
    /\ loop \in [Workers -> Looping \cup {Idle}]
    /\ saving \subseteq Workers
    /\ saved \in [Workers -> Saves]

\* Request r is answered with epoch e (or with None) in this step.
Serves(r, e) ==
    /\ req[r] # Idle
    /\ req'[r] = Idle
    /\ \/ req[r].stage = "hit" /\ e = data[req[r].worker]
       \/ req[r].stage = "storing" /\ e = req[r].shows

\* However fetches, the alert thread's stores and half-done stores interleave,
\* the dashboard never shows a state of the world that was over for longer than
\* one fetch and one CACHE_TTL.
ServesRecentState ==
    [][\A r \in Requests, e \in Epochs :
          Serves(r, e) /\ e < epoch => ended[e] < TTL + MaxFetch]_vars

\* A request that arrives after a save has been answered by the same worker,
\* with no older fetch under way then, is never served the old settings.
QuietSaveIsSeen ==
    [][\A r \in Requests, e \in Epochs :
          Serves(r, e) /\ req[r].after.quiet => e >= req[r].after.epoch]_vars

\* The check and the answer read the cache twice.  The second read can find it
\* cleared, but only by a save that is younger than the request.
NullOnlyAcrossSave ==
    [][\A r \in Requests :
          Serves(r, None) => saved[req[r].worker] # req[r].after]_vars

\* app.py:493 and SETUP.md:109: saving clears the cache, so the next
\* /api/status fetches anew instead of using old cached data.
SaveForcesRefetch ==
    [][\A r \in Requests, e \in Epochs :
          Serves(r, e) => e >= req[r].after.epoch]_vars
=============================================================================
