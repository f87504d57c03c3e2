------------------------------ MODULE ConfigFile ------------------------------
(***************************************************************************)
(* config.yaml and all who change it.                                      *)
(*                                                                         *)
(* Every handler that changes a section loads the whole file, changes its  *)
(* copy and writes the whole copy back: open(..., "w") empties the file,   *)
(* the closing of it puts the new text there.  Nothing locks the file.     *)
(* What two such handlers do to each other, and what a reader finds        *)
(* between the two steps of a write (an empty file loads as {}), is what   *)
(* this module is about.                                                   *)
(*                                                                         *)
(* A load that raises (file missing or unparsable) ends its handler with   *)
(* an error and changes nothing, so it is not an action.                   *)
(***************************************************************************)
EXTENDS Naturals

CONSTANTS
    Threads,    \* request threads that may change the configuration
    Workers,    \* worker processes, which sign sessions
    Edits,      \* what the settings form shows in clear
    Keys,       \* the secrets it asks for: API keys, password, webhook, ...
    Blank,      \* those fields left as they were shown
    Passkeys, Hosts,
    Requests,   \* the changes that may be asked for
    FirstFiles, \* what config.yaml may be at first
    None, Missing, Garbled, Idle,
    MaxSecrets, \* bound: random tokens made up
    MaxCount    \* bound: logins of one passkey

FormRequests    == [kind : {"saveForm"}, edits : Edits, keys : Keys \cup {Blank}]
PasskeyRequests == [kind : {"register", "delete", "login"}, passkey : Passkeys]
HostRequests    == [kind : {"remember", "forget"}, host : Hosts]
Deploy  == [kind |-> "deploy"]    \* the first half of a deployment
Startup == [kind |-> "startup"]   \* ensure_session_secret

\* Random tokens, numbered as they are made up; 0: one the file had at first.
Secrets == 0..MaxSecrets

\* The sections of the file.  (panels, notifications and the login's own fields
\* are edited together by the form.)
Forms == [edits : Edits \cup {None}, keys : Keys \cup {None}]

\* metrics_agent.  ready: it is enabled and says how long samples are kept.
Agents == [secret : Secrets \cup {None}, ready : BOOLEAN]

Configs == [form     : Forms,
            passkeys : [Passkeys -> 0..MaxCount \cup {None}],
            session  : Secrets \cup {None},
            agents   : Agents,
            hosts    : SUBSET Hosts]

\* What an empty file loads as.
EmptyConfig == [form     |-> [edits |-> None, keys |-> None],
                passkeys |-> [p \in Passkeys |-> None],
                session  |-> None,
                agents   |-> [secret |-> None, ready |-> FALSE],
                hosts    |-> {}]

\* A handler under way.  behind (history): another one has begun or ended a
\* write since this one loaded, or it loaded from a file being written.
\* raced: another one has ended a write since this one emptied the file.
Jobs == [stage   : {"loaded", "emptied"},
         request : Requests \cup {Startup},
         cfg     : Configs,
         behind  : BOOLEAN,
         raced   : BOOLEAN]

ASSUME RequestsAssumption ==
    Requests \subseteq FormRequests \cup PasskeyRequests \cup HostRequests \cup {Deploy}

ASSUME FirstFilesAssumption ==
    /\ FirstFiles \subseteq Configs \cup {Missing}
    /\ \A c \in FirstFiles \ {Missing} : c.form.edits # None => c.form.keys # None

ASSUME MarkersAssumption ==
    /\ None \notin Nat \cup Keys \cup Edits
    /\ Blank \notin Keys
    /\ Missing \notin Configs /\ Garbled \notin Configs /\ Missing # Garbled
    /\ Idle \notin Jobs
    /\ Threads \cap Workers = {}

ASSUME BoundsAssumption == MaxSecrets \in Nat /\ MaxCount \in Nat

Actors == Threads \cup Workers

VARIABLES
    file,    \* config.yaml
    whole,   \* history: the configuration last written to the end
    job,     \* what each thread, or worker starting up, is doing
    secret,  \* app.secret_key of each worker, None while it is not running
    minted   \* random tokens made up so far

vars == <<file, whole, job, secret, minted>>

-----------------------------------------------------------------------------
\* A plausible slip: the merged dashboard_auth is built from the form alone.
MergeSubmitted_DropsPasskeys(c, r) ==
    [c EXCEPT !.form = [edits |-> r.edits,
                        keys  |-> IF r.keys = Blank THEN c.form.keys ELSE r.keys],
              !.passkeys = [p \in Passkeys |-> None]]

\* merge_submitted: a secret left blank keeps its value; sections the form does
\* not show are carried over.
MergeSubmitted(c, r) ==
    [c EXCEPT !.form = [edits |-> r.edits,
                        keys  |-> IF r.keys = Blank THEN c.form.keys ELSE r.keys]]

\* There is nothing _ensure_metrics_agent_secret would have to add.
Deployable(c) == c.agents.ready /\ c.agents.secret # None

\* A plausible slip: a missing secret is no error.
Accepted_NoErrors(c, r) ==
    CASE r.kind \in {"delete", "login"} -> c.passkeys[r.passkey] # None
      [] r.kind = "deploy"   -> ~Deployable(c)
      [] r.kind = "startup"  -> c.session = None
      [] OTHER -> TRUE

\* Whether the handler, having loaded c, goes on to write: a form that relies
\* on secrets the file does not have and an unknown passkey are errors; a session
\* secret, or a metrics_agent section, that is there needs no write.
Accepted(c, r) ==
    CASE r.kind = "saveForm" -> r.keys = Blank => c.form.keys # None
      [] r.kind \in {"delete", "login"} -> c.passkeys[r.passkey] # None
      [] r.kind = "deploy"   -> ~Deployable(c)
      [] r.kind = "startup"  -> c.session = None
      [] OTHER -> TRUE

\* What the passkey handlers make of their section; sign counts go up.
PasskeysChanged(c, r) ==
    [c EXCEPT !.passkeys[r.passkey] =
        CASE r.kind = "register" -> 0
          [] r.kind = "delete"   -> None
          [] r.kind = "login"    -> IF @ < MaxCount THEN @ + 1 ELSE @]

\* _ensure_metrics_agent_secret: what is missing is filled in; a secret that is
\* there stays, also one typed in where the section was switched off.
AgentsEnsured(c, t) ==
    [c EXCEPT !.agents = [secret |-> IF @.secret = None THEN t ELSE @.secret,
                          ready  |-> TRUE]]

\* ensure_session_secret.
SessionEnsured(c, t) == [c EXCEPT !.session = t]

\* save_host and delete_host.
HostsChanged(c, r) ==
    [c EXCEPT !.hosts = IF r.kind = "remember" THEN @ \cup {r.host} ELSE @ \ {r.host}]

\* The copy after the change; t is a new random token.
Changed(c, r, t) ==
    CASE r.kind = "saveForm" -> MergeSubmitted(c, r)
      [] r.kind \in {"register", "delete", "login"} -> PasskeysChanged(c, r)
      [] r.kind = "deploy"   -> AgentsEnsured(c, t)
      [] r.kind = "startup"  -> SessionEnsured(c, t)
      [] r.kind \in {"remember", "forget"} -> HostsChanged(c, r)

\* Whether the change of c needs a random token.
Mints(c, r) == r.kind = "startup" \/ (r.kind = "deploy" /\ c.agents.secret = None)

\* What may be made up for it.
Tokens(c, r) == IF Mints(c, r) THEN Secrets ELSE {None}

\* Some of the handlers start from nothing where there is no file.
Loadable(r) ==
    \/ file \in Configs
    \/ file = Missing /\ r.kind \in {"saveForm", "remember", "forget"}

At(a, s) == job[a] # Idle /\ job[a].stage = s

\* Somebody has emptied the file and not written it yet.
Torn == \E a \in Actors : At(a, "emptied") /\ ~job[a].raced

Running == \E w \in Workers : secret[w] # None

-----------------------------------------------------------------------------
Init ==
    /\ file \in FirstFiles
    /\ whole = IF file = Missing THEN EmptyConfig ELSE file
    /\ job = [a \in Actors |-> Idle]
    /\ secret = [w \in Workers |-> None]
    /\ minted = 0

\* A plausible slip: no "or {}" behind the load.
Loaded_NoDefault(r) ==
    [stage |-> "loaded", request |-> r, cfg |-> file,
     behind |-> Torn, raced |-> FALSE]

\* What load_config, or the handler where there is no file, starts from.
Loaded(r) ==
    [stage |-> "loaded", request |-> r,
     cfg |-> IF file = Missing THEN EmptyConfig ELSE file,
     behind |-> Torn, raced |-> FALSE]

\* A handler begins: it loads the file.  (An authenticator makes no credential
\* twice.)
Load(t, r) ==
    /\ Running
    /\ job[t] = Idle
    /\ Loadable(r)
    /\ r.kind = "register" => whole.passkeys[r.passkey] = None
    /\ job' = [job EXCEPT ![t] = Loaded(r)]
    /\ UNCHANGED <<file, whole, secret, minted>>

\* A worker starts: ensure_session_secret loads the file ...
Start(w) ==
    /\ secret[w] = None
    /\ job[w] = Idle
    /\ Loadable(Startup)
    /\ job' = [job EXCEPT ![w] = Loaded(Startup)]
    /\ UNCHANGED <<file, whole, secret, minted>>

\* ... or makes do with a secret of its own while there is none.
StartUnconfigured(w) ==
    /\ secret[w] = None
    /\ job[w] = Idle
    /\ file = Missing
    /\ minted < MaxSecrets
    /\ minted' = minted + 1
    /\ secret' = [secret EXCEPT ![w] = minted + 1]
    /\ UNCHANGED <<file, whole, job>>

\* A worker whose job is done signs sessions with the secret of its copy.
Serve(a) ==
    IF a \in Workers THEN secret' = [secret EXCEPT ![a] = job[a].cfg.session]
                     ELSE UNCHANGED secret

\* A plausible slip: the file is opened for writing before the copy is checked.
Decline_Opened(a) ==
    /\ At(a, "loaded")
    /\ ~Accepted(job[a].cfg, job[a].request)
    /\ job' = [job EXCEPT ![a] = Idle]
    /\ Serve(a)
    /\ file' = EmptyConfig
    /\ UNCHANGED <<whole, minted>>

\* Nothing to be written.
Decline(a) ==
    /\ At(a, "loaded")
    /\ ~Accepted(job[a].cfg, job[a].request)
    /\ job' = [job EXCEPT ![a] = Idle]
    /\ Serve(a)
    /\ UNCHANGED <<file, whole, minted>>

\* A plausible slip: the file is opened for writing and loaded only then.
EmptyFile_LoadsLate(a) ==
    /\ At(a, "loaded")
    /\ Accepted(job[a].cfg, job[a].request)
    /\ Mints(EmptyConfig, job[a].request) => minted < MaxSecrets
    /\ minted' = IF Mints(EmptyConfig, job[a].request) THEN minted + 1 ELSE minted
    /\ file' = EmptyConfig
    /\ job' = [b \in Actors |->
                 IF b = a THEN [job[a] EXCEPT !.stage = "emptied",
                                  !.cfg = Changed(EmptyConfig, job[a].request, minted + 1)]
                 ELSE IF job[b] = Idle THEN Idle
                 ELSE [job[b] EXCEPT !.behind = TRUE, !.raced = FALSE]]
    /\ UNCHANGED <<whole, secret>>

\* save_config, first half: open(CONFIG_PATH, "w").
EmptyFile(a) ==
    /\ At(a, "loaded")
    /\ Accepted(job[a].cfg, job[a].request)
    /\ Mints(job[a].cfg, job[a].request) => minted < MaxSecrets
    /\ minted' = IF Mints(job[a].cfg, job[a].request) THEN minted + 1 ELSE minted
    /\ file' = EmptyConfig
    /\ job' = [b \in Actors |->
                 IF b = a THEN [job[a] EXCEPT !.stage = "emptied",
                                  !.cfg = Changed(@, job[a].request, minted + 1)]
                 ELSE IF job[b] = Idle THEN Idle
                 ELSE [job[b] EXCEPT !.behind = TRUE, !.raced = FALSE]]
    /\ UNCHANGED <<whole, secret>>

\* Second half: the text is flushed and the file closed.  Over a longer text
\* that another writer has put there meanwhile, the end of that text remains.
WriteFile(a) ==
    /\ At(a, "emptied")
    /\ \/ file' = job[a].cfg /\ whole' = job[a].cfg
       \/ job[a].raced /\ file' = Garbled /\ UNCHANGED whole
    /\ job' = [b \in Actors |->
                 IF b = a \/ job[b] = Idle THEN Idle
                 ELSE [job[b] EXCEPT !.behind = TRUE, !.raced = (@ \/ job[b].stage = "emptied")]]
    /\ Serve(a)
    /\ UNCHANGED minted

\* The machine goes down, with a handler at any point.
Crash ==
    /\ job' = [a \in Actors |-> Idle]
    /\ secret' = [w \in Workers |-> None]
    /\ whole' = IF file \in Configs THEN file ELSE whole
    /\ UNCHANGED <<file, minted>>

Next ==
    \/ \E t \in Threads, r \in Requests : Load(t, r)
    \/ \E w \in Workers : Start(w)
    \/ \E w \in Workers : StartUnconfigured(w)
    \/ \E a \in Actors : Decline(a)
    \/ \E a \in Actors : EmptyFile(a)
    \/ \E a \in Actors : WriteFile(a)
    \/ Crash

Spec == Init /\ [][Next]_vars

-----------------------------------------------------------------------------
\* The shape of the state.
TypeOK ==
    /\ file \in Configs \cup {Missing, Garbled}
    /\ whole \in Configs
    /\ job \in [Actors -> Jobs \cup {Idle}]
    /\ secret \in [Workers -> Secrets \cup {None}]
    /\ minted \in 0..MaxSecrets

\* What a load finds is the configuration that was last written to the end, or
\* the empty one while a write is under way; only two overlapping writes leave
\* anything else.  A handler that ends in an error has not touched the file.
\* (That a reader may find the empty one, and that a crash then leaves nothing
\* else, is what the code does and no more than stated here.)
WholeOrTorn ==
    \/ file \in {whole, Garbled}
    \/ file = EmptyConfig /\ Torn
    \/ file = Missing /\ whole = EmptyConfig

\* config_editor.py:7, no half-configured state is saved: also when the form
\* was merged into what an overlapping write, or a crash in the middle of one,
\* had left of the configuration, no secret the form needs is missing.
NoHalfForm == whole.form.edits # None => whole.form.keys # None

\* The section a request is about.
SectionOf(r) ==
    CASE r.kind = "saveForm" -> "form"
      [] r.kind \in {"register", "delete", "login"} -> "passkeys"
      [] r.kind = "deploy"  -> "agents"
      [] r.kind = "startup" -> "session"
      [] OTHER -> "hosts"

\* config_editor.py:106-107 and 169-171: a handler that no other writer has
\* come between changes no section but its own.
OthersKept ==
    [][\A a \in Actors : WriteFile(a) /\ ~job[a].behind =>
          \A s \in DOMAIN EmptyConfig \ {SectionOf(job[a].request)} :
             whole'[s] = whole[s]]_vars

\* A handler that no other writer has come between takes effect as if it were a
\* single step: what it makes of the configuration as it is when the handler
\* ends, with the guard of that moment, is what the file has afterwards.
AloneIsAtomic ==
    [][\A a \in Actors : WriteFile(a) /\ ~job[a].behind =>
          /\ Accepted(whole, job[a].request)
          /\ \E t \in Tokens(whole, job[a].request) :
                whole' = Changed(whole, job[a].request, t)]_vars

\* config_editor.py:106-107: saving the settings loses no registered passkey.
SavingKeepsPasskeys ==
    [][\A a \in Actors : WriteFile(a) /\ job[a].request.kind = "saveForm" =>
          whole'.passkeys = whole.passkeys]_vars

\* app.py:79-83: the workers of one deployment sign sessions with the same
\* secret, the one in config.yaml.
WorkersShareSecret ==
    \A v, w \in Workers : None \in {secret[v], secret[w]} \/ secret[v] = secret[w]
=============================================================================
