------------------------------ MODULE AgentDeploy ------------------------------
(***************************************************************************)
(* Installing an agent over SSH.  A request makes sure there is a shared   *)
(* secret, starts a thread that works through the steps on the machine,    *)
(* and streams the thread's log lines from a queue until it finds the      *)
(* sentinel; only then, and in the streaming generator, is the machine     *)
(* remembered, with its password encrypted under the key in a file made at *)
(* first use.                                                              *)
(*                                                                         *)
(* Of the queue only the sentinel is kept: a log line changes nothing, but *)
(* sending one may show that the browser has gone, which ends the stream.  *)
(* An agent's configuration is its panel name and its secret, and is       *)
(* written whole; secrets and keys are numbered as they are made, and a    *)
(* secret that config.yaml had at first counts as the first one made.      *)
(* save_host and delete_host change config.yaml in one step: what their    *)
(* reading and writing it does to each other is the subject of ConfigFile. *)
(***************************************************************************)
EXTENDS Integers

CONSTANTS
    Machines,
    Deployments,    \* the requests that may be under way at once
    Panels,         \* names of panels an agent can be bound to
    HostName,       \* what each machine calls itself
    MaxSecrets,     \* bound: shared secrets made
    None, Empty, Idle

ASSUME NamesAssumption == HostName \in [Machines -> STRING] /\ Panels \subseteq STRING

VARIABLES
    file,       \* config.yaml: the shared secret (0 for none), whether the rest
                \* of metrics_agent is there too (it is enabled and says how
                \* long samples are kept), the remembered hosts
    keyFile,    \* agent_hosts.key: absent (None), Empty, or a key
    machine,    \* what agent_config.yaml says, and what the running agent read
    job,        \* the deployments under way
    minted      \* how many secrets and keys have been made

vars == <<file, keyFile, machine, job, minted>>

\* Connect, upload, write agent_config.yaml, make the environment, register
\* the service; then restart it and see that it is active.
Following == [install |-> "restart", restart |-> "done"]

Steps == DOMAIN Following

Names == Panels \cup {HostName[m] : m \in Machines}
Configs == [name : Names, secret : Nat]
Hosts == [Machines -> [name : Names, key : Nat] \cup {None}]

Jobs == [machine : Machines, again : BOOLEAN, name : Names, remember : BOOLEAN,
         secret : Nat, copy : Hosts,
         stage : Steps \cup {"unsaved", "done"}, ok : BOOLEAN,
         sentinel : BOOLEAN,
         stream : {"open", "creating", "writing", "reading", "closed"},
         alone : BOOLEAN]   \* history: no other one on the same machine, and
                            \* none that saved config.yaml meanwhile

ASSUME MarkersAssumption ==
    /\ None \notin Nat /\ Empty \notin Nat /\ None # Empty
    /\ None \notin Configs /\ None \notin [name : Names, key : Nat]
    /\ Idle \notin Jobs

Nobody == [m \in Machines |-> None]
Busy(d) == job[d] # Idle

-----------------------------------------------------------------------------
Init ==
    /\ file \in [secret : {0, 1}, ready : BOOLEAN, hosts : {Nobody}]
    /\ keyFile = None
    /\ machine = [m \in Machines |-> [installed |-> None, running |-> None]]
    /\ job = [d \in Deployments |-> Idle]
    /\ minted = [secrets |-> file.secret, keys |-> 0]

\* _deploy_and_report loads config.yaml.  What metrics_agent lacks is filled in,
\* and then the whole file has to be saved; a secret that is there stays.
Begin(d, m, again, name, remember) ==
    LET others == {e \in Deployments : Busy(e) /\ job[e].machine = m}
        first == file.secret = 0
        save == first \/ ~file.ready
        new == [machine |-> m, again |-> again, name |-> name, remember |-> remember,
                secret |-> IF first THEN minted.secrets + 1 ELSE file.secret,
                copy |-> IF save THEN file.hosts ELSE Nobody,
                stage |-> IF save THEN "unsaved" ELSE "install", ok |-> FALSE,
                sentinel |-> FALSE, stream |-> "open", alone |-> others = {}]
    IN  /\ ~Busy(d)
        /\ first => minted.secrets < MaxSecrets
        /\ minted' = [minted EXCEPT !.secrets = IF first THEN @ + 1 ELSE @]
        /\ job' = [e \in Deployments |->
                      IF e = d THEN new
                      ELSE IF e \in others THEN [job[e] EXCEPT !.alone = FALSE]
                      ELSE job[e]]
        /\ UNCHANGED <<file, keyFile, machine>>

\* api_agent_deploy: the name is the machine's own unless bound to a panel.
Deploy(d, m) ==
    \E name \in Panels \cup {HostName[m]}, remember \in BOOLEAN :
        Begin(d, m, FALSE, name, remember)

\* A plausible slip: the name is detected anew, as in a first deployment.
Redeploy_Detects(d, m) ==
    /\ file.hosts[m] # None
    /\ file.hosts[m].key = keyFile
    /\ Begin(d, m, TRUE, HostName[m], TRUE)

\* api_agent_redeploy: the password must decrypt; the name is the saved one.
Redeploy(d, m) ==
    /\ file.hosts[m] # None
    /\ file.hosts[m].key = keyFile
    /\ Begin(d, m, TRUE, file.hosts[m].name, TRUE)

\* A plausible slip: only the section that has changed is written.
SaveSecret_SectionOnly(d) ==
    /\ Busy(d) /\ job[d].stage = "unsaved"
    /\ file' = [secret |-> job[d].secret, ready |-> TRUE]
    /\ job' = [job EXCEPT ![d].stage = "install"]
    /\ UNCHANGED <<keyFile, machine, minted>>

\* The whole configuration as it was loaded, with the section complete.
SaveSecret(d) ==
    /\ Busy(d) /\ job[d].stage = "unsaved"
    /\ file' = [secret |-> job[d].secret, ready |-> TRUE, hosts |-> job[d].copy]
    /\ job' = [e \in Deployments |->
                  IF e = d THEN [job[d] EXCEPT !.stage = "install", !.copy = Nobody]
                  ELSE IF Busy(e) THEN [job[e] EXCEPT !.alone = FALSE]
                  ELSE Idle]
    /\ UNCHANGED <<keyFile, machine, minted>>

-----------------------------------------------------------------------------
\* A plausible slip: systemctl enable --now, which does not restart a service
\* that runs.
Done_EnableNow(m, c, stage) ==
    CASE stage = "install" -> [machine[m] EXCEPT !.installed = c]
      [] stage = "restart" /\ machine[m].running = None ->
            [machine[m] EXCEPT !.running = machine[m].installed]
      [] OTHER -> machine[m]

\* What a finished step has done to the machine.
Done(m, c, stage) ==
    CASE stage = "install" -> [machine[m] EXCEPT !.installed = c]
      [] stage = "restart" -> [machine[m] EXCEPT !.running = machine[m].installed]
      [] OTHER -> machine[m]

\* The machine will not be remembered: what was asked for no longer matters.
Unremembered(j) == [j EXCEPT !.remember = FALSE, !.again = FALSE, !.alone = FALSE]

ConfigOf(d) == [name |-> job[d].name, secret |-> job[d].secret]

\* deploy_agent finishes a step and logs it; after the last one the worker
\* sets the result and puts the sentinel into the queue.
Step(d) ==
    /\ Busy(d) /\ job[d].stage \in Steps
    /\ machine' = [machine EXCEPT ![job[d].machine] =
                      Done(job[d].machine, ConfigOf(d), job[d].stage)]
    /\ job' = [job EXCEPT ![d].stage = Following[@],
                          ![d].ok = job[d].stage = "restart",
                          ![d].sentinel = job[d].stage = "restart"]
    /\ UNCHANGED <<file, keyFile, minted>>

\* A plausible slip: the sentinel is put where the result is, and not in a
\* finally clause, so an exception nobody foresaw leaves the queue open.
Fail_NoSentinel(d) ==
    /\ Busy(d) /\ job[d].stage \in Steps
    /\ job' = [job EXCEPT ![d].stage = "done"]
    /\ UNCHANGED <<file, keyFile, machine, minted>>

\* A step raises, before or after it has had its effect; the sentinel is put
\* into the queue all the same.
Fail(d) ==
    /\ Busy(d) /\ job[d].stage \in Steps
    /\ LET m == job[d].machine
       IN  \E after \in {machine[m], Done(m, ConfigOf(d), job[d].stage)} :
               machine' = [machine EXCEPT ![m] = after]
    /\ job' = [job EXCEPT ![d] = [Unremembered(@) EXCEPT !.stage = "done", !.sentinel = TRUE]]
    /\ UNCHANGED <<file, keyFile, minted>>

-----------------------------------------------------------------------------
At(d, s) == Busy(d) /\ job[d].stream = s
Goto(d, s) == job' = [job EXCEPT ![d].stream = s]

\* generate cannot send a line: the browser has gone.  The worker goes on.
Close(d) ==
    /\ At(d, "open") /\ job[d].stage # "unsaved"
    /\ job' = [job EXCEPT ![d] = [Unremembered(@) EXCEPT !.stream = "closed"]]
    /\ UNCHANGED <<file, keyFile, machine, minted>>

Answer(d) == job' = [job EXCEPT ![d] = Idle]

\* It finds the sentinel.  With nothing to remember, it sends the last line.
Finish(d) ==
    /\ At(d, "open") /\ job[d].sentinel
    /\ ~(job[d].ok /\ job[d].remember)
    /\ Answer(d)
    /\ UNCHANGED <<file, keyFile, machine, minted>>

\* save_host comes before the last line; _get_fernet: is there a key file?
LookForKey(d) ==
    /\ At(d, "open") /\ job[d].sentinel
    /\ job[d].ok /\ job[d].remember
    /\ Goto(d, IF keyFile = None THEN "creating" ELSE "reading")
    /\ UNCHANGED <<file, keyFile, machine, minted>>

\* A plausible slip: open(KEY_PATH, "wb").
CreateKey_Truncates(d) ==
    /\ At(d, "creating")
    /\ keyFile' = Empty
    /\ Goto(d, "writing")
    /\ UNCHANGED <<file, machine, minted>>

\* O_CREAT with O_EXCL: whoever comes second reads the other's.
CreateKey(d) ==
    /\ At(d, "creating")
    /\ keyFile' = IF keyFile = None THEN Empty ELSE keyFile
    /\ Goto(d, IF keyFile = None THEN "writing" ELSE "reading")
    /\ UNCHANGED <<file, machine, minted>>

WriteKey(d) ==
    /\ At(d, "writing")
    /\ keyFile' = minted.keys + 1
    /\ minted' = [minted EXCEPT !.keys = @ + 1]
    /\ Goto(d, "reading")
    /\ UNCHANGED <<file, machine>>

\* The machine is remembered, and the last line sent.
Remember(d) ==
    /\ At(d, "reading") /\ keyFile \in Nat
    /\ file' = [file EXCEPT !.hosts[job[d].machine] =
                   [name |-> job[d].name, key |-> keyFile]]
    /\ Answer(d)
    /\ UNCHANGED <<keyFile, machine, minted>>

\* An empty text is no key: the generator raises, and there is no last line.
BadKey(d) ==
    /\ At(d, "reading") /\ keyFile = Empty
    /\ Answer(d)
    /\ UNCHANGED <<file, keyFile, machine, minted>>

\* A worker that nobody listens to any more returns.
End(d) ==
    /\ At(d, "closed") /\ job[d].stage = "done"
    /\ Answer(d)
    /\ UNCHANGED <<file, keyFile, machine, minted>>

-----------------------------------------------------------------------------
\* api_agent_delete_host.
Forget(m) ==
    /\ file.hosts[m] # None
    /\ file' = [file EXCEPT !.hosts[m] = None]
    /\ UNCHANGED <<keyFile, machine, job, minted>>

\* The service is started again (Restart=always, or the machine reboots).
AgentRestarts(m) ==
    /\ machine[m].running # None
    /\ machine' = [machine EXCEPT ![m].running = machine[m].installed]
    /\ UNCHANGED <<file, keyFile, job, minted>>

\* The dashboard goes down with its threads.
Crash ==
    /\ job' = [d \in Deployments |-> Idle]
    /\ UNCHANGED <<file, keyFile, machine, minted>>

Worker(d) == SaveSecret(d) \/ Step(d) \/ Fail(d)

Generator(d) == \/ Finish(d) \/ LookForKey(d)
                \/ CreateKey(d) \/ WriteKey(d) \/ Remember(d) \/ BadKey(d)

Next ==
    \/ \E d \in Deployments, m \in Machines : Deploy(d, m) \/ Redeploy(d, m)
    \/ \E d \in Deployments : Worker(d) \/ Generator(d) \/ Close(d) \/ End(d)
    \/ \E m \in Machines : Forget(m) \/ AgentRestarts(m)
    \/ Crash

Spec == Init /\ [][Next]_vars

\* A deployment's thread and its generator go on.  The machine may stop answering
\* in any step for good: SFTP, a channel opened without a timeout and the wait for
\* an exit status have no end, so nothing is said of Step and Fail.
GoesOn(d) == SaveSecret(d) \/ Generator(d)

FairSpec == Spec /\ \A d \in Deployments : WF_vars(GoesOn(d))

-----------------------------------------------------------------------------
\* The files, the machines and the deployments keep their shape.
TypeOK ==
    /\ file \in [secret : Nat, ready : BOOLEAN, hosts : Hosts]
    /\ keyFile \in Nat \cup {None, Empty}
    /\ machine \in [Machines -> [installed : Configs \cup {None},
                                 running : Configs \cup {None}]]
    /\ job \in [Deployments -> Jobs \cup {Idle}]
    /\ minted \in [secrets : Nat, keys : Nat]

\* Every remembered password can be read with the key in the file, whoever
\* else made the first use of it, and whatever was lost in a crash.
RememberedDecrypts ==
    \A m \in Machines : file.hosts[m] # None => file.hosts[m].key = keyFile

\* The last line of a deployment says that all went well.
TellsOk(d) == (Finish(d) \/ Remember(d)) /\ job[d].ok

\* When the browser is told that all went well, and no other deployment has
\* been in between: the agent that runs is the one that was asked for, also
\* where an older one ran before; its secret is the one config.yaml has; and if
\* the machine was to be remembered, it is, under the agent's name.
ToldOkIsTrue ==
    [][\A d \in Deployments : TellsOk(d) /\ job[d].alone =>
          LET m == job[d].machine
          IN  /\ machine[m] = [installed |-> ConfigOf(d), running |-> ConfigOf(d)]
              /\ job[d].secret = file.secret
              /\ job[d].remember => /\ file'.hosts[m] # None
                                    /\ file'.hosts[m].name = job[d].name]_vars

\* A machine deployed again keeps its name (app.py:663-664), unless another
\* deployment has been in between.
NameKept ==
    [][\A d \in Deployments :
          TellsOk(d) /\ job[d].again /\ job[d].alone =>
              LET m == job[d].machine
              IN  file.hosts[m] # None => file'.hosts[m].name = file.hosts[m].name]_vars

\* Every deployment's stream comes to an end, however the steps fail, unless
\* the machine hangs in one for good.
EveryStreamEnds ==
    \A d \in Deployments :
        Busy(d) ~> \/ ~Busy(d)
                   \/ job[d].stream = "closed"
                   \/ [](Busy(d) /\ job[d].stage \in Steps)
=============================================================================
