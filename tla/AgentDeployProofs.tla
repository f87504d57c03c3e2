--------------------------- MODULE AgentDeployProofs ---------------------------
(***************************************************************************)
(* What a deployment guarantees, for any number of machines, deployments   *)
(* and panels.                                                             *)
(*                                                                         *)
(* KeyInv is about the key file: as only its creator writes it, a key that *)
(* some host was remembered with is never replaced.  AloneInv is about a   *)
(* deployment that no other one has come between: how far it has got is    *)
(* what the machine, the secret and the remembered name show.              *)
(***************************************************************************)
EXTENDS AgentDeploy, TLAPS

\* The fields of a deployment under way.
LEMMA JobFields ==
  ASSUME TypeOK, NEW d \in Deployments, Busy(d)
  PROVE  /\ job[d] \in Jobs
         /\ job[d].machine \in Machines /\ job[d].name \in Names
         /\ job[d].secret \in Nat /\ job[d].copy \in Hosts
         /\ ConfigOf(d) \in Configs
  BY DEF TypeOK, Jobs, Busy, ConfigOf, Configs

\* A deployment moves on in its worker, or in its stream.
LEMMA JobMoves ==
  ASSUME NEW j \in Jobs
  PROVE  /\ \A s \in {"open", "creating", "writing", "reading", "closed"} :
               [j EXCEPT !.stream = s] \in Jobs
         /\ [j EXCEPT !.alone = FALSE] \in Jobs
         /\ [j EXCEPT !.stage = "install", !.copy = Nobody] \in Jobs
         /\ \A b \in BOOLEAN, s \in Steps \cup {"done"} :
               [j EXCEPT !.stage = s, !.ok = b, !.sentinel = b] \in Jobs
         /\ [Unremembered(j) EXCEPT !.stream = "closed"] \in Jobs
         /\ [Unremembered(j) EXCEPT !.stage = "done", !.sentinel = TRUE] \in Jobs
<1>1. Nobody \in Hosts
  BY DEF Nobody, Hosts
<1>2. "install" \in Steps
  BY DEF Steps, Following
<1>3. [j EXCEPT !.stage = "install", !.copy = Nobody] \in Jobs
  BY <1>1, <1>2 DEF Jobs
<1>4. \A s \in {"open", "creating", "writing", "reading", "closed"} :
         [j EXCEPT !.stream = s] \in Jobs
  BY DEF Jobs
<1>5. [j EXCEPT !.alone = FALSE] \in Jobs
  BY DEF Jobs
<1>6. ASSUME NEW b \in BOOLEAN, NEW s \in Steps \cup {"done"}
      PROVE  [j EXCEPT !.stage = s, !.ok = b, !.sentinel = b] \in Jobs
  BY DEF Jobs
<1>7. Unremembered(j) \in Jobs
  BY DEF Jobs, Unremembered
<1>8. [Unremembered(j) EXCEPT !.stream = "closed"] \in Jobs
  BY <1>7 DEF Jobs
<1>9. [Unremembered(j) EXCEPT !.stage = "done", !.sentinel = TRUE] \in Jobs
  BY <1>7 DEF Jobs
<1>10. QED
  BY <1>3, <1>4, <1>5, <1>6, <1>8, <1>9

\* What a step has done leaves a machine with configurations or none.
LEMMA DoneTyped ==
  ASSUME TypeOK, NEW m \in Machines, NEW c \in Configs, NEW s
  PROVE  Done(m, c, s) \in [installed : Configs \cup {None}, running : Configs \cup {None}]
<1>1. machine[m] \in [installed : Configs \cup {None}, running : Configs \cup {None}]
  BY DEF TypeOK
<1>2. QED
  BY <1>1 DEF Done

LEMMA InitTypeOK == Init => TypeOK
  BY DEF Init, TypeOK, Hosts, Nobody

\* A request that is let in makes a deployment, and takes the word "alone"
\* from those on its machine.
LEMMA BeginTyped ==
  ASSUME TypeOK, NEW d \in Deployments, NEW m \in Machines, NEW again \in BOOLEAN,
         NEW name \in Names, NEW remember \in BOOLEAN,
         Begin(d, m, again, name, remember)
  PROVE  TypeOK'
<1> DEFINE others == {e \in Deployments : Busy(e) /\ job[e].machine = m}
           first == file.secret = 0
           save == first \/ ~file.ready
           new == [machine |-> m, again |-> again, name |-> name, remember |-> remember,
                   secret |-> IF first THEN minted.secrets + 1 ELSE file.secret,
                   copy |-> IF save THEN file.hosts ELSE Nobody,
                   stage |-> IF save THEN "unsaved" ELSE "install", ok |-> FALSE,
                   sentinel |-> FALSE, stream |-> "open", alone |-> others = {}]
<1>1. /\ file.secret \in Nat /\ file.hosts \in Hosts
      /\ minted.secrets + 1 \in Nat /\ minted \in [secrets : Nat, keys : Nat]
  BY DEF TypeOK
<1>2. Nobody \in Hosts
  BY DEF Nobody, Hosts
<1>3. (others = {}) \in BOOLEAN
  OBVIOUS
<1>4. new \in Jobs
  BY <1>1, <1>2, <1>3 DEF Jobs, Steps, Following
<1>5. job' = [e \in Deployments |->
                 IF e = d THEN new
                 ELSE IF e \in others THEN [job[e] EXCEPT !.alone = FALSE]
                 ELSE job[e]]
  BY DEF Begin
<1>6. job' \in [Deployments -> Jobs \cup {Idle}]
  BY <1>4, <1>5, JobFields, JobMoves DEF TypeOK
<1>7. minted' \in [secrets : Nat, keys : Nat]
  BY <1>1 DEF Begin
<1>8. QED
  BY <1>6, <1>7 DEF Begin, TypeOK

\* Every step keeps the shape of the state.
LEMMA NextTypeOK == TypeOK /\ [Next]_vars => TypeOK'
<1> SUFFICES ASSUME TypeOK, [Next]_vars PROVE TypeOK'
  OBVIOUS
<1>1. ASSUME NEW d \in Deployments, NEW m \in Machines, Deploy(d, m) PROVE TypeOK'
  BY <1>1, BeginTyped DEF Deploy, Names
<1>2. ASSUME NEW d \in Deployments, NEW m \in Machines, Redeploy(d, m) PROVE TypeOK'
  <2>1. file.hosts[m].name \in Names
    BY <1>2 DEF Redeploy, TypeOK, Hosts
  <2>2. QED
    BY <1>2, <2>1, BeginTyped DEF Redeploy
<1>3. ASSUME NEW d \in Deployments, SaveSecret(d) PROVE TypeOK'
  <2>1. job' \in [Deployments -> Jobs \cup {Idle}]
    BY <1>3, JobFields, JobMoves DEF SaveSecret, TypeOK
  <2>2. file' \in [secret : Nat, ready : BOOLEAN, hosts : Hosts]
    BY <1>3, JobFields DEF SaveSecret
  <2>3. QED
    BY <1>3, <2>1, <2>2 DEF SaveSecret, TypeOK
<1>4. ASSUME NEW d \in Deployments, Step(d) PROVE TypeOK'
  <2>1. Following[job[d].stage] \in Steps \cup {"done"}
    BY <1>4 DEF Step, Steps, Following
  <2>2. (job[d].stage = "restart") \in BOOLEAN
    OBVIOUS
  <2>3. job' \in [Deployments -> Jobs \cup {Idle}]
    BY <1>4, <2>1, <2>2, JobFields, JobMoves DEF Step, TypeOK
  <2>4. machine' \in [Machines -> [installed : Configs \cup {None},
                                   running : Configs \cup {None}]]
    BY <1>4, JobFields, DoneTyped DEF Step, TypeOK
  <2>5. QED
    BY <1>4, <2>3, <2>4 DEF Step, TypeOK
<1>5. ASSUME NEW d \in Deployments, Fail(d) PROVE TypeOK'
  <2>1. job' \in [Deployments -> Jobs \cup {Idle}]
    BY <1>5, JobFields, JobMoves DEF Fail, TypeOK
  <2>2. PICK after \in {machine[job[d].machine],
                        Done(job[d].machine, ConfigOf(d), job[d].stage)} :
           machine' = [machine EXCEPT ![job[d].machine] = after]
    BY <1>5 DEF Fail
  <2>3. machine' \in [Machines -> [installed : Configs \cup {None},
                                   running : Configs \cup {None}]]
    BY <1>5, <2>2, JobFields, DoneTyped DEF Fail, TypeOK
  <2>4. QED
    BY <1>5, <2>1, <2>3 DEF Fail, TypeOK
<1>6. ASSUME NEW d \in Deployments, Close(d) PROVE TypeOK'
  BY <1>6, JobFields, JobMoves DEF Close, At, TypeOK
<1>7. ASSUME NEW d \in Deployments, Finish(d) \/ BadKey(d) \/ End(d) PROVE TypeOK'
  BY <1>7 DEF Finish, BadKey, End, Answer, TypeOK
<1>8. ASSUME NEW d \in Deployments, LookForKey(d) PROVE TypeOK'
  BY <1>8, JobFields, JobMoves DEF LookForKey, At, Goto, TypeOK
<1>9. ASSUME NEW d \in Deployments, CreateKey(d) PROVE TypeOK'
  BY <1>9, JobFields, JobMoves DEF CreateKey, At, Goto, TypeOK
<1>10. ASSUME NEW d \in Deployments, WriteKey(d) PROVE TypeOK'
  <2>1. minted.keys + 1 \in Nat /\ [minted EXCEPT !.keys = @ + 1] \in [secrets : Nat, keys : Nat]
    BY DEF TypeOK
  <2>2. job' \in [Deployments -> Jobs \cup {Idle}]
    BY <1>10, JobFields, JobMoves DEF WriteKey, At, Goto, TypeOK
  <2>3. QED
    BY <1>10, <2>1, <2>2 DEF WriteKey, TypeOK
<1>11. ASSUME NEW d \in Deployments, Remember(d) PROVE TypeOK'
  <2>1. [name |-> job[d].name, key |-> keyFile] \in [name : Names, key : Nat]
    BY <1>11, JobFields DEF Remember, At
  <2>2. file' \in [secret : Nat, ready : BOOLEAN, hosts : Hosts]
    BY <1>11, <2>1, JobFields DEF Remember, At, TypeOK, Hosts
  <2>3. QED
    BY <1>11, <2>2 DEF Remember, Answer, TypeOK
<1>12. ASSUME NEW m \in Machines, Forget(m) PROVE TypeOK'
  BY <1>12 DEF Forget, TypeOK, Hosts
<1>13. ASSUME NEW m \in Machines, AgentRestarts(m) PROVE TypeOK'
  <2>1. [machine[m] EXCEPT !.running = machine[m].installed]
           \in [installed : Configs \cup {None}, running : Configs \cup {None}]
    BY DEF TypeOK
  <2>2. QED
    BY <1>13, <2>1 DEF AgentRestarts, TypeOK
<1>14. CASE Crash
  BY <1>14 DEF Crash, TypeOK
<1>15. CASE UNCHANGED vars
  BY <1>15 DEF vars, TypeOK
<1>16. QED
  BY <1>1, <1>2, <1>3, <1>4, <1>5, <1>6, <1>7, <1>8, <1>9, <1>10, <1>11, <1>12,
     <1>13, <1>14, <1>15 DEF Next, Worker, Generator

-----------------------------------------------------------------------------
\* Every key in use is the one in the file, and only one thread writes it,
\* once.
KeyInv ==
    /\ \A m \in Machines : file.hosts[m] # None => file.hosts[m].key = keyFile
    /\ \A d \in Deployments, m \in Machines :
          Busy(d) /\ job[d].stage = "unsaved" /\ job[d].copy[m] # None =>
              job[d].copy[m].key = keyFile
    /\ \A d \in Deployments : At(d, "writing") => keyFile = Empty
    /\ \A d, e \in Deployments : At(d, "writing") /\ At(e, "writing") => d = e

\* A deployment that writes the key file was doing so, or has just made it.
LEMMA StreamOf ==
  ASSUME TypeOK, [Next]_vars, NEW e \in Deployments, At(e, "writing")'
  PROVE  At(e, "writing") \/ (CreateKey(e) /\ keyFile = None)
<1>1. ASSUME NEW d \in Deployments, NEW m \in Machines, NEW again, NEW name,
             NEW remember, Begin(d, m, again, name, remember)
      PROVE  At(e, "writing")
  BY <1>1 DEF Begin, At, Busy, TypeOK, Jobs
<1>2. ASSUME NEW d \in Deployments, SaveSecret(d) \/ Step(d) \/ Fail(d) \/ Close(d)
      PROVE  At(e, "writing")
  <2>1. CASE SaveSecret(d)
    BY <2>1, JobFields DEF SaveSecret, At, Busy, TypeOK, Jobs
  <2>2. CASE Step(d)
    BY <2>2, JobFields DEF Step, At, Busy, TypeOK, Jobs
  <2>3. CASE Fail(d)
    BY <2>3, JobFields DEF Fail, Unremembered, At, Busy, TypeOK, Jobs
  <2>4. CASE Close(d)
    BY <2>4, JobFields DEF Close, Unremembered, At, Busy, TypeOK, Jobs
  <2>5. QED
    BY <1>2, <2>1, <2>2, <2>3, <2>4
<1>3. ASSUME NEW d \in Deployments, Finish(d) \/ BadKey(d) \/ End(d) \/ Remember(d)
      PROVE  At(e, "writing")
  BY <1>3 DEF Finish, BadKey, End, Remember, Answer, At, Busy, TypeOK
<1>4. ASSUME NEW d \in Deployments, LookForKey(d) \/ WriteKey(d)
      PROVE  At(e, "writing")
  BY <1>4, JobFields DEF LookForKey, WriteKey, At, Goto, Busy, TypeOK, Jobs
<1>5. ASSUME NEW d \in Deployments, CreateKey(d)
      PROVE  At(e, "writing") \/ (CreateKey(e) /\ keyFile = None)
  BY <1>5, JobFields DEF CreateKey, At, Goto, Busy, TypeOK, Jobs
<1>6. ASSUME UNCHANGED job
      PROVE  At(e, "writing")
  BY <1>6 DEF At, Busy
<1>7. CASE Crash
  BY <1>7 DEF Crash, At, Busy
<1>8. QED
  BY <1>1, <1>2, <1>3, <1>4, <1>5, <1>6, <1>7 DEF Next, Worker, Generator, Deploy,
     Redeploy, Forget, AgentRestarts, vars

\* The copy of the hosts is as old as the deployment's request, or as new.
LEMMA CopyOf ==
  ASSUME TypeOK, [Next]_vars, NEW e \in Deployments, Busy(e)', job'[e].stage = "unsaved"
  PROVE  \/ Busy(e) /\ job[e].stage = "unsaved" /\ job'[e].copy = job[e].copy
         \/ job'[e].copy = file.hosts /\ keyFile' = keyFile
<1>1. ASSUME NEW d \in Deployments, NEW m \in Machines, NEW again, NEW name,
             NEW remember, Begin(d, m, again, name, remember)
      PROVE  \/ Busy(e) /\ job[e].stage = "unsaved" /\ job'[e].copy = job[e].copy
             \/ job'[e].copy = file.hosts /\ keyFile' = keyFile
  BY <1>1 DEF Begin, Busy, TypeOK, Jobs
<1>2. ASSUME NEW d \in Deployments, SaveSecret(d) \/ Step(d) \/ Fail(d) \/ Close(d)
      PROVE  Busy(e) /\ job[e].stage = "unsaved" /\ job'[e].copy = job[e].copy
  <2>1. CASE SaveSecret(d)
    BY <2>1, JobFields DEF SaveSecret, Busy, TypeOK, Jobs
  <2>2. CASE Step(d)
    <3>1. Following[job[d].stage] # "unsaved"
      BY <2>2 DEF Step, Steps, Following
    <3>2. QED
      BY <2>2, <3>1, JobFields DEF Step, Busy, TypeOK, Jobs
  <2>3. CASE Fail(d)
    BY <2>3, JobFields DEF Fail, Unremembered, Busy, TypeOK, Jobs
  <2>4. CASE Close(d)
    BY <2>4, JobFields DEF Close, Unremembered, At, Busy, TypeOK, Jobs
  <2>5. QED
    BY <1>2, <2>1, <2>2, <2>3, <2>4
<1>3. ASSUME NEW d \in Deployments, Finish(d) \/ BadKey(d) \/ End(d) \/ Remember(d)
      PROVE  Busy(e) /\ job[e].stage = "unsaved" /\ job'[e].copy = job[e].copy
  BY <1>3 DEF Finish, BadKey, End, Remember, Answer, At, Busy, TypeOK
<1>4. ASSUME NEW d \in Deployments, LookForKey(d) \/ WriteKey(d) \/ CreateKey(d)
      PROVE  Busy(e) /\ job[e].stage = "unsaved" /\ job'[e].copy = job[e].copy
  BY <1>4, JobFields DEF LookForKey, WriteKey, CreateKey, At, Goto, Busy, TypeOK, Jobs
<1>5. ASSUME UNCHANGED job
      PROVE  Busy(e) /\ job[e].stage = "unsaved" /\ job'[e].copy = job[e].copy
  BY <1>5 DEF Busy
<1>6. CASE Crash
  BY <1>6 DEF Crash, Busy
<1>7. QED
  BY <1>1, <1>2, <1>3, <1>4, <1>5, <1>6 DEF Next, Worker, Generator, Deploy,
     Redeploy, Forget, AgentRestarts, vars

\* The key file changes only from absent to empty, and from empty to a key.
LEMMA KeyFileMoves ==
  ASSUME TypeOK, KeyInv, [Next]_vars, keyFile' # keyFile
  PROVE  /\ keyFile \notin Nat
         /\ \/ \E d \in Deployments : CreateKey(d) /\ keyFile = None
            \/ \E d \in Deployments : WriteKey(d) /\ keyFile = Empty
         /\ file' = file
<1>1. \/ \E d \in Deployments : CreateKey(d) /\ keyFile = None
      \/ \E d \in Deployments : WriteKey(d)
  BY DEF Next, Worker, Generator, Deploy, Redeploy, Begin, SaveSecret, Step, Fail,
     Close, Finish, BadKey, End, Remember, LookForKey, CreateKey, Forget,
     AgentRestarts, Crash, vars
<1>2. ASSUME NEW d \in Deployments, WriteKey(d) PROVE keyFile = Empty
  BY <1>2 DEF WriteKey, KeyInv
<1>3. QED
  BY <1>1, <1>2, MarkersAssumption DEF CreateKey, WriteKey

\* No step replaces a key.
LEMMA NextKeyInv == TypeOK /\ KeyInv /\ [Next]_vars => KeyInv'
<1> SUFFICES ASSUME TypeOK, KeyInv, [Next]_vars PROVE KeyInv'
  OBVIOUS
<1>0. \A m \in Machines : file.hosts[m] # None => file.hosts[m].key \in Nat
  BY DEF TypeOK, Hosts
<1>00. \A d \in Deployments, m \in Machines :
          Busy(d) /\ job[d].copy[m] # None => job[d].copy[m].key \in Nat
  BY JobFields DEF Hosts
<1>1. ASSUME NEW m \in Machines, file'.hosts[m] # None
      PROVE  file'.hosts[m].key = keyFile'
  <2>1. CASE file' = file
    BY <1>0, <1>1, <2>1, KeyFileMoves DEF KeyInv
  <2>2. ASSUME NEW d \in Deployments, SaveSecret(d)
        PROVE  file'.hosts[m].key = keyFile'
    BY <1>1, <2>2 DEF SaveSecret, KeyInv
  <2>3. ASSUME NEW d \in Deployments, Remember(d)
        PROVE  file'.hosts[m].key = keyFile'
    BY <1>1, <2>3, JobFields DEF Remember, At, KeyInv, TypeOK, Hosts
  <2>4. ASSUME NEW n \in Machines, Forget(n)
        PROVE  file'.hosts[m].key = keyFile'
    BY <1>1, <2>4 DEF Forget, KeyInv, TypeOK, Hosts
  <2>5. QED
    BY <2>1, <2>2, <2>3, <2>4 DEF Next, Worker, Generator, Deploy, Redeploy, Begin,
       Step, Fail, Close, Finish, BadKey, End, LookForKey, CreateKey, WriteKey,
       AgentRestarts, Crash, vars
<1>2. ASSUME NEW d \in Deployments, NEW m \in Machines, Busy(d)',
             job'[d].stage = "unsaved", job'[d].copy[m] # None
      PROVE  job'[d].copy[m].key = keyFile'
  <2>1. CASE Busy(d) /\ job[d].stage = "unsaved" /\ job'[d].copy = job[d].copy
    BY <1>2, <1>00, <2>1, KeyFileMoves DEF KeyInv
  <2>2. CASE job'[d].copy = file.hosts /\ keyFile' = keyFile
    BY <1>2, <2>2 DEF KeyInv
  <2>3. QED
    BY <1>2, <2>1, <2>2, CopyOf
<1>3. ASSUME NEW d \in Deployments, At(d, "writing")'
      PROVE  keyFile' = Empty
  <2>1. CASE CreateKey(d) /\ keyFile = None
    BY <2>1 DEF CreateKey
  <2>2. CASE At(d, "writing")
    <3>1. keyFile = Empty
      BY <2>2 DEF KeyInv
    <3>2. ASSUME NEW e \in Deployments, WriteKey(e) PROVE FALSE
      <4>1. e = d
        BY <2>2, <3>2 DEF WriteKey, KeyInv
      <4>2. QED
        BY <1>3, <3>2, <4>1, JobFields DEF WriteKey, At, Goto, Busy, TypeOK, Jobs
    <3>3. QED
      BY <3>1, <3>2, KeyFileMoves, MarkersAssumption
  <2>3. QED
    BY <1>3, <2>1, <2>2, StreamOf
<1>4. ASSUME NEW d \in Deployments, NEW e \in Deployments,
             At(d, "writing")', At(e, "writing")'
      PROVE  d = e
  <2>1. CASE At(d, "writing") /\ At(e, "writing")
    BY <2>1 DEF KeyInv
  <2>2. CASE keyFile = None /\ (CreateKey(d) \/ CreateKey(e))
    <3>1. ~At(d, "writing") /\ ~At(e, "writing")
      BY <2>2, MarkersAssumption DEF KeyInv
    <3>2. CreateKey(d) /\ CreateKey(e)
      BY <1>4, <3>1, StreamOf
    <3>3. QED
      BY <1>4, <3>1, <3>2 DEF CreateKey, At, Goto, Busy, TypeOK
  <2>3. QED
    BY <1>4, <2>1, <2>2, StreamOf
<1>5. QED
  BY <1>1, <1>2, <1>3, <1>4 DEF KeyInv

-----------------------------------------------------------------------------
\* How far a deployment without interference has got.
AloneFor(d) ==
    LET m == job[d].machine
    IN  /\ \A e \in Deployments : Busy(e) /\ e # d => job[e].machine # m
        /\ job[d].stage = "restart" => machine[m].installed = ConfigOf(d)
        /\ job[d].stage = "done" =>
              machine[m] = [installed |-> ConfigOf(d), running |-> ConfigOf(d)]
        /\ job[d].ok => job[d].stage = "done"
        /\ job[d].stage # "unsaved" => job[d].secret = file.secret
        /\ job[d].again => job[d].remember
        /\ job[d].again /\ file.hosts[m] # None => file.hosts[m].name = job[d].name
        /\ job[d].again /\ job[d].stage = "unsaved" /\ job[d].copy[m] # None =>
              job[d].copy[m].name = job[d].name

AloneInv == \A d \in Deployments : Busy(d) /\ job[d].alone => AloneFor(d)

\* A new deployment is alone if no other is on its machine.
LEMMA BeginAlone ==
  ASSUME TypeOK, AloneInv, NEW d \in Deployments, NEW m \in Machines,
         NEW again \in BOOLEAN, NEW name \in Names, NEW remember \in BOOLEAN,
         Begin(d, m, again, name, remember),
         again => remember /\ (file.hosts[m] # None => name = file.hosts[m].name)
  PROVE  AloneInv'
<1> DEFINE others == {e \in Deployments : Busy(e) /\ job[e].machine = m}
           first == file.secret = 0
           save == first \/ ~file.ready
           new == [machine |-> m, again |-> again, name |-> name, remember |-> remember,
                   secret |-> IF first THEN minted.secrets + 1 ELSE file.secret,
                   copy |-> IF save THEN file.hosts ELSE Nobody,
                   stage |-> IF save THEN "unsaved" ELSE "install", ok |-> FALSE,
                   sentinel |-> FALSE, stream |-> "open", alone |-> others = {}]
<1>1. /\ ~Busy(d)
      /\ job' = [e \in Deployments |->
                    IF e = d THEN new
                    ELSE IF e \in others THEN [job[e] EXCEPT !.alone = FALSE]
                    ELSE job[e]]
      /\ UNCHANGED <<file, machine>>
  BY DEF Begin
<1>2. ASSUME NEW b \in Deployments, Busy(b)', job'[b].alone PROVE AloneFor(b)'
  <2>1. CASE b = d
    <3>1. job'[b] = new
      BY <1>1, <2>1
    <3>2. others = {}
      <4>1. new.alone = (others = {})
        BY Zenon
      <4>2. job'[b].alone = new.alone
        BY <3>1
      <4> HIDE DEF others, new
      <4>3. QED
        BY <1>2, <4>1, <4>2, Zenon
    <3>3. \A e \in Deployments : Busy(e)' /\ e # b => job'[e].machine # m
      BY <1>1, <2>1, <3>2 DEF Busy
    <3>4. \A n \in Machines : Nobody[n] = None
      BY DEF Nobody
    <3>5. QED
      BY <1>1, <3>1, <3>3, <3>4 DEF AloneFor
  <2>2. CASE b # d
    <3>1. b \notin others
      BY <1>1, <1>2, <2>2, JobFields DEF Jobs
    <3>2. job'[b] = job[b] /\ Busy(b)
      BY <1>1, <1>2, <2>2, <3>1 DEF Busy
    <3>3. AloneFor(b) /\ job[b].machine # m
      BY <1>2, <3>1, <3>2 DEF AloneInv
    <3>4. \A e \in Deployments : Busy(e)' /\ e # b => job'[e].machine # job[b].machine
      <4>1. SUFFICES ASSUME NEW e \in Deployments, Busy(e)', e # b
                     PROVE  job'[e].machine # job[b].machine
        OBVIOUS
      <4>2. CASE e = d
        BY <1>1, <3>3, <4>2
      <4>3. CASE e # d
        <5>1. Busy(e) /\ job'[e].machine = job[e].machine
          BY <1>1, <4>1, <4>3, JobFields DEF Busy, Jobs
        <5>2. QED
          BY <3>3, <4>1, <5>1 DEF AloneFor
      <4>4. QED
        BY <4>2, <4>3
    <3>5. QED
      BY <1>1, <3>2, <3>3, <3>4 DEF AloneFor, ConfigOf
  <2>3. QED
    BY <2>1, <2>2
<1>3. QED
  BY <1>2 DEF AloneInv

\* Where a step leaves a lone deployment, its machine and what is remembered
\* of it as they are, and starts nothing, the deployment is as far as before.
LEMMA Untouched ==
  ASSUME TypeOK, AloneInv, NEW b \in Deployments, Busy(b), job[b].alone,
         UNCHANGED <<job[b], machine[job[b].machine], file.secret,
                     file.hosts[job[b].machine]>>,
         \A e \in Deployments : Busy(e)' => Busy(e) /\ job'[e].machine = job[e].machine
  PROVE  AloneFor(b)'
  BY DEF AloneInv, AloneFor, ConfigOf, Busy

\* No step disturbs a deployment that goes on counting as alone.
LEMMA NextAloneInv == TypeOK /\ AloneInv /\ [Next]_vars => AloneInv'
<1> SUFFICES ASSUME TypeOK, AloneInv, [Next]_vars PROVE AloneInv'
  OBVIOUS
<1>1. ASSUME NEW d \in Deployments, NEW m \in Machines, Deploy(d, m) PROVE AloneInv'
  BY <1>1, BeginAlone DEF Deploy, Names
<1>2. ASSUME NEW d \in Deployments, NEW m \in Machines, Redeploy(d, m) PROVE AloneInv'
  <2>1. file.hosts[m].name \in Names
    BY <1>2 DEF Redeploy, TypeOK, Hosts
  <2>2. QED
    BY <1>2, <2>1, BeginAlone DEF Redeploy
<1>3. ASSUME NEW b \in Deployments, Busy(b)', job'[b].alone,
             NEW d \in Deployments, Worker(d) \/ Generator(d) \/ Close(d) \/ End(d)
      PROVE  AloneFor(b)'
  <2>1. /\ Busy(d) /\ Busy(b) /\ job[b].alone
        /\ \A e \in Deployments : Busy(e)' => Busy(e) /\ job'[e].machine = job[e].machine
        /\ \A e \in Deployments : e # d =>
              job'[e] = job[e] \/ (SaveSecret(d) /\ (Busy(e) => ~job'[e].alone))
    <3>1. CASE SaveSecret(d)
      BY <1>3, <3>1, JobFields DEF SaveSecret, Busy, TypeOK, Jobs
    <3>2. CASE Step(d)
      BY <1>3, <3>2, JobFields DEF Step, Busy, TypeOK, Jobs
    <3>3. CASE Fail(d)
      BY <1>3, <3>3, JobFields DEF Fail, Unremembered, Busy, TypeOK, Jobs
    <3>4. CASE Close(d)
      BY <1>3, <3>4, JobFields DEF Close, Unremembered, At, Busy, TypeOK, Jobs
    <3>5. CASE Finish(d) \/ BadKey(d) \/ End(d) \/ Remember(d)
      BY <1>3, <3>5 DEF Finish, BadKey, End, Remember, Answer, At, Busy, TypeOK
    <3>6. CASE LookForKey(d) \/ CreateKey(d) \/ WriteKey(d)
      BY <1>3, <3>6, JobFields DEF LookForKey, CreateKey, WriteKey, Goto, At, Busy,
         TypeOK, Jobs
    <3>7. QED
      BY <1>3, <3>1, <3>2, <3>3, <3>4, <3>5, <3>6 DEF Worker, Generator
  <2>2. AloneFor(b)
    BY <2>1 DEF AloneInv
  <2>3. CASE d # b
    <3>0. ASSUME SaveSecret(d) PROVE FALSE
      <4>1. job'[b] = [job[b] EXCEPT !.alone = FALSE]
        BY <2>1, <2>3, <3>0 DEF SaveSecret
      <4>2. job'[b].alone = FALSE
        BY <2>1, <4>1, JobFields DEF Jobs
      <4>3. QED
        BY <1>3, <4>2
    <3>1. job'[b] = job[b] /\ ~SaveSecret(d)
      BY <1>3, <2>1, <2>3, <3>0
    <3>2. job[d].machine # job[b].machine
      BY <2>1, <2>2, <2>3 DEF AloneFor
    <3>3. /\ machine'[job[b].machine] = machine[job[b].machine]
          /\ file'.secret = file.secret
          /\ file'.hosts[job[b].machine] = file.hosts[job[b].machine]
      <4>1. job[b].machine \in Machines /\ job[d].machine \in Machines
        BY <2>1, JobFields
      <4>2. CASE Step(d) \/ Fail(d)
        BY <3>2, <4>1, <4>2 DEF Step, Fail, TypeOK
      <4>3. CASE Remember(d)
        BY <3>2, <4>1, <4>3 DEF Remember, TypeOK, Hosts
      <4>4. CASE UNCHANGED <<file, machine>>
        BY <4>4
      <4>5. QED
        BY <1>3, <3>1, <4>2, <4>3, <4>4 DEF Worker, Generator, Close, Finish, BadKey,
           End, LookForKey, CreateKey, WriteKey
    <3>4. QED
      BY <2>1, <3>1, <3>3, Untouched
  <2>4. CASE d = b
    <3> DEFINE m == job[b].machine
    <3>0. /\ job[b] \in Jobs /\ m \in Machines /\ job'[b].machine = m
          /\ \A e \in Deployments : Busy(e)' /\ e # b => job'[e].machine # m
      BY <1>3, <2>1, <2>2, JobFields DEF AloneFor
    <3>1. CASE SaveSecret(b)
      <4>1. /\ job'[b] = [job[b] EXCEPT !.stage = "install", !.copy = Nobody]
            /\ file' = [secret |-> job[b].secret, ready |-> TRUE, hosts |-> job[b].copy]
            /\ job[b].stage = "unsaved"
            /\ machine' = machine
        BY <3>1 DEF SaveSecret
      <4>2. /\ job'[b].stage = "install" /\ job'[b].secret = job[b].secret
            /\ job'[b].ok = job[b].ok /\ job'[b].again = job[b].again
            /\ job'[b].remember = job[b].remember /\ job'[b].name = job[b].name
        BY <3>0, <4>1 DEF Jobs
      <4>3. QED
        BY <2>2, <3>0, <4>1, <4>2 DEF AloneFor
    <3>2. CASE Step(b)
      <4>1. /\ job'[b] = [job[b] EXCEPT !.stage = Following[job[b].stage],
                                        !.ok = (job[b].stage = "restart"),
                                        !.sentinel = (job[b].stage = "restart")]
            /\ machine'[m] = Done(m, ConfigOf(b), job[b].stage)
            /\ file' = file
        BY <3>0, <3>2 DEF Step, TypeOK
      <4>2. /\ job'[b].secret = job[b].secret /\ job'[b].name = job[b].name
            /\ job'[b].again = job[b].again /\ job'[b].remember = job[b].remember
            /\ job'[b].stage = Following[job[b].stage]
            /\ job'[b].ok = (job[b].stage = "restart")
        BY <3>0, <4>1 DEF Jobs
      <4>3. ConfigOf(b)' = ConfigOf(b)
        BY <4>2 DEF ConfigOf
      <4>4. machine[m] \in [installed : Configs \cup {None}, running : Configs \cup {None}]
        BY <3>0 DEF TypeOK
      <4>5. CASE job[b].stage = "install"
        <5>1. machine'[m].installed = ConfigOf(b)
          BY <4>1, <4>4, <4>5 DEF Done
        <5>2. job'[b].stage = "restart"
          BY <4>2, <4>5 DEF Following
        <5>3. job[b].stage # "restart"
          BY <4>5
        <5>4. ~job'[b].ok
          BY <4>2, <5>3, Zenon
        <5>5. QED
          BY <2>2, <3>0, <4>1, <4>2, <4>3, <4>5, <5>1, <5>2, <5>4 DEF AloneFor
      <4>6. CASE job[b].stage = "restart"
        <5>1. machine[m].installed = ConfigOf(b)
          BY <2>2, <4>6 DEF AloneFor
        <5>2. machine'[m] = [machine[m] EXCEPT !.running = machine[m].installed]
          BY <4>1, <4>6 DEF Done
        <5>3. machine'[m] = [installed |-> ConfigOf(b), running |-> ConfigOf(b)]
          BY <4>4, <5>1, <5>2
        <5>4. job'[b].stage = "done"
          BY <4>2, <4>6 DEF Following
        <5>5. QED
          BY <2>2, <3>0, <4>1, <4>2, <4>3, <4>6, <5>3, <5>4 DEF AloneFor
      <4>7. QED
        BY <3>2, <4>5, <4>6 DEF Step, Steps, Following
    <3>3. CASE Fail(b) \/ Close(b)
      <4>1. ~job'[b].alone
        <5>1. CASE Fail(b)
          BY <3>0, <5>1 DEF Fail, Unremembered, TypeOK, Jobs
        <5>2. CASE Close(b)
          BY <3>0, <5>2 DEF Close, Unremembered, TypeOK, Jobs
        <5>3. QED
          BY <3>3, <5>1, <5>2
      <4>2. QED
        BY <1>3, <4>1
    <3>4. CASE Finish(b) \/ BadKey(b) \/ End(b) \/ Remember(b)
      BY <1>3, <3>4 DEF Finish, BadKey, End, Remember, Answer, Busy, TypeOK
    <3>5. CASE LookForKey(b) \/ CreateKey(b) \/ WriteKey(b)
      <4>1. /\ UNCHANGED <<file, machine>>
            /\ \E s \in {"creating", "writing", "reading"} :
                  job'[b] = [job[b] EXCEPT !.stream = s]
        BY <3>5 DEF LookForKey, CreateKey, WriteKey, Goto, TypeOK
      <4>2. /\ job'[b].stage = job[b].stage /\ job'[b].ok = job[b].ok
            /\ job'[b].secret = job[b].secret /\ job'[b].name = job[b].name
            /\ job'[b].again = job[b].again /\ job'[b].remember = job[b].remember
            /\ job'[b].copy = job[b].copy
        BY <3>0, <4>1 DEF Jobs
      <4>3. QED
        BY <2>2, <3>0, <4>1, <4>2 DEF AloneFor, ConfigOf
    <3>6. QED
      BY <1>3, <2>4, <3>1, <3>2, <3>3, <3>4, <3>5 DEF Worker, Generator
  <2>5. QED
    BY <2>3, <2>4
<1>4. ASSUME NEW m \in Machines, Forget(m), NEW b \in Deployments, Busy(b), job[b].alone
      PROVE  AloneFor(b)'
  <2>1. /\ UNCHANGED <<machine, job>> /\ file'.secret = file.secret
        /\ \A n \in Machines : file'.hosts[n] = None \/ file'.hosts[n] = file.hosts[n]
    BY <1>4 DEF Forget, TypeOK, Hosts
  <2>2. AloneFor(b) /\ job[b].machine \in Machines
    BY <1>4, JobFields DEF AloneInv
  <2>3. QED
    BY <2>1, <2>2 DEF AloneFor, ConfigOf, Busy
<1>5. ASSUME NEW m \in Machines, AgentRestarts(m), NEW b \in Deployments, Busy(b),
             job[b].alone
      PROVE  AloneFor(b)'
  <2>1. /\ UNCHANGED <<file, job>>
        /\ \A n \in Machines : n # m => machine'[n] = machine[n]
        /\ machine'[m] = [machine[m] EXCEPT !.running = machine[m].installed]
    BY <1>5 DEF AgentRestarts, TypeOK
  <2>2. AloneFor(b) /\ job[b].machine \in Machines
    BY <1>5, JobFields DEF AloneInv
  <2>3. /\ machine'[m].installed = machine[m].installed
        /\ \A c : machine[m] = [installed |-> c, running |-> c] => machine'[m] = machine[m]
    BY <2>1 DEF TypeOK
  <2>4. CASE job[b].machine = m
    BY <2>1, <2>2, <2>3, <2>4 DEF AloneFor, ConfigOf, Busy
  <2>5. CASE job[b].machine # m
    BY <2>1, <2>2, <2>5 DEF AloneFor, ConfigOf, Busy
  <2>6. QED
    BY <2>4, <2>5
<1>6. CASE Crash
  BY <1>6 DEF Crash, AloneInv, Busy
<1>7. CASE UNCHANGED vars
  BY <1>7 DEF vars, AloneInv, AloneFor, ConfigOf, Busy
<1>8. ASSUME NEW m \in Machines, Forget(m) \/ AgentRestarts(m) PROVE AloneInv'
  <2>1. UNCHANGED job
    BY <1>8 DEF Forget, AgentRestarts
  <2>2. QED
    BY <1>4, <1>5, <1>8, <2>1 DEF AloneInv, Busy
<1>9. ASSUME NEW d \in Deployments, Worker(d) \/ Generator(d) \/ Close(d) \/ End(d)
      PROVE  AloneInv'
  BY <1>3, <1>9 DEF AloneInv
<1>10. QED
  BY <1>1, <1>2, <1>6, <1>7, <1>8, <1>9 DEF Next

-----------------------------------------------------------------------------
\* The three invariants together are inductive.
Inv == TypeOK /\ KeyInv /\ AloneInv

LEMMA InvHolds == Spec => []Inv
<1>1. Init => Inv
  <2>1. Init => KeyInv /\ AloneInv
    BY DEF Init, KeyInv, AloneInv, At, Busy, Nobody
  <2>2. QED
    BY <2>1, InitTypeOK DEF Inv
<1>2. Inv /\ [Next]_vars => Inv'
  BY NextTypeOK, NextKeyInv, NextAloneInv DEF Inv
<1>3. QED
  BY <1>1, <1>2, PTL DEF Spec

\* The files, the machines and the deployments keep their shape.
THEOREM TypeCorrect == Spec => []TypeOK
<1>1. Inv => TypeOK
  BY DEF Inv
<1>2. QED
  BY <1>1, InvHolds, PTL

\* Every remembered password can be read with the key in the file.
THEOREM RememberedAlwaysDecrypts == Spec => []RememberedDecrypts
<1>1. Inv => RememberedDecrypts
  BY DEF Inv, KeyInv, RememberedDecrypts
<1>2. QED
  BY <1>1, InvHolds, PTL

\* What a deployment that reports success and was alone has brought about.
LEMMA TellsTruth ==
  ASSUME Inv, NEW d \in Deployments, TellsOk(d), job[d].alone
  PROVE  LET m == job[d].machine
         IN  /\ machine[m] = [installed |-> ConfigOf(d), running |-> ConfigOf(d)]
             /\ job[d].secret = file.secret
             /\ job[d].remember => file'.hosts[m] = [name |-> job[d].name, key |-> keyFile]
             /\ job[d].again =>
                   (file.hosts[m] # None => file.hosts[m].name = job[d].name)
             /\ job[d].again => job[d].remember
<1>1. Busy(d) /\ job[d].ok
  BY DEF TellsOk, Finish, Remember, At
<1>2. AloneFor(d) /\ job[d].machine \in Machines
  BY <1>1, JobFields DEF Inv, AloneInv
<1>3. job[d].remember =>
         file'.hosts[job[d].machine] = [name |-> job[d].name, key |-> keyFile]
  BY <1>1, <1>2 DEF TellsOk, Finish, Remember, Inv, TypeOK, Hosts
<1>4. job[d].stage = "done"
  BY <1>1, <1>2 DEF AloneFor
<1>5. QED
  BY <1>2, <1>3, <1>4 DEF AloneFor

\* Success is reported only of what is so.
THEOREM ToldOkAlwaysTrue == Spec => ToldOkIsTrue
<1>1. ASSUME Inv, NEW d \in Deployments, TellsOk(d), job[d].alone
      PROVE  LET m == job[d].machine
             IN  /\ machine[m] = [installed |-> ConfigOf(d), running |-> ConfigOf(d)]
                 /\ job[d].secret = file.secret
                 /\ job[d].remember => /\ file'.hosts[m] # None
                                       /\ file'.hosts[m].name = job[d].name
  <2> DEFINE m == job[d].machine
  <2>1. /\ machine[m] = [installed |-> ConfigOf(d), running |-> ConfigOf(d)]
        /\ job[d].secret = file.secret
        /\ job[d].remember => file'.hosts[m] = [name |-> job[d].name, key |-> keyFile]
    BY <1>1, TellsTruth
  <2>2. ASSUME job[d].remember
        PROVE  file'.hosts[m] # None /\ file'.hosts[m].name = job[d].name
    <3>1. Remember(d)
      BY <1>1, <2>2 DEF TellsOk, Finish
    <3>2. Busy(d) /\ keyFile \in Nat
      BY <3>1 DEF Remember, At
    <3>3. job[d].name \in Names
      BY <1>1, <3>2, JobFields DEF Inv
    <3>4. QED
      BY <2>1, <2>2, <3>2, <3>3, MarkersAssumption
  <2>3. QED
    BY <2>1, <2>2
<1>2. Inv => \A d \in Deployments : TellsOk(d) /\ job[d].alone =>
         LET m == job[d].machine
         IN  /\ machine[m] = [installed |-> ConfigOf(d), running |-> ConfigOf(d)]
             /\ job[d].secret = file.secret
             /\ job[d].remember => /\ file'.hosts[m] # None
                                   /\ file'.hosts[m].name = job[d].name
  BY <1>1
<1>3. QED
  BY <1>2, InvHolds, PTL DEF ToldOkIsTrue

\* A machine deployed again keeps the name it has.
THEOREM NameAlwaysKept == Spec => NameKept
<1>1. ASSUME Inv, NEW d \in Deployments, TellsOk(d), job[d].again, job[d].alone,
             file.hosts[job[d].machine] # None
      PROVE  file'.hosts[job[d].machine].name = file.hosts[job[d].machine].name
  <2>1. /\ file.hosts[job[d].machine].name = job[d].name
        /\ file'.hosts[job[d].machine] = [name |-> job[d].name, key |-> keyFile]
    BY <1>1, TellsTruth
  <2>2. QED
    BY <2>1
<1>2. Inv => \A d \in Deployments : TellsOk(d) /\ job[d].again /\ job[d].alone =>
         LET m == job[d].machine
         IN  file.hosts[m] # None => file'.hosts[m].name = file.hosts[m].name
  BY <1>1
<1>3. QED
  BY <1>2, InvHolds, PTL DEF NameKept
=============================================================================
