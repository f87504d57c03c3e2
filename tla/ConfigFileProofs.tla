--------------------------- MODULE ConfigFileProofs ---------------------------
(***************************************************************************)
(* What ConfigFile promises, for any number of threads and workers and any *)
(* requests, proved from the assumptions it states of its constants.       *)
(*                                                                         *)
(* The inductive invariant adds to TypeOK and WholeOrTorn what every job   *)
(* carries: nobody has raced with a job that has only loaded, every copy   *)
(* is complete, and the copy of a job nobody has come between is the       *)
(* configuration last written, or what the job's request makes of it.      *)
(***************************************************************************)
EXTENDS ConfigFile, TLAPS

\* A configuration whose form has the secrets it needs.
Complete(c) == c.form.edits # None => c.form.keys # None

Sections == {"form", "passkeys", "session", "agents", "hosts"}

\* What a request may be.
AnyRequest == FormRequests \cup PasskeyRequests \cup HostRequests \cup {Deploy, Startup}

LEMMA RequestKinds == Requests \cup {Startup} \subseteq AnyRequest
  BY RequestsAssumption DEF AnyRequest

LEMMA EmptyIsConfig ==
  /\ EmptyConfig \in Configs
  /\ Complete(EmptyConfig)
  /\ DOMAIN EmptyConfig = Sections
  BY DEF EmptyConfig, Configs, Forms, Agents, Complete, Sections

\* A change a handler goes on to make keeps the shape of the configuration, its
\* completeness and every section but its own.
LEMMA ChangedIsLocal ==
  ASSUME NEW c \in Configs, NEW r \in AnyRequest, NEW t,
         Accepted(c, r), Mints(c, r) => t \in Secrets
  PROVE  /\ Changed(c, r, t) \in Configs
         /\ \A s \in Sections \ {SectionOf(r)} : Changed(c, r, t)[s] = c[s]
         /\ Complete(c) => Complete(Changed(c, r, t))
<1>1. CASE r \in FormRequests
  <2>1. r.kind = "saveForm" /\ r.edits \in Edits /\ r.keys \in Keys \cup {Blank}
    BY <1>1 DEF FormRequests
  <2>2. Changed(c, r, t) = MergeSubmitted(c, r) /\ SectionOf(r) = "form"
    BY <2>1 DEF Changed, SectionOf
  <2>3. r.keys = Blank => c.form.keys # None
    BY <2>1 DEF Accepted
  <2>4. QED
    BY <2>1, <2>2, <2>3, MarkersAssumption
    DEF MergeSubmitted, Configs, Forms, Sections, Complete
<1>2. CASE r \in PasskeyRequests
  <2>1. r.kind \in {"register", "delete", "login"} /\ r.passkey \in Passkeys
    BY <1>2 DEF PasskeyRequests
  <2>2. SectionOf(r) = "passkeys"
    BY <2>1 DEF SectionOf
  <2>3. \E n \in 0..MaxCount \cup {None} :
           PasskeysChanged(c, r) = [c EXCEPT !.passkeys[r.passkey] = n]
    <3>1. c.passkeys[r.passkey] \in 0..MaxCount \cup {None}
      BY <2>1 DEF Configs
    <3>2. CASE r.kind = "register"
      BY <3>2, BoundsAssumption DEF PasskeysChanged
    <3>3. CASE r.kind = "delete"
      BY <3>3 DEF PasskeysChanged
    <3>4. CASE r.kind = "login"
      <4>1. c.passkeys[r.passkey] \in 0..MaxCount
        BY <3>1, <3>4 DEF Accepted
      <4> DEFINE n == IF c.passkeys[r.passkey] < MaxCount
                      THEN c.passkeys[r.passkey] + 1 ELSE c.passkeys[r.passkey]
      <4>2. n \in 0..MaxCount \cup {None}
        BY <4>1, BoundsAssumption
      <4>3. PasskeysChanged(c, r) = [c EXCEPT !.passkeys[r.passkey] = n]
        BY <3>4 DEF PasskeysChanged
      <4>4. QED
        BY <4>2, <4>3
    <3>5. QED
      BY <2>1, <3>2, <3>3, <3>4
  <2>4. Changed(c, r, t) = PasskeysChanged(c, r)
    BY <2>1 DEF Changed
  <2>5. QED
    BY <2>1, <2>2, <2>3, <2>4 DEF Configs, Sections, Complete
<1>3. CASE r \in HostRequests
  <2>1. r.kind \in {"remember", "forget"} /\ r.host \in Hosts
    BY <1>3 DEF HostRequests
  <2>2. Changed(c, r, t) = HostsChanged(c, r) /\ SectionOf(r) = "hosts"
    BY <2>1 DEF Changed, SectionOf
  <2>3. QED
    BY <2>1, <2>2 DEF HostsChanged, Configs, Sections, Complete
<1>4. CASE r = Deploy
  <2>1. r.kind = "deploy"
    BY <1>4 DEF Deploy
  <2>2. Changed(c, r, t) = AgentsEnsured(c, t) /\ SectionOf(r) = "agents"
    BY <2>1 DEF Changed, SectionOf
  <2>3. (IF c.agents.secret = None THEN t ELSE c.agents.secret) \in Secrets
    BY <2>1 DEF Mints, Configs, Agents
  <2> DEFINE new == IF c.agents.secret = None THEN t ELSE c.agents.secret
  <2>4. [secret |-> new, ready |-> TRUE] \in Agents
    BY <2>3 DEF Agents
  <2>5. AgentsEnsured(c, t) = [c EXCEPT !.agents = [secret |-> new, ready |-> TRUE]]
    BY DEF AgentsEnsured
  <2>6. ASSUME NEW x \in Agents
        PROVE  /\ [c EXCEPT !.agents = x] \in Configs
               /\ \A s \in Sections \ {"agents"} : [c EXCEPT !.agents = x][s] = c[s]
               /\ [c EXCEPT !.agents = x].form = c.form
    BY DEF Configs, Sections
  <2> HIDE DEF new
  <2>7. QED
    BY <2>2, <2>4, <2>5, <2>6 DEF Complete
<1>5. CASE r = Startup
  <2>1. r.kind = "startup" /\ t \in Secrets
    BY <1>5 DEF Startup, Mints
  <2>2. Changed(c, r, t) = SessionEnsured(c, t) /\ SectionOf(r) = "session"
    BY <2>1 DEF Changed, SectionOf
  <2>3. QED
    BY <2>1, <2>2 DEF SessionEnsured, Configs, Sections, Complete
<1>6. QED
  BY <1>1, <1>2, <1>3, <1>4, <1>5 DEF AnyRequest

\* A token nobody asked for makes no difference.
LEMMA TokenUnused ==
  ASSUME NEW c, NEW r \in AnyRequest, NEW t, ~Mints(c, r)
  PROVE  Changed(c, r, t) = Changed(c, r, None)
<1>1. CASE r.kind = "deploy"
  <2>1. c.agents.secret # None
    BY <1>1 DEF Mints
  <2>2. QED
    BY <1>1, <2>1 DEF Changed, AgentsEnsured
<1>2. CASE r.kind # "deploy"
  <2>1. r.kind \in {"saveForm", "register", "delete", "login", "remember", "forget"}
    BY <1>2 DEF AnyRequest, FormRequests, PasskeyRequests, HostRequests, Deploy,
                Startup, Mints
  <2>2. QED
    BY <2>1 DEF Changed
<1>3. QED
  BY <1>1, <1>2

-----------------------------------------------------------------------------
\* What a job that is under way looks like.
LEMMA JobTyped ==
  ASSUME TypeOK, NEW a \in Actors, job[a] # Idle
  PROVE  /\ job[a] \in Jobs
         /\ job[a].stage \in {"loaded", "emptied"}
         /\ job[a].request \in AnyRequest
         /\ job[a].cfg \in Configs
  BY RequestKinds DEF TypeOK, Jobs

\* What a handler starts from is a configuration.
LEMMA LoadedTyped ==
  ASSUME TypeOK, NEW r \in Requests \cup {Startup}, Loadable(r)
  PROVE  Loaded(r) \in Jobs /\ Loaded(r) # Idle
<1>1. Torn \in BOOLEAN
  BY DEF Torn
<1>2. (IF file = Missing THEN EmptyConfig ELSE file) \in Configs
  BY EmptyIsConfig DEF Loadable
<1>3. ASSUME NEW c \in Configs, NEW b \in BOOLEAN
      PROVE  [stage |-> "loaded", request |-> r, cfg |-> c,
              behind |-> b, raced |-> FALSE] \in Jobs
  BY DEF Jobs
<1>4. Loaded(r) \in Jobs
  BY <1>1, <1>2, <1>3, Zenon DEF Loaded
<1>5. QED
  BY <1>4, MarkersAssumption

\* The copy that is about to be written.
LEMMA NewCopy ==
  ASSUME TypeOK, NEW a \in Actors, EmptyFile(a)
  PROVE  /\ job[a] \in Jobs /\ job[a].stage = "loaded"
         /\ job'[a] \in Jobs /\ job'[a].stage = "emptied"
         /\ job'[a].request = job[a].request
         /\ job'[a].behind = job[a].behind
         /\ job'[a].raced = job[a].raced
         /\ Accepted(job[a].cfg, job[a].request)
         /\ \E t \in Tokens(job[a].cfg, job[a].request) :
               job'[a].cfg = Changed(job[a].cfg, job[a].request, t)
         /\ \A s \in Sections \ {SectionOf(job[a].request)} :
               job'[a].cfg[s] = job[a].cfg[s]
         /\ Complete(job[a].cfg) => Complete(job'[a].cfg)
         /\ minted' \in 0..MaxSecrets
<1> DEFINE r == job[a].request
           mints == Mints(job[a].cfg, r)
           n == Changed(job[a].cfg, r, minted + 1)
<1>1. job[a] # Idle /\ job[a].stage = "loaded" /\ Accepted(job[a].cfg, r)
  BY DEF EmptyFile, At
<1>2. job[a] \in Jobs /\ r \in AnyRequest /\ job[a].cfg \in Configs
  BY <1>1, JobTyped
<1>3. /\ mints => minted < MaxSecrets
      /\ minted' = IF mints THEN minted + 1 ELSE minted
  BY DEF EmptyFile
<1>4. mints => minted + 1 \in Secrets
  BY <1>3, BoundsAssumption DEF TypeOK, Secrets
<1>5. minted' \in 0..MaxSecrets
  <2>1. minted \in 0..MaxSecrets
    BY DEF TypeOK
  <2>2. CASE mints
    BY <1>3, <2>1, <2>2, BoundsAssumption
  <2>3. CASE ~mints
    BY <1>3, <2>1, <2>3
  <2>4. QED
    BY <2>2, <2>3
<1>6. job'[a] = [job[a] EXCEPT !.stage = "emptied", !.cfg = n]
  BY DEF EmptyFile
<1>7. /\ n \in Configs
      /\ \A s \in Sections \ {SectionOf(r)} : n[s] = job[a].cfg[s]
      /\ Complete(job[a].cfg) => Complete(n)
  BY <1>1, <1>2, <1>4, ChangedIsLocal
<1>10. \E t \in Tokens(job[a].cfg, r) : n = Changed(job[a].cfg, r, t)
  <2>1. CASE mints
    BY <1>4, <2>1 DEF Tokens
  <2>2. CASE ~mints
    BY <1>2, <2>2, TokenUnused DEF Tokens
  <2>3. QED
    BY <2>1, <2>2
<1> HIDE DEF n
<1>8. /\ job'[a] \in Jobs
      /\ job'[a].stage = "emptied"
      /\ job'[a].request = job[a].request
      /\ job'[a].behind = job[a].behind
      /\ job'[a].raced = job[a].raced
      /\ job'[a].cfg = n
  BY <1>2, <1>6, <1>7 DEF Jobs
<1>9. QED
  BY <1>1, <1>2, <1>5, <1>7, <1>8, <1>10

\* A worker that has finished its start has a secret, or none yet.
LEMMA ServeTyped ==
  ASSUME TypeOK, NEW a \in Actors, job[a] # Idle, Serve(a)
  PROVE  secret' \in [Workers -> Secrets \cup {None}]
  BY JobTyped DEF Serve, TypeOK, Configs

LEMMA InitTypeOK == Init => TypeOK
  BY EmptyIsConfig, FirstFilesAssumption, BoundsAssumption DEF Init, TypeOK

LEMMA NextTypeOK == TypeOK /\ [Next]_vars => TypeOK'
<1> SUFFICES ASSUME TypeOK, [Next]_vars PROVE TypeOK'
  OBVIOUS
<1>1. ASSUME NEW t \in Threads, NEW r \in Requests, Load(t, r) PROVE TypeOK'
  BY <1>1, LoadedTyped DEF TypeOK, Load, Actors
<1>2. ASSUME NEW w \in Workers, Start(w) PROVE TypeOK'
  BY <1>2, LoadedTyped DEF TypeOK, Start, Actors
<1>3. ASSUME NEW w \in Workers, StartUnconfigured(w) PROVE TypeOK'
  BY <1>3, BoundsAssumption DEF TypeOK, StartUnconfigured, Secrets
<1>4. ASSUME NEW a \in Actors, Decline(a) PROVE TypeOK'
  BY <1>4, ServeTyped DEF TypeOK, Decline, At
<1>5. ASSUME NEW a \in Actors, EmptyFile(a) PROVE TypeOK'
  <2>2. job'[a] \in Jobs
    BY <1>5, NewCopy
  <2>3. \A b \in Actors \ {a} : job'[b] \in Jobs \cup {Idle}
    BY <1>5 DEF EmptyFile, TypeOK, Jobs
  <2>4. job' \in [Actors -> Jobs \cup {Idle}]
    BY <1>5, <2>2, <2>3 DEF EmptyFile
  <2>5. QED
    BY <1>5, <2>4, NewCopy, EmptyIsConfig DEF EmptyFile, TypeOK
<1>6. ASSUME NEW a \in Actors, WriteFile(a) PROVE TypeOK'
  <2>1. job' \in [Actors -> Jobs \cup {Idle}]
    BY <1>6 DEF WriteFile, TypeOK, Jobs
  <2>2. QED
    BY <1>6, <2>1, JobTyped, ServeTyped DEF WriteFile, At, TypeOK
<1>7. CASE Crash
  BY <1>7 DEF Crash, TypeOK
<1>8. CASE UNCHANGED vars
  BY <1>8 DEF vars, TypeOK
<1>9. QED
  BY <1>1, <1>2, <1>3, <1>4, <1>5, <1>6, <1>7, <1>8 DEF Next

\* The state of ConfigFile keeps its shape: what is loaded, copied and written
\* is always a configuration.
THEOREM TypeCorrect == Spec => []TypeOK
  BY InitTypeOK, NextTypeOK, PTL DEF Spec

-----------------------------------------------------------------------------
\* Only a job that has emptied the file can have been raced.
NotRaced == \A a \in Actors : At(a, "loaded") => ~job[a].raced

FileInv == TypeOK /\ WholeOrTorn /\ NotRaced

LEMMA InitFileInv == Init => FileInv
  BY InitTypeOK DEF Init, FileInv, WholeOrTorn, NotRaced, At

LEMMA NextFileInv == FileInv /\ [Next]_vars => FileInv'
<1> SUFFICES ASSUME FileInv, [Next]_vars PROVE WholeOrTorn' /\ NotRaced'
  BY NextTypeOK DEF FileInv
<1> USE DEF FileInv
<1>1. ASSUME NEW a \in Actors, NEW r \in Requests \cup {Startup},
             job[a] = Idle, Loadable(r), job' = [job EXCEPT ![a] = Loaded(r)],
             UNCHANGED <<file, whole>>
      PROVE  WholeOrTorn' /\ NotRaced'
  <2>1. \A b \in Actors : b # a => job'[b] = job[b]
    BY <1>1 DEF TypeOK
  <2>2. job'[a] = Loaded(r) /\ ~Loaded(r).raced
    BY <1>1 DEF TypeOK, Loaded
  <2>3. NotRaced'
    BY <2>1, <2>2 DEF NotRaced, At
  <2>4. Torn => Torn'
    BY <1>1, <2>1 DEF Torn, At
  <2>5. QED
    BY <1>1, <2>3, <2>4 DEF WholeOrTorn
<1>2. ASSUME NEW t \in Threads, NEW r \in Requests, Load(t, r)
      PROVE  WholeOrTorn' /\ NotRaced'
  BY <1>1, <1>2 DEF Load, Actors
<1>3. ASSUME NEW w \in Workers, Start(w) PROVE WholeOrTorn' /\ NotRaced'
  BY <1>1, <1>3 DEF Start, Actors
<1>4. ASSUME NEW w \in Workers, StartUnconfigured(w)
      PROVE  WholeOrTorn' /\ NotRaced'
  BY <1>4 DEF StartUnconfigured, WholeOrTorn, NotRaced, Torn, At
<1>5. ASSUME NEW a \in Actors, Decline(a) PROVE WholeOrTorn' /\ NotRaced'
  <2>1. Torn => Torn'
    BY <1>5 DEF Decline, Torn, At, TypeOK
  <2>2. NotRaced'
    BY <1>5 DEF Decline, NotRaced, At, TypeOK
  <2>3. QED
    BY <1>5, <2>1, <2>2 DEF Decline, WholeOrTorn
<1>6. ASSUME NEW a \in Actors, EmptyFile(a) PROVE WholeOrTorn' /\ NotRaced'
  <2>1. job[a] \in Jobs /\ job[a] # Idle /\ ~job[a].raced
    BY <1>6, JobTyped DEF EmptyFile, At, NotRaced
  <2>2. job'[a] \in Jobs /\ job'[a].stage = "emptied" /\ ~job'[a].raced
    BY <1>6, <2>1, NewCopy
  <2>3. Torn'
    BY <2>2, MarkersAssumption DEF Torn, At
  <2>4. \A b \in Actors \ {a} : job'[b] # Idle => ~job'[b].raced
    BY <1>6 DEF EmptyFile, TypeOK, Jobs
  <2>5. NotRaced'
    BY <2>2, <2>4 DEF NotRaced, At
  <2>6. QED
    BY <1>6, <2>3, <2>5 DEF EmptyFile, WholeOrTorn
<1>7. ASSUME NEW a \in Actors, WriteFile(a) PROVE WholeOrTorn' /\ NotRaced'
  <2>1. WholeOrTorn'
    BY <1>7 DEF WriteFile, WholeOrTorn
  <2>2. NotRaced'
    <3>1. SUFFICES ASSUME NEW b \in Actors, At(b, "loaded")' PROVE ~job'[b].raced
      BY DEF NotRaced
    <3>2. job[b] # Idle /\ job'[b] = [job[b] EXCEPT !.behind = TRUE,
                !.raced = job[b].raced \/ job[b].stage = "emptied"]
      BY <1>7, <3>1 DEF WriteFile, At
    <3>3. job[b] \in Jobs
      BY <3>2, JobTyped
    <3>4. job[b].stage = "loaded" /\ job'[b].raced = job[b].raced
      BY <3>1, <3>2, <3>3 DEF At, Jobs
    <3>5. QED
      BY <3>2, <3>4 DEF NotRaced, At
  <2>3. QED
    BY <2>1, <2>2
<1>8. CASE Crash
  <2>1. NotRaced'
    BY <1>8 DEF Crash, NotRaced, At
  <2>2. WholeOrTorn'
    BY <1>8, EmptyIsConfig DEF Crash, WholeOrTorn, TypeOK
  <2>3. QED
    BY <2>1, <2>2
<1>9. CASE UNCHANGED vars
  BY <1>9 DEF vars, WholeOrTorn, NotRaced, Torn, At
<1>10. QED
  BY <1>2, <1>3, <1>4, <1>5, <1>6, <1>7, <1>8, <1>9 DEF Next

\* A load finds the configuration last written, or the empty one while a write
\* is under way, or what two overlapping writes have left.
THEOREM FileIsWholeOrTorn == Spec => []WholeOrTorn
<1>1. Spec => []FileInv
  BY InitFileInv, NextFileInv, PTL DEF Spec
<1>2. FileInv => WholeOrTorn
  BY DEF FileInv
<1>3. QED
  BY <1>1, <1>2, PTL

\* What a handler that can load finds in the file.
LEMMA LoadedFrom ==
  ASSUME FileInv, NEW r \in Requests \cup {Startup}, Loadable(r)
  PROVE  Loaded(r).cfg \in {whole, EmptyConfig} /\ (~Torn => Loaded(r).cfg = whole)
  BY MarkersAssumption, EmptyIsConfig
  DEF FileInv, WholeOrTorn, TypeOK, Loadable, Loaded

-----------------------------------------------------------------------------
\* Every copy that is about to be written is complete.
FormInv ==
  /\ FileInv
  /\ Complete(whole)
  /\ \A a \in Actors : job[a] # Idle => Complete(job[a].cfg)

LEMMA InitFormInv == Init => FormInv
  BY InitFileInv, EmptyIsConfig, FirstFilesAssumption DEF Init, FormInv, Complete

LEMMA NextFormInv == FormInv /\ [Next]_vars => FormInv'
<1> DEFINE Copies == \A a \in Actors : job[a] # Idle => Complete(job[a].cfg)
<1> SUFFICES ASSUME FormInv, [Next]_vars PROVE Complete(whole)' /\ Copies'
  BY NextFileInv DEF FormInv
<1> USE DEF FormInv
<1>1. ASSUME NEW a \in Actors, NEW r \in Requests \cup {Startup},
             Loadable(r), job' = [job EXCEPT ![a] = Loaded(r)], UNCHANGED whole
      PROVE  Complete(whole)' /\ Copies'
  <2>1. Complete(Loaded(r).cfg)
    BY <1>1, LoadedFrom, EmptyIsConfig
  <2>2. QED
    BY <1>1, <2>1 DEF FileInv, TypeOK, Complete
<1>2. ASSUME NEW t \in Threads, NEW r \in Requests, Load(t, r)
      PROVE  Complete(whole)' /\ Copies'
  BY <1>1, <1>2 DEF Load, Actors
<1>3. ASSUME NEW w \in Workers, Start(w) PROVE Complete(whole)' /\ Copies'
  BY <1>1, <1>3 DEF Start, Actors
<1>4. ASSUME NEW w \in Workers, StartUnconfigured(w)
      PROVE  Complete(whole)' /\ Copies'
  BY <1>4 DEF StartUnconfigured, Complete
<1>5. ASSUME NEW a \in Actors, Decline(a) PROVE Complete(whole)' /\ Copies'
  BY <1>5 DEF Decline, FileInv, TypeOK, Complete
<1>6. ASSUME NEW a \in Actors, EmptyFile(a) PROVE Complete(whole)' /\ Copies'
  <2>1. job[a] # Idle /\ job[a] \in Jobs
    BY <1>6, JobTyped DEF EmptyFile, At, FileInv
  <2>2. Complete(job'[a].cfg)
    <3>1. Complete(job[a].cfg)
      BY <2>1
    <3>2. QED
      BY <1>6, <3>1, NewCopy DEF FileInv
  <2>3. \A b \in Actors \ {a} : job'[b] # Idle => job[b] # Idle /\ job'[b].cfg = job[b].cfg
    BY <1>6 DEF EmptyFile, FileInv, TypeOK, Jobs
  <2>4. QED
    BY <1>6, <2>2, <2>3 DEF EmptyFile, Complete
<1>7. ASSUME NEW a \in Actors, WriteFile(a) PROVE Complete(whole)' /\ Copies'
  <2>1. \A b \in Actors : job'[b] # Idle => job[b] # Idle /\ job'[b].cfg = job[b].cfg
    BY <1>7 DEF WriteFile, FileInv, TypeOK, Jobs
  <2>2. Complete(whole)'
    BY <1>7 DEF WriteFile, At, Complete
  <2>3. QED
    BY <2>1, <2>2 DEF Complete
<1>8. CASE Crash
  <2>1. whole' \in {whole, EmptyConfig}
    BY <1>8, MarkersAssumption DEF Crash, FileInv, TypeOK, WholeOrTorn
  <2>2. QED
    BY <1>8, <2>1, EmptyIsConfig DEF Crash, Complete
<1>9. CASE UNCHANGED vars
  BY <1>9 DEF vars, Complete
<1>10. QED
  BY <1>2, <1>3, <1>4, <1>5, <1>6, <1>7, <1>8, <1>9 DEF Next

\* No form is ever saved without the secrets it needs, also when it was merged
\* into what an overlapping or broken-off write had left.
THEOREM FormNeverHalf == Spec => []NoHalfForm
<1>1. Spec => []FormInv
  BY InitFormInv, NextFormInv, PTL DEF Spec
<1>2. FormInv => NoHalfForm
  BY DEF FormInv, NoHalfForm, Complete
<1>3. QED
  BY <1>1, <1>2, PTL

-----------------------------------------------------------------------------
\* The copy of a job nobody has come between: the configuration last written,
\* and after its change what the request makes of that.
Quiet ==
  \A a \in Actors : job[a] # Idle /\ ~job[a].behind =>
     /\ ~job[a].raced
     /\ job[a].stage = "loaded" => job[a].cfg = whole
     /\ job[a].stage = "emptied" =>
           /\ Accepted(whole, job[a].request)
           /\ \E t \in Tokens(whole, job[a].request) :
                 job[a].cfg = Changed(whole, job[a].request, t)

QuietInv == FileInv /\ Quiet

LEMMA NextQuietInv == QuietInv /\ [Next]_vars => QuietInv'
<1> SUFFICES ASSUME QuietInv, [Next]_vars PROVE Quiet'
  BY NextFileInv DEF QuietInv
<1> USE DEF QuietInv
<1>1. ASSUME NEW a \in Actors, NEW r \in Requests \cup {Startup},
             Loadable(r), job' = [job EXCEPT ![a] = Loaded(r)], UNCHANGED whole
      PROVE  Quiet'
  <2>1. /\ Loaded(r).behind = Torn
        /\ Loaded(r).stage = "loaded"
        /\ ~Loaded(r).raced
    BY DEF Loaded
  <2>2. ~Loaded(r).behind => Loaded(r).cfg = whole
    BY <1>1, <2>1, LoadedFrom
  <2>3. job'[a] = Loaded(r) /\ \A b \in Actors \ {a} : job'[b] = job[b]
    BY <1>1 DEF FileInv, TypeOK
  <2>4. QED
    BY <1>1, <2>1, <2>2, <2>3 DEF Quiet
<1>2. ASSUME NEW t \in Threads, NEW r \in Requests, Load(t, r) PROVE Quiet'
  BY <1>1, <1>2 DEF Load, Actors
<1>3. ASSUME NEW w \in Workers, Start(w) PROVE Quiet'
  BY <1>1, <1>3 DEF Start, Actors
<1>4. ASSUME NEW w \in Workers, StartUnconfigured(w) PROVE Quiet'
  BY <1>4 DEF StartUnconfigured, Quiet
<1>5. ASSUME NEW a \in Actors, Decline(a) PROVE Quiet'
  BY <1>5 DEF Decline, FileInv, TypeOK, Quiet
<1>6. ASSUME NEW a \in Actors, EmptyFile(a) PROVE Quiet'
  <2>1. job[a] # Idle /\ job[a] \in Jobs /\ job[a].stage = "loaded"
    BY <1>6, JobTyped DEF EmptyFile, At, FileInv
  <2>2. \A b \in Actors \ {a} : job'[b] # Idle => job'[b].behind
    BY <1>6 DEF EmptyFile, FileInv, TypeOK, Jobs
  <2>3. /\ job'[a].stage = "emptied"
        /\ job'[a].behind = job[a].behind
        /\ job'[a].raced = job[a].raced
        /\ job'[a].request = job[a].request
        /\ Accepted(job[a].cfg, job[a].request)
        /\ \E t \in Tokens(job[a].cfg, job[a].request) :
              job'[a].cfg = Changed(job[a].cfg, job[a].request, t)
    BY <1>6, NewCopy DEF FileInv
  <2>4. whole' = whole
    BY <1>6 DEF EmptyFile
  <2>5. QED
    BY <2>1, <2>2, <2>3, <2>4 DEF Quiet
<1>7. ASSUME NEW a \in Actors, WriteFile(a) PROVE Quiet'
  <2>1. \A b \in Actors : job'[b] # Idle => job'[b].behind
    BY <1>7 DEF WriteFile, FileInv, TypeOK, Jobs
  <2>2. QED
    BY <2>1 DEF Quiet
<1>8. CASE Crash
  BY <1>8 DEF Crash, Quiet
<1>9. CASE UNCHANGED vars
  BY <1>9 DEF vars, Quiet
<1>10. QED
  BY <1>2, <1>3, <1>4, <1>5, <1>6, <1>7, <1>8, <1>9 DEF Next

\* What such a handler writes.
LEMMA AloneWrites ==
  ASSUME QuietInv, NEW a \in Actors, WriteFile(a), ~job[a].behind
  PROVE  /\ Accepted(whole, job[a].request)
         /\ \E t \in Tokens(whole, job[a].request) :
               whole' = Changed(whole, job[a].request, t)
<1>1. At(a, "emptied") /\ ~job[a].raced
  BY DEF WriteFile, At, QuietInv, Quiet
<1>2. whole' = job[a].cfg
  BY <1>1 DEF WriteFile
<1>3. QED
  BY <1>1, <1>2 DEF At, QuietInv, Quiet

\* Handlers that no other writer comes between have the effect of single steps,
\* each on the configuration as it is when the handler ends.
THEOREM AloneAlwaysAtomic == Spec => AloneIsAtomic
<1> DEFINE Atomic == \A a \in Actors : WriteFile(a) /\ ~job[a].behind =>
                        /\ Accepted(whole, job[a].request)
                        /\ \E t \in Tokens(whole, job[a].request) :
                              whole' = Changed(whole, job[a].request, t)
<1>1. Init => QuietInv
  BY InitFileInv DEF Init, QuietInv, Quiet
<1>2. QuietInv /\ [Next]_vars => [Atomic]_vars
  BY AloneWrites
<1>3. QED
  BY <1>1, <1>2, NextQuietInv, PTL DEF Spec, AloneIsAtomic

\* A handler that no other writer has come between changes its own section and
\* nothing else, in the configuration as it is when the handler ends.
THEOREM OthersAlwaysKept == Spec => OthersKept
<1> DEFINE Keeps == \A a \in Actors : WriteFile(a) /\ ~job[a].behind =>
                       \A s \in DOMAIN EmptyConfig \ {SectionOf(job[a].request)} :
                          whole'[s] = whole[s]
<1>1. Init => QuietInv
  BY InitFileInv DEF Init, QuietInv, Quiet
<1>2. QuietInv /\ [Next]_vars => [Keeps]_vars
  <2> SUFFICES ASSUME QuietInv, NEW a \in Actors, WriteFile(a), ~job[a].behind,
                      NEW s \in Sections \ {SectionOf(job[a].request)}
               PROVE  whole'[s] = whole[s]
    BY EmptyIsConfig
  <2>1. PICK t \in Tokens(whole, job[a].request) : whole' = Changed(whole, job[a].request, t)
    BY AloneWrites
  <2>2. Mints(whole, job[a].request) => t \in Secrets
    BY DEF Tokens
  <2>3. whole \in Configs /\ job[a].request \in AnyRequest
    BY JobTyped DEF WriteFile, At, QuietInv, FileInv, TypeOK
  <2>4. Accepted(whole, job[a].request)
    BY AloneWrites
  <2>5. QED
    BY <2>1, <2>2, <2>3, <2>4, ChangedIsLocal
<1>3. QED
  BY <1>1, <1>2, NextQuietInv, PTL DEF Spec, OthersKept
=============================================================================
