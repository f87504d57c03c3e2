-------------------------- MODULE LoginGuardProofs --------------------------
(***************************************************************************)
(* What the brute-force guard guarantees for any number of addresses and   *)
(* request threads and any limits, proved from the assumptions LoginGuard  *)
(* states of its constants.                                                *)
(*                                                                         *)
(* The inductive invariant is TypeOK /\ OverLimitIsLocked /\               *)
(* GuessesBounded.  GuessesBounded is not inductive by itself: letting one *)
(* more login through adds to its left side, and only OverLimitIsLocked    *)
(* says that an address which is let through has failures to spare.  That  *)
(* a lockout is limited follows from the same count of logins in flight.   *)
(***************************************************************************)
EXTENDS LoginGuard, FiniteSetTheorems, TLAPS

\* No lockout may be configured to last longer than the longest.
LEMMA LengthsBounded ==
  ASSUME NEW n \in LockoutLengths
  PROVE  n \in Nat /\ n <= MostSeconds
  BY LimitsAssumption DEF LockoutLengths, LimitPairs

\* The guard's state is well formed from the first request on.
LEMMA InitTypeOK == Init => TypeOK
  BY LimitsAssumption DEF Init, TypeOK, LockoutLengths

\* A request thread that moves to another stage still holds a login.
LEMMA GotoTyped ==
  ASSUME TypeOK, NEW r \in Requests, req[r] # Idle, NEW s \in Stages, Goto(r, s)
  PROVE  /\ req' \in [Requests -> Logins \cup {Idle}]
         /\ req' = [req EXCEPT ![r] = [req[r] EXCEPT !.stage = s]]
         /\ req[r] \in Logins
  BY DEF TypeOK, Logins, Goto

\* A request thread that has answered is idle.
LEMMA AnswerTyped ==
  ASSUME TypeOK, NEW r \in Requests, Answer(r)
  PROVE  req' \in [Requests -> Logins \cup {Idle}]
  BY DEF TypeOK, Answer

\* The guard's three methods keep its two tables well formed.
LEMMA ForgetExpiredTyped ==
  ASSUME TypeOK, NEW ip \in IPs, ForgetExpired(ip)
  PROVE  fails' \in [IPs -> Nat] /\ lockouts' \in [IPs -> Nat \cup {NoLockout}]
  BY DEF TypeOK, ForgetExpired

LEMMA RecordFailureTyped ==
  ASSUME TypeOK, NEW ip \in IPs, RecordFailure(ip)
  PROVE  fails' \in [IPs -> Nat] /\ lockouts' \in [IPs -> Nat \cup {NoLockout}]
  BY DEF TypeOK, RecordFailure, LimitPairs

LEMMA RecordSuccessTyped ==
  ASSUME TypeOK, NEW ip \in IPs, RecordSuccess(ip)
  PROVE  fails' \in [IPs -> Nat] /\ lockouts' \in [IPs -> Nat \cup {NoLockout}]
  BY DEF TypeOK, RecordSuccess

\* The limits a login carries are limits that may be set.
LEMMA LimitsTyped ==
  ASSUME TypeOK, NEW r \in Requests, req[r] # Idle
  PROVE  /\ req[r] \in Logins
         /\ req[r].ip \in IPs
         /\ req[r].limits \in Limits \cup {DefaultLimits}
         /\ req[r].limits \in LimitPairs
         /\ req[r].limits.attempts <= MostAttempts
         /\ req[r].limits.seconds \in LockoutLengths
  BY LimitsAssumption DEF TypeOK, Logins, LockoutLengths

LEMMA NextTypeOK == TypeOK /\ [Next]_vars => TypeOK'
<1> SUFFICES ASSUME TypeOK, [Next]_vars PROVE TypeOK'
  OBVIOUS
<1>1. ASSUME NEW r \in Requests, NEW ip \in IPs, Arrive(r, ip) PROVE TypeOK'
  <2>1. [stage |-> "loaded", ip |-> ip, limits |-> file] \in Logins
    BY DEF TypeOK, Logins, Stages
  <2>2. QED
    BY <1>1, <2>1 DEF TypeOK, Arrive
<1>2. ASSUME NEW r \in Requests, Refuse(r) PROVE TypeOK'
  BY <1>2, AnswerTyped DEF TypeOK, Refuse
<1>3. ASSUME NEW r \in Requests, Admit(r) PROVE TypeOK'
  BY <1>3, GotoTyped, LimitsTyped, ForgetExpiredTyped DEF TypeOK, Admit, At, Stages
<1>4. ASSUME NEW r \in Requests, SetMaxAttempts(r) PROVE TypeOK'
  <2>1. req' \in [Requests -> Logins \cup {Idle}]
    BY <1>4, GotoTyped DEF SetMaxAttempts, At, Stages
  <2>2. /\ guard' \in LimitPairs
        /\ guard'.attempts <= MostAttempts /\ guard'.seconds \in LockoutLengths
    BY <1>4, LimitsTyped DEF SetMaxAttempts, At, TypeOK, LimitPairs
  <2>3. QED
    BY <1>4, <2>1, <2>2 DEF TypeOK, SetMaxAttempts
<1>5. ASSUME NEW r \in Requests, SetLockoutSeconds(r) PROVE TypeOK'
  <2>1. req' \in [Requests -> Logins \cup {Idle}]
    BY <1>5, GotoTyped DEF SetLockoutSeconds, At, Stages
  <2>2. /\ guard' \in LimitPairs
        /\ guard'.attempts <= MostAttempts /\ guard'.seconds \in LockoutLengths
    BY <1>5, LimitsTyped DEF SetLockoutSeconds, At, TypeOK, LimitPairs
  <2>3. QED
    BY <1>5, <2>1, <2>2 DEF TypeOK, SetLockoutSeconds
<1>6. ASSUME NEW r \in Requests, Fail(r) PROVE TypeOK'
  BY <1>6, AnswerTyped, LimitsTyped, RecordFailureTyped DEF TypeOK, Fail, At
<1>7. ASSUME NEW r \in Requests, PasswordLogin(r) PROVE TypeOK'
  BY <1>7, AnswerTyped, LimitsTyped, RecordSuccessTyped DEF TypeOK, PasswordLogin, At
<1>8. ASSUME NEW r \in Requests, SaveSignCount(r) PROVE TypeOK'
  BY <1>8, GotoTyped, LimitsTyped DEF TypeOK, SaveSignCount, At, Stages
<1>9. ASSUME NEW r \in Requests, PasskeyLogin(r) PROVE TypeOK'
  BY <1>9, AnswerTyped, LimitsTyped, RecordSuccessTyped DEF TypeOK, PasskeyLogin, At
<1>10. ASSUME NEW r \in Requests, Break(r) PROVE TypeOK'
  BY <1>10, AnswerTyped DEF TypeOK, Break
<1>11. ASSUME NEW ip \in IPs, LoginOptions(ip) PROVE TypeOK'
  BY <1>11, ForgetExpiredTyped DEF TypeOK, LoginOptions
<1>12. ASSUME NEW l \in Limits, SaveLimits(l) PROVE TypeOK'
  BY <1>12 DEF TypeOK, SaveLimits
<1>13. CASE Tick
  BY <1>13, MarkersAssumption DEF TypeOK, Tick, IsLocked
<1>14. CASE Restart
  BY <1>14, LimitsAssumption DEF TypeOK, Restart, LockoutLengths
<1>15. CASE UNCHANGED vars
  BY <1>15 DEF TypeOK, vars
<1>16. QED
  BY <1>1, <1>2, <1>3, <1>4, <1>5, <1>6, <1>7, <1>8, <1>9, <1>10, <1>11, <1>12,
     <1>13, <1>14, <1>15 DEF Next, Handle

\* The guard's tables, the thread table and the limits keep their types.
THEOREM TypeCorrect == Spec => []TypeOK
  BY InitTypeOK, NextTypeOK, PTL DEF Spec

-----------------------------------------------------------------------------
\* record_failure places a lockout as soon as the count reaches the limit in
\* force, and no limit in force is larger than MostAttempts.
LEMMA NextOverLimitIsLocked ==
    TypeOK /\ OverLimitIsLocked /\ [Next]_vars => OverLimitIsLocked'
<1> SUFFICES ASSUME TypeOK, OverLimitIsLocked, [Next]_vars, NEW i \in IPs,
                    fails'[i] >= MostAttempts
             PROVE  lockouts'[i] # NoLockout
  BY DEF OverLimitIsLocked
<1> USE DEF OverLimitIsLocked
<1>0. MostAttempts \in Nat \ {0}
  BY LimitsAssumption DEF LimitPairs
<1>1. ASSUME NEW ip \in IPs, ForgetExpired(ip) PROVE lockouts'[i] # NoLockout
  BY <1>0, <1>1, MarkersAssumption DEF ForgetExpired, TypeOK
<1>2. ASSUME NEW ip \in IPs, RecordFailure(ip) PROVE lockouts'[i] # NoLockout
  BY <1>0, <1>2, MarkersAssumption DEF RecordFailure, TypeOK, LimitPairs
<1>3. ASSUME NEW ip \in IPs, RecordSuccess(ip) PROVE lockouts'[i] # NoLockout
  BY <1>0, <1>3, MarkersAssumption DEF RecordSuccess, TypeOK
<1>4. ASSUME UNCHANGED <<fails, lockouts>> PROVE lockouts'[i] # NoLockout
  BY <1>4
<1>5. CASE Tick
  BY <1>5, MarkersAssumption DEF Tick, IsLocked, TypeOK
<1>6. CASE Restart
  BY <1>0, <1>6 DEF Restart
<1>7. ASSUME NEW r \in Requests, Handle(r) PROVE lockouts'[i] # NoLockout
  <2>1. req[r] # Idle
    BY <1>7 DEF Handle, Refuse, Admit, SetMaxAttempts, SetLockoutSeconds, Fail,
                PasswordLogin, SaveSignCount, PasskeyLogin, Break, At
  <2>2. req[r].ip \in IPs
    BY <2>1, LimitsTyped
  <2>3. QED
    BY <1>1, <1>2, <1>3, <1>4, <1>7, <2>2
       DEF Handle, Refuse, Admit, SetMaxAttempts, SetLockoutSeconds, Fail,
           PasswordLogin, SaveSignCount, PasskeyLogin, Break
<1>8. QED
  BY <1>1, <1>4, <1>5, <1>6, <1>7 DEF Next, vars, Arrive, LoginOptions, SaveLimits

\* An address whose failures have reached the largest limit in use is locked,
\* however the limits have been saved and half written meanwhile.
THEOREM OverLimitAlwaysLocked == Spec => []OverLimitIsLocked
<1>1. Init => OverLimitIsLocked
  BY LimitsAssumption DEF Init, OverLimitIsLocked, LimitPairs
<1>2. QED
  BY <1>1, TypeCorrect, NextOverLimitIsLocked, PTL DEF Spec

-----------------------------------------------------------------------------
\* The logins the guard has let through are finitely many.
LEMMA AdmittedFinite ==
  ASSUME NEW ip \in IPs
  PROVE  /\ IsFiniteSet(Admitted(ip))
         /\ Cardinality(Admitted(ip)) \in Nat
         /\ Cardinality(Admitted(ip)) <= Cardinality(Requests)
         /\ Cardinality(Requests) \in Nat
<1>1. Admitted(ip) \in SUBSET Requests
  BY DEF Admitted
<1>2. QED
  BY <1>1, ThreadsAssumption, FS_Subset, FS_CardinalityType

\* The same of the next state.
LEMMA AdmittedFiniteNext ==
  ASSUME NEW ip \in IPs
  PROVE  /\ IsFiniteSet(Admitted(ip)')
         /\ Cardinality(Admitted(ip)') \in Nat
         /\ Cardinality(Admitted(ip)') <= Cardinality(Requests)
         /\ Cardinality(Requests) \in Nat
<1>1. Admitted(ip)' \in SUBSET Requests
  BY DEF Admitted
<1>2. QED
  BY <1>1, ThreadsAssumption, FS_Subset, FS_CardinalityType

\* Only Admit adds to the logins let through; every answer takes one away.
LEMMA AdmittedShrinks ==
  ASSUME TypeOK, [Next]_vars, NEW ip \in IPs,
         ~ \E r \in Requests : Admit(r) /\ req[r].ip = ip
  PROVE  Admitted(ip)' \subseteq Admitted(ip)
<1> SUFFICES ASSUME NEW q \in Requests, q \in Admitted(ip)', q \notin Admitted(ip)
             PROVE  FALSE
  BY DEF Admitted
<1>1. req'[q] # Idle /\ req'[q].ip = ip /\ req'[q].stage # "loaded"
  BY DEF Admitted
<1>2. req[q] = Idle \/ req[q].ip # ip \/ req[q].stage = "loaded"
  BY DEF Admitted
<1>3. req'[q] # req[q]
  BY <1>1, <1>2
<1>5. ASSUME NEW r \in Requests, NEW s \in Stages, NEW t \in Stages,
             At(r, s), Goto(r, t), s # "loaded"
      PROVE  FALSE
  BY <1>1, <1>2, <1>5 DEF TypeOK, Logins, At, Goto
<1>6. ASSUME NEW r \in Requests, Answer(r) PROVE FALSE
  BY <1>1, <1>3, <1>6 DEF TypeOK, Answer
<1>7. ASSUME NEW r \in Requests, Admit(r) PROVE FALSE
  BY <1>1, <1>2, <1>7 DEF TypeOK, Logins, Admit, At, Goto
<1>8. ASSUME NEW r \in Requests, NEW i \in IPs, Arrive(r, i) PROVE FALSE
  BY <1>1, <1>3, <1>8 DEF TypeOK, Arrive
<1>9. ASSUME NEW r \in Requests, Handle(r) PROVE FALSE
  BY <1>5, <1>6, <1>7, <1>9
     DEF Handle, Refuse, SetMaxAttempts, SetLockoutSeconds, Fail, PasswordLogin,
         SaveSignCount, PasskeyLogin, Break, Stages
<1>10. CASE Restart
  BY <1>1, <1>10 DEF Restart
<1>11. QED
  BY <1>3, <1>8, <1>9, <1>10 DEF Next, vars, LoginOptions, SaveLimits, Tick

-----------------------------------------------------------------------------
\* A login that is answered leaves the logins let through for good, so the
\* failure the guard may count for it is paid for.
LEMMA AnswerFreesPlace ==
  ASSUME TypeOK, NEW r \in Requests, At(r, "verifying"), Answer(r),
         NEW i \in IPs, req[r].ip = i
  PROVE  Cardinality(Admitted(i)') = Cardinality(Admitted(i)) - 1
<1>1. Admitted(i)' = Admitted(i) \ {r}
  BY DEF TypeOK, Answer, Admitted
<1>2. r \in Admitted(i)
  BY DEF At, Admitted
<1>3. IsFiniteSet(Admitted(i))
  BY AdmittedFinite
<1>4. QED
  BY <1>1, <1>2, <1>3, FS_RemoveElement

\* A step that adds neither a failure nor a login let through keeps the bound.
LEMMA BoundKept ==
  ASSUME TypeOK, GuessesBounded, NEW i \in IPs,
         Admitted(i)' \subseteq Admitted(i),
         fails'[i] \in Nat, fails'[i] <= fails[i]
  PROVE  fails'[i] + Cardinality(Admitted(i)')
            <= MostAttempts - 1 + Cardinality(Requests)
<1>1. Cardinality(Admitted(i)') <= Cardinality(Admitted(i))
  BY AdmittedFinite, FS_Subset
<1>2. QED
  BY <1>1, AdmittedFinite, AdmittedFiniteNext, LimitsAssumption
     DEF GuessesBounded, TypeOK, LimitPairs

\* An address with failures to spare may let every request thread through.
LEMMA BoundWithRoom ==
  ASSUME NEW i \in IPs, fails'[i] \in Nat, fails'[i] < MostAttempts
  PROVE  fails'[i] + Cardinality(Admitted(i)')
            <= MostAttempts - 1 + Cardinality(Requests)
  BY AdmittedFiniteNext, LimitsAssumption DEF LimitPairs

LEMMA NextGuessesBounded ==
    TypeOK /\ OverLimitIsLocked /\ GuessesBounded /\ [Next]_vars => GuessesBounded'
<1> SUFFICES ASSUME TypeOK, OverLimitIsLocked, GuessesBounded, [Next]_vars, NEW i \in IPs
             PROVE  fails'[i] + Cardinality(Admitted(i)')
                       <= MostAttempts - 1 + Cardinality(Requests)
  BY DEF GuessesBounded
<1>0. TypeOK' /\ OverLimitIsLocked' /\ MostAttempts \in Nat \ {0}
  BY NextTypeOK, NextOverLimitIsLocked, LimitsAssumption DEF LimitPairs
<1>1. fails[i] \in Nat /\ fails'[i] \in Nat
  BY <1>0 DEF TypeOK
<1>2. CASE \E r \in Requests : Admit(r) /\ req[r].ip = i
  <2>1. PICK r \in Requests : Admit(r) /\ req[r].ip = i
    BY <1>2
  <2>2. lockouts'[i] = NoLockout
    BY <2>1, MarkersAssumption DEF Admit, IsLocked, ForgetExpired, TypeOK
  <2>3. fails'[i] < MostAttempts
    BY <1>0, <1>1, <2>2 DEF OverLimitIsLocked
  <2>4. QED
    BY <1>1, <2>3, BoundWithRoom
<1>3. CASE \E r \in Requests : Fail(r) /\ req[r].ip = i
  <2>1. PICK r \in Requests : Fail(r) /\ req[r].ip = i
    BY <1>3
  <2>2. fails'[i] = fails[i] + 1
    BY <2>1 DEF Fail, RecordFailure, TypeOK
  <2>3. Cardinality(Admitted(i)') = Cardinality(Admitted(i)) - 1
    BY <2>1, AnswerFreesPlace DEF Fail
  <2>4. QED
    BY <1>0, <1>1, <2>2, <2>3, AdmittedFinite DEF GuessesBounded
<1>4. CASE /\ ~ \E r \in Requests : Admit(r) /\ req[r].ip = i
           /\ ~ \E r \in Requests : Fail(r) /\ req[r].ip = i
  <2>1. Admitted(i)' \subseteq Admitted(i)
    BY <1>4, AdmittedShrinks
  <2>2. fails'[i] <= fails[i]
    <3>1. ASSUME NEW ip \in IPs, ForgetExpired(ip) \/ RecordSuccess(ip)
          PROVE  fails'[i] <= fails[i]
      BY <1>1, <3>1 DEF ForgetExpired, RecordSuccess, TypeOK
    <3>2. ASSUME NEW r \in Requests, Fail(r) PROVE fails'[i] <= fails[i]
      <4>1. req[r].ip # i
        BY <1>4, <3>2
      <4>2. QED
        BY <1>1, <3>2, <4>1 DEF Fail, RecordFailure, TypeOK
    <3>3. ASSUME UNCHANGED fails PROVE fails'[i] <= fails[i]
      BY <1>1, <3>3
    <3>4. ASSUME NEW r \in Requests, Handle(r) PROVE fails'[i] <= fails[i]
      <4>1. req[r] # Idle
        BY <3>4 DEF Handle, Refuse, Admit, SetMaxAttempts, SetLockoutSeconds, Fail,
                    PasswordLogin, SaveSignCount, PasskeyLogin, Break, At
      <4>2. req[r].ip \in IPs
        BY <4>1, LimitsTyped
      <4>3. QED
        BY <3>1, <3>2, <3>3, <3>4, <4>2
           DEF Handle, Refuse, Admit, SetMaxAttempts, SetLockoutSeconds,
               PasswordLogin, SaveSignCount, PasskeyLogin, Break
    <3>5. CASE Restart
      BY <1>1, <3>5 DEF Restart
    <3>6. QED
      BY <3>1, <3>3, <3>4, <3>5
         DEF Next, vars, Arrive, LoginOptions, SaveLimits, Tick
  <2>3. QED
    BY <1>1, <2>1, <2>2, BoundKept
<1>5. QED
  BY <1>2, <1>3, <1>4

\* A burst of concurrent logins gets an address at most one guess for each
\* request thread beyond the configured ones.
THEOREM GuessesAlwaysBounded == Spec => []GuessesBounded
<1>1. ASSUME Init PROVE GuessesBounded
  <2>1. ASSUME NEW i \in IPs
        PROVE fails[i] + Cardinality(Admitted(i))
                 <= MostAttempts - 1 + Cardinality(Requests)
    <3>1. fails[i] = 0
      BY <1>1 DEF Init
    <3>2. QED
      BY <3>1, AdmittedFinite, LimitsAssumption DEF LimitPairs
  <2>2. QED
    BY <2>1 DEF GuessesBounded
<1>2. QED
  BY <1>1, TypeCorrect, OverLimitAlwaysLocked, NextGuessesBounded, PTL DEF Spec

-----------------------------------------------------------------------------
\* A step that leaves what an address has left, or adds to it, cuts nothing short.
LEMMA KeptNotCut ==
  ASSUME TypeOK, NEW ip \in IPs, CutShort(ip), UNCHANGED lockouts[ip]
  PROVE  FALSE
  BY DEF CutShort, Left, IsLocked, TypeOK

\* An entry of _lockouts is cut short by the very steps that a login of the
\* same address let through before takes, or by a restart.
THEOREM LockoutCut == Spec => LockoutCutForAReason
<1> DEFINE Reason(ip, r) == \/ PasswordLogin(r) \/ PasskeyLogin(r)
                            \/ Fail(r) /\ lockouts'[ip] \in LockoutLengths
<1>1. ASSUME TypeOK, [Next]_vars, NEW ip \in IPs, CutShort(ip)
      PROVE  Restart \/ \E r \in Admitted(ip) : Reason(ip, r)
  <2>1. lockouts[ip] \in Nat \cup {NoLockout} /\ Left(ip) \in Nat
    BY <1>1 DEF TypeOK, Left, IsLocked
  <2>2. IsLocked(ip) /\ lockouts[ip] \in Nat \ {0} /\ Left(ip) = lockouts[ip]
    <3>1. TypeOK'
      BY <1>1, NextTypeOK
    <3>2. Left(ip)' \in Nat
      BY <3>1 DEF TypeOK, Left, IsLocked
    <3>3. Left(ip) # 0
      BY <1>1, <2>1, <3>2 DEF CutShort
    <3>4. QED
      BY <2>1, <3>3, MarkersAssumption DEF Left, IsLocked
  <2>3. ASSUME UNCHANGED lockouts PROVE FALSE
    BY <1>1, <2>3, KeptNotCut
  <2>4. ASSUME NEW i \in IPs, ForgetExpired(i) PROVE FALSE
    <3>1. lockouts'[ip] = lockouts[ip]
      BY <1>1, <2>2, <2>4 DEF ForgetExpired, TypeOK
    <3>2. QED
      BY <1>1, <3>1, KeptNotCut
  <2>5. CASE Tick
    <3>1. lockouts'[ip] = lockouts[ip] - 1
      BY <2>2, <2>5 DEF Tick
    <3>2. Left(ip)' = Left(ip) - 1
      BY <2>2, <3>1, MarkersAssumption DEF Left, IsLocked
    <3>3. QED
      BY <1>1, <2>1, <2>5, <3>2 DEF CutShort
  <2>6. ASSUME NEW r \in Requests, Fail(r) PROVE r \in Admitted(ip) /\ Reason(ip, r)
    <3>1. req[r].ip = ip
      <4>1. SUFFICES ASSUME req[r].ip # ip PROVE FALSE
        OBVIOUS
      <4>2. lockouts'[ip] = lockouts[ip]
        BY <1>1, <2>6, <4>1 DEF Fail, RecordFailure, TypeOK
      <4>3. QED
        BY <1>1, <4>2, KeptNotCut
    <3>2. lockouts'[ip] \in {guard.seconds, lockouts[ip]}
      BY <1>1, <2>6, <3>1 DEF Fail, RecordFailure, TypeOK
    <3>3. lockouts'[ip] # lockouts[ip]
      BY <1>1, KeptNotCut
    <3>4. lockouts'[ip] \in LockoutLengths
      BY <1>1, <3>2, <3>3 DEF TypeOK
    <3>5. r \in Admitted(ip)
      BY <2>6, <3>1 DEF Fail, At, Admitted
    <3>6. QED
      BY <2>6, <3>4, <3>5
  <2>7. ASSUME NEW r \in Requests, PasswordLogin(r) \/ PasskeyLogin(r)
        PROVE  r \in Admitted(ip) /\ Reason(ip, r)
    <3>1. req[r].ip = ip
      <4>1. SUFFICES ASSUME req[r].ip # ip PROVE FALSE
        OBVIOUS
      <4>2. lockouts'[ip] = lockouts[ip]
        BY <1>1, <2>7, <4>1 DEF PasswordLogin, PasskeyLogin, RecordSuccess, TypeOK
      <4>3. QED
        BY <1>1, <4>2, KeptNotCut
    <3>2. QED
      BY <2>7, <3>1 DEF PasswordLogin, PasskeyLogin, At, Admitted
  <2>8. ASSUME NEW r \in Requests, Handle(r)
        PROVE  \E q \in Admitted(ip) : Reason(ip, q)
    <3> HIDE DEF Reason
    <3>1. ASSUME Admit(r) PROVE FALSE
      <4>1. req[r].ip \in IPs
        BY <1>1, <3>1, LimitsTyped DEF Admit, At
      <4>2. QED
        BY <2>4, <3>1, <4>1 DEF Admit
    <3>2. ASSUME Refuse(r) \/ SetMaxAttempts(r) \/ SetLockoutSeconds(r)
                   \/ SaveSignCount(r) \/ Break(r)
          PROVE  FALSE
      BY <2>3, <3>2 DEF Refuse, SetMaxAttempts, SetLockoutSeconds, SaveSignCount, Break
    <3>3. QED
      BY <2>6, <2>7, <2>8, <3>1, <3>2 DEF Handle
  <2>9. QED
    BY <1>1, <2>3, <2>4, <2>5, <2>8 DEF Next, vars, Arrive, LoginOptions, SaveLimits
<1>2. TypeOK /\ [Next]_vars
        => [\A ip \in IPs : CutShort(ip) =>
              \/ Restart
              \/ \E r \in Admitted(ip) :
                    \/ PasswordLogin(r) \/ PasskeyLogin(r)
                    \/ Fail(r) /\ lockouts'[ip] \in LockoutLengths]_vars
  BY <1>1
<1>3. QED
  BY <1>2, TypeCorrect, PTL DEF Spec, LockoutCutForAReason

-----------------------------------------------------------------------------
\* n lockouts less one, and m of at most that length.
LEMMA OneForAnother ==
  ASSUME NEW n \in Nat, NEW m \in Nat, NEW s \in Nat, NEW t \in Nat, NEW u \in Nat,
         m = n - 1, t <= u
  PROVE  t + u * m <= s + u * n
<1>1. u * n = u * m + u
  BY Z3
<1>2. u * m \in Nat /\ u * n \in Nat
  BY Z3
<1>3. QED
  BY <1>1, <1>2

\* More of the same length last longer.
LEMMA FewerAreShorter ==
  ASSUME NEW n \in Nat, NEW m \in Nat, NEW u \in Nat, m <= n
  PROVE  u * m <= u * n /\ u * m \in Nat /\ u * n \in Nat
  BY Z3

LEMMA LeftTyped ==
  ASSUME TypeOK, NEW ip \in IPs
  PROVE  Left(ip) \in Nat
  BY DEF TypeOK, Left, IsLocked

\* A lockout that does not start afresh has at most as much left as before.
LEMMA LeftKept ==
  ASSUME TypeOK, [Next]_vars, NEW ip \in IPs, IsLocked(ip),
         ~ \E r \in Requests : Fail(r) /\ req[r].ip = ip
  PROVE  Left(ip)' <= Left(ip) /\ (Tick => Left(ip)' < Left(ip))
<1>1. lockouts[ip] \in Nat \ {0} /\ lockouts[ip] # NoLockout /\ Left(ip) = lockouts[ip]
  BY MarkersAssumption DEF IsLocked, TypeOK, Left
<1>2. CASE Tick
  BY <1>1, <1>2, MarkersAssumption DEF Tick, IsLocked, TypeOK, Left
<1>3. CASE ~Tick
  <2>1. ASSUME lockouts'[ip] \in {lockouts[ip], NoLockout} PROVE Left(ip)' <= Left(ip)
    BY <1>1, <2>1, MarkersAssumption DEF Left, IsLocked
  <2>2. ASSUME NEW i \in IPs, ForgetExpired(i) \/ RecordSuccess(i)
        PROVE  lockouts'[ip] \in {lockouts[ip], NoLockout}
    BY <2>2 DEF ForgetExpired, RecordSuccess, TypeOK
  <2>3. ASSUME UNCHANGED lockouts PROVE lockouts'[ip] \in {lockouts[ip], NoLockout}
    BY <2>3
  <2>4. CASE Restart
    BY <1>3, <2>1, <2>4 DEF Restart
  <2>5. ASSUME NEW r \in Requests, Handle(r)
        PROVE  lockouts'[ip] \in {lockouts[ip], NoLockout}
    <3>1. req[r] # Idle
      BY <2>5 DEF Handle, Refuse, Admit, SetMaxAttempts, SetLockoutSeconds, Fail,
                  PasswordLogin, SaveSignCount, PasskeyLogin, Break, At
    <3>2. req[r].ip \in IPs
      BY <3>1, LimitsTyped
    <3>3. ASSUME Fail(r) PROVE lockouts'[ip] = lockouts[ip]
      <4>1. req[r].ip # ip
        BY <3>3
      <4>2. QED
        BY <3>2, <3>3, <4>1 DEF Fail, RecordFailure, TypeOK
    <3>4. QED
      BY <2>2, <2>3, <2>5, <3>2, <3>3
         DEF Handle, Refuse, Admit, SetMaxAttempts, SetLockoutSeconds,
             PasswordLogin, SaveSignCount, PasskeyLogin, Break
  <2>6. QED
    BY <1>3, <2>1, <2>2, <2>3, <2>4, <2>5
       DEF Next, vars, Arrive, LoginOptions, SaveLimits
<1>4. QED
  BY <1>2, <1>3

\* A locked address is unlocked after one lockout and one for each request
\* thread at most: every failure that starts a lockout afresh uses up a login
\* that was let through before, and no other is let through.
THEOREM LockoutAlwaysLimited == Spec => LockoutIsLimited
<1> DEFINE Shrinks(ip) == /\ LongestLock(ip)' <= LongestLock(ip)
                          /\ Tick => LongestLock(ip)' < LongestLock(ip)
<1>1. ASSUME TypeOK, [Next]_vars, NEW ip \in IPs, IsLocked(ip) PROVE Shrinks(ip)
  <2> DEFINE n == Cardinality(Admitted(ip))
             m == Cardinality(Admitted(ip)')
  <2>1. n \in Nat /\ m \in Nat /\ IsFiniteSet(Admitted(ip)) /\ MostSeconds \in Nat
    BY AdmittedFinite, AdmittedFiniteNext, LimitsAssumption
  <2>2. /\ LongestLock(ip) = Left(ip) + MostSeconds * n
        /\ LongestLock(ip)' = Left(ip)' + MostSeconds * m
    BY DEF LongestLock, Left
  <2>3. Left(ip) \in Nat /\ Left(ip)' \in Nat
    <3>1. TypeOK'
      BY <1>1, NextTypeOK
    <3>2. Left(ip)' \in Nat
      BY <3>1 DEF TypeOK, Left, IsLocked
    <3>3. QED
      BY <1>1, <3>2, LeftTyped
  <2>4. CASE \E r \in Requests : Fail(r) /\ req[r].ip = ip
    <3>1. PICK r \in Requests : Fail(r) /\ req[r].ip = ip
      BY <2>4
    <3>2. m = n - 1
      BY <1>1, <3>1, AnswerFreesPlace DEF Fail
    <3>3. ~Tick
      BY <1>1, <3>1 DEF Tick, Fail, Answer, At, TypeOK
    <3>4. Left(ip)' <= MostSeconds \/ Left(ip)' <= Left(ip)
      <4>1. /\ guard.seconds \in Nat /\ guard.seconds <= MostSeconds
            /\ guard.attempts \in Nat /\ fails[ip] \in Nat
        BY <1>1, LengthsBounded DEF TypeOK, LimitPairs
      <4>2. lockouts'[ip] \in {guard.seconds, lockouts[ip]}
        BY <1>1, <3>1 DEF Fail, RecordFailure, TypeOK
      <4>3. CASE lockouts'[ip] = guard.seconds
        BY <2>1, <4>1, <4>3 DEF Left, IsLocked
      <4>4. CASE lockouts'[ip] = lockouts[ip]
        BY <2>3, <4>4 DEF Left, IsLocked
      <4>5. QED
        BY <4>2, <4>3, <4>4
    <3> HIDE DEF n, m
    <3>5. MostSeconds * m <= MostSeconds * n /\ MostSeconds * m \in Nat /\ MostSeconds * n \in Nat
      BY <2>1, <3>2, FewerAreShorter
    <3>6. LongestLock(ip)' <= LongestLock(ip)
      <4>1. CASE Left(ip)' <= MostSeconds
        BY <2>1, <2>2, <2>3, <3>2, <4>1, OneForAnother
      <4>2. CASE Left(ip)' <= Left(ip)
        BY <2>2, <2>3, <3>5, <4>2
      <4>3. QED
        BY <3>4, <4>1, <4>2
    <3>7. QED
      BY <3>3, <3>6
  <2>5. CASE ~ \E r \in Requests : Fail(r) /\ req[r].ip = ip
    <3>1. Admitted(ip)' \subseteq Admitted(ip)
      BY <1>1, AdmittedShrinks DEF Admit
    <3>2. m <= n
      BY <2>1, <3>1, FS_Subset
    <3>3. Left(ip)' <= Left(ip) /\ (Tick => Left(ip)' < Left(ip))
      BY <1>1, <2>5, LeftKept
    <3> HIDE DEF n, m
    <3>4. MostSeconds * m <= MostSeconds * n /\ MostSeconds * m \in Nat /\ MostSeconds * n \in Nat
      BY <2>1, <3>2, FewerAreShorter
    <3>5. QED
      BY <2>2, <2>3, <3>3, <3>4
  <2>6. QED
    BY <2>4, <2>5
<1>2. TypeOK /\ [Next]_vars => [\A ip \in IPs : IsLocked(ip) => Shrinks(ip)]_vars
  BY <1>1
<1>3. QED
  BY <1>2, TypeCorrect, PTL DEF Spec, LockoutIsLimited
=============================================================================
