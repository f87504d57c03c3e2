------------------------------ MODULE LoginGuard ------------------------------
(***************************************************************************)
(* The brute-force guard of auth.py and the login handlers of app.py that  *)
(* share it.                                                               *)
(*                                                                         *)
(* Flask serves every request on a thread of its own.  The guard's three   *)
(* methods each hold its mutex, but a login handler calls them one after   *)
(* the other: is_locked at its start, record_failure or record_success     *)
(* when the credential has been verified.  Between the two calls any other *)
(* request may run, the clock moves on, and the settings page may save new *)
(* limits.  One action below is one critical section or one unlocked write *)
(* of the handler.                                                         *)
(*                                                                         *)
(* Unlock timestamps are kept as the time that remains (the code only ever *)
(* compares unlock_ts - time.time() with 0), so no clock has to be bounded.*)
(***************************************************************************)
EXTENDS Integers, FiniteSets

CONSTANTS
    IPs,            \* client addresses, as get_client_ip tells them apart
    Requests,       \* the request threads that may run at once
    Limits,         \* what max_attempts / lockout_seconds may be set to
    DefaultLimits,  \* what BruteForceGuard() is built with
    MostAttempts,   \* no max_attempts is larger
    MostSeconds,    \* no lockout_seconds is larger
    NoLockout,      \* an address without an entry in _lockouts
    Idle            \* a request thread that serves no login

LimitPairs == [attempts : Nat \ {0}, seconds : Nat]

\* How long a lockout may be configured to last.
LockoutLengths == {l.seconds : l \in Limits \cup {DefaultLimits}}

Stages == {"loaded", "admitted", "halfSet", "verifying", "saved"}

Logins == [stage : Stages, ip : IPs, limits : Limits \cup {DefaultLimits}]

ASSUME LimitsAssumption ==
    /\ Limits \subseteq LimitPairs
    /\ DefaultLimits \in LimitPairs
    /\ MostAttempts \in Nat /\ MostSeconds \in Nat
    /\ \A l \in Limits \cup {DefaultLimits} :
          l.attempts <= MostAttempts /\ l.seconds <= MostSeconds

ASSUME ThreadsAssumption == IsFiniteSet(Requests)

ASSUME MarkersAssumption == NoLockout \notin Nat /\ Idle \notin Logins

VARIABLES
    file,      \* the limits config.yaml holds
    guard,     \* the guard's max_attempts and lockout_seconds
    fails,     \* _fails: 0 for an address without an entry
    lockouts,  \* _lockouts: the time until the address is unlocked
    req        \* what each request thread is doing

vars == <<file, guard, fails, lockouts, req>>

-----------------------------------------------------------------------------
\* A login of request r that has reached stage s.
At(r, s) == req[r] # Idle /\ req[r].stage = s

Goto(r, s) == req' = [req EXCEPT ![r].stage = s]

Answer(r) == req' = [req EXCEPT ![r] = Idle]

\* is_locked's answer.
IsLocked(ip) == lockouts[ip] # NoLockout /\ lockouts[ip] > 0

\* A plausible slip: the lockout entry goes when it expires, the count stays.
ForgetExpired_KeepsCount(ip) ==
    /\ lockouts' = [lockouts EXCEPT ![ip] = IF @ = 0 THEN NoLockout ELSE @]
    /\ UNCHANGED fails

\* is_locked on an address that is not locked: an entry that has run out is
\* dropped together with the count of failures.
ForgetExpired(ip) ==
    /\ lockouts' = [lockouts EXCEPT ![ip] = IF @ = 0 THEN NoLockout ELSE @]
    /\ fails' = [fails EXCEPT ![ip] = IF lockouts[ip] = 0 THEN 0 ELSE @]

\* A plausible slip: strictly more than max_attempts failures are needed.
RecordFailure_OffByOne(ip) ==
    LET count == fails[ip] + 1 IN
    /\ fails' = [fails EXCEPT ![ip] = count]
    /\ lockouts' = [lockouts EXCEPT ![ip] =
                      IF count > guard.attempts THEN guard.seconds ELSE @]

\* record_failure: one critical section.  A further failure of an address
\* that is locked already starts its lockout afresh.
RecordFailure(ip) ==
    LET count == fails[ip] + 1 IN
    /\ fails' = [fails EXCEPT ![ip] = count]
    /\ lockouts' = [lockouts EXCEPT ![ip] =
                      IF count >= guard.attempts THEN guard.seconds ELSE @]

\* A plausible slip: a success forgives every address.
RecordSuccess_Everyone(ip) ==
    /\ fails' = [i \in IPs |-> 0]
    /\ lockouts' = [i \in IPs |-> NoLockout]

\* record_success: one critical section.
RecordSuccess(ip) ==
    /\ fails' = [fails EXCEPT ![ip] = 0]
    /\ lockouts' = [lockouts EXCEPT ![ip] = NoLockout]

-----------------------------------------------------------------------------
Init ==
    /\ file \in Limits
    /\ guard = DefaultLimits
    /\ fails = [ip \in IPs |-> 0]
    /\ lockouts = [ip \in IPs |-> NoLockout]
    /\ req = [r \in Requests |-> Idle]

\* A login request arrives; its handler reads config.yaml before anything else.
Arrive(r, ip) ==
    /\ req[r] = Idle
    /\ req' = [req EXCEPT ![r] = [stage |-> "loaded", ip |-> ip, limits |-> file]]
    /\ UNCHANGED <<file, guard, fails, lockouts>>

\* A plausible slip: an attempt during the lockout starts it afresh.
Refuse_Extends(r) ==
    /\ At(r, "loaded")
    /\ IsLocked(req[r].ip)
    /\ lockouts' = [lockouts EXCEPT ![req[r].ip] = guard.seconds]
    /\ Answer(r)
    /\ UNCHANGED <<file, guard, fails>>

\* 429: the address is locked.
Refuse(r) ==
    /\ At(r, "loaded")
    /\ IsLocked(req[r].ip)
    /\ Answer(r)
    /\ UNCHANGED <<file, guard, fails, lockouts>>

\* The address is not locked: the handler goes on to verify the credential.
Admit(r) ==
    /\ At(r, "loaded")
    /\ ~IsLocked(req[r].ip)
    /\ ForgetExpired(req[r].ip)
    /\ Goto(r, "admitted")
    /\ UNCHANGED <<file, guard>>

\* A plausible slip: the lockout's length is stored as the number of attempts.
SetMaxAttempts_Swapped(r) ==
    /\ At(r, "admitted")
    /\ guard' = [guard EXCEPT !.attempts = req[r].limits.seconds]
    /\ Goto(r, "halfSet")
    /\ UNCHANGED <<file, fails, lockouts>>

\* The two limits are written one after the other, outside the mutex, from the
\* configuration this request has read, which may be an old one by now.
SetMaxAttempts(r) ==
    /\ At(r, "admitted")
    /\ guard' = [guard EXCEPT !.attempts = req[r].limits.attempts]
    /\ Goto(r, "halfSet")
    /\ UNCHANGED <<file, fails, lockouts>>

SetLockoutSeconds(r) ==
    /\ At(r, "halfSet")
    /\ guard' = [guard EXCEPT !.seconds = req[r].limits.seconds]
    /\ Goto(r, "verifying")
    /\ UNCHANGED <<file, fails, lockouts>>

\* Wrong password, expired challenge, unknown passkey or bad assertion.
Fail(r) ==
    /\ At(r, "verifying")
    /\ RecordFailure(req[r].ip)
    /\ Answer(r)
    /\ UNCHANGED <<file, guard>>

\* The password is right.
PasswordLogin(r) ==
    /\ At(r, "verifying")
    /\ RecordSuccess(req[r].ip)
    /\ Answer(r)
    /\ UNCHANGED <<file, guard>>

\* The assertion is right: the handler saves the configuration it has read at
\* its start, with the new signature counter, and with it the old limits.
SaveSignCount(r) ==
    /\ At(r, "verifying")
    /\ file' = req[r].limits
    /\ Goto(r, "saved")
    /\ UNCHANGED <<guard, fails, lockouts>>

PasskeyLogin(r) ==
    /\ At(r, "saved")
    /\ RecordSuccess(req[r].ip)
    /\ Answer(r)
    /\ UNCHANGED <<file, guard>>

\* A malformed body or a configuration that cannot be written ends the handler
\* with an error the guard is not told of.
Break(r) ==
    /\ At(r, "verifying")
    /\ Answer(r)
    /\ UNCHANGED <<file, guard, fails, lockouts>>

\* /api/webauthn/login/options asks is_locked too, and records nothing.
LoginOptions(ip) ==
    /\ lockouts[ip] = 0
    /\ ForgetExpired(ip)
    /\ UNCHANGED <<file, guard, req>>

\* The settings page saves new limits.
SaveLimits(l) ==
    /\ l # file
    /\ file' = l
    /\ UNCHANGED <<guard, fails, lockouts, req>>

Tick ==
    /\ \E ip \in IPs : IsLocked(ip)
    /\ lockouts' = [ip \in IPs |-> IF IsLocked(ip) THEN lockouts[ip] - 1
                                                   ELSE lockouts[ip]]
    /\ UNCHANGED <<file, guard, fails, req>>

\* The guard lives in memory: a restart of the dashboard forgets it all.
Restart ==
    /\ guard' = DefaultLimits
    /\ fails' = [ip \in IPs |-> 0]
    /\ lockouts' = [ip \in IPs |-> NoLockout]
    /\ req' = [r \in Requests |-> Idle]
    /\ UNCHANGED file

Handle(r) ==
    \/ Refuse(r)
    \/ Admit(r)
    \/ SetMaxAttempts(r)
    \/ SetLockoutSeconds(r)
    \/ Fail(r)
    \/ PasswordLogin(r)
    \/ SaveSignCount(r)
    \/ PasskeyLogin(r)
    \/ Break(r)

Next ==
    \/ \E r \in Requests, ip \in IPs : Arrive(r, ip)
    \/ \E r \in Requests : Handle(r)
    \/ \E ip \in IPs : LoginOptions(ip)
    \/ \E l \in Limits : SaveLimits(l)
    \/ Tick
    \/ Restart

\* Time passes; nothing else is promised: a client may never come back.
Fairness == WF_vars(Tick)

Spec == Init /\ [][Next]_vars /\ Fairness

-----------------------------------------------------------------------------
\* Logins of this address that is_locked has let through and that the guard
\* has not heard of again.
Admitted(ip) ==
    {r \in Requests : req[r] # Idle /\ req[r].ip = ip /\ req[r].stage # "loaded"}

\* The shape of the state.
TypeOK ==
    /\ file \in Limits \cup {DefaultLimits}
    /\ guard \in LimitPairs
    /\ guard.attempts <= MostAttempts /\ guard.seconds \in LockoutLengths
    /\ fails \in [IPs -> Nat]
    /\ lockouts \in [IPs -> Nat \cup {NoLockout}]
    /\ req \in [Requests -> Logins \cup {Idle}]

\* An address whose failures have reached the largest limit in use has a
\* lockout, whatever the order in which limits are saved, half written by one
\* request and used by another (auth.py, record_failure).
OverLimitIsLocked ==
    \A ip \in IPs : fails[ip] >= MostAttempts => lockouts[ip] # NoLockout

\* The check and the count are separate critical sections, so a burst of
\* requests can be let through before the first of them fails.  What the guard
\* promises all the same: between two resets an address never gets more than
\* max_attempts - 1 guesses plus one for each request thread.
GuessesBounded ==
    \A ip \in IPs :
        fails[ip] + Cardinality(Admitted(ip))
            <= MostAttempts - 1 + Cardinality(Requests)

\* What is left of an address's lockout.
Left(ip) == IF IsLocked(ip) THEN lockouts[ip] ELSE 0

\* The lockout loses more than the time that passes.
CutShort(ip) == Left(ip)' < IF Tick THEN Left(ip) - 1 ELSE Left(ip)

\* A running lockout is cut short only by the process ending, or by a login of
\* that very address that was let through before the lockout: one that succeeds
\* lifts it (record_success), one that fails may put a shorter one in its place,
\* of the length in force by then (record_failure).  It is never cut short by
\* logins of other addresses, by attempts during the lockout, by an expiry sweep
\* or by a change of the limits as such.
LockoutCutForAReason ==
    [][\A ip \in IPs : CutShort(ip) =>
          \/ Restart
          \/ \E r \in Admitted(ip) :
                \/ PasswordLogin(r) \/ PasskeyLogin(r)
                \/ Fail(r) /\ lockouts'[ip] \in LockoutLengths]_vars

\* The longest that an address can still be locked: what is left of its lockout,
\* and a full one for each of its logins in flight that may yet fail.
LongestLock(ip) == Left(ip) + MostSeconds * Cardinality(Admitted(ip))

\* No step prolongs that while the address is locked, and every second takes one
\* away: hammering a locked address, saving limits or half-written limits never
\* keep it locked for longer than one lockout and one for each request thread.
LockoutIsLimited ==
    [][\A ip \in IPs : IsLocked(ip) =>
          /\ LongestLock(ip)' <= LongestLock(ip)
          /\ Tick => LongestLock(ip)' < LongestLock(ip)]_vars

\* README.md:151-153: every later request of a locked address gets a 429 until
\* the lockout window passes, "even with the correct password"; only a restart
\* lifts it.  A login let through before the lockout disproves it.
LockoutHoldsUntilExpiry ==
    [][\A ip \in IPs : IsLocked(ip) /\ ~Restart => lockouts'[ip] # NoLockout]_vars

\* No address is locked for ever: failures of logins still in flight start a
\* lockout afresh, the attempts refused during it do not.
LockoutRunsOut ==
    \A ip \in IPs : IsLocked(ip) ~> ~IsLocked(ip)
=============================================================================
