------------------------------- MODULE Passkeys -------------------------------
(***************************************************************************)
(* Logging in and out, and registering passkeys, from several tabs of one  *)
(* browser.  A passkey ceremony is two requests with the authenticator in  *)
(* between; its challenge is kept in the session, and the session is a     *)
(* cookie: a request takes a copy of it along, the handler changes the     *)
(* copy, and the reply puts it back, over whatever the replies to other    *)
(* tabs have put there meanwhile.                                          *)
(*                                                                         *)
(* A handler is one step (two that overlap: see ConfigFile), and the       *)
(* address is not locked out (see LoginGuard).  The RP id, which goes with *)
(* the challenge, and passwords that are wrong are left out.               *)
(***************************************************************************)
EXTENDS Integers, FiniteSets

CONSTANTS
    Tabs, Credentials,
    MaxChallenges,  \* bound: ceremonies begun
    MaxUses,        \* bound: uses of one credential
    Nobody

ASSUME PasskeyBounds == MaxChallenges \in Nat /\ MaxUses \in Nat

VARIABLES
    jar,        \* the session cookie
    passkeys,   \* the sign count stored with a credential, -1 if none is
    counter,    \* the authenticator's own, -1 for a credential not made
    tab,        \* what a tab is about
    issued,     \* challenges issued
    left        \* history: no reply to a request from before the last logout
                \* is outstanding, and nobody has logged in again

passkeyVars == <<jar, passkeys, counter, tab, issued, left>>

Counts == [Credentials -> Int]
Cookies == [authed : BOOLEAN, challenge : Nat]
NoSession == [authed |-> FALSE, challenge |-> 0]

Options == {"registerOptions", "loginOptions"}
Verifies == {"registerVerify", "loginVerify"}
Wants == Options \cup Verifies \cup {"poll", "password", "logout", "delete"}
VerifyOf(want) == IF want = "registerOptions" THEN "registerVerify" ELSE "loginVerify"

TabStates == [stage : {"idle", "sent", "answered", "asked", "signed"},
              want : Wants,
              cookie : Cookies,         \* the copy on its way
              sets : BOOLEAN,           \* the reply has a Set-Cookie
              challenge : Nat,          \* to be answered
              allowed : SUBSET Credentials,
              credential : Credentials \cup {Nobody}, count : Int,
              clear : BOOLEAN]          \* history: no other tab has set the cookie
                                        \* or changed passkeys since it asked

Idle == [stage |-> "idle", want |-> "poll", cookie |-> NoSession, sets |-> FALSE,
         challenge |-> 0, allowed |-> {}, credential |-> Nobody, count |-> 0,
         clear |-> FALSE]

InFlight(t) == tab[t].stage \in {"sent", "answered"}

-----------------------------------------------------------------------------
PasskeysInit ==
    /\ jar = NoSession
    /\ passkeys = [c \in Credentials |-> -1]
    /\ counter = [c \in Credentials |-> -1]
    /\ tab = [t \in Tabs |-> Idle]
    /\ issued = 0
    /\ left = FALSE

Goes(t, new) == tab' = [tab EXCEPT ![t] = new]

Asking(t) == tab[t].stage = "sent" /\ tab[t].want \in Options

\* A tab sends a request with the cookie as it is.
Ask(t, want) ==
    /\ tab[t].stage = "idle" /\ want \notin Verifies
    /\ want \in Options => issued + Cardinality({u \in Tabs : Asking(u)}) < MaxChallenges
    /\ Goes(t, [tab[t] EXCEPT !.stage = "sent", !.want = want, !.cookie = jar,
                              !.clear = want \in Options])
    /\ UNCHANGED <<jar, passkeys, counter, issued, left>>

\* The authenticator makes a credential, or uses one that it is offered (any,
\* if the list is empty), and counts.
Sign(t, c) ==
    /\ tab[t].stage = "asked"
    /\ IF tab[t].want = "registerOptions"
       THEN counter[c] = -1
       ELSE counter[c] # -1 /\ (c \in tab[t].allowed \/ tab[t].allowed = {})
    /\ counter[c] < MaxUses
    /\ counter' = [counter EXCEPT ![c] = @ + 1]
    /\ Goes(t, [tab[t] EXCEPT !.stage = "signed", !.credential = c,
                              !.count = counter[c] + 1])
    /\ UNCHANGED <<jar, passkeys, issued, left>>

SendAnswer(t) ==
    /\ tab[t].stage = "signed"
    /\ Goes(t, [tab[t] EXCEPT !.stage = "sent", !.want = VerifyOf(@), !.cookie = jar])
    /\ UNCHANGED <<jar, passkeys, counter, issued, left>>

\* The user turns away from the dialogue.
GiveUp(t) ==
    /\ tab[t].stage \in {"asked", "signed"}
    /\ Goes(t, Idle)
    /\ UNCHANGED <<jar, passkeys, counter, issued, left>>

-----------------------------------------------------------------------------
\* enforce_auth, while login is enabled.
Admitted(t) == tab[t].cookie.authed \/ tab[t].want \in {"loginOptions", "loginVerify",
                                                       "password", "logout"}

\* What the handler does to its copy of the session, and to the file.  A
\* session of somebody logged in is permanent, and Flask sends it back with
\* every reply; one that was cleared is always deleted.
Reply(t, cookie, stored) ==
    /\ tab' = [u \in Tabs |->
                 IF u = t THEN [tab[t] EXCEPT !.stage = "answered", !.cookie = cookie,
                                  !.sets = \/ cookie # tab[t].cookie \/ cookie.authed
                                           \/ tab[t].want = "logout"]
                 ELSE [tab[u] EXCEPT !.clear = @ /\ stored = passkeys]]
    /\ passkeys' = stored
    /\ UNCHANGED <<jar, counter, left>>

\* Not admitted, or a request that changes nothing.
HandleOther(t) ==
    /\ tab[t].stage = "sent"
    /\ ~Admitted(t) \/ tab[t].want = "poll"
    /\ Reply(t, tab[t].cookie, passkeys)
    /\ UNCHANGED issued

\* A plausible slip: a session that is new lacks a challenge altogether.
HandlePassword_Bare(t) ==
    /\ tab[t].stage = "sent" /\ tab[t].want = "password"
    /\ Reply(t, [authed |-> TRUE], passkeys)
    /\ UNCHANGED issued

\* login_password, with the right password.
HandlePassword(t) ==
    /\ tab[t].stage = "sent" /\ tab[t].want = "password"
    /\ Reply(t, [authed |-> TRUE, challenge |-> 0], passkeys)
    /\ UNCHANGED issued

\* A plausible slip: only the challenge is taken out.
HandleLogout_PopsChallenge(t) ==
    /\ tab[t].stage = "sent" /\ tab[t].want = "logout"
    /\ Reply(t, [tab[t].cookie EXCEPT !.challenge = 0], passkeys)
    /\ UNCHANGED issued

HandleLogout(t) ==
    /\ tab[t].stage = "sent" /\ tab[t].want = "logout"
    /\ Reply(t, NoSession, passkeys)
    /\ UNCHANGED issued

\* webauthn_delete_passkey; an unknown one is an error.
HandleDelete(t, c) ==
    /\ tab[t].stage = "sent" /\ tab[t].want = "delete" /\ Admitted(t)
    /\ Reply(t, tab[t].cookie, [passkeys EXCEPT ![c] = -1])
    /\ UNCHANGED issued

\* A plausible slip: the session is cleared before the challenge is put in.
HandleOptions_Clears(t) ==
    /\ Asking(t) /\ Admitted(t)
    /\ issued' = issued + 1
    /\ Goes(t, [tab[t] EXCEPT !.stage = "answered", !.challenge = issued + 1,
                              !.cookie = [authed |-> FALSE, challenge |-> issued + 1],
                              !.sets = TRUE,
                              !.allowed = {c \in Credentials : passkeys[c] # -1}])
    /\ UNCHANGED <<jar, passkeys, counter, left>>

\* webauthn_register_options and webauthn_login_options.
HandleOptions(t) ==
    /\ Asking(t) /\ Admitted(t)
    /\ issued' = issued + 1
    /\ Goes(t, [tab[t] EXCEPT !.stage = "answered", !.challenge = issued + 1,
                              !.cookie = [@ EXCEPT !.challenge = issued + 1],
                              !.sets = TRUE,
                              !.allowed = {c \in Credentials : passkeys[c] # -1}])
    /\ UNCHANGED <<jar, passkeys, counter, left>>

\* The answer is to the challenge in the session; for a login, the credential
\* is registered, and has been used since its count was stored.
Valid(t) ==
    LET stored == passkeys[tab[t].credential]
    IN  /\ tab[t].cookie.challenge # 0 /\ tab[t].cookie.challenge = tab[t].challenge
        /\ tab[t].want = "loginVerify" => stored # -1 /\ tab[t].count > stored

\* webauthn_register_verify and webauthn_login_verify take the challenge out of
\* the session, whatever comes of it.
HandleVerify(t) ==
    /\ tab[t].stage = "sent" /\ tab[t].want \in Verifies /\ Admitted(t)
    /\ IF Valid(t)
       THEN Reply(t, [authed |-> TRUE, challenge |-> 0],
                  [passkeys EXCEPT ![tab[t].credential] = tab[t].count])
       ELSE Reply(t, [tab[t].cookie EXCEPT !.challenge = 0], passkeys)
    /\ UNCHANGED issued

Handle(t) == \/ HandleOther(t) \/ HandlePassword(t) \/ HandleLogout(t)
             \/ (\E c \in Credentials : HandleDelete(t, c))
             \/ HandleOptions(t) \/ HandleVerify(t)

\* The reply arrives; with options, the browser turns to the authenticator.
Receive(t) ==
    /\ tab[t].stage = "answered"
    /\ jar' = IF tab[t].sets THEN tab[t].cookie ELSE jar
    /\ tab' = [u \in Tabs |->
                 IF u # t THEN [tab[u] EXCEPT !.clear = @ /\ ~tab[t].sets]
                 ELSE IF tab[t].want \in Options /\ tab[t].challenge # 0
                      THEN [tab[t] EXCEPT !.stage = "asked"]
                 ELSE Idle]
    /\ left' = CASE tab[t].want = "logout" -> \A u \in Tabs \ {t} : ~InFlight(u)
                 [] tab[t].want \in {"password", "loginVerify"} -> FALSE
                 [] OTHER -> left
    /\ UNCHANGED <<passkeys, counter, issued>>

PasskeysNext ==
    \E t \in Tabs :
        \/ \E want \in Wants : Ask(t, want)
        \/ \E c \in Credentials : Sign(t, c)
        \/ SendAnswer(t)
        \/ GiveUp(t)
        \/ Handle(t)
        \/ Receive(t)

PasskeysSpec == PasskeysInit /\ [][PasskeysNext]_passkeyVars

-----------------------------------------------------------------------------
\* The cookie, the counts and the tabs keep their shape.
PasskeysTypeOK ==
    /\ jar \in Cookies
    /\ passkeys \in Counts /\ counter \in Counts
    /\ tab \in [Tabs -> TabStates]
    /\ issued \in Nat
    /\ left \in BOOLEAN

\* A ceremony with a passkey that the options name, or a new one, succeeds if
\* no other tab has had the cookie set, or changed the passkeys, since the tab
\* asked for the options: the challenge is still in the session, the user still
\* logged in, the stored count behind that of the authenticator.
UndisturbedSucceeds ==
    [][\A t \in Tabs :
          /\ tab[t].stage = "sent" /\ tab[t].want \in Verifies /\ tab[t].clear
          /\ tab[t].want = "loginVerify" => tab[t].credential \in tab[t].allowed
          /\ tab'[t].stage = "answered"
          => passkeys'[tab[t].credential] = tab[t].count]_passkeyVars

\* A logout lasts until somebody logs in again, unless another tab's request
\* was under way during it, whose reply puts back the session it was sent with.
LogoutLasts == left => ~jar.authed
=============================================================================
