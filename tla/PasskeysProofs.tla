---------------------------- MODULE PasskeysProofs ----------------------------
(***************************************************************************)
(* For any number of tabs and credentials: a logout lasts, and a ceremony  *)
(* that no other tab disturbs succeeds.                                    *)
(***************************************************************************)
EXTENDS Passkeys, TLAPS

LEMMA TabFields ==
  ASSUME PasskeysTypeOK, NEW t \in Tabs
  PROVE  /\ tab[t] \in TabStates
         /\ tab[t].cookie \in Cookies /\ tab[t].count \in Int
         /\ tab[t].challenge \in Nat /\ tab[t].want \in Wants
  BY DEF PasskeysTypeOK, TabStates

\* A tab's step gives the tab a new state and leaves the others all but alone.
LEMMA TabsTyped ==
  ASSUME PasskeysTypeOK, NEW t \in Tabs, NEW new \in TabStates,
         NEW clear \in [Tabs -> BOOLEAN],
         tab' = [u \in Tabs |-> IF u = t THEN new ELSE [tab[u] EXCEPT !.clear = clear[u]]]
  PROVE  tab' \in [Tabs -> TabStates]
<1>1. \A u \in Tabs : [tab[u] EXCEPT !.clear = clear[u]] \in TabStates
  BY TabFields DEF TabStates
<1>2. QED
  BY <1>1

LEMMA GoesTyped ==
  ASSUME PasskeysTypeOK, NEW t \in Tabs, NEW new \in TabStates, Goes(t, new)
  PROVE  tab' \in [Tabs -> TabStates]
  BY DEF Goes, PasskeysTypeOK

LEMMA IdleTyped == Idle \in TabStates
  BY DEF TabStates, Idle, NoSession, Cookies, Wants

LEMMA InitTypeOK == PasskeysInit => PasskeysTypeOK
<1>1. NoSession \in Cookies /\ [c \in Credentials |-> -1] \in Counts
  BY DEF NoSession, Cookies, Counts
<1>2. PasskeysInit => tab \in [Tabs -> TabStates]
  BY IdleTyped DEF PasskeysInit
<1>3. PasskeysInit => issued \in Nat
  BY DEF PasskeysInit
<1>4. PasskeysInit => left \in BOOLEAN
  BY DEF PasskeysInit
<1>5. PasskeysInit => jar \in Cookies /\ passkeys \in Counts /\ counter \in Counts
  BY <1>1, Zenon DEF PasskeysInit
<1>6. QED
  BY <1>2, <1>3, <1>4, <1>5 DEF PasskeysTypeOK

LEMMA ReplyTyped ==
  ASSUME PasskeysTypeOK, NEW t \in Tabs, NEW cookie \in Cookies, NEW stored \in Counts,
         Reply(t, cookie, stored), issued' \in Nat
  PROVE  PasskeysTypeOK'
<1> DEFINE new == [tab[t] EXCEPT !.stage = "answered", !.cookie = cookie,
                     !.sets = \/ cookie # tab[t].cookie \/ cookie.authed
                              \/ tab[t].want = "logout"]
           clear == [u \in Tabs |-> tab[u].clear /\ stored = passkeys]
<1>1. new \in TabStates
  BY TabFields DEF TabStates, Cookies
<1>2. clear \in [Tabs -> BOOLEAN]
  BY TabFields DEF TabStates
<1>3. tab' = [u \in Tabs |-> IF u = t THEN new ELSE [tab[u] EXCEPT !.clear = clear[u]]]
  BY DEF Reply
<1> HIDE DEF new, clear
<1>4. tab' \in [Tabs -> TabStates]
  BY <1>1, <1>2, <1>3, TabsTyped
<1>5. QED
  BY <1>4 DEF Reply, PasskeysTypeOK

LEMMA NextTypeOK == PasskeysTypeOK /\ [PasskeysNext]_passkeyVars => PasskeysTypeOK'
<1> SUFFICES ASSUME PasskeysTypeOK, [PasskeysNext]_passkeyVars PROVE PasskeysTypeOK'
  OBVIOUS
<1>1. ASSUME NEW t \in Tabs, NEW want \in Wants, Ask(t, want) PROVE PasskeysTypeOK'
  <2>1. [tab[t] EXCEPT !.stage = "sent", !.want = want, !.cookie = jar,
                       !.clear = want \in Options] \in TabStates
    <3> DEFINE clear == want \in Options
    <3>1. clear \in BOOLEAN /\ jar \in Cookies
      BY DEF PasskeysTypeOK
    <3> HIDE DEF clear
    <3>2. [tab[t] EXCEPT !.stage = "sent", !.want = want, !.cookie = jar,
                         !.clear = clear] \in TabStates
      BY <3>1, TabFields DEF TabStates
    <3>3. QED
      BY <3>2 DEF clear
  <2>2. QED
    BY <1>1, <2>1, GoesTyped DEF Ask, PasskeysTypeOK
<1>2. ASSUME NEW t \in Tabs, NEW c \in Credentials, Sign(t, c) PROVE PasskeysTypeOK'
  <2>1. [tab[t] EXCEPT !.stage = "signed", !.credential = c, !.count = counter[c] + 1]
           \in TabStates
    <3>1. counter[c] + 1 \in Int
      BY DEF PasskeysTypeOK, Counts
    <3>2. QED
      BY <3>1, TabFields DEF TabStates
  <2>2. QED
    BY <1>2, <2>1, GoesTyped DEF Sign, PasskeysTypeOK, Counts
<1>3. ASSUME NEW t \in Tabs, SendAnswer(t) \/ GiveUp(t) PROVE PasskeysTypeOK'
  <2>1. [tab[t] EXCEPT !.stage = "sent", !.want = VerifyOf(@), !.cookie = jar] \in TabStates
    BY TabFields DEF TabStates, PasskeysTypeOK, VerifyOf, Wants, Verifies
  <2>2. QED
    BY <1>3, <2>1, IdleTyped, GoesTyped DEF SendAnswer, GiveUp, PasskeysTypeOK
<1>4. ASSUME NEW t \in Tabs, Handle(t) PROVE PasskeysTypeOK'
  <2>1. /\ tab[t].cookie \in Cookies /\ passkeys \in Counts /\ issued \in Nat
        /\ [tab[t].cookie EXCEPT !.challenge = 0] \in Cookies
        /\ NoSession \in Cookies /\ [authed |-> TRUE, challenge |-> 0] \in Cookies
        /\ \A c \in Credentials \cup {Nobody} : \A n \in Int :
              [passkeys EXCEPT ![c] = n] \in Counts
        /\ tab[t].count \in Int /\ tab[t].credential \in Credentials \cup {Nobody}
    <3>1. tab[t].cookie \in Cookies /\ tab[t].count \in Int /\ passkeys \in Counts
          /\ issued \in Nat /\ tab[t].credential \in Credentials \cup {Nobody}
      BY TabFields DEF PasskeysTypeOK, TabStates
    <3>2. /\ [tab[t].cookie EXCEPT !.challenge = 0] \in Cookies
          /\ NoSession \in Cookies /\ [authed |-> TRUE, challenge |-> 0] \in Cookies
      BY <3>1 DEF Cookies, NoSession
    <3>3. \A c \in Credentials \cup {Nobody} : \A n \in Int :
             [passkeys EXCEPT ![c] = n] \in Counts
      BY <3>1 DEF Counts
    <3>4. QED
      BY <3>1, <3>2, <3>3
  <2>2. CASE HandleOptions(t)
    <3>1. [tab[t] EXCEPT !.stage = "answered", !.challenge = issued + 1,
                         !.cookie = [@ EXCEPT !.challenge = issued + 1], !.sets = TRUE,
                         !.allowed = {c \in Credentials : passkeys[c] # -1}] \in TabStates
      <4>1. /\ [tab[t].cookie EXCEPT !.challenge = issued + 1] \in Cookies
            /\ issued + 1 \in Nat
        BY <2>1 DEF Cookies
      <4>2. QED
        BY <4>1, TabFields DEF TabStates
    <3>2. QED
      BY <2>1, <2>2, <3>1, GoesTyped DEF HandleOptions, PasskeysTypeOK
  <2>3. CASE HandleVerify(t)
    <3>1. CASE Valid(t)
      BY <2>1, <2>3, <3>1, ReplyTyped DEF HandleVerify
    <3>2. CASE ~Valid(t)
      BY <2>1, <2>3, <3>2, ReplyTyped DEF HandleVerify
    <3>3. QED
      BY <3>1, <3>2
  <2>4. CASE HandleOther(t) \/ HandlePassword(t) \/ HandleLogout(t)
    BY <2>1, <2>4, ReplyTyped DEF HandleOther, HandlePassword, HandleLogout
  <2>5. ASSUME NEW c \in Credentials, HandleDelete(t, c) PROVE PasskeysTypeOK'
    BY <2>1, <2>5, ReplyTyped DEF HandleDelete
  <2>6. QED
    BY <1>4, <2>2, <2>3, <2>4, <2>5 DEF Handle
<1>5. ASSUME NEW t \in Tabs, Receive(t) PROVE PasskeysTypeOK'
  <2> DEFINE new == IF tab[t].want \in Options /\ tab[t].challenge # 0
                    THEN [tab[t] EXCEPT !.stage = "asked"] ELSE Idle
             clear == [u \in Tabs |-> tab[u].clear /\ ~tab[t].sets]
  <2>1. new \in TabStates
    BY TabFields DEF TabStates, Idle, NoSession, Cookies, Wants
  <2>2. clear \in [Tabs -> BOOLEAN]
    BY TabFields DEF TabStates
  <2>3. tab' = [u \in Tabs |-> IF u = t THEN new ELSE [tab[u] EXCEPT !.clear = clear[u]]]
    BY <1>5 DEF Receive
  <2>4. jar' \in Cookies /\ left' \in BOOLEAN
    BY <1>5, TabFields DEF Receive, PasskeysTypeOK
  <2> HIDE DEF new, clear
  <2>5. tab' \in [Tabs -> TabStates]
    BY <2>1, <2>2, <2>3, TabsTyped
  <2>6. QED
    BY <1>5, <2>4, <2>5 DEF Receive, PasskeysTypeOK
<1>6. CASE UNCHANGED passkeyVars
  BY <1>6 DEF passkeyVars, PasskeysTypeOK
<1>7. QED
  BY <1>1, <1>2, <1>3, <1>4, <1>5, <1>6 DEF PasskeysNext

-----------------------------------------------------------------------------
\* While a logout lasts: nobody asks as one who is logged in, and a session
\* comes back only from a login.
LogoutInv ==
    /\ left => ~jar.authed
    /\ \A t \in Tabs :
          tab[t].stage = "answered" /\ tab[t].want = "logout" =>
              tab[t].sets /\ tab[t].cookie = NoSession
    /\ left => \A t \in Tabs : InFlight(t) /\ tab[t].cookie.authed =>
                  tab[t].stage = "answered" /\ tab[t].want \in {"password", "loginVerify"}

\* Where a tab is in a ceremony, and what has been signed.
Answering(t) == \/ tab[t].stage = "signed"
                \/ tab[t].stage = "sent" /\ tab[t].want \in Verifies

StageInv(t) ==
    /\ tab[t].stage \in {"asked", "signed"} => tab[t].want \in Options
    /\ tab[t].stage = "idle" \/ (tab[t].stage = "sent" /\ tab[t].want \notin Verifies) =>
          tab[t].challenge = 0
    /\ Answering(t) => /\ tab[t].credential \in Credentials
                       /\ tab[t].count <= counter[tab[t].credential]

Registered == {c \in Credentials : passkeys[c] # -1}

\* The session, on its way or in the jar, is ready for the answer.
Ready(t, cookie, new) ==
    /\ tab[t].challenge # 0 /\ cookie.challenge = tab[t].challenge
    /\ new => cookie.authed
    /\ tab[t].allowed = Registered

\* A ceremony that no other tab has disturbed.
ClearInv(t) ==
    /\ tab[t].stage = "answered" /\ tab[t].want \in Options /\ tab[t].challenge # 0 =>
          tab[t].sets /\ Ready(t, tab[t].cookie, tab[t].want = "registerOptions")
    /\ tab[t].stage \in {"asked", "signed"} => Ready(t, jar, tab[t].want = "registerOptions")
    /\ tab[t].stage = "sent" /\ tab[t].want \in Verifies =>
          Ready(t, tab[t].cookie, tab[t].want = "registerVerify")
    /\ Answering(t) /\ tab[t].want \in {"loginOptions", "loginVerify"} =>
          tab[t].count > passkeys[tab[t].credential]

CeremonyInv ==
    /\ \A c \in Credentials : -1 <= counter[c] /\ passkeys[c] <= counter[c]
    /\ \A t \in Tabs : StageInv(t) /\ (tab[t].clear => ClearInv(t))

\* A step leaves a tab alone, or tells it that it has been disturbed.
Alone(u) ==
    /\ \A f \in {"stage", "want", "cookie", "sets", "challenge", "allowed",
                 "credential", "count"} : tab'[u][f] = tab[u][f]
    /\ tab'[u].clear => tab[u].clear /\ jar' = jar /\ passkeys' = passkeys

LEMMA OthersAlone ==
  ASSUME PasskeysTypeOK, NEW t \in Tabs, NEW u \in Tabs, u # t,
         \/ \E want \in Wants : Ask(t, want)
         \/ \E c \in Credentials : Sign(t, c)
         \/ SendAnswer(t) \/ GiveUp(t) \/ Handle(t) \/ Receive(t)
  PROVE  Alone(u)
<1>1. ASSUME NEW x \in BOOLEAN,
             tab'[u] = [tab[u] EXCEPT !.clear = @ /\ x],
             x => jar' = jar /\ passkeys' = passkeys
      PROVE  Alone(u)
  <2>1. tab[u] \in TabStates
    BY TabFields
  <2>2. tab'[u].clear = (tab[u].clear /\ x)
    BY <1>1, <2>1 DEF TabStates
  <2>3. \A f \in {"stage", "want", "cookie", "sets", "challenge", "allowed",
                  "credential", "count"} : tab'[u][f] = tab[u][f]
    BY <1>1, <2>1 DEF TabStates
  <2>4. QED
    BY <1>1, <2>2, <2>3 DEF Alone
<1>2. ASSUME NEW new, Goes(t, new), UNCHANGED <<jar, passkeys>> PROVE Alone(u)
  <2>1. tab'[u] = tab[u]
    BY <1>2 DEF Goes, PasskeysTypeOK
  <2>2. QED
    BY <1>2, <2>1 DEF Alone
<1>3. ASSUME NEW cookie, NEW stored, Reply(t, cookie, stored) PROVE Alone(u)
  <2> DEFINE x == stored = passkeys
  <2>1. tab'[u] = [tab[u] EXCEPT !.clear = @ /\ x]
    BY <1>3 DEF Reply
  <2>2. x => jar' = jar /\ passkeys' = passkeys
    BY <1>3 DEF Reply
  <2>3. x \in BOOLEAN
    OBVIOUS
  <2> HIDE DEF x
  <2>4. QED
    BY <1>1, <2>1, <2>2, <2>3
<1>4. CASE Receive(t)
  <2> DEFINE x == ~tab[t].sets
  <2>1. tab'[u] = [tab[u] EXCEPT !.clear = @ /\ x]
    BY <1>4 DEF Receive
  <2>2. x => jar' = jar /\ passkeys' = passkeys
    BY <1>4 DEF Receive
  <2>3. x \in BOOLEAN
    OBVIOUS
  <2> HIDE DEF x
  <2>4. QED
    BY <1>1, <2>1, <2>2, <2>3
<1>5. CASE Handle(t)
  BY <1>2, <1>3, <1>5 DEF Handle, HandleOther, HandlePassword, HandleLogout, HandleDelete,
     HandleOptions, HandleVerify
<1>6. CASE (\E want \in Wants : Ask(t, want)) \/ (\E c \in Credentials : Sign(t, c))
           \/ SendAnswer(t) \/ GiveUp(t)
  BY <1>2, <1>6 DEF Ask, Sign, SendAnswer, GiveUp
<1>7. QED
  BY <1>4, <1>5, <1>6

\* Counters only go up.
Counting == /\ counter \in Counts /\ counter' \in Counts
            /\ \A c \in Credentials : counter[c] <= counter'[c]

\* The invariants of a tab survive the steps of the others.
LEMMA AloneKeeps ==
  ASSUME PasskeysTypeOK, NEW u \in Tabs, Alone(u), Counting,
         StageInv(u), tab[u].clear => ClearInv(u)
  PROVE  StageInv(u)' /\ (tab'[u].clear => ClearInv(u)')
<1>1. /\ tab'[u].stage = tab[u].stage /\ tab'[u].want = tab[u].want
      /\ tab'[u].cookie = tab[u].cookie /\ tab'[u].sets = tab[u].sets
      /\ tab'[u].challenge = tab[u].challenge /\ tab'[u].allowed = tab[u].allowed
      /\ tab'[u].credential = tab[u].credential /\ tab'[u].count = tab[u].count
  BY DEF Alone
<1>2. StageInv(u)'
  <2>1. tab[u].count \in Int
    BY TabFields
  <2>2. tab[u].credential \in Credentials =>
           /\ counter[tab[u].credential] \in Int /\ counter'[tab[u].credential] \in Int
           /\ counter[tab[u].credential] <= counter'[tab[u].credential]
    BY DEF Counting, Counts
  <2>3. QED
    BY <1>1, <2>1, <2>2 DEF StageInv, Answering
<1>3. ASSUME tab'[u].clear PROVE ClearInv(u)'
  <2>1. tab[u].clear /\ jar' = jar /\ passkeys' = passkeys
    BY <1>3 DEF Alone
  <2>2. QED
    BY <1>1, <2>1 DEF ClearInv, Ready, Registered, Answering
<1>4. QED
  BY <1>2, <1>3

\* One tab's step keeps its own part of the invariants.
LEMMA OwnKept ==
  ASSUME PasskeysTypeOK, CeremonyInv, NEW t \in Tabs,
         \/ \E want \in Wants : Ask(t, want)
         \/ \E c \in Credentials : Sign(t, c)
         \/ SendAnswer(t) \/ GiveUp(t) \/ Handle(t) \/ Receive(t)
  PROVE  /\ StageInv(t)' /\ (tab'[t].clear => ClearInv(t)')
         /\ Counting
         /\ \A c \in Credentials : passkeys'[c] <= counter'[c]
<1>1. /\ tab[t] \in TabStates /\ StageInv(t) /\ (tab[t].clear => ClearInv(t))
      /\ tab \in [Tabs -> TabStates]
      /\ passkeys \in Counts /\ counter \in Counts /\ tab[t].count \in Int
      /\ \A c \in Credentials : -1 <= counter[c] /\ passkeys[c] <= counter[c]
  BY TabFields DEF CeremonyInv, PasskeysTypeOK
<1>2. ASSUME NEW want \in Wants, Ask(t, want)
      PROVE  StageInv(t)' /\ (tab'[t].clear => ClearInv(t)')
  <2>1. /\ tab'[t].stage = "sent" /\ tab'[t].want = want /\ want \notin Verifies
        /\ tab'[t].challenge = tab[t].challenge /\ tab[t].stage = "idle"
    BY <1>1, <1>2 DEF Ask, Goes, TabStates
  <2>2. QED
    BY <1>1, <2>1 DEF StageInv, ClearInv, Answering
<1>3. ASSUME NEW c \in Credentials, Sign(t, c)
      PROVE  /\ StageInv(t)' /\ (tab'[t].clear => ClearInv(t)')
             /\ Counting /\ (\A d \in Credentials : passkeys'[d] <= counter'[d])
  <2>1. /\ tab'[t].stage = "signed" /\ tab'[t].want = tab[t].want
        /\ tab'[t].challenge = tab[t].challenge /\ tab[t].stage = "asked"
        /\ tab'[t].credential = c /\ tab'[t].count = counter[c] + 1
        /\ tab'[t].allowed = tab[t].allowed /\ tab'[t].clear = tab[t].clear
    BY <1>1, <1>3 DEF Sign, Goes, TabStates
  <2>2. /\ counter' = [counter EXCEPT ![c] = @ + 1]
        /\ passkeys' = passkeys /\ jar' = jar
    BY <1>3 DEF Sign
  <2>3. /\ counter[c] \in Int /\ passkeys[c] \in Int /\ passkeys[c] <= counter[c]
        /\ counter'[c] = counter[c] + 1
    BY <1>1, <2>2 DEF Counts
  <2>4. StageInv(t)'
    BY <1>1, <2>1, <2>3 DEF StageInv, Answering
  <2>5. ASSUME tab'[t].clear PROVE ClearInv(t)'
    BY <1>1, <2>1, <2>2, <2>3, <2>5 DEF ClearInv, Answering, Ready, Registered, StageInv, Options
  <2>6. Counting
    BY <1>1, <2>2 DEF Counting, Counts
  <2>7. \A d \in Credentials : passkeys'[d] <= counter'[d]
    BY <1>1, <2>2 DEF Counts
  <2>8. QED
    BY <2>4, <2>5, <2>6, <2>7
<1>4. ASSUME SendAnswer(t) PROVE StageInv(t)' /\ (tab'[t].clear => ClearInv(t)')
  <2>1. /\ tab'[t].stage = "sent" /\ tab'[t].want = VerifyOf(tab[t].want)
        /\ tab'[t].challenge = tab[t].challenge /\ tab[t].stage = "signed"
        /\ tab'[t].credential = tab[t].credential /\ tab'[t].count = tab[t].count
        /\ tab'[t].allowed = tab[t].allowed /\ tab'[t].clear = tab[t].clear
        /\ tab'[t].cookie = jar
    BY <1>1, <1>4 DEF SendAnswer, Goes, TabStates
  <2>2. UNCHANGED <<counter, passkeys, jar>>
    BY <1>4 DEF SendAnswer
  <2>3. QED
    BY <1>1, <2>1, <2>2 DEF StageInv, ClearInv, Answering, Ready, Registered, VerifyOf,
       Options, Verifies
<1>5. ASSUME GiveUp(t) PROVE StageInv(t)' /\ (tab'[t].clear => ClearInv(t)')
  <2>1. tab'[t] = Idle
    BY <1>1, <1>5 DEF GiveUp, Goes
  <2>2. QED
    BY <2>1 DEF StageInv, ClearInv, Answering, Idle
<1>6. ASSUME Receive(t) PROVE StageInv(t)' /\ (tab'[t].clear => ClearInv(t)')
  <2>1. CASE tab[t].want \in Options /\ tab[t].challenge # 0
    <3>1. tab'[t] = [tab[t] EXCEPT !.stage = "asked"]
      BY <1>6, <2>1 DEF Receive
    <3>2. /\ tab'[t].stage = "asked" /\ tab'[t].want = tab[t].want
          /\ tab'[t].challenge = tab[t].challenge /\ tab'[t].allowed = tab[t].allowed
          /\ tab'[t].clear = tab[t].clear /\ tab[t].stage = "answered"
      BY <1>1, <1>6, <3>1 DEF Receive, TabStates
    <3>3. passkeys' = passkeys /\ jar' = IF tab[t].sets THEN tab[t].cookie ELSE jar
      BY <1>6 DEF Receive
    <3>4. QED
      BY <1>1, <2>1, <3>2, <3>3 DEF StageInv, ClearInv, Answering, Ready, Registered
  <2>2. CASE ~(tab[t].want \in Options /\ tab[t].challenge # 0)
    <3>1. tab'[t] = Idle
      BY <1>6, <2>2 DEF Receive
    <3>2. QED
      BY <3>1 DEF StageInv, ClearInv, Answering, Idle
  <2>3. QED
    BY <2>1, <2>2
<1>7. ASSUME NEW cookie, NEW stored, Reply(t, cookie, stored), tab[t].stage = "sent",
             tab[t].want \in Options => tab[t].challenge = 0
      PROVE  StageInv(t)' /\ (tab'[t].clear => ClearInv(t)')
  <2>1. /\ tab'[t].stage = "answered" /\ tab'[t].want = tab[t].want
        /\ tab'[t].challenge = tab[t].challenge
    BY <1>1, <1>7 DEF Reply, TabStates
  <2>2. QED
    BY <1>7, <2>1 DEF StageInv, ClearInv, Answering
<1>8. tab[t].stage = "sent" => (tab[t].want \in Options => tab[t].challenge = 0)
  BY <1>1 DEF StageInv, Options, Verifies
<1>9. ASSUME HandleOptions(t) PROVE StageInv(t)' /\ (tab'[t].clear => ClearInv(t)')
  <2>1. /\ tab'[t].stage = "answered" /\ tab'[t].want = tab[t].want
        /\ tab'[t].challenge = issued + 1 /\ tab'[t].allowed = Registered
        /\ tab'[t].sets /\ tab'[t].cookie = [tab[t].cookie EXCEPT !.challenge = issued + 1]
        /\ passkeys' = passkeys
    BY <1>1, <1>9 DEF HandleOptions, Goes, TabStates, Registered
  <2>2. /\ tab'[t].cookie.challenge = issued + 1
        /\ tab'[t].cookie.authed = tab[t].cookie.authed
        /\ tab[t].want = "registerOptions" => tab[t].cookie.authed
        /\ issued + 1 # 0
    BY <1>9, <2>1, TabFields DEF HandleOptions, Admitted, Cookies, PasskeysTypeOK
  <2>3. QED
    BY <2>1, <2>2 DEF StageInv, ClearInv, Answering, Ready, Registered
<1>10. ASSUME Handle(t) PROVE StageInv(t)' /\ (tab'[t].clear => ClearInv(t)')
  BY <1>7, <1>8, <1>9, <1>10 DEF Handle, HandleOther, HandlePassword, HandleLogout,
     HandleDelete, HandleVerify
<1>11. ASSUME Handle(t)
       PROVE  counter' = counter /\ \A c \in Credentials : passkeys'[c] <= counter'[c]
  <2>1. CASE HandleVerify(t) /\ Valid(t)
    <3>1. /\ passkeys' = [passkeys EXCEPT ![tab[t].credential] = tab[t].count]
          /\ counter' = counter
      BY <2>1 DEF HandleVerify, Reply
    <3>2. tab[t].credential \in Credentials /\ tab[t].count <= counter[tab[t].credential]
      BY <1>1, <2>1 DEF StageInv, Answering, HandleVerify
    <3>3. QED
      BY <1>1, <3>1, <3>2 DEF Counts
  <2>2. ASSUME NEW c \in Credentials, HandleDelete(t, c)
        PROVE  counter' = counter /\ \A d \in Credentials : passkeys'[d] <= counter'[d]
    <3>1. passkeys' = [passkeys EXCEPT ![c] = -1] /\ counter' = counter
      BY <2>2 DEF HandleDelete, Reply
    <3>2. counter[c] >= -1
      BY <1>1 DEF Counts
    <3>3. QED
      BY <1>1, <3>1, <3>2 DEF Counts
  <2>3. CASE UNCHANGED <<passkeys, counter>>
    BY <1>1, <2>3
  <2>4. QED
    BY <1>11, <2>1, <2>2, <2>3 DEF Handle, HandleOther, HandlePassword, HandleLogout,
       HandleOptions, HandleVerify, Reply
<1>12. ASSUME UNCHANGED counter PROVE Counting
  BY <1>1, <1>12 DEF Counting, Counts
<1>13. CASE UNCHANGED <<counter, passkeys>>
  BY <1>1, <1>2, <1>4, <1>5, <1>6, <1>3, <1>10, <1>12, <1>13
<1>14. QED
  BY <1>3, <1>10, <1>11, <1>12, <1>13 DEF Ask, SendAnswer, GiveUp, Receive

LEMMA NextCeremonyInv ==
  PasskeysTypeOK /\ CeremonyInv /\ [PasskeysNext]_passkeyVars => CeremonyInv'
<1> SUFFICES ASSUME PasskeysTypeOK, CeremonyInv, [PasskeysNext]_passkeyVars
             PROVE  CeremonyInv'
  OBVIOUS
<1>1. ASSUME NEW t \in Tabs,
             \/ \E want \in Wants : Ask(t, want)
             \/ \E c \in Credentials : Sign(t, c)
             \/ SendAnswer(t) \/ GiveUp(t) \/ Handle(t) \/ Receive(t)
      PROVE  CeremonyInv'
  <2>1. /\ StageInv(t)' /\ (tab'[t].clear => ClearInv(t)')
        /\ Counting /\ \A c \in Credentials : passkeys'[c] <= counter'[c]
    BY <1>1, OwnKept
  <2>2. ASSUME NEW u \in Tabs PROVE StageInv(u)' /\ (tab'[u].clear => ClearInv(u)')
    <3>1. CASE u = t
      BY <2>1, <3>1
    <3>2. CASE u # t
      <4>1. Alone(u)
        BY <1>1, <3>2, OthersAlone
      <4>2. StageInv(u) /\ (tab[u].clear => ClearInv(u))
        BY DEF CeremonyInv
      <4>3. QED
        BY <2>1, <4>1, <4>2, AloneKeeps
    <3>3. QED
      BY <3>1, <3>2
  <2>3. \A c \in Credentials : -1 <= counter'[c]
    <3>1. \A c \in Credentials : -1 <= counter[c] /\ counter[c] <= counter'[c]
      BY <2>1 DEF CeremonyInv, Counting
    <3>2. \A c \in Credentials : counter[c] \in Int /\ counter'[c] \in Int
      BY <2>1 DEF Counting, Counts
    <3>3. QED
      BY <3>1, <3>2
  <2>4. QED
    BY <2>1, <2>2, <2>3 DEF CeremonyInv
<1>2. CASE UNCHANGED passkeyVars
  BY <1>2 DEF passkeyVars, CeremonyInv, StageInv, ClearInv, Answering, Ready, Registered
<1>3. QED
  BY <1>1, <1>2 DEF PasskeysNext

\* A logout that lasts goes on lasting.
LEMMA NextLogoutInv ==
  PasskeysTypeOK /\ LogoutInv /\ [PasskeysNext]_passkeyVars => LogoutInv'
<1> SUFFICES ASSUME PasskeysTypeOK, LogoutInv, [PasskeysNext]_passkeyVars
             PROVE  LogoutInv'
  OBVIOUS
<1> DEFINE Quiet(u) == InFlight(u) /\ tab[u].cookie.authed =>
              tab[u].stage = "answered" /\ tab[u].want \in {"password", "loginVerify"}
           Gone(u) == tab[u].stage = "answered" /\ tab[u].want = "logout" =>
              tab[u].sets /\ tab[u].cookie = NoSession
<1>1. ASSUME NEW t \in Tabs, NEW u \in Tabs, u # t,
             \/ \E want \in Wants : Ask(t, want)
             \/ \E c \in Credentials : Sign(t, c)
             \/ SendAnswer(t) \/ GiveUp(t) \/ Handle(t) \/ Receive(t)
      PROVE  /\ Gone(u)' /\ (left => Quiet(u)')
             /\ InFlight(u)' = InFlight(u)
  <2>1. Alone(u)
    BY <1>1, OthersAlone
  <2>2. /\ tab'[u].stage = tab[u].stage /\ tab'[u].want = tab[u].want
        /\ tab'[u].cookie = tab[u].cookie /\ tab'[u].sets = tab[u].sets
    BY <2>1 DEF Alone
  <2>3. QED
    BY <2>2 DEF LogoutInv, InFlight
<1>2. ASSUME NEW t \in Tabs,
             \/ \E want \in Wants : Ask(t, want)
             \/ \E c \in Credentials : Sign(t, c)
             \/ SendAnswer(t) \/ GiveUp(t) \/ Handle(t)
      PROVE  LogoutInv'
  <2>0. tab[t] \in TabStates /\ tab \in [Tabs -> TabStates] /\ tab[t].cookie \in Cookies
    BY TabFields DEF PasskeysTypeOK
  <2>1. UNCHANGED <<jar, left>>
    BY <1>2 DEF Ask, Sign, SendAnswer, GiveUp, Handle, HandleOther, HandlePassword,
       HandleLogout, HandleDelete, HandleOptions, HandleVerify, Reply
  <2>2. ASSUME NEW want, Ask(t, want) PROVE Gone(t)' /\ (left => Quiet(t)')
    <3>1. tab'[t].stage = "sent" /\ tab'[t].cookie = jar
      BY <2>0, <2>2 DEF Ask, Goes, TabStates
    <3>2. QED
      BY <3>1 DEF LogoutInv
  <2>3. ASSUME SendAnswer(t) PROVE Gone(t)' /\ (left => Quiet(t)')
    <3>1. tab'[t].stage = "sent" /\ tab'[t].cookie = jar
      BY <2>0, <2>3 DEF SendAnswer, Goes, TabStates
    <3>2. QED
      BY <3>1 DEF LogoutInv
  <2>4. ASSUME (\E c \in Credentials : Sign(t, c)) \/ GiveUp(t)
        PROVE  Gone(t)' /\ (left => Quiet(t)')
    <3>1. tab'[t].stage \in {"signed", "idle"}
      <4>1. ASSUME NEW c \in Credentials, Sign(t, c) PROVE tab'[t].stage = "signed"
        BY <2>0, <4>1 DEF Sign, Goes, TabStates
      <4>2. ASSUME GiveUp(t) PROVE tab'[t].stage = "idle"
        BY <2>0, <4>2 DEF GiveUp, Goes, Idle
      <4>3. QED
        BY <2>4, <4>1, <4>2
    <3>2. QED
      BY <3>1 DEF InFlight
  <2>5. ASSUME HandleOptions(t) PROVE Gone(t)' /\ (left => Quiet(t)')
    <3>1. /\ tab[t].stage = "sent" /\ tab[t].want \in Options
          /\ tab'[t].want = tab[t].want
          /\ tab'[t].cookie.authed = tab[t].cookie.authed
      BY <2>0, <2>5 DEF HandleOptions, Asking, Goes, TabStates, Cookies
    <3>2. QED
      BY <3>1 DEF LogoutInv, InFlight, Options
  <2>6. ASSUME NEW cookie \in Cookies, NEW stored, Reply(t, cookie, stored),
               tab[t].stage = "sent",
               tab[t].want = "logout" => cookie = NoSession,
               left /\ cookie.authed => tab[t].want \in {"password", "loginVerify"}
        PROVE  Gone(t)' /\ (left => Quiet(t)')
    <3>1. tab'[t].stage = "answered" /\ tab'[t].want = tab[t].want /\ tab'[t].cookie = cookie
      BY <2>0, <2>6 DEF Reply, TabStates
    <3>2. tab[t].want = "logout" => tab'[t].sets
      <4> DEFINE sets == cookie # tab[t].cookie \/ cookie.authed \/ tab[t].want = "logout"
      <4>1. tab'[t] = [tab[t] EXCEPT !.stage = "answered", !.cookie = cookie, !.sets = sets]
        BY <2>6 DEF Reply
      <4>2. tab[t].want = "logout" => sets
        OBVIOUS
      <4> HIDE DEF sets
      <4>3. tab'[t].sets = sets
        BY <2>0, <4>1 DEF TabStates
      <4>4. QED
        BY <4>2, <4>3
    <3>3. QED
      BY <2>6, <3>1, <3>2
  <2>7. tab[t].stage = "sent" /\ left => ~tab[t].cookie.authed
    BY DEF LogoutInv, InFlight
  <2>8. /\ NoSession \in Cookies /\ ~NoSession.authed
        /\ [authed |-> TRUE, challenge |-> 0] \in Cookies
        /\ [tab[t].cookie EXCEPT !.challenge = 0] \in Cookies
        /\ [tab[t].cookie EXCEPT !.challenge = 0].authed = tab[t].cookie.authed
    BY <2>0 DEF NoSession, Cookies
  <2>9. ASSUME HandleOther(t) PROVE Gone(t)' /\ (left => Quiet(t)')
    BY <2>0, <2>6, <2>7, <2>9 DEF HandleOther, Admitted
  <2>10. ASSUME HandlePassword(t) \/ HandleLogout(t) PROVE Gone(t)' /\ (left => Quiet(t)')
    BY <2>6, <2>8, <2>10 DEF HandlePassword, HandleLogout
  <2>11. ASSUME NEW c \in Credentials, HandleDelete(t, c)
         PROVE  Gone(t)' /\ (left => Quiet(t)')
    BY <2>0, <2>6, <2>7, <2>11 DEF HandleDelete
  <2>12. ASSUME HandleVerify(t) PROVE Gone(t)' /\ (left => Quiet(t)')
    <3>1. CASE Valid(t)
      BY <2>6, <2>7, <2>8, <2>12, <3>1 DEF HandleVerify, Verifies, Admitted
    <3>2. CASE ~Valid(t)
      BY <2>6, <2>7, <2>8, <2>12, <3>2 DEF HandleVerify, Verifies
    <3>3. QED
      BY <3>1, <3>2
  <2>13. Gone(t)' /\ (left => Quiet(t)')
    BY <1>2, <2>2, <2>3, <2>4, <2>5, <2>9, <2>10, <2>11, <2>12 DEF Handle
  <2>14. \A u \in Tabs : Gone(u)' /\ (left => Quiet(u)')
    BY <1>1, <1>2, <2>13
  <2>15. left => ~jar.authed
    BY DEF LogoutInv
  <2>16. QED
    BY <2>1, <2>14, <2>15 DEF LogoutInv
<1>3. ASSUME NEW t \in Tabs, Receive(t) PROVE LogoutInv'
  <2>1. tab'[t].stage \in {"asked", "idle"}
    BY <1>3, TabFields DEF Receive, Idle, TabStates
  <2>2. Gone(t)' /\ Quiet(t)'
    BY <2>1 DEF InFlight
  <2>3. CASE tab[t].want = "logout"
    <3>1. jar' = NoSession
      BY <1>3, <2>3 DEF Receive, LogoutInv
    <3>2. left' => \A u \in Tabs \ {t} : ~InFlight(u)
      BY <1>3, <2>3 DEF Receive
    <3>3. left' => \A u \in Tabs : Quiet(u)'
      BY <1>1, <1>3, <2>2, <3>2
    <3>4. QED
      BY <1>1, <1>3, <2>2, <3>1, <3>3 DEF LogoutInv, NoSession
  <2>4. CASE tab[t].want \in {"password", "loginVerify"}
    <3>1. ~left'
      BY <1>3, <2>4 DEF Receive
    <3>2. QED
      BY <1>1, <1>3, <2>2, <3>1 DEF LogoutInv
  <2>5. CASE tab[t].want \notin {"logout", "password", "loginVerify"}
    <3>1. left' = left
      BY <1>3, <2>5 DEF Receive
    <3>2. left => ~jar'.authed
      BY <1>3, <2>5 DEF Receive, LogoutInv, InFlight
    <3>3. QED
      BY <1>1, <1>3, <2>2, <3>1, <3>2 DEF LogoutInv
  <2>6. QED
    BY <2>3, <2>4, <2>5
<1>4. CASE UNCHANGED passkeyVars
  BY <1>4 DEF passkeyVars, LogoutInv, InFlight
<1>5. QED
  BY <1>2, <1>3, <1>4 DEF PasskeysNext

-----------------------------------------------------------------------------
Inv == PasskeysTypeOK /\ CeremonyInv /\ LogoutInv

LEMMA InvHolds == PasskeysSpec => []Inv
<1>1. PasskeysInit => CeremonyInv /\ LogoutInv
  BY DEF PasskeysInit, CeremonyInv, LogoutInv, StageInv, ClearInv, Answering, Idle,
     InFlight, NoSession
<1>2. PasskeysInit => Inv
  BY <1>1, InitTypeOK DEF Inv
<1>3. Inv /\ [PasskeysNext]_passkeyVars => Inv'
  BY NextTypeOK, NextCeremonyInv, NextLogoutInv DEF Inv
<1>4. QED
  BY <1>2, <1>3, PTL DEF PasskeysSpec

\* The cookie, the counts and the tabs keep their shape.
THEOREM PasskeysTypeCorrect == PasskeysSpec => []PasskeysTypeOK
<1>1. Inv => PasskeysTypeOK
  BY DEF Inv
<1>2. QED
  BY <1>1, InvHolds, PTL

\* A logout lasts, in whatever order the replies come.
THEOREM LogoutAlwaysLasts == PasskeysSpec => []LogoutLasts
<1>1. Inv => LogoutLasts
  BY DEF Inv, LogoutInv, LogoutLasts
<1>2. QED
  BY <1>1, InvHolds, PTL

\* A ceremony that no other tab disturbs succeeds.
LEMMA VerifySucceeds ==
  ASSUME Inv, PasskeysNext, NEW t \in Tabs,
         tab[t].stage = "sent", tab[t].want \in Verifies, tab[t].clear,
         tab[t].want = "loginVerify" => tab[t].credential \in tab[t].allowed,
         tab'[t].stage = "answered"
  PROVE  passkeys'[tab[t].credential] = tab[t].count
<1>1. /\ PasskeysTypeOK /\ StageInv(t) /\ ClearInv(t)
  BY DEF Inv, CeremonyInv
<1>2. /\ Answering(t) /\ tab[t].credential \in Credentials
      /\ Ready(t, tab[t].cookie, tab[t].want = "registerVerify")
      /\ tab[t].want = "loginVerify" => tab[t].count > passkeys[tab[t].credential]
  BY <1>1 DEF StageInv, ClearInv, Answering
<1>3. Valid(t) /\ Admitted(t)
  BY <1>2 DEF Ready, Valid, Admitted, Registered, Verifies
<1>4. PICK u \in Tabs : \/ \E want \in Wants : Ask(u, want)
                        \/ \E c \in Credentials : Sign(u, c)
                        \/ SendAnswer(u) \/ GiveUp(u) \/ Handle(u) \/ Receive(u)
  BY DEF PasskeysNext
<1>5. u = t
  <2>1. CASE u # t
    <3>1. Alone(t)
      BY <1>1, <1>4, <2>1, OthersAlone
    <3>2. QED
      BY <3>1 DEF Alone
  <2>2. QED
    BY <2>1
<1>6. HandleVerify(t)
  BY <1>3, <1>4, <1>5 DEF Ask, Sign, SendAnswer, GiveUp, Receive, Handle, HandleOther,
     HandlePassword, HandleLogout, HandleDelete, HandleOptions, Asking, Verifies, Options
<1>7. passkeys' = [passkeys EXCEPT ![tab[t].credential] = tab[t].count]
  BY <1>3, <1>6 DEF HandleVerify, Reply
<1>8. QED
  BY <1>1, <1>2, <1>7 DEF PasskeysTypeOK, Counts

\* Nothing but another tab's doing makes a ceremony fail.
THEOREM UndisturbedAlwaysSucceeds == PasskeysSpec => UndisturbedSucceeds
<1>1. Inv /\ [PasskeysNext]_passkeyVars =>
        [\A t \in Tabs :
          /\ tab[t].stage = "sent" /\ tab[t].want \in Verifies /\ tab[t].clear
          /\ tab[t].want = "loginVerify" => tab[t].credential \in tab[t].allowed
          /\ tab'[t].stage = "answered"
          => passkeys'[tab[t].credential] = tab[t].count]_passkeyVars
  BY VerifySucceeds
<1>2. QED
  BY <1>1, InvHolds, PTL DEF PasskeysSpec, UndisturbedSucceeds
=============================================================================
