---------------------------- MODULE MCAdminTabs ----------------------------
(* Names and keys for two panels, one URL of which lacks its scheme; lists of *)
(* up to two of them; an agent named as a panel is, and one found by address; *)
(* two tabs and two passkeys.  The two modules share no state, so an          *)
(* interleaving of them does what each does alone: one moves while the other  *)
(* is still as it was at first.                                               *)
EXTENDS Settings, Passkeys, TLC

CONSTANTS k1, k2, good, bare, h1, h2, text, strict, t1, t2, c1, c2

MCNames == {"a", "b"}
MCUrls == {good, bare}
MCKeys == {k1, k2}
MCSections == {"email"}
MCTexts == {text}
MCLimits == {Default, strict}
MCAddresses == {h1, h2}
MCHostOf == [u \in MCUrls |-> IF u = good THEN h1 ELSE None]
MCStatusCards == <<[name |-> "status", host |-> h2]>>
MCAgentNames == {"a", "c"}
Known(in, out) == [internal |-> in, external |-> out]
MCReports == [a \in MCAgentNames |->
    IF a = "a" THEN {Known(h1, None)} ELSE {Known(None, h1), Known(None, h2)}]
FilledIn == [name : MCNames, url : MCUrls, key : MCKeys \cup {Blank}]
MCPanelLists == {<<>>} \cup {<<p>> : p \in PanelInputs}
                       \cup {<<p, q>> : p \in PanelInputs, q \in FilledIn}

MCTabs == {t1, t2}
MCCredentials == {c1, c2}
Symmetric == Permutations(MCTabs) \cup Permutations(MCCredentials)

Init == SettingsInit /\ PasskeysInit
Next == \/ PasskeysInit /\ SettingsNext /\ UNCHANGED passkeyVars
        \/ SettingsInit /\ PasskeysNext /\ UNCHANGED settingsVars
Spec == Init /\ [][Next]_<<settingsVars, passkeyVars>>
=============================================================================
