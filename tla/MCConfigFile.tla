---------------------------- MODULE MCConfigFile ----------------------------
(* Two request threads and two workers on a file copied from the example, or  *)
(* on none: a form with its secrets typed in and one with them left blank,    *)
(* one passkey, one deployed host.                                            *)
EXTENDS ConfigFile, TLC

CONSTANTS t1, t2, w1, w2, e1, k1, p1, h1

MCThreads == {t1, t2}
MCWorkers == {w1, w2}
OneWorker == {w1}
MCEdits == {e1}
MCKeys == {k1}
MCPasskeys == {p1}
MCHosts == {h1}

Form(keys) == [kind |-> "saveForm", edits |-> e1, keys |-> keys]
Passkey(kind) == [kind |-> kind, passkey |-> p1]
Host(kind) == [kind |-> kind, host |-> h1]
MCRequests == {Form(k1), Form(Blank), Passkey("register"), Passkey("delete"),
               Passkey("login"), Deploy, Host("remember"), Host("forget")}
FewRequests == {Form(k1), Passkey("register")}

\* config.example.yaml has a metrics_agent section that is switched off, with a
\* secret to be replaced.
Example == [EmptyConfig EXCEPT !.form = [edits |-> e1, keys |-> k1],
                               !.agents = [secret |-> 0, ready |-> FALSE]]
MCFirstFiles == {Example, Missing}
OnlyExample == {Example}
Symmetric == Permutations(MCThreads)
=============================================================================
