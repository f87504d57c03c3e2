------------------------------- MODULE Settings -------------------------------
(***************************************************************************)
(* The settings form, and the cards that the panels it lists get on the    *)
(* status page.                                                            *)
(*                                                                         *)
(* The form is shown with every secret hidden; a secret that comes back    *)
(* hidden, or empty, means the one in the file: of the panel of that name, *)
(* or of that section.  The login, Feishu and e-mail are sections of one   *)
(* kind: a switch, plain fields taken together, a secret.  verify_ssl is   *)
(* part of a panel's URL.  Sections that the form does not show, and two   *)
(* handlers that overlap, are in ConfigFile.                               *)
(*                                                                         *)
(* On the page, the results of the panels and of Nightcord-Status are      *)
(* joined with what the agents report: an agent goes on the card of its    *)
(* name, else of its internal, else of its external address; one that      *)
(* matches none gets a card of its own.                                    *)
(***************************************************************************)
EXTENDS Naturals, Sequences, FiniteSets

CONSTANTS
    Names, Urls, Keys,
    Sections,       \* "login", "feishu", "email"
    Texts,          \* what may stand in the plain fields of a section
    Limits, Default, \* alert thresholds, and the built-in ones
    HostOf,         \* the host name in a URL, None without a scheme
    Addresses,
    StatusCards,    \* what Nightcord-Status answers: one result, or none
    AgentNames, Reports, \* agents, and the addresses they may report
    PanelLists,     \* bound: the lists of panels that are submitted
    Blank, None

Panels == [name : Names, url : Urls, key : Keys]
StoredPanels == [name : Names, url : Urls, key : Keys \cup {None}]
SectionStates == [enabled : BOOLEAN, plain : Texts \cup {Blank}, secret : Keys \cup {None}]

\* As submitted: a key that is Blank was left as it was shown.
PanelInputs == [name : Names \cup {Blank}, url : Urls \cup {Blank}, key : Keys \cup {Blank}]
SectionInputs == [enabled : BOOLEAN, plain : Texts \cup {Blank}, secret : Keys \cup {Blank}]

Facts == [internal : Addresses \cup {None}, external : Addresses \cup {None}]

ASSUME ListsAssumption == PanelLists \subseteq Seq(PanelInputs)
ASSUME ReportsAssumption == Reports \in [AgentNames -> SUBSET Facts]
ASSUME ValuesAssumption == /\ Blank \notin Keys \cup Names \cup Urls \cup Texts
                           /\ None \notin Keys
                           /\ Default \in Limits /\ Blank \notin Limits
                           /\ None \notin AgentNames
ASSUME StatusAssumption == StatusCards \in Seq({StatusCards[i] : i \in DOMAIN StatusCards})

VARIABLES
    cfg,    \* the sections of config.yaml that the form shows
    facts,  \* the address row of every agent
    listed  \* the agents with a recent sample

settingsVars == <<cfg, facts, listed>>

-----------------------------------------------------------------------------
\* old_panels_by_name: the last panel of a name is the one that counts.
KeyNamed(panels, n) ==
    LET named == {i \in DOMAIN panels : panels[i].name = n}
    IN  IF named = {} THEN None
        ELSE panels[CHOOSE i \in named : \A j \in named : j <= i].key

Or(input, old) == IF input = Blank THEN old ELSE input

Hidden == Blank

\* redact_for_display, as the browser fills it in.
Redacted(c) ==
    [panels   |-> [i \in DOMAIN c.panels |-> [c.panels[i] EXCEPT !.key = Hidden]],
     sections |-> [s \in Sections |-> [c.sections[s] EXCEPT !.secret = Hidden]],
     limits   |-> c.limits]

\* A plausible slip: a panel without a name is let through if it has a key.
Acceptable_Nameless(c, f) ==
    /\ \A i \in DOMAIN f.panels :
          LET p == f.panels[i]
          IN  p.url # Blank /\ Or(p.key, KeyNamed(c.panels, p.name)) # None
    /\ \A s \in Sections : f.sections[s].enabled =>
          Or(f.sections[s].secret, c.sections[s].secret) # None

\* A plausible slip: only in the first form must keys be typed.
Acceptable_KnownOrTyped(c, f) ==
    /\ \A i \in DOMAIN f.panels :
          LET p == f.panels[i]
          IN  p.name # Blank /\ p.url # Blank /\ (p.key # Blank \/ c.panels # <<>>)
    /\ \A s \in Sections : f.sections[s].enabled =>
          Or(f.sections[s].secret, c.sections[s].secret) # None

\* merge_submitted finds no error.
Acceptable(c, f) ==
    /\ \A i \in DOMAIN f.panels :
          LET p == f.panels[i]
          IN  p.name # Blank /\ p.url # Blank /\ Or(p.key, KeyNamed(c.panels, p.name)) # None
    /\ \A s \in Sections : f.sections[s].enabled =>
          Or(f.sections[s].secret, c.sections[s].secret) # None

\* A plausible slip: a hidden key is looked up by the panel's place.
Merged_ByPlace(c, f) ==
    [panels   |-> [i \in DOMAIN f.panels |->
                      [f.panels[i] EXCEPT !.key =
                          Or(@, IF i \in DOMAIN c.panels THEN c.panels[i].key ELSE None)]],
     sections |-> [s \in Sections |->
                      [f.sections[s] EXCEPT !.plain  = Or(@, c.sections[s].plain),
                                            !.secret = Or(@, c.sections[s].secret)]],
     limits   |-> Or(f.limits, Default)]

\* What merge_submitted makes of a form without errors.
Merged(c, f) ==
    [panels   |-> [i \in DOMAIN f.panels |->
                      [f.panels[i] EXCEPT !.key = Or(@, KeyNamed(c.panels, f.panels[i].name))]],
     sections |-> [s \in Sections |->
                      [f.sections[s] EXCEPT !.plain  = Or(@, c.sections[s].plain),
                                            !.secret = Or(@, c.sections[s].secret)]],
     limits   |-> Or(f.limits, Default)]

\* api_save_config.
Save(f) ==
    /\ Acceptable(cfg, f)
    /\ cfg' = Merged(cfg, f)
    /\ UNCHANGED <<facts, listed>>

\* Some part of the form as it is shown is edited, or has gone stale.
Submit ==
    LET shown == Redacted(cfg)
    IN  \/ \E list \in PanelLists : Save([shown EXCEPT !.panels = list])
        \/ \E s \in Sections, x \in SectionInputs : Save([shown EXCEPT !.sections[s] = x])
        \/ \E l \in Limits \cup {Blank} : Save([shown EXCEPT !.limits = l])

-----------------------------------------------------------------------------
\* upsert_ip keeps an address that a report does not have.
Report(a, r) ==
    /\ facts' = [facts EXCEPT ![a] =
                    [internal |-> IF r.internal = None THEN @.internal ELSE r.internal,
                     external |-> IF r.external = None THEN @.external ELSE r.external]]
    /\ listed' = listed \cup {a}
    /\ UNCHANGED cfg

\* The agent's last sample is too old for list_active_panels.
FallSilent(a) ==
    /\ a \in listed
    /\ listed' = listed \ {a}
    /\ UNCHANGED <<cfg, facts>>

\* The ways to put the members of S in a row.
Orders(S) == {o \in [1..Cardinality(S) -> S] : \A x \in S : \E i \in DOMAIN o : o[i] = x}

First(S) == CHOOSE i \in S : \A j \in S : i <= j
Last(S) == CHOOSE i \in S : \A j \in S : j <= i

\* A plausible slip: the results stay as the panels have answered.
Sorted_AsAnswered(answered) == answered

\* fetch_all sorts the results, stably, by the place of the name in the file.
Sorted(answered) ==
    LET place(i) == Last({j \in DOMAIN cfg.panels : cfg.panels[j].name = cfg.panels[i].name})
    IN  CHOOSE o \in Orders(DOMAIN cfg.panels) :
            \A x, y \in DOMAIN answered : x < y =>
                LET p == answered[x]  q == answered[y]
                    before(i, j) == \E k, l \in DOMAIN o : o[k] = i /\ o[l] = j /\ k < l
                IN  IF place(p) <= place(q) THEN before(p, q) ELSE before(q, p)

\* What the cards are made from: the panels' results, and then that of
\* Nightcord-Status.
Results(answered) ==
    LET o == Sorted(answered)
    IN  [k \in DOMAIN o |-> [name |-> cfg.panels[o[k]].name,
                             host |-> HostOf[cfg.panels[o[k]].url]]] \o StatusCards

\* A plausible slip: results without a host name are entered as well, and an
\* agent without an address finds them.
At_EvenNone(results, h) == {i \in DOMAIN results : results[i].host = h}

\* by_ip.
At(results, h) == {i \in DOMAIN results : h # None /\ results[i].host = h}

\* The card an agent goes on; 0 for one of its own.
CardOf(results, a) ==
    LET named == {i \in DOMAIN results : results[i].name = a}
        inside == At(results, facts[a].internal)
        outside == At(results, facts[a].external)
    IN  CASE named # {} -> Last(named)
          [] named = {} /\ inside # {} -> First(inside)
          [] named = {} /\ inside = {} /\ outside # {} -> First(outside)
          [] OTHER -> 0

\* _merge_qingyuan takes the agents in the order of the query, which names none:
\* the last one on a card stays, and the cards of their own come one after the
\* other, own[a] being the place of a's among them.
Page(answered, turns) ==
    LET results == Results(answered)
        on(i) == {k \in DOMAIN turns : CardOf(results, turns[k]) = i}
        turn(a) == CHOOSE k \in DOMAIN turns : turns[k] = a
    IN  [cards |-> [i \in DOMAIN results |->
                       [name  |-> results[i].name, host |-> results[i].host,
                        agent |-> IF on(i) = {} THEN None ELSE turns[Last(on(i))]]],
         own   |-> [a \in {turns[k] : k \in on(0)} |->
                       Cardinality({k \in on(0) : k <= turn(a)})]]

Answers == Orders(DOMAIN cfg.panels)
Turns == Orders(listed)

-----------------------------------------------------------------------------
SettingsInit ==
    /\ cfg = [panels   |-> <<>>,
              sections |-> [s \in Sections |->
                               [enabled |-> FALSE, plain |-> Blank, secret |-> None]],
              limits   |-> Default]
    /\ facts = [a \in AgentNames |-> [internal |-> None, external |-> None]]
    /\ listed = {}

SettingsNext ==
    \/ Submit
    \/ \E a \in AgentNames : (\E r \in Reports[a] : Report(a, r)) \/ FallSilent(a)

SettingsSpec == SettingsInit /\ [][SettingsNext]_settingsVars

-----------------------------------------------------------------------------
\* The sections and the address rows keep their shape.
SettingsTypeOK ==
    /\ cfg \in [panels : Seq(StoredPanels), sections : [Sections -> SectionStates],
                limits : Limits]
    /\ facts \in [AgentNames -> Facts]
    /\ listed \subseteq AgentNames

\* config_editor.py:7-8, as far as keys and secrets go: whatever has been
\* submitted, and however stale it was, every panel has its key, and what is
\* switched on has its secret.  (Nothing keeps the mail section from being
\* switched on without an smtp_host or a receiver: lines 133-166.)
NeverHalfConfigured ==
    /\ \A i \in DOMAIN cfg.panels : cfg.panels[i].key # None
    /\ \A s \in Sections : cfg.sections[s].enabled => cfg.sections[s].secret # None

Distinct(panels) == \A i, j \in DOMAIN panels : panels[i].name = panels[j].name => i = j

\* What becomes of the form as it is shown, edited and submitted.
SavedAs(f, c) == Acceptable(cfg, f) /\ Merged(cfg, f) = c

\* The edit does to the file what it would do to the file itself.
Faithful(Edit(_)) == SavedAs(Edit(Redacted(cfg)), Edit(cfg))

Without(s, i) == SubSeq(s, 1, i - 1) \o SubSeq(s, i + 1, Len(s))

\* A panel cannot do without its name or URL, and does not keep a hidden key
\* under a new name.
IncompleteRefused ==
    LET shown == Redacted(cfg)
        used == {cfg.panels[i].name : i \in DOMAIN cfg.panels}
    IN  \A i \in DOMAIN cfg.panels :
            /\ \A n \in (Names \cup {Blank}) \ used :
                  ~Acceptable(cfg, [shown EXCEPT !.panels[i].name = n])
            /\ ~Acceptable(cfg, [shown EXCEPT !.panels[i].url = Blank])

\* What cannot be cleared: a plain field keeps what it was (config_editor.py:102,
\* 143, 158-164), a threshold goes back to the built-in one (148-150).  So the
\* second half of "only what is really filled in replaces the old" (line 7) does
\* not hold for thresholds.
ClearedFields ==
    LET shown == Redacted(cfg)
    IN  /\ \A s \in Sections : SavedAs([shown EXCEPT !.sections[s].plain = Blank], cfg)
        /\ SavedAs([shown EXCEPT !.limits = Blank], [cfg EXCEPT !.limits = Default])

\* config_editor.py:5-8: what is left hidden is not changed.  While panels have
\* names of their own, saving the form untouched changes nothing; any one edit
\* of it that fills something in, removes, adds or reorders panels or throws a
\* switch changes what was edited and no secret besides; one that would leave a
\* panel incomplete is refused; and a cleared field is as ClearedFields says.
SavesWhatWasEdited ==
    Distinct(cfg.panels) =>
    /\ Faithful(LAMBDA x : x)
    /\ \A i \in DOMAIN cfg.panels :
          /\ \A u \in Urls : Faithful(LAMBDA x : [x EXCEPT !.panels[i].url = u])
          /\ Faithful(LAMBDA x : [x EXCEPT !.panels = Without(@, i)])
          /\ \A k \in Keys :
                /\ Faithful(LAMBDA x : [x EXCEPT !.panels[i].key = k])
                /\ \A n \in Names : Faithful(LAMBDA x : [x EXCEPT !.panels[i].key = k,
                                                                 !.panels[i].name = n])
    /\ \A p \in Panels : Faithful(LAMBDA x : [x EXCEPT !.panels = Append(@, p)])
    /\ \A o \in Orders(DOMAIN cfg.panels) :
          Faithful(LAMBDA x : [x EXCEPT !.panels = [i \in DOMAIN @ |-> @[o[i]]]])
    /\ \A s \in Sections :
          /\ \A t \in Texts : Faithful(LAMBDA x : [x EXCEPT !.sections[s].plain = t])
          /\ \A k \in Keys, on \in BOOLEAN :
                Faithful(LAMBDA x : [x EXCEPT !.sections[s].secret = k,
                                             !.sections[s].enabled = on])
          /\ cfg.sections[s].secret # None =>
                Faithful(LAMBDA x : [x EXCEPT !.sections[s].enabled = ~@])
    /\ \A l \in Limits : Faithful(LAMBDA x : [x EXCEPT !.limits = l])
    /\ IncompleteRefused
    /\ ClearedFields

\* app.py:328-337: an agent is on a card of its name, or else on one at an
\* address it is known to have, or else on one of its own; unless another that
\* belongs there too has come after it.
AgentsOnTheirCards ==
    \A answered \in Answers, turns \in Turns :
        LET page == Page(answered, turns)
            named(a) == {i \in DOMAIN page.cards : page.cards[i].name = a}
            near(a) == {i \in DOMAIN page.cards :
                           page.cards[i].host \in {facts[a].internal, facts[a].external} \ {None}}
            home(a) == IF named(a) # {} THEN named(a) ELSE near(a)
        IN  /\ DOMAIN page.own = {a \in listed : home(a) = {}}
            /\ \A a \in listed \ DOMAIN page.own :
                  \E i \in home(a) : page.cards[i].agent # None
            /\ \A i \in DOMAIN page.cards :
                  LET a == page.cards[i].agent IN a # None => i \in home(a)

\* No agent has displaced another.
Undisplaced(page) ==
    Cardinality(DOMAIN page.own)
        + Cardinality({i \in DOMAIN page.cards : page.cards[i].agent # None})
            = Cardinality(listed)

\* While panels have names of their own the page does not depend on which panel
\* answered first (app.py:305-307).  While no two agents belong on one card, either,
\* it depends on the order of the agents for nothing but the order in which
\* their own cards are appended (app.py:346, 368: the query has no ORDER BY).
PageIsDetermined ==
    Distinct(cfg.panels) =>
        \A first, second \in Answers, turns, others \in Turns :
            LET page == Page(first, turns)
                again == Page(second, others)
            IN  /\ turns = others => page = again
                /\ Undisplaced(page) => /\ page.cards = again.cards
                                        /\ DOMAIN page.own = DOMAIN again.own
=============================================================================
