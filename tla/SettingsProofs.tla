---------------------------- MODULE SettingsProofs ----------------------------
(***************************************************************************)
(* What config_editor.py and the cards of the page promise, for any lists  *)
(* of panels, any sections and any agents.                                 *)
(*                                                                         *)
(* The configuration keeps its shape and is never half made: inductive.    *)
(* One edit of the form is the same edit of the file: a form that stands   *)
(* part by part for a configuration stands for it as a whole (PartByPart), *)
(* the form as shown stands for the file, and an edit changes one part.    *)
(* The page: panels in the order of the file exist, each at the place      *)
(* after the number of those before it, so every panel has its card; and   *)
(* where nobody shares a name or a card the page is the only possible one. *)
(***************************************************************************)
EXTENDS Settings, FiniteSetTheorems, FunctionTheorems, SequenceTheorems, TLAPS

\* A set of indices that is not empty has a last member.
LEMMA LastExists ==
  ASSUME NEW n \in Nat, NEW S \in SUBSET (1..n), S # {}
  PROVE  \E i \in S : \A j \in S : j <= i
<1> DEFINE T == {n - i : i \in S}
<1>1. T \subseteq Nat /\ T # {}
  <2>1. \A i \in S : i \in Nat /\ n - i \in Nat
    OBVIOUS
  <2>2. QED
    BY <2>1
<1>2. \E x \in T : \A y \in T : ~(<<y, x>> \in OpToRel(<, Nat))
  BY <1>1, NatLessThanWellFounded, WFMin
<1>3. PICK x \in T : \A y \in T : ~(<<y, x>> \in OpToRel(<, Nat))
  BY <1>2
<1>4. \A y \in T : ~(y < x)
  BY <1>1, <1>3 DEF OpToRel
<1>5. PICK i \in S : x = n - i
  BY <1>3
<1>6. \A j \in S : j <= i
  <2>1. ASSUME NEW j \in S PROVE j <= i
    <3>1. n - j \in T /\ i \in 1..n /\ j \in 1..n
      OBVIOUS
    <3>2. ~(n - j < n - i)
      BY <1>4, <1>5, <3>1
    <3>3. QED
      BY <3>1, <3>2
  <2>2. QED
    BY <2>1
<1>7. QED
  BY <1>6

\* The key that stands for a hidden one is one from the file.
LEMMA KeyNamedIsKey ==
  ASSUME NEW panels \in Seq(StoredPanels), NEW n
  PROVE  KeyNamed(panels, n) \in Keys \cup {None}
<1> DEFINE named == {i \in DOMAIN panels : panels[i].name = n}
           last == CHOOSE i \in named : \A j \in named : j <= i
<1>1. CASE named = {}
  BY <1>1 DEF KeyNamed
<1>2. CASE named # {}
  <2>1. named \subseteq 1..Len(panels) /\ Len(panels) \in Nat
    OBVIOUS
  <2>2. \E i \in named : \A j \in named : j <= i
    BY <1>2, <2>1, LastExists
  <2> HIDE DEF named
  <2>3. last \in named
    BY <2>2
  <2> USE DEF named
  <2>4. last \in DOMAIN panels
    BY <2>3
  <2>5. panels[last] \in StoredPanels
    BY <2>4
  <2>6. KeyNamed(panels, n) = panels[last].key
    BY <1>2 DEF KeyNamed
  <2>7. QED
    BY <2>5, <2>6 DEF StoredPanels
<1>3. QED
  BY <1>1, <1>2

\* What is made of an acceptable form has the shape of a configuration.
Cfgs == [panels : Seq(StoredPanels),
         sections : [Sections -> SectionStates], limits : Limits]
Forms == [panels : Seq(PanelInputs), sections : [Sections -> SectionInputs],
          limits : Limits \cup {Blank}]

LEMMA MergedTyped ==
  ASSUME NEW c \in Cfgs, NEW f \in Forms, Acceptable(c, f)
  PROVE  /\ Merged(c, f) \in Cfgs
         /\ \A i \in DOMAIN f.panels : Merged(c, f).panels[i].key # None
         /\ \A s \in Sections : Merged(c, f).sections[s].enabled =>
               Merged(c, f).sections[s].secret # None
<1> DEFINE m == Merged(c, f)
<1>1. ASSUME NEW i \in DOMAIN f.panels
      PROVE  /\ m.panels[i] \in StoredPanels
             /\ m.panels[i].key # None
  <2>1. f.panels[i] \in PanelInputs
    BY DEF Forms
  <2>2. KeyNamed(c.panels, f.panels[i].name) \in Keys \cup {None}
    BY KeyNamedIsKey DEF Cfgs
  <2>3. m.panels[i] = [f.panels[i] EXCEPT !.key = Or(@, KeyNamed(c.panels, f.panels[i].name))]
    BY DEF Merged
  <2>4. /\ f.panels[i].name # Blank /\ f.panels[i].url # Blank
        /\ Or(f.panels[i].key, KeyNamed(c.panels, f.panels[i].name)) # None
    BY DEF Acceptable
  <2>5. QED
    BY <2>1, <2>2, <2>3, <2>4 DEF PanelInputs, StoredPanels, Or
<1>2. m.panels \in Seq(StoredPanels)
  <2>1. f.panels \in Seq(PanelInputs)
    BY DEF Forms
  <2>2. m.panels = [i \in 1..Len(f.panels) |-> m.panels[i]]
    BY <2>1 DEF Merged
  <2> HIDE DEF m
  <2>3. DOMAIN f.panels = 1..Len(f.panels) /\ Len(f.panels) \in Nat
    BY <2>1
  <2> DEFINE made == m.panels
  <2>4. /\ made = [i \in 1..Len(f.panels) |-> made[i]]
        /\ \A i \in 1..Len(f.panels) : made[i] \in StoredPanels
    BY <1>1, <2>2, <2>3
  <2> HIDE DEF made
  <2>5. made \in Seq(StoredPanels)
    BY <2>3, <2>4
  <2>6. QED
    BY <2>5 DEF made
<1>3. ASSUME NEW s \in Sections
      PROVE  /\ m.sections[s] \in SectionStates
             /\ m.sections[s].enabled => m.sections[s].secret # None
  <2>1. f.sections[s] \in SectionInputs /\ c.sections[s] \in SectionStates
    BY DEF Forms, Cfgs
  <2>2. m.sections[s] = [f.sections[s] EXCEPT !.plain = Or(@, c.sections[s].plain),
                                             !.secret = Or(@, c.sections[s].secret)]
    BY DEF Merged
  <2>3. f.sections[s].enabled => Or(f.sections[s].secret, c.sections[s].secret) # None
    BY DEF Acceptable
  <2>4. QED
    BY <2>1, <2>2, <2>3 DEF SectionInputs, SectionStates, Or
<1>4. m.limits \in Limits
  BY ValuesAssumption DEF Merged, Or, Forms
<1>5. m.sections \in [Sections -> SectionStates]
  <2>1. m.sections = [s \in Sections |-> m.sections[s]]
    BY DEF Merged
  <2> HIDE DEF m
  <2>2. QED
    BY <1>3, <2>1
<1>6. m = [panels |-> m.panels, sections |-> m.sections, limits |-> m.limits]
  BY DEF Merged
<1>7. QED
  <2> HIDE DEF m
  <2>1. m \in Cfgs
    BY <1>2, <1>4, <1>5, <1>6 DEF Cfgs
  <2>2. QED
    BY <1>1, <1>3, <2>1 DEF m

-----------------------------------------------------------------------------
\* A form as it is shown, but for one part, has the shape of a form.
LEMMA ShownTyped ==
  ASSUME NEW c \in Cfgs
  PROVE  Redacted(c) \in Forms
<1>1. \A i \in DOMAIN c.panels : Redacted(c).panels[i] \in PanelInputs
  <2>1. \A i \in DOMAIN c.panels :
           c.panels[i] \in StoredPanels
    <3>1. c.panels \in Seq(StoredPanels)
      BY DEF Cfgs
    <3>2. QED
      BY <3>1
  <2>2. QED
    BY <2>1 DEF Redacted, StoredPanels, PanelInputs, Hidden
<1>2. Redacted(c).panels \in Seq(PanelInputs)
  <2>1. DOMAIN c.panels = 1..Len(c.panels) /\ Len(c.panels) \in Nat
    BY DEF Cfgs
  <2>2. Redacted(c).panels = [i \in 1..Len(c.panels) |-> Redacted(c).panels[i]]
    BY <2>1 DEF Redacted
  <2> DEFINE shown == Redacted(c).panels
  <2> HIDE DEF shown
  <2>3. shown = [i \in 1..Len(c.panels) |-> shown[i]]
    BY <2>2 DEF shown
  <2>4. \A i \in 1..Len(c.panels) : shown[i] \in PanelInputs
    BY <1>1, <2>1 DEF shown
  <2>5. shown \in Seq(PanelInputs)
    BY <2>1, <2>3, <2>4
  <2>6. QED
    BY <2>5 DEF shown
<1>3. Redacted(c).sections \in [Sections -> SectionInputs]
  <2>1. \A s \in Sections : c.sections[s] \in SectionStates
    BY DEF Cfgs
  <2>2. QED
    BY <2>1 DEF Redacted, SectionStates, SectionInputs, Hidden
<1>4. QED
  BY <1>2, <1>3 DEF Redacted, Forms, Cfgs

Inv == SettingsTypeOK /\ NeverHalfConfigured

LEMMA SaveKeeps ==
  ASSUME Inv, NEW f \in Forms, Save(f)
  PROVE  Inv'
<1>1. cfg \in Cfgs /\ Acceptable(cfg, f) /\ cfg' = Merged(cfg, f)
  BY DEF Inv, SettingsTypeOK, Cfgs, Save
<1>2. DOMAIN cfg'.panels = DOMAIN f.panels
  BY <1>1 DEF Merged
<1>3. cfg' \in Cfgs
  BY <1>1, MergedTyped
<1>4. NeverHalfConfigured'
  BY <1>1, <1>2, <1>3, MergedTyped DEF NeverHalfConfigured
<1>5. QED
  BY <1>3, <1>4 DEF Inv, SettingsTypeOK, Cfgs, Save

LEMMA NextInv == Inv /\ [SettingsNext]_settingsVars => Inv'
<1> SUFFICES ASSUME Inv, [SettingsNext]_settingsVars PROVE Inv'
  OBVIOUS
<1>1. CASE Submit
  <2>1. Redacted(cfg) \in Forms
    BY ShownTyped DEF Inv, SettingsTypeOK, Cfgs
  <2>2. ASSUME NEW list \in PanelLists, Save([Redacted(cfg) EXCEPT !.panels = list])
        PROVE  Inv'
    <3>1. [Redacted(cfg) EXCEPT !.panels = list] \in Forms
      BY <2>1, ListsAssumption DEF Forms
    <3>2. QED
      BY <2>2, <3>1, SaveKeeps
  <2>3. ASSUME NEW s \in Sections, NEW x \in SectionInputs,
               Save([Redacted(cfg) EXCEPT !.sections[s] = x])
        PROVE  Inv'
    <3>1. [Redacted(cfg) EXCEPT !.sections[s] = x] \in Forms
      BY <2>1 DEF Forms
    <3>2. QED
      BY <2>3, <3>1, SaveKeeps
  <2>4. ASSUME NEW l \in Limits \cup {Blank}, Save([Redacted(cfg) EXCEPT !.limits = l])
        PROVE  Inv'
    <3>1. [Redacted(cfg) EXCEPT !.limits = l] \in Forms
      BY <2>1 DEF Forms
    <3>2. QED
      BY <2>4, <3>1, SaveKeeps
  <2>5. QED
    BY <1>1, <2>2, <2>3, <2>4 DEF Submit
<1>2. ASSUME NEW a \in AgentNames, NEW r \in Reports[a], Report(a, r) PROVE Inv'
  <2>1. r \in Facts
    BY ReportsAssumption
  <2>2. facts' \in [AgentNames -> Facts]
    BY <1>2, <2>1 DEF Report, Inv, SettingsTypeOK, Facts
  <2>3. QED
    BY <1>2, <2>2 DEF Report, Inv, SettingsTypeOK, NeverHalfConfigured
<1>3. ASSUME NEW a \in AgentNames, FallSilent(a) PROVE Inv'
  BY <1>3 DEF FallSilent, Inv, SettingsTypeOK, NeverHalfConfigured
<1>4. CASE UNCHANGED settingsVars
  BY <1>4 DEF settingsVars, Inv, SettingsTypeOK, NeverHalfConfigured
<1>5. QED
  BY <1>1, <1>2, <1>3, <1>4 DEF SettingsNext

LEMMA InvHolds == SettingsSpec => []Inv
<1>1. SettingsInit => Inv
  BY ValuesAssumption DEF SettingsInit, Inv, SettingsTypeOK, NeverHalfConfigured,
     SectionStates, Facts
<1>2. QED
  BY <1>1, NextInv, PTL DEF SettingsSpec

\* The sections and the address rows keep their shape.
THEOREM SettingsTypeCorrect == SettingsSpec => []SettingsTypeOK
<1>1. Inv => SettingsTypeOK
  BY DEF Inv
<1>2. QED
  BY <1>1, InvHolds, PTL

\* No form, however stale, leaves the configuration half made.
THEOREM AlwaysConfigured == SettingsSpec => []NeverHalfConfigured
<1>1. Inv => NeverHalfConfigured
  BY DEF Inv
<1>2. QED
  BY <1>1, InvHolds, PTL

-----------------------------------------------------------------------------
\* Among panels with names of their own, a hidden key is the panel's.
LEMMA KeyNamedIsOwn ==
  ASSUME NEW panels \in Seq(StoredPanels), Distinct(panels), NEW i \in DOMAIN panels
  PROVE  KeyNamed(panels, panels[i].name) = panels[i].key
<1> DEFINE named == {j \in DOMAIN panels : panels[j].name = panels[i].name}
<1>1. named = {i}
  BY DEF Distinct
<1>2. i \in Nat
  OBVIOUS
<1>3. (CHOOSE k \in {i} : \A j \in {i} : j <= k) = i
  BY <1>2
<1>4. KeyNamed(panels, panels[i].name) =
         panels[CHOOSE k \in named : \A j \in named : j <= k].key
  BY <1>1 DEF KeyNamed
<1> HIDE DEF named
<1>5. QED
  BY <1>1, <1>3, <1>4

SectionRecords == [enabled : BOOLEAN, plain : Texts \cup {Blank}, secret : Keys \cup {None, Blank}]

\* A section, field by field, when some of its fields are replaced.
LEMMA PlainReplaced ==
  ASSUME NEW x \in SectionRecords, NEW t
  PROVE  [x EXCEPT !.plain = t] = [enabled |-> x.enabled, plain |-> t, secret |-> x.secret]
BY DEF SectionRecords

LEMMA SwitchThrown ==
  ASSUME NEW x \in SectionRecords
  PROVE  [x EXCEPT !.enabled = ~@]
            = [enabled |-> ~x.enabled, plain |-> x.plain, secret |-> x.secret]
BY DEF SectionRecords

LEMMA PlainAndSecretReplaced ==
  ASSUME NEW x \in SectionRecords, NEW t, NEW u
  PROVE  [[x EXCEPT !.plain = t] EXCEPT !.secret = u]
            = [enabled |-> x.enabled, plain |-> t, secret |-> u]
<1>1. [[enabled |-> x.enabled, plain |-> t, secret |-> x.secret] EXCEPT !.secret = u]
         = [enabled |-> x.enabled, plain |-> t, secret |-> u]
  OBVIOUS
<1>2. QED
  BY <1>1, PlainReplaced, Zenon

LEMMA SecretReplaced ==
  ASSUME NEW x \in SectionRecords, NEW t
  PROVE  [x EXCEPT !.secret = t] = [enabled |-> x.enabled, plain |-> x.plain, secret |-> t]
BY DEF SectionRecords

\* What merge_submitted makes of one panel, of one section, and of the limits,
\* when it finds nothing wrong with them.
PanelSaves(x, p) ==
    /\ x.name # Blank /\ x.url # Blank
    /\ Or(x.key, KeyNamed(cfg.panels, x.name)) # None
    /\ [x EXCEPT !.key = Or(@, KeyNamed(cfg.panels, x.name))] = p
SectionSaves(s, x, y) ==
    /\ x \in SectionInputs
    /\ x.enabled => Or(x.secret, cfg.sections[s].secret) # None
    /\ y = [enabled |-> x.enabled, plain |-> Or(x.plain, cfg.sections[s].plain),
            secret |-> Or(x.secret, cfg.sections[s].secret)]
Saves(f, c) ==
    /\ DOMAIN f.panels = DOMAIN c.panels
    /\ \A i \in DOMAIN c.panels : PanelSaves(f.panels[i], c.panels[i])
    /\ \A s \in Sections : SectionSaves(s, f.sections[s], c.sections[s])
    /\ Or(f.limits, Default) = c.limits

\* A form that is right part by part is right, and stands for what its parts
\* stand for.
LEMMA PartByPart ==
  ASSUME NEW f, NEW c \in Cfgs, Saves(f, c)
  PROVE  Acceptable(cfg, f) /\ Merged(cfg, f) = c
<1> USE DEF Saves
<1>1. Acceptable(cfg, f)
  BY DEF Acceptable, PanelSaves, SectionSaves
<1>2. Merged(cfg, f).panels = c.panels
  <2>1. Merged(cfg, f).panels = [i \in DOMAIN c.panels |-> c.panels[i]]
    BY DEF Merged, PanelSaves
  <2>2. c.panels \in Seq(StoredPanels)
    BY DEF Cfgs
  <2>3. QED
    BY <2>1, <2>2
<1>3. Merged(cfg, f).sections = c.sections
  <2>1. ASSUME NEW s \in Sections
        PROVE  [f.sections[s] EXCEPT !.plain = Or(@, cfg.sections[s].plain),
                                     !.secret = Or(@, cfg.sections[s].secret)]
                  = c.sections[s]
    <3>1. SectionSaves(s, f.sections[s], c.sections[s])
      OBVIOUS
    <3>2. f.sections[s] \in SectionRecords
      BY <3>1 DEF SectionSaves, SectionInputs, SectionRecords
    <3> DEFINE x == f.sections[s]
               t == Or(x.plain, cfg.sections[s].plain)
               u == Or(x.secret, cfg.sections[s].secret)
    <3>3. [x EXCEPT !.plain = t, !.secret = u] = [enabled |-> x.enabled, plain |-> t, secret |-> u]
      <4> HIDE DEF x, t, u
      <4>1. x \in SectionRecords
        BY <3>2 DEF x
      <4>2. [x EXCEPT !.plain = t, !.secret = u] = [[x EXCEPT !.plain = t] EXCEPT !.secret = u]
        OBVIOUS
      <4>3. [[x EXCEPT !.plain = t] EXCEPT !.secret = u]
               = [enabled |-> x.enabled, plain |-> t, secret |-> u]
        BY <4>1, PlainAndSecretReplaced
      <4>4. QED
        BY <4>2, <4>3
    <3>4. QED
      BY <3>1, <3>3 DEF SectionSaves
  <2>2. Merged(cfg, f).sections = [s \in Sections |-> c.sections[s]]
    BY <2>1 DEF Merged
  <2>3. QED
    BY <2>2 DEF Cfgs
<1>4. Merged(cfg, f).limits = c.limits
  BY DEF Merged
<1>5. c = [panels |-> c.panels, sections |-> c.sections, limits |-> c.limits]
  BY DEF Cfgs
<1>6. Merged(cfg, f) = [panels |-> c.panels, sections |-> c.sections, limits |-> c.limits]
  BY <1>2, <1>3, <1>4 DEF Merged
<1>7. QED
  BY <1>1, <1>5, <1>6

\* Every panel, every section and the limits as they are shown stand for
\* themselves.
LEMMA ShownSaves ==
  ASSUME Inv, Distinct(cfg.panels)
  PROVE  Saves(Redacted(cfg), cfg)
<1> DEFINE f == Redacted(cfg)
<1>1. /\ cfg.panels \in Seq(StoredPanels) /\ cfg.sections \in [Sections -> SectionStates]
      /\ cfg.limits \in Limits
  BY DEF Inv, SettingsTypeOK
<1>2. ASSUME NEW i \in DOMAIN cfg.panels PROVE PanelSaves(f.panels[i], cfg.panels[i])
  <2>1. cfg.panels[i] \in StoredPanels
    BY <1>1
  <2>2. f.panels[i] = [cfg.panels[i] EXCEPT !.key = Blank]
    BY DEF Redacted, Hidden
  <2>3. KeyNamed(cfg.panels, cfg.panels[i].name) = cfg.panels[i].key
    BY <1>1, KeyNamedIsOwn
  <2>4. cfg.panels[i].key # None
    BY DEF Inv, NeverHalfConfigured
  <2>5. /\ f.panels[i].name = cfg.panels[i].name /\ f.panels[i].url = cfg.panels[i].url
        /\ f.panels[i].key = Blank
    BY <2>1, <2>2 DEF StoredPanels
  <2>6. QED
    BY <2>1, <2>2, <2>3, <2>4, <2>5, ValuesAssumption DEF StoredPanels, Or, PanelSaves
<1>3. ASSUME NEW s \in Sections PROVE SectionSaves(s, f.sections[s], cfg.sections[s])
  <2>1. cfg.sections[s] \in SectionStates
    BY <1>1
  <2>2. f.sections[s] = [cfg.sections[s] EXCEPT !.secret = Blank]
    BY DEF Redacted, Hidden
  <2>3. cfg.sections[s].enabled => cfg.sections[s].secret # None
    BY DEF Inv, NeverHalfConfigured
  <2>4. QED
    BY <2>1, <2>2, <2>3 DEF SectionStates, SectionInputs, Or, SectionSaves
<1>4. Or(f.limits, Default) = cfg.limits /\ DOMAIN f.panels = DOMAIN cfg.panels
  BY <1>1, ValuesAssumption DEF Redacted, Or
<1>5. QED
  BY <1>2, <1>3, <1>4 DEF Saves

\* A panel of the form stays right when its URL is changed, or when its key is
\* typed, and a new one is right from the start.
LEMMA EditedPanelSaves ==
  ASSUME Inv, NEW p \in StoredPanels, NEW x, x = [p EXCEPT !.key = Blank], PanelSaves(x, p)
  PROVE  /\ \A u \in Urls : PanelSaves([x EXCEPT !.url = u], [p EXCEPT !.url = u])
         /\ \A k \in Keys : PanelSaves([x EXCEPT !.key = k], [p EXCEPT !.key = k])
         /\ \A k \in Keys, n \in Names :
               PanelSaves([[x EXCEPT !.key = k] EXCEPT !.name = n],
                          [[p EXCEPT !.key = k] EXCEPT !.name = n])
<1>1. x.name = p.name /\ x.url = p.url /\ x.key = Blank
  BY DEF StoredPanels
<1>2. /\ p.key # None /\ p.name \in Names /\ p.url \in Urls
      /\ Or(x.key, KeyNamed(cfg.panels, p.name)) = p.key
  BY <1>1, ValuesAssumption DEF PanelSaves, StoredPanels
<1>3. QED
  BY <1>1, <1>2, ValuesAssumption DEF PanelSaves, StoredPanels, Or

LEMMA TypedPanelSaves ==
  ASSUME NEW p \in Panels
  PROVE  PanelSaves(p, p)
BY ValuesAssumption DEF PanelSaves, Panels, Or

\* A section whose plain fields are cleared stands for the section as it was.
LEMMA ClearedSectionSaves ==
  ASSUME NEW s \in Sections, NEW y \in SectionStates, y = cfg.sections[s],
         NEW x, x = [y EXCEPT !.secret = Blank], SectionSaves(s, x, y)
  PROVE  SectionSaves(s, [x EXCEPT !.plain = Blank], y)
<1>1. /\ x \in SectionRecords /\ x.secret = Blank /\ x.enabled = y.enabled
      /\ y = [enabled |-> y.enabled, plain |-> y.plain, secret |-> y.secret]
      /\ y.secret = Or(Blank, cfg.sections[s].secret)
      /\ y.enabled => y.secret # None
  BY DEF SectionSaves, SectionStates, SectionInputs, SectionRecords, Or
<1>2. [x EXCEPT !.plain = Blank]
         = [enabled |-> x.enabled, plain |-> Blank, secret |-> x.secret]
  BY <1>1, PlainReplaced
<1>3. QED
  BY <1>1, <1>2 DEF SectionSaves, SectionInputs, SectionStates, Or

\* A section of the form stays right when its plain fields are changed, when its
\* secret is typed, and when the switch of one with a secret is thrown.
LEMMA EditedSectionSaves ==
  ASSUME Inv, NEW s \in Sections, NEW y \in SectionStates, y = cfg.sections[s],
         NEW x, x = [y EXCEPT !.secret = Blank], SectionSaves(s, x, y)
  PROVE  /\ \A t \in Texts : SectionSaves(s, [x EXCEPT !.plain = t], [y EXCEPT !.plain = t])
         /\ \A k \in Keys, on \in BOOLEAN :
               SectionSaves(s, [[x EXCEPT !.secret = k] EXCEPT !.enabled = on],
                               [[y EXCEPT !.secret = k] EXCEPT !.enabled = on])
         /\ y.secret # None =>
               SectionSaves(s, [x EXCEPT !.enabled = ~@], [y EXCEPT !.enabled = ~@])
<1>1. /\ x \in SectionRecords /\ y \in SectionRecords
      /\ y.enabled \in BOOLEAN /\ y.plain \in Texts \cup {Blank}
      /\ x.enabled = y.enabled /\ x.plain = y.plain /\ x.secret = Blank
      /\ y.secret = cfg.sections[s].secret
      /\ y.enabled => y.secret # None
      /\ y.plain = Or(y.plain, cfg.sections[s].plain)
  BY DEF SectionSaves, SectionStates, SectionInputs, SectionRecords, Or
<1>2. ASSUME NEW t \in Texts
      PROVE  SectionSaves(s, [x EXCEPT !.plain = t], [y EXCEPT !.plain = t])
  <2>1. [x EXCEPT !.plain = t] = [enabled |-> x.enabled, plain |-> t, secret |-> x.secret]
    BY <1>1, PlainReplaced
  <2>2. [y EXCEPT !.plain = t] = [enabled |-> y.enabled, plain |-> t, secret |-> y.secret]
    BY <1>1, PlainReplaced
  <2>3. QED
    BY <1>1, <2>1, <2>2, ValuesAssumption DEF SectionSaves, SectionInputs, Or
<1>3. ASSUME NEW k \in Keys, NEW on \in BOOLEAN
      PROVE  SectionSaves(s, [[x EXCEPT !.secret = k] EXCEPT !.enabled = on],
                             [[y EXCEPT !.secret = k] EXCEPT !.enabled = on])
  <2> DEFINE z == [enabled |-> y.enabled, plain |-> y.plain, secret |-> k]
  <2>1. [x EXCEPT !.secret = k] = [enabled |-> x.enabled, plain |-> x.plain, secret |-> k]
    BY <1>1, SecretReplaced
  <2>2. [x EXCEPT !.secret = k] = z
    BY <1>1, <2>1
  <2>3. [y EXCEPT !.secret = k] = z
    BY <1>1, SecretReplaced
  <2>4. [z EXCEPT !.enabled = on] = [enabled |-> on, plain |-> y.plain, secret |-> k]
    OBVIOUS
  <2>5. SectionSaves(s, [z EXCEPT !.enabled = on], [z EXCEPT !.enabled = on])
    BY <1>1, <2>4, ValuesAssumption DEF SectionSaves, SectionInputs, Or
  <2> HIDE DEF z
  <2>6. QED
    BY <2>2, <2>3, <2>5
<1>4. ASSUME y.secret # None
      PROVE  SectionSaves(s, [x EXCEPT !.enabled = ~@], [y EXCEPT !.enabled = ~@])
  <2>1. [x EXCEPT !.enabled = ~@] = [enabled |-> ~x.enabled, plain |-> x.plain, secret |-> x.secret]
    BY <1>1, SwitchThrown
  <2>2. [y EXCEPT !.enabled = ~@] = [enabled |-> ~y.enabled, plain |-> y.plain, secret |-> y.secret]
    BY <1>1, SwitchThrown
  <2>3. QED
    BY <1>1, <1>4, <2>1, <2>2 DEF SectionSaves, SectionInputs, Or
<1>5. QED
  BY <1>2, <1>3, <1>4

\* One panel of a list replaced, in the form and in the configuration.
LEMMA EditOnePanel ==
  ASSUME Inv, Distinct(cfg.panels), NEW i \in DOMAIN cfg.panels, NEW x, NEW p \in StoredPanels,
         PanelSaves(x, p)
  PROVE  LET f == [Redacted(cfg) EXCEPT !.panels[i] = x]
             c == [cfg EXCEPT !.panels[i] = p]
         IN  Acceptable(cfg, f) /\ Merged(cfg, f) = c
<1> DEFINE f == [Redacted(cfg) EXCEPT !.panels[i] = x]
           c == [cfg EXCEPT !.panels[i] = p]
<1>1. cfg \in Cfgs /\ cfg.panels \in Seq(StoredPanels) /\ Saves(Redacted(cfg), cfg)
  BY ShownSaves DEF Inv, SettingsTypeOK, Cfgs
<1>2. [cfg.panels EXCEPT ![i] = p] \in Seq(StoredPanels)
  BY <1>1
<1>3. c \in Cfgs /\ c.panels = [cfg.panels EXCEPT ![i] = p]
      /\ c.sections = cfg.sections /\ c.limits = cfg.limits
  BY <1>1, <1>2 DEF Cfgs
<1>4. /\ f.panels = [Redacted(cfg).panels EXCEPT ![i] = x]
      /\ f.sections = Redacted(cfg).sections /\ f.limits = Redacted(cfg).limits
      /\ DOMAIN Redacted(cfg).panels = DOMAIN cfg.panels
  BY DEF Redacted
<1> HIDE DEF f, c
<1>5. Saves(f, c)
  <2>1. DOMAIN f.panels = DOMAIN cfg.panels /\ DOMAIN c.panels = DOMAIN cfg.panels
    BY <1>3, <1>4
  <2>2. \A j \in DOMAIN c.panels : PanelSaves(f.panels[j], c.panels[j])
    BY <1>1, <1>3, <1>4, <2>1 DEF Saves
  <2>3. QED
    BY <1>1, <1>3, <1>4, <2>1, <2>2 DEF Saves
<1>6. Acceptable(cfg, f) /\ Merged(cfg, f) = c
  BY <1>3, <1>5, PartByPart
<1>7. QED
  BY <1>6 DEF f, c

\* A list of panels replaced by another of which every panel is right.
LEMMA EditAllPanels ==
  ASSUME Inv, Distinct(cfg.panels), NEW list, NEW panels \in Seq(StoredPanels),
         DOMAIN list = DOMAIN panels, \A i \in DOMAIN panels : PanelSaves(list[i], panels[i])
  PROVE  LET f == [Redacted(cfg) EXCEPT !.panels = list]
             c == [cfg EXCEPT !.panels = panels]
         IN  Acceptable(cfg, f) /\ Merged(cfg, f) = c
<1> DEFINE f == [Redacted(cfg) EXCEPT !.panels = list]
           c == [cfg EXCEPT !.panels = panels]
<1>1. cfg \in Cfgs /\ Saves(Redacted(cfg), cfg)
  BY ShownSaves DEF Inv, SettingsTypeOK, Cfgs
<1>2. c \in Cfgs /\ c.panels = panels /\ c.sections = cfg.sections /\ c.limits = cfg.limits
  BY <1>1 DEF Cfgs
<1>3. f.panels = list /\ f.sections = Redacted(cfg).sections /\ f.limits = Redacted(cfg).limits
  BY DEF Redacted
<1> HIDE DEF f, c
<1>4. Saves(f, c)
  BY <1>1, <1>2, <1>3 DEF Saves
<1>5. Acceptable(cfg, f) /\ Merged(cfg, f) = c
  BY <1>2, <1>4, PartByPart
<1>6. QED
  BY <1>5 DEF f, c

\* One section replaced.
LEMMA EditOneSection ==
  ASSUME Inv, Distinct(cfg.panels), NEW s \in Sections, NEW x, NEW y \in SectionStates,
         SectionSaves(s, x, y)
  PROVE  LET f == [Redacted(cfg) EXCEPT !.sections[s] = x]
             c == [cfg EXCEPT !.sections[s] = y]
         IN  Acceptable(cfg, f) /\ Merged(cfg, f) = c
<1> DEFINE f == [Redacted(cfg) EXCEPT !.sections[s] = x]
           c == [cfg EXCEPT !.sections[s] = y]
<1>1. /\ cfg \in Cfgs /\ cfg.sections \in [Sections -> SectionStates]
      /\ Saves(Redacted(cfg), cfg)
  BY ShownSaves DEF Inv, SettingsTypeOK, Cfgs
<1>2. c \in Cfgs /\ c.sections = [cfg.sections EXCEPT ![s] = y]
      /\ c.panels = cfg.panels /\ c.limits = cfg.limits
  BY <1>1 DEF Cfgs
<1>3. /\ f.sections = [Redacted(cfg).sections EXCEPT ![s] = x]
      /\ f.panels = Redacted(cfg).panels /\ f.limits = Redacted(cfg).limits
      /\ DOMAIN Redacted(cfg).sections = Sections
  BY DEF Redacted
<1> HIDE DEF f, c
<1>4. \A r \in Sections : SectionSaves(r, f.sections[r], c.sections[r])
  BY <1>1, <1>2, <1>3 DEF Saves
<1>5. Saves(f, c)
  BY <1>1, <1>2, <1>3, <1>4 DEF Saves
<1>6. Acceptable(cfg, f) /\ Merged(cfg, f) = c
  BY <1>2, <1>5, PartByPart
<1>7. QED
  BY <1>6 DEF f, c

\* The lists of panels that a removal, an addition and a new order make.
LEMMA WithoutOne ==
  ASSUME NEW S, NEW list \in Seq(S), NEW i \in DOMAIN list
  PROVE  /\ Without(list, i) \in Seq(S) /\ Len(Without(list, i)) = Len(list) - 1
         /\ \A j \in DOMAIN Without(list, i) :
               LET k == IF j < i THEN j ELSE j + 1
               IN  k \in DOMAIN list /\ Without(list, i)[j] = list[k]
<1> DEFINE before == SubSeq(list, 1, i - 1)
           after == SubSeq(list, i + 1, Len(list))
<1>1. i \in 1..Len(list) /\ Len(list) \in Nat
  OBVIOUS
<1>2. before \in Seq(S) /\ Len(before) = i - 1 /\ \A j \in 1..(i - 1) : before[j] = list[j]
  BY <1>1
<1>3. /\ after \in Seq(S) /\ Len(after) = Len(list) - i
      /\ \A j \in 1..(Len(list) - i) : after[j] = list[i + j]
  BY <1>1
<1> HIDE DEF before, after
<1> DEFINE rest == before \o after
<1>4. rest \in Seq(S) /\ Len(rest) = Len(list) - 1
  BY <1>1, <1>2, <1>3
<1>5. ASSUME NEW j \in DOMAIN rest
      PROVE  LET k == IF j < i THEN j ELSE j + 1
             IN  k \in DOMAIN list /\ rest[j] = list[k]
  <2>1. j \in 1..(Len(list) - 1) /\ j \in Nat
    BY <1>4
  <2>2. CASE j < i
    <3>1. rest[j] = before[j]
      BY <1>1, <1>2, <1>3, <2>1, <2>2
    <3>2. QED
      BY <1>1, <1>2, <2>1, <2>2, <3>1
  <2>3. CASE ~(j < i)
    <3>1. j - (i - 1) \in 1..(Len(list) - i) /\ i + (j - (i - 1)) = j + 1
      BY <1>1, <2>1, <2>3
    <3>2. rest[j] = after[j - Len(before)]
      <4>1. j \in Nat /\ Len(before) < j /\ j <= Len(before) + Len(after)
        BY <1>1, <1>2, <1>3, <2>1, <2>3
      <4>2. \A m \in 1..(Len(before) + Len(after)) :
               rest[m] = IF m <= Len(before) THEN before[m] ELSE after[m - Len(before)]
        BY <1>2, <1>3, ConcatProperties, Zenon
      <4>3. j \in 1..(Len(before) + Len(after)) /\ ~(j <= Len(before))
        BY <1>1, <1>2, <1>3, <2>1, <4>1
      <4>4. QED
        BY <4>2, <4>3, Zenon
    <3>3. rest[j] = list[j + 1]
      BY <1>2, <1>3, <3>1, <3>2
    <3>4. QED
      BY <1>1, <2>1, <2>3, <3>3
  <2>4. QED
    BY <2>2, <2>3
<1>6. QED
  BY <1>4, <1>5 DEF Without, before, after

LEMMA Reordered ==
  ASSUME NEW S, NEW list \in Seq(S), NEW o \in Orders(DOMAIN list)
  PROVE  /\ [i \in DOMAIN list |-> list[o[i]]] \in Seq(S)
         /\ \A i \in DOMAIN list : o[i] \in DOMAIN list
<1>1. DOMAIN list = 1..Len(list) /\ Len(list) \in Nat
  OBVIOUS
<1>2. Cardinality(DOMAIN list) = Len(list)
  BY <1>1, FS_Interval
<1>3. o \in [1..Len(list) -> DOMAIN list]
  BY <1>2 DEF Orders
<1>4. \A i \in 1..Len(list) : o[i] \in 1..Len(list) /\ list[o[i]] \in S
  BY <1>1, <1>3
<1>5. [i \in 1..Len(list) |-> list[o[i]]] \in Seq(S)
  BY <1>1, <1>4
<1>6. QED
  BY <1>1, <1>4, <1>5

\* Every single edit of the form is saved as it was meant.
LEMMA EditsSaved == Inv => SavesWhatWasEdited
<1> SUFFICES ASSUME Inv, Distinct(cfg.panels) PROVE SavesWhatWasEdited
  BY DEF SavesWhatWasEdited
<1> DEFINE shown == Redacted(cfg)
<1>1. cfg \in Cfgs /\ cfg.panels \in Seq(StoredPanels) /\ Saves(shown, cfg)
  BY ShownSaves DEF Inv, SettingsTypeOK, Cfgs
<1>2. Acceptable(cfg, shown) /\ Merged(cfg, shown) = cfg
  BY <1>1, PartByPart
<1>3. ASSUME NEW i \in DOMAIN cfg.panels
      PROVE  /\ cfg.panels[i] \in StoredPanels
             /\ shown.panels[i] = [cfg.panels[i] EXCEPT !.key = Blank]
             /\ PanelSaves(shown.panels[i], cfg.panels[i])
  <2>1. cfg.panels[i] \in StoredPanels
    BY <1>1
  <2>2. shown.panels[i] = [cfg.panels[i] EXCEPT !.key = Blank]
    BY DEF Redacted, Hidden
  <2>3. PanelSaves(shown.panels[i], cfg.panels[i])
    BY <1>1 DEF Saves
  <2>4. QED
    BY <2>1, <2>2, <2>3
<1>4. ASSUME NEW i \in DOMAIN cfg.panels, NEW u \in Urls
      PROVE  LET f == [shown EXCEPT !.panels[i].url = u]
             IN  Acceptable(cfg, f) /\ Merged(cfg, f) = [cfg EXCEPT !.panels[i].url = u]
  <2> DEFINE x == [shown.panels[i] EXCEPT !.url = u]
             p == [cfg.panels[i] EXCEPT !.url = u]
  <2>1. PanelSaves(x, p)
    BY <1>3, EditedPanelSaves
  <2>2. p \in StoredPanels
    BY <1>3 DEF StoredPanels
  <2>3. /\ [shown EXCEPT !.panels[i].url = u] = [shown EXCEPT !.panels[i] = x]
        /\ [cfg EXCEPT !.panels[i].url = u] = [cfg EXCEPT !.panels[i] = p]
    OBVIOUS
  <2>4. QED
    BY <2>1, <2>2, <2>3, EditOnePanel
<1>5. ASSUME NEW i \in DOMAIN cfg.panels, NEW k \in Keys
      PROVE  LET f == [shown EXCEPT !.panels[i].key = k]
             IN  Acceptable(cfg, f) /\ Merged(cfg, f) = [cfg EXCEPT !.panels[i].key = k]
  <2> DEFINE x == [shown.panels[i] EXCEPT !.key = k]
             p == [cfg.panels[i] EXCEPT !.key = k]
  <2>1. PanelSaves(x, p)
    BY <1>3, EditedPanelSaves
  <2>2. p \in StoredPanels
    BY <1>3 DEF StoredPanels
  <2>3. /\ [shown EXCEPT !.panels[i].key = k] = [shown EXCEPT !.panels[i] = x]
        /\ [cfg EXCEPT !.panels[i].key = k] = [cfg EXCEPT !.panels[i] = p]
    OBVIOUS
  <2>4. QED
    BY <2>1, <2>2, <2>3, EditOnePanel
<1>6. ASSUME NEW i \in DOMAIN cfg.panels, NEW k \in Keys, NEW n \in Names
      PROVE  LET f == [shown EXCEPT !.panels[i].key = k, !.panels[i].name = n]
             IN  /\ Acceptable(cfg, f)
                 /\ Merged(cfg, f) = [cfg EXCEPT !.panels[i].key = k, !.panels[i].name = n]
  <2> DEFINE x == [[shown.panels[i] EXCEPT !.key = k] EXCEPT !.name = n]
             p == [[cfg.panels[i] EXCEPT !.key = k] EXCEPT !.name = n]
  <2>1. PanelSaves(x, p)
    BY <1>3, EditedPanelSaves
  <2>2. p \in StoredPanels
    BY <1>3 DEF StoredPanels
  <2>3. /\ [shown EXCEPT !.panels[i].key = k, !.panels[i].name = n]
              = [shown EXCEPT !.panels[i] = x]
        /\ [cfg EXCEPT !.panels[i].key = k, !.panels[i].name = n] = [cfg EXCEPT !.panels[i] = p]
    OBVIOUS
  <2>4. QED
    BY <2>1, <2>2, <2>3, EditOnePanel
<1>7. /\ shown.panels \in Seq(PanelInputs) /\ DOMAIN shown.panels = DOMAIN cfg.panels
      /\ Len(shown.panels) = Len(cfg.panels)
  <2>1. shown.panels \in Seq(PanelInputs) /\ DOMAIN shown.panels = DOMAIN cfg.panels
    BY <1>1, ShownTyped DEF Forms, Saves
  <2> DEFINE list == shown.panels
             panels == cfg.panels
  <2>2. list \in Seq(PanelInputs) /\ panels \in Seq(StoredPanels) /\ DOMAIN list = DOMAIN panels
    BY <1>1, <2>1
  <2> HIDE DEF list, panels
  <2>3. Len(list) = Len(panels)
    BY <2>2
  <2>4. QED
    BY <2>1, <2>3 DEF list, panels
<1>8. ASSUME NEW i \in DOMAIN cfg.panels
      PROVE  LET f == [shown EXCEPT !.panels = Without(@, i)]
             IN  Acceptable(cfg, f) /\ Merged(cfg, f) = [cfg EXCEPT !.panels = Without(@, i)]
  <2> DEFINE list == Without(shown.panels, i)
             panels == Without(cfg.panels, i)
  <2>1. /\ panels \in Seq(StoredPanels) /\ list \in Seq(PanelInputs) /\ Len(list) = Len(panels)
        /\ \A j \in DOMAIN list : LET k == IF j < i THEN j ELSE j + 1
                                  IN  k \in DOMAIN shown.panels /\ list[j] = shown.panels[k]
        /\ \A j \in DOMAIN panels : LET k == IF j < i THEN j ELSE j + 1
                                    IN  k \in DOMAIN cfg.panels /\ panels[j] = cfg.panels[k]
    <3> DEFINE a == shown.panels
               b == cfg.panels
    <3>1. a \in Seq(PanelInputs) /\ b \in Seq(StoredPanels) /\ Len(a) = Len(b)
          /\ i \in DOMAIN a /\ i \in DOMAIN b
      BY <1>1, <1>7
    <3> HIDE DEF a, b
    <3>2. /\ Without(a, i) \in Seq(PanelInputs) /\ Len(Without(a, i)) = Len(a) - 1
          /\ \A j \in DOMAIN Without(a, i) : LET k == IF j < i THEN j ELSE j + 1
                                             IN  k \in DOMAIN a /\ Without(a, i)[j] = a[k]
      BY <3>1, WithoutOne
    <3>3. /\ Without(b, i) \in Seq(StoredPanels) /\ Len(Without(b, i)) = Len(b) - 1
          /\ \A j \in DOMAIN Without(b, i) : LET k == IF j < i THEN j ELSE j + 1
                                             IN  k \in DOMAIN b /\ Without(b, i)[j] = b[k]
      BY <3>1, WithoutOne
    <3>4. QED
      BY <3>1, <3>2, <3>3 DEF a, b
  <2>2. [shown EXCEPT !.panels = Without(@, i)] = [shown EXCEPT !.panels = list]
    OBVIOUS
  <2>3. [cfg EXCEPT !.panels = Without(@, i)] = [cfg EXCEPT !.panels = panels]
    OBVIOUS
  <2> HIDE DEF list, panels
  <2>4. DOMAIN list = DOMAIN panels
    BY <2>1
  <2>5. \A j \in DOMAIN panels : PanelSaves(list[j], panels[j])
    BY <1>3, <2>1, <2>4
  <2>6. QED
    BY <2>1, <2>2, <2>3, <2>4, <2>5, EditAllPanels
<1>9. ASSUME NEW q \in Panels
      PROVE  LET f == [shown EXCEPT !.panels = Append(@, q)]
             IN  Acceptable(cfg, f) /\ Merged(cfg, f) = [cfg EXCEPT !.panels = Append(@, q)]
  <2> DEFINE list == Append(shown.panels, q)
             panels == Append(cfg.panels, q)
  <2>1. /\ q \in StoredPanels /\ q \in PanelInputs /\ PanelSaves(q, q)
    BY TypedPanelSaves DEF Panels, StoredPanels, PanelInputs
  <2>2. /\ panels \in Seq(StoredPanels) /\ DOMAIN list = DOMAIN panels
        /\ \A j \in DOMAIN panels : \/ j \in DOMAIN cfg.panels /\ list[j] = shown.panels[j]
                                       /\ panels[j] = cfg.panels[j]
                                    \/ list[j] = q /\ panels[j] = q
    <3> DEFINE a == shown.panels
               b == cfg.panels
    <3>1. /\ a \in Seq(PanelInputs) /\ b \in Seq(StoredPanels) /\ Len(a) = Len(b)
      BY <1>1, <1>7
    <3> HIDE DEF a, b
    <3>2. /\ Append(b, q) \in Seq(StoredPanels) /\ DOMAIN Append(a, q) = DOMAIN Append(b, q)
          /\ DOMAIN Append(b, q) = 1..(Len(b) + 1)
      BY <2>1, <3>1
    <3>3. \A j \in 1..(Len(b) + 1) :
              \/ j \in DOMAIN b /\ Append(a, q)[j] = a[j] /\ Append(b, q)[j] = b[j]
              \/ Append(a, q)[j] = q /\ Append(b, q)[j] = q
      BY <2>1, <3>1
    <3>4. QED
      BY <3>2, <3>3 DEF a, b
  <2>3. [shown EXCEPT !.panels = Append(@, q)] = [shown EXCEPT !.panels = list]
    OBVIOUS
  <2>4. [cfg EXCEPT !.panels = Append(@, q)] = [cfg EXCEPT !.panels = panels]
    OBVIOUS
  <2> HIDE DEF list, panels
  <2>5. \A j \in DOMAIN panels : PanelSaves(list[j], panels[j])
    BY <1>3, <2>1, <2>2
  <2>6. QED
    BY <2>2, <2>3, <2>4, <2>5, EditAllPanels
<1>10. ASSUME NEW o \in Orders(DOMAIN cfg.panels)
       PROVE  LET f == [shown EXCEPT !.panels = [i \in DOMAIN @ |-> @[o[i]]]]
              IN  /\ Acceptable(cfg, f)
                  /\ Merged(cfg, f) = [cfg EXCEPT !.panels = [i \in DOMAIN @ |-> @[o[i]]]]
  <2> DEFINE list == [i \in DOMAIN shown.panels |-> shown.panels[o[i]]]
             panels == [i \in DOMAIN cfg.panels |-> cfg.panels[o[i]]]
  <2>1. panels \in Seq(StoredPanels) /\ \A i \in DOMAIN cfg.panels : o[i] \in DOMAIN cfg.panels
    BY <1>1, Reordered
  <2>2. DOMAIN list = DOMAIN panels
    BY <1>7
  <2>3. \A j \in DOMAIN panels : PanelSaves(list[j], panels[j])
    BY <1>3, <1>7, <2>1
  <2> HIDE DEF list, panels
  <2>4. LET f == [shown EXCEPT !.panels = list]
        IN  Acceptable(cfg, f) /\ Merged(cfg, f) = [cfg EXCEPT !.panels = panels]
    BY <2>1, <2>2, <2>3, EditAllPanels
  <2>5. QED
    BY <2>4 DEF list, panels
<1>11. ASSUME NEW s \in Sections
       PROVE  /\ cfg.sections[s] \in SectionStates
              /\ shown.sections[s] = [cfg.sections[s] EXCEPT !.secret = Blank]
              /\ SectionSaves(s, shown.sections[s], cfg.sections[s])
  <2>1. cfg.sections[s] \in SectionStates
    BY <1>1 DEF Cfgs
  <2>2. shown.sections[s] = [cfg.sections[s] EXCEPT !.secret = Blank]
    BY DEF Redacted, Hidden
  <2>3. SectionSaves(s, shown.sections[s], cfg.sections[s])
    BY <1>1 DEF Saves
  <2>4. QED
    BY <2>1, <2>2, <2>3
<1>12. ASSUME NEW s \in Sections, NEW t \in Texts
       PROVE  LET f == [shown EXCEPT !.sections[s].plain = t]
              IN  Acceptable(cfg, f) /\ Merged(cfg, f) = [cfg EXCEPT !.sections[s].plain = t]
  <2> DEFINE x == [shown.sections[s] EXCEPT !.plain = t]
             y == [cfg.sections[s] EXCEPT !.plain = t]
  <2>1. SectionSaves(s, x, y)
    BY <1>11, EditedSectionSaves
  <2>2. y \in SectionStates
    BY <1>11 DEF SectionStates
  <2>3. /\ [shown EXCEPT !.sections[s].plain = t] = [shown EXCEPT !.sections[s] = x]
        /\ [cfg EXCEPT !.sections[s].plain = t] = [cfg EXCEPT !.sections[s] = y]
    OBVIOUS
  <2>4. QED
    BY <2>1, <2>2, <2>3, EditOneSection
<1>13. ASSUME NEW s \in Sections, NEW k \in Keys, NEW on \in BOOLEAN
       PROVE  LET f == [shown EXCEPT !.sections[s].secret = k, !.sections[s].enabled = on]
              IN  /\ Acceptable(cfg, f)
                  /\ Merged(cfg, f) = [cfg EXCEPT !.sections[s].secret = k,
                                                  !.sections[s].enabled = on]
  <2> DEFINE x == [[shown.sections[s] EXCEPT !.secret = k] EXCEPT !.enabled = on]
             y == [[cfg.sections[s] EXCEPT !.secret = k] EXCEPT !.enabled = on]
  <2>1. SectionSaves(s, x, y)
    BY <1>11, EditedSectionSaves
  <2>2. y \in SectionStates
    BY <1>11 DEF SectionStates
  <2>3. [shown EXCEPT !.sections[s].secret = k, !.sections[s].enabled = on]
           = [shown EXCEPT !.sections[s] = x]
    OBVIOUS
  <2>4. [cfg EXCEPT !.sections[s].secret = k, !.sections[s].enabled = on]
           = [cfg EXCEPT !.sections[s] = y]
    OBVIOUS
  <2>5. QED
    BY <2>1, <2>2, <2>3, <2>4, EditOneSection
<1>14. ASSUME NEW s \in Sections, cfg.sections[s].secret # None
       PROVE  LET f == [shown EXCEPT !.sections[s].enabled = ~@]
              IN  /\ Acceptable(cfg, f)
                  /\ Merged(cfg, f) = [cfg EXCEPT !.sections[s].enabled = ~@]
  <2> DEFINE x == [shown.sections[s] EXCEPT !.enabled = ~@]
             y == [cfg.sections[s] EXCEPT !.enabled = ~@]
  <2>1. SectionSaves(s, x, y)
    BY <1>11, <1>14, EditedSectionSaves
  <2>2. y \in SectionStates
    BY <1>11 DEF SectionStates
  <2>3. /\ [shown EXCEPT !.sections[s].enabled = ~@] = [shown EXCEPT !.sections[s] = x]
        /\ [cfg EXCEPT !.sections[s].enabled = ~@] = [cfg EXCEPT !.sections[s] = y]
    OBVIOUS
  <2>4. QED
    BY <2>1, <2>2, <2>3, EditOneSection
<1>15. ASSUME NEW l \in Limits
       PROVE  LET f == [shown EXCEPT !.limits = l]
              IN  Acceptable(cfg, f) /\ Merged(cfg, f) = [cfg EXCEPT !.limits = l]
  <2> DEFINE f == [shown EXCEPT !.limits = l]
             c == [cfg EXCEPT !.limits = l]
  <2>1. c \in Cfgs /\ c.panels = cfg.panels /\ c.sections = cfg.sections /\ c.limits = l
    BY <1>1 DEF Cfgs
  <2>2. f.panels = shown.panels /\ f.sections = shown.sections /\ f.limits = l
    BY DEF Redacted
  <2>3. Or(l, Default) = l
    BY ValuesAssumption DEF Or
  <2> HIDE DEF f, c
  <2>4. Saves(f, c)
    BY <1>1, <2>1, <2>2, <2>3 DEF Saves
  <2>5. Acceptable(cfg, f) /\ Merged(cfg, f) = c
    BY <2>1, <2>4, PartByPart
  <2>6. QED
    BY <2>5 DEF f, c
<1>16. /\ \A i \in DOMAIN cfg.panels, u \in Urls :
             Faithful(LAMBDA x : [x EXCEPT !.panels[i].url = u])
       /\ \A i \in DOMAIN cfg.panels, k \in Keys :
             Faithful(LAMBDA x : [x EXCEPT !.panels[i].key = k])
       /\ \A i \in DOMAIN cfg.panels, k \in Keys, n \in Names :
             Faithful(LAMBDA x : [x EXCEPT !.panels[i].key = k, !.panels[i].name = n])
  BY <1>4, <1>5, <1>6 DEF Faithful, SavedAs
<1>17. /\ \A i \in DOMAIN cfg.panels : Faithful(LAMBDA x : [x EXCEPT !.panels = Without(@, i)])
       /\ \A p \in Panels : Faithful(LAMBDA x : [x EXCEPT !.panels = Append(@, p)])
       /\ \A o \in Orders(DOMAIN cfg.panels) :
             Faithful(LAMBDA x : [x EXCEPT !.panels = [i \in DOMAIN @ |-> @[o[i]]]])
  BY <1>8, <1>9, <1>10 DEF Faithful, SavedAs
<1>18. /\ \A s \in Sections, t \in Texts : Faithful(LAMBDA x : [x EXCEPT !.sections[s].plain = t])
       /\ \A s \in Sections, k \in Keys, on \in BOOLEAN :
             Faithful(LAMBDA x : [x EXCEPT !.sections[s].secret = k, !.sections[s].enabled = on])
       /\ \A s \in Sections : cfg.sections[s].secret # None =>
             Faithful(LAMBDA x : [x EXCEPT !.sections[s].enabled = ~@])
  BY <1>12, <1>13, <1>14 DEF Faithful, SavedAs
<1>19. Faithful(LAMBDA x : x) /\ \A l \in Limits : Faithful(LAMBDA x : [x EXCEPT !.limits = l])
  BY <1>2, <1>15 DEF Faithful, SavedAs
<1>20. IncompleteRefused
  <2> DEFINE used == {cfg.panels[i].name : i \in DOMAIN cfg.panels}
  <2>1. ASSUME NEW i \in DOMAIN cfg.panels, NEW n \in (Names \cup {Blank}) \ used
        PROVE  ~Acceptable(cfg, [shown EXCEPT !.panels[i].name = n])
    <3> DEFINE f == [shown EXCEPT !.panels[i].name = n]
    <3>1. f.panels[i].name = n /\ f.panels[i].key = Blank /\ i \in DOMAIN f.panels
      BY <1>3 DEF Redacted, Hidden, StoredPanels
    <3>2. KeyNamed(cfg.panels, n) = None
      BY <2>1 DEF KeyNamed
    <3> HIDE DEF f
    <3>3. Or(f.panels[i].key, KeyNamed(cfg.panels, f.panels[i].name)) = None
      BY <3>1, <3>2 DEF Or
    <3>4. ~Acceptable(cfg, f)
      BY <3>1, <3>3 DEF Acceptable
    <3>5. QED
      BY <3>4 DEF f
  <2>2. ASSUME NEW i \in DOMAIN cfg.panels
        PROVE  ~Acceptable(cfg, [shown EXCEPT !.panels[i].url = Blank])
    <3> DEFINE f == [shown EXCEPT !.panels[i].url = Blank]
    <3>1. f.panels[i].url = Blank /\ i \in DOMAIN f.panels
      BY <1>3 DEF Redacted, Hidden, StoredPanels
    <3> HIDE DEF f
    <3>2. ~Acceptable(cfg, f)
      BY <3>1 DEF Acceptable
    <3>3. QED
      BY <3>2 DEF f
  <2>3. QED
    BY <2>1, <2>2 DEF IncompleteRefused
<1>21. ASSUME NEW s \in Sections
       PROVE  SavedAs([shown EXCEPT !.sections[s].plain = Blank], cfg)
  <2> DEFINE x == [shown.sections[s] EXCEPT !.plain = Blank]
             y == cfg.sections[s]
  <2>1. SectionSaves(s, x, y) /\ y \in SectionStates
    BY <1>11, ClearedSectionSaves
  <2>2. [shown EXCEPT !.sections[s].plain = Blank] = [shown EXCEPT !.sections[s] = x]
    OBVIOUS
  <2>3. [cfg EXCEPT !.sections[s] = y] = cfg
    BY <1>1 DEF Cfgs
  <2>4. QED
    BY <2>1, <2>2, <2>3, EditOneSection DEF SavedAs
<1>22. SavedAs([shown EXCEPT !.limits = Blank], [cfg EXCEPT !.limits = Default])
  <2> DEFINE f == [shown EXCEPT !.limits = Blank]
             c == [cfg EXCEPT !.limits = Default]
  <2>1. c \in Cfgs /\ c.panels = cfg.panels /\ c.sections = cfg.sections /\ c.limits = Default
    BY <1>1, ValuesAssumption DEF Cfgs
  <2>2. f.panels = shown.panels /\ f.sections = shown.sections /\ f.limits = Blank
    BY DEF Redacted
  <2>3. Or(Blank, Default) = Default
    BY DEF Or
  <2> HIDE DEF f, c
  <2>4. Saves(f, c)
    BY <1>1, <2>1, <2>2, <2>3 DEF Saves
  <2>5. Acceptable(cfg, f) /\ Merged(cfg, f) = c
    BY <2>1, <2>4, PartByPart
  <2>6. QED
    BY <2>5 DEF f, c, SavedAs
<1>23. ClearedFields
  BY <1>21, <1>22 DEF ClearedFields
<1>24. QED
  BY <1>16, <1>17, <1>18, <1>19, <1>20, <1>23 DEF SavesWhatWasEdited

\* Saving the form untouched changes nothing; every single edit that fills
\* something in, adds, removes, reorders or switches changes what was edited and
\* no secret besides; an incomplete panel is refused; a cleared field keeps its
\* value, or takes the built-in one: for any number of panels.
THEOREM EditsAlwaysSaved == SettingsSpec => []SavesWhatWasEdited
BY EditsSaved, InvHolds, PTL
-----------------------------------------------------------------------------
\* First and Last of a set of indices.
LEMMA LastOf ==
  ASSUME NEW n \in Nat, NEW S \in SUBSET (1..n), S # {}
  PROVE  Last(S) \in S /\ \A j \in S : j <= Last(S)
BY LastExists DEF Last

LEMMA FirstOf ==
  ASSUME NEW n \in Nat, NEW S \in SUBSET (1..n), S # {}
  PROVE  First(S) \in S /\ \A j \in S : First(S) <= j
<1>1. S \subseteq Nat
  OBVIOUS
<1>2. \E x \in S : \A y \in S : ~(<<y, x>> \in OpToRel(<, Nat))
  BY <1>1, NatLessThanWellFounded, WFMin
<1>3. PICK i \in S : \A j \in S : ~(<<j, i>> \in OpToRel(<, Nat))
  BY <1>2
<1>4. \A j \in S : ~(j < i)
  BY <1>1, <1>3 DEF OpToRel
<1>5. \A j \in S : i <= j
  BY <1>1, <1>4
<1>6. QED
  BY <1>5 DEF First

\* An order of a finite set takes every member once.
LEMMA OrderOf ==
  ASSUME NEW S, IsFiniteSet(S), NEW o \in Orders(S)
  PROVE  /\ Cardinality(S) \in Nat
         /\ o \in [1..Cardinality(S) -> S]
         /\ \A x \in S : \E i \in 1..Cardinality(S) : o[i] = x
         /\ \A i, j \in 1..Cardinality(S) : o[i] = o[j] => i = j
<1> DEFINE n == Cardinality(S)
<1>1. n \in Nat
  BY FS_CardinalityType
<1>2. o \in [1..n -> S] /\ \A x \in S : \E i \in 1..n : o[i] = x
  BY DEF Orders
<1>3. IsFiniteSet(1..n) /\ Cardinality(1..n) = Cardinality(S)
  BY <1>1, FS_Interval
<1>4. o \in Surjection(1..n, S)
  BY <1>2 DEF Surjection
<1>5. o \in Injection(1..n, S)
  BY <1>3, <1>4, FS_SurjSameCardinalityImpliesInj
<1>6. \A i, j \in 1..n : o[i] = o[j] => i = j
  BY <1>5, Fun_InjectionProperties
<1>7. QED
  BY <1>1, <1>2, <1>6

LEMMA OrderOfInterval ==
  ASSUME NEW n \in Nat, NEW o \in Orders(1..n)
  PROVE  /\ o \in [1..n -> 1..n]
         /\ \A x \in 1..n : \E i \in 1..n : o[i] = x
         /\ \A i, j \in 1..n : o[i] = o[j] => i = j
<1>1. IsFiniteSet(1..n) /\ Cardinality(1..n) = n
  BY FS_Interval
<1>2. /\ o \in [1..Cardinality(1..n) -> 1..n]
      /\ \A x \in 1..n : \E i \in 1..Cardinality(1..n) : o[i] = x
      /\ \A i, j \in 1..Cardinality(1..n) : o[i] = o[j] => i = j
  BY <1>1, OrderOf, Zenon
<1>3. QED
  BY <1>1, <1>2

\* Every finite set can be put in order.
LEMMA OrdersExist ==
  ASSUME NEW S, IsFiniteSet(S)
  PROVE  Orders(S) # {}
<1>1. ExistsBijection(1..Cardinality(S), S)
  BY FS_CardinalityType
<1>2. PICK o : o \in Bijection(1..Cardinality(S), S)
  BY <1>1 DEF ExistsBijection
<1>3. o \in [1..Cardinality(S) -> S] /\ \A x \in S : \E i \in 1..Cardinality(S) : o[i] = x
  BY <1>2 DEF Bijection, Surjection
<1>4. o \in Orders(S)
  BY <1>3 DEF Orders
<1>5. QED
  BY <1>4

\* The numbers 1..n can be put in any order that is total: each at the place
\* after those that come before it.
TotalOn(n, R) ==
    /\ R \in SUBSET ((1..n) \X (1..n))
    /\ \A i \in 1..n : <<i, i>> \notin R
    /\ \A i, j, k \in 1..n : <<i, j>> \in R /\ <<j, k>> \in R => <<i, k>> \in R
    /\ \A i, j \in 1..n : i # j => <<i, j>> \in R \/ <<j, i>> \in R
Keeps(n, R, o) ==
    \A i, j \in 1..n : <<i, j>> \in R => \E k, l \in DOMAIN o : o[k] = i /\ o[l] = j /\ k < l

LEMMA TotalOrder ==
  ASSUME NEW n \in Nat, NEW R, TotalOn(n, R)
  PROVE  \E o \in Orders(1..n) : Keeps(n, R, o)
<1> USE DEF TotalOn
<1> DEFINE below == [i \in 1..n |-> {j \in 1..n : <<j, i>> \in R}]
           rank == [i \in 1..n |-> Cardinality(below[i]) + 1]
           o == [k \in 1..n |-> CHOOSE i \in 1..n : rank[i] = k]
<1>1. IsFiniteSet(1..n) /\ Cardinality(1..n) = n
  BY FS_Interval
<1>2. ASSUME NEW i \in 1..n
      PROVE  /\ below[i] \in SUBSET ((1..n) \ {i})
             /\ IsFiniteSet(below[i]) /\ Cardinality(below[i]) \in Nat
             /\ Cardinality(below[i]) <= n - 1
  <2>1. below[i] \in SUBSET ((1..n) \ {i})
    OBVIOUS
  <2> HIDE DEF below
  <2>2. IsFiniteSet((1..n) \ {i}) /\ Cardinality((1..n) \ {i}) = n - 1
    BY <1>1, FS_RemoveElement
  <2>3. IsFiniteSet(below[i]) /\ Cardinality(below[i]) <= Cardinality((1..n) \ {i})
    BY <2>1, <2>2, FS_Subset
  <2>4. Cardinality(below[i]) \in Nat
    BY <2>3, FS_CardinalityType
  <2>5. QED
    BY <2>1, <2>2, <2>3, <2>4
<1>3. ASSUME NEW i \in 1..n, NEW j \in 1..n, <<i, j>> \in R
      PROVE  below[i] \cup {i} \in SUBSET below[j]
  BY <1>3
<1> HIDE DEF below
<1>4. ASSUME NEW i \in 1..n, NEW j \in 1..n, <<i, j>> \in R
      PROVE  rank[i] < rank[j]
  <2>1. Cardinality(below[i] \cup {i}) = Cardinality(below[i]) + 1
    <3>1. IsFiniteSet(below[i]) /\ i \notin below[i]
      BY <1>2
    <3>2. QED
      BY <3>1, FS_AddElement
  <2>2. Cardinality(below[i] \cup {i}) <= Cardinality(below[j])
    BY <1>2, <1>3, <1>4, FS_Subset
  <2>3. Cardinality(below[i]) < Cardinality(below[j])
    BY <1>2, <2>1, <2>2
  <2>4. QED
    BY <1>2, <2>3
<1>5. rank \in [1..n -> 1..n]
  <2>1. \A i \in 1..n : Cardinality(below[i]) + 1 \in 1..n
    BY <1>2
  <2>2. QED
    BY <2>1
<1> HIDE DEF rank
<1>6. \A i, j \in 1..n : rank[i] = rank[j] => i = j
  <2>1. ASSUME NEW i \in 1..n, NEW j \in 1..n, rank[i] = rank[j], i # j PROVE FALSE
    <3>1. rank[i] < rank[j] \/ rank[j] < rank[i]
      BY <1>4, <2>1
    <3>2. rank[i] \in Nat
      BY <1>5
    <3>3. QED
      BY <2>1, <3>1, <3>2
  <2>2. QED
    BY <2>1
<1>7. \A k \in 1..n : \E i \in 1..n : rank[i] = k
  <2>1. rank \in Injection(1..n, 1..n)
    BY <1>5, <1>6, Fun_IsInj
  <2>2. rank \in Surjection(1..n, 1..n)
    BY <1>1, <2>1, FS_Injection
  <2>3. QED
    BY <2>2 DEF Surjection
<1>8. \A k \in 1..n : o[k] \in 1..n /\ rank[o[k]] = k
  BY <1>7
<1>9. o \in [1..n -> 1..n]
  BY <1>8
<1> HIDE DEF o
<1>10. \A i \in 1..n : o[rank[i]] = i
  BY <1>5, <1>6, <1>8
<1>11. o \in Orders(1..n)
  <2>1. \A i \in 1..n : \E k \in DOMAIN o : o[k] = i
    BY <1>5, <1>9, <1>10
  <2>2. QED
    BY <1>1, <1>9, <2>1 DEF Orders
<1>12. ASSUME NEW i \in 1..n, NEW j \in 1..n, <<i, j>> \in R
       PROVE  \E k, l \in DOMAIN o : o[k] = i /\ o[l] = j /\ k < l
  BY <1>4, <1>5, <1>9, <1>10, <1>12
<1>13. QED
  BY <1>11, <1>12 DEF Keeps

\* An order that keeps every two numbers as they are leaves all in place.
LEMMA InPlace ==
  ASSUME NEW n \in Nat, NEW o \in Orders(1..n),
         \A i, j \in 1..n : i < j => \E k, l \in DOMAIN o : o[k] = i /\ o[l] = j /\ k < l
  PROVE  o = [i \in 1..n |-> i]
<1>2. /\ o \in [1..n -> 1..n]
      /\ \A x \in 1..n : \E i \in 1..n : o[i] = x
      /\ \A i, j \in 1..n : o[i] = o[j] => i = j
  BY OrderOfInterval
<1>3. SUFFICES ASSUME NEW m \in 1..n, o[m] # m PROVE FALSE
  BY <1>2
<1> DEFINE moved == {i \in 1..n : o[i] # i}
<1>4. moved \in SUBSET (1..n) /\ moved # {}
  BY <1>3
<1> DEFINE k == First(moved)
<1>5. k \in moved /\ \A j \in moved : k <= j
  BY <1>4, FirstOf
<1> HIDE DEF k
<1>6. k \in 1..n /\ o[k] # k /\ \A j \in 1..n : j < k => o[j] = j
  BY <1>5
<1>7. k < o[k]
  <2>1. o[k] \in 1..n
    BY <1>2, <1>6
  <2>2. ~(o[k] < k)
    BY <1>2, <1>6, <2>1
  <2>3. QED
    BY <1>6, <2>1, <2>2
<1>8. PICK a \in DOMAIN o, b \in DOMAIN o : o[a] = k /\ o[b] = o[k] /\ a < b
  BY <1>2, <1>6, <1>7
<1>9. b = k /\ a < k
  BY <1>2, <1>6, <1>8
<1>10. QED
  BY <1>2, <1>6, <1>8, <1>9
-----------------------------------------------------------------------------
\* The order in which the results of the panels come to stand.
Place(i) == Last({j \in DOMAIN cfg.panels : cfg.panels[j].name = cfg.panels[i].name})
InOrder(o, answered) ==
    \A x, y \in DOMAIN answered : x < y =>
        LET p == answered[x]  q == answered[y]
            before(i, j) == \E k, l \in DOMAIN o : o[k] = i /\ o[l] = j /\ k < l
        IN  IF Place(p) <= Place(q) THEN before(p, q) ELSE before(q, p)

LEMMA PanelIndices ==
  ASSUME Inv
  PROVE  /\ cfg.panels \in Seq(StoredPanels) /\ Len(cfg.panels) \in Nat
         /\ DOMAIN cfg.panels = 1..Len(cfg.panels)
         /\ IsFiniteSet(DOMAIN cfg.panels)
         /\ Cardinality(DOMAIN cfg.panels) = Len(cfg.panels)
<1>1. cfg.panels \in Seq(StoredPanels)
  BY DEF Inv, SettingsTypeOK
<1>2. Len(cfg.panels) \in Nat /\ DOMAIN cfg.panels = 1..Len(cfg.panels)
  BY <1>1
<1>3. QED
  BY <1>1, <1>2, FS_Interval

LEMMA PlaceOf ==
  ASSUME Inv, NEW i \in DOMAIN cfg.panels
  PROVE  /\ Place(i) \in DOMAIN cfg.panels
         /\ Distinct(cfg.panels) => Place(i) = i
<1> DEFINE S == {j \in DOMAIN cfg.panels : cfg.panels[j].name = cfg.panels[i].name}
           n == Len(cfg.panels)
<1>1. n \in Nat /\ S \in SUBSET (1..n) /\ i \in S
  BY PanelIndices
<1>2. Distinct(cfg.panels) => S = {i}
  BY DEF Distinct
<1> HIDE DEF S
<1>3. Last(S) \in S
  BY <1>1, LastOf
<1>4. QED
  BY <1>2, <1>3 DEF Place, S

\* However the panels answer, their results can be put in the order of the
\* file, those of one name as they came, and that is how they stand.
LEMMA SortedIsInOrder ==
  ASSUME Inv, NEW answered \in Answers
  PROVE  /\ Sorted(answered) \in Orders(DOMAIN cfg.panels)
         /\ InOrder(Sorted(answered), answered)
<1> DEFINE n == Len(cfg.panels)
           at == [i \in 1..n |-> CHOOSE x \in 1..n : answered[x] = i]
           place == [i \in 1..n |-> Place(i)]
           R == {r \in (1..n) \X (1..n) :
                   \/ place[r[1]] < place[r[2]]
                   \/ place[r[1]] = place[r[2]] /\ at[r[1]] < at[r[2]]}
<1>1. n \in Nat /\ DOMAIN cfg.panels = 1..n /\ IsFiniteSet(1..n) /\ Cardinality(1..n) = n
  BY PanelIndices
<1>2. answered \in Orders(1..n)
  BY <1>1 DEF Answers
<1>3. /\ answered \in [1..n -> 1..n]
      /\ \A x \in 1..n : \E i \in 1..n : answered[i] = x
      /\ \A i, j \in 1..n : answered[i] = answered[j] => i = j
  BY <1>1, <1>2, OrderOfInterval
<1>4. at \in [1..n -> 1..n] /\ \A i \in 1..n : answered[at[i]] = i
  BY <1>3
<1>5. place \in [1..n -> 1..n]
  BY <1>1, PlaceOf
<1> HIDE DEF at, place, n
<1>6. ASSUME NEW x \in 1..n PROVE at[answered[x]] = x
  <2>1. answered[x] \in 1..n
    BY <1>3
  <2>2. at[answered[x]] \in 1..n /\ answered[at[answered[x]]] = answered[x]
    BY <1>4, <2>1
  <2>3. QED
    BY <1>3, <2>2
<1>7. \A i, j \in 1..n : <<i, j>> \in R <=> \/ place[i] < place[j]
                                            \/ place[i] = place[j] /\ at[i] < at[j]
  OBVIOUS
<1>8. R \in SUBSET ((1..n) \X (1..n))
  OBVIOUS
<1> HIDE DEF R
<1>9. \A i \in 1..n : place[i] \in Int /\ at[i] \in Int
  BY <1>4, <1>5
<1>10. \A i \in 1..n : <<i, i>> \notin R
  BY <1>7, <1>9
<1>11. \A i, j, k \in 1..n : <<i, j>> \in R /\ <<j, k>> \in R => <<i, k>> \in R
  <2>1. ASSUME NEW i \in 1..n, NEW j \in 1..n, NEW k \in 1..n, <<i, j>> \in R, <<j, k>> \in R
        PROVE  <<i, k>> \in R
    <3>1. place[i] < place[j] \/ (place[i] = place[j] /\ at[i] < at[j])
      BY <1>7, <2>1
    <3>2. place[j] < place[k] \/ (place[j] = place[k] /\ at[j] < at[k])
      BY <1>7, <2>1
    <3>3. /\ place[i] \in Int /\ place[j] \in Int /\ place[k] \in Int
          /\ at[i] \in Int /\ at[j] \in Int /\ at[k] \in Int
      BY <1>9
    <3>4. place[i] < place[k] \/ (place[i] = place[k] /\ at[i] < at[k])
      BY <3>1, <3>2, <3>3
    <3>5. QED
      BY <1>7, <3>4
  <2>2. QED
    BY <2>1
<1>12. \A i, j \in 1..n : i # j => <<i, j>> \in R \/ <<j, i>> \in R
  <2>1. \A i, j \in 1..n : i # j => at[i] # at[j]
    BY <1>4
  <2>2. QED
    BY <1>7, <1>9, <2>1
<1>13. PICK o \in Orders(1..n) : Keeps(n, R, o)
  <2>1. n \in Nat /\ TotalOn(n, R)
    BY <1>1, <1>8, <1>10, <1>11, <1>12 DEF TotalOn
  <2>2. QED
    BY <2>1, TotalOrder
<1>14. InOrder(o, answered)
  <2>1. DOMAIN answered = 1..n
    BY <1>3
  <2>2. ASSUME NEW x \in 1..n, NEW y \in 1..n, x < y
        PROVE  LET p == answered[x]  q == answered[y]
                   before(i, j) == \E k, l \in DOMAIN o : o[k] = i /\ o[l] = j /\ k < l
               IN  IF Place(p) <= Place(q) THEN before(p, q) ELSE before(q, p)
    <3> DEFINE p == answered[x]
               q == answered[y]
    <3>1. p \in 1..n /\ q \in 1..n /\ at[p] = x /\ at[q] = y
      BY <1>3, <1>6
    <3> HIDE DEF p, q
    <3>2. place[p] = Place(p) /\ place[q] = Place(q)
      BY <3>1 DEF place
    <3>3. IF Place(p) <= Place(q) THEN <<p, q>> \in R ELSE <<q, p>> \in R
      BY <1>7, <1>9, <2>2, <3>1, <3>2
    <3>4. QED
      BY <1>13, <3>1, <3>3 DEF p, q, Keeps
  <2>3. QED
    BY <2>1, <2>2 DEF InOrder
<1>15. Sorted(answered) = CHOOSE s \in Orders(DOMAIN cfg.panels) : InOrder(s, answered)
  BY DEF Sorted, InOrder, Place
<1>16. QED
  BY <1>1, <1>13, <1>14, <1>15

\* Panels with names of their own stand as they do in the file.
LEMMA SortedIsFileOrder ==
  ASSUME Inv, Distinct(cfg.panels), NEW answered \in Answers
  PROVE  Sorted(answered) = [i \in DOMAIN cfg.panels |-> i]
<1> DEFINE n == Len(cfg.panels)
           o == Sorted(answered)
<1>1. n \in Nat /\ DOMAIN cfg.panels = 1..n /\ IsFiniteSet(1..n) /\ Cardinality(1..n) = n
  BY PanelIndices
<1>2. answered \in Orders(1..n) /\ o \in Orders(1..n) /\ InOrder(o, answered)
  BY <1>1, SortedIsInOrder DEF Answers
<1> HIDE DEF o
<1>3. answered \in [1..n -> 1..n] /\ \A x \in 1..n : \E i \in 1..n : answered[i] = x
  BY <1>1, <1>2 DEF Orders
<1>4. \A i \in 1..n : Place(i) = i
  BY <1>1, PlaceOf
<1>5. ASSUME NEW i \in 1..n, NEW j \in 1..n, i < j
      PROVE  \E k, l \in DOMAIN o : o[k] = i /\ o[l] = j /\ k < l
  <2>1. PICK x \in 1..n : answered[x] = i
    BY <1>3
  <2>2. PICK y \in 1..n : answered[y] = j
    BY <1>3
  <2>3. x < y \/ y < x
    BY <1>5, <2>1, <2>2
  <2>4. CASE x < y
    <3>1. Place(i) <= Place(j)
      BY <1>4, <1>5
    <3>2. QED
      BY <1>2, <1>3, <2>1, <2>2, <2>4, <3>1 DEF InOrder
  <2>5. CASE y < x
    <3>1. ~(Place(j) <= Place(i))
      BY <1>4, <1>5
    <3>2. QED
      BY <1>2, <1>3, <2>1, <2>2, <2>5, <3>1 DEF InOrder
  <2>6. QED
    BY <2>3, <2>4, <2>5
<1>6. o = [i \in 1..n |-> i]
  BY <1>1, <1>2, <1>5, InPlace
<1>7. QED
  BY <1>1, <1>6 DEF o
-----------------------------------------------------------------------------
\* The agents that are listed are finitely many.
InvPage == Inv /\ IsFiniteSet(listed)

LEMMA InvPageHolds == SettingsSpec => []InvPage
<1>1. SettingsInit => IsFiniteSet(listed)
  BY FS_EmptySet DEF SettingsInit
<1>2. IsFiniteSet(listed) /\ [SettingsNext]_settingsVars => IsFiniteSet(listed)'
  <2> SUFFICES ASSUME IsFiniteSet(listed), [SettingsNext]_settingsVars
               PROVE  IsFiniteSet(listed')
    OBVIOUS
  <2>1. CASE UNCHANGED listed
    BY <2>1
  <2>2. ASSUME NEW a, listed' = listed \cup {a} PROVE IsFiniteSet(listed')
    BY <2>2, FS_AddElement
  <2>3. ASSUME NEW a, listed' = listed \ {a} PROVE IsFiniteSet(listed')
    BY <2>3, FS_RemoveElement
  <2>4. \/ UNCHANGED listed
        \/ \E a : listed' = listed \cup {a}
        \/ \E a : listed' = listed \ {a}
    BY DEF SettingsNext, Submit, Save, Report, FallSilent, settingsVars
  <2>5. QED
    BY <2>1, <2>2, <2>3, <2>4
<1>3. QED
  BY <1>1, <1>2, InvHolds, PTL DEF SettingsSpec, InvPage

\* There is a result for every panel, and one of Nightcord-Status.
LEMMA ResultsAre ==
  ASSUME Inv, NEW answered \in Answers
  PROVE  /\ Len(Results(answered)) \in Nat
         /\ DOMAIN Results(answered) = 1..Len(Results(answered))
<1> DEFINE o == Sorted(answered)
           first == [k \in DOMAIN o |-> [name |-> cfg.panels[o[k]].name,
                                         host |-> HostOf[cfg.panels[o[k]].url]]]
           S == {first[k] : k \in DOMAIN o} \cup {StatusCards[i] : i \in DOMAIN StatusCards}
           n == Len(cfg.panels)
<1>1. n \in Nat /\ DOMAIN o = 1..n
  <2>1. n \in Nat /\ Cardinality(DOMAIN cfg.panels) = n
    BY PanelIndices
  <2>2. o \in Orders(DOMAIN cfg.panels)
    BY SortedIsInOrder
  <2> HIDE DEF o
  <2>3. QED
    BY <2>1, <2>2 DEF Orders
<1> HIDE DEF o
<1>2. first = [k \in 1..n |-> first[k]] /\ \A k \in 1..n : first[k] \in S
  BY <1>1
<1>3. StatusCards \in Seq(S)
  <2>1. StatusCards \in Seq({StatusCards[i] : i \in DOMAIN StatusCards})
    BY StatusAssumption
  <2>2. \A i \in 1..Len(StatusCards) : StatusCards[i] \in S
    BY <2>1
  <2> HIDE DEF S
  <2>3. QED
    BY <2>1, <2>2
<1> HIDE DEF first, S
<1>4. first \in Seq(S)
  BY <1>1, <1>2
<1>5. first \o StatusCards \in Seq(S)
  BY <1>3, <1>4
<1>6. Results(answered) = first \o StatusCards
  BY DEF Results, first, o
<1>7. QED
  BY <1>5, <1>6

\* Where an agent goes: on a card of its name, else on one at an address of its
\* own, else on none.
Homes(results, a) ==
    LET named == {i \in DOMAIN results : results[i].name = a}
        near == {i \in DOMAIN results :
                    results[i].host \in {facts[a].internal, facts[a].external} \ {None}}
    IN  IF named # {} THEN named ELSE near

LEMMA CardIsHome ==
  ASSUME NEW results, Len(results) \in Nat, DOMAIN results = 1..Len(results), NEW a
  PROVE  IF Homes(results, a) = {} THEN CardOf(results, a) = 0
         ELSE CardOf(results, a) \in Homes(results, a) /\ CardOf(results, a) \in 1..Len(results)
<1> DEFINE named == {i \in DOMAIN results : results[i].name = a}
           inside == At(results, facts[a].internal)
           outside == At(results, facts[a].external)
           n == Len(results)
<1>1. n \in Nat /\ named \in SUBSET (1..n) /\ inside \in SUBSET (1..n) /\ outside \in SUBSET (1..n)
  BY DEF At
<1>2. Homes(results, a) = IF named # {} THEN named ELSE inside \cup outside
  BY DEF Homes, At
<1>3. CardOf(results, a) = CASE named # {} -> Last(named)
                             [] named = {} /\ inside # {} -> First(inside)
                             [] named = {} /\ inside = {} /\ outside # {} -> First(outside)
                             [] OTHER -> 0
  BY DEF CardOf
<1> HIDE DEF named, inside, outside, n
<1>4. named # {} => Last(named) \in named
  BY <1>1, LastOf
<1>5. inside # {} => First(inside) \in inside
  BY <1>1, FirstOf
<1>6. outside # {} => First(outside) \in outside
  BY <1>1, FirstOf
<1>7. CASE named # {}
  <2>1. CardOf(results, a) = Last(named)
    BY <1>3, <1>7
  <2>2. Homes(results, a) = named /\ CardOf(results, a) \in named
    BY <1>2, <1>4, <1>7, <2>1
  <2>3. QED
    BY <1>1, <1>7, <2>2 DEF n
<1>8. CASE named = {} /\ inside # {}
  <2>1. CardOf(results, a) = First(inside)
    BY <1>3, <1>8
  <2>2. QED
    BY <1>1, <1>2, <1>5, <1>8, <2>1 DEF n
<1>9. CASE named = {} /\ inside = {} /\ outside # {}
  <2>1. CardOf(results, a) = First(outside)
    BY <1>3, <1>9
  <2>2. QED
    BY <1>1, <1>2, <1>6, <1>9, <2>1 DEF n
<1>10. CASE named = {} /\ inside = {} /\ outside = {}
  BY <1>2, <1>3, <1>10
<1>11. QED
  BY <1>7, <1>8, <1>9, <1>10

\* What stands on the page: an agent of a card is one that belongs there, and
\* a card stays empty only if no agent does.
LEMMA PageIs ==
  ASSUME InvPage, NEW answered \in Answers, NEW turns \in Turns
  PROVE  LET page == Page(answered, turns)
             results == Results(answered)
         IN  /\ DOMAIN page.own = {a \in listed : CardOf(results, a) = 0}
             /\ DOMAIN page.cards = DOMAIN results
             /\ \A i \in DOMAIN results : /\ page.cards[i].name = results[i].name
                                          /\ page.cards[i].host = results[i].host
             /\ page.cards = [i \in DOMAIN results |->
                                 [name |-> results[i].name, host |-> results[i].host,
                                  agent |-> page.cards[i].agent]]
             /\ \A i \in DOMAIN results :
                   IF \E a \in listed : CardOf(results, a) = i
                   THEN page.cards[i].agent \in listed /\ CardOf(results, page.cards[i].agent) = i
                   ELSE page.cards[i].agent = None
<1> DEFINE page == Page(answered, turns)
           results == Results(answered)
           on(i) == {k \in DOMAIN turns : CardOf(results, turns[k]) = i}
           n == Cardinality(listed)
<1>1. /\ n \in Nat /\ turns \in [1..n -> listed]
      /\ \A a \in listed : \E k \in 1..n : turns[k] = a
  BY OrderOf DEF InvPage, Turns
<1>2. /\ page = [cards |-> [i \in DOMAIN results |->
                               [name  |-> results[i].name, host |-> results[i].host,
                                agent |-> IF on(i) = {} THEN None ELSE turns[Last(on(i))]]],
                 own   |-> page.own]
      /\ DOMAIN page.own = {turns[k] : k \in on(0)}
  BY DEF Page
<1>3. DOMAIN page.own = {a \in listed : CardOf(results, a) = 0}
  BY <1>1, <1>2
<1>4. ASSUME NEW i \in DOMAIN results
      PROVE  /\ page.cards[i] = [name |-> results[i].name, host |-> results[i].host,
                                 agent |-> page.cards[i].agent]
             /\ IF \E a \in listed : CardOf(results, a) = i
                THEN page.cards[i].agent \in listed /\ CardOf(results, page.cards[i].agent) = i
                ELSE page.cards[i].agent = None
             /\ page.cards[i].name = results[i].name /\ page.cards[i].host = results[i].host
  <2> DEFINE K == on(i)
  <2>1. page.cards[i] = [name |-> results[i].name, host |-> results[i].host,
                         agent |-> IF K = {} THEN None ELSE turns[Last(K)]]
    BY <1>2
  <2>2. /\ page.cards[i].agent = IF K = {} THEN None ELSE turns[Last(K)]
        /\ page.cards[i].name = results[i].name /\ page.cards[i].host = results[i].host
    BY <2>1
  <2>3. K \in SUBSET (1..n) /\ \A k \in K : turns[k] \in listed /\ CardOf(results, turns[k]) = i
    BY <1>1
  <2>4. K = {} <=> ~\E a \in listed : CardOf(results, a) = i
    BY <1>1
  <2> HIDE DEF K
  <2>5. K # {} => Last(K) \in K
    BY <1>1, <2>3, LastOf
  <2>6. QED
    BY <2>1, <2>2, <2>3, <2>4, <2>5
<1>5. DOMAIN page.cards = DOMAIN results
  BY <1>2
<1>6. page.cards = [i \in DOMAIN results |-> page.cards[i]]
  BY <1>2
<1> HIDE DEF page
<1>8. page.cards = [i \in DOMAIN results |->
                       [name |-> results[i].name, host |-> results[i].host,
                        agent |-> page.cards[i].agent]]
  BY <1>4, <1>6
<1>9. QED
  BY <1>3, <1>4, <1>5, <1>8 DEF page

LEMMA AgentsPlaced == InvPage => AgentsOnTheirCards
<1> SUFFICES ASSUME InvPage, NEW answered \in Answers, NEW turns \in Turns
    PROVE  LET page == Page(answered, turns)
               named(a) == {i \in DOMAIN page.cards : page.cards[i].name = a}
               near(a) == {i \in DOMAIN page.cards :
                              page.cards[i].host \in {facts[a].internal, facts[a].external} \ {None}}
               home(a) == IF named(a) # {} THEN named(a) ELSE near(a)
           IN  /\ DOMAIN page.own = {a \in listed : home(a) = {}}
               /\ \A a \in listed \ DOMAIN page.own :
                     \E i \in home(a) : page.cards[i].agent # None
               /\ \A i \in DOMAIN page.cards :
                     LET a == page.cards[i].agent IN a # None => i \in home(a)
  BY DEF AgentsOnTheirCards
<1> DEFINE page == Page(answered, turns)
           results == Results(answered)
           home(a) == LET named == {i \in DOMAIN page.cards : page.cards[i].name = a}
                          near == {i \in DOMAIN page.cards : page.cards[i].host
                                      \in {facts[a].internal, facts[a].external} \ {None}}
                      IN  IF named # {} THEN named ELSE near
<1>1. /\ DOMAIN page.own = {a \in listed : CardOf(results, a) = 0}
      /\ DOMAIN page.cards = DOMAIN results
      /\ \A i \in DOMAIN results : /\ page.cards[i].name = results[i].name
                                   /\ page.cards[i].host = results[i].host
      /\ \A i \in DOMAIN results :
            IF \E a \in listed : CardOf(results, a) = i
            THEN page.cards[i].agent \in listed /\ CardOf(results, page.cards[i].agent) = i
            ELSE page.cards[i].agent = None
  BY PageIs
<1>2. Len(results) \in Nat /\ DOMAIN results = 1..Len(results)
  BY ResultsAre DEF InvPage
<1>3. None \notin listed
  BY ValuesAssumption DEF InvPage, Inv, SettingsTypeOK
<1> HIDE DEF page, results
<1>4. \A a : home(a) = Homes(results, a)
  <2> SUFFICES ASSUME NEW a PROVE home(a) = Homes(results, a)
    OBVIOUS
  <2>1. {i \in DOMAIN page.cards : page.cards[i].name = a} = {i \in DOMAIN results : results[i].name = a}
    BY <1>1
  <2>2. {i \in DOMAIN page.cards :
            page.cards[i].host \in {facts[a].internal, facts[a].external} \ {None}}
           = {i \in DOMAIN results :
                results[i].host \in {facts[a].internal, facts[a].external} \ {None}}
    BY <1>1
  <2>3. QED
    BY <2>1, <2>2 DEF Homes
<1> HIDE DEF home
<1>5. \A a : IF home(a) = {} THEN CardOf(results, a) = 0
             ELSE CardOf(results, a) \in home(a) /\ CardOf(results, a) \in 1..Len(results)
  BY <1>2, <1>4, CardIsHome
<1>6. DOMAIN page.own = {a \in listed : home(a) = {}}
  BY <1>1, <1>5
<1>7. ASSUME NEW a \in listed \ DOMAIN page.own
      PROVE  \E i \in home(a) : page.cards[i].agent # None
  <2>1. CardOf(results, a) \in home(a) /\ CardOf(results, a) \in DOMAIN results
    BY <1>2, <1>5, <1>6
  <2>2. page.cards[CardOf(results, a)].agent \in listed
    BY <1>1, <2>1
  <2>3. QED
    BY <1>3, <2>1, <2>2
<1>8. ASSUME NEW i \in DOMAIN page.cards, page.cards[i].agent # None
      PROVE  i \in home(page.cards[i].agent)
  <2>1. i \in 1..Len(results) /\ CardOf(results, page.cards[i].agent) = i
    BY <1>1, <1>2, <1>8
  <2>2. QED
    BY <1>5, <2>1
<1>9. QED
  BY <1>6, <1>7, <1>8 DEF home, page

\* An agent is on a card of its name, or else on one at an address it has, or
\* else on one of its own, for any panels, agents and order of the answers.
THEOREM AgentsAlwaysOnTheirCards == SettingsSpec => []AgentsOnTheirCards
BY AgentsPlaced, InvPageHolds, PTL

-----------------------------------------------------------------------------
\* Where no card has two agents, the agents say which cards have one.
LEMMA OneEach ==
  ASSUME InvPage, NEW answered \in Answers, NEW turns \in Turns,
         Undisplaced(Page(answered, turns))
  PROVE  LET results == Results(answered)
         IN  \A a, b \in listed : CardOf(results, a) = CardOf(results, b)
                                  /\ CardOf(results, a) # 0 => a = b
<1> DEFINE page == Page(answered, turns)
           results == Results(answered)
           cards == page.cards
           own == DOMAIN page.own
           taken == {i \in DOMAIN cards : cards[i].agent # None}
           others == listed \ own
           f == [a \in others |-> CardOf(results, a)]
<1>1. /\ own = {a \in listed : CardOf(results, a) = 0}
      /\ DOMAIN cards = DOMAIN results
      /\ \A i \in DOMAIN results :
            IF \E a \in listed : CardOf(results, a) = i
            THEN cards[i].agent \in listed /\ CardOf(results, cards[i].agent) = i
            ELSE cards[i].agent = None
  BY PageIs DEF InvPage
<1>2. Len(results) \in Nat /\ DOMAIN results = 1..Len(results)
  BY ResultsAre DEF InvPage
<1>3. None \notin listed /\ IsFiniteSet(listed)
  BY ValuesAssumption DEF InvPage, Inv, SettingsTypeOK
<1>4. Cardinality(own) + Cardinality(taken) = Cardinality(listed)
  BY DEF Undisplaced
<1>5. \A a \in listed : CardOf(results, a) = 0 \/ CardOf(results, a) \in DOMAIN results
  BY <1>2, CardIsHome
<1> HIDE DEF page, results, cards, own
<1>6. f \in [others -> taken]
  <2>1. \A a \in others : CardOf(results, a) \in taken
    BY <1>1, <1>3, <1>5
  <2>2. QED
    BY <2>1
<1>7. \A i \in taken : \E a \in others : f[a] = i
  <2>1. ASSUME NEW i \in taken PROVE \E a \in others : f[a] = i
    <3>1. cards[i].agent \in listed /\ CardOf(results, cards[i].agent) = i /\ i # 0
      BY <1>1, <1>2
    <3>2. cards[i].agent \in others
      BY <1>1, <3>1
    <3>3. QED
      BY <3>1, <3>2
  <2>2. QED
    BY <2>1
<1>8. IsFiniteSet(others) /\ Cardinality(others) = Cardinality(taken)
  <2>1. own \in SUBSET listed
    BY <1>1
  <2>2. IsFiniteSet(own) /\ IsFiniteSet(others)
    BY <1>3, <2>1, FS_Subset
  <2>3. Cardinality(own) \in Nat /\ Cardinality(others) \in Nat /\ Cardinality(listed) \in Nat
    BY <1>3, <2>2, FS_CardinalityType
  <2>4. listed \cap own = own
    BY <2>1
  <2>5. Cardinality(listed) = Cardinality(own) + Cardinality(others)
    <3>1. Cardinality(others) = Cardinality(listed) - Cardinality(listed \cap own)
      BY <1>3, FS_Difference
    <3>2. Cardinality(listed \cap own) = Cardinality(own)
      BY <2>4
    <3> HIDE DEF others
    <3>3. QED
      BY <2>3, <3>1, <3>2
  <2>6. taken \in SUBSET (1..Len(results)) /\ IsFiniteSet(1..Len(results))
    BY <1>1, <1>2, FS_Interval
  <2>7. Cardinality(taken) \in Nat
    BY <2>6, FS_Subset, FS_CardinalityType
  <2> HIDE DEF taken, others
  <2>8. Cardinality(others) = Cardinality(taken)
    <3>1. Cardinality(own) + Cardinality(taken) = Cardinality(listed)
      BY <1>4
    <3>2. Cardinality(own) \in Nat /\ Cardinality(others) \in Nat /\ Cardinality(taken) \in Nat
      BY <2>3, <2>7
    <3>3. Cardinality(own) + Cardinality(taken) = Cardinality(own) + Cardinality(others)
      BY <2>5, <3>1
    <3>4. QED
      BY <3>2, <3>3
  <2>9. QED
    BY <2>2, <2>8
<1> HIDE DEF taken, others, f
<1>9. \A a, b \in others : f[a] = f[b] => a = b
  <2>1. f \in Surjection(others, taken)
    BY <1>6, <1>7, Fun_IsSurj
  <2>2. f \in Injection(others, taken)
    BY <1>8, <2>1, FS_SurjSameCardinalityImpliesInj
  <2>3. QED
    BY <2>2, Fun_InjectionProperties
<1>10. ASSUME NEW a \in listed, NEW b \in listed,
              CardOf(results, a) = CardOf(results, b), CardOf(results, a) # 0
       PROVE  a = b
  <2>1. a \in others /\ b \in others
    BY <1>1, <1>10 DEF others
  <2>2. f[a] = f[b]
    BY <1>10, <2>1 DEF f
  <2>3. QED
    BY <1>9, <2>1, <2>2
<1>11. QED
  BY <1>10 DEF results

LEMMA PageFixed == InvPage => PageIsDetermined
<1> SUFFICES ASSUME InvPage, Distinct(cfg.panels), NEW first \in Answers, NEW second \in Answers,
                    NEW turns \in Turns, NEW others \in Turns
             PROVE  LET page == Page(first, turns)
                        again == Page(second, others)
                    IN  /\ turns = others => page = again
                        /\ Undisplaced(page) => /\ page.cards = again.cards
                                                /\ DOMAIN page.own = DOMAIN again.own
  BY DEF PageIsDetermined
<1> DEFINE p == Page(first, turns)
           q == Page(second, others)
           results == Results(first)
<1>1. Inv
  BY DEF InvPage
<1>2. results = Results(second)
  <2>1. Sorted(first) = Sorted(second)
    BY <1>1, SortedIsFileOrder
  <2>2. QED
    BY <2>1 DEF Results
<1>3. turns = others => p = q
  BY <1>2 DEF Page
<1>4. /\ DOMAIN p.own = {a \in listed : CardOf(results, a) = 0}
      /\ p.cards = [i \in DOMAIN results |->
                       [name |-> results[i].name, host |-> results[i].host,
                        agent |-> p.cards[i].agent]]
      /\ \A i \in DOMAIN results :
            IF \E a \in listed : CardOf(results, a) = i
            THEN p.cards[i].agent \in listed /\ CardOf(results, p.cards[i].agent) = i
            ELSE p.cards[i].agent = None
  BY PageIs
<1>5. /\ DOMAIN q.own = {a \in listed : CardOf(results, a) = 0}
      /\ q.cards = [i \in DOMAIN results |->
                       [name |-> results[i].name, host |-> results[i].host,
                        agent |-> q.cards[i].agent]]
      /\ \A i \in DOMAIN results :
            IF \E a \in listed : CardOf(results, a) = i
            THEN q.cards[i].agent \in listed /\ CardOf(results, q.cards[i].agent) = i
            ELSE q.cards[i].agent = None
  BY <1>2, PageIs
<1>6. ASSUME Undisplaced(p) PROVE p.cards = q.cards
  <2>1. \A a, b \in listed : CardOf(results, a) = CardOf(results, b)
                             /\ CardOf(results, a) # 0 => a = b
    BY <1>6, OneEach
  <2>2. \A i \in DOMAIN results : i # 0
    BY <1>1, ResultsAre
  <2> HIDE DEF p, q, results
  <2>3. \A i \in DOMAIN results : p.cards[i].agent = q.cards[i].agent
    BY <1>4, <1>5, <2>1, <2>2
  <2>4. p.cards = [i \in DOMAIN results |->
                      [name |-> results[i].name, host |-> results[i].host,
                       agent |-> q.cards[i].agent]]
    BY <1>4, <2>3
  <2>5. QED
    BY <1>5, <2>4
<1>7. QED
  BY <1>3, <1>4, <1>5, <1>6

\* The page does not depend on which panel answers first, and where no agent
\* displaces another on the order of the agents only in how their own cards are
\* ordered: for any number of panels with names of their own and of agents.
THEOREM PageAlwaysDetermined == SettingsSpec => []PageIsDetermined
BY PageFixed, InvPageHolds, PTL
=============================================================================
