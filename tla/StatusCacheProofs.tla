-------------------------- MODULE StatusCacheProofs --------------------------
(***************************************************************************)
(* What the status cache promises about a save, for any number of request  *)
(* threads and worker processes and any timeouts.                          *)
(*                                                                         *)
(* The argument: when a save with no older fetch under way has cleared the *)
(* cache, everything that can still reach the cache of that worker shows   *)
(* the save, and stays so, because a fetch shows the epoch it starts in.   *)
(***************************************************************************)
EXTENDS StatusCache, TLAPS

LEMMA MinTyped ==
  ASSUME NEW a \in Nat, NEW b \in Nat
  PROVE  Min(a, b) \in 0..b
  BY DEF Min

\* What a thread that serves a request, and an alert thread at work, look like.
LEMMA ServingTyped ==
  ASSUME TypeOK, NEW r \in Requests, req[r] # Idle
  PROVE  /\ req[r] \in Serving
         /\ req[r].stage \in Stages
         /\ req[r].worker \in Workers
         /\ req[r].age \in 0..MaxFetch
         /\ req[r].shows \in Epochs
         /\ req[r].after \in Saves
  BY DEF TypeOK, Serving

LEMMA LoopingTyped ==
  ASSUME TypeOK, NEW w \in Workers, loop[w] # Idle
  PROVE  /\ loop[w] \in Looping
         /\ loop[w].age \in 0..MaxFetch
         /\ loop[w].shows \in Epochs
  BY DEF TypeOK, Looping

LEMMA GotoTyped ==
  ASSUME TypeOK, NEW r \in Requests, req[r] # Idle, NEW s \in Stages, Goto(r, s)
  PROVE  req' \in [Requests -> Serving \cup {Idle}]
  BY ServingTyped DEF TypeOK, Goto, Serving

LEMMA AnswerTyped ==
  ASSUME TypeOK, NEW r \in Requests, Answer(r)
  PROVE  req' \in [Requests -> Serving \cup {Idle}]
  BY DEF TypeOK, Answer

LEMMA InitTypeOK == Init => TypeOK
<1> SUFFICES ASSUME Init PROVE TypeOK
  OBVIOUS
<1>1. 0 \in Epochs /\ 0 \in 0..Old /\ TTL \in 0..TTL
  BY BoundsAssumption DEF Epochs, Old
<1>2. [epoch |-> 0, quiet |-> FALSE] \in Saves
  BY <1>1 DEF Saves
<1>3. QED
  BY <1>1, <1>2 DEF Init, TypeOK

LEMMA NextTypeOK == TypeOK /\ [Next]_vars => TypeOK'
<1> SUFFICES ASSUME TypeOK, [Next]_vars PROVE TypeOK'
  OBVIOUS
<1> USE DEF Stages
<1>1. ASSUME NEW r \in Requests, NEW w \in Workers, Arrive(r, w) PROVE TypeOK'
  <2>1. [stage |-> "arrived", worker |-> w, age |-> 0, shows |-> 0,
         after |-> saved[w]] \in Serving
    BY BoundsAssumption DEF TypeOK, Serving, Epochs
  <2>2. QED
    BY <1>1, <2>1 DEF TypeOK, Arrive
<1>2. ASSUME NEW r \in Requests, SeeData(r) PROVE TypeOK'
  BY <1>2, GotoTyped DEF TypeOK, SeeData, At
<1>3. ASSUME NEW r \in Requests, SeeFresh(r) PROVE TypeOK'
  BY <1>3, GotoTyped DEF TypeOK, SeeFresh, At
<1>4. ASSUME NEW r \in Requests, AnswerCached(r) PROVE TypeOK'
  BY <1>4, AnswerTyped DEF TypeOK, AnswerCached
<1>5. ASSUME NEW r \in Requests, BeginFetch(r) PROVE TypeOK'
  <2>1. req[r] \in Serving
    BY <1>5, ServingTyped DEF BeginFetch, At
  <2>2. req' \in [Requests -> Serving \cup {Idle}]
    BY <1>5, <2>1 DEF TypeOK, BeginFetch, Serving
  <2>3. QED
    BY <1>5, <2>2 DEF TypeOK, BeginFetch
<1>6. ASSUME NEW r \in Requests, FetchFails(r) PROVE TypeOK'
  BY <1>6, AnswerTyped DEF TypeOK, FetchFails
<1>7. ASSUME NEW r \in Requests, StoreData(r) PROVE TypeOK'
  BY <1>7, GotoTyped, ServingTyped DEF TypeOK, StoreData, At
<1>8. ASSUME NEW r \in Requests, StoreTime(r) PROVE TypeOK'
  <2>1. req[r].age \in Nat /\ TTL \in Nat
    BY <1>8, ServingTyped, BoundsAssumption DEF StoreTime, At
  <2>2. ts' \in [Workers -> 0..TTL]
    BY <1>8, <2>1, MinTyped DEF StoreTime, TypeOK
  <2>3. QED
    BY <1>8, <2>2, AnswerTyped DEF TypeOK, StoreTime
<1>9. ASSUME NEW w \in Workers, LoopFetch(w) PROVE TypeOK'
  <2>1. [stage |-> "fetching", age |-> 0, shows |-> epoch] \in Looping
    BY BoundsAssumption DEF TypeOK, Looping
  <2>2. QED
    BY <1>9, <2>1 DEF TypeOK, LoopFetch
<1>10. ASSUME NEW w \in Workers, LoopStoreData(w) PROVE TypeOK'
  <2>1. [loop[w] EXCEPT !.stage = "storing"] \in Looping
    BY <1>10, LoopingTyped DEF LoopStoreData, Looping
  <2>2. QED
    BY <1>10, <2>1, LoopingTyped DEF TypeOK, LoopStoreData
<1>11. ASSUME NEW w \in Workers, LoopStoreTime(w) PROVE TypeOK'
  BY <1>11, BoundsAssumption DEF TypeOK, LoopStoreTime
<1>12. ASSUME NEW w \in Workers, LoopFails(w) PROVE TypeOK'
  BY <1>12 DEF TypeOK, LoopFails
<1>13. CASE PanelsChange
  BY <1>13, BoundsAssumption DEF TypeOK, PanelsChange, Epochs
<1>14. ASSUME NEW w \in Workers, SaveConfig(w) PROVE TypeOK'
  BY <1>14, BoundsAssumption DEF TypeOK, SaveConfig, Epochs
<1>15. ASSUME NEW w \in Workers, ClearCache(w) PROVE TypeOK'
  <2>1. Overlapping(w, epoch) \in BOOLEAN
    BY DEF Overlapping
  <2>2. [epoch |-> epoch, quiet |-> ~Overlapping(w, epoch)] \in Saves
    <3>1. \A b \in BOOLEAN : [epoch |-> epoch, quiet |-> ~b] \in Saves
      BY DEF TypeOK, Saves
    <3>2. QED
      BY <2>1, <3>1, Zenon
  <2>3. saved' \in [Workers -> Saves]
    BY <1>15, <2>2, Zenon DEF ClearCache, NoteSave, TypeOK
  <2>4. QED
    BY <1>15, <2>3 DEF TypeOK, ClearCache, NoteSave
<1>16. CASE Tick
  <2>1. ended' \in [Epochs -> 0..Old]
    <3>1. Old \in Nat
      BY BoundsAssumption DEF Old
    <3>2. \A e \in Epochs : ended[e] + 1 \in Nat
      BY DEF TypeOK
    <3>3. \A e \in Epochs : Min(ended[e] + 1, Old) \in 0..Old
      BY <3>1, <3>2, MinTyped
    <3>4. \A e \in Epochs :
             (IF e < epoch THEN Min(ended[e] + 1, Old) ELSE 0) \in 0..Old
      BY <3>1, <3>3
    <3>5. QED
      BY <1>16, <3>4 DEF Tick
  <2>2. ts' \in [Workers -> 0..TTL]
    <3>1. TTL \in Nat /\ \A w \in Workers : ts[w] + 1 \in Nat
      BY BoundsAssumption DEF TypeOK
    <3>2. \A w \in Workers : Min(ts[w] + 1, TTL) \in 0..TTL
      BY <3>1, MinTyped
    <3>3. QED
      BY <1>16, <3>2 DEF Tick
  <2>3. req' \in [Requests -> Serving \cup {Idle}]
    <3>1. \A r \in Requests : req[r] # Idle => [req[r] EXCEPT !.age = @ + 1] \in Serving
      BY <1>16, ServingTyped, BoundsAssumption DEF Tick, Serving
    <3>2. QED
      BY <1>16, <3>1 DEF Tick
  <2>4. loop' \in [Workers -> Looping \cup {Idle}]
    <3>1. \A w \in Workers : loop[w] # Idle => [loop[w] EXCEPT !.age = @ + 1] \in Looping
      BY <1>16, LoopingTyped, BoundsAssumption DEF Tick, Looping
    <3>2. QED
      BY <1>16, <3>1 DEF Tick
  <2>5. QED
    BY <1>16, <2>1, <2>2, <2>3, <2>4 DEF TypeOK, Tick
<1>17. CASE UNCHANGED vars
  BY <1>17 DEF vars, TypeOK
<1>18. QED
  BY <1>1, <1>2, <1>3, <1>4, <1>5, <1>6, <1>7, <1>8, <1>9, <1>10, <1>11, <1>12,
     <1>13, <1>14, <1>15, <1>16, <1>17, BoundsAssumption DEF Next, Serve, Loop

\* The cache, the threads and the histories keep their shape.
THEOREM TypeCorrect == Spec => []TypeOK
  BY InitTypeOK, NextTypeOK, PTL DEF Spec

-----------------------------------------------------------------------------
\* Every fetch that will still reach the cache of worker w, and the cache
\* itself, show epoch e or a later one.
ShownSince(w, e) ==
    /\ e <= epoch
    /\ data[w] # None => data[w] >= e
    /\ loop[w] # Idle => loop[w].shows >= e
    /\ \A r \in Requests :
          (At(r, "fetching") \/ At(r, "storing")) /\ req[r].worker = w =>
             req[r].shows >= e

\* A save is seen for good once it was seen by everything under way.
Seen(w, v) == v.quiet => ShownSince(w, v.epoch)

SavesSeen ==
    /\ \A w \in Workers : Seen(w, saved[w])
    /\ \A r \in Requests : req[r] # Idle => Seen(req[r].worker, req[r].after)

LEMMA ShownSinceKept ==
  ASSUME TypeOK, [Next]_vars, NEW w \in Workers, NEW e \in Epochs, ShownSince(w, e)
  PROVE  ShownSince(w, e)'
<1> USE DEF ShownSince, At
<1>a. epoch \in Int /\ e \in Int /\ None \notin Nat
  BY BoundsAssumption DEF TypeOK, Epochs
<1>1. ASSUME NEW r \in Requests, NEW x \in Workers, Arrive(r, x)
      PROVE  ShownSince(w, e)'
  BY <1>1 DEF TypeOK, Arrive
<1>2. ASSUME NEW r \in Requests, SeeData(r) PROVE ShownSince(w, e)'
  BY <1>2, ServingTyped DEF TypeOK, SeeData, Goto, Serving
<1>3. ASSUME NEW r \in Requests, SeeFresh(r) PROVE ShownSince(w, e)'
  BY <1>3, ServingTyped DEF TypeOK, SeeFresh, Goto, Serving
<1>4. ASSUME NEW r \in Requests, AnswerCached(r) PROVE ShownSince(w, e)'
  BY <1>4 DEF TypeOK, AnswerCached, Answer
<1>5. ASSUME NEW r \in Requests, BeginFetch(r) PROVE ShownSince(w, e)'
  BY <1>5, <1>a, ServingTyped DEF TypeOK, BeginFetch, Serving
<1>6. ASSUME NEW r \in Requests, FetchFails(r) PROVE ShownSince(w, e)'
  BY <1>6 DEF TypeOK, FetchFails, Answer
<1>7. ASSUME NEW r \in Requests, StoreData(r) PROVE ShownSince(w, e)'
  BY <1>7, ServingTyped DEF TypeOK, StoreData, Goto, Serving
<1>8. ASSUME NEW r \in Requests, StoreTime(r) PROVE ShownSince(w, e)'
  BY <1>8 DEF TypeOK, StoreTime, Answer
<1>9. ASSUME NEW x \in Workers, LoopFetch(x) PROVE ShownSince(w, e)'
  BY <1>9, <1>a DEF TypeOK, LoopFetch
<1>10. ASSUME NEW x \in Workers, LoopStoreData(x) PROVE ShownSince(w, e)'
  BY <1>10, LoopingTyped DEF TypeOK, LoopStoreData, Looping
<1>11. ASSUME NEW x \in Workers, LoopStoreTime(x) PROVE ShownSince(w, e)'
  BY <1>11 DEF TypeOK, LoopStoreTime
<1>12. ASSUME NEW x \in Workers, LoopFails(x) PROVE ShownSince(w, e)'
  BY <1>12 DEF TypeOK, LoopFails
<1>13. CASE PanelsChange
  BY <1>13, <1>a DEF PanelsChange
<1>14. ASSUME NEW x \in Workers, SaveConfig(x) PROVE ShownSince(w, e)'
  BY <1>14, <1>a DEF SaveConfig
<1>15. ASSUME NEW x \in Workers, ClearCache(x) PROVE ShownSince(w, e)'
  BY <1>15 DEF TypeOK, ClearCache, NoteSave
<1>16. CASE Tick
  <2>1. \A r \in Requests : req'[r] # Idle =>
           /\ req[r] # Idle
           /\ req'[r].stage = req[r].stage /\ req'[r].worker = req[r].worker
           /\ req'[r].shows = req[r].shows
    BY <1>16, ServingTyped DEF Tick, Serving
  <2>2. loop'[w] # Idle => loop[w] # Idle /\ loop'[w].shows = loop[w].shows
    BY <1>16, LoopingTyped DEF Tick, Looping
  <2>3. epoch' = epoch /\ data' = data
    BY <1>16 DEF Tick
  <2>4. QED
    BY <2>1, <2>2, <2>3
<1>17. CASE UNCHANGED vars
  BY <1>17 DEF vars
<1>18. QED
  BY <1>1, <1>2, <1>3, <1>4, <1>5, <1>6, <1>7, <1>8, <1>9, <1>10, <1>11, <1>12,
     <1>13, <1>14, <1>15, <1>16, <1>17, BoundsAssumption DEF Next, Serve, Loop

\* Only an arrival and the end of a save give anybody a new save to remember.
LEMMA SavesRemembered ==
  ASSUME TypeOK, [Next]_vars
  PROVE  /\ \A w \in Workers : saved'[w] # saved[w] =>
               w \in saving /\ ClearCache(w)
         /\ \A r \in Requests : req'[r] # Idle =>
               \/ /\ req[r] # Idle
                  /\ req'[r].after = req[r].after
                  /\ req'[r].worker = req[r].worker
               \/ /\ \E w \in Workers : Arrive(r, w)
                  /\ req'[r].worker \in Workers
                  /\ req'[r].after = saved[req'[r].worker]
                  /\ saved' = saved
<1> DEFINE Remembered ==
      /\ \A w \in Workers : saved'[w] # saved[w] => w \in saving /\ ClearCache(w)
      /\ \A r \in Requests : req'[r] # Idle =>
            \/ /\ req[r] # Idle
               /\ req'[r].after = req[r].after
               /\ req'[r].worker = req[r].worker
            \/ /\ \E w \in Workers : Arrive(r, w)
               /\ req'[r].worker \in Workers
               /\ req'[r].after = saved[req'[r].worker]
               /\ saved' = saved
<1>1. ASSUME NEW r \in Requests, NEW w \in Workers, Arrive(r, w) PROVE Remembered
  BY <1>1 DEF TypeOK, Arrive
<1>2. ASSUME NEW r \in Requests, Serve(r), ~\E w \in Workers : Arrive(r, w)
      PROVE  Remembered
  BY <1>2, ServingTyped
  DEF TypeOK, Serve, SeeData, SeeFresh, AnswerCached, BeginFetch, FetchFails,
      StoreData, StoreTime, Goto, Answer, At, Serving
<1>3. ASSUME NEW w \in Workers, Loop(w) PROVE Remembered
  BY <1>3 DEF Loop, LoopFetch, LoopStoreData, LoopStoreTime, LoopFails
<1>4. CASE PanelsChange \/ \E w \in Workers : SaveConfig(w)
  BY <1>4 DEF PanelsChange, SaveConfig
<1>5. ASSUME NEW w \in Workers, ClearCache(w) PROVE Remembered
  <2>1. w \in saving /\ req' = req /\ \A x \in Workers \ {w} : saved'[x] = saved[x]
    BY <1>5 DEF TypeOK, ClearCache, NoteSave
  <2>2. QED
    BY <1>5, <2>1
<1>6. CASE Tick
  BY <1>6, ServingTyped DEF Tick, Serving
<1>7. CASE UNCHANGED vars
  BY <1>7 DEF vars
<1>8. Remembered
  BY <1>1, <1>2, <1>3, <1>4, <1>5, <1>6, <1>7, BoundsAssumption DEF Next
<1>9. QED
  BY <1>8

\* A save that is noted as quiet is seen from then on.
LEMMA QuietFromTheStart ==
  ASSUME TypeOK, NEW w \in Workers, ClearCache(w)
  PROVE  Seen(w, saved[w])'
<1>1. /\ saved'[w].epoch = epoch
      /\ saved'[w].quiet = ~Overlapping(w, epoch)
      /\ data'[w] = None
      /\ UNCHANGED <<epoch, req, loop>>
  BY DEF TypeOK, ClearCache, NoteSave
<1>2. SUFFICES ASSUME ~Overlapping(w, epoch) PROVE ShownSince(w, epoch)'
  BY <1>1 DEF Seen, ShownSince, At
<1>3. loop[w] # Idle => loop[w].shows >= epoch
  BY <1>2, LoopingTyped DEF TypeOK, Overlapping, Epochs
<1>4. \A r \in Requests :
         (At(r, "fetching") \/ At(r, "storing")) /\ req[r].worker = w =>
            req[r].shows >= epoch
  BY <1>2, ServingTyped DEF TypeOK, Overlapping, Epochs, At
<1>5. QED
  BY <1>1, <1>3, <1>4 DEF ShownSince, At, TypeOK, Epochs

LEMMA InitSavesSeen == Init => SavesSeen
  BY DEF Init, SavesSeen, Seen

LEMMA NextSavesSeen == TypeOK /\ SavesSeen /\ [Next]_vars => SavesSeen'
<1> SUFFICES ASSUME TypeOK, SavesSeen, [Next]_vars PROVE SavesSeen'
  OBVIOUS
<1>1. ASSUME NEW w \in Workers, NEW v \in Saves, Seen(w, v)
      PROVE  v.quiet => ShownSince(w, v.epoch)'
  BY <1>1, ShownSinceKept DEF Seen, Saves
<1>2. ASSUME NEW w \in Workers PROVE Seen(w, saved[w])'
  <2>1. CASE saved'[w] = saved[w]
    BY <1>1, <2>1 DEF SavesSeen, Seen, TypeOK, ShownSince, At
  <2>2. CASE saved'[w] # saved[w]
    BY <2>2, SavesRemembered, QuietFromTheStart
  <2>3. QED
    BY <2>1, <2>2
<1>3. ASSUME NEW r \in Requests, req'[r] # Idle
      PROVE  Seen(req[r].worker, req[r].after)'
  <2>1. CASE /\ req[r] # Idle
             /\ req'[r].after = req[r].after
             /\ req'[r].worker = req[r].worker
    BY <1>1, <2>1, ServingTyped DEF SavesSeen, Seen, ShownSince, At
  <2>2. CASE /\ req'[r].worker \in Workers
             /\ req'[r].after = saved[req'[r].worker]
             /\ saved' = saved
    BY <1>2, <2>2 DEF Seen, ShownSince, At
  <2>3. QED
    BY <1>3, <2>1, <2>2, SavesRemembered
<1>4. QED
  BY <1>2, <1>3 DEF SavesSeen

\* Whatever the interleaving, the timeouts and the number of threads: after a
\* save during which no older fetch was under way, the worker that has answered
\* it never serves the old settings again.
THEOREM QuietSaveSeen == Spec => QuietSaveIsSeen
<1>1. TypeOK /\ SavesSeen /\ [Next]_vars =>
         [\A r \in Requests, e \in Epochs :
             Serves(r, e) /\ req[r].after.quiet => e >= req[r].after.epoch]_vars
  <2> SUFFICES ASSUME TypeOK, SavesSeen, NEW r \in Requests, NEW e \in Epochs,
                      Serves(r, e), req[r].after.quiet
               PROVE  e >= req[r].after.epoch
    OBVIOUS
  <2>1. ShownSince(req[r].worker, req[r].after.epoch)
    BY DEF SavesSeen, Seen, Serves
  <2>2. e # None
    BY BoundsAssumption DEF Epochs
  <2>3. QED
    BY <2>1, <2>2 DEF ShownSince, Serves, At
<1>2. QED
  BY InitTypeOK, NextTypeOK, InitSavesSeen, NextSavesSeen, <1>1, PTL
  DEF Spec, QuietSaveIsSeen

-----------------------------------------------------------------------------
\* Saves are numbered by the epochs they begin, one later than the other; a
\* request that has passed the check finds the cache empty only when its
\* worker has finished a save since.
ClearedBySave ==
    /\ \A w \in Workers :
          /\ saved[w].epoch <= epoch
          /\ w \in saving => saved[w].epoch < epoch
    /\ \A r \in Requests : req[r] # Idle =>
          /\ req[r].after.epoch <= saved[req[r].worker].epoch
          /\ (At(r, "sawData") \/ At(r, "hit")) /\ data[req[r].worker] = None =>
                req[r].after.epoch < saved[req[r].worker].epoch

LEMMA InitClearedBySave == Init => ClearedBySave
  BY BoundsAssumption DEF Init, ClearedBySave

LEMMA NextClearedBySave == TypeOK /\ ClearedBySave /\ [Next]_vars => ClearedBySave'
<1> SUFFICES ASSUME TypeOK, ClearedBySave, [Next]_vars PROVE ClearedBySave'
  OBVIOUS
<1> USE DEF ClearedBySave, At
<1>a. /\ epoch \in Int /\ None \notin Nat
      /\ \A w \in Workers : saved[w] \in Saves /\ saved[w].epoch \in Int
  BY BoundsAssumption DEF TypeOK, Epochs, Saves
<1>b. \A r \in Requests : req[r] # Idle =>
         /\ req[r].worker \in Workers
         /\ req[r].after.epoch \in Int
         /\ req[r].shows \in Nat
  BY BoundsAssumption, ServingTyped DEF Epochs, Saves
<1>1. ASSUME NEW r \in Requests, NEW w \in Workers, Arrive(r, w)
      PROVE  ClearedBySave'
  BY <1>1, <1>a DEF TypeOK, Arrive
<1>2. ASSUME NEW r \in Requests, SeeData(r) PROVE ClearedBySave'
  BY <1>2, <1>a, <1>b, ServingTyped DEF TypeOK, SeeData, Goto, Serving
<1>3. ASSUME NEW r \in Requests, SeeFresh(r) PROVE ClearedBySave'
  BY <1>3, <1>a, <1>b, ServingTyped DEF TypeOK, SeeFresh, Goto, Serving
<1>4. ASSUME NEW r \in Requests, AnswerCached(r) PROVE ClearedBySave'
  BY <1>4 DEF TypeOK, AnswerCached, Answer
<1>5. ASSUME NEW r \in Requests, BeginFetch(r) PROVE ClearedBySave'
  BY <1>5, ServingTyped DEF TypeOK, BeginFetch, Serving
<1>6. ASSUME NEW r \in Requests, FetchFails(r) PROVE ClearedBySave'
  BY <1>6 DEF TypeOK, FetchFails, Answer
<1>7. ASSUME NEW r \in Requests, StoreData(r) PROVE ClearedBySave'
  BY <1>7, <1>a, <1>b, ServingTyped DEF TypeOK, StoreData, Goto, Serving
<1>8. ASSUME NEW r \in Requests, StoreTime(r) PROVE ClearedBySave'
  BY <1>8 DEF TypeOK, StoreTime, Answer
<1>9. ASSUME NEW w \in Workers, LoopStoreData(w) PROVE ClearedBySave'
  <2>1. loop[w].shows # None
    BY <1>9, <1>a, LoopingTyped, BoundsAssumption DEF LoopStoreData, Epochs
  <2>2. QED
    BY <1>9, <1>b, <2>1 DEF TypeOK, LoopStoreData
<1>10. ASSUME NEW w \in Workers, LoopFetch(w) \/ LoopStoreTime(w) \/ LoopFails(w)
       PROVE  ClearedBySave'
  BY <1>10 DEF LoopFetch, LoopStoreTime, LoopFails
<1>11. CASE PanelsChange
  BY <1>11, <1>a DEF PanelsChange
<1>12. ASSUME NEW w \in Workers, SaveConfig(w) PROVE ClearedBySave'
  BY <1>12, <1>a DEF SaveConfig
<1>13. ASSUME NEW w \in Workers, ClearCache(w) PROVE ClearedBySave'
  <2>1. /\ saved[w].epoch < epoch
        /\ saved'[w].epoch = epoch
        /\ \A x \in Workers \ {w} : saved'[x] = saved[x] /\ data'[x] = data[x]
        /\ saving' = saving \ {w}
        /\ UNCHANGED <<epoch, req>>
    BY <1>13 DEF TypeOK, ClearCache, NoteSave
  <2>2. \A x \in Workers : saved'[x].epoch >= saved[x].epoch
    BY <2>1, <1>a
  <2>3. \A x \in Workers : /\ saved'[x].epoch <= epoch
                           /\ x \in saving' => saved'[x].epoch < epoch
    BY <2>1, <1>a
  <2>4. ASSUME NEW r \in Requests, req[r] # Idle
        PROVE  /\ req[r].after.epoch <= saved'[req[r].worker].epoch
               /\ (At(r, "sawData") \/ At(r, "hit")) /\ data'[req[r].worker] = None =>
                     req[r].after.epoch < saved'[req[r].worker].epoch
    BY <2>1, <2>2, <2>4, <1>a, <1>b
  <2>5. QED
    BY <2>1, <2>3, <2>4
<1>14. CASE Tick
  <2>1. \A r \in Requests : req'[r] # Idle =>
           /\ req[r] # Idle
           /\ req'[r].stage = req[r].stage /\ req'[r].worker = req[r].worker
           /\ req'[r].after = req[r].after
    BY <1>14, ServingTyped DEF Tick, Serving
  <2>2. UNCHANGED <<epoch, data, saving, saved>>
    BY <1>14 DEF Tick
  <2>3. QED
    BY <2>1, <2>2
<1>15. CASE UNCHANGED vars
  BY <1>15 DEF vars
<1>16. QED
  BY <1>1, <1>2, <1>3, <1>4, <1>5, <1>6, <1>7, <1>8, <1>9, <1>10, <1>11, <1>12,
     <1>13, <1>14, <1>15, BoundsAssumption DEF Next, Serve, Loop

\* The unlocked double read of the cache answers "null" only to a request that
\* a save has overtaken, for any number of threads and workers.
THEOREM NullNeedsASave == Spec => NullOnlyAcrossSave
<1>1. TypeOK /\ ClearedBySave /\ [Next]_vars =>
         [\A r \in Requests :
             Serves(r, None) => saved[req[r].worker] # req[r].after]_vars
  <2> SUFFICES ASSUME TypeOK, ClearedBySave, NEW r \in Requests, Serves(r, None)
               PROVE  saved[req[r].worker] # req[r].after
    OBVIOUS
  <2>1. req[r] # Idle /\ req[r].shows # None
    BY ServingTyped, BoundsAssumption DEF Serves, Epochs
  <2>2. At(r, "hit") /\ data[req[r].worker] = None
    BY <2>1 DEF Serves, At
  <2>3. req[r].after.epoch < saved[req[r].worker].epoch
    BY <2>1, <2>2 DEF ClearedBySave
  <2>4. req[r].after.epoch \in Int
    BY <2>1, ServingTyped DEF Saves, Epochs
  <2>5. QED
    BY <2>3, <2>4
<1>2. QED
  BY InitTypeOK, NextTypeOK, InitClearedBySave, NextClearedBySave, <1>1, PTL
  DEF Spec, NullOnlyAcrossSave

-----------------------------------------------------------------------------
\* What a fetch shows has been over for no longer than the fetch has lasted,
\* what is being stored for no longer than a fetch can last, and what is in the
\* cache for no longer than that and the age of the cache.
NotLongOver ==
    /\ \A e \in Epochs : e >= epoch => ended[e] = 0
    /\ \A r \in Requests : At(r, "fetching") \/ At(r, "storing") =>
          ended[req[r].shows] <= req[r].age
    /\ \A w \in Workers : loop[w] # Idle => ended[loop[w].shows] <= loop[w].age

Storing(w) ==
    \/ \E r \in Requests : At(r, "storing") /\ req[r].worker = w
    \/ loop[w] # Idle /\ loop[w].stage = "storing"

CacheNotLongOver ==
    \A w \in Workers : data[w] # None =>
        /\ Storing(w) => ended[data[w]] <= MaxFetch
        /\ ts[w] < TTL => ended[data[w]] <= MaxFetch + ts[w]
        /\ \A r \in Requests : At(r, "hit") /\ req[r].worker = w =>
              ended[data[w]] < MaxFetch + TTL

LEMMA InitNotLongOver == Init => NotLongOver /\ CacheNotLongOver
  BY DEF Init, NotLongOver, CacheNotLongOver, At

LEMMA Numbers ==
  ASSUME TypeOK
  PROVE  /\ TTL \in Nat \ {0} /\ MaxFetch \in Nat /\ Old \in Nat /\ epoch \in Int
         /\ \A e \in Epochs : e \in Int /\ e # None /\ ended[e] \in Nat
         /\ \A w \in Workers : ts[w] \in Nat
         /\ \A w \in Workers : data[w] # None => data[w] \in Epochs
  BY BoundsAssumption DEF TypeOK, Epochs, Old

LEMMA NextNotLongOver == TypeOK /\ NotLongOver /\ [Next]_vars => NotLongOver'
<1> SUFFICES ASSUME TypeOK, NotLongOver, [Next]_vars PROVE NotLongOver'
  OBVIOUS
<1> USE DEF NotLongOver, At
<1>1. ASSUME NEW r \in Requests, NEW w \in Workers, Arrive(r, w)
      PROVE  NotLongOver'
  BY <1>1 DEF TypeOK, Arrive
<1>2. ASSUME NEW r \in Requests, SeeData(r) \/ SeeFresh(r) PROVE NotLongOver'
  BY <1>2, ServingTyped DEF TypeOK, SeeData, SeeFresh, Goto, Serving
<1>3. ASSUME NEW r \in Requests,
             AnswerCached(r) \/ FetchFails(r) \/ StoreTime(r)
      PROVE  NotLongOver'
  BY <1>3 DEF TypeOK, AnswerCached, FetchFails, StoreTime, Answer
<1>4. ASSUME NEW r \in Requests, BeginFetch(r) PROVE NotLongOver'
  <2>1. ended[epoch] = 0 /\ req[r].age \in Nat
    BY <1>4, ServingTyped, Numbers, BoundsAssumption DEF TypeOK, BeginFetch
  <2>2. QED
    BY <1>4, <2>1, ServingTyped DEF TypeOK, BeginFetch, Serving
<1>5. ASSUME NEW r \in Requests, StoreData(r) PROVE NotLongOver'
  BY <1>5, ServingTyped DEF TypeOK, StoreData, Goto, Serving
<1>6. ASSUME NEW w \in Workers, LoopFetch(w) PROVE NotLongOver'
  <2>1. ended[epoch] = 0
    BY Numbers DEF TypeOK
  <2>2. QED
    BY <1>6, <2>1 DEF TypeOK, LoopFetch
<1>7. ASSUME NEW w \in Workers, LoopStoreData(w) PROVE NotLongOver'
  BY <1>7, LoopingTyped DEF TypeOK, LoopStoreData, Looping
<1>8. ASSUME NEW w \in Workers, LoopStoreTime(w) \/ LoopFails(w) PROVE NotLongOver'
  BY <1>8 DEF TypeOK, LoopStoreTime, LoopFails
<1>9. CASE PanelsChange \/ \E w \in Workers : SaveConfig(w)
  BY <1>9, Numbers DEF PanelsChange, SaveConfig
<1>10. ASSUME NEW w \in Workers, ClearCache(w) PROVE NotLongOver'
  BY <1>10 DEF ClearCache, NoteSave
<1>11. CASE Tick
  <2>1. \A e \in Epochs : ended'[e] <= ended[e] + 1
    BY <1>11, Numbers DEF Tick, Min
  <2>2. \A e \in Epochs : ended'[e] \in Int
    BY <1>11, Numbers DEF Tick, Min
  <2>3. \A e \in Epochs : e >= epoch' => ended'[e] = 0
    BY <1>11, Numbers DEF Tick
  <2>4. ASSUME NEW r \in Requests, req'[r] # Idle,
               req'[r].stage \in {"fetching", "storing"}
        PROVE  ended'[req'[r].shows] <= req'[r].age
    <3>1. /\ req[r] # Idle /\ req'[r].stage = req[r].stage
          /\ req'[r].shows = req[r].shows
          /\ req'[r].age = req[r].age + 1
      BY <1>11, <2>4, ServingTyped DEF Tick, Serving
    <3>2. /\ req[r].shows \in Epochs /\ req[r].age \in Int
          /\ ended[req[r].shows] <= req[r].age
      BY <2>4, <3>1, ServingTyped
    <3>3. QED
      BY <2>1, <2>2, <3>1, <3>2, Numbers
  <2>5. ASSUME NEW w \in Workers, loop'[w] # Idle
        PROVE  ended'[loop'[w].shows] <= loop'[w].age
    <3>1. /\ loop[w] # Idle
          /\ loop'[w].shows = loop[w].shows
          /\ loop'[w].age = loop[w].age + 1
      BY <1>11, <2>5, LoopingTyped DEF Tick, Looping
    <3>2. /\ loop[w].shows \in Epochs /\ loop[w].age \in Int
          /\ ended[loop[w].shows] <= loop[w].age
      BY <3>1, LoopingTyped
    <3>3. QED
      BY <2>1, <2>2, <3>1, <3>2, Numbers
  <2>6. QED
    BY <2>3, <2>4, <2>5
<1>12. CASE UNCHANGED vars
  BY <1>12 DEF vars
<1>13. QED
  BY <1>1, <1>2, <1>3, <1>4, <1>5, <1>6, <1>7, <1>8, <1>9, <1>10, <1>11, <1>12,
     BoundsAssumption DEF Next, Serve, Loop

LEMMA NextCacheNotLongOver ==
  TypeOK /\ NotLongOver /\ CacheNotLongOver /\ [Next]_vars => CacheNotLongOver'
<1> SUFFICES ASSUME TypeOK, NotLongOver, CacheNotLongOver, [Next]_vars
             PROVE  CacheNotLongOver'
  OBVIOUS
<1> USE DEF CacheNotLongOver, Storing, At
<1>1. ASSUME NEW r \in Requests, NEW w \in Workers, Arrive(r, w)
      PROVE  CacheNotLongOver'
  BY <1>1 DEF TypeOK, Arrive
<1>2. ASSUME NEW r \in Requests, SeeData(r) PROVE CacheNotLongOver'
  BY <1>2, ServingTyped DEF TypeOK, SeeData, Goto, Serving
<1>3. ASSUME NEW r \in Requests, SeeFresh(r) PROVE CacheNotLongOver'
  <2>1. /\ UNCHANGED <<ended, data, ts, loop>>
        /\ \A x \in Requests : req'[x] # Idle =>
              /\ req[x] # Idle /\ req'[x].worker = req[x].worker
              /\ req'[x].stage = "storing" => req[x].stage = "storing"
              /\ req'[x].stage = "hit" =>
                    req[x].stage = "hit" \/ ts[req[x].worker] < TTL
    BY <1>3, ServingTyped DEF TypeOK, SeeFresh, Goto, Serving
  <2>2. \A w \in Workers : data[w] # None /\ ts[w] < TTL =>
           ended[data[w]] < MaxFetch + TTL
    BY Numbers
  <2>3. QED
    BY <2>1, <2>2
<1>4. ASSUME NEW r \in Requests, AnswerCached(r) \/ FetchFails(r)
      PROVE  CacheNotLongOver'
  BY <1>4 DEF TypeOK, AnswerCached, FetchFails, Answer
<1>5. ASSUME NEW r \in Requests, BeginFetch(r) PROVE CacheNotLongOver'
  BY <1>5, ServingTyped DEF TypeOK, BeginFetch, Serving
<1>6. ASSUME NEW r \in Requests, StoreData(r) PROVE CacheNotLongOver'
  <2>1. /\ req[r].worker \in Workers
        /\ \A w \in Workers : w # req[r].worker => data'[w] = data[w]
        /\ data'[req[r].worker] = req[r].shows
        /\ ended[req[r].shows] <= MaxFetch
    BY <1>6, ServingTyped, Numbers DEF TypeOK, StoreData, NotLongOver
  <2>2. /\ UNCHANGED <<ended, ts, loop>>
        /\ \A x \in Requests : req'[x] # Idle =>
              /\ req[x] # Idle /\ req'[x].worker = req[x].worker
              /\ x # r => req'[x].stage = req[x].stage
              /\ x = r => req'[x].stage = "storing"
    BY <1>6, ServingTyped DEF TypeOK, StoreData, Goto, Serving
  <2>3. ended[req[r].shows] \in Nat
    BY <1>6, ServingTyped, Numbers DEF StoreData
  <2>4. QED
    BY <2>1, <2>2, <2>3, Numbers
<1>7. ASSUME NEW r \in Requests, StoreTime(r) PROVE CacheNotLongOver'
  <2>1. /\ req[r].worker \in Workers
        /\ \A w \in Workers : w # req[r].worker => ts'[w] = ts[w]
        /\ ts'[req[r].worker] \in Nat
        /\ data[req[r].worker] # None => ended[data[req[r].worker]] <= MaxFetch
    <3>1. req[r].age \in Nat /\ req[r].worker \in Workers
      BY <1>7, ServingTyped, Numbers DEF StoreTime
    <3>2. Min(req[r].age, TTL) \in Nat
      BY <3>1, Numbers DEF Min
    <3>3. QED
      BY <1>7, <3>1, <3>2 DEF TypeOK, StoreTime
  <2>2. /\ UNCHANGED <<ended, data, loop>>
        /\ \A x \in Requests : req'[x] # Idle => req'[x] = req[x]
    BY <1>7 DEF TypeOK, StoreTime, Answer
  <2>3. QED
    BY <2>1, <2>2, Numbers
<1>8. ASSUME NEW w \in Workers, LoopFetch(w) \/ LoopFails(w)
      PROVE  CacheNotLongOver'
  BY <1>8 DEF TypeOK, LoopFetch, LoopFails
<1>9. ASSUME NEW w \in Workers, LoopStoreData(w) PROVE CacheNotLongOver'
  <2>1. /\ \A x \in Workers : x # w => data'[x] = data[x] /\ loop'[x] = loop[x]
        /\ data'[w] = loop[w].shows
        /\ ended[loop[w].shows] <= MaxFetch /\ ended[loop[w].shows] \in Nat
        /\ UNCHANGED <<ended, ts, req>>
    BY <1>9, LoopingTyped, Numbers DEF TypeOK, LoopStoreData, NotLongOver
  <2>2. QED
    BY <2>1, Numbers
<1>10. ASSUME NEW w \in Workers, LoopStoreTime(w) PROVE CacheNotLongOver'
  <2>1. /\ \A x \in Workers : x # w => ts'[x] = ts[x] /\ loop'[x] = loop[x]
        /\ ts'[w] = 0 /\ loop'[w] = Idle
        /\ data[w] # None => ended[data[w]] <= MaxFetch
        /\ UNCHANGED <<ended, data, req>>
    BY <1>10 DEF TypeOK, LoopStoreTime
  <2>2. QED
    BY <2>1, Numbers
<1>11. CASE PanelsChange \/ \E w \in Workers : SaveConfig(w)
  BY <1>11 DEF PanelsChange, SaveConfig
<1>12. ASSUME NEW w \in Workers, ClearCache(w) PROVE CacheNotLongOver'
  BY <1>12 DEF TypeOK, ClearCache, NoteSave
<1>13. CASE Tick
  <2>1. \A r \in Requests : req'[r] # Idle => req'[r].stage = "fetching"
    BY <1>13, ServingTyped DEF Tick, Serving
  <2>2. \A w \in Workers : loop'[w] # Idle => loop'[w].stage = "fetching"
    BY <1>13, LoopingTyped DEF Tick, Looping
  <2>3. ASSUME NEW w \in Workers, data'[w] # None, ts'[w] < TTL
        PROVE  ended'[data'[w]] <= MaxFetch + ts'[w]
    <3>1. data'[w] = data[w] /\ data[w] \in Epochs
      BY <1>13, <2>3, Numbers DEF Tick
    <3>2. ended'[data[w]] <= ended[data[w]] + 1 /\ ended'[data[w]] \in Int
      BY <1>13, <3>1, Numbers DEF Tick, Min
    <3>3. ts'[w] = ts[w] + 1 /\ ts[w] < TTL
      BY <1>13, <2>3, Numbers DEF Tick, Min
    <3>4. ended[data[w]] <= MaxFetch + ts[w]
      BY <2>3, <3>1, <3>3
    <3>5. QED
      BY <3>1, <3>2, <3>3, <3>4, Numbers
  <2>4. QED
    BY <2>1, <2>2, <2>3
<1>14. CASE UNCHANGED vars
  BY <1>14 DEF vars
<1>15. QED
  BY <1>1, <1>2, <1>3, <1>4, <1>5, <1>6, <1>7, <1>8, <1>9, <1>10, <1>11, <1>12,
     <1>13, <1>14, BoundsAssumption DEF Next, Serve, Loop

\* For every number of threads, every CACHE_TTL and every timeout: nothing is
\* shown that was over for one CACHE_TTL and one fetch, although the two halves
\* of the cache are written, and read, one after the other.
THEOREM RecentStateServed == Spec => ServesRecentState
<1>1. TypeOK /\ NotLongOver /\ CacheNotLongOver /\ [Next]_vars =>
         [\A r \in Requests, e \in Epochs :
             Serves(r, e) /\ e < epoch => ended[e] < TTL + MaxFetch]_vars
  <2> SUFFICES ASSUME TypeOK, NotLongOver, CacheNotLongOver,
                      NEW r \in Requests, NEW e \in Epochs, Serves(r, e)
               PROVE  ended[e] < TTL + MaxFetch
    OBVIOUS
  <2>1. CASE At(r, "hit") /\ e = data[req[r].worker]
    BY <2>1, ServingTyped, Numbers DEF CacheNotLongOver, At
  <2>2. CASE At(r, "storing") /\ e = req[r].shows
    BY <2>2, ServingTyped, Numbers DEF NotLongOver, At
  <2>3. QED
    BY <2>1, <2>2 DEF Serves, At
<1>2. QED
  BY InitTypeOK, NextTypeOK, InitNotLongOver, NextNotLongOver,
     NextCacheNotLongOver, <1>1, PTL
  DEF Spec, ServesRecentState
=============================================================================
