---------------------------- MODULE ScreenProofs ----------------------------
(***************************************************************************)
(* Proofs about what is on the screen of a page, each for all values of    *)
(* the constants and any number of steps.  The landscape: pages stand on   *)
(* the ground of the server's seed and place each model once, and for any  *)
(* map and any draws of the generator the models stand apart.  The         *)
(* snowballs: one flies exactly as long as its shot is registered with it. *)
(* The chat: no timer takes away what came after.  The controls: keys are  *)
(* let go.                                                                 *)
(***************************************************************************)
EXTENDS Scene, Scatter, Balls, Chat, Controls, FiniteSetTheorems, TLAPS

----------------------------------------------------------------------------
(* The landscape.                                                          *)

Numbers == 0 .. MaxRestarts + 1
View == [worldSeed : Numbers, ground : Numbers,
         loading : SUBSET Thing, boxes : [Thing -> 0 .. 1]]

\* What was sent by an earlier server can only reach a page that was there
\* before the restart.
GreetingsCurrent == \A p \in Page : p \notin kept => greeting[p] \in {0, seed}

\* Before the landscape is built no model is placed or being loaded.
NothingYet ==
    \A p \in Page : view[p].ground = 0 =>
        view[p].loading = {} /\ \A t \in Thing : view[p].boxes[t] = 0

SceneInv ==
    /\ seed \in Numbers \ {0}
    /\ greeting \in [Page -> Numbers]
    /\ view \in [Page -> View]
    /\ kept \subseteq Page
    /\ GreetingsCurrent /\ NothingYet
    /\ SameGround /\ ObstaclesOnce

----------------------------------------------------------------------------
\* The invariant holds when the server starts.
LEMMA SceneInitInv == SceneInit => SceneInv
<1> SUFFICES ASSUME SceneInit PROVE SceneInv
  BY Zenon
<1>1. 0 \in Numbers /\ 1 \in Numbers \ {0} /\ 0 \in 0 .. 1
  BY SceneAssumption DEF Numbers
<1>2. /\ Empty \in View /\ Empty.ground = 0 /\ Empty.loading = {}
      /\ \A t \in Thing : Empty.boxes[t] = 0
  BY <1>1, Zenon DEF Empty, View
<1>3. \A p \in Page : view[p] = Empty
  BY Zenon DEF SceneInit
<1>4. GreetingsCurrent /\ NothingYet /\ SameGround /\ ObstaclesOnce
  BY <1>2, <1>3 DEF SceneInit, GreetingsCurrent, NothingYet, SameGround,
     ObstaclesOnce
<1> QED  BY <1>1, <1>2, <1>4 DEF SceneInit, SceneInv

\* A step that changes what one page holds from v to w, where w is a view
\* with each model placed at most once, on the ground of the seed unless the
\* page was there before the restart.
LEMMA ViewInv ==
    ASSUME SceneInv, NEW p \in Page, NEW w \in View,
           seed' = seed, view' = [view EXCEPT ![p] = w],
           greeting' \in [Page -> Numbers], kept' \subseteq Page,
           \A q \in Page : q # p => greeting'[q] = greeting[q] /\ (q \in kept <=> q \in kept'),
           p \notin kept' => greeting'[p] \in {0, seed},
           w.ground = 0 => w.loading = {} /\ \A t \in Thing : w.boxes[t] = 0,
           w.ground # 0 /\ p \notin kept' => w.ground = seed /\ w.worldSeed = seed,
           \A t \in Thing : w.boxes[t] + (IF t \in w.loading THEN 1 ELSE 0) <= 1
    PROVE  SceneInv'
<1>1. view' \in [Page -> View] /\ view'[p] = w
  BY Zenon DEF SceneInv
<1>2. \A q \in Page : q # p => view'[q] = view[q]
  BY Zenon DEF SceneInv
<1>3. GreetingsCurrent'
  BY Zenon DEF SceneInv, GreetingsCurrent
<1>4. NothingYet'
  BY <1>1, <1>2 DEF SceneInv, NothingYet
<1>5. SameGround'
  BY <1>1, <1>2, Zenon DEF SceneInv, SameGround
<1>6. ObstaclesOnce'
  <2> SUFFICES ASSUME NEW q \in Page, NEW t \in Thing
               PROVE  view'[q].boxes[t] + (IF t \in view'[q].loading THEN 1 ELSE 0) <= 1
    BY Zenon DEF ObstaclesOnce
  <2>1. CASE q = p  BY <1>1, <2>1
  <2>2. CASE q # p  BY <1>2, <2>2 DEF SceneInv, ObstaclesOnce
  <2> QED  BY <2>1, <2>2
<1> QED  BY <1>1, <1>3, <1>4, <1>5, <1>6 DEF SceneInv

\* A welcome keeps the invariant: it builds with the seed it brings, or not at
\* all.
LEMMA WelcomeInv == ASSUME SceneInv, NEW p \in Page, Welcome(p) PROVE SceneInv'
<1> DEFINE v == [view[p] EXCEPT !.worldSeed = greeting[p]]
           w == ensureEnvironment(v)
<1>1. /\ view[p] \in View /\ greeting[p] \in Numbers /\ greeting[p] # 0
      /\ 0 \in Numbers
  BY SceneAssumption DEF SceneInv, Welcome, Numbers
<1>2. /\ v \in View /\ v.worldSeed = greeting[p] /\ v.ground = view[p].ground
      /\ v.loading = view[p].loading /\ v.boxes = view[p].boxes
  BY <1>1, Zenon DEF View
<1>3. /\ view' = [view EXCEPT ![p] = w] /\ seed' = seed
      /\ greeting' = [greeting EXCEPT ![p] = 0]
      /\ kept' = IF view[p].ground = 0 /\ greeting[p] = seed THEN kept \ {p} ELSE kept
  BY Zenon DEF Welcome, SceneInv
<1>4. /\ greeting' \in [Page -> Numbers] /\ kept' \subseteq Page /\ greeting'[p] = 0
      /\ \A q \in Page : q # p => greeting'[q] = greeting[q] /\ (q \in kept <=> q \in kept')
  BY <1>1, <1>3, Zenon DEF SceneInv
<1>5. \A t \in Thing : v.boxes[t] \in 0 .. 1
  BY <1>2, Zenon DEF View
<1>6. CASE view[p].ground = 0
  <2>1. /\ w = [v EXCEPT !.ground = v.worldSeed, !.loading = Thing]
        /\ \A t \in Thing : v.boxes[t] = 0
    BY <1>2, <1>6, Zenon DEF ensureEnvironment, createEnvironment, SceneInv,
       NothingYet
  <2>2. /\ w \in View /\ w.ground = greeting[p] /\ w.worldSeed = greeting[p]
        /\ w.boxes = v.boxes
    BY <1>1, <1>2, <2>1, Zenon DEF View
  <2>3. p \notin kept' => greeting[p] = seed
    BY <1>1, <1>3, <1>6, Zenon DEF SceneInv, GreetingsCurrent
  <2>4. \A t \in Thing : w.boxes[t] + (IF t \in w.loading THEN 1 ELSE 0) <= 1
    BY <2>1, <2>2
  <2> HIDE DEF w
  <2> QED  BY <1>1, <1>3, <1>4, <2>2, <2>3, <2>4, ViewInv, Zenon
<1>7. CASE view[p].ground # 0
  <2>1. w = v
    BY <1>2, <1>7, Zenon DEF ensureEnvironment
  <2>2. p \notin kept' => greeting[p] = seed /\ view[p].ground = seed
    BY <1>1, <1>3, <1>7, Zenon DEF SceneInv, GreetingsCurrent, SameGround
  <2>3. \A t \in Thing : v.boxes[t] + (IF t \in v.loading THEN 1 ELSE 0) <= 1
    BY <1>2, Zenon DEF SceneInv, ObstaclesOnce
  <2>4. /\ w \in View /\ w.ground = view[p].ground /\ w.worldSeed = greeting[p]
        /\ \A t \in Thing : w.boxes[t] + (IF t \in w.loading THEN 1 ELSE 0) <= 1
    BY <1>2, <2>1, <2>3, Zenon
  <2> HIDE DEF w
  <2> QED  BY <1>3, <1>4, <1>7, <2>2, <2>4, ViewInv, Zenon
<1> QED  BY <1>6, <1>7

\* A model that arrives keeps the invariant: its load is over with it.
LEMMA LoadedInv ==
    ASSUME SceneInv, NEW p \in Page, NEW t \in Thing, Loaded(p, t) PROVE SceneInv'
<1>1. /\ view[p] \in View /\ t \in view[p].loading
      /\ seed' = seed /\ greeting' = greeting /\ kept' = kept
  BY Zenon DEF SceneInv, Loaded
<1>2. view[p].boxes \in [Thing -> 0 .. 1] /\ view[p].boxes[t] \in 0 .. 1
  BY <1>1, Zenon DEF View
<1>3. PICK ok \in BOOLEAN :
          view' = [view EXCEPT ![p].loading = @ \ {t},
                               ![p].boxes[t] = IF ok THEN @ + 1 ELSE @]
  BY Zenon DEF Loaded
<1> DEFINE n == IF ok THEN view[p].boxes[t] + 1 ELSE view[p].boxes[t]
           w == [view[p] EXCEPT !.loading = @ \ {t}, !.boxes = [@ EXCEPT ![t] = n]]
<1>4. view' = [view EXCEPT ![p] = w]
  BY <1>1, <1>2, <1>3, Zenon DEF SceneInv, View
<1>5. view[p].boxes[t] + 1 <= 1 /\ n \in 0 .. 1
  BY <1>1, <1>2 DEF SceneInv, ObstaclesOnce
<1>6. /\ w \in View /\ w.ground = view[p].ground /\ w.worldSeed = view[p].worldSeed
      /\ w.loading = view[p].loading \ {t} /\ w.boxes = [view[p].boxes EXCEPT ![t] = n]
  BY <1>1, <1>2, <1>5, Zenon DEF View
<1>7. w.ground # 0
  BY <1>1, <1>6, Zenon DEF SceneInv, NothingYet
<1>8. p \notin kept => w.ground = seed /\ w.worldSeed = seed
  BY <1>6, <1>7, Zenon DEF SceneInv, SameGround
<1>9. \A u \in Thing : w.boxes[u] + (IF u \in w.loading THEN 1 ELSE 0) <= 1
  <2> SUFFICES ASSUME NEW u \in Thing
               PROVE  w.boxes[u] + (IF u \in w.loading THEN 1 ELSE 0) <= 1
    BY Zenon
  <2>1. CASE u = t
    <3>1. w.boxes[u] = n /\ u \notin w.loading
      BY <1>2, <1>6, <2>1, Zenon
    <3> HIDE DEF w, n
    <3> QED  BY <1>5, <3>1
  <2>2. CASE u # t
    <3>1. w.boxes[u] = view[p].boxes[u] /\ (u \in w.loading <=> u \in view[p].loading)
      BY <1>2, <1>6, <2>2
    <3> HIDE DEF w
    <3> QED  BY <3>1 DEF SceneInv, ObstaclesOnce
  <2> QED  BY <2>1, <2>2
<1> HIDE DEF w
<1>10. /\ greeting' \in [Page -> Numbers] /\ kept' \subseteq Page
       /\ p \notin kept => greeting[p] \in {0, seed}
  BY <1>1, Zenon DEF SceneInv, GreetingsCurrent
<1> QED  BY <1>1, <1>4, <1>6, <1>7, <1>8, <1>9, <1>10, ViewInv, Zenon

\* A reload keeps the invariant: the page holds nothing.
LEMMA SceneReloadInv == ASSUME SceneInv, NEW p \in Page, SceneReload(p) PROVE SceneInv'
<1>1. 0 \in Numbers /\ 0 \in 0 .. 1
  BY SceneAssumption DEF Numbers
<1>2. /\ Empty \in View /\ Empty.ground = 0 /\ Empty.loading = {}
      /\ \A t \in Thing : Empty.boxes[t] = 0
  BY <1>1, Zenon DEF Empty, View
<1>3. \A t \in Thing : Empty.boxes[t] + (IF t \in Empty.loading THEN 1 ELSE 0) <= 1
  BY <1>2
<1>4. /\ view' = [view EXCEPT ![p] = Empty] /\ greeting' = [greeting EXCEPT ![p] = 0]
      /\ seed' = seed /\ kept' = kept
  BY Zenon DEF SceneReload
<1>5. /\ greeting' \in [Page -> Numbers] /\ greeting'[p] = 0 /\ kept' \subseteq Page
      /\ \A q \in Page : q # p => greeting'[q] = greeting[q]
  BY <1>1, <1>4, Zenon DEF SceneInv
<1> QED  BY <1>2, <1>3, <1>4, <1>5, ViewInv, Zenon

\* A restart leaves every page where it is and makes it one of the kept.
LEMMA RestartInv == ASSUME SceneInv, Restart PROVE SceneInv'
<1>1. /\ view' = view /\ kept' = Page /\ seed' = seed + 1 /\ seed <= MaxRestarts
      /\ seed \in Numbers \ {0}
  BY Zenon DEF SceneInv, Restart
<1>2. seed' \in Numbers \ {0}
  BY <1>1, SceneAssumption DEF Numbers
<1>3. greeting' \in [Page -> Numbers]
  BY SceneAssumption DEF SceneInv, Restart, Numbers
<1>4. GreetingsCurrent' /\ NothingYet' /\ SameGround' /\ ObstaclesOnce'
  BY <1>1, Zenon DEF SceneInv, GreetingsCurrent, NothingYet, SameGround,
     ObstaclesOnce
<1> QED  BY <1>1, <1>2, <1>3, <1>4 DEF SceneInv

\* Every step keeps the invariant.
LEMMA SceneStep == SceneInv /\ [SceneNext]_evars => SceneInv'
<1> SUFFICES ASSUME SceneInv, [SceneNext]_evars PROVE SceneInv'
  BY Zenon
<1>1. ASSUME NEW p \in Page, Hello(p) PROVE SceneInv'
  <2>1. /\ view' = view /\ kept' = kept /\ seed' = seed
        /\ greeting' = [greeting EXCEPT ![p] = seed]
    BY <1>1, Zenon DEF Hello
  <2>2. greeting' \in [Page -> Numbers]
    BY <2>1, Zenon DEF SceneInv
  <2>3. GreetingsCurrent'
    BY <2>1, Zenon DEF SceneInv, GreetingsCurrent
  <2>4. NothingYet' /\ SameGround' /\ ObstaclesOnce'
    BY <2>1, Zenon DEF SceneInv, NothingYet, SameGround, ObstaclesOnce
  <2> QED  BY <2>1, <2>2, <2>3, <2>4 DEF SceneInv
<1>2. CASE UNCHANGED evars
  BY <1>2, Zenon DEF evars, SceneInv, GreetingsCurrent, NothingYet,
     SameGround, ObstaclesOnce
<1> QED
  BY <1>1, <1>2, WelcomeInv, LoadedInv, SceneReloadInv, RestartInv, Zenon
     DEF SceneNext

\* Every page that was not there before the latest restart stands on the
\* ground of the running server's seed and computes heights from it
\* (ensureEnvironment, the welcome handler).
THEOREM SameGroundHolds == SceneSpec => []SameGround
<1>1. SceneInv => SameGround  BY DEF SceneInv
<1> QED  BY <1>1, SceneInitInv, SceneStep, PTL DEF SceneSpec

\* However often a page connects again and however late its models arrive,
\* each of them is added to STATIC_OBSTACLES once (ensureEnvironment).
THEOREM ObstaclesOnceHolds == SceneSpec => []ObstaclesOnce
<1>1. SceneInv => ObstaclesOnce  BY DEF SceneInv
<1> QED  BY <1>1, SceneInitInv, SceneStep, PTL DEF SceneSpec

\* Both together: a page has one landscape, that of its server
\* (ensureEnvironment, the welcome handler).
THEOREM OneLandscapeHolds == SceneSpec => []OneLandscape
BY SameGroundHolds, ObstaclesOnceHolds, PTL DEF OneLandscape

----------------------------------------------------------------------------
(* Scatter.                                                                *)

ScatterInv == placedPositions \in Seq(Spot) /\ PlacedApart

\* Distances of spots are integers.
LEMMA SquareDistInt == ASSUME NEW s \in Spot, NEW t \in Spot PROVE SquareDist(s, t) \in Int
<1>1. s.x \in Int /\ s.z \in Int /\ t.x \in Int /\ t.z \in Int
  BY DEF Spot
<1> QED  BY <1>1 DEF SquareDist

\* A model that is placed is apart from those that stand.
LEMMA PlaceInv == ASSUME ScatterInv, NEW s \in Spot, Place(s) PROVE ScatterInv'
<1> DEFINE P == placedPositions
<1>1. /\ P \in Seq(Spot) /\ P' = Append(P, s) /\ s \notin Steep /\ ~isTooClose(s)
      /\ centerExclusionRadius * centerExclusionRadius \in Int
      /\ minDistance * minDistance \in Int
  BY ScatterAssumption DEF ScatterInv, Place
<1>2. Center \in Spot
  BY ScatterAssumption DEF Center, Spot
<1>3. SquareDist(s, Center) >= centerExclusionRadius * centerExclusionRadius
  BY <1>1, <1>2, SquareDistInt DEF isTooClose
<1>4. \A j \in DOMAIN P : P[j] \in Spot /\ SquareDist(s, P[j]) >= minDistance * minDistance
  BY <1>1, SquareDistInt DEF isTooClose
<1>5. PlacedApart'
  <2> SUFFICES ASSUME NEW i \in DOMAIN P'
               PROVE  /\ P'[i] \in Spot \ Steep
                      /\ SquareDist(P'[i], Center)
                             >= centerExclusionRadius * centerExclusionRadius
                      /\ \A j \in 1 .. i - 1 :
                             SquareDist(P'[i], P'[j]) >= minDistance * minDistance
    BY Zenon DEF PlacedApart
  <2>1. /\ Len(P) \in Nat /\ DOMAIN P = 1 .. Len(P) /\ i \in 1 .. Len(P) + 1
        /\ P'[Len(P) + 1] = s /\ \A j \in 1 .. Len(P) : P'[j] = P[j]
    BY <1>1
  <2>2. CASE i = Len(P) + 1
    <3>1. \A j \in 1 .. i - 1 : j \in DOMAIN P /\ P'[j] = P[j]
      BY <2>1, <2>2
    <3> QED  BY <1>1, <1>3, <1>4, <2>1, <2>2, <3>1
  <2>3. CASE i \in 1 .. Len(P)
    <3>1. P'[i] = P[i] /\ \A j \in 1 .. i - 1 : P'[j] = P[j]
      BY <2>1, <2>3
    <3> QED  BY <2>1, <2>3, <3>1 DEF ScatterInv, PlacedApart
  <2> QED  BY <2>1, <2>2, <2>3
<1> QED  BY <1>1, <1>5 DEF ScatterInv

\* Whatever the generator draws, however high the ground and however crowded
\* the landscape, no model stands in the tree, on a slope or too near to
\* another (isTooClose, the test of the slope, the limit on attempts).
THEOREM PlacedApartHolds == ScatterSpec => []PlacedApart
<1>1. ScatterInit => ScatterInv
  BY DEF ScatterInit, ScatterInv, PlacedApart
<1>2. ScatterInv /\ [ScatterNext]_scvars => ScatterInv'
  <2> SUFFICES ASSUME ScatterInv, [ScatterNext]_scvars PROVE ScatterInv'
    BY Zenon
  <2>1. CASE placedPositions' = placedPositions
    BY <2>1, Zenon DEF ScatterInv, PlacedApart
  <2> QED  BY <2>1, PlaceInv DEF ScatterNext, DrawAgain, scvars
<1>3. ScatterInv => PlacedApart  BY DEF ScatterInv
<1> QED  BY <1>1, <1>2, <1>3, PTL DEF ScatterSpec

----------------------------------------------------------------------------
(* The snowballs.                                                          *)

\* A shot that nobody has thrown is not registered.
ThrownRegistered == \A s \in Shot : echo[s] = "none" => snowballsById[s] = 0

BallInv == BallTypeOK /\ FliesRegistered /\ ThrownRegistered

----------------------------------------------------------------------------
\* A new ball for a shot that is not registered keeps the two tables in step.
LEMMA NewBallFlies ==
    ASSUME BallTypeOK, FliesRegistered,
           NEW s \in Shot, NEW n \in {1, 2}, snowballsById[s] = 0, NewBall(s, n)
    PROVE  FliesRegistered'
<1> SUFFICES ASSUME NEW b \in Ball
             PROVE  ball'[b].active <=> snowballsById'[b[1]] = b[2]
  BY Zenon DEF FliesRegistered
<1>1. b[1] \in Shot /\ b[2] \in {1, 2} /\ b = <<b[1], b[2]>>
  BY DEF Ball
<1>2. ball[b].active <=> snowballsById[b[1]] = b[2]
  BY Zenon DEF FliesRegistered
<1>3. CASE b = <<s, n>>
  <2>1. ball'[b].active = TRUE
    BY <1>3, Zenon DEF NewBall, BallTypeOK
  <2>2. snowballsById'[b[1]] = b[2]
    BY <1>1, <1>3, Zenon DEF NewBall, BallTypeOK
  <2> QED  BY <2>1, <2>2
<1>4. CASE b # <<s, n>>
  <2>1. ball'[b] = ball[b]
    BY <1>4, Zenon DEF NewBall, BallTypeOK
  <2>2. CASE b[1] = s
    <3>1. b[2] # n
      BY <1>1, <1>4, <2>2, Zenon
    <3>2. snowballsById'[b[1]] = n
      BY <2>2 DEF NewBall, BallTypeOK
    <3>3. ~ball[b].active
      BY <1>1, <1>2, <2>2
    <3> QED  BY <2>1, <3>1, <3>2, <3>3
  <2>3. CASE b[1] # s
    <3>1. snowballsById'[b[1]] = snowballsById[b[1]]
      BY <1>1, <2>3, Zenon DEF NewBall, BallTypeOK
    <3> QED  BY <1>2, <2>1, <3>1
  <2> QED  BY <2>2, <2>3
<1> QED  BY <1>3, <1>4

\* destroy keeps them in step, whichever balls it is called for and whether
\* or not they still fly.
LEMMA DestroyFlies ==
    ASSUME BallTypeOK, FliesRegistered,
           NEW B \in SUBSET Ball, NEW timer \in BOOLEAN, destroy(B, timer)
    PROVE  FliesRegistered'
<1> SUFFICES ASSUME NEW b \in Ball
             PROVE  ball'[b].active <=> snowballsById'[b[1]] = b[2]
  BY Zenon DEF FliesRegistered
<1>1. b[1] \in Shot /\ b[2] \in {1, 2}
  BY Zenon DEF Ball
<1>2. \A c \in Ball : ball[c].active <=> snowballsById[c[1]] = c[2]
  BY Zenon DEF FliesRegistered
<1>3. /\ b \in B => ball'[b].active = FALSE
      /\ b \notin B => ball'[b] = ball[b]
  BY Zenon DEF destroy, BallTypeOK
<1>4. snowballsById'[b[1]] =
        IF \E c \in B : c[1] = b[1] /\ ball[c].active THEN 0 ELSE snowballsById[b[1]]
  BY <1>1, Zenon DEF destroy
<1>5. CASE \E c \in B : c[1] = b[1] /\ ball[c].active
  <2>1. PICK c \in B : c[1] = b[1] /\ ball[c].active
    BY <1>5, Zenon
  <2>2. c \in Ball /\ c[2] = snowballsById[b[1]] /\ c = <<c[1], c[2]>> /\ b = <<b[1], b[2]>>
    BY <1>2, <2>1 DEF Ball
  <2>3. ball[b].active => b = c
    BY <1>2, <2>1, <2>2, Zenon
  <2>4. snowballsById'[b[1]] # b[2]
    BY <1>1, <1>4, <1>5
  <2> QED  BY <1>3, <2>1, <2>3, <2>4
<1>6. CASE ~\E c \in B : c[1] = b[1] /\ ball[c].active
  <2>1. snowballsById'[b[1]] = snowballsById[b[1]]
    BY <1>4, <1>6, Zenon
  <2>2. b \in B => ~ball[b].active
    BY <1>6, Zenon
  <2> QED  BY <1>2, <1>3, <2>1, <2>2
<1> QED  BY <1>5, <1>6
----------------------------------------------------------------------------
Record == [made : BOOLEAN, active : BOOLEAN, timer : BOOLEAN, age : 0 .. BallMs]

\* Balls keep their type, and the flying ones their timer and their place on
\* the list, when one is made and when some are destroyed.
LEMMA NewBallType ==
    ASSUME BallTypeOK, NEW s \in Shot, NEW n \in {1, 2}, NewBall(s, n)
    PROVE  /\ ball' \in [Ball -> Record]
           /\ snowballs' \subseteq {b \in Ball : ball'[b].made}
           /\ \A b \in Ball : ball'[b].active => ball'[b].timer /\ b \in snowballs'
           /\ snowballsById' \in [Shot -> 0 .. 2]
<1>1. <<s, n>> \in Ball /\ 0 \in 0 .. BallMs /\ n \in 0 .. 2
  BY BallAssumption DEF Ball
<1>2. [made |-> TRUE, active |-> TRUE, timer |-> TRUE, age |-> 0] \in Record
  BY <1>1, Zenon DEF Record
<1>3. ball' \in [Ball -> Record]
  BY <1>1, <1>2, Zenon DEF NewBall, BallTypeOK, Record
<1>4. \A b \in Ball : b # <<s, n>> => ball'[b] = ball[b]
  BY Zenon DEF NewBall, BallTypeOK
<1>5. ball'[<<s, n>>].made /\ ball'[<<s, n>>].timer
  BY <1>1, Zenon DEF NewBall, BallTypeOK
<1>6. snowballs' \subseteq {b \in Ball : ball'[b].made}
  BY <1>1, <1>4, <1>5, Zenon DEF NewBall, BallTypeOK
<1>7. \A b \in Ball : ball'[b].active => ball'[b].timer /\ b \in snowballs'
  BY <1>4, <1>5, Zenon DEF NewBall, BallTypeOK
<1>8. snowballsById' \in [Shot -> 0 .. 2]
  BY <1>1, Zenon DEF NewBall, BallTypeOK
<1> QED  BY <1>3, <1>6, <1>7, <1>8

\* destroy keeps the types, and what flies after it flew before.
LEMMA DestroyType ==
    ASSUME BallTypeOK, NEW B \in SUBSET Ball, NEW timer \in BOOLEAN, destroy(B, timer)
    PROVE  /\ ball' \in [Ball -> Record]
           /\ \A b \in Ball : ball'[b].made = ball[b].made
           /\ \A b \in Ball : ball'[b].active =>
                  b \notin B /\ ball'[b].timer /\ ball[b].active /\ b \in snowballs
           /\ snowballsById' \in [Shot -> 0 .. 2]
<1>1. \A b \in Ball : ball[b] \in Record
  BY Zenon DEF BallTypeOK, Record
<1>2. ASSUME NEW b \in Ball
      PROVE  /\ ball'[b] \in Record /\ ball'[b].made = ball[b].made
             /\ b \in B => ball'[b].active = FALSE
             /\ b \notin B => ball'[b] = ball[b]
  <2>1. CASE b \in B
    <3>1. ball'[b] = [ball[b] EXCEPT !.active = FALSE, !.timer = @ /\ timer]
      BY <2>1, Zenon DEF destroy
    <3>2. (ball[b].timer /\ timer) \in BOOLEAN
      BY Zenon
    <3> QED  BY <1>1, <2>1, <3>1, <3>2, Zenon DEF Record
  <2>2. CASE b \notin B
    BY <1>1, <2>2, Zenon DEF destroy
  <2> QED  BY <2>1, <2>2, Zenon
<1>3. ball' \in [Ball -> Record]
  BY <1>2, Zenon DEF destroy
<1>4. ASSUME NEW b \in Ball, ball'[b].active
      PROVE  b \notin B /\ ball'[b].timer /\ ball[b].active /\ b \in snowballs
  <2>1. b \notin B /\ ball'[b] = ball[b]
    BY <1>2, <1>4, Zenon
  <2> QED  BY <1>4, <2>1 DEF BallTypeOK
<1>5. snowballsById' \in [Shot -> 0 .. 2]
  <2>1. \A s \in Shot : snowballsById[s] \in 0 .. 2 /\ 0 \in 0 .. 2
    BY DEF BallTypeOK
  <2>2. \A s \in Shot : snowballsById'[s] \in 0 .. 2
    BY <2>1, Zenon DEF destroy
  <2> QED  BY <2>2, Zenon DEF destroy
<1> QED  BY <1>2, <1>3, <1>4, <1>5, Zenon

----------------------------------------------------------------------------
\* The invariant holds when the page is loaded.
LEMMA BallInitInv == BallInit => BallInv
<1> SUFFICES ASSUME BallInit PROVE BallInv
  BY Zenon
<1>1. 0 \in 0 .. BallMs /\ snowballCooldown \in 0 .. snowballCooldown /\ 0 \in 0 .. 2
  BY BallAssumption
<1>2. NoBall \in Record /\ ~NoBall.active
  BY <1>1, Zenon DEF NoBall, Record
<1>3. BallTypeOK
  BY <1>1, <1>2, Zenon DEF BallInit, BallTypeOK, Record
<1>4. FliesRegistered
  BY <1>2 DEF BallInit, FliesRegistered, Ball
<1>5. ThrownRegistered
  BY Zenon DEF BallInit, ThrownRegistered
<1> QED  BY <1>3, <1>4, <1>5 DEF BallInv

\* throwSnowball keeps the invariant: the shot is new and so not registered.
LEMMA ThrowInv == ASSUME BallInv, NEW s \in Shot, throwSnowball(s) PROVE BallInv'
<1>1. snowballsById[s] = 0 /\ NewBall(s, 1) /\ 1 \in {1, 2}
  BY Zenon DEF BallInv, ThrownRegistered, throwSnowball
<1>2. PICK e \in {"coming", "lost"} : echo' = [echo EXCEPT ![s] = e]
  BY Zenon DEF throwSnowball
<1>3. BallTypeOK'
  <2>1. lastShot' \in 0 .. snowballCooldown
    BY BallAssumption DEF throwSnowball
  <2>2. echo' \in [Shot -> {"none", "coming", "lost", "done"}]
    BY <1>2, Zenon DEF BallInv, BallTypeOK
  <2> QED  BY <1>1, <2>1, <2>2, NewBallType DEF BallInv, BallTypeOK, Record
<1>4. FliesRegistered'
  BY <1>1, NewBallFlies, Zenon DEF BallInv
<1>5. ThrownRegistered'
  BY <1>1, <1>2, Zenon DEF BallInv, BallTypeOK, ThrownRegistered, NewBall
<1> QED  BY <1>3, <1>4, <1>5 DEF BallInv

\* The server's event keeps the invariant: a second ball is only made when
\* none is registered.
LEMMA EventInv == ASSUME BallInv, NEW s \in Shot, SnowballEvent(s) PROVE BallInv'
<1>1. /\ echo' = [echo EXCEPT ![s] = "done"] /\ lastShot' = lastShot
      /\ echo' \in [Shot -> {"none", "coming", "lost", "done"}]
  BY Zenon DEF BallInv, BallTypeOK, SnowballEvent
<1>2. CASE UNCHANGED <<ball, snowballs, snowballsById>>
  <2>1. BallTypeOK'
    BY <1>1, <1>2, Zenon DEF BallInv, BallTypeOK
  <2>2. FliesRegistered'
    BY <1>2, Zenon DEF BallInv, FliesRegistered
  <2>3. ThrownRegistered'
    BY <1>1, <1>2, Zenon DEF BallInv, BallTypeOK, ThrownRegistered
  <2> QED  BY <2>1, <2>2, <2>3 DEF BallInv
<1>3. CASE snowballsById[s] = 0 /\ NewBall(s, 2)
  <2>0. 2 \in {1, 2}
    BY Zenon
  <2>1. BallTypeOK'
    BY <1>1, <1>3, <2>0, NewBallType, Zenon DEF BallInv, BallTypeOK, Record
  <2>2. FliesRegistered'
    BY <1>3, <2>0, NewBallFlies, Zenon DEF BallInv
  <2>3. ThrownRegistered'
    BY <1>1, <1>3, Zenon DEF BallInv, BallTypeOK, ThrownRegistered, NewBall
  <2> QED  BY <2>1, <2>2, <2>3 DEF BallInv
<1> QED  BY <1>2, <1>3 DEF SnowballEvent

\* What a frame or a timer unregisters was thrown before.
LEMMA DestroyThrown ==
    ASSUME BallInv, NEW B, NEW timer, destroy(B, timer), echo' = echo
    PROVE  ThrownRegistered'
BY Zenon DEF BallInv, ThrownRegistered, destroy

\* A frame keeps the invariant: it unregisters what lands and unlists what
\* has ended.
LEMMA FrameInv == ASSUME BallInv, Frame PROVE BallInv'
<1>1. PICK landed \in SUBSET {b \in snowballs : ball[b].active} :
          /\ destroy(landed, TRUE)
          /\ snowballs' = {b \in snowballs : ball'[b].active}
  BY Zenon DEF Frame, update
<1>2. landed \in SUBSET Ball /\ TRUE \in BOOLEAN /\ BallTypeOK /\ FliesRegistered
  BY Zenon DEF BallInv, BallTypeOK
<1>3. echo' = echo /\ lastShot' = lastShot
  BY Zenon DEF Frame
<1>4. BallTypeOK'
  BY <1>1, <1>2, <1>3, DestroyType, Zenon DEF BallTypeOK, Record
<1> QED  BY <1>1, <1>2, <1>3, <1>4, DestroyFlies, DestroyThrown, Zenon DEF BallInv

\* A timer keeps the invariant, be its ball ended or not.
LEMMA TimerInv == ASSUME BallInv, NEW b \in Ball, BallTimer(b) PROVE BallInv'
<1>1. /\ {b} \in SUBSET Ball /\ FALSE \in BOOLEAN /\ BallTypeOK /\ FliesRegistered
      /\ destroy({b}, FALSE)
      /\ echo' = echo /\ lastShot' = lastShot /\ snowballs' = snowballs
  BY Zenon DEF BallInv, BallTimer
<1>2. BallTypeOK'
  BY <1>1, DestroyType, Zenon DEF BallTypeOK, Record
<1> QED  BY <1>1, <1>2, DestroyFlies, DestroyThrown, Zenon DEF BallInv

\* The passing of time keeps the invariant.
LEMMA TickInv == ASSUME BallInv, BallTick PROVE BallInv'
<1>1. /\ snowballs' = snowballs /\ snowballsById' = snowballsById /\ echo' = echo
  BY Zenon DEF BallTick
<1>2. ASSUME NEW b \in Ball
      PROVE  /\ ball'[b] \in Record /\ ball'[b].made = ball[b].made
             /\ ball'[b].active = ball[b].active /\ ball'[b].timer = ball[b].timer
  <2>1. ball[b] \in Record
    BY Zenon DEF BallInv, BallTypeOK, Record
  <2> DEFINE a == IF ball[b].timer THEN ball[b].age + 1 ELSE ball[b].age
  <2>2. ball'[b] = [ball[b] EXCEPT !.age = a]
    BY Zenon DEF BallTick
  <2>3. ball[b].age \in 0 .. BallMs /\ (ball[b].timer => ball[b].age < BallMs)
    BY <2>1, Zenon DEF Record, BallTick
  <2>4. a \in 0 .. BallMs
    BY <2>3, BallAssumption
  <2> QED  BY <2>1, <2>2, <2>4 DEF Record
<1>3. ball' \in [Ball -> Record]
  BY <1>2, Zenon DEF BallTick
<1>4. lastShot' \in 0 .. snowballCooldown
  BY BallAssumption DEF BallInv, BallTypeOK, BallTick
<1>5. BallTypeOK'
  BY <1>1, <1>2, <1>3, <1>4, Zenon DEF BallInv, BallTypeOK, Record
<1>6. FliesRegistered' /\ ThrownRegistered'
  BY <1>1, <1>2, Zenon DEF BallInv, FliesRegistered, ThrownRegistered
<1> QED  BY <1>5, <1>6 DEF BallInv

\* Every step keeps the invariant.
LEMMA BallStep == BallInv /\ [BallNext]_ballvars => BallInv'
<1> SUFFICES ASSUME BallInv, [BallNext]_ballvars PROVE BallInv'
  BY Zenon
<1>1. ASSUME NEW s \in Shot, RivalThrows(s) PROVE BallInv'
  BY <1>1, Zenon DEF RivalThrows, BallInv, BallTypeOK, FliesRegistered,
     ThrownRegistered
<1>2. CASE UNCHANGED ballvars
  BY <1>2, Zenon DEF ballvars, BallInv, BallTypeOK, FliesRegistered,
     ThrownRegistered
<1> QED
  BY <1>1, <1>2, ThrowInv, EventInv, FrameInv, TimerInv, TickInv, Zenon
     DEF BallNext

\* A ball that flies is on the list and has its timer running, so that it
\* ends whether or not it lands (the constructor of Snowball, update).
THEOREM BallTypes == BallSpec => []BallTypeOK
<1>1. BallInv => BallTypeOK  BY DEF BallInv
<1> QED  BY <1>1, BallInitInv, BallStep, PTL DEF BallSpec

\* However the server's event of a shot, the landing of its ball and the
\* ball's timer are ordered, a ball flies exactly while its shot is
\* registered with it, and so no shot flies twice (destroy, applyEvent).
THEOREM FliesRegisteredHolds == BallSpec => []FliesRegistered
<1>1. BallInv => FliesRegistered  BY DEF BallInv
<1> QED  BY <1>1, BallInitInv, BallStep, PTL DEF BallSpec

----------------------------------------------------------------------------
(* The chat.                                                               *)

\* One timer runs for the bubble, for what is left of its time.
BubbleTimed ==
    /\ bubble \in BOOLEAN
    /\ spoken \in 0 .. BubbleMs
    /\ spoken < BubbleMs => bubbleIn = {BubbleMs - spoken}
    /\ spoken = BubbleMs => bubbleIn \subseteq {0}
    /\ bubble <=> bubbleIn # {}

\* A line is at least as old as the ones after it, so the lines whose timers
\* have run out are the first ones.
LinesAge ==
    /\ lines \in Seq(0 .. LineMs + 1)
    /\ \A i, j \in 1 .. Len(lines) : i < j => lines[i] >= lines[j]

\* The timers of the first n lines have run out, and no others.
Expired(n) ==
    /\ n \in 0 .. Len(lines)
    /\ \A i \in 1 .. Len(lines) : lines[i] <= LineMs <=> i > n

ChatInv == BubbleTimed /\ LinesAge /\ LogRecent /\ \E n \in Nat : Expired(n)

(* An interval has its lower end as its minimum and as many elements as    *)
(* its ends say.                                                           *)
LEMMA IntervalFacts ==
    ASSUME NEW a \in Int, NEW b \in Int, a <= b
    PROVE  Min(a .. b) = a /\ Cardinality(a .. b) = b - a + 1
<1>1. a \in a .. b /\ \A y \in a .. b : a <= y
  OBVIOUS
<1>2. Min(a .. b) \in a .. b /\ \A y \in a .. b : Min(a .. b) <= y
  BY <1>1, Zenon DEF Min
<1>3. Min(a .. b) = a
  BY <1>1, <1>2
<1>4. Cardinality(a .. b) = b - a + 1
  BY FS_Interval
<1> QED
  BY <1>3, <1>4, Zenon

(* A function on 1..n is a sequence of length n.                           *)
LEMMA FunctionIsSeq ==
    ASSUME NEW S, NEW n \in Nat, NEW s \in [1 .. n -> S]
    PROVE  s \in Seq(S) /\ Len(s) = n /\ DOMAIN s = 1 .. n
  OBVIOUS

(* The times and the length of the log are positive.                       *)
LEMMA ChatConstants ==
    /\ BubbleMs \in Nat /\ BubbleMs > 0
    /\ LineMs \in Nat /\ LineMs > 0
    /\ MaxLog \in Nat /\ MaxLog > 0
  BY ChatAssumption

(* In an empty chat it holds.                                              *)
LEMMA ChatStart == ChatInit => ChatInv
<1> SUFFICES ASSUME ChatInit PROVE ChatInv
  BY Zenon
<1> USE ChatConstants DEF ChatInit
<1>1. BubbleTimed
  <2>1. bubble \in BOOLEAN /\ (bubble <=> bubbleIn # {}) /\ bubbleIn \subseteq {0}
    BY Zenon
  <2>2. spoken \in 0 .. BubbleMs /\ ~(spoken < BubbleMs)
    OBVIOUS
  <2> QED
    BY <2>1, <2>2, Zenon DEF BubbleTimed
<1>2. lines \in Seq(0 .. LineMs + 1) /\ Len(lines) = 0
  OBVIOUS
<1>3. LinesAge /\ LogRecent /\ Expired(0)
  BY <1>2 DEF LinesAge, LogRecent, Expired
<1> QED
  BY <1>1, <1>3, Zenon DEF ChatInv

(* showChat starts the time of the bubble anew.                            *)
LEMMA ShowChatStep == showChat => BubbleTimed'
  BY ChatConstants DEF showChat, BubbleTimed

(* appendChatLog pushes the oldest line out exactly when the log is full.  *)
LEMMA AppendStep ==
    ASSUME LinesAge, LogRecent, NEW n \in Nat, Expired(n), appendChatLog
    PROVE  LinesAge' /\ LogRecent' /\ Expired(n)'
<1> USE ChatConstants
<1> DEFINE L == Len(lines)
           m == IF n > L - MaxLog THEN n ELSE L - MaxLog
           all == log \cup {L + 1}
<1>1. lines \in Seq(0 .. LineMs + 1) /\ L \in Nat
  BY DEF LinesAge
<1>2. /\ lines' \in Seq(0 .. LineMs + 1)
      /\ Len(lines') = L + 1
      /\ \A i \in 1 .. L : lines'[i] = lines[i]
      /\ lines'[L + 1] = 0
  BY <1>1 DEF appendChatLog
<1>3. \A i \in 1 .. L : lines[i] \in 0 .. LineMs + 1
  BY <1>1
<1>4. log' = IF Cardinality(all) > MaxLog THEN all \ {Min(all)} ELSE all
  BY Zenon DEF appendChatLog
<1>5. \A i \in 1 .. L : lines[i] <= LineMs <=> i > n
  BY Zenon DEF Expired
<1>6. log = {i \in 1 .. L : i > L - MaxLog /\ lines[i] <= LineMs}
  BY Zenon DEF LogRecent
<1>7. n \in 0 .. L /\ \A i, j \in 1 .. L : i < j => lines[i] >= lines[j]
  BY Zenon DEF Expired, LinesAge
<1> HIDE DEF L
<1>8. LinesAge'
  <2> SUFFICES ASSUME NEW i \in 1 .. L + 1, NEW j \in 1 .. L + 1, i < j
               PROVE  lines'[i] >= lines'[j]
    BY <1>2, Zenon DEF LinesAge
  <2>1. i \in 1 .. L
    BY <1>1
  <2>2. CASE j = L + 1
    BY <2>1, <2>2, <1>2, <1>3
  <2>3. CASE j # L + 1
    <3>1. j \in 1 .. L
      BY <1>1, <2>3
    <3> QED
      BY <2>1, <3>1, <1>2, <1>7, Zenon
  <2> QED
    BY <2>2, <2>3, Zenon
<1>9. \A i \in 1 .. L + 1 : lines'[i] <= LineMs <=> i > n
  <2> SUFFICES ASSUME NEW i \in 1 .. L + 1
               PROVE  lines'[i] <= LineMs <=> i > n
    BY Zenon
  <2>1. CASE i = L + 1
    BY <1>1, <1>2, <1>7, <2>1
  <2>2. CASE i # L + 1
    <3>1. i \in 1 .. L
      BY <1>1, <2>2
    <3> QED
      BY <3>1, <1>2, <1>5, Zenon
  <2> QED
    BY <2>1, <2>2, Zenon
<1>10. Expired(n)'
  BY <1>1, <1>2, <1>7, <1>9 DEF Expired
<1>11. m \in Int /\ m <= L /\ n <= m /\ L - MaxLog <= m /\ m \in {n, L - MaxLog}
  BY <1>1, <1>7
<1>12. log = m + 1 .. L
  BY <1>1, <1>5, <1>6, <1>7
<1> HIDE DEF m
<1>13. all = m + 1 .. L + 1
  BY <1>1, <1>11, <1>12
<1>14. Min(all) = m + 1 /\ Cardinality(all) = L + 1 - m
  <2>1. m + 1 \in Int /\ L + 1 \in Int /\ m + 1 <= L + 1
    BY <1>1, <1>11
  <2>2. Min(all) = m + 1 /\ Cardinality(all) = (L + 1) - (m + 1) + 1
    BY <1>13, <2>1, IntervalFacts, Zenon
  <2> QED
    BY <1>1, <1>11, <2>2
<1> HIDE DEF all
<1>15. log' = {i \in 1 .. L + 1 : i > L + 1 - MaxLog /\ i > n}
  <2>1. CASE L + 1 - m > MaxLog
    <3>1. log' = (m + 1 .. L + 1) \ {m + 1}
      BY <2>1, <1>4, <1>13, <1>14, Zenon
    <3> QED
      <4>1. log' = m + 2 .. L + 1
        BY <3>1, <1>1, <1>11
      <4>2. m + 2 > n /\ m + 2 > L + 1 - MaxLog /\ m + 2 >= 1
        BY <1>1, <1>7, <1>11
      <4>3. m + 1 <= L + 1 - MaxLog
        BY <2>1, <1>1, <1>11
      <4> QED
        BY <4>1, <4>2, <4>3, <1>1, <1>11
  <2>2. CASE ~(L + 1 - m > MaxLog)
    <3>1. log' = m + 1 .. L + 1
      BY <2>2, <1>4, <1>13, <1>14, Zenon
    <3>2. m = n
      BY <2>2, <1>1, <1>11
    <3> QED
      BY <2>2, <3>1, <3>2, <1>1, <1>7, <1>11
  <2> QED
    BY <2>1, <2>2, Zenon
<1>16. LogRecent'
  <2>1. \A i : i \in log' <=> i \in 1 .. L + 1 /\ i > L + 1 - MaxLog /\ lines'[i] <= LineMs
    BY <1>9, <1>15, Zenon
  <2>2. Len(lines') = L + 1
    BY <1>2, Zenon
  <2>3. \A i : i \in log' <=> /\ i \in 1 .. Len(lines')
                             /\ i > Len(lines') - MaxLog /\ lines'[i] <= LineMs
    BY <1>1, <2>1, <2>2
  <2> QED
    BY <2>3, Zenon DEF LogRecent
<1> QED
  BY <1>8, <1>10, <1>16, Zenon

(* Time and the timers of the lines keep the order of the lines.           *)
LEMMA LinesStep ==
    ASSUME LinesAge, LogRecent, NEW n \in Nat, Expired(n),
           ChatTick \/ \E i \in DOMAIN lines : LineTimer(i)
    PROVE  LinesAge' /\ LogRecent' /\ \E k \in Nat : Expired(k)'
<1> USE ChatConstants
<1> DEFINE L == Len(lines)
<1>1. lines \in Seq(0 .. LineMs + 1) /\ L \in Nat /\ lines \in [1 .. L -> 0 .. LineMs + 1]
      /\ DOMAIN lines = 1 .. L
  BY DEF LinesAge
<1>2. \A i \in 1 .. L : lines[i] \in 0 .. LineMs + 1 /\ (lines[i] <= LineMs <=> i > n)
  BY <1>1, Zenon DEF Expired
<1>3. log = {i \in 1 .. L : i > L - MaxLog /\ lines[i] <= LineMs}
  BY Zenon DEF LogRecent
<1>4. n \in 0 .. L /\ \A i, j \in 1 .. L : i < j => lines[i] >= lines[j]
  BY Zenon DEF Expired, LinesAge
<1> HIDE DEF L
<1>5. CASE ChatTick
  <2>1. lines' = [i \in 1 .. L |-> IF lines[i] < LineMs THEN lines[i] + 1 ELSE lines[i]]
        /\ log' = log
    BY <1>1, <1>5, Zenon DEF ChatTick
  <2>2. lines' \in [1 .. L -> 0 .. LineMs + 1]
    BY <1>2, <2>1
  <2>3. lines' \in Seq(0 .. LineMs + 1) /\ Len(lines') = L /\ DOMAIN lines' = 1 .. L
    BY <1>1, <2>2, FunctionIsSeq, Zenon
  <2>4. \A i \in 1 .. L : lines'[i] <= LineMs <=> i > n
    BY <1>2, <2>1
  <2>5. \A i, j \in 1 .. L : i < j => lines'[i] >= lines'[j]
    BY <1>2, <1>4, <2>1
  <2>6. LinesAge' /\ Expired(n)'
    BY <1>4, <2>3, <2>4, <2>5, Zenon DEF LinesAge, Expired
  <2>7. LogRecent'
    BY <1>2, <1>3, <2>1, <2>3, <2>4, Zenon DEF LogRecent
  <2> QED
    BY <2>6, <2>7, Zenon
<1>6. ASSUME NEW i \in 1 .. L, LineTimer(i)
      PROVE  LinesAge' /\ LogRecent' /\ Expired(n + 1)'
  <2>1. /\ lines[i] = LineMs /\ log' = log \ {i}
        /\ lines' = [lines EXCEPT ![i] = LineMs + 1]
        /\ \A j \in 1 .. i - 1 : lines[j] # LineMs
    BY <1>6, Zenon DEF LineTimer
  <2>2. lines' \in [1 .. L -> 0 .. LineMs + 1]
    BY <1>1, <2>1
  <2>3. lines' \in Seq(0 .. LineMs + 1) /\ Len(lines') = L /\ DOMAIN lines' = 1 .. L
    BY <1>1, <2>2, FunctionIsSeq, Zenon
  <2>4. \A j \in 1 .. L : lines'[j] = IF j = i THEN LineMs + 1 ELSE lines[j]
    BY <1>1, <2>1, Zenon
  <2>5. i = n + 1
    <3> SUFFICES ASSUME i # n + 1 PROVE FALSE
      BY Zenon
    <3>1. i > n
      BY <1>2, <2>1
    <3>2. n + 1 \in 1 .. L /\ n + 1 \in 1 .. i - 1 /\ n + 1 < i /\ n + 1 > n
      BY <1>1, <3>1
    <3>3. lines[n + 1] <= LineMs /\ lines[n + 1] \in 0 .. LineMs + 1
      BY <1>2, <3>2, Zenon
    <3>4. lines[n + 1] >= LineMs
      BY <1>4, <2>1, <3>2, Zenon
    <3>5. lines[n + 1] # LineMs
      BY <2>1, <3>2, Zenon
    <3> QED
      BY <3>3, <3>4, <3>5
  <2>6. \A j \in 1 .. L : lines'[j] <= LineMs <=> j > n + 1
    BY <1>2, <2>4, <2>5
  <2>7. \A j, k \in 1 .. L : j < k => lines'[j] >= lines'[k]
    <3> SUFFICES ASSUME NEW j \in 1 .. L, NEW k \in 1 .. L, j < k
                 PROVE  lines'[j] >= lines'[k]
      BY Zenon
    <3>1. lines[j] >= lines[k] /\ lines[j] \in 0 .. LineMs + 1 /\ lines[k] \in 0 .. LineMs + 1
      BY <1>2, <1>4, Zenon
    <3>2. k = i => lines[j] = LineMs + 1
      BY <1>2, <2>5, <3>1
    <3> QED
      BY <2>4, <3>1, <3>2
  <2>8. LinesAge' /\ Expired(n + 1)'
    BY <1>1, <1>4, <2>3, <2>5, <2>6, <2>7 DEF LinesAge, Expired
  <2>9. LogRecent'
    <3>1. log' = {j \in 1 .. L : j > L - MaxLog /\ lines'[j] <= LineMs}
      BY <1>3, <2>1, <2>4
    <3> QED
      BY <2>3, <3>1, Zenon DEF LogRecent
  <2> QED
    BY <2>8, <2>9, Zenon
<1> QED
  BY <1>1, <1>5, <1>6

(* Every line, timer and tick keeps the invariant of the chat.             *)
LEMMA ChatStep == ChatInv /\ [ChatNext]_chatvars => ChatInv'
<1> SUFFICES ASSUME ChatInv, [ChatNext]_chatvars
             PROVE  ChatInv'
  BY Zenon
<1> USE ChatConstants
<1>1. PICK n \in Nat : Expired(n)
  BY Zenon DEF ChatInv
<1>2. BubbleTimed /\ LinesAge /\ LogRecent
  BY Zenon DEF ChatInv
<1>3. CASE Say
  <2>1. LinesAge' /\ LogRecent' /\ Expired(n)'
    BY <1>1, <1>2, <1>3, Zenon DEF Say, LinesAge, LogRecent, Expired
  <2> QED
    BY <1>3, <2>1, ShowChatStep, Zenon DEF Say, ChatInv
<1>4. CASE ChatEvent
  BY <1>1, <1>2, <1>4, ShowChatStep, AppendStep, Zenon DEF ChatEvent, ChatInv
<1>5. CASE OtherLine
  <2>1. BubbleTimed'
    BY <1>2, <1>5, Zenon DEF OtherLine, BubbleTimed
  <2> QED
    BY <1>1, <1>2, <1>5, <2>1, AppendStep, Zenon DEF OtherLine, ChatInv
<1>6. CASE BubbleTimer
  <2>1. LinesAge' /\ LogRecent' /\ Expired(n)'
    BY <1>1, <1>2, <1>6, Zenon DEF BubbleTimer, LinesAge, LogRecent, Expired
  <2>2. spoken = BubbleMs /\ bubbleIn' = {} /\ bubble' = FALSE /\ spoken' = spoken
    BY <1>2, <1>6 DEF BubbleTimer, BubbleTimed
  <2>3. BubbleTimed'
    <3>1. bubble' \in BOOLEAN /\ (bubble' <=> bubbleIn' # {}) /\ bubbleIn' \subseteq {0}
      BY <2>2, Zenon
    <3>2. spoken' \in 0 .. BubbleMs /\ ~(spoken' < BubbleMs)
      BY <2>2
    <3> QED
      BY <3>1, <3>2, Zenon DEF BubbleTimed
  <2> QED
    BY <2>1, <2>3, Zenon DEF ChatInv
<1>7. CASE ChatTick
  <2>1. BubbleTimed'
    BY <1>2, <1>7 DEF ChatTick, BubbleTimed
  <2> QED
    BY <1>1, <1>2, <1>7, <2>1, LinesStep, Zenon DEF ChatInv
<1>8. ASSUME NEW i \in DOMAIN lines, LineTimer(i)
      PROVE  ChatInv'
  <2>1. BubbleTimed'
    BY <1>2, <1>8, Zenon DEF LineTimer, BubbleTimed
  <2> QED
    BY <1>1, <1>2, <1>8, <2>1, LinesStep, Zenon DEF ChatInv
<1>9. CASE UNCHANGED chatvars
  <2>1. BubbleTimed' /\ LinesAge' /\ LogRecent' /\ Expired(n)'
    BY <1>1, <1>2, <1>9, Zenon DEF chatvars, BubbleTimed, LinesAge,
       LogRecent, Expired
  <2> QED
    BY <2>1, Zenon DEF ChatInv
<1> QED
  BY <1>3, <1>4, <1>5, <1>6, <1>7, <1>8, <1>9, Zenon DEF ChatNext

(* What the invariant says of bubble and log.                              *)
LEMMA ChatPromises == ChatInv => ChatTypeOK /\ ChatTimely
<1> SUFFICES ASSUME ChatInv
             PROVE  ChatTypeOK /\ ChatTimely
  BY Zenon
<1> USE ChatConstants
<1>1. ChatTypeOK
  BY DEF ChatInv, BubbleTimed, LinesAge, LogRecent, ChatTypeOK
<1>2. BubbleStays
  BY DEF ChatInv, BubbleTimed, BubbleStays
<1> QED
  BY <1>1, <1>2, Zenon DEF ChatInv, ChatTimely

(* No timer takes away a bubble or a line that came after the one it was   *)
(* set for, for every length of the log and every number of lines.         *)
THEOREM ChatIsTimely == ChatSpec => []ChatTimely
<1> QED
  BY ChatStart, ChatStep, ChatPromises, PTL DEF ChatSpec

----------------------------------------------------------------------------
(* The controls.                                                           *)

\* Until checkAuthStatus has ended there is no button, and what it has learnt
\* of the server stays.
CheckOrder ==
    /\ check \in {"config", "me"} => screen = "checking"
    /\ check \in {"me", "done", "noUser"} => oauthEnabled = OAuth

ControlsInv == ControlsTypeOK /\ CheckOrder /\ InputLetGo

(* A page that has just been loaded satisfies it.                          *)
LEMMA ControlsStart == ControlsInit => ControlsInv
  BY ControlsAssumption, Zenon
     DEF ControlsInit, ControlsInv, ControlsTypeOK, CheckOrder, InputLetGo,
         StopsWithKey, PointerFreeForChat

(* Every request, key, click and whim of the browser keeps it.             *)
LEMMA ControlsStep == ControlsInv /\ [ControlsNext]_uvars => ControlsInv'
<1> SUFFICES ASSUME ControlsInv, [ControlsNext]_uvars
             PROVE  ControlsInv'
  BY Zenon
<1> USE ControlsAssumption
    DEF ControlsInv, ControlsTypeOK, CheckOrder, InputLetGo, StopsWithKey,
        PointerFreeForChat, loginvars, keyvars
<1>1. CASE ConfigReply
  BY <1>1, Zenon DEF ConfigReply
<1>2. CASE MeReply
  BY <1>2 DEF MeReply, showLoginUI
<1>3. CASE CheckFails
  BY <1>3 DEF CheckFails, showLoginUI
<1>4. CASE startGame
  BY <1>4, Zenon DEF startGame
<1>5. CASE PlayerComes
  BY <1>5, Zenon DEF PlayerComes
<1>6. CASE PlayerGoes
  BY <1>6, Zenon DEF PlayerGoes
<1>7. ASSUME NEW k \in Key, KeyDown(k)
      PROVE  ControlsInv'
  BY <1>7 DEF KeyDown
<1>8. ASSUME NEW k \in Key, KeyUp(k)
      PROVE  ControlsInv'
  BY <1>8 DEF KeyUp
<1>9. CASE Jump
  BY <1>9 DEF Jump
<1>10. CASE FocusChat
  BY <1>10, Zenon DEF FocusChat
<1>11. CASE ToggleUI
  BY <1>11 DEF ToggleUI
<1>12. CASE LeaveChat
  BY <1>12, Zenon DEF LeaveChat
<1>13. CASE Click
  BY <1>13, Zenon DEF Click
<1>14. CASE LockGranted
  BY <1>14, Zenon DEF LockGranted
<1>15. CASE LockGone
  BY <1>15, Zenon DEF LockGone
<1>16. CASE Background
  BY <1>16, Zenon DEF Background
<1>17. CASE Reload
  BY <1>17, Zenon DEF Reload
<1>18. CASE UNCHANGED uvars
  BY <1>18 DEF uvars
<1> QED
  BY <1>1, <1>2, <1>3, <1>4, <1>5, <1>6, <1>7, <1>8, <1>9, <1>10, <1>11,
     <1>12, <1>13, <1>14, <1>15, <1>16, <1>17, <1>18, Zenon DEF ControlsNext

(* The page lets go of keys and pointer, whatever the order of key events, *)
(* focus changes, grants of the lock and switches of the window.           *)
THEOREM InputIsLetGo == ControlsSpec => []InputLetGo
<1>1. ControlsInv => InputLetGo
  BY Zenon DEF ControlsInv
<1> QED
  BY <1>1, ControlsStart, ControlsStep, PTL DEF ControlsSpec
=============================================================================
