------------------------------- MODULE Scene --------------------------------
(***************************************************************************)
(* The landscape of the pages.  A server draws WORLD_SEED when it starts   *)
(* and sends it with every welcome; a page builds its landscape from the   *)
(* first seed it hears (ensureEnvironment), loads the models it places in  *)
(* it one by one, and keeps both for as long as it is open.  The height    *)
(* players walk and balls land at is computed from the latest seed.        *)
(***************************************************************************)
EXTENDS Integers

CONSTANTS
    Page,
    Thing,          \* the models placed in the landscape
    MaxRestarts     \* bound: restarts of the server

ASSUME SceneAssumption == MaxRestarts \in Nat

VARIABLES
    seed,       \* WORLD_SEED of the running server, one number for each start
    greeting,   \* of each page, the seed of a welcome on its way, or 0
    view,       \* of each page, what it holds
    kept        \* history: pages built before the latest restart

evars == <<seed, greeting, view, kept>>

\* worldSeed, the seed of the ground (0 before environmentReady), the models
\* being loaded, and how often each is among STATIC_OBSTACLES.
Empty == [worldSeed |-> 0, ground |-> 0, loading |-> {}, boxes |-> [t \in Thing |-> 0]]

SceneInit ==
    /\ seed = 1
    /\ greeting = [p \in Page |-> 0]
    /\ view = [p \in Page |-> Empty]
    /\ kept = {}

\* The server crashes and starts again; welcomes may be lost with it.
Restart ==
    /\ seed <= MaxRestarts
    /\ seed' = seed + 1
    /\ \E lost \in SUBSET Page :
           greeting' = [p \in Page |-> IF p \in lost THEN 0 ELSE greeting[p]]
    /\ kept' = Page
    /\ UNCHANGED view

\* A page connects, or connects again.
Hello(p) ==
    /\ greeting[p] = 0
    /\ greeting' = [greeting EXCEPT ![p] = seed]
    /\ UNCHANGED <<seed, view, kept>>

\* createEnvironment: the ground, and the loads scatterKenneyModels starts.
createEnvironment(v) == [v EXCEPT !.ground = v.worldSeed, !.loading = Thing]

ensureEnvironment(v) == IF v.ground # 0 THEN v ELSE createEnvironment(v)

\* Mutant: the landscape is built before the seed is taken over.
BuildThenSeed(p) ==
    /\ greeting[p] # 0
    /\ greeting' = [greeting EXCEPT ![p] = 0]
    /\ view' = [view EXCEPT ![p] =
           [ensureEnvironment(@) EXCEPT !.worldSeed = greeting[p]]]
    /\ kept' = IF view[p].ground = 0 /\ greeting[p] = seed THEN kept \ {p} ELSE kept
    /\ UNCHANGED seed

\* The page handles a welcome.
Welcome(p) ==
    /\ greeting[p] # 0
    /\ greeting' = [greeting EXCEPT ![p] = 0]
    /\ view' = [view EXCEPT ![p] =
           ensureEnvironment([@ EXCEPT !.worldSeed = greeting[p]])]
    /\ kept' = IF view[p].ground = 0 /\ greeting[p] = seed THEN kept \ {p} ELSE kept
    /\ UNCHANGED seed

\* placeKenneyModel: the model has been loaded, or could not be.
Loaded(p, t) ==
    /\ t \in view[p].loading
    /\ \E ok \in BOOLEAN :
           view' = [view EXCEPT ![p].loading = @ \ {t},
                                ![p].boxes[t] = IF ok THEN @ + 1 ELSE @]
    /\ UNCHANGED <<seed, greeting, kept>>

SceneReload(p) ==
    /\ view[p].ground # 0
    /\ view' = [view EXCEPT ![p] = Empty]
    /\ greeting' = [greeting EXCEPT ![p] = 0]
    /\ UNCHANGED <<seed, kept>>

SceneNext ==
    \/ Restart
    \/ \E p \in Page :
           \/ Hello(p) \/ Welcome(p) \/ SceneReload(p)
           \/ \E t \in Thing : Loaded(p, t)

SceneSpec == SceneInit /\ [][SceneNext]_evars

----------------------------------------------------------------------------
\* Type invariant: nothing is loaded before there is a ground to place it on.
SceneTypeOK ==
    /\ seed \in 1 .. MaxRestarts + 1
    /\ greeting \in [Page -> 0 .. MaxRestarts + 1]
    /\ view \in [Page -> [worldSeed : 0 .. MaxRestarts + 1, ground : 0 .. MaxRestarts + 1,
                          loading : SUBSET Thing, boxes : [Thing -> 0 .. 1]]]
    /\ kept \subseteq Page
    /\ \A p \in Page : view[p].ground = 0 => view[p].loading = {}

\* All pages have the same ground and walk on the ground they see, with one
\* exception: a page that was open when the server started again takes over
\* the new seed for its heights only (ensureEnvironment; the comment at
\* config.ts:38 wants the terrain to be the same on every page).
SameGround ==
    \A p \in Page : view[p].ground # 0 /\ p \notin kept =>
        view[p].ground = seed /\ view[p].worldSeed = seed

\* No obstacle stands twice in one place: however often a page connects
\* again, and however late a model is loaded, each is added once.
ObstaclesOnce ==
    \A p \in Page, t \in Thing :
        view[p].boxes[t] + (IF t \in view[p].loading THEN 1 ELSE 0) <= 1

\* A page has one landscape, that of its server, over restarts,
\* reconnections and late loads (ensureEnvironment).
OneLandscape == SameGround /\ ObstaclesOnce
=============================================================================
