-------------------------------- MODULE Page --------------------------------
(***************************************************************************)
(* The parts of a page, and of the server's side of its connection, that   *)
(* share no state: the login, the pace of its states, its own health, its  *)
(* snowballs, its chat, its controls, its landscape and the names on it.   *)
(* None of them reads what another writes, so a property of one holds of   *)
(* the whole if it holds of every behaviour of that part; a behaviour of   *)
(* this specification runs one part, chosen at the start.                  *)
(***************************************************************************)
EXTENDS Login, StatePace, Health, Balls, Chat, Controls, Scene,
        Scatter, Names

VARIABLE part

Part == {"login", "pace", "health", "balls", "chat", "controls",
         "scene", "scatter", "names"}

vars == <<part, lvars, pvars, hvars, ballvars, chatvars, uvars, evars,
          scvars, nvars>>

\* Only the names start in more than one way; the others rest meanwhile.
Init ==
    /\ part \in Part
    /\ LoginInit /\ PaceInit /\ HealthInit /\ BallInit
    /\ ChatInit /\ ControlsInit /\ SceneInit /\ ScatterInit /\ NamesInit
    /\ part # "names" => who = "guest" /\ given = <<97>>

\* A step of the part p leaves the variables of the others alone.
Runs(p, step) == part = p /\ step /\ part' = part

Next ==
    \/ /\ Runs("login", LoginNext)
       /\ UNCHANGED <<pvars, hvars, ballvars, chatvars, uvars, evars, scvars, nvars>>
    \/ /\ Runs("pace", PaceNext)
       /\ UNCHANGED <<lvars, hvars, ballvars, chatvars, uvars, evars, scvars, nvars>>
    \/ /\ Runs("health", HealthNext)
       /\ UNCHANGED <<lvars, pvars, ballvars, chatvars, uvars, evars, scvars, nvars>>
    \/ /\ Runs("balls", BallNext)
       /\ UNCHANGED <<lvars, pvars, hvars, chatvars, uvars, evars, scvars, nvars>>
    \/ /\ Runs("chat", ChatNext)
       /\ UNCHANGED <<lvars, pvars, hvars, ballvars, uvars, evars, scvars, nvars>>
    \/ /\ Runs("controls", ControlsNext)
       /\ UNCHANGED <<lvars, pvars, hvars, ballvars, chatvars, evars, scvars, nvars>>
    \/ /\ Runs("scene", SceneNext)
       /\ UNCHANGED <<lvars, pvars, hvars, ballvars, chatvars, uvars, scvars, nvars>>
    \/ /\ Runs("scatter", ScatterNext)
       /\ UNCHANGED <<lvars, pvars, hvars, ballvars, chatvars, uvars, evars, nvars>>
    \/ /\ Runs("names", NamesNext)
       /\ UNCHANGED <<lvars, pvars, hvars, ballvars, chatvars, uvars, evars, scvars>>

\* Frames, time and messages go on; the player need not move.
PaceFairness ==
    /\ WF_pvars(part = "pace" /\ maybeSendLocalState)
    /\ WF_pvars(part = "pace" /\ PaceTick)
    /\ WF_pvars(part = "pace" /\ \E i \in DOMAIN onWay : PaceHandle(i))

\* The page keeps sending its state and pings, the snapshot timer keeps
\* firing, the page connects again, and what arrives is applied.
HealthFairness ==
    /\ WF_hvars(part = "health" /\ \E m \in toPage : m.t = "snapshot" /\ Apply(m))
    /\ WF_hvars(part = "health" /\ \E m \in toPage : m.t # "snapshot" /\ Apply(m))
    /\ WF_hvars(part = "health" /\ Join)
    /\ WF_hvars(part = "health" /\ StateArrives)
    /\ WF_hvars(part = "health" /\ Ping)
    /\ WF_hvars(part = "health" /\ Snapshot)

Spec == Init /\ [][Next]_vars /\ PaceFairness /\ HealthFairness

----------------------------------------------------------------------------
\* Type invariant of the parts; those of Login, Balls and Controls say a
\* little more than the types.
PageTypeOK ==
    /\ LoginTypeOK /\ PaceTypeOK /\ HealthTypeOK /\ BallTypeOK
    /\ ChatTypeOK /\ ControlsTypeOK /\ SceneTypeOK
=============================================================================
