----------------------------- MODULE PageProofs -----------------------------
(***************************************************************************)
(* The parts of a page together: the invariants of SessionProofs and       *)
(* ScreenProofs give the types of the whole, and with NamesProofs what its *)
(* parts promise, for all values of the constants.                         *)
(***************************************************************************)
EXTENDS Page, SessionProofs, ScreenProofs, NamesProofs, TLAPS

\* A part that another one runs rests.
PageInv ==
    /\ LoginInv /\ PaceInv /\ HealthInv /\ BallInv
    /\ ChatInv /\ ControlsInv /\ SceneInv

(* A step of the page is a step of each part or leaves it alone.           *)
LEMMA PartSteps ==
    [Next]_vars => /\ [LoginNext]_lvars /\ [PaceNext]_pvars /\ [HealthNext]_hvars
                   /\ [BallNext]_ballvars /\ [ChatNext]_chatvars
                   /\ [ControlsNext]_uvars /\ [SceneNext]_evars
                   /\ [ScatterNext]_scvars /\ [NamesNext]_nvars
  BY Zenon DEF Next, vars, Runs

(* Whichever part a page runs, all of them keep their types, and with them *)
(* what these say besides: no more states are on their way than the delay  *)
(* explains, no stamp lies in the future, one timer runs for the bubble.   *)
THEOREM PageTypes == Spec => []PageTypeOK
<1>1. Init => PageInv
  BY LoginInitInv, PaceStart, HealthStart, BallInitInv, ChatStart,
     ControlsStart,
     SceneInitInv, Zenon DEF Init, PageInv
<1>2. PageInv /\ [Next]_vars => PageInv'
  <2> SUFFICES ASSUME PageInv, [Next]_vars PROVE PageInv'
    OBVIOUS
  <2>1. LoginInv' /\ PaceInv' /\ HealthInv'
    BY PartSteps, LoginStep, PaceStep, HealthStep, Zenon DEF PageInv
  <2>2. BallInv' /\ ChatInv' /\ ControlsInv' /\ SceneInv'
    BY PartSteps, BallStep, ChatStep, ControlsStep, SceneStep, Zenon
       DEF PageInv
  <2> QED
    BY <2>1, <2>2, Zenon DEF PageInv
<1>3. PageInv => PageTypeOK
  <2>1. SceneInv => SceneTypeOK
    BY DEF SceneInv, SceneTypeOK, NothingYet, Numbers, View
  <2> QED
    BY <2>1, PacePromises, HealthPromises, ChatPromises, Zenon
       DEF PageInv, PageTypeOK, LoginInv, BallInv, ControlsInv
<1> QED
  BY <1>1, <1>2, <1>3, PTL DEF Spec

(* Seen through the variables of one part, a behaviour of a page is one of *)
(* that part alone: nothing the rest of the page does disturbs it.         *)
LEMMA PageProjects ==
    Spec => /\ LoginSpec /\ PaceSpec /\ HealthSpec /\ BallSpec
            /\ ChatSpec /\ ControlsSpec /\ SceneSpec /\ ScatterSpec
            /\ NamesSpec
<1>1. Init => /\ LoginInit /\ PaceInit /\ HealthInit /\ BallInit
              /\ ChatInit /\ ControlsInit /\ SceneInit /\ ScatterInit
              /\ NamesInit
  BY Zenon DEF Init
<1> QED
  BY <1>1, PartSteps, PTL
     DEF Spec, LoginSpec, PaceSpec, HealthSpec, BallSpec, ChatSpec,
         ControlsSpec, SceneSpec, ScatterSpec, NamesSpec

(* What the parts promise holds of the whole page, for all values of the   *)
(* constants: logins and cookies (auth.ts), the pace of the states and the *)
(* own player's death (network.js), snowballs (snowball.js), chat          *)
(* (player.js), keys and pointer (init.js), the landscape (environment.js) *)
(* and the names on it (utils.js).                                         *)
THEOREM PageKeepsItsPromises ==
    Spec => [](/\ OneExchange /\ CookieHonoured /\ NoTwoDrops /\ DeathShown
               /\ FliesRegistered /\ ChatTimely /\ InputLetGo
               /\ OneLandscape /\ PlacedApart /\ NameShown)
<1> QED
  BY PageProjects, OneExchangeHolds, CookieHonouredHolds, NeverTwoDrops,
     DeathIsShown, FliesRegisteredHolds, ChatIsTimely, InputIsLetGo,
     OneLandscapeHolds, PlacedApartHolds, NameShownHolds, PTL
=============================================================================
