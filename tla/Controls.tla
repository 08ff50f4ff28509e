------------------------------ MODULE Controls ------------------------------
(***************************************************************************)
(* The page before and between the messages of the server                  *)
(* (client_src/init.js): which login screen it shows, and what the         *)
(* keyboard, the mouse and the chat input do to the local player.          *)
(* The browser moves the focus, grants and takes away the pointer lock,    *)
(* and delivers no keyup while the window is in the background.            *)
(***************************************************************************)
CONSTANTS
    Key,    \* the keys that steer
    OAuth   \* the server has an OAuth client configured

ASSUME ControlsAssumption == OAuth \in BOOLEAN

VARIABLES
    screen,         \* "checking", "oauth", "guest", "loggedIn" or "playing"
    check,          \* the request checkAuthStatus awaits, or how it ended
    oauthEnabled, currentUser,
    player,         \* there is a local player
    focus,          \* "page" or "chat": document.activeElement
    uiHidden,
    lock,           \* the pointer lock: "free", "asked", "locked" or "leaving"
    held,           \* the keys that are down
    input,          \* localPlayer.input: the keys it takes for down
    missed,         \* history: keys let go in the background, not hit since
    late            \* history: the lock was granted into the chat input

uvars == <<screen, check, oauthEnabled, currentUser, player, focus, uiHidden, lock,
           held, input, missed, late>>
loginvars == <<screen, check, oauthEnabled, currentUser>>
keyvars == <<held, input, missed>>

ControlsInit ==
    /\ screen = "checking" /\ check = "config"
    /\ oauthEnabled = FALSE /\ currentUser = FALSE
    /\ player = FALSE
    /\ focus = "page" /\ uiHidden = FALSE
    /\ lock = "free" /\ late = FALSE
    /\ held = {} /\ input = {} /\ missed = {}

----------------------------------------------------------------------------
(* checkAuthStatus and the two buttons.                                    *)

showLoginUI(enabled) == screen' = IF enabled THEN "oauth" ELSE "guest"

\* The answer to /auth/config, and a failure of that request.
ConfigReply ==
    /\ check = "config"
    /\ check' = "me"
    /\ oauthEnabled' = OAuth
    /\ UNCHANGED <<screen, currentUser, player, focus, uiHidden, lock, keyvars, late>>

\* The catch of checkAuthStatus, for either request.
CheckFails ==
    /\ check \in {"config", "me"}
    /\ check' = IF check = "config" THEN "noConfig" ELSE "noUser"
    /\ showLoginUI(oauthEnabled)
    /\ UNCHANGED <<oauthEnabled, currentUser, player, focus, uiHidden, lock, keyvars, late>>

\* The answer to /auth/me.
MeReply ==
    /\ check = "me"
    /\ check' = "done"
    /\ \E authenticated \in BOOLEAN :
           /\ currentUser' = authenticated
           /\ IF authenticated THEN screen' = "loggedIn" ELSE showLoginUI(oauthEnabled)
    /\ UNCHANGED <<oauthEnabled, player, focus, uiHidden, lock, keyvars, late>>

\* startGame, from the button of either screen.
startGame ==
    /\ screen \in {"guest", "loggedIn"}
    /\ screen' = "playing"
    /\ UNCHANGED <<check, oauthEnabled, currentUser, player, focus, uiHidden, lock,
                   keyvars, late>>

\* A snapshot after a welcome makes the local player; the welcome of the
\* next connection removes it.
PlayerComes ==
    /\ screen = "playing" /\ ~player
    /\ player' = TRUE
    /\ UNCHANGED <<loginvars, focus, uiHidden, lock, keyvars, late>>

PlayerGoes ==
    /\ player
    /\ player' = FALSE
    /\ input' = {} /\ missed' = {}
    /\ UNCHANGED <<loginvars, focus, uiHidden, lock, held, late>>

----------------------------------------------------------------------------
(* The keyboard.                                                           *)

Playing == screen = "playing" /\ focus = "page"

\* A key goes down, or repeats while it is.
KeyDown(k) ==
    /\ held' = held \cup {k}
    /\ input' = IF Playing /\ player THEN input \cup {k} ELSE input
    /\ UNCHANGED <<loginvars, player, focus, uiHidden, lock, missed, late>>

\* Mutant: the keys let go while the chat has the focus are ignored.
KeyUpOfPage(k) ==
    /\ k \in held
    /\ held' = held \ {k}
    /\ input' = IF Playing THEN input \ {k} ELSE input
    /\ missed' = missed \ {k}
    /\ UNCHANGED <<loginvars, player, focus, uiHidden, lock, late>>

\* A key is let go, wherever the focus is.
KeyUp(k) ==
    /\ k \in held
    /\ held' = held \ {k}
    /\ input' = input \ {k}
    /\ missed' = missed \ {k}
    /\ UNCHANGED <<loginvars, player, focus, uiHidden, lock, late>>

\* A jump in a frame takes back the key that asked for it.
Jump ==
    /\ "Space" \in input
    /\ input' = input \ {"Space"}
    /\ UNCHANGED <<loginvars, player, focus, uiHidden, lock, held, missed, late>>

\* T, Enter or a click into it: the chat input gets the focus unless it is
\* hidden, and its focus handler gives the pointer free.
FocusChat ==
    /\ Playing
    /\ ~uiHidden
    /\ focus' = "chat"
    /\ lock' = IF lock = "locked" THEN "leaving" ELSE lock
    /\ UNCHANGED <<loginvars, player, uiHidden, keyvars, late>>

\* H.
ToggleUI ==
    /\ Playing
    /\ uiHidden' = ~uiHidden
    /\ UNCHANGED <<loginvars, player, focus, lock, keyvars, late>>

\* Escape in the chat input, or a click beside it.
LeaveChat ==
    /\ focus = "chat"
    /\ focus' = "page"
    /\ late' = FALSE
    /\ UNCHANGED <<loginvars, player, uiHidden, lock, keyvars>>

----------------------------------------------------------------------------
(* The mouse, the browser and the window.                                  *)

\* The first click into the game asks for the pointer; the others throw.
Click ==
    /\ Playing
    /\ lock = "free"
    /\ lock' = "asked"
    /\ UNCHANGED <<loginvars, player, focus, uiHidden, keyvars, late>>

\* pointerlockchange.
LockGranted ==
    /\ lock = "asked"
    /\ lock' = "locked"
    /\ late' = (focus = "chat")
    /\ UNCHANGED <<loginvars, player, focus, uiHidden, keyvars>>

LockGone ==
    /\ lock # "free"
    /\ lock' = "free"
    /\ late' = FALSE
    /\ UNCHANGED <<loginvars, player, focus, uiHidden, keyvars>>

\* The window goes to the background; its keys are let go unseen.
Background ==
    /\ held # {}
    /\ held' = {}
    /\ missed' = missed \cup input
    /\ lock' = "free" /\ late' = FALSE
    /\ UNCHANGED <<loginvars, player, focus, uiHidden, input>>

\* The OAuth button leaves the page, which is loaded anew afterwards; so does
\* a reload.
Reload ==
    /\ screen' = "checking" /\ check' = "config"
    /\ oauthEnabled' = FALSE /\ currentUser' = FALSE
    /\ player' = FALSE
    /\ focus' = "page" /\ uiHidden' = FALSE
    /\ lock' = "free" /\ late' = FALSE
    /\ held' = {} /\ input' = {} /\ missed' = {}

ControlsNext ==
    \/ ConfigReply \/ MeReply \/ CheckFails \/ startGame \/ PlayerComes \/ PlayerGoes
    \/ \E k \in Key : KeyDown(k) \/ KeyUp(k)
    \/ Jump \/ FocusChat \/ ToggleUI \/ LeaveChat
    \/ Click \/ LockGranted \/ LockGone \/ Background \/ Reload

ControlsSpec == ControlsInit /\ [][ControlsNext]_uvars

----------------------------------------------------------------------------
\* Type invariant: a start button is only there with a name to start with,
\* and on a server that has OAuth the guest's only when the page could not
\* even ask for the configuration (the fallback at init.js:64).
ControlsTypeOK ==
    /\ screen \in {"checking", "oauth", "guest", "loggedIn", "playing"}
    /\ check \in {"config", "me", "done", "noConfig", "noUser"}
    /\ focus \in {"page", "chat"} /\ lock \in {"free", "asked", "locked", "leaving"}
    /\ {oauthEnabled, currentUser, player, uiHidden, late} \subseteq BOOLEAN
    /\ held \subseteq Key /\ input \subseteq Key /\ missed \subseteq Key
    /\ screen = "loggedIn" => currentUser
    /\ screen = "guest" /\ OAuth => check = "noConfig"

\* The player goes on only while the key is down, with one exception: keys
\* let go while the window is in the background stay down for it until they
\* are hit and let go again (the keyup handler, at init.js:301).
StopsWithKey == input \subseteq held \cup missed

\* Nobody types with the pointer locked, with one exception: the lock was
\* asked for by a click before the chat input got the focus, and granted
\* after (the focus handler at init.js:231 sees no lock yet).
PointerFreeForChat == focus = "chat" /\ lock = "locked" => late

\* The page does not hold on to what was let go: neither keys nor pointer.
InputLetGo == StopsWithKey /\ PointerFreeForChat
=============================================================================
