------------------------------- MODULE Arena -------------------------------
(***************************************************************************)
(* The game the players are meant to see, without awaits, tasks or events: *)
(* a player enters once, is hurt or killed in one step, lies dead for      *)
(* RespawnMs and may then revive (or be hit again where it lies), and      *)
(* exits.  `toll' holds the deaths of the players present.                 *)
(***************************************************************************)
EXTENDS World

CONSTANT MaxNow     \* bound on the clock

VARIABLES now, entered, body, toll

avars == <<now, entered, body, toll>>

Init ==
    /\ now = 0
    /\ entered = {}
    /\ body = [p \in Player |-> Absent]
    /\ toll = {}

Tick ==
    /\ now < MaxNow
    /\ now' = now + 1
    /\ UNCHANGED <<entered, body, toll>>

Enter(p) ==
    /\ p \notin entered
    /\ entered' = entered \cup {p}
    /\ body' = [body EXCEPT ![p] = Fresh]
    /\ UNCHANGED <<now, toll>>

Exit(p) ==
    /\ body[p] # Absent
    /\ body' = [body EXCEPT ![p] = Absent]
    /\ toll' = {t \in toll : t.victim # p}
    /\ UNCHANGED <<now, entered>>

Strike(p) ==
    /\ body[p] # Absent
    /\ ~Frozen(body, p, now)
    /\ body' = [body EXCEPT ![p] = Damaged(body[p], now)]
    /\ toll' = IF NewHp(body[p].hp) = 0
               THEN toll \cup {[victim |-> p, respawnAt |-> now + RespawnMs]}
               ELSE toll
    /\ UNCHANGED <<now, entered>>

Revive(p) ==
    /\ Revivable(body, p, now)
    /\ body' = [body EXCEPT ![p] = Fresh]
    /\ UNCHANGED <<now, entered, toll>>

Next ==
    \/ Tick
    \/ \E p \in Player : Enter(p) \/ Exit(p) \/ Strike(p) \/ Revive(p)

Spec == Init /\ [][Next]_avars
=============================================================================
