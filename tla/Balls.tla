------------------------------- MODULE Balls --------------------------------
(***************************************************************************)
(* The snowballs on a page (client_src/snowball.js): the thrower's page    *)
(* shows its ball at once and hears of the same shot from the server       *)
(* later; a ball ends where it lands or with its timer, whichever is       *)
(* first, and the next frame takes it off the list.                        *)
(***************************************************************************)
EXTENDS Integers

CONSTANTS
    Shot,       \* shot ids
    BallMs,     \* 3000 ms, the timer of a ball
    snowballCooldown

ASSUME BallAssumption == BallMs \in Nat \ {0} /\ snowballCooldown \in Nat

VARIABLES
    ball,           \* the Snowball objects, two at most for a shot
    snowballs,      \* the list the frames go through
    snowballsById,  \* which of its objects a shot is registered with, or 0
    echo,           \* of each shot, whether the server's event is "coming"
    lastShot        \* now - lastShotAt

ballvars == <<ball, snowballs, snowballsById, echo, lastShot>>

Ball == Shot \X {1, 2}
NoBall == [made |-> FALSE, active |-> FALSE, timer |-> FALSE, age |-> 0]

BallInit ==
    /\ ball = [b \in Ball |-> NoBall]
    /\ snowballs = {}
    /\ snowballsById = [s \in Shot |-> 0]
    /\ echo = [s \in Shot |-> "none"]
    /\ lastShot = snowballCooldown

\* The constructor, and what its two callers do with the new object.
NewBall(s, n) ==
    /\ ball' = [ball EXCEPT ![<<s, n>>] =
                   [made |-> TRUE, active |-> TRUE, timer |-> TRUE, age |-> 0]]
    /\ snowballs' = snowballs \cup {<<s, n>>}
    /\ snowballsById' = [snowballsById EXCEPT ![s] = n]

\* throwSnowball of a living player, with a new id; what it sends may be lost.
throwSnowball(s) ==
    /\ echo[s] = "none"
    /\ lastShot >= snowballCooldown
    /\ lastShot' = 0
    /\ NewBall(s, 1)
    /\ \E e \in {"coming", "lost"} : echo' = [echo EXCEPT ![s] = e]

\* Another player throws.
RivalThrows(s) ==
    /\ echo[s] = "none"
    /\ echo' = [echo EXCEPT ![s] = "coming"]
    /\ UNCHANGED <<ball, snowballs, snowballsById, lastShot>>

\* applyEvent, snowball: a shot that is still registered is not shown twice.
SnowballEvent(s) ==
    /\ echo[s] = "coming"
    /\ echo' = [echo EXCEPT ![s] = "done"]
    /\ \/ /\ snowballsById[s] # 0
          /\ UNCHANGED <<ball, snowballs, snowballsById>>
       \/ /\ snowballsById[s] = 0
          /\ NewBall(s, 2)
    /\ UNCHANGED lastShot

\* Mutant: destroy without its first line.
DestroyTwice(B, timer) ==
    /\ ball' = [b \in Ball |-> IF b \in B
                   THEN [ball[b] EXCEPT !.active = FALSE, !.timer = @ /\ timer]
                   ELSE ball[b]]
    /\ snowballsById' = [s \in Shot |->
           IF \E b \in B : b[1] = s THEN 0 ELSE snowballsById[s]]

\* destroy, of every ball in B; timer tells whether their timers still run.
destroy(B, timer) ==
    /\ ball' = [b \in Ball |-> IF b \in B
                   THEN [ball[b] EXCEPT !.active = FALSE, !.timer = @ /\ timer]
                   ELSE ball[b]]
    /\ snowballsById' = [s \in Shot |->
           IF \E b \in B : b[1] = s /\ ball[b].active THEN 0 ELSE snowballsById[s]]

\* update, of every ball: of those that fly any may meet the ground or a box.
update == SUBSET {b \in snowballs : ball[b].active}

\* A frame: every ball is updated, some land, and the ended ones leave.
Frame ==
    /\ \E landed \in update :
           /\ destroy(landed, TRUE)
           /\ snowballs' = {b \in snowballs : ball'[b].active}
    /\ UNCHANGED <<echo, lastShot>>

\* The timer of a ball.
BallTimer(b) ==
    /\ ball[b].timer /\ ball[b].age = BallMs
    /\ destroy({b}, FALSE)
    /\ UNCHANGED <<snowballs, echo, lastShot>>

\* Time passes; a timer that is due goes first.
BallTick ==
    /\ \A b \in Ball : ball[b].timer => ball[b].age < BallMs
    /\ ball' = [b \in Ball |-> [ball[b] EXCEPT !.age = IF ball[b].timer THEN @ + 1 ELSE @]]
    /\ lastShot' = IF lastShot < snowballCooldown THEN lastShot + 1 ELSE lastShot
    /\ UNCHANGED <<snowballs, snowballsById, echo>>

BallNext ==
    \/ \E s \in Shot : throwSnowball(s) \/ RivalThrows(s) \/ SnowballEvent(s)
    \/ \E b \in Ball : BallTimer(b)
    \/ Frame \/ BallTick

BallSpec == BallInit /\ [][BallNext]_ballvars

----------------------------------------------------------------------------
\* Type invariant: a ball that flies is on the list, and its timer runs.
BallTypeOK ==
    /\ ball \in [Ball -> [made : BOOLEAN, active : BOOLEAN, timer : BOOLEAN, age : 0 .. BallMs]]
    /\ snowballs \subseteq {b \in Ball : ball[b].made}
    /\ \A b \in Ball : ball[b].active => ball[b].timer /\ b \in snowballs
    /\ snowballsById \in [Shot -> 0 .. 2]
    /\ echo \in [Shot -> {"none", "coming", "lost", "done"}]
    /\ lastShot \in 0 .. snowballCooldown

\* A ball flies exactly as long as its shot is registered with it: no timer
\* of an earlier ball of the shot unregisters it (destroy), and no shot flies
\* twice at once (the snowball branch of applyEvent).
FliesRegistered ==
    \A b \in Ball : ball[b].active <=> snowballsById[b[1]] = b[2]
=============================================================================
