-------------------------------- MODULE Bots --------------------------------
(***************************************************************************)
(* The bots of bot.ts in the world of Combat.  A timer calls updateBots,   *)
(* whether or not earlier calls have returned: a call waits at the awaits  *)
(* of botShoot and of a revival, and the calls in progress are the slots   *)
(* of `loop'.  `running' is the call that has the event loop; the code     *)
(* between two awaits is several steps here, one for each bot, and nothing *)
(* else runs in between.                                                   *)
(***************************************************************************)
EXTENDS Combat, Sequences

CONSTANTS
    Loop,           \* bound: calls of updateBots in progress at a time
    None,           \* no call, no victim
    BotOrder,       \* the order in which the map of bots is walked
    ShotInterval    \* SHOT_INTERVAL

ASSUME BotsAssumption ==
    /\ BotOrder \in Seq(Bot)
    /\ ShotInterval \in Nat \ {0}
    /\ None \notin Player \cup Loop

VARIABLES
    loop,           \* the calls of updateBots
    running,        \* the call that has the event loop, or None
    lastShotAt,     \* bot -> time of its last shot
    felled          \* history: the deaths dealt by bots

bvars == <<loop, running, lastShotAt, felled>>
allVars == <<vars, bvars>>

\* pc says where a call stands: about to take the next bot, or at the await of
\* a snowball, hit, death or respawn event of the bot at the head of `left'.
Call == [pc : {"idle", "next", "snowball", "hit", "death", "respawn"},
         at : Nat,                      \* Date.now() at the start of the call
         left : Seq(Bot),               \* the bots still to be updated
         snapshot : Snapshot,           \* the entry read before the awaits
         since : Nat,                   \* start of the present await
         victim : Player \cup {None},   \* of a lethal hit
         respawnAt : Nat]

Idle == [pc |-> "idle", at |-> 0, left |-> <<>>, snapshot |-> Fresh,
         since |-> 0, victim |-> None, respawnAt |-> 0]

\* Combat's Init enters the bots into the table; the first shot is delayed.
InitBots ==
    /\ Init
    /\ loop = [i \in Loop |-> Idle]
    /\ running = None
    /\ lastShotAt \in [Bot -> 0..ShotInterval]
    /\ felled = {}

----------------------------------------------------------------------------
Waits(i) == loop[i].pc \in {"snowball", "hit", "death", "respawn"}

\* Everything that is not a bot's doing, while no call of updateBots runs.
Others ==
    /\ running = None
    /\ Next
    /\ now' # now => \A i \in Loop : Waits(i) => now < loop[i].since + MaxAwait
    /\ UNCHANGED bvars

\* The timer of startBotLoop.
UpdateBots(i) ==
    /\ running = None
    /\ loop[i] = Idle
    /\ running' = i
    /\ loop' = [loop EXCEPT ![i] = [Idle EXCEPT !.pc = "next", !.at = now,
                                                !.left = BotOrder]]
    /\ UNCHANGED <<vars, lastShotAt, felled>>

Return(i) ==
    /\ running = i
    /\ loop[i].left = <<>>
    /\ running' = None
    /\ loop' = [loop EXCEPT ![i] = Idle]
    /\ UNCHANGED <<vars, lastShotAt, felled>>

\* Call i goes on with the bot after the one at the head of `left'.
TakeNext(i) ==
    /\ running' = i
    /\ loop' = [loop EXCEPT ![i] = [Idle EXCEPT !.pc = "next", !.at = loop[i].at,
                                                !.left = Tail(loop[i].left)]]

\* Call i broadcasts an event and gives the event loop away.
Await(i, call) ==
    /\ running' = None
    /\ loop' = [loop EXCEPT ![i] = call]

\* The bot that call i is about to take.
Turn(i, b) == running = i /\ loop[i].left # <<>> /\ b = Head(loop[i].left)

OthersUnchanged ==
    UNCHANGED <<now, joined, clients, late, unnamed, nameless, seenShots, flying,
                dying, kills, hits>>

----------------------------------------------------------------------------
\* Mutant: the test for the dead comes before the revival.
SkipAllDead(i, b) ==
    /\ Turn(i, b)
    /\ playersCache[b] # Absent => playersCache[b].hp = 0
    /\ TakeNext(i)
    /\ UNCHANGED <<vars, lastShotAt, felled>>

\* No entry, or dead with the respawn time ahead: `continue'.
Skip(i, b) ==
    /\ Turn(i, b)
    /\ \/ playersCache[b] = Absent
       \/ Frozen(playersCache, b, loop[i].at)
    /\ TakeNext(i)
    /\ UNCHANGED <<vars, lastShotAt, felled>>

Revive(i, b) ==
    /\ Turn(i, b)
    /\ Revivable(playersCache, b, loop[i].at)
    /\ playersCache' = ApplyRespawn([playersCache EXCEPT ![b] = Fresh], b)
    /\ replay' = ApplyRespawn(replay, b)
    /\ Await(i, [loop[i] EXCEPT !.pc = "respawn", !.since = now])
    /\ OthersUnchanged
    /\ UNCHANGED <<lastShotAt, felled>>

Alive(b) == playersCache[b] # Absent /\ playersCache[b].hp > 0

Due(i, b) == loop[i].at - lastShotAt[b] > ShotInterval

\* findNearestPlayer finds somebody.
PlayerInSight == \E p \in Player \ Bot : Alive(p)

\* A bot that does not shoot moves.  The entry it writes back is the one it
\* has just read, so hp and deadUntil stay.
Walk(i, b) ==
    /\ Turn(i, b)
    /\ Alive(b)
    /\ Due(i, b) => ~PlayerInSight
    /\ lastShotAt' = IF Due(i, b) THEN [lastShotAt EXCEPT ![b] = loop[i].at]
                     ELSE lastShotAt
    /\ TakeNext(i)
    /\ UNCHANGED <<vars, felled>>

\* botShoot up to its first await; updateBots keeps the entry it has read.
Shoot(i, b) ==
    /\ Turn(i, b)
    /\ Alive(b)
    /\ Due(i, b)
    /\ PlayerInSight
    /\ Await(i, [loop[i] EXCEPT !.pc = "snowball", !.since = now,
                                !.snapshot = playersCache[b]])
    /\ UNCHANGED <<vars, lastShotAt, felled>>

\* Call i is back from its await and has the event loop again.
Resumes(i, pc, b) ==
    running = None /\ loop[i].pc = pc /\ b = Head(loop[i].left)

\* The end of a bot's turn after botShoot: the entry read before the awaits
\* is written back.
WriteBack(i, b, shotAt) ==
    /\ lastShotAt' = [lastShotAt EXCEPT ![b] = shotAt]
    /\ playersCache' = [playersCache EXCEPT ![b] = loop[i].snapshot]
    /\ TakeNext(i)

BotMiss(i, b) ==
    /\ Resumes(i, "snowball", b)
    /\ WriteBack(i, b, now)
    /\ OthersUnchanged
    /\ UNCHANGED <<replay, felled>>

\* Mutant: the hit is written to the table, but its event is not appended.
BotHitQuietly(i, b, v) ==
    LET after == Damaged(playersCache[v], now)
        lethal == after.hp = 0
    IN  /\ Resumes(i, "snowball", b)
        /\ v \in Target(b)
        /\ playersCache' = [playersCache EXCEPT ![v] = after]
        /\ felled' = IF lethal
                     THEN felled \cup {[victim |-> v, respawnAt |-> now + RespawnMs]}
                     ELSE felled
        /\ Await(i, [loop[i] EXCEPT !.pc = "hit", !.since = now,
                                    !.victim = IF lethal THEN v ELSE None,
                                    !.respawnAt = now + RespawnMs])
        /\ OthersUnchanged
        /\ UNCHANGED <<replay, lastShotAt>>

BotHit(i, b, v) ==
    LET after == Damaged(playersCache[v], now)
        lethal == after.hp = 0
    IN  /\ Resumes(i, "snowball", b)
        /\ v \in Target(b)
        /\ playersCache' = ApplyHit([playersCache EXCEPT ![v] = after], v, after.hp)
        /\ replay' = ApplyHit(replay, v, after.hp)
        /\ felled' = IF lethal
                     THEN felled \cup {[victim |-> v, respawnAt |-> now + RespawnMs]}
                     ELSE felled
        /\ Await(i, [loop[i] EXCEPT !.pc = "hit", !.since = now,
                                    !.victim = IF lethal THEN v ELSE None,
                                    !.respawnAt = now + RespawnMs])
        /\ OthersUnchanged
        /\ UNCHANGED <<lastShotAt>>

\* After a hit that was not lethal.
BotWounded(i, b) ==
    /\ Resumes(i, "hit", b)
    /\ loop[i].victim = None
    /\ WriteBack(i, b, loop[i].respawnAt - RespawnMs)
    /\ OthersUnchanged
    /\ UNCHANGED <<replay, felled>>

\* Mutant: the death event computes the respawn time again.
BotDeathRestarts(i, b) ==
    /\ Resumes(i, "hit", b)
    /\ loop[i].victim # None
    /\ playersCache' = ApplyDeath(playersCache, loop[i].victim, now + RespawnMs)
    /\ replay' = ApplyDeath(replay, loop[i].victim, now + RespawnMs)
    /\ Await(i, [loop[i] EXCEPT !.pc = "death", !.since = now])
    /\ OthersUnchanged
    /\ UNCHANGED <<lastShotAt, felled>>

\* The death event of a lethal hit; kills by bots are not recorded.
BotDeath(i, b) ==
    /\ Resumes(i, "hit", b)
    /\ loop[i].victim # None
    /\ playersCache' = ApplyDeath(playersCache, loop[i].victim, loop[i].respawnAt)
    /\ replay' = ApplyDeath(replay, loop[i].victim, loop[i].respawnAt)
    /\ Await(i, [loop[i] EXCEPT !.pc = "death", !.since = now])
    /\ OthersUnchanged
    /\ UNCHANGED <<lastShotAt, felled>>

BotKilled(i, b) ==
    /\ Resumes(i, "death", b)
    /\ WriteBack(i, b, loop[i].respawnAt - RespawnMs)
    /\ OthersUnchanged
    /\ UNCHANGED <<replay, felled>>

BotRevived(i, b) ==
    /\ Resumes(i, "respawn", b)
    /\ TakeNext(i)
    /\ UNCHANGED <<vars, lastShotAt, felled>>

----------------------------------------------------------------------------
\* The synchronous steps of a call, and its continuations after an await.
Run(i) ==
    \/ Return(i)
    \/ \E b \in Bot : Skip(i, b) \/ Revive(i, b) \/ Walk(i, b) \/ Shoot(i, b)

Resume(i) ==
    \E b \in Bot : \/ BotMiss(i, b)
                   \/ \E v \in Player : BotHit(i, b, v)
                   \/ BotWounded(i, b)
                   \/ BotDeath(i, b)
                   \/ BotKilled(i, b)
                   \/ BotRevived(i, b)

BotsNext ==
    \/ Others
    \/ \E i \in Loop : UpdateBots(i) \/ Run(i) \/ Resume(i)

BotsSpec == InitBots /\ [][BotsNext]_allVars

\* The clock advances, the timer keeps firing, and a handler whose promise has
\* been resolved is continued: the event loop serves its queues in turn.
BotsFairSpec ==
    /\ BotsSpec
    /\ SF_allVars(Others /\ Tick)
    /\ SF_allVars(Others /\ \/ \E f \in flying : Miss(f) \/ \E v \in Player : Hit(f, v)
                            \/ \E d \in dying : Death(d))
    /\ SF_allVars(\E i \in Loop : UpdateBots(i))
    /\ WF_allVars(\E i \in Loop : Run(i))
    /\ SF_allVars(\E i \in Loop : Resume(i))
----------------------------------------------------------------------------
(* Type invariant.                                                         *)
BotsTypeOK ==
    /\ TypeOK
    /\ loop \in [Loop -> Call]
    /\ running \in Loop \cup {None}
    /\ lastShotAt \in [Bot -> Nat]
    /\ felled \subseteq [victim : Player, respawnAt : Nat]

\* The deaths on their way, the bots' included, in the form Combat has them.
BotsDying ==
    {[by |-> Head(loop[i].left), shot |-> i, victim |-> loop[i].victim,
      respawnAt |-> loop[i].respawnAt] :
        i \in {i \in Loop : loop[i].pc = "hit" /\ loop[i].victim # None}}

(* With bots in the game the table still agrees with the event log on      *)
(* every connected player (applyEventToCache, botShoot), and the death     *)
(* event of a bot's lethal hit, sent after an await, still describes its   *)
(* victim, like the ones of serverHandleSnowball.                          *)
PlayersAgree ==
    LET D == dying \cup BotsDying
    IN  LogAgrees(D) /\ DeathsCurrent(D) /\ OnePending(D)

G == INSTANCE Arena WITH entered <- joined, body <- Body,
                         toll <- Toll \cup {t \in felled : t.victim \in clients}

(* What the players are promised, bots included: Arena, the atomic game.   *)
(* A bot's hits are Arena's strikes; nothing else a bot does is visible in *)
(* the connected players' entries.                                         *)
BotsImplementArena == G!Spec

(* "10 seconds between shots": two shots of a bot that are on their way,   *)
(* each in a call of updateBots, are more than the shot interval apart.    *)
ShotsSpaced ==
    \A i, j \in Loop :
        (i # j /\ loop[i].pc = "snowball" /\ loop[j].pc = "snowball"
             /\ Head(loop[i].left) = Head(loop[j].left)) =>
            \/ loop[i].since > loop[j].since + ShotInterval
            \/ loop[j].since > loop[i].since + ShotInterval

(* "The dead are not updated": until its respawn time a dead bot keeps its *)
(* entry, whatever call of updateBots is in progress.                      *)
DeadBotsNotUpdated ==
    [][\A b \in Bot : Frozen(playersCache, b, now) =>
          playersCache'[b] = playersCache[b]]_allVars

(* A dead bot comes back: once its respawn time is reached some call of    *)
(* updateBots revives it, unless it is killed again where it lies.  (A     *)
(* respawn time beyond the bound of the clock is never reached.)           *)
BotsComeBack ==
    \A b \in Bot :
        (playersCache[b].hp = 0 /\ playersCache[b].deadUntil <= MaxNow)
            ~> (playersCache[b].hp > 0 \/ playersCache[b].deadUntil > MaxNow)
=============================================================================
