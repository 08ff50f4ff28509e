------------------------------- MODULE World -------------------------------
(***************************************************************************)
(* The server's table of players (playersCache, state.ts) and what an      *)
(* event does to it (applyEventToCache).  A snapshot keeps the two fields  *)
(* the combat rules read, hp and deadUntil; name, pose and updatedAt are   *)
(* left to the modules whose properties are about them (Combat keeps apart *)
(* whose name is empty).  Events that touch none of the two fields (state, *)
(* rename, chat, snowball) change nothing here.                            *)
(***************************************************************************)
EXTENDS Integers

CONSTANTS
    Player,     \* ids of human players (crypto.randomUUID) and of bots
    Bot,        \* the ids "bot-0" ... among them
    Absent,     \* the value Map.get returns for an id that has no entry
    MaxHp,      \* hp of a fresh or revived player: 100
    Damage,     \* CONFIG.GAME.damage
    RespawnMs   \* CONFIG.GAME.respawnMs

Snapshot == [hp : 0..MaxHp, deadUntil : Nat]

ASSUME WorldAssumption ==
    /\ Bot \subseteq Player
    /\ MaxHp \in Nat \ {0}
    /\ Damage \in Nat \ {0}
    /\ RespawnMs \in Nat \ {0}
    /\ Absent \notin Snapshot

\* The snapshot serverOnHello, initBots and both revivals write.
Fresh == [hp |-> MaxHp, deadUntil |-> 0]

----------------------------------------------------------------------------
\* Every event but join and leave is dropped when its player has no entry.
Overwrite(cache, p, snap) ==
    IF cache[p] = Absent THEN cache ELSE [cache EXCEPT ![p] = snap]

ApplyJoin(cache, p) == [cache EXCEPT ![p] = Fresh]

ApplyLeave(cache, p) == [cache EXCEPT ![p] = Absent]

ApplyRespawn(cache, p) == Overwrite(cache, p, Fresh)

ApplyHit(cache, p, victimHp) ==
    Overwrite(cache, p, [hp |-> victimHp, deadUntil |-> cache[p].deadUntil])

ApplyDeath(cache, p, respawnAt) ==
    Overwrite(cache, p, [hp |-> 0, deadUntil |-> respawnAt])

----------------------------------------------------------------------------
\* Mutant: damage without the floor at 0.
NewHpUnclamped(hp) == hp - Damage

\* Math.max(0, hp - damage)
NewHp(hp) == IF hp > Damage THEN hp - Damage ELSE 0

\* The entry a hit at time t leaves behind: a lethal hit starts the countdown.
Damaged(snap, t) ==
    [hp |-> NewHp(snap.hp),
     deadUntil |-> IF NewHp(snap.hp) = 0 THEN t + RespawnMs ELSE snap.deadUntil]

\* hp <= 0 and the respawn time still ahead: cannot act and cannot be hit.
Frozen(cache, p, t) ==
    cache[p] # Absent /\ cache[p].hp = 0 /\ cache[p].deadUntil > t

\* Mutant: revival without waiting for the respawn time.
RevivableAtOnce(cache, p, t) == cache[p] # Absent /\ cache[p].hp = 0

\* hp <= 0 and the respawn time reached: the next state message revives.
Revivable(cache, p, t) ==
    cache[p] # Absent /\ cache[p].hp = 0 /\ cache[p].deadUntil <= t
=============================================================================
