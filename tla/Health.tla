------------------------------- MODULE Health -------------------------------
(***************************************************************************)
(* What a page shows of the health of its own player: the hp, whether it   *)
(* is dead, and the overlay that says so.  The server sends hits, deaths,  *)
(* respawns and snapshots (game.ts); the page applies them in the order    *)
(* they are decrypted (network.js), drops what was on its way when the     *)
(* connection is lost, and comes back as a new player.                     *)
(*                                                                         *)
(* Of the times only the order counts: the k-th hit is stamped 2 k, and    *)
(* whatever is stamped between it and the next one 2 k + 1.  Messages are  *)
(* assumed to take less than respawnMs to be applied.  The second model    *)
(* of itself that a page may make after a reconnection is in ClientView.   *)
(***************************************************************************)
EXTENDS Integers, Sequences, FiniteSets

CONSTANTS
    MaxHp, damage,
    MaxHits,        \* bound: hits in a run
    MaxLogins,      \* bound: connections of the page
    MaxSnapshots    \* bound: snapshots on their way at once

ASSUME HealthAssumption ==
    /\ {MaxHp, damage, MaxLogins, MaxSnapshots} \subseteq Nat \ {0}
    /\ MaxHits \in Nat

VARIABLES
    login,      \* the number, and id, of the page's latest connection
    linked,     \* it is open, and its player in the table
    hp,         \* of the entry (as the next hello makes it if there is none)
    updatedAt,
    hits,
    toPage,     \* messages on their way: what, of whom, hp and stamp
    own,        \* the page: localPlayerId, localPlayer, its hp and lastHpAt
    overlay,    \* the overlay of the dead
    carried,    \* history: the overlay dates from an earlier connection
    watched     \* history: Watching held at the last lethal hit

hvars == <<login, linked, hp, updatedAt, hits, toPage, own, overlay, carried,
           watched>>

Msg(what, id, h, stamp) == [t |-> what, id |-> id, hp |-> h, stamp |-> stamp]

HealthInit ==
    /\ login = 0 /\ linked = FALSE
    /\ hp = MaxHp /\ updatedAt = 0
    /\ hits = 0
    /\ toPage = {}
    /\ own = [id |-> 0, there |-> FALSE, dead |-> FALSE, hp |-> MaxHp, lastHpAt |-> 0,
              pending |-> <<>>]
    /\ overlay = FALSE /\ carried = FALSE /\ watched = FALSE

Now == 2 * hits + 1

\* deadUntil > now: the news of the death have not all been applied.
Frozen == hp <= 0 /\ \E m \in toPage : m.id = login /\ m.t \in {"hit", "death"}

RespawnOnWay == \E m \in toPage : m.t = "respawn" /\ m.id = login

\* The page shows its player and has applied every respawn of it.
Watching == own.there /\ own.id = login /\ ~RespawnOnWay

----------------------------------------------------------------------------
(* The server.                                                             *)

\* A hello: the page joins, again a second after a loss (when it has applied
\* what it still received) as a new player.
Join ==
    /\ ~linked /\ login < MaxLogins
    /\ toPage = {}
    /\ login' = login + 1
    /\ linked' = TRUE
    /\ updatedAt' = Now
    /\ toPage' = {Msg(what, login + 1, MaxHp, Now) : what \in {"join", "welcome"}}
    /\ UNCHANGED <<hp, hits, own, overlay, carried, watched>>

\* The connection is lost and with it any part of what was on its way, and
\* the entry is deleted; the last connection of a run holds.
Lose ==
    /\ linked /\ login < MaxLogins
    /\ linked' = FALSE
    /\ \E received \in SUBSET toPage : toPage' = received
    /\ hp' = MaxHp
    /\ UNCHANGED <<login, updatedAt, hits, own, overlay, carried, watched>>

\* serverHandleSnowball hits the player; the dead are no targets.  The hit
\* is stamped when it is broadcast, maybe later than the entry; the death
\* follows it.
Hit ==
    /\ linked /\ hits < MaxHits
    /\ ~Frozen
    /\ LET h == IF hp > damage THEN hp - damage ELSE 0
           news == IF h = 0 THEN {"hit", "death"} ELSE {"hit"}
       IN /\ hp' = h
          /\ toPage' = toPage \cup {Msg(what, login, h, Now + 1) : what \in news}
          /\ watched' = IF h = 0 THEN Watching ELSE watched
    /\ \E t \in {Now, Now + 1} : updatedAt' = t
    /\ hits' = hits + 1
    /\ UNCHANGED <<login, linked, own, overlay, carried>>

\* The page sends its state, dead or alive, and serverHandleState drops it,
\* revives the player, or renews the entry.
StateArrives ==
    /\ linked /\ own.there
    /\ ~Frozen
    /\ \/ /\ hp > 0
          /\ UNCHANGED <<hp, toPage>>
       \/ /\ hp <= 0
          /\ hp' = MaxHp
          /\ toPage' = toPage \cup {Msg("respawn", login, MaxHp, Now)}
    /\ updatedAt' = Now
    /\ UNCHANGED <<login, linked, hits, own, overlay, carried, watched>>

\* A ping renews the stamp of the entry only.
Ping ==
    /\ linked
    /\ updatedAt' = Now
    /\ UNCHANGED <<login, linked, hp, hits, toPage, own, overlay, carried, watched>>

\* The snapshot timer.
Snapshot ==
    /\ linked
    /\ Cardinality({m \in toPage : m.t = "snapshot"}) < MaxSnapshots
    /\ toPage' = toPage \cup {Msg("snapshot", login, hp, updatedAt)}
    /\ UNCHANGED <<login, linked, hp, updatedAt, hits, own, overlay, carried, watched>>

----------------------------------------------------------------------------
(* The page.                                                               *)

\* createLocalPlayer: a new model is alive; the overlay stays as it is.
createLocal(g, m) ==
    [g EXCEPT !.there = TRUE, !.dead = FALSE, !.hp = m.hp, !.lastHpAt = m.stamp]

\* Mutant: the stamps are compared the wrong way round.
SnapshotOlder(g, m) ==
    LET c == IF g.there THEN g ELSE createLocal(g, m)
    IN IF m.id = g.id /\ m.stamp < c.lastHpAt
       THEN [c EXCEPT !.hp = m.hp, !.lastHpAt = m.stamp] ELSE g

\* applySnapshot, as far as the own player goes: an hp that is not older
\* than the one shown replaces it.
SnapshotOwn(g, m) ==
    LET c == IF g.there THEN g ELSE createLocal(g, m)
    IN CASE m.id # g.id -> g
         [] m.id = g.id /\ m.stamp >= c.lastHpAt ->
                [c EXCEPT !.hp = m.hp, !.lastHpAt = m.stamp]
         [] OTHER -> c

\* welcome: the model of the earlier connection goes, and a snapshot that
\* came before the first welcome is applied.
WelcomeOwn(g, m) ==
    LET c == [g EXCEPT !.there = g.there /\ g.id = m.id, !.id = m.id, !.pending = <<>>]
    IN IF g.pending = <<>> THEN c ELSE SnapshotOwn(c, Head(g.pending))

\* Mutant: a join makes a model of the own player even if there is one.
AppliedTwice(g, m) ==
    CASE m.t = "welcome" -> WelcomeOwn(g, m)
      [] m.t = "snapshot" /\ g.id = 0 -> [g EXCEPT !.pending = <<m>>]
      [] m.t = "snapshot" /\ g.id # 0 -> SnapshotOwn(g, m)
      [] m.t = "join" /\ m.id = g.id -> createLocal(g, m)
      [] m.t = "hit" /\ m.id = g.id /\ g.there ->
             [g EXCEPT !.hp = m.hp, !.lastHpAt = m.stamp, !.dead = @ \/ m.hp <= 0]
      [] m.t = "death" /\ m.id = g.id /\ g.there -> [g EXCEPT !.dead = TRUE]
      [] m.t = "respawn" /\ m.id = g.id /\ g.there ->
             [g EXCEPT !.dead = FALSE, !.hp = m.hp]
      [] OTHER -> g

\* What a message makes of the page's player: welcome, snapshot, and the
\* join, hit, death and respawn branches of applyEvent.
Applied(g, m) ==
    CASE m.t = "welcome" -> WelcomeOwn(g, m)
      [] m.t = "snapshot" /\ g.id = 0 -> [g EXCEPT !.pending = <<m>>]
      [] m.t = "snapshot" /\ g.id # 0 -> SnapshotOwn(g, m)
      [] m.t = "join" /\ m.id = g.id /\ ~g.there -> createLocal(g, m)
      [] m.t = "hit" /\ m.id = g.id /\ g.there ->
             [g EXCEPT !.hp = m.hp, !.lastHpAt = m.stamp, !.dead = @ \/ m.hp <= 0]
      [] m.t = "death" /\ m.id = g.id /\ g.there -> [g EXCEPT !.dead = TRUE]
      [] m.t = "respawn" /\ m.id = g.id /\ g.there ->
             [g EXCEPT !.dead = FALSE, !.hp = m.hp]
      [] OTHER -> g

Kills(m) == m.t = "death" \/ (m.t = "hit" /\ m.hp <= 0)

\* setDeadUI, in the same three branches.
OverlayAfter(g, m) ==
    LET mine == m.id = g.id /\ g.there
    IN CASE mine /\ Kills(m) -> TRUE
         [] mine /\ m.t = "respawn" -> FALSE
         [] OTHER -> overlay

Apply(m) ==
    /\ toPage' = toPage \ {m}
    /\ own' = Applied(own, m)
    /\ overlay' = OverlayAfter(own, m)
    /\ carried' = (overlay' /\ (carried \/ own'.id # own.id))
    /\ UNCHANGED <<login, linked, hp, updatedAt, hits, watched>>

----------------------------------------------------------------------------
HealthNext ==
    \/ Join \/ Lose \/ Hit \/ StateArrives \/ Ping \/ Snapshot
    \/ \E m \in toPage : Apply(m)

HealthSpec == HealthInit /\ [][HealthNext]_hvars

----------------------------------------------------------------------------
\* Type invariant: no stamp lies in the future.
HealthTypeOK ==
    /\ login \in 0 .. MaxLogins /\ linked \in BOOLEAN
    /\ hp \in 0 .. MaxHp /\ updatedAt \in 0 .. Now
    /\ hits \in 0 .. MaxHits
    /\ \A m \in toPage :
           /\ m.t \in {"welcome", "join", "snapshot", "hit", "death", "respawn"}
           /\ m.id \in 1 .. login /\ m.hp \in 0 .. MaxHp /\ m.stamp \in 0 .. Now
    /\ own.id \in 0 .. login /\ own.hp \in 0 .. MaxHp /\ own.lastHpAt \in 0 .. Now
    /\ {own.there, own.dead, overlay, carried, watched} \subseteq BOOLEAN

\* A player lies dead on its own page only while the server holds it for
\* dead or the respawn is on its way: no late hit, death or snapshot kills
\* it again (the dead branches of applyEvent, serverHandleState).
NoFalseDeath ==
    own.there /\ own.dead /\ linked /\ own.id = login => hp = 0 \/ RespawnOnWay

\* A player killed before the eyes of its page lies dead there from the
\* first of the hit and the death that is applied until it is revived: no
\* join, welcome or snapshot that comes late makes it stand up.  (A page that
\* has no model of its player yet, or has an older respawn still to apply, may
\* miss the death and show it alive: createLocalPlayer, applyEvent.)
NoMissedDeath ==
    linked /\ hp = 0 /\ watched =>
        \/ own.there /\ own.dead /\ own.id = login
        \/ \E m \in toPage : m.id = login /\ Kills(m)

\* The overlay says exactly whether the player is dead, with one exception:
\* the page lost its connection while it was on, and the new player, who is
\* alive, stands under it until it is killed and respawns (network.js:329).
OverlayTrue == overlay = (own.there /\ own.dead) \/ carried

\* The page shows the death of its player whenever it could see the hit, and
\* shows none that is not; and the overlay goes with it (applyEvent).
DeathShown == NoFalseDeath /\ NoMissedDeath /\ OverlayTrue

\* Once nothing more happens, the page comes to show its player alive and
\* with the hp of the table, whatever was lost or overtaken (applySnapshot,
\* the respawn in serverHandleState).
HpSettles == <>[](login > 0 => own.there /\ ~own.dead /\ own.hp = hp)
=============================================================================
