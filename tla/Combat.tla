------------------------------- MODULE Combat -------------------------------
(***************************************************************************)
(* The authoritative combat rules: the message handlers of game.ts with    *)
(* the joins and leaves of ws.ts and the clean-up of state.ts, run by one  *)
(* JavaScript event loop.  A handler is cut at its awaits; each segment    *)
(* between two awaits is one action.  appendEventInMem numbers and applies *)
(* an event synchronously and only then awaits the encrypted broadcast, so *)
(* the event belongs to the segment that ends in the await.                *)
(*                                                                         *)
(* `flying' and `dying' are the suspended continuations of                 *)
(* serverHandleSnowball.  `replay' and `hits' are history variables: the   *)
(* table a listener gets by applying the event log alone, and the shots    *)
(* that dealt damage.                                                      *)
(***************************************************************************)
EXTENDS World, FiniteSets

CONSTANTS
    Shot,       \* snowball ids sent by the clients
    Unknown,    \* the name that stands in for a missing or an empty one
    DedupMs,    \* SHOT_DEDUP_MS
    MaxAwait,   \* longest time a broadcast keeps a handler suspended
    MaxLate,    \* bound: messages still being decrypted when a socket closes
    MaxUnnamed, \* bound: clients that have asked for an empty name
    MaxNow      \* bound on the clock

ASSUME CombatAssumption ==
    /\ Unknown \notin Player
    /\ DedupMs \in Nat \ {0}
    /\ MaxAwait \in Nat
    /\ MaxAwait < RespawnMs
    /\ MaxLate \in Nat
    /\ MaxUnnamed \in Nat
    /\ MaxNow \in Nat

VARIABLES
    now,            \* Date.now()
    joined,         \* ids handed out so far
    clients,        \* ids with a registered socket
    late,           \* messages of a closed socket that are still to be handled
    unnamed,        \* ids whose client.name is empty
    playersCache,   \* id -> snapshot or Absent
    nameless,       \* ids whose entry of playersCache has an empty name
    seenShots,      \* shot id -> time its entry expires, 0 without an entry
    flying,         \* handlers awaiting the broadcast of a snowball event
    dying,          \* handlers awaiting the broadcast of a lethal hit event
    kills,          \* rows of the kills table
    replay,         \* history: the events of the log applied in order
    hits            \* history: shot id and throw time of every hit

vars == <<now, joined, clients, late, unnamed, playersCache, nameless,
          seenShots, flying, dying, kills, replay, hits>>

Throw == [by : Player, shot : Shot, since : Nat]
Kill  == [by : Player, shot : Shot, victim : Player, respawnAt : Nat]
Row   == [by : Player, name : Player \cup {Unknown}, shot : Shot,
          victim : Player, respawnAt : Nat]

Init ==
    /\ now = 0
    /\ joined = {}
    /\ clients = {}
    /\ late = [p \in Player |-> 0]
    /\ unnamed = {}
    /\ playersCache = [p \in Player |-> IF p \in Bot THEN Fresh ELSE Absent]
    /\ nameless = {}
    /\ seenShots = [s \in Shot |-> 0]
    /\ flying = {}
    /\ dying = {}
    /\ kills = {}
    /\ replay = playersCache
    /\ hits = {}

----------------------------------------------------------------------------
(* Time passes while handlers wait, but no broadcast takes longer than     *)
(* MaxAwait.                                                               *)
Tick ==
    /\ now < MaxNow
    /\ \A f \in flying : now < f.since + MaxAwait
    /\ \A d \in dying : now + RespawnMs < d.respawnAt + MaxAwait
    /\ now' = now + 1
    /\ UNCHANGED <<joined, clients, late, unnamed, playersCache, nameless,
                   seenShots, flying, dying, kills, replay, hits>>

\* The hello handler after its awaits: client, cache entry and join event.
Hello(p) ==
    /\ p \notin joined \cup Bot
    /\ joined' = joined \cup {p}
    /\ clients' = clients \cup {p}
    /\ playersCache' = ApplyJoin(playersCache, p)
    /\ replay' = ApplyJoin(replay, p)
    /\ UNCHANGED <<now, late, unnamed, nameless, seenShots, flying, dying,
                   kills, hits>>

\* onclose.  Messages received before the close may still be at the await of
\* decodeClientWsMsg; their handlers keep the closed client.
OnClose(p) ==
    /\ p \in clients
    /\ clients' = clients \ {p}
    /\ \E n \in 0..MaxLate : late' = [late EXCEPT ![p] = n]
    /\ playersCache' = ApplyLeave(playersCache, p)
    /\ nameless' = nameless \ {p}
    /\ replay' = ApplyLeave(replay, p)
    /\ UNCHANGED <<now, joined, unnamed, seenShots, flying, dying, kills,
                   hits>>

----------------------------------------------------------------------------
\* A decrypted message reaches the switch of onmessage.
Receive(p) ==
    \/ p \in clients /\ late' = late
    \/ late[p] > 0 /\ late' = [late EXCEPT ![p] = @ - 1]

\* ping and chat, and whatever a handler rejects: a state with a bad pose, a
\* state of a frozen player, a snowball without a direction.
OtherMessage(p) ==
    /\ Receive(p)
    /\ UNCHANGED <<now, joined, clients, unnamed, playersCache, nameless,
                   seenShots, flying, dying, kills, replay, hits>>

\* The client keeps the name as it was sent (ws.ts:138), the entry and the
\* event get the clamped one, which is never empty.
Rename(p) ==
    /\ Receive(p)
    /\ \/ unnamed' = unnamed \ {p}
       \/ /\ Cardinality(unnamed \cup {p}) <= MaxUnnamed
          /\ unnamed' = unnamed \cup {p}
    /\ nameless' = nameless \ {p}
    /\ UNCHANGED <<now, joined, clients, playersCache, seenShots, flying, dying,
                   kills, replay, hits>>

\* Mutant: the table is written, but no respawn event is appended.
StateRevivesQuietly(p) ==
    /\ Receive(p)
    /\ Revivable(playersCache, p, now)
    /\ playersCache' = [playersCache EXCEPT ![p] = Fresh]
    /\ UNCHANGED <<now, joined, clients, unnamed, nameless, seenShots,
                   flying, dying, kills, replay, hits>>

\* serverHandleState, branch 2: the respawn time has come.
StateRevives(p) ==
    /\ Receive(p)
    /\ Revivable(playersCache, p, now)
    /\ playersCache' = ApplyRespawn([playersCache EXCEPT ![p] = Fresh], p)
    /\ replay' = ApplyRespawn(replay, p)
    /\ UNCHANGED <<now, joined, clients, unnamed, nameless, seenShots,
                   flying, dying, kills, hits>>

\* serverHandleState, last branch: hp and deadUntil are kept, or start afresh
\* when the entry is gone; client.name is written as it is.
StateMoves(p) ==
    /\ Receive(p)
    /\ playersCache[p] # Absent => playersCache[p].hp > 0
    /\ playersCache' = IF playersCache[p] = Absent
                       THEN [playersCache EXCEPT ![p] = Fresh]
                       ELSE playersCache
    /\ nameless' = (nameless \ {p}) \cup ({p} \cap unnamed)
    /\ UNCHANGED <<now, joined, clients, unnamed, seenShots, flying, dying,
                   kills, replay, hits>>

----------------------------------------------------------------------------
SeenShotBefore(s) == seenShots[s] > now

\* serverHandleSnowball up to its first await.  A shot id counts as seen even
\* when the thrower has no entry any more.
Snowball(p, s) ==
    /\ Receive(p)
    /\ ~SeenShotBefore(s)
    /\ seenShots' = [seenShots EXCEPT ![s] = now + DedupMs]
    /\ flying' = IF playersCache[p] = Absent THEN flying
                 ELSE flying \cup {[by |-> p, shot |-> s, since |-> now]}
    /\ UNCHANGED <<now, joined, clients, unnamed, playersCache, nameless,
                   dying, kills, replay, hits>>

\* Mutant: the dead can be hit.
AnyTarget(p) == {v \in Player \ {p} : playersCache[v] # Absent}

\* Who a shot of p may hit; which of them the trajectory meets first, if any,
\* is left open.
Target(p) ==
    {v \in Player \ {p} : playersCache[v] # Absent /\ ~Frozen(playersCache, v, now)}

Miss(f) ==
    /\ flying' = flying \ {f}
    /\ UNCHANGED <<now, joined, clients, late, unnamed, playersCache,
                   nameless, seenShots, dying, kills, replay, hits>>

\* The segment from the fresh read of the table to the hit event.
Hit(f, v) ==
    LET after == Damaged(playersCache[v], now)
    IN  /\ v \in Target(f.by)
        /\ flying' = flying \ {f}
        /\ playersCache' = ApplyHit([playersCache EXCEPT ![v] = after], v, after.hp)
        /\ replay' = ApplyHit(replay, v, after.hp)
        /\ hits' = hits \cup {[shot |-> f.shot, since |-> f.since]}
        /\ dying' = IF after.hp = 0
                    THEN dying \cup {[by |-> f.by, shot |-> f.shot, victim |-> v,
                                      respawnAt |-> now + RespawnMs]}
                    ELSE dying
        /\ UNCHANGED <<now, joined, clients, late, unnamed, nameless,
                       seenShots, kills>>

\* Mutant: an attacker who died meanwhile is not looked up.
LivingAttackerName(p) ==
    IF playersCache[p] = Absent \/ p \in nameless \/ Frozen(playersCache, p, now)
    THEN Unknown ELSE p

\* attacker?.name || "Unknown"
AttackerName(p) ==
    IF playersCache[p] = Absent \/ p \in nameless THEN Unknown ELSE p

\* Mutant: the death event computes the respawn time again.
DeathRestarts(d) ==
    /\ dying' = dying \ {d}
    /\ kills' = kills \cup {[by |-> d.by, name |-> AttackerName(d.by),
                             shot |-> d.shot, victim |-> d.victim,
                             respawnAt |-> d.respawnAt]}
    /\ playersCache' = ApplyDeath(playersCache, d.victim, now + RespawnMs)
    /\ replay' = ApplyDeath(replay, d.victim, now + RespawnMs)
    /\ UNCHANGED <<now, joined, clients, late, unnamed, nameless, seenShots,
                   flying, hits>>

\* The last segment of a lethal hit: recordKill, then the death event.
Death(d) ==
    /\ dying' = dying \ {d}
    /\ kills' = kills \cup {[by |-> d.by, name |-> AttackerName(d.by),
                             shot |-> d.shot, victim |-> d.victim,
                             respawnAt |-> d.respawnAt]}
    /\ playersCache' = ApplyDeath(playersCache, d.victim, d.respawnAt)
    /\ replay' = ApplyDeath(replay, d.victim, d.respawnAt)
    /\ UNCHANGED <<now, joined, clients, late, unnamed, nameless, seenShots,
                   flying, hits>>

----------------------------------------------------------------------------
\* Mutant: the sweep forgets every shot.
SweepAllShots ==
    /\ seenShots' = [s \in Shot |-> 0]
    /\ UNCHANGED <<now, joined, clients, late, unnamed, playersCache,
                   nameless, flying, dying, kills, replay, hits>>

\* The sweep of expired shot ids.
SweepShots ==
    /\ seenShots' = [s \in Shot |-> IF seenShots[s] <= now THEN 0 ELSE seenShots[s]]
    /\ UNCHANGED <<now, joined, clients, late, unnamed, playersCache,
                   nameless, flying, dying, kills, replay, hits>>

\* The clean-up of players without a socket.  Whether the entry is old enough
\* is left open; it is never one of a client.
Cleanup(p) ==
    /\ p \notin clients \cup Bot
    /\ playersCache' = [playersCache EXCEPT ![p] = Absent]
    /\ nameless' = nameless \ {p}
    /\ UNCHANGED <<now, joined, clients, late, unnamed, seenShots, flying,
                   dying, kills, replay, hits>>

Next ==
    \/ Tick
    \/ SweepShots
    \/ \E p \in Player : \/ Hello(p)
                         \/ OnClose(p)
                         \/ OtherMessage(p)
                         \/ Rename(p)
                         \/ StateRevives(p)
                         \/ StateMoves(p)
                         \/ Cleanup(p)
                         \/ \E s \in Shot : Snowball(p, s)
    \/ \E f \in flying : Miss(f) \/ \E v \in Player : Hit(f, v)
    \/ \E d \in dying : Death(d)

Spec == Init /\ [][Next]_vars
----------------------------------------------------------------------------
(* Type invariant.  hp stays within 0..MaxHp whatever the damage.          *)
TypeOK ==
    /\ now \in 0..MaxNow
    /\ joined \subseteq Player
    /\ clients \subseteq joined
    /\ late \in [Player -> 0..MaxLate]
    /\ unnamed \subseteq Player
    /\ playersCache \in [Player -> Snapshot \cup {Absent}]
    /\ nameless \subseteq unnamed
    /\ seenShots \in [Shot -> Nat]
    /\ flying \subseteq Throw
    /\ dying \subseteq Kill
    /\ kills \subseteq Row
    /\ replay \in [Player -> Snapshot \cup {Absent}]
    /\ hits \subseteq [shot : Shot, since : Nat]

(* The entry of a connected player is there and equals what the event log  *)
(* alone gives, except that a lethal hit is ahead of its death event by    *)
(* the respawn time; D are the deaths whose event is still to come.        *)
LogAgrees(D) ==
    \A p \in clients :
        /\ playersCache[p] # Absent
        /\ replay[p] # Absent
        /\ \/ replay[p] = playersCache[p]
           \/ /\ replay[p].hp = 0 /\ playersCache[p].hp = 0
              /\ \E d \in D : /\ d.victim = p
                              /\ d.respawnAt = playersCache[p].deadUntil

\* The deaths of D still describe their connected victims.
DeathsCurrent(D) ==
    \A d \in D : d.victim \in clients =>
        playersCache[d.victim] = [hp |-> 0, deadUntil |-> d.respawnAt]

\* D has at most one death of a connected player.
OnePending(D) ==
    \A d, e \in D : (d.victim = e.victim /\ d.victim \in clients) => d = e

(* "Keep cache and events consistent" (applyEventToCache): table and event *)
(* log agree but for the deaths whose handler waits for a broadcast.       *)
CacheIsReplay == LogAgrees(dying)

(* A suspended death event still describes its connected victim when it is *)
(* applied: it never kills a player who has respawned meanwhile, nor moves *)
(* the respawn time of a later death (serverHandleSnowball after its       *)
(* second await).                                                          *)
DeathEventIsCurrent == DeathsCurrent(dying)

(* A connected player who was killed stays down for the whole respawn      *)
(* time: until then no step of any handler gives hp back or moves the      *)
(* respawn time, unless the entry disappears with its player.              *)
DeadStayDown ==
    [][\A p \in clients :
          Frozen(playersCache, p, now) =>
              playersCache'[p] \in {playersCache[p], Absent}]_vars

(* Two recorded deaths of a connected player are at least the respawn time *)
(* apart: no pair of snowballs in flight kills the same life twice.        *)
KillSpacing ==
    \A k, m \in kills :
        (k # m /\ k.victim = m.victim /\ k.victim \in clients) =>
            \/ k.respawnAt >= m.respawnAt + RespawnMs
            \/ m.respawnAt >= k.respawnAt + RespawnMs

(* A kill is credited to the attacker, whatever happened while the lethal  *)
(* hit was broadcast, and to "Unknown" only when the attacker is no longer *)
(* connected by then or its client has an empty name, which a rename sets  *)
(* and a state message writes into the table (serverHandleSnowball).       *)
CreditUnlessGone ==
    [][\A k \in kills' \ kills :
          k.name = k.by \/ (k.name = Unknown /\ k.by \notin clients \ unnamed)]_vars

(* A shot id deals damage once: two hits with the same id come from throws *)
(* at least the de-duplication window apart (seenShotBefore and its sweep).*)
OneHitPerShot ==
    \A h, g \in hits :
        (h # g /\ h.shot = g.shot) =>
            \/ h.since >= g.since + DedupMs
            \/ g.since >= h.since + DedupMs
----------------------------------------------------------------------------
(* Inductive strengthening of the invariants above.                        *)

\* Only ids that were handed out act, suffer or are remembered, so a new id
\* starts with no history.
IdsKnown ==
    /\ joined \cap Bot = {}
    /\ \A p \in Player : late[p] > 0 => p \in joined
    /\ \A p \in Player : playersCache[p] # Absent => p \in joined \cup Bot
    /\ \A f \in flying : f.by \in joined \cup Bot
    /\ \A d \in dying : d.by \in joined \cup Bot /\ d.victim \in joined \cup Bot
    /\ \A k \in kills : k.by \in joined \cup Bot /\ k.victim \in joined \cup Bot

\* A death event is applied before its victim may respawn.
DeathsAhead ==
    \A d \in dying : now + RespawnMs <= d.respawnAt + MaxAwait

\* At most one death event of a connected player is on its way.
OneDeathPending == OnePending(dying)

\* Recorded deaths lie behind the present life, or are the present death.
DeathsBehind ==
    \A k \in kills : k.victim \in clients =>
        LET snap == playersCache[k.victim]
        IN  /\ snap.hp > 0 => k.respawnAt <= now
            /\ snap.hp = 0 => \/ k.respawnAt = snap.deadUntil
                              \/ k.respawnAt + RespawnMs <= snap.deadUntil
            /\ \A d \in dying : d.victim = k.victim =>
                                   k.respawnAt + RespawnMs <= d.respawnAt

\* Throws that hit or may still hit, and what seenShots knows of them.
Thrown == hits \cup {[shot |-> f.shot, since |-> f.since] : f \in flying}

ThrowsSpaced ==
    /\ \A t \in Thrown : \/ t.since + DedupMs <= now
                         \/ t.since + DedupMs <= seenShots[t.shot]
    /\ \A t, u \in Thrown :
          (t # u /\ t.shot = u.shot) => \/ t.since >= u.since + DedupMs
                                        \/ u.since >= t.since + DedupMs

----------------------------------------------------------------------------
(* What Combat promises: a game in which a lethal hit, the death it causes *)
(* and its place in the records are one step.  Only connected players are  *)
(* in it, and a death still on its way to the kills table counts already.  *)
Body == [p \in Player |-> IF p \in clients THEN playersCache[p] ELSE Absent]

Toll == {[victim |-> k.victim, respawnAt |-> k.respawnAt] :
            k \in {k \in kills \cup dying : k.victim \in clients}}

A == INSTANCE Arena WITH entered <- joined, body <- Body, toll <- Toll

(* Every step of the handlers, interleaved at their awaits, is a step of   *)
(* the atomic game or invisible in it.                                     *)
ImplementsArena == A!Spec
=============================================================================
