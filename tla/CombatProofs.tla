---------------------------- MODULE CombatProofs ----------------------------
(***************************************************************************)
(* Proofs about Combat and Bots, for every set of players, shots and bots  *)
(* and every value of the time constants that satisfies the assumptions:   *)
(* types, ids, clocks and shot ids; the agreement of the table of players  *)
(* with the event log, and that the dead stay down; the rows of the kills  *)
(* table; that Combat implements Arena; and that all of this is still so   *)
(* with bots, for any number of calls of updateBots in progress.           *)
(***************************************************************************)
EXTENDS Bots, TLAPS

(* What the operators on the table keep: entries stay snapshots.           *)
LEMMA FreshType == Fresh \in Snapshot
  BY WorldAssumption DEF Fresh, Snapshot

(* A hit leaves a snapshot behind: NewHp keeps hp within its bounds.       *)
LEMMA DamagedType ==
  ASSUME NEW snap \in Snapshot, NEW t \in Nat
  PROVE  /\ Damaged(snap, t) \in Snapshot
         /\ Damaged(snap, t).hp = NewHp(snap.hp)
         /\ NewHp(snap.hp) \in 0..MaxHp
  BY WorldAssumption DEF Damaged, NewHp, Snapshot

(* A hit writes the damaged entry and its event repeats the hp: together   *)
(* they are one update of the victim.                                      *)
LEMMA HitEffect ==
  ASSUME TypeOK, NEW f \in flying, NEW v \in Player, Hit(f, v)
  PROVE  /\ playersCache[v] \in Snapshot
         /\ playersCache[v].hp = 0 => playersCache[v].deadUntil <= now
         /\ Damaged(playersCache[v], now) \in Snapshot
         /\ playersCache' = [playersCache EXCEPT ![v] = Damaged(playersCache[v], now)]
         /\ replay' = ApplyHit(replay, v, NewHp(playersCache[v].hp))
         /\ NewHp(playersCache[v].hp) \in 0..MaxHp
<1> USE WorldAssumption, CombatAssumption DEF TypeOK
<1> DEFINE after == Damaged(playersCache[v], now)
<1>1. /\ playersCache[v] \in Snapshot
      /\ playersCache[v].hp = 0 => playersCache[v].deadUntil <= now
  BY DEF Hit, Target, Frozen, Snapshot
<1>2. after \in Snapshot /\ after.hp = NewHp(playersCache[v].hp) /\ after.hp \in 0..MaxHp
  <2>1. now \in Nat
    OBVIOUS
  <2>2. playersCache[v] \in Snapshot
    BY <1>1, Zenon
  <2> HIDE DEF TypeOK
  <2> QED
    BY <2>1, <2>2, DamagedType, Zenon
<1>3. after = [hp |-> after.hp, deadUntil |-> after.deadUntil]
  BY Zenon DEF Damaged
<1>4. playersCache' = ApplyHit([playersCache EXCEPT ![v] = after], v, after.hp)
  BY Zenon DEF Hit
<1> HIDE DEF after
<1>5. [playersCache EXCEPT ![v] = after][v] = after
  BY Zenon
<1>6. playersCache' = [playersCache EXCEPT ![v] = after]
  BY <1>2, <1>3, <1>4, <1>5, Zenon DEF ApplyHit, Overwrite
<1>7. replay' = ApplyHit(replay, v, after.hp)
  BY Zenon DEF Hit, after
<1> QED
  BY <1>1, <1>2, <1>6, <1>7, Zenon DEF after

(* A revival writes a fresh entry, and its event writes it again: together *)
(* they are one update of the player, and nobody else is touched.          *)
LEMMA ReviveEffect ==
  ASSUME TypeOK, NEW p \in Player, StateRevives(p)
  PROVE  /\ playersCache' = [playersCache EXCEPT ![p] = Fresh]
         /\ \A q \in Player : q # p => replay'[q] = replay[q]
         /\ replay[p] # Absent => replay' = [replay EXCEPT ![p] = Fresh]
<1>1. Fresh # Absent
  BY FreshType, WorldAssumption, Zenon
<1>2. playersCache \in [Player -> Snapshot \cup {Absent}]
      /\ replay \in [Player -> Snapshot \cup {Absent}]
  BY Zenon DEF TypeOK
<1> DEFINE written == [playersCache EXCEPT ![p] = Fresh]
<1>3. playersCache' = Overwrite(written, p, Fresh) /\ replay' = Overwrite(replay, p, Fresh)
  BY Zenon DEF StateRevives, ApplyRespawn
<1>4. written[p] = Fresh /\ [written EXCEPT ![p] = Fresh] = written
  BY <1>2, Zenon
<1>5. playersCache' = written
  <2> HIDE DEF written
  <2> QED
    BY <1>1, <1>3, <1>4, Zenon DEF Overwrite
<1>6. /\ \A q \in Player : q # p => replay'[q] = replay[q]
      /\ replay[p] # Absent => replay' = [replay EXCEPT ![p] = Fresh]
  BY <1>2, <1>3, Zenon DEF Overwrite
<1> QED
  BY <1>5, <1>6, Zenon

(* Every step keeps the types.                                             *)
LEMMA TypeStep ==
  TypeOK /\ [Next]_vars => TypeOK'
<1> USE WorldAssumption, CombatAssumption
<1> SUFFICES ASSUME TypeOK, [Next]_vars
             PROVE  TypeOK'
  BY Zenon
<1> USE DEF TypeOK
<1>1. CASE Tick
  BY <1>1 DEF Tick
<1>2. CASE SweepShots
  BY <1>2, Zenon DEF SweepShots
<1>3. ASSUME NEW p \in Player, Hello(p)
      PROVE  TypeOK'
  BY <1>3, FreshType, Zenon DEF Hello, ApplyJoin
<1>4. ASSUME NEW p \in Player, OnClose(p)
      PROVE  TypeOK'
  BY <1>4 DEF OnClose, ApplyLeave
<1>5. ASSUME NEW p \in Player, OtherMessage(p) \/ Rename(p)
      PROVE  TypeOK'
  <2>1. late' \in [Player -> 0..MaxLate]
    BY <1>5 DEF OtherMessage, Rename, Receive
  <2>2. unnamed' \subseteq Player /\ nameless' \subseteq unnamed'
    BY <1>5, Zenon DEF OtherMessage, Rename
  <2> QED
    BY <1>5, <2>1, <2>2, Zenon DEF OtherMessage, Rename
<1>6. ASSUME NEW p \in Player, StateRevives(p)
      PROVE  TypeOK'
  BY <1>6, FreshType DEF StateRevives, Receive, ApplyRespawn, Overwrite
<1>7. ASSUME NEW p \in Player, StateMoves(p)
      PROVE  TypeOK'
  BY <1>7, FreshType DEF StateMoves, Receive
<1>8. ASSUME NEW p \in Player, Cleanup(p)
      PROVE  TypeOK'
  BY <1>8, Zenon DEF Cleanup
<1>9. ASSUME NEW p \in Player, NEW s \in Shot, Snowball(p, s)
      PROVE  TypeOK'
  BY <1>9 DEF Snowball, Receive, Throw
<1>10. ASSUME NEW f \in flying, Miss(f)
       PROVE  TypeOK'
  BY <1>10, Zenon DEF Miss
<1>11. ASSUME NEW f \in flying, NEW v \in Player, Hit(f, v)
       PROVE  TypeOK'
  <2>1. playersCache' \in [Player -> Snapshot \cup {Absent}]
    BY <1>11, HitEffect, Zenon
  <2>2. replay' \in [Player -> Snapshot \cup {Absent}]
    BY <1>11, HitEffect DEF ApplyHit, Overwrite, Snapshot
  <2>3. dying' \subseteq Kill
    BY <1>11 DEF Hit, Throw, Kill
  <2>4. hits' \subseteq [shot : Shot, since : Nat]
    BY <1>11 DEF Hit, Throw
  <2> QED
    BY <1>11, <2>1, <2>2, <2>3, <2>4, Zenon DEF Hit
<1>12. ASSUME NEW d \in dying, Death(d)
       PROVE  TypeOK'
  <2>1. d \in Kill
    BY <1>12, Zenon
  <2>2. playersCache' \in [Player -> Snapshot \cup {Absent}]
    BY <1>12, <2>1 DEF Death, Kill, ApplyDeath, Overwrite, Snapshot
  <2>3. replay' \in [Player -> Snapshot \cup {Absent}]
    BY <1>12, <2>1 DEF Death, Kill, ApplyDeath, Overwrite, Snapshot
  <2>4. kills' \subseteq Row
    BY <1>12, <2>1 DEF Death, Kill, Row, AttackerName
  <2> QED
    BY <1>12, <2>2, <2>3, <2>4, Zenon DEF Death
<1>13. CASE UNCHANGED vars
  BY <1>13, Zenon DEF vars
<1> QED
  BY <1>1, <1>2, <1>3, <1>4, <1>5, <1>6, <1>7, <1>8, <1>9, <1>10, <1>11,
     <1>12, <1>13, Zenon DEF Next

(* Combat's variables keep their types; in particular hp stays in          *)
(* 0..MaxHp, no matter how many handlers are suspended.                    *)
THEOREM TypeCorrect == Spec => []TypeOK
<1> USE WorldAssumption, CombatAssumption
<1>1. Init => TypeOK
  BY FreshType DEF Init, TypeOK
<1> QED
  BY <1>1, TypeStep, PTL DEF Spec

----------------------------------------------------------------------------
(* Every step keeps to ids that were handed out.                           *)
LEMMA IdsStep ==
  TypeOK /\ IdsKnown /\ [Next]_vars => IdsKnown'
<1> USE WorldAssumption, CombatAssumption
<1> SUFFICES ASSUME TypeOK, IdsKnown, [Next]_vars
             PROVE  IdsKnown'
  BY Zenon
<1> USE DEF IdsKnown, TypeOK
<1>1. CASE Tick
  BY <1>1, Zenon DEF Tick
<1>2. CASE SweepShots
  BY <1>2, Zenon DEF SweepShots
<1>3. ASSUME NEW p \in Player, Hello(p)
      PROVE  IdsKnown'
  BY <1>3 DEF Hello, ApplyJoin
<1>4. ASSUME NEW p \in Player, OnClose(p)
      PROVE  IdsKnown'
  BY <1>4 DEF OnClose, ApplyLeave
<1>5. ASSUME NEW p \in Player, OtherMessage(p) \/ Rename(p)
      PROVE  IdsKnown'
  BY <1>5, Zenon DEF OtherMessage, Rename, Receive
<1>6. ASSUME NEW p \in Player, StateRevives(p)
      PROVE  IdsKnown'
  BY <1>6 DEF StateRevives, Receive, Revivable, ApplyRespawn, Overwrite
<1>7. ASSUME NEW p \in Player, StateMoves(p)
      PROVE  IdsKnown'
  BY <1>7 DEF StateMoves, Receive
<1>8. ASSUME NEW p \in Player, Cleanup(p)
      PROVE  IdsKnown'
  BY <1>8, Zenon DEF Cleanup
<1>9. ASSUME NEW p \in Player, NEW s \in Shot, Snowball(p, s)
      PROVE  IdsKnown'
  <2>1. p \in joined
    BY <1>9, Zenon DEF Snowball, Receive
  <2> QED
    BY <1>9, <2>1 DEF Snowball, Receive
<1>10. ASSUME NEW f \in flying, Miss(f)
       PROVE  IdsKnown'
  BY <1>10, Zenon DEF Miss
<1>11. ASSUME NEW f \in flying, NEW v \in Player, Hit(f, v)
       PROVE  IdsKnown'
  <2>1. \A p \in Player : playersCache'[p] # Absent => playersCache[p] # Absent
    BY <1>11, HitEffect DEF Snapshot
  <2>2. v \in joined \cup Bot /\ f.by \in joined \cup Bot
    BY <1>11, Zenon DEF Hit, Target
  <2>3. \A d \in dying' : d.by \in joined \cup Bot /\ d.victim \in joined \cup Bot
    BY <1>11, <2>2 DEF Hit
  <2> QED
    BY <1>11, <2>1, <2>3, Zenon DEF Hit
<1>12. ASSUME NEW d \in dying, Death(d)
       PROVE  IdsKnown'
  <2>1. \A p \in Player : playersCache'[p] # Absent => playersCache[p] # Absent
    BY <1>12, Zenon DEF Death, ApplyDeath, Overwrite
  <2> QED
    BY <1>12, <2>1 DEF Death
<1>13. CASE UNCHANGED vars
  BY <1>13, Zenon DEF vars
<1> QED
  BY <1>1, <1>2, <1>3, <1>4, <1>5, <1>6, <1>7, <1>8,
     <1>9, <1>10, <1>11, <1>12, <1>13, Zenon DEF Next

(* The ids in every table and every suspended handler were handed out.     *)
LEMMA IdsAreKnown == Spec => []IdsKnown
<1> USE WorldAssumption, CombatAssumption
<1>1. Init => IdsKnown
  BY DEF Init, IdsKnown
<1> QED
  BY <1>1, IdsStep, TypeCorrect, PTL DEF Spec

(* Every step leaves the suspended deaths ahead of the clock.              *)
LEMMA AheadStep ==
  TypeOK /\ DeathsAhead /\ [Next]_vars => DeathsAhead'
<1> USE WorldAssumption, CombatAssumption
<1> SUFFICES ASSUME TypeOK, DeathsAhead, [Next]_vars
             PROVE  DeathsAhead'
  BY Zenon
<1> USE DEF DeathsAhead, TypeOK
<1>1. CASE Tick
  BY <1>1 DEF Tick, Kill
<1>2. CASE SweepShots
  BY <1>2, Zenon DEF SweepShots
<1>3. ASSUME NEW p \in Player, Hello(p)
      PROVE  DeathsAhead'
  BY <1>3, Zenon DEF Hello
<1>4. ASSUME NEW p \in Player, OnClose(p)
      PROVE  DeathsAhead'
  BY <1>4, Zenon DEF OnClose
<1>5. ASSUME NEW p \in Player, OtherMessage(p) \/ Rename(p)
      PROVE  DeathsAhead'
  BY <1>5, Zenon DEF OtherMessage, Rename
<1>6. ASSUME NEW p \in Player, StateRevives(p)
      PROVE  DeathsAhead'
  BY <1>6, Zenon DEF StateRevives
<1>7. ASSUME NEW p \in Player, StateMoves(p)
      PROVE  DeathsAhead'
  BY <1>7, Zenon DEF StateMoves
<1>8. ASSUME NEW p \in Player, Cleanup(p)
      PROVE  DeathsAhead'
  BY <1>8, Zenon DEF Cleanup
<1>9. ASSUME NEW p \in Player, NEW s \in Shot, Snowball(p, s)
      PROVE  DeathsAhead'
  BY <1>9, Zenon DEF Snowball
<1>10. ASSUME NEW f \in flying, Miss(f)
       PROVE  DeathsAhead'
  BY <1>10, Zenon DEF Miss
<1>11. ASSUME NEW f \in flying, NEW v \in Player, Hit(f, v)
       PROVE  DeathsAhead'
  BY <1>11 DEF Hit
<1>12. ASSUME NEW d \in dying, Death(d)
       PROVE  DeathsAhead'
  BY <1>12, Zenon DEF Death
<1>13. CASE UNCHANGED vars
  BY <1>13, Zenon DEF vars
<1> QED
  BY <1>1, <1>2, <1>3, <1>4, <1>5, <1>6, <1>7, <1>8,
     <1>9, <1>10, <1>11, <1>12, <1>13, Zenon DEF Next

(* No broadcast outlasts the respawn time, so a suspended death is always  *)
(* ahead of the clock.                                                     *)
LEMMA DeathsAreAhead == Spec => []DeathsAhead
<1> USE WorldAssumption, CombatAssumption
<1>1. Init => DeathsAhead
  BY Zenon DEF Init, DeathsAhead
<1> QED
  BY <1>1, AheadStep, TypeCorrect, PTL DEF Spec

----------------------------------------------------------------------------
(* Every step keeps the throws with one shot id the de-duplication window  *)
(* apart (seenShotBefore).                                                 *)
LEMMA ThrowStep == TypeOK /\ ThrowsSpaced /\ [Next]_vars => ThrowsSpaced'
<1> USE WorldAssumption, CombatAssumption
<1> SUFFICES ASSUME TypeOK, ThrowsSpaced, [Next]_vars
             PROVE  ThrowsSpaced'
  BY Zenon
<1>0. /\ Thrown \subseteq [shot : Shot, since : Nat]
      /\ now \in Nat /\ seenShots \in [Shot -> Nat]
  BY DEF TypeOK, Thrown, Throw
<1> USE DEF ThrowsSpaced
<1>1. CASE Tick
  <2>1. Thrown' = Thrown
    BY <1>1, Zenon DEF Tick, Thrown
  <2> QED
    BY <1>1, <2>1, <1>0 DEF Tick
<1>2. CASE SweepShots
  <2>1. Thrown' = Thrown
    BY <1>2, Zenon DEF SweepShots, Thrown
  <2> QED
    BY <1>2, <2>1, <1>0 DEF SweepShots
<1>3. ASSUME NEW p \in Player, Hello(p)
      PROVE  ThrowsSpaced'
  <2>1. Thrown' = Thrown
    BY <1>3, Zenon DEF Hello, Thrown
  <2> QED
    BY <1>3, <2>1, <1>0, Zenon DEF Hello
<1>4. ASSUME NEW p \in Player, OnClose(p)
      PROVE  ThrowsSpaced'
  <2>1. Thrown' = Thrown
    BY <1>4, Zenon DEF OnClose, Thrown
  <2> QED
    BY <1>4, <2>1, <1>0, Zenon DEF OnClose
<1>5. ASSUME NEW p \in Player, OtherMessage(p) \/ Rename(p)
      PROVE  ThrowsSpaced'
  <2>1. Thrown' = Thrown
    BY <1>5, Zenon DEF OtherMessage, Rename, Thrown
  <2> QED
    BY <1>5, <2>1, <1>0, Zenon DEF OtherMessage, Rename
<1>6. ASSUME NEW p \in Player, StateRevives(p)
      PROVE  ThrowsSpaced'
  <2>1. Thrown' = Thrown
    BY <1>6, Zenon DEF StateRevives, Thrown
  <2> QED
    BY <1>6, <2>1, <1>0, Zenon DEF StateRevives
<1>7. ASSUME NEW p \in Player, StateMoves(p)
      PROVE  ThrowsSpaced'
  <2>1. Thrown' = Thrown
    BY <1>7, Zenon DEF StateMoves, Thrown
  <2> QED
    BY <1>7, <2>1, <1>0, Zenon DEF StateMoves
<1>8. ASSUME NEW p \in Player, Cleanup(p)
      PROVE  ThrowsSpaced'
  <2>1. Thrown' = Thrown
    BY <1>8, Zenon DEF Cleanup, Thrown
  <2> QED
    BY <1>8, <2>1, <1>0, Zenon DEF Cleanup
<1>9. ASSUME NEW p \in Player, NEW s \in Shot, Snowball(p, s)
      PROVE  ThrowsSpaced'
  <2> DEFINE new == [shot |-> s, since |-> now]
  <2>1. Thrown' \subseteq Thrown \cup {new}
    BY <1>9 DEF Snowball, Thrown
  <2>2. \A t \in Thrown : t.shot = s => t.since + DedupMs <= now
    BY <1>9, <1>0 DEF Snowball, SeenShotBefore
  <2>3. UNCHANGED now /\ seenShots' = [seenShots EXCEPT ![s] = now + DedupMs]
    BY <1>9, Zenon DEF Snowball
  <2> QED
    BY <2>1, <2>2, <2>3, <1>0
<1>10. ASSUME NEW f \in flying, Miss(f)
       PROVE  ThrowsSpaced'
  <2>1. Thrown' \subseteq Thrown
    BY <1>10, Zenon DEF Miss, Thrown
  <2> QED
    BY <1>10, <2>1, <1>0, Zenon DEF Miss
<1>11. ASSUME NEW f \in flying, NEW v \in Player, Hit(f, v)
       PROVE  ThrowsSpaced'
  <2>1. Thrown' \subseteq Thrown
    BY <1>11, Zenon DEF Hit, Thrown
  <2> QED
    BY <1>11, <2>1, <1>0, Zenon DEF Hit
<1>12. ASSUME NEW d \in dying, Death(d)
       PROVE  ThrowsSpaced'
  <2>1. Thrown' = Thrown
    BY <1>12, Zenon DEF Death, Thrown
  <2> QED
    BY <1>12, <2>1, <1>0, Zenon DEF Death
<1>13. CASE UNCHANGED vars
  <2>1. Thrown' = Thrown
    BY <1>13, Zenon DEF vars, Thrown
  <2> QED
    BY <1>13, <2>1, <1>0, Zenon DEF vars
<1> QED
  BY <1>1, <1>2, <1>3, <1>4, <1>5, <1>6, <1>7, <1>8,
     <1>9, <1>10, <1>11, <1>12, <1>13, Zenon DEF Next

(* Every throw that hit or may still hit is spaced from the others with    *)
(* its shot id, because seenShots remembers it for the whole window.       *)
LEMMA ThrowsAreSpaced == Spec => []ThrowsSpaced
<1>1. Init => ThrowsSpaced
  BY Zenon DEF Init, ThrowsSpaced, Thrown
<1> QED
  BY <1>1, ThrowStep, TypeCorrect, PTL DEF Spec

(* A shot id deals damage at most once per de-duplication window, however  *)
(* often its message is repeated and however long the sweeps are delayed.  *)
THEOREM ShotsHitOnce == Spec => []OneHitPerShot
<1>1. ThrowsSpaced => OneHitPerShot
  BY Zenon DEF ThrowsSpaced, Thrown, OneHitPerShot
<1> QED
  BY <1>1, ThrowsAreSpaced, PTL

----------------------------------------------------------------------------
(* Table and event log.                                                    *)

\* The three facts that hold together while handlers are suspended, for any
\* set D of deaths on their way: others than the handlers of Combat may deal
\* them, too.
AgreeOn(D) == LogAgrees(D) /\ DeathsCurrent(D) /\ OnePending(D)

Agreement == AgreeOn(dying)

\* What it says of the deaths of Combat alone, whoever else deals deaths.
Settled ==
    /\ DeathsCurrent(dying) /\ OnePending(dying)
    /\ \A p \in clients : playersCache[p] # Absent

(* The agreement on more deaths than those of Combat settles these.        *)
LEMMA AgreeSettles ==
  ASSUME NEW D, AgreeOn(D), dying \subseteq D
  PROVE  Settled
  BY Zenon DEF AgreeOn, LogAgrees, DeathsCurrent, OnePending, Settled

LEMMA AgreementSettles == Agreement => Settled
  BY AgreeSettles, Zenon DEF Agreement

\* The deaths of D are of players with an id, and applied before the victim
\* may respawn.
Ahead(D) ==
    \A d \in D : /\ d.respawnAt \in Nat
                 /\ d.victim \in joined \cup Bot
                 /\ now + RespawnMs <= d.respawnAt + MaxAwait

LEMMA DyingIsAhead ==
  ASSUME TypeOK, IdsKnown, DeathsAhead
  PROVE  Ahead(dying)
  BY Zenon DEF TypeOK, IdsKnown, DeathsAhead, Ahead, Kill

(* A player who may be hit has no death on its way: the suspended death    *)
(* would be ahead of the clock and its victim frozen.                      *)
LEMMA TargetsHaveNoPendingDeath ==
  ASSUME TypeOK, NEW D, Ahead(D), DeathsCurrent(D),
         NEW v \in clients,
         playersCache[v].hp = 0 => playersCache[v].deadUntil <= now,
         NEW d \in D
  PROVE  d.victim # v
<1> SUFFICES ASSUME d.victim = v PROVE FALSE
  BY Zenon
<1>1. playersCache[v].hp = 0 /\ playersCache[v].deadUntil = d.respawnAt
  <2>1. playersCache[v] = [hp |-> 0, deadUntil |-> d.respawnAt]
    BY Zenon DEF DeathsCurrent
  <2> QED
    BY <2>1
<1>2. now < d.respawnAt /\ d.respawnAt \in Nat /\ now \in Nat
  BY WorldAssumption, CombatAssumption DEF Ahead, TypeOK
<1> QED
  BY <1>1, <1>2

(* The death event changes nothing for a connected player: the lethal hit  *)
(* has already written what it says.                                       *)
LEMMA DeathInvisible ==
  ASSUME TypeOK, DeathsCurrent(dying), NEW d \in dying, Death(d), NEW p \in clients
  PROVE  playersCache'[p] = playersCache[p]
  BY Zenon DEF TypeOK, DeathsCurrent, Death, ApplyDeath, Overwrite, Kill

(* A hit, whoever threw the snowball, keeps the agreement: a lethal one    *)
(* adds the victim's only death to those on their way.                     *)
LEMMA HitAgrees ==
  ASSUME TypeOK, NEW D, NEW E, Ahead(D), AgreeOn(D), NEW v \in Player, NEW after, NEW new,
         playersCache[v] \in Snapshot,
         playersCache[v].hp = 0 => playersCache[v].deadUntil <= now,
         after = Damaged(playersCache[v], now), after \in Snapshot,
         playersCache' = [playersCache EXCEPT ![v] = after],
         replay' = ApplyHit(replay, v, after.hp),
         clients' = clients,
         new.victim = v, new.respawnAt = now + RespawnMs,
         E = IF after.hp = 0 THEN D \cup {new} ELSE D
  PROVE  AgreeOn(E)'
<1>1. /\ playersCache \in [Player -> Snapshot \cup {Absent}]
      /\ replay \in [Player -> Snapshot \cup {Absent}]
      /\ clients \subseteq Player /\ Absent \notin Snapshot
  BY WorldAssumption, Zenon DEF TypeOK
<1>2. \A d \in D : d.victim \in clients => d.victim # v
  BY TargetsHaveNoPendingDeath, Zenon DEF AgreeOn
<1>3. after.hp = 0 => after = [hp |-> 0, deadUntil |-> new.respawnAt]
  BY Zenon DEF Damaged
<1>4. \A q \in Player : q # v => replay'[q] = replay[q] /\ playersCache'[q] = playersCache[q]
  BY <1>1, Zenon DEF ApplyHit, Overwrite
<1>5. v \in clients => /\ replay'[v] # Absent
                       /\ \/ replay'[v] = after
                          \/ replay'[v].hp = 0 /\ after.hp = 0
  <2> SUFFICES ASSUME v \in clients
               PROVE  /\ replay'[v] # Absent
                      /\ \/ replay'[v] = after
                         \/ replay'[v].hp = 0 /\ after.hp = 0
    BY Zenon
  <2>1. replay[v] = playersCache[v] /\ replay[v] # Absent
    BY <1>2, Zenon DEF AgreeOn, LogAgrees
  <2>2. replay'[v] = [hp |-> after.hp, deadUntil |-> playersCache[v].deadUntil]
    BY <1>1, <2>1, Zenon DEF ApplyHit, Overwrite
  <2>3. after.hp # 0 => after.deadUntil = playersCache[v].deadUntil
    BY Zenon DEF Damaged
  <2>4. after = [hp |-> after.hp, deadUntil |-> after.deadUntil]
    BY Zenon DEF Damaged
  <2>5. replay'[v] \in Snapshot
    BY <2>2 DEF Snapshot
  <2> QED
    BY <1>1, <2>2, <2>3, <2>4, <2>5
<1>6. playersCache'[v] = after /\ after # Absent
  BY <1>1, Zenon
<1>7. LogAgrees(E)'
  <2> SUFFICES ASSUME NEW p \in clients
               PROVE  /\ playersCache'[p] # Absent
                      /\ replay'[p] # Absent
                      /\ \/ replay'[p] = playersCache'[p]
                         \/ /\ replay'[p].hp = 0 /\ playersCache'[p].hp = 0
                            /\ \E d \in E :
                                  /\ d.victim = p
                                  /\ d.respawnAt = playersCache'[p].deadUntil
    BY Zenon DEF LogAgrees
  <2>1. CASE p = v
    <3>1. CASE after.hp = 0
      <4>1. new \in E /\ new.victim = p
        BY <2>1, <3>1, Zenon
      <4>2. after.deadUntil = new.respawnAt
        BY <1>3, <3>1
      <4> QED
        BY <1>5, <1>6, <2>1, <3>1, <4>1, <4>2
    <3>2. CASE after.hp # 0
      BY <1>5, <1>6, <2>1, <3>2, Zenon
    <3> QED
      BY <3>1, <3>2, Zenon
  <2>2. CASE p # v
    <3>1. replay'[p] = replay[p] /\ playersCache'[p] = playersCache[p]
      BY <1>1, <1>4, <2>2, Zenon
    <3>2. \A d \in D : d \in E
      BY Zenon
    <3>3. /\ playersCache[p] # Absent
          /\ replay[p] # Absent
          /\ \/ replay[p] = playersCache[p]
             \/ /\ replay[p].hp = 0 /\ playersCache[p].hp = 0
                /\ \E d \in D : /\ d.victim = p
                                /\ d.respawnAt = playersCache[p].deadUntil
      BY Zenon DEF AgreeOn, LogAgrees
    <3> QED
      BY <3>1, <3>2, <3>3, Zenon
  <2> QED
    BY <2>1, <2>2, Zenon
<1>8. DeathsCurrent(E)'
  <2> SUFFICES ASSUME NEW d \in E, d.victim \in clients
               PROVE  playersCache'[d.victim] = [hp |-> 0, deadUntil |-> d.respawnAt]
    BY Zenon DEF DeathsCurrent
  <2>1. CASE d \in D
    BY <1>1, <1>2, <1>4, <2>1, Zenon DEF AgreeOn, DeathsCurrent
  <2>2. CASE d \notin D
    <3>1. after.hp = 0 /\ d = new
      BY <2>2, Zenon
    <3> QED
      BY <1>3, <1>6, <3>1, Zenon
  <2> QED
    BY <2>1, <2>2, Zenon
<1>9. OnePending(E)'
  <2> SUFFICES ASSUME NEW d \in E, NEW e \in E, d.victim = e.victim, d.victim \in clients
               PROVE  d = e
    BY Zenon DEF OnePending
  <2>1. (d \in D \/ d = new) /\ (e \in D \/ e = new)
    BY Zenon
  <2> QED
    BY <1>2, <2>1, Zenon DEF AgreeOn, OnePending
<1> QED
  BY <1>7, <1>8, <1>9, Zenon DEF AgreeOn

(* The event of a death that was on its way keeps the agreement, and       *)
(* changes nothing for a connected player.                                 *)
LEMMA DeathAgrees ==
  ASSUME TypeOK, NEW D, NEW d \in D, NEW E, E \subseteq D, D \ {d} \subseteq E, AgreeOn(D),
         d.victim \in Player,
         playersCache' = ApplyDeath(playersCache, d.victim, d.respawnAt),
         replay' = ApplyDeath(replay, d.victim, d.respawnAt),
         clients' = clients
  PROVE  /\ AgreeOn(E)'
         /\ \A p \in clients : playersCache'[p] = playersCache[p]
<1>1. /\ playersCache \in [Player -> Snapshot \cup {Absent}]
      /\ replay \in [Player -> Snapshot \cup {Absent}]
      /\ clients \subseteq Player
  BY Zenon DEF TypeOK
<1>2. \A p \in Player : p # d.victim => replay'[p] = replay[p] /\ playersCache'[p] = playersCache[p]
  BY <1>1, Zenon DEF ApplyDeath, Overwrite
<1>3. d.victim \in clients =>
        /\ playersCache[d.victim] = [hp |-> 0, deadUntil |-> d.respawnAt]
        /\ playersCache[d.victim] # Absent /\ replay[d.victim] # Absent
  BY Zenon DEF AgreeOn, DeathsCurrent, LogAgrees
<1>4. d.victim \in clients =>
        /\ playersCache'[d.victim] = playersCache[d.victim]
        /\ replay'[d.victim] = playersCache[d.victim]
  BY <1>1, <1>3, Zenon DEF ApplyDeath, Overwrite
<1>5. \A p \in clients : playersCache'[p] = playersCache[p]
  BY <1>1, <1>2, <1>4, Zenon
<1>6. LogAgrees(E)'
  <2> SUFFICES ASSUME NEW p \in clients
               PROVE  /\ playersCache'[p] # Absent
                      /\ replay'[p] # Absent
                      /\ \/ replay'[p] = playersCache'[p]
                         \/ /\ replay'[p].hp = 0 /\ playersCache'[p].hp = 0
                            /\ \E e \in E :
                                  /\ e.victim = p
                                  /\ e.respawnAt = playersCache'[p].deadUntil
    BY Zenon DEF LogAgrees
  <2>1. CASE p = d.victim
    BY <1>3, <1>4, <2>1, Zenon
  <2>2. CASE p # d.victim
    <3>1. replay'[p] = replay[p] /\ playersCache'[p] = playersCache[p]
      BY <1>1, <1>2, <2>2, Zenon
    <3>2. \A e \in D : e.victim = p => e \in E
      BY <2>2, Zenon
    <3> QED
      BY <3>1, <3>2, Zenon DEF AgreeOn, LogAgrees
  <2> QED
    BY <2>1, <2>2, Zenon
<1>7. DeathsCurrent(E)' /\ OnePending(E)'
  BY <1>5, Zenon DEF AgreeOn, DeathsCurrent, OnePending
<1> QED
  BY <1>5, <1>6, <1>7, Zenon DEF AgreeOn

(* Every step of the handlers keeps the table and the event log in         *)
(* agreement, with at most one death of a connected player on its way;     *)
(* X are the deaths that others have dealt.                                *)
LEMMA AgreementStep ==
  ASSUME TypeOK, TypeOK', IdsKnown, DeathsAhead, NEW X, Ahead(X), AgreeOn(dying \cup X),
         [Next]_vars
  PROVE  AgreeOn(dying \cup X)'
<1> USE WorldAssumption, CombatAssumption
<1> PICK D : D = dying \cup X
  BY Zenon
<1> PICK E : E = dying' \cup X
  BY Zenon
<1>0. Ahead(D) /\ AgreeOn(D)
  BY DyingIsAhead, Zenon DEF Ahead
<1> SUFFICES AgreeOn(E)'
  BY Zenon
<1>a. /\ DeathsCurrent(D)
      /\ clients \subseteq Player /\ clients' \subseteq Player
      /\ playersCache \in [Player -> Snapshot \cup {Absent}]
      /\ replay \in [Player -> Snapshot \cup {Absent}]
  BY <1>0, Zenon DEF AgreeOn, TypeOK
<1>1. ASSUME UNCHANGED <<clients, replay, dying>>,
             \A q \in clients : playersCache'[q] = playersCache[q]
      PROVE  AgreeOn(E)'
  <2>1. E = D
    BY <1>1, Zenon
  <2> QED
    BY <1>0, <1>1, <2>1 DEF AgreeOn, LogAgrees, DeathsCurrent, OnePending
<1>2. CASE Tick \/ SweepShots
    BY <1>1, <1>2, Zenon DEF Tick, SweepShots
<1>3. ASSUME NEW p \in Player, Hello(p)
        PROVE  AgreeOn(E)'
    <2>1. \A d \in D : d.victim # p
      BY <1>0, <1>3, Zenon DEF Hello, Ahead
    <2>2. /\ E = D /\ clients' = clients \cup {p} /\ p \notin clients
          /\ playersCache' = [playersCache EXCEPT ![p] = Fresh]
          /\ replay' = [replay EXCEPT ![p] = Fresh]
      BY <1>3, Zenon DEF Hello, ApplyJoin, TypeOK
    <2> QED
      BY <1>0, <1>a, <2>1, <2>2, FreshType DEF AgreeOn, LogAgrees,
         DeathsCurrent, OnePending
<1>4. ASSUME NEW p \in Player, OnClose(p)
        PROVE  AgreeOn(E)'
    BY <1>0, <1>a, <1>4 DEF OnClose, ApplyLeave,
                            AgreeOn, LogAgrees, DeathsCurrent, OnePending
<1>5. ASSUME NEW p \in Player, OtherMessage(p) \/ Rename(p)
        PROVE  AgreeOn(E)'
    BY <1>1, <1>5, Zenon DEF OtherMessage, Rename
<1>6. ASSUME NEW p \in Player, StateRevives(p)
        PROVE  AgreeOn(E)'
    <2>1. \A d \in D : d.victim \in clients => d.victim # p
      BY <1>0, <1>a, <1>6, TargetsHaveNoPendingDeath, Zenon DEF StateRevives,
         Revivable
    <2>2. /\ playersCache' = [playersCache EXCEPT ![p] = Fresh]
          /\ p \in clients => replay' = [replay EXCEPT ![p] = Fresh]
      BY <1>0, <1>6, ReviveEffect, Zenon DEF AgreeOn, LogAgrees
    <2>3. \A q \in Player : q # p => replay'[q] = replay[q]
      BY <1>6, ReviveEffect, Zenon
    <2>4. clients' = clients /\ E = D
      BY <1>6, Zenon DEF StateRevives
    <2> QED
      BY <1>0, <1>a, <2>1, <2>2, <2>3, <2>4, FreshType DEF AgreeOn,
         LogAgrees, DeathsCurrent, OnePending
<1>7. ASSUME NEW p \in Player, StateMoves(p)
        PROVE  AgreeOn(E)'
    <2>1. \A q \in clients : playersCache'[q] = playersCache[q]
      BY <1>0, <1>a, <1>7 DEF StateMoves, AgreeOn, LogAgrees
    <2> QED
      BY <1>1, <1>7, <2>1, Zenon DEF StateMoves
<1>8. ASSUME NEW p \in Player, Cleanup(p)
        PROVE  AgreeOn(E)'
    <2>1. \A q \in clients : playersCache'[q] = playersCache[q]
      BY <1>a, <1>8, Zenon DEF Cleanup
    <2> QED
      BY <1>1, <1>8, <2>1, Zenon DEF Cleanup
<1>9. ASSUME NEW p \in Player, NEW s \in Shot, Snowball(p, s)
        PROVE  AgreeOn(E)'
    BY <1>1, <1>9, Zenon DEF Snowball
<1>10. ASSUME NEW f \in flying, Miss(f)
         PROVE  AgreeOn(E)'
    BY <1>1, <1>10, Zenon DEF Miss
<1>11. ASSUME NEW f \in flying, NEW v \in Player, Hit(f, v)
         PROVE  AgreeOn(E)'
    <2> PICK after : after = Damaged(playersCache[v], now)
      BY Zenon
    <2> PICK new : new = [by |-> f.by, shot |-> f.shot, victim |-> v,
                          respawnAt |-> now + RespawnMs]
      BY Zenon
    <2>1. /\ playersCache[v] \in Snapshot
          /\ playersCache[v].hp = 0 => playersCache[v].deadUntil <= now
          /\ after \in Snapshot
          /\ playersCache' = [playersCache EXCEPT ![v] = after]
          /\ replay' = ApplyHit(replay, v, after.hp)
      BY <1>11, HitEffect, Zenon DEF Damaged
    <2>2. clients' = clients /\ dying' = IF after.hp = 0 THEN dying \cup {new} ELSE dying
      BY <1>11, Zenon DEF Hit
    <2>3. E = IF after.hp = 0 THEN D \cup {new} ELSE D
      BY <2>2, Zenon
    <2>4. new.victim = v /\ new.respawnAt = now + RespawnMs
      BY Zenon
    <2> QED
      BY <1>0, <2>1, <2>2, <2>3, <2>4, HitAgrees, Zenon
<1>12. ASSUME NEW d \in dying, Death(d)
         PROVE  AgreeOn(E)'
    <2>1. d \in D /\ E \subseteq D /\ D \ {d} \subseteq E /\ d.victim \in Player
      BY <1>12, Zenon DEF Death, TypeOK, Kill
    <2>2. /\ playersCache' = ApplyDeath(playersCache, d.victim, d.respawnAt)
          /\ replay' = ApplyDeath(replay, d.victim, d.respawnAt)
          /\ clients' = clients
      BY <1>12, Zenon DEF Death
    <2> QED
      BY <1>0, <2>1, <2>2, DeathAgrees, Zenon
<1>13. CASE UNCHANGED vars
    BY <1>1, <1>13, Zenon DEF vars
<1> QED
    BY <1>2, <1>3, <1>4, <1>5, <1>6, <1>7, <1>8,
     <1>9, <1>10, <1>11, <1>12, <1>13, Zenon DEF Next

(* The strengthened agreement of table and event log always holds.         *)
LEMMA AgreementHolds == Spec => []Agreement
<1>1. Init => Agreement
  BY Zenon DEF Init, Agreement, AgreeOn, LogAgrees, DeathsCurrent, OnePending
<1>2. TypeOK /\ TypeOK' /\ IdsKnown /\ DeathsAhead /\ Agreement /\ [Next]_vars => Agreement'
  <2> SUFFICES ASSUME TypeOK, TypeOK', IdsKnown, DeathsAhead, Agreement, [Next]_vars
               PROVE  Agreement'
    BY Zenon
  <2>1. dying \cup {} = dying /\ dying' \cup {} = dying'
    BY Zenon
  <2>2. Ahead({}) /\ AgreeOn(dying \cup {})
    BY <2>1, Zenon DEF Ahead, Agreement
  <2>3. AgreeOn(dying \cup {})'
    BY <2>2, AgreementStep, Zenon
  <2> QED
    BY <2>1, <2>3, Zenon DEF Agreement, AgreeOn, LogAgrees, DeathsCurrent,
       OnePending
<1> QED
  BY <1>1, <1>2, TypeCorrect, IdsAreKnown, DeathsAreAhead, PTL DEF Spec

(* "Keep cache and events consistent": for every number of players and of  *)
(* snowballs in flight, the table agrees with the event log on every       *)
(* connected player.                                                       *)
THEOREM CacheAgreesWithEvents == Spec => []CacheIsReplay
<1>1. Agreement => CacheIsReplay
  BY Zenon DEF Agreement, AgreeOn, CacheIsReplay
<1> QED
  BY <1>1, AgreementHolds, PTL

(* A death event that waited for a broadcast is never out of date for a    *)
(* connected victim, provided no broadcast outlasts the respawn time.      *)
THEOREM DeathEventsAreCurrent == Spec => []DeathEventIsCurrent
<1>1. Agreement => DeathEventIsCurrent
  BY Zenon DEF Agreement, AgreeOn, DeathEventIsCurrent
<1> QED
  BY <1>1, AgreementHolds, PTL

----------------------------------------------------------------------------
\* No frozen player is touched.
Down == \A p \in clients : Frozen(playersCache, p, now) =>
            playersCache'[p] \in {playersCache[p], Absent}

(* No handler gives hp back to a connected player, or moves its respawn    *)
(* time, before that time.                                                 *)
LEMMA DownStep ==
  ASSUME TypeOK, Settled, Next
  PROVE  Down
<1> USE WorldAssumption, CombatAssumption
<1> USE DEF Down
<1>1. CASE Tick
  BY <1>1, Zenon DEF Tick
<1>2. CASE SweepShots
  BY <1>2, Zenon DEF SweepShots
<1>3. ASSUME NEW p \in Player, Hello(p)
      PROVE  Down
  BY <1>3, Zenon DEF Hello, ApplyJoin, TypeOK
<1>4. ASSUME NEW p \in Player, OnClose(p)
      PROVE  Down
  BY <1>4, Zenon DEF OnClose, ApplyLeave, TypeOK
<1>5. ASSUME NEW p \in Player, OtherMessage(p) \/ Rename(p)
      PROVE  Down
  BY <1>5, Zenon DEF OtherMessage, Rename
<1>6. ASSUME NEW p \in Player, StateRevives(p)
      PROVE  Down
  BY <1>6 DEF StateRevives, Revivable, Frozen, ApplyRespawn, Overwrite,
     TypeOK, Snapshot
<1>7. ASSUME NEW p \in Player, StateMoves(p)
      PROVE  Down
  BY <1>7, Zenon DEF StateMoves, Frozen, TypeOK
<1>8. ASSUME NEW p \in Player, Cleanup(p)
      PROVE  Down
  BY <1>8, Zenon DEF Cleanup, TypeOK
<1>9. ASSUME NEW p \in Player, NEW s \in Shot, Snowball(p, s)
      PROVE  Down
  BY <1>9, Zenon DEF Snowball
<1>10. ASSUME NEW f \in flying, Miss(f)
       PROVE  Down
  BY <1>10, Zenon DEF Miss
<1>11. ASSUME NEW f \in flying, NEW v \in Player, Hit(f, v)
       PROVE  Down
  <2>1. ~Frozen(playersCache, v, now)
    BY <1>11, Zenon DEF Hit, Target
  <2>2. playersCache' = [playersCache EXCEPT ![v] = Damaged(playersCache[v], now)]
    BY <1>11, HitEffect, Zenon
  <2> QED
    BY <2>1, <2>2, Zenon DEF TypeOK
<1>12. ASSUME NEW d \in dying, Death(d)
       PROVE  Down
  BY <1>12, DeathInvisible, Zenon DEF Settled
<1> QED
  BY <1>1, <1>2, <1>3, <1>4, <1>5, <1>6, <1>7, <1>8,
     <1>9, <1>10, <1>11, <1>12, Zenon DEF Next

(* A killed player lies dead for the whole respawn time: no handler gives  *)
(* hp back or moves the respawn time of a connected player before that.    *)
THEOREM TheDeadStayDown == Spec => DeadStayDown
<1>1. TypeOK /\ Agreement /\ [Next]_vars => [Down]_vars
  BY DownStep, AgreementSettles, Zenon
<1>2. Spec => [][Down]_vars
  BY <1>1, TypeCorrect, AgreementHolds, PTL DEF Spec
<1> QED
  BY <1>2, Zenon DEF DeadStayDown, Down

----------------------------------------------------------------------------
(* The rows of the kills table.                                            *)

(* Every step keeps the recorded deaths of a connected player behind its   *)
(* present life and a respawn time apart.                                  *)
LEMMA SpacingStep ==
  /\ TypeOK /\ TypeOK' /\ IdsKnown /\ DeathsAhead /\ Settled
  /\ DeathsBehind /\ KillSpacing /\ [Next]_vars
  => DeathsBehind' /\ KillSpacing'
<1> USE WorldAssumption, CombatAssumption
<1> SUFFICES ASSUME TypeOK, TypeOK', IdsKnown, DeathsAhead, Settled,
                    DeathsBehind, KillSpacing, [Next]_vars
             PROVE  DeathsBehind' /\ KillSpacing'
  BY Zenon
<1> USE DEF DeathsBehind, KillSpacing
<1>1. CASE Tick
    BY <1>1 DEF Tick, TypeOK, Row
<1>2. CASE SweepShots
    BY <1>2, Zenon DEF SweepShots
<1>3. ASSUME NEW p \in Player, Hello(p)
        PROVE  DeathsBehind' /\ KillSpacing'
    BY <1>3 DEF Hello, ApplyJoin, TypeOK, IdsKnown
<1>4. ASSUME NEW p \in Player, OnClose(p)
        PROVE  DeathsBehind' /\ KillSpacing'
    BY <1>4, Zenon DEF OnClose, ApplyLeave, TypeOK
<1>5. ASSUME NEW p \in Player, OtherMessage(p) \/ Rename(p)
        PROVE  DeathsBehind' /\ KillSpacing'
    BY <1>5, Zenon DEF OtherMessage, Rename
<1>6. ASSUME NEW p \in Player, StateRevives(p)
        PROVE  DeathsBehind' /\ KillSpacing'
  <2>1. playersCache' = [playersCache EXCEPT ![p] = Fresh]
    BY <1>6, ReviveEffect, Zenon
  <2>2. playersCache[p].hp = 0 /\ playersCache[p].deadUntil <= now /\ p \in Player
    BY <1>6, Zenon DEF StateRevives, Revivable
  <2>3. Fresh.hp > 0
    BY DEF Fresh
  <2>4. UNCHANGED <<now, clients, dying, kills>>
    BY <1>6, Zenon DEF StateRevives
  <2>5. \A k \in kills : k.victim \in clients /\ k.victim = p => k.respawnAt <= now
    BY <2>2 DEF TypeOK, Row, Snapshot, Settled
  <2> QED
    BY <2>1, <2>3, <2>4, <2>5, Zenon DEF TypeOK, Fresh
<1>7. ASSUME NEW p \in Player, StateMoves(p)
        PROVE  DeathsBehind' /\ KillSpacing'
    BY <1>7, FreshType DEF StateMoves, Receive, TypeOK, Settled
<1>8. ASSUME NEW p \in Player, Cleanup(p)
        PROVE  DeathsBehind' /\ KillSpacing'
    BY <1>8, Zenon DEF Cleanup, TypeOK
<1>9. ASSUME NEW p \in Player, NEW s \in Shot, Snowball(p, s)
        PROVE  DeathsBehind' /\ KillSpacing'
    BY <1>9, Zenon DEF Snowball
<1>10. ASSUME NEW f \in flying, Miss(f)
         PROVE  DeathsBehind' /\ KillSpacing'
    BY <1>10, Zenon DEF Miss
<1>11. ASSUME NEW f \in flying, NEW v \in Player, Hit(f, v)
         PROVE  DeathsBehind' /\ KillSpacing'
  <2> DEFINE after == Damaged(playersCache[v], now)
             new == [by |-> f.by, shot |-> f.shot, victim |-> v,
                     respawnAt |-> now + RespawnMs]
  <2>1. /\ playersCache[v] \in Snapshot
        /\ playersCache[v].hp = 0 => playersCache[v].deadUntil <= now
        /\ after \in Snapshot
        /\ playersCache' = [playersCache EXCEPT ![v] = after]
    BY <1>11, HitEffect, Zenon
  <2>2. UNCHANGED <<now, clients, kills>>
    BY <1>11, Zenon DEF Hit
  <2>3. dying' = IF after.hp = 0 THEN dying \cup {new} ELSE dying
    BY <1>11, Zenon DEF Hit
  <2>4. after.hp = 0 => after.deadUntil = now + RespawnMs
    BY Zenon DEF Damaged
  <2>5. \A k \in kills : k.victim = v /\ v \in clients => k.respawnAt <= now
    BY <2>1 DEF TypeOK, Row, Snapshot
  <2>6. \A d \in dying : d.victim = v => v \notin clients
    BY <2>1, DyingIsAhead, TargetsHaveNoPendingDeath, Zenon DEF Settled
  <2>7. now \in Nat /\ \A k \in kills : k.respawnAt \in Nat
    BY DEF TypeOK, Row
  <2> HIDE DEF after
  <2>8. ASSUME NEW k \in kills, k.victim \in clients
        PROVE  /\ playersCache'[k.victim].hp > 0 => k.respawnAt <= now
               /\ playersCache'[k.victim].hp = 0 =>
                     \/ k.respawnAt = playersCache'[k.victim].deadUntil
                     \/ k.respawnAt + RespawnMs <= playersCache'[k.victim].deadUntil
    <3>1. CASE k.victim = v
      BY <2>1, <2>4, <2>5, <2>7, <2>8, <3>1 DEF TypeOK
    <3>2. CASE k.victim # v
      BY <2>1, <2>8, <3>2, Zenon DEF TypeOK
    <3> QED
      BY <3>1, <3>2, Zenon
  <2>9. ASSUME NEW k \in kills, k.victim \in clients,
               NEW d \in dying', d.victim = k.victim
        PROVE  k.respawnAt + RespawnMs <= d.respawnAt
    <3>1. CASE d \in dying
      BY <2>9, <3>1, Zenon
    <3>2. CASE d = new
      BY <2>5, <2>7, <2>9, <3>2
    <3> QED
      BY <2>3, <3>1, <3>2, Zenon
  <2> QED
    BY <2>2, <2>8, <2>9, Zenon
<1>12. ASSUME NEW d \in dying, Death(d)
         PROVE  DeathsBehind' /\ KillSpacing'
  <2> DEFINE row == [by |-> d.by, name |-> AttackerName(d.by), shot |-> d.shot,
                     victim |-> d.victim, respawnAt |-> d.respawnAt]
  <2>1. UNCHANGED <<now, clients>> /\ dying' = dying \ {d} /\ kills' = kills \cup {row}
    BY <1>12, Zenon DEF Death
  <2>2. \A p \in clients : playersCache'[p] = playersCache[p]
    BY <1>12, DeathInvisible, Zenon DEF Settled
  <2>3. ASSUME d.victim \in clients
        PROVE  /\ playersCache[d.victim].hp = 0
               /\ playersCache[d.victim].deadUntil = d.respawnAt
    <3>1. playersCache[d.victim] = [hp |-> 0, deadUntil |-> d.respawnAt]
      BY <2>3, Zenon DEF Settled, DeathsCurrent
    <3> QED
      BY <3>1
  <2>4. \A e \in dying' : e.victim = d.victim => d.victim \notin clients
    BY <2>1, Zenon DEF Settled, OnePending
  <2>5. d.respawnAt \in Nat /\ row.victim = d.victim /\ row.respawnAt = d.respawnAt
    BY Zenon DEF TypeOK, Kill
  <2>6. \A k \in kills : k.victim = d.victim /\ k.victim \in clients =>
                           k.respawnAt + RespawnMs <= d.respawnAt
    BY Zenon
  <2> HIDE DEF row
  <2>7. DeathsBehind'
    BY <2>1, <2>2, <2>3, <2>4, <2>5
  <2>8. KillSpacing'
    BY <2>1, <2>5, <2>6
  <2> QED
    BY <2>7, <2>8, Zenon
<1>13. CASE UNCHANGED vars
    BY <1>13, Zenon DEF vars
<1> QED
  BY <1>1, <1>2, <1>3, <1>4, <1>5, <1>6, <1>7, <1>8,
     <1>9, <1>10, <1>11, <1>12, <1>13, Zenon DEF Next

(* Nobody is killed twice in one life: the rows of the kills table about a *)
(* connected player are a respawn time apart, whatever the interleaving of *)
(* the snowballs in flight.                                                *)
THEOREM KillsAreSpaced == Spec => []KillSpacing
<1>1. Init => DeathsBehind /\ KillSpacing
  BY Zenon DEF Init, DeathsBehind, KillSpacing
<1> QED
  BY <1>1, SpacingStep, AgreementSettles, TypeCorrect, IdsAreKnown,
     DeathsAreAhead, AgreementHolds, PTL DEF Spec

\* The kills that a step records have their attackers' names, unless these
\* are gone or have emptied them.
Credited ==
    \A k \in kills' \ kills :
        k.name = k.by \/ (k.name = Unknown /\ k.by \notin clients \ unnamed)

(* Only the end of a lethal hit records a kill, and then every connected   *)
(* attacker has an entry, with a name unless its client has none.          *)
LEMMA CreditStep ==
  ASSUME TypeOK, Settled, Next
  PROVE  Credited
<1>1. kills' = kills \/ \E d \in dying : Death(d)
  BY Zenon DEF Next, Tick, SweepShots, Hello, OnClose, OtherMessage, Rename,
     StateRevives, StateMoves, Cleanup, Snowball, Miss, Hit
<1>2. ASSUME NEW d \in dying, Death(d)
      PROVE  Credited
  <2>1. d.by \notin clients \ unnamed \/ AttackerName(d.by) = d.by
    BY Zenon DEF AttackerName, Settled, TypeOK
  <2>2. AttackerName(d.by) \in {d.by, Unknown}
    BY Zenon DEF AttackerName
  <2>3. \A k \in kills' \ kills : k.by = d.by /\ k.name = AttackerName(d.by)
    BY <1>2 DEF Death
  <2> QED
    BY <2>1, <2>2, <2>3, Zenon DEF Credited
<1> QED
  BY <1>1, <1>2, Zenon DEF Credited

(* A kill is credited to its attacker unless that player is no longer      *)
(* connected, or has an empty name, when the broadcast of the lethal hit   *)
(* ends.                                                                   *)
THEOREM KillsAreCredited == Spec => CreditUnlessGone
<1>1. TypeOK /\ Agreement /\ [Next]_vars => [Credited]_vars
  BY CreditStep, AgreementSettles, Zenon
<1>2. Spec => [][Credited]_vars
  BY <1>1, TypeCorrect, AgreementHolds, PTL DEF Spec
<1> QED
  BY <1>2, Zenon DEF CreditUnlessGone, Credited

----------------------------------------------------------------------------
\* What a step shows of the connected players: time passes, one of them
\* enters, exits, is struck or revives, or nothing.
Hidden == UNCHANGED <<now, joined, clients, Body, Toll>>

Ticks == /\ now < MaxNow
         /\ now' = now + 1
         /\ UNCHANGED <<joined, clients, Body, Toll>>

Enters(p) == /\ p \notin joined \cup Bot
             /\ joined' = joined \cup {p} /\ clients' = clients \cup {p}
             /\ Body' = [Body EXCEPT ![p] = Fresh]
             /\ UNCHANGED <<now, Toll>>

Exits(p) == /\ Body[p] # Absent
            /\ clients' = clients \ {p}
            /\ Body' = [Body EXCEPT ![p] = Absent]
            /\ Toll' = {t \in Toll : t.victim # p}
            /\ UNCHANGED <<now, joined>>

IsStruck(p, to, from) ==
    /\ Body[p] # Absent /\ ~Frozen(Body, p, now)
    /\ Body' = [Body EXCEPT ![p] = Damaged(Body[p], now)]
    /\ to = IF NewHp(Body[p].hp) = 0
            THEN from \cup {[victim |-> p, respawnAt |-> now + RespawnMs]}
            ELSE from
    /\ UNCHANGED <<now, joined, clients>>

IsRevived(p) == /\ Revivable(Body, p, now)
                /\ Body' = [Body EXCEPT ![p] = Fresh]
                /\ UNCHANGED <<now, joined, clients, Toll>>

(* Every step of the handlers shows one of these.                          *)
LEMMA ShownStep ==
  ASSUME TypeOK, TypeOK', IdsKnown, DeathsCurrent(dying),
         \A p \in clients : playersCache[p] # Absent, [Next]_vars
  PROVE  \/ Hidden \/ Ticks
         \/ \E p \in Player : \/ Enters(p) \/ Exits(p) \/ IsRevived(p)
                              \/ IsStruck(p, Toll', Toll)
<1> USE WorldAssumption, CombatAssumption
<1> DEFINE Goal == \/ Hidden \/ Ticks
                   \/ \E p \in Player : \/ Enters(p) \/ Exits(p) \/ IsRevived(p)
                                        \/ IsStruck(p, Toll', Toll)
<1> SUFFICES Goal
  BY Zenon
<1>1. CASE Tick
  BY <1>1, Zenon DEF Tick, Ticks, Body, Toll
<1>2. CASE SweepShots
  BY <1>2, Zenon DEF SweepShots, Hidden, Body, Toll
<1>3. ASSUME NEW p \in Player, Hello(p)
      PROVE  Goal
  <2>1. Body' = [Body EXCEPT ![p] = Fresh]
    BY <1>3, Zenon DEF Hello, Body, ApplyJoin, TypeOK
  <2>2. Toll' = Toll
    BY <1>3, Zenon DEF Hello, Toll, IdsKnown
  <2>3. Enters(p)
    BY <1>3, <2>1, <2>2, Zenon DEF Hello, Enters
  <2> QED
    BY <2>3, Zenon
<1>4. ASSUME NEW p \in Player, OnClose(p)
      PROVE  Goal
  <2>1. Body' = [Body EXCEPT ![p] = Absent] /\ Body[p] # Absent
    BY <1>4, Zenon DEF OnClose, Body, ApplyLeave, TypeOK
  <2>2. Toll' = {t \in Toll : t.victim # p}
    BY <1>4 DEF OnClose, Toll
  <2>3. Exits(p)
    BY <1>4, <2>1, <2>2, Zenon DEF OnClose, Exits
  <2> QED
    BY <2>3, Zenon
<1>5. ASSUME NEW p \in Player, OtherMessage(p) \/ Rename(p)
      PROVE  Goal
  BY <1>5, Zenon DEF OtherMessage, Rename, Hidden, Body, Toll
<1>6. ASSUME NEW p \in Player, StateRevives(p)
      PROVE  Goal
  <2>1. playersCache' = [playersCache EXCEPT ![p] = Fresh]
    BY <1>6, ReviveEffect, Zenon
  <2>2. UNCHANGED <<now, joined, Toll, clients>>
    BY <1>6, Zenon DEF StateRevives, Toll
  <2>3. CASE p \in clients
    <3>1. Body' = [Body EXCEPT ![p] = Fresh]
      BY <2>1, <2>2, <2>3, Zenon DEF Body, TypeOK
    <3>2. Revivable(Body, p, now)
      BY <1>6, <2>3, Zenon DEF StateRevives, Revivable, Body
    <3>3. IsRevived(p)
      BY <2>2, <3>1, <3>2, Zenon DEF IsRevived
    <3> QED
      BY <3>3, Zenon
  <2>4. CASE p \notin clients
    BY <2>1, <2>2, <2>4 DEF Body, TypeOK, Hidden
  <2> QED
    BY <2>3, <2>4, Zenon
<1>7. ASSUME NEW p \in Player, StateMoves(p)
      PROVE  Goal
  <2>1. Body' = Body
    BY <1>7, Zenon DEF StateMoves, Body, TypeOK
  <2> QED
    BY <1>7, <2>1, Zenon DEF StateMoves, Hidden, Toll
<1>8. ASSUME NEW p \in Player, Cleanup(p)
      PROVE  Goal
  <2>1. Body' = Body
    BY <1>8 DEF Cleanup, Body, TypeOK
  <2> QED
    BY <1>8, <2>1, Zenon DEF Cleanup, Hidden, Toll
<1>9. ASSUME NEW p \in Player, NEW s \in Shot, Snowball(p, s)
      PROVE  Goal
  BY <1>9, Zenon DEF Snowball, Hidden, Body, Toll
<1>10. ASSUME NEW f \in flying, Miss(f)
       PROVE  Goal
  BY <1>10, Zenon DEF Miss, Hidden, Body, Toll
<1>11. ASSUME NEW f \in flying, NEW v \in Player, Hit(f, v)
       PROVE  Goal
  <2> DEFINE after == Damaged(playersCache[v], now)
             new == [by |-> f.by, shot |-> f.shot, victim |-> v,
                     respawnAt |-> now + RespawnMs]
  <2>1. playersCache' = [playersCache EXCEPT ![v] = after]
    BY <1>11, HitEffect, Zenon
  <2>2. UNCHANGED <<now, joined, clients, kills>>
    BY <1>11, Zenon DEF Hit
  <2>3. dying' = IF after.hp = 0 THEN dying \cup {new} ELSE dying
    BY <1>11, Zenon DEF Hit
  <2>4. playersCache[v] # Absent /\ ~Frozen(playersCache, v, now)
    BY <1>11, Zenon DEF Hit, Target
  <2>5. CASE v \in clients
    <3>1. Body[v] = playersCache[v]
      BY <2>5, Zenon DEF Body
    <3>2. Body' = [Body EXCEPT ![v] = after]
      BY <2>1, <2>2, <2>5, Zenon DEF Body, TypeOK
    <3>3. Toll' = IF after.hp = 0
                  THEN Toll \cup {[victim |-> v, respawnAt |-> now + RespawnMs]}
                  ELSE Toll
      <4>1. new.victim = v /\ new.respawnAt = now + RespawnMs
        BY Zenon
      <4> HIDE DEF after, new
      <4>2. CASE after.hp = 0
        <5> DEFINE t == [victim |-> v, respawnAt |-> now + RespawnMs]
        <5>1. (kills \cup dying)' = kills \cup dying \cup {new}
          BY <2>2, <2>3, <4>2, Zenon
        <5>2. Toll' \subseteq Toll \cup {t}
          BY <2>2, <4>1, <5>1, Zenon DEF Toll
        <5>3. Toll \subseteq Toll'
          BY <2>2, <5>1, Zenon DEF Toll
        <5>4. t \in Toll'
          <6>1. new \in (kills \cup dying)' /\ new.victim \in clients'
            BY <2>2, <2>5, <4>1, <5>1, Zenon
          <6>2. t = [victim |-> new.victim, respawnAt |-> new.respawnAt]
            BY <4>1, Zenon
          <6> HIDE DEF t
          <6> QED
            BY <6>1, <6>2, Zenon DEF Toll
        <5> HIDE DEF t
        <5>5. Toll' = Toll \cup {t}
          BY <5>2, <5>3, <5>4, Zenon
        <5> QED
          BY <4>2, <5>5, Zenon DEF t
      <4>3. CASE after.hp # 0
        BY <2>2, <2>3, <4>3, Zenon DEF Toll
      <4> QED
        BY <4>2, <4>3, Zenon
    <3>4. Body[v] # Absent /\ ~Frozen(Body, v, now)
      BY <2>4, <3>1, Zenon DEF Frozen
    <3>5. after.hp = NewHp(Body[v].hp)
      BY <3>1, Zenon DEF Damaged
    <3>6. IsStruck(v, Toll', Toll)
      BY <2>2, <3>1, <3>2, <3>3, <3>4, <3>5, Zenon
         DEF IsStruck
    <3> QED
      BY <3>6, Zenon
  <2>6. CASE v \notin clients
    <3>1. Body' = Body
      BY <2>1, <2>2, <2>6, Zenon DEF Body, TypeOK
    <3>2. Toll' = Toll
      <4> HIDE DEF after
      <4> QED
        BY <2>2, <2>3, <2>6 DEF Toll
    <3> QED
      BY <2>2, <3>1, <3>2, Zenon DEF Hidden
  <2> QED
    BY <2>5, <2>6, Zenon
<1>12. ASSUME NEW d \in dying, Death(d)
       PROVE  Goal
  <2>1. \A p \in clients : playersCache'[p] = playersCache[p]
    BY <1>12, DeathInvisible, Zenon
  <2>2. UNCHANGED <<now, joined, clients>>
    BY <1>12, Zenon DEF Death
  <2>3. Body' = Body
    BY <2>1, <2>2, Zenon DEF Body
  <2>4. Toll' = Toll
    <3> DEFINE row == [by |-> d.by, name |-> AttackerName(d.by), shot |-> d.shot,
                       victim |-> d.victim, respawnAt |-> d.respawnAt]
    <3>1. row.victim = d.victim /\ row.respawnAt = d.respawnAt
      BY Zenon
    <3>2. kills' = kills \cup {row} /\ dying' = dying \ {d}
      BY <1>12, Zenon DEF Death
    <3> HIDE DEF row
    <3>3. Toll' \subseteq Toll
      BY <2>2, <3>1, <3>2, Zenon DEF Toll
    <3>4. Toll \subseteq Toll'
      <4> SUFFICES ASSUME NEW k \in kills \cup dying, k.victim \in clients
                   PROVE  [victim |-> k.victim, respawnAt |-> k.respawnAt] \in Toll'
        BY Zenon DEF Toll
      <4>1. CASE k = d
        BY <2>2, <3>1, <3>2, <4>1, Zenon DEF Toll
      <4>2. CASE k # d
        BY <2>2, <3>2, <4>2, Zenon DEF Toll
      <4> QED
        BY <4>1, <4>2, Zenon
    <3> QED
      BY <3>3, <3>4, Zenon
  <2> QED
    BY <2>2, <2>3, <2>4, Zenon DEF Hidden
<1>13. CASE UNCHANGED vars
  BY <1>13, Zenon DEF vars, Hidden, Body, Toll
<1> HIDE DEF Goal
<1> QED
  BY <1>1, <1>2, <1>3, <1>4, <1>5, <1>6, <1>7, <1>8,
     <1>9, <1>10, <1>11, <1>12, <1>13, Zenon DEF Next

(* Combat implements Arena: the awaits in the middle of a snowball, of a   *)
(* death and of a revival cannot be observed by the players present.       *)
THEOREM CombatImplementsArena == Spec => ImplementsArena
<1>1. Init => A!Init
  <2> SUFFICES ASSUME Init PROVE A!Init
    BY Zenon
  <2>1. Body = [p \in Player |-> Absent]
    BY Zenon DEF Init, Body
  <2>2. Toll = {}
    BY Zenon DEF Init, Toll
  <2> QED
    BY <2>1, <2>2, Zenon DEF Init, A!Init
<1>2. TypeOK /\ TypeOK' /\ IdsKnown /\ Agreement /\ [Next]_vars
      => [A!Next]_(A!avars)
  <2> SUFFICES ASSUME TypeOK, TypeOK', IdsKnown, Agreement, [Next]_vars
               PROVE  A!Next \/ UNCHANGED A!avars
    BY Zenon
  <2>1. \/ Hidden \/ Ticks
        \/ \E p \in Player : \/ Enters(p) \/ Exits(p) \/ IsRevived(p)
                             \/ IsStruck(p, Toll', Toll)
    BY ShownStep, Zenon DEF Agreement, AgreeOn, LogAgrees
  <2>2. Hidden => UNCHANGED A!avars
    BY Zenon DEF Hidden, A!avars
  <2>3. Ticks => A!Tick
    BY Zenon DEF Ticks, A!Tick
  <2>4. ASSUME NEW p \in Player
        PROVE  /\ Enters(p) => A!Enter(p)
               /\ Exits(p) => A!Exit(p)
               /\ IsRevived(p) => A!Revive(p)
               /\ IsStruck(p, Toll', Toll) => A!Strike(p)
    <3>1. Enters(p) => A!Enter(p)
      BY Zenon DEF Enters, A!Enter, Fresh, A!Fresh
    <3>2. Exits(p) => A!Exit(p)
      BY Zenon DEF Exits, A!Exit
    <3>3. IsRevived(p) => A!Revive(p)
      BY Zenon DEF IsRevived, A!Revive, Revivable, A!Revivable, Fresh, A!Fresh
    <3>4. IsStruck(p, Toll', Toll) => A!Strike(p)
      BY Zenon DEF IsStruck, A!Strike, Frozen, A!Frozen, Damaged, A!Damaged,
         NewHp, A!NewHp
    <3> QED
      BY <3>1, <3>2, <3>3, <3>4, Zenon
  <2> QED
    BY <2>1, <2>2, <2>3, <2>4, Zenon DEF A!Next
<1> QED
  BY <1>1, <1>2, TypeCorrect, IdsAreKnown, AgreementHolds, PTL
     DEF Spec, ImplementsArena, A!Spec

----------------------------------------------------------------------------
(* The bots: what is shown above of the connected players is still so.     *)

\* What a call of updateBots holds at its awaits: the bot whose turn it is,
\* and at the await of a hit the respawn time of that moment and a victim
\* with an id.
GoodCall(c) ==
    /\ c \in Call
    /\ c.pc \in {"snowball", "hit", "death", "respawn"} => c.left # <<>>
    /\ c.pc \in {"hit", "death"} => c.respawnAt >= RespawnMs
    /\ c.pc = "hit" => /\ c.respawnAt = c.since + RespawnMs
                       /\ now <= c.since + MaxAwait
                       /\ c.victim # None => c.victim \in joined \cup Bot

BotsInv ==
    /\ BotsTypeOK /\ IdsKnown /\ DeathsAhead
    /\ \A i \in Loop : GoodCall(loop[i])
    /\ \A i \in Loop : running = i => loop[i].pc = "next"
    /\ \A t \in felled : t.victim \in joined \cup Bot
    /\ AgreeOn(dying \cup BotsDying)

(* An idle call, and one that is about to take a bot, hold no death.       *)
LEMMA RestingCall ==
  /\ GoodCall(Idle) /\ Idle.pc # "hit"
  /\ \A at \in Nat, left \in Seq(Bot) :
        LET c == [Idle EXCEPT !.pc = "next", !.at = at, !.left = left]
        IN  GoodCall(c) /\ c.pc = "next"
<1>1. Idle \in Call
  <2>1. <<>> \in Seq(Bot) /\ 0 \in Nat
    OBVIOUS
  <2> QED
    BY <2>1, FreshType, Zenon DEF Idle, Call
<1>2. ASSUME NEW at \in Nat, NEW left \in Seq(Bot), NEW c,
             c = [Idle EXCEPT !.pc = "next", !.at = at, !.left = left]
      PROVE  c \in Call /\ c.pc = "next"
  <2>1. c = [pc |-> "next", at |-> at, left |-> left, snapshot |-> Fresh,
             since |-> 0, victim |-> None, respawnAt |-> 0]
    BY <1>2, Zenon DEF Idle
  <2> QED
    BY <2>1, FreshType, Zenon DEF Call
<1>3. Idle.pc = "idle"
  BY Zenon DEF Idle
<1> QED
  BY <1>1, <1>2, <1>3, Zenon DEF GoodCall

(* The deaths of bots' hits on their way, call by call.                    *)
Pends(i) == loop[i].pc = "hit" /\ loop[i].victim # None

Dealt(i) == [by |-> Head(loop[i].left), shot |-> i, victim |-> loop[i].victim,
             respawnAt |-> loop[i].respawnAt]

LEMMA BotsDyingIs ==
  /\ BotsDying = {Dealt(i) : i \in {i \in Loop : Pends(i)}}
  /\ \A d : d \in BotsDying <=> \E i \in Loop : Pends(i) /\ d = Dealt(i)
  BY Zenon DEF BotsDying, Pends, Dealt

(* What a step that replaces one call does to them.                        *)
LEMMA BotsDyingStep ==
  ASSUME loop \in [Loop -> Call], NEW i \in Loop, NEW c,
         loop' = [loop EXCEPT ![i] = c]
  PROVE  /\ ~Pends(i) /\ ~(c.pc = "hit" /\ c.victim # None) => BotsDying' = BotsDying
         /\ ~Pends(i) /\ c.pc = "hit" /\ c.victim # None =>
               BotsDying' = BotsDying \cup
                   {[by |-> Head(c.left), shot |-> i, victim |-> c.victim,
                     respawnAt |-> c.respawnAt]}
         /\ c.pc # "hit" => /\ BotsDying' \subseteq BotsDying
                            /\ BotsDying \ {Dealt(i)} \subseteq BotsDying'
<1> DEFINE new == [by |-> Head(c.left), shot |-> i, victim |-> c.victim,
                   respawnAt |-> c.respawnAt]
<1>1. /\ \A j \in Loop : j # i => loop'[j] = loop[j]
      /\ loop'[i] = c
  BY Zenon
<1>2. \A d : d \in BotsDying <=> \E j \in Loop : Pends(j) /\ d = Dealt(j)
  BY BotsDyingIs, Zenon
<1>3. \A d : d \in BotsDying' <=> \E j \in Loop : Pends(j)' /\ d = Dealt(j)'
  BY Zenon DEF BotsDying, Pends, Dealt
<1>4. \A j \in Loop : j # i => (Pends(j)' <=> Pends(j)) /\ Dealt(j)' = Dealt(j)
  BY <1>1, Zenon DEF Pends, Dealt
<1>5. (Pends(i)' <=> c.pc = "hit" /\ c.victim # None) /\ Dealt(i)' = new
  BY <1>1, Zenon DEF Pends, Dealt
<1> HIDE DEF new
<1>6. \A d : d \in BotsDying' <=> \/ \E j \in Loop : j # i /\ Pends(j) /\ d = Dealt(j)
                                  \/ c.pc = "hit" /\ c.victim # None /\ d = new
  <2>1. \A d : d \in BotsDying' <=> \/ \E j \in Loop : j # i /\ Pends(j)' /\ d = Dealt(j)'
                                    \/ Pends(i)' /\ d = Dealt(i)'
    BY <1>3, Zenon
  <2> QED
    BY <1>4, <1>5, <2>1, Zenon
<1>7. \A d : d \in BotsDying <=> \/ \E j \in Loop : j # i /\ Pends(j) /\ d = Dealt(j)
                                 \/ Pends(i) /\ d = Dealt(i)
  BY <1>2, Zenon
<1>8. ~Pends(i) /\ ~(c.pc = "hit" /\ c.victim # None) => BotsDying' = BotsDying
  BY <1>6, <1>7, Zenon
<1>9. ~Pends(i) /\ c.pc = "hit" /\ c.victim # None => BotsDying' = BotsDying \cup {new}
  BY <1>6, <1>7, Zenon
<1>10. c.pc # "hit" => /\ BotsDying' \subseteq BotsDying
                       /\ BotsDying \ {Dealt(i)} \subseteq BotsDying'
  BY <1>6, <1>7, Zenon
<1> QED
  BY <1>8, <1>9, <1>10, Zenon DEF new

(* The clock moves by one, ids are never taken back.                       *)
LEMMA ClockSteps ==
  ASSUME Next
  PROVE  now' = now \/ now' = now + 1
  BY Zenon DEF Next, Tick, SweepShots, Hello, OnClose, OtherMessage, Rename,
     StateRevives, StateMoves,
         Cleanup, Snowball, Miss, Hit, Death

LEMMA JoinedGrow ==
  ASSUME Next
  PROVE  joined \subseteq joined'
  BY Zenon DEF Next, Tick, SweepShots, Hello, OnClose, OtherMessage, Rename,
     StateRevives, StateMoves,
         Cleanup, Snowball, Miss, Hit, Death

(* A step that replaces one call by a good one keeps all calls good.       *)
LEMMA CallStep ==
  ASSUME loop \in [Loop -> Call], \A j \in Loop : GoodCall(loop[j]),
         NEW i \in Loop, NEW c, GoodCall(c), loop' = [loop EXCEPT ![i] = c],
         UNCHANGED <<now, joined>>
  PROVE  loop' \in [Loop -> Call] /\ \A j \in Loop : GoodCall(loop[j])'
<1>1. c \in Call
  BY Zenon DEF GoodCall
<1>2. loop' \in [Loop -> Call]
  BY <1>1, Zenon
<1>3. \A j \in Loop : loop'[j] = c \/ loop'[j] = loop[j]
  BY Zenon
<1>4. \A j \in Loop : GoodCall(loop'[j])
  BY <1>3, Zenon
<1>5. ASSUME NEW j \in Loop
      PROVE  GoodCall(loop[j])'
  <2> PICK d : d = loop'[j]
    BY Zenon
  <2>1. GoodCall(d)
    BY <1>4, Zenon
  <2> QED
    BY <2>1, Zenon DEF GoodCall
<1> QED
  BY <1>2, <1>5, Zenon

(* The deaths that bots have dealt are, like the others, applied before    *)
(* their victim may respawn.                                               *)
LEMMA BotsDyingAhead ==
  ASSUME BotsInv
  PROVE  Ahead(BotsDying)
<1> SUFFICES ASSUME NEW i \in Loop, Pends(i)
             PROVE  /\ Dealt(i).respawnAt \in Nat
                    /\ Dealt(i).victim \in joined \cup Bot
                    /\ now + RespawnMs <= Dealt(i).respawnAt + MaxAwait
  BY BotsDyingIs, Zenon DEF Ahead
<1>1. Dealt(i).respawnAt = loop[i].respawnAt /\ Dealt(i).victim = loop[i].victim
  BY Zenon DEF Dealt
<1>2. loop[i] \in Call /\ GoodCall(loop[i]) /\ now \in Nat
  BY DEF BotsInv, BotsTypeOK, TypeOK
<1>3. loop[i].respawnAt \in Nat /\ loop[i].since \in Nat
  BY <1>2, Zenon DEF Call
<1>4. /\ loop[i].respawnAt = loop[i].since + RespawnMs
      /\ now <= loop[i].since + MaxAwait
      /\ loop[i].victim \in joined \cup Bot
  BY <1>2, Zenon DEF GoodCall, Pends
<1> QED
  BY <1>1, <1>2, <1>3, <1>4, WorldAssumption, CombatAssumption

(* What is not a bot's doing keeps the invariant of the bots.              *)
LEMMA OthersKeep ==
  ASSUME BotsInv, Others
  PROVE  BotsInv'
<1> USE WorldAssumption, CombatAssumption
<1>1. TypeOK /\ IdsKnown /\ DeathsAhead /\ Next
  BY Zenon DEF BotsInv, BotsTypeOK, Others
<1>2. TypeOK' /\ IdsKnown' /\ DeathsAhead'
  BY <1>1, TypeStep, IdsStep, AheadStep, Zenon
<1>3. BotsTypeOK'
  BY <1>2, Zenon DEF BotsInv, BotsTypeOK, Others, bvars
<1>4. joined \subseteq joined'
  BY <1>1, JoinedGrow, Zenon
<1>5. \A t \in felled' : t.victim \in joined' \cup Bot
  BY <1>4, Zenon DEF BotsInv, Others, bvars
<1>6. ASSUME NEW i \in Loop
      PROVE  GoodCall(loop[i])'
  <2> PICK c : c = loop[i]
    BY Zenon
  <2>1. c \in Call /\ GoodCall(c) /\ loop'[i] = c
    BY Zenon DEF BotsInv, Others, bvars, GoodCall
  <2>2. now \in Nat /\ now' \in Nat /\ c.since \in Nat
    BY <1>1, <1>2, <2>1 DEF TypeOK, Call
  <2>3. now' = now \/ now' = now + 1
    BY <1>1, ClockSteps, Zenon
  <2>4. now' # now /\ c.pc = "hit" => now < c.since + MaxAwait
    BY Zenon DEF Others, Waits
  <2>5. c.pc = "hit" => now' <= c.since + MaxAwait
    <3>1. c.pc = "hit" => now <= c.since + MaxAwait
      BY <2>1, Zenon DEF GoodCall
    <3> QED
      BY <2>2, <2>3, <2>4, <3>1
  <2> QED
    BY <1>4, <2>1, <2>5, Zenon DEF GoodCall
<1>7. AgreeOn(dying \cup BotsDying)'
  <2> PICK X : X = BotsDying
    BY Zenon
  <2>1. BotsDying' = X
    BY Zenon DEF BotsDying, Others, bvars
  <2>2. Ahead(X) /\ AgreeOn(dying \cup X)
    BY BotsDyingAhead, Zenon DEF BotsInv
  <2>3. AgreeOn(dying \cup X)'
    BY <1>1, <1>2, <2>2, AgreementStep, Zenon
  <2> QED
    BY <2>1, <2>3, Zenon DEF AgreeOn, LogAgrees, DeathsCurrent, OnePending
<1>8. \A i \in Loop : running' = i => loop'[i].pc = "next"
  BY Zenon DEF BotsInv, Others, bvars
<1> QED
  BY <1>2, <1>3, <1>5, <1>6, <1>7, <1>8, Zenon DEF BotsInv

(* A step of a bot that writes no entry but bots', and deals no death,     *)
(* keeps the invariant.                                                    *)
LEMMA QuietStep ==
  ASSUME BotsInv, NEW i \in Loop, NEW c, GoodCall(c), ~Pends(i),
         ~(c.pc = "hit" /\ c.victim # None),
         loop' = [loop EXCEPT ![i] = c],
         running' = None \/ (running' = i /\ c.pc = "next"),
         lastShotAt' \in [Bot -> Nat], felled' = felled, OthersUnchanged,
         playersCache' \in [Player -> Snapshot \cup {Absent}],
         replay' \in [Player -> Snapshot \cup {Absent}],
         \A q \in Player \ Bot : /\ playersCache'[q] = playersCache[q]
                                 /\ replay'[q] = replay[q]
  PROVE  BotsInv'
<1>1. TypeOK' /\ IdsKnown' /\ DeathsAhead'
  <2>1. TypeOK'
    BY Zenon DEF BotsInv, BotsTypeOK, TypeOK, OthersUnchanged
  <2>2. DeathsAhead'
    BY Zenon DEF BotsInv, DeathsAhead, OthersUnchanged
  <2>3. \A p \in Player : playersCache'[p] # Absent => p \in joined \cup Bot
    BY Zenon DEF BotsInv, IdsKnown
  <2>4. IdsKnown'
    BY <2>3, Zenon DEF BotsInv, IdsKnown, OthersUnchanged
  <2> QED
    BY <2>1, <2>2, <2>4, Zenon
<1>2. loop' \in [Loop -> Call] /\ \A j \in Loop : GoodCall(loop[j])'
  BY CallStep, Zenon DEF BotsInv, BotsTypeOK, OthersUnchanged
<1>3. BotsTypeOK'
  BY <1>1, <1>2, Zenon DEF BotsInv, BotsTypeOK
<1>6. \A j \in Loop : running' = j => loop'[j].pc = "next"
  BY BotsAssumption, Zenon DEF BotsInv, BotsTypeOK
<1>4. \A t \in felled' : t.victim \in joined' \cup Bot
  BY Zenon DEF BotsInv, OthersUnchanged
<1>5. AgreeOn(dying \cup BotsDying)'
  <2> PICK D : D = dying \cup BotsDying
    BY Zenon
  <2>1. (dying \cup BotsDying)' = D
    BY BotsDyingStep, Zenon DEF BotsInv, BotsTypeOK, OthersUnchanged
  <2>2. clients \subseteq Player \ Bot /\ clients' = clients
    BY Zenon DEF BotsInv, BotsTypeOK, TypeOK, IdsKnown, OthersUnchanged
  <2>3. \A q \in clients : playersCache'[q] = playersCache[q] /\ replay'[q] = replay[q]
    BY <2>2, Zenon
  <2>4. AgreeOn(D)
    BY Zenon DEF BotsInv
  <2>5. AgreeOn(D)'
    BY <2>2, <2>3, <2>4 DEF AgreeOn, LogAgrees, DeathsCurrent, OnePending
  <2> QED
    BY <2>1, <2>5, Zenon DEF AgreeOn, LogAgrees, DeathsCurrent, OnePending
<1> QED
  BY <1>1, <1>2, <1>3, <1>4, <1>5, <1>6, Zenon DEF BotsInv

(* Call i goes on with the next bot: what every way of ending a turn does. *)
LEMMA TurnEnds ==
  ASSUME BotsInv, NEW i \in Loop, loop[i].left # <<>>, ~Pends(i), TakeNext(i),
         lastShotAt' \in [Bot -> Nat], felled' = felled, OthersUnchanged, replay' = replay,
         \/ playersCache' = playersCache
         \/ \E b \in Bot : playersCache' = [playersCache EXCEPT ![b] = loop[i].snapshot]
  PROVE  BotsInv'
<1> PICK c : c = [Idle EXCEPT !.pc = "next", !.at = loop[i].at, !.left = Tail(loop[i].left)]
  BY Zenon
<1>1. loop[i] \in Call
  BY Zenon DEF BotsInv, BotsTypeOK
<1>2. loop[i].at \in Nat /\ Tail(loop[i].left) \in Seq(Bot) /\ loop[i].snapshot \in Snapshot
  BY <1>1 DEF Call
<1>3. GoodCall(c) /\ c.pc = "next" /\ c.pc # "hit"
  BY <1>2, RestingCall, Zenon DEF Idle
<1>4. loop' = [loop EXCEPT ![i] = c] /\ running' = i
  BY Zenon DEF TakeNext
<1>5. TypeOK /\ Bot \subseteq Player
  BY WorldAssumption, Zenon DEF BotsInv, BotsTypeOK
<1>6. /\ playersCache' \in [Player -> Snapshot \cup {Absent}]
      /\ replay' \in [Player -> Snapshot \cup {Absent}]
      /\ \A q \in Player \ Bot : /\ playersCache'[q] = playersCache[q]
                                 /\ replay'[q] = replay[q]
  BY <1>2, <1>5, Zenon DEF TypeOK
<1> QED
  BY <1>3, <1>4, <1>6, QuietStep, Zenon

(* The start and the end of a call of updateBots.                          *)
LEMMA StartAndReturn ==
  ASSUME BotsInv, NEW i \in Loop, UpdateBots(i) \/ Return(i)
  PROVE  BotsInv'
<1> USE BotsAssumption
<1> DEFINE started == [Idle EXCEPT !.pc = "next", !.at = now, !.left = BotOrder]
<1>1. PICK c : /\ \/ c = Idle /\ running' = None
                  \/ c = started /\ running' = i
               /\ loop' = [loop EXCEPT ![i] = c]
  BY Zenon DEF UpdateBots, Return
<1>2. now \in Nat /\ TypeOK /\ lastShotAt \in [Bot -> Nat]
  BY CombatAssumption DEF BotsInv, BotsTypeOK, TypeOK
<1>3. GoodCall(started) /\ started.pc = "next"
  BY <1>2, RestingCall, Zenon
<1>4. GoodCall(c) /\ c.pc # "hit"
  BY <1>1, <1>3, RestingCall, Zenon
<1>5. /\ UNCHANGED <<vars, lastShotAt, felled>>
      /\ running' = None \/ (running' = i /\ c.pc = "next")
  BY <1>1, <1>3, Zenon DEF UpdateBots, Return
<1>6. /\ playersCache' = playersCache /\ replay' = replay /\ OthersUnchanged
  BY <1>5, Zenon DEF vars, OthersUnchanged
<1>7. /\ playersCache' \in [Player -> Snapshot \cup {Absent}]
      /\ replay' \in [Player -> Snapshot \cup {Absent}]
  BY <1>2, <1>6, Zenon DEF TypeOK
<1>8. ~Pends(i)
  <2>1. CASE UpdateBots(i)
    BY <2>1 DEF UpdateBots, Pends, Idle
  <2>2. CASE Return(i)
    BY <2>2, Zenon DEF Return, Pends, BotsInv, GoodCall
  <2> QED
    BY <2>1, <2>2, Zenon
<1> QED
  BY <1>1, <1>2, <1>4, <1>5, <1>6, <1>7, <1>8, QuietStep, Zenon

(* The turns that end without an await, and the ones that end after one.   *)
LEMMA TurnsEnd ==
  ASSUME BotsInv, NEW i \in Loop, NEW b \in Bot,
         \/ Skip(i, b) \/ Walk(i, b)
         \/ BotMiss(i, b) \/ BotWounded(i, b) \/ BotKilled(i, b) \/ BotRevived(i, b)
  PROVE  BotsInv'
<1>1. /\ GoodCall(loop[i]) /\ loop[i] \in Call /\ lastShotAt \in [Bot -> Nat] /\ now \in Nat
      /\ running = i => loop[i].pc = "next"
  BY CombatAssumption DEF BotsInv, BotsTypeOK, TypeOK
<1>2. loop[i].at \in Nat /\ loop[i].respawnAt \in Nat
  BY <1>1, Zenon DEF Call
<1>3. ASSUME NEW t \in Nat
      PROVE  [lastShotAt EXCEPT ![b] = t] \in [Bot -> Nat]
  BY <1>1, Zenon
<1>4. ASSUME UNCHANGED vars
      PROVE  OthersUnchanged /\ replay' = replay /\ playersCache' = playersCache
  BY <1>4, Zenon DEF vars, OthersUnchanged
<1>5. CASE Skip(i, b)
  <2>1. loop[i].left # <<>> /\ ~Pends(i)
    BY <1>1, <1>5, Zenon DEF Skip, Turn, Pends
  <2>2. TakeNext(i) /\ UNCHANGED vars /\ lastShotAt' = lastShotAt /\ felled' = felled
    BY <1>5, Zenon DEF Skip
  <2> QED
    BY <1>1, <1>4, <2>1, <2>2, TurnEnds, Zenon
<1>6. CASE Walk(i, b)
  <2>1. loop[i].left # <<>> /\ ~Pends(i)
    BY <1>1, <1>6, Zenon DEF Walk, Turn, Pends
  <2>2. /\ TakeNext(i) /\ UNCHANGED vars /\ felled' = felled
        /\ lastShotAt' = lastShotAt \/ lastShotAt' = [lastShotAt EXCEPT ![b] = loop[i].at]
    BY <1>6, Zenon DEF Walk
  <2>3. lastShotAt' \in [Bot -> Nat]
    BY <1>1, <1>2, <1>3, <2>2, Zenon
  <2> QED
    BY <1>4, <2>1, <2>2, <2>3, TurnEnds, Zenon
<1>7. CASE BotRevived(i, b)
  <2>1. loop[i].left # <<>> /\ ~Pends(i)
    BY <1>1, <1>7, Zenon DEF BotRevived, Resumes, Pends, GoodCall
  <2>2. TakeNext(i) /\ UNCHANGED vars /\ lastShotAt' = lastShotAt /\ felled' = felled
    BY <1>7, Zenon DEF BotRevived
  <2> QED
    BY <1>1, <1>4, <2>1, <2>2, TurnEnds, Zenon
<1>8. ASSUME NEW t \in Nat, WriteBack(i, b, t), loop[i].left # <<>>, ~Pends(i),
             OthersUnchanged, UNCHANGED <<replay, felled>>
      PROVE  BotsInv'
  <2>1. /\ TakeNext(i) /\ lastShotAt' = [lastShotAt EXCEPT ![b] = t]
        /\ playersCache' = [playersCache EXCEPT ![b] = loop[i].snapshot]
    BY <1>8, Zenon DEF WriteBack
  <2> QED
    BY <1>3, <1>8, <2>1, TurnEnds, Zenon
<1>9. CASE BotMiss(i, b)
  <2>1. loop[i].left # <<>> /\ ~Pends(i)
    BY <1>1, <1>9, Zenon DEF BotMiss, Resumes, Pends, GoodCall
  <2> QED
    BY <1>1, <1>8, <1>9, <2>1, Zenon DEF BotMiss
<1>10. CASE BotWounded(i, b) \/ BotKilled(i, b)
  <2>1. loop[i].left # <<>> /\ ~Pends(i) /\ loop[i].respawnAt >= RespawnMs
    BY <1>1, <1>10, Zenon DEF BotWounded, BotKilled, Resumes, Pends, GoodCall
  <2>2. loop[i].respawnAt - RespawnMs \in Nat
    BY <1>2, <2>1, WorldAssumption
  <2> QED
    BY <1>8, <1>10, <2>1, <2>2, Zenon DEF BotWounded, BotKilled
<1> QED
  BY <1>5, <1>6, <1>7, <1>9, <1>10, Zenon

(* A bot that revives itself writes its own entry.                         *)
LEMMA RevivingBot ==
  ASSUME BotsInv, NEW i \in Loop, NEW b \in Bot, Revive(i, b)
  PROVE  BotsInv'
<1> PICK c : c = [loop[i] EXCEPT !.pc = "respawn", !.since = now]
  BY Zenon
<1>1. /\ GoodCall(loop[i]) /\ loop[i] \in Call /\ TypeOK /\ now \in Nat
      /\ lastShotAt \in [Bot -> Nat] /\ b \in Player
      /\ running = i => loop[i].pc = "next"
  BY WorldAssumption, CombatAssumption DEF BotsInv, BotsTypeOK, TypeOK
<1>2. loop[i].left # <<>> /\ ~Pends(i)
  BY <1>1, Zenon DEF Revive, Turn, Pends
<1>3. c \in Call /\ c.pc = "respawn" /\ c.left = loop[i].left
  BY <1>1, Zenon DEF Call
<1>4. GoodCall(c)
  BY <1>2, <1>3, Zenon DEF GoodCall
<1>5. /\ loop' = [loop EXCEPT ![i] = c] /\ running' = None
      /\ lastShotAt' = lastShotAt /\ felled' = felled /\ OthersUnchanged
  BY Zenon DEF Revive, Await
<1>6. /\ playersCache' \in [Player -> Snapshot \cup {Absent}]
      /\ replay' \in [Player -> Snapshot \cup {Absent}]
      /\ \A q \in Player \ Bot : /\ playersCache'[q] = playersCache[q]
                                 /\ replay'[q] = replay[q]
  BY <1>1, FreshType, Zenon DEF Revive, ApplyRespawn, Overwrite, TypeOK
<1> QED
  BY <1>1, <1>2, <1>3, <1>4, <1>5, <1>6, QuietStep, Zenon

(* A bot that shoots keeps the entry it has read.                          *)
LEMMA ShootingBot ==
  ASSUME BotsInv, NEW i \in Loop, NEW b \in Bot, Shoot(i, b)
  PROVE  BotsInv'
<1> PICK c : c = [loop[i] EXCEPT !.pc = "snowball", !.since = now,
                                 !.snapshot = playersCache[b]]
  BY Zenon
<1>1. /\ GoodCall(loop[i]) /\ loop[i] \in Call /\ TypeOK /\ now \in Nat
      /\ lastShotAt \in [Bot -> Nat] /\ b \in Player
      /\ running = i => loop[i].pc = "next"
  BY WorldAssumption, CombatAssumption DEF BotsInv, BotsTypeOK, TypeOK
<1>2. loop[i].left # <<>> /\ ~Pends(i)
  BY <1>1, Zenon DEF Shoot, Turn, Pends
<1>3. playersCache[b] \in Snapshot
  BY <1>1, Zenon DEF Shoot, Alive, TypeOK
<1>4. c \in Call /\ c.pc = "snowball" /\ c.left = loop[i].left
  BY <1>1, <1>3, Zenon DEF Call
<1>5. GoodCall(c)
  BY <1>2, <1>4, Zenon DEF GoodCall
<1>6. /\ loop' = [loop EXCEPT ![i] = c] /\ running' = None
      /\ lastShotAt' = lastShotAt /\ felled' = felled
      /\ playersCache' = playersCache /\ replay' = replay /\ OthersUnchanged
  BY Zenon DEF Shoot, Await, vars, OthersUnchanged
<1>7. /\ playersCache' \in [Player -> Snapshot \cup {Absent}]
      /\ replay' \in [Player -> Snapshot \cup {Absent}]
  BY <1>1, <1>6, Zenon DEF TypeOK
<1> QED
  BY <1>1, <1>2, <1>4, <1>5, <1>6, <1>7, QuietStep, Zenon

(* A bot's hit, like a player's, is one update of its victim.              *)
LEMMA BotHitEffect ==
  ASSUME BotsInv, NEW i \in Loop, NEW b \in Bot, NEW v \in Player, BotHit(i, b, v),
         NEW after, after = Damaged(playersCache[v], now)
  PROVE  /\ playersCache[v] \in Snapshot /\ ~Frozen(playersCache, v, now)
         /\ playersCache[v].hp = 0 => playersCache[v].deadUntil <= now
         /\ after \in Snapshot
         /\ playersCache' = [playersCache EXCEPT ![v] = after]
         /\ replay' = ApplyHit(replay, v, after.hp)
<1> USE WorldAssumption, CombatAssumption
<1>1. TypeOK /\ now \in Nat
  BY DEF BotsInv, BotsTypeOK, TypeOK
<1>2. /\ playersCache[v] \in Snapshot /\ ~Frozen(playersCache, v, now)
      /\ playersCache[v].hp = 0 => playersCache[v].deadUntil <= now
  BY <1>1 DEF BotHit, Target, Frozen, Snapshot, TypeOK
<1>3. after \in Snapshot
  BY <1>1, <1>2, DamagedType, Zenon
<1>4. after = [hp |-> after.hp, deadUntil |-> after.deadUntil]
  BY Zenon DEF Damaged
<1>5. playersCache' = ApplyHit([playersCache EXCEPT ![v] = after], v, after.hp)
  BY Zenon DEF BotHit
<1>6. [playersCache EXCEPT ![v] = after][v] = after
  BY <1>1, Zenon DEF TypeOK
<1>7. [[playersCache EXCEPT ![v] = after] EXCEPT ![v] = after]
      = [playersCache EXCEPT ![v] = after]
  BY <1>1, Zenon DEF TypeOK
<1>8. playersCache' = [playersCache EXCEPT ![v] = after]
  BY <1>3, <1>4, <1>5, <1>6, <1>7, Zenon DEF ApplyHit, Overwrite
<1>9. replay' = ApplyHit(replay, v, after.hp)
  BY Zenon DEF BotHit
<1> QED
  BY <1>2, <1>3, <1>8, <1>9, Zenon

(* A bot's hit keeps the invariant: a lethal one adds the only death of    *)
(* its victim that is on its way.                                          *)
LEMMA HittingBot ==
  ASSUME BotsInv, NEW i \in Loop, NEW b \in Bot, NEW v \in Player, BotHit(i, b, v)
  PROVE  BotsInv'
<1> USE WorldAssumption, CombatAssumption
<1> PICK after : after = Damaged(playersCache[v], now)
  BY Zenon
<1> PICK w : w = IF after.hp = 0 THEN v ELSE None
  BY Zenon
<1> PICK c : c = [loop[i] EXCEPT !.pc = "hit", !.since = now, !.victim = w,
                                 !.respawnAt = now + RespawnMs]
  BY Zenon
<1>1. /\ GoodCall(loop[i]) /\ loop[i] \in Call /\ TypeOK /\ IdsKnown /\ now \in Nat
      /\ lastShotAt \in [Bot -> Nat] /\ felled \subseteq [victim : Player, respawnAt : Nat]
  BY DEF BotsInv, BotsTypeOK, TypeOK
<1>2. /\ playersCache[v] \in Snapshot
      /\ playersCache[v].hp = 0 => playersCache[v].deadUntil <= now
      /\ after \in Snapshot
      /\ playersCache' = [playersCache EXCEPT ![v] = after]
      /\ replay' = ApplyHit(replay, v, after.hp)
  BY BotHitEffect, Zenon
<1>3. v \in joined \cup Bot
  BY <1>1, <1>2, Zenon DEF IdsKnown
<1>4. /\ loop' = [loop EXCEPT ![i] = c] /\ running' = None
      /\ lastShotAt' = lastShotAt /\ OthersUnchanged
      /\ felled' \subseteq felled \cup {[victim |-> v, respawnAt |-> now + RespawnMs]}
  BY Zenon DEF BotHit, Await
<1>5. loop[i].left # <<>> /\ ~Pends(i)
  BY <1>1, Zenon DEF BotHit, Resumes, Pends, GoodCall
<1>6. /\ c \in Call /\ c.pc = "hit" /\ c.left = loop[i].left /\ c.since = now
      /\ c.victim = w /\ c.respawnAt = now + RespawnMs
  <2>1. w \in Player \cup {None} /\ now + RespawnMs \in Nat
    BY <1>1
  <2> QED
    BY <1>1, <2>1, Zenon DEF Call
<1>7. GoodCall(c)
  BY <1>1, <1>3, <1>5, <1>6 DEF GoodCall
<1>8. loop' \in [Loop -> Call] /\ \A j \in Loop : GoodCall(loop[j])'
  BY <1>4, <1>7, CallStep, Zenon DEF BotsInv, BotsTypeOK, OthersUnchanged
<1>9. TypeOK'
  <2>1. replay' \in [Player -> Snapshot \cup {Absent}]
    BY <1>1, <1>2, Zenon DEF TypeOK, ApplyHit, Overwrite, Snapshot
  <2>2. playersCache' \in [Player -> Snapshot \cup {Absent}]
    BY <1>1, <1>2, Zenon DEF TypeOK
  <2> QED
    BY <1>1, <1>4, <2>1, <2>2, Zenon DEF TypeOK, OthersUnchanged
<1>10. felled' \subseteq [victim : Player, respawnAt : Nat]
       /\ \A t \in felled' : t.victim \in joined' \cup Bot
  BY <1>1, <1>3, <1>4 DEF BotsInv, OthersUnchanged
<1>11. BotsTypeOK'
  BY <1>1, <1>4, <1>8, <1>9, <1>10, Zenon DEF BotsTypeOK
<1>12. IdsKnown' /\ DeathsAhead'
  <2>1. DeathsAhead'
    BY <1>4, Zenon DEF BotsInv, DeathsAhead, OthersUnchanged
  <2>2. \A p \in Player : playersCache'[p] # Absent => p \in joined \cup Bot
    BY <1>1, <1>2, <1>3, Zenon DEF IdsKnown, TypeOK
  <2> QED
    BY <1>1, <1>4, <2>1, <2>2, Zenon DEF IdsKnown, OthersUnchanged
<1>13. \A j \in Loop : running' = j => loop'[j].pc = "next"
  BY <1>4, BotsAssumption, Zenon
<1>14. AgreeOn(dying \cup BotsDying)'
  <2> PICK D : D = dying \cup BotsDying
    BY Zenon
  <2> PICK E : E = (dying \cup BotsDying)'
    BY Zenon
  <2>0. PICK new : new = [by |-> Head(c.left), shot |-> i, victim |-> c.victim,
                          respawnAt |-> c.respawnAt]
    BY Zenon
  <2>1. Ahead(D) /\ AgreeOn(D)
    BY <1>1, BotsDyingAhead, DyingIsAhead, Zenon DEF Ahead, BotsInv
  <2>2. v # None
    BY BotsAssumption, Zenon
  <2>3. BotsDying' = IF after.hp = 0 THEN BotsDying \cup {new} ELSE BotsDying
    <3>1. loop \in [Loop -> Call]
      BY Zenon DEF BotsInv, BotsTypeOK
    <3>2. (c.victim # None) <=> (after.hp = 0)
      BY <1>6, <2>2, Zenon
    <3> QED
      BY <1>4, <1>5, <1>6, <2>0, <3>1, <3>2, BotsDyingStep, Zenon
  <2>4. E = IF after.hp = 0 THEN D \cup {new} ELSE D
    BY <1>4, <2>3, Zenon DEF OthersUnchanged
  <2>5. clients' = clients
    BY <1>4, Zenon DEF OthersUnchanged
  <2>6. CASE after.hp = 0
    <3>1. new.victim = v /\ new.respawnAt = now + RespawnMs
      BY <1>6, <2>0, <2>6, Zenon
    <3>2. AgreeOn(E)'
      BY <1>1, <1>2, <2>1, <2>4, <2>5, <3>1, HitAgrees, Zenon
    <3> QED
      BY <3>2, Zenon DEF AgreeOn, LogAgrees, DeathsCurrent, OnePending
  <2>7. CASE after.hp # 0
    <3> PICK other : other = [victim |-> v, respawnAt |-> now + RespawnMs]
      BY Zenon
    <3>1. other.victim = v /\ other.respawnAt = now + RespawnMs
      BY Zenon
    <3>2. E = IF after.hp = 0 THEN D \cup {other} ELSE D
      BY <2>4, <2>7, Zenon
    <3>3. AgreeOn(E)'
      BY <1>1, <1>2, <2>1, <2>5, <3>1, <3>2, HitAgrees, Zenon
    <3> QED
      BY <3>3, Zenon DEF AgreeOn, LogAgrees, DeathsCurrent, OnePending
  <2> QED
    BY <2>6, <2>7, Zenon
<1> QED
  BY <1>8, <1>10, <1>11, <1>12, <1>13, <1>14, Zenon DEF BotsInv

(* The death event of a bot's hit keeps the invariant.                     *)
LEMMA KillingBot ==
  ASSUME BotsInv, NEW i \in Loop, NEW b \in Bot, BotDeath(i, b)
  PROVE  BotsInv' /\ \A p \in clients : playersCache'[p] = playersCache[p]
<1> USE WorldAssumption, CombatAssumption
<1> PICK c : c = [loop[i] EXCEPT !.pc = "death", !.since = now]
  BY Zenon
<1>1. /\ GoodCall(loop[i]) /\ loop[i] \in Call /\ TypeOK /\ IdsKnown /\ now \in Nat
      /\ lastShotAt \in [Bot -> Nat] /\ felled \subseteq [victim : Player, respawnAt : Nat]
      /\ loop \in [Loop -> Call]
  BY DEF BotsInv, BotsTypeOK, TypeOK
<1>2. Pends(i)
  BY Zenon DEF BotDeath, Resumes, Pends
<1>3. /\ loop[i].left # <<>> /\ loop[i].respawnAt >= RespawnMs
      /\ loop[i].respawnAt \in Nat /\ loop[i].victim \in Player
  BY <1>1, <1>2, Zenon DEF Pends, GoodCall, Call
<1>4. /\ loop' = [loop EXCEPT ![i] = c] /\ running' = None
      /\ lastShotAt' = lastShotAt /\ felled' = felled /\ OthersUnchanged
      /\ playersCache' = ApplyDeath(playersCache, loop[i].victim, loop[i].respawnAt)
      /\ replay' = ApplyDeath(replay, loop[i].victim, loop[i].respawnAt)
  BY Zenon DEF BotDeath, Await
<1>5. /\ c \in Call /\ c.pc = "death" /\ c.left = loop[i].left
      /\ c.respawnAt = loop[i].respawnAt
  BY <1>1, Zenon DEF Call
<1>6. GoodCall(c)
  BY <1>3, <1>5, Zenon DEF GoodCall
<1>7. loop' \in [Loop -> Call] /\ \A j \in Loop : GoodCall(loop[j])'
  BY <1>1, <1>4, <1>6, CallStep, Zenon DEF BotsInv, OthersUnchanged
<1>8. TypeOK'
  <2>1. [hp |-> 0, deadUntil |-> loop[i].respawnAt] \in Snapshot
    BY <1>3 DEF Snapshot
  <2>2. /\ playersCache' \in [Player -> Snapshot \cup {Absent}]
        /\ replay' \in [Player -> Snapshot \cup {Absent}]
    BY <1>1, <1>3, <1>4, <2>1, Zenon DEF TypeOK, ApplyDeath, Overwrite
  <2> QED
    BY <1>1, <1>4, <2>2, Zenon DEF TypeOK, OthersUnchanged
<1>9. BotsTypeOK'
  BY <1>1, <1>4, <1>7, <1>8, Zenon DEF BotsTypeOK
<1>10. IdsKnown' /\ DeathsAhead'
  <2>1. DeathsAhead'
    BY <1>4, Zenon DEF BotsInv, DeathsAhead, OthersUnchanged
  <2>2. \A p \in Player : playersCache'[p] # Absent => playersCache[p] # Absent
    BY <1>1, <1>4, Zenon DEF ApplyDeath, Overwrite, TypeOK
  <2> QED
    BY <1>1, <1>4, <2>1, <2>2, Zenon DEF IdsKnown, OthersUnchanged
<1>11. \A j \in Loop : running' = j => loop'[j].pc = "next"
  BY <1>4, BotsAssumption, Zenon
<1>12. \A t \in felled' : t.victim \in joined' \cup Bot
  BY <1>4, Zenon DEF BotsInv, OthersUnchanged
<1>13. /\ AgreeOn(dying \cup BotsDying)'
       /\ \A p \in clients : playersCache'[p] = playersCache[p]
  <2> PICK D : D = dying \cup BotsDying
    BY Zenon
  <2> PICK E : E = (dying \cup BotsDying)'
    BY Zenon
  <2> PICK d : d = Dealt(i)
    BY Zenon
  <2>1. /\ BotsDying' \subseteq BotsDying /\ BotsDying \ {d} \subseteq BotsDying'
        /\ d \in BotsDying
    BY <1>1, <1>2, <1>4, <1>5, BotsDyingStep, BotsDyingIs, Zenon
  <2>2. d \in D /\ E \subseteq D /\ D \ {d} \subseteq E
    BY <1>4, <2>1, Zenon DEF OthersUnchanged
  <2>3. d.victim = loop[i].victim /\ d.respawnAt = loop[i].respawnAt
    BY Zenon DEF Dealt
  <2>4. AgreeOn(D) /\ clients' = clients
    BY <1>4, Zenon DEF BotsInv, OthersUnchanged
  <2>5. AgreeOn(E)' /\ \A p \in clients : playersCache'[p] = playersCache[p]
    BY <1>1, <1>3, <1>4, <2>2, <2>3, <2>4, DeathAgrees, Zenon
  <2> QED
    BY <2>5, Zenon DEF AgreeOn, LogAgrees, DeathsCurrent, OnePending
<1> QED
  BY <1>7, <1>9, <1>10, <1>11, <1>12, <1>13, Zenon DEF BotsInv

(* Every step keeps the invariant of the bots.                             *)
LEMMA BotsStep ==
  ASSUME BotsInv, [BotsNext]_allVars
  PROVE  BotsInv'
<1>1. CASE Others
  BY <1>1, OthersKeep, Zenon
<1>2. ASSUME NEW i \in Loop, UpdateBots(i) \/ Run(i) \/ Resume(i)
      PROVE  BotsInv'
  <2>1. CASE UpdateBots(i) \/ Return(i)
    BY <2>1, StartAndReturn, Zenon
  <2>2. ASSUME NEW b \in Bot, Skip(i, b) \/ Revive(i, b) \/ Walk(i, b) \/ Shoot(i, b)
        PROVE  BotsInv'
    BY <2>2, TurnsEnd, RevivingBot, ShootingBot, Zenon
  <2>3. ASSUME NEW b \in Bot,
               \/ BotMiss(i, b) \/ \E v \in Player : BotHit(i, b, v)
               \/ BotWounded(i, b) \/ BotDeath(i, b) \/ BotKilled(i, b) \/ BotRevived(i, b)
        PROVE  BotsInv'
    BY <2>3, TurnsEnd, HittingBot, KillingBot, Zenon
  <2> QED
    BY <1>2, <2>1, <2>2, <2>3, Zenon DEF Run, Resume
<1>3. CASE UNCHANGED allVars
  <2>1. UNCHANGED vars /\ UNCHANGED bvars
    BY <1>3, Zenon DEF allVars
  <2>2. TypeOK' /\ IdsKnown' /\ DeathsAhead'
    BY <2>1, TypeStep, IdsStep, AheadStep, Zenon DEF BotsInv, BotsTypeOK
  <2>3. BotsTypeOK'
    BY <2>1, <2>2, Zenon DEF BotsInv, BotsTypeOK, bvars
  <2>4. \A i \in Loop : GoodCall(loop[i])'
    BY <2>1, Zenon DEF BotsInv, GoodCall, vars, bvars
  <2>5. AgreeOn(dying \cup BotsDying)'
    <3>1. BotsDying' = BotsDying
      BY <2>1, Zenon DEF BotsDying, bvars
    <3> QED
      BY <2>1, <3>1, Zenon DEF BotsInv, AgreeOn, LogAgrees, DeathsCurrent,
         OnePending, vars
  <2>6. /\ \A i \in Loop : running' = i => loop'[i].pc = "next"
        /\ \A t \in felled' : t.victim \in joined' \cup Bot
    BY <2>1, Zenon DEF BotsInv, vars, bvars
  <2> QED
    BY <2>2, <2>3, <2>4, <2>5, <2>6, Zenon DEF BotsInv
<1> QED
  BY <1>1, <1>2, <1>3, Zenon DEF BotsNext

(* The invariant of the bots always holds.                                 *)
LEMMA BotsInvariant == BotsSpec => []BotsInv
<1>1. InitBots => BotsInv
  <2> SUFFICES ASSUME InitBots PROVE BotsInv
    BY Zenon
  <2>1. Init => TypeOK
    BY WorldAssumption, CombatAssumption, FreshType DEF Init, TypeOK
  <2>2. IdsKnown /\ DeathsAhead
    BY CombatAssumption DEF InitBots, Init, IdsKnown, DeathsAhead
  <2>3. \A i \in Loop : loop[i] = Idle
    BY Zenon DEF InitBots
  <2>4. BotsTypeOK
    <3>1. Idle \in Call
      BY RestingCall, Zenon DEF GoodCall
    <3>2. lastShotAt \in [Bot -> Nat]
      BY BotsAssumption DEF InitBots
    <3> QED
      BY <2>1, <3>1, <3>2, Zenon DEF InitBots, BotsTypeOK
  <2>5. /\ \A i \in Loop : GoodCall(loop[i])
        /\ \A i \in Loop : running = i => loop[i].pc = "next"
        /\ \A t \in felled : t.victim \in joined \cup Bot
    BY <2>3, RestingCall, BotsAssumption, Zenon DEF InitBots
  <2>6. AgreeOn(dying \cup BotsDying)
    <3>1. BotsDying = {}
      BY <2>3, RestingCall, BotsDyingIs, Zenon DEF Pends
    <3> QED
      BY <3>1, Zenon DEF InitBots, Init, AgreeOn, LogAgrees, DeathsCurrent,
         OnePending
  <2> QED
    BY <2>2, <2>4, <2>5, <2>6, Zenon DEF BotsInv
<1> QED
  BY <1>1, BotsStep, PTL DEF BotsSpec

(* With any number of bots, and of calls of updateBots in progress, the    *)
(* table, the calls and the deaths dealt by bots keep their types.         *)
THEOREM BotsTypes == BotsSpec => []BotsTypeOK
<1>1. BotsInv => BotsTypeOK
  BY Zenon DEF BotsInv
<1> QED
  BY <1>1, BotsInvariant, PTL

(* Bots do not disturb the agreement of table and event log about the      *)
(* connected players, although updateBots writes back entries it read      *)
(* before its awaits.                                                      *)
THEOREM BotsKeepAgreement == BotsSpec => []PlayersAgree
<1>1. BotsInv => PlayersAgree
  BY Zenon DEF BotsInv, AgreeOn, PlayersAgree
<1> QED
  BY <1>1, BotsInvariant, PTL

----------------------------------------------------------------------------
(* A step with bots in the game is one without, or a bot's: that leaves    *)
(* the entries of connected players alone unless it is a hit.              *)
LEMMA BotsTouch ==
  ASSUME BotsInv, [BotsNext]_allVars
  PROVE  \/ [Next]_vars /\ felled' = felled
         \/ /\ OthersUnchanged /\ felled' = felled
            /\ \A p \in clients : playersCache'[p] = playersCache[p]
         \/ \E i \in Loop, b \in Bot, v \in Player : BotHit(i, b, v)
<1> DEFINE Goal ==
         \/ [Next]_vars /\ felled' = felled
         \/ /\ OthersUnchanged /\ felled' = felled
            /\ \A p \in clients : playersCache'[p] = playersCache[p]
         \/ \E i \in Loop, b \in Bot, v \in Player : BotHit(i, b, v)
<1> SUFFICES Goal
  BY Zenon
<1>1. CASE Others \/ UNCHANGED allVars
  BY <1>1, Zenon DEF Others, allVars, bvars
<1>2. ASSUME NEW i \in Loop, UpdateBots(i) \/ Run(i) \/ Resume(i)
      PROVE  Goal
  <2>1. clients \subseteq Player \ Bot /\ playersCache \in [Player -> Snapshot \cup {Absent}]
    BY Zenon DEF BotsInv, BotsTypeOK, TypeOK, IdsKnown
  <2>2. CASE UpdateBots(i) \/ Return(i)
    BY <2>2, Zenon DEF UpdateBots, Return
  <2>3. ASSUME NEW b \in Bot, Skip(i, b) \/ Walk(i, b) \/ Shoot(i, b) \/ BotRevived(i, b)
        PROVE  Goal
    BY <2>3, Zenon DEF Skip, Walk, Shoot, BotRevived
  <2>4. ASSUME NEW b \in Bot, Revive(i, b)
        PROVE  Goal
    <3>1. OthersUnchanged /\ felled' = felled
      BY <2>4, Zenon DEF Revive
    <3>2. \A p \in clients : playersCache'[p] = playersCache[p]
      BY <2>1, <2>4, Zenon DEF Revive, ApplyRespawn, Overwrite
    <3> QED
      BY <3>1, <3>2, Zenon
  <2>5. ASSUME NEW b \in Bot, BotMiss(i, b) \/ BotWounded(i, b) \/ BotKilled(i, b)
        PROVE  Goal
    <3>1. /\ OthersUnchanged /\ felled' = felled
          /\ playersCache' = [playersCache EXCEPT ![b] = loop[i].snapshot]
      BY <2>5, Zenon DEF BotMiss, BotWounded, BotKilled, WriteBack
    <3>2. \A p \in clients : playersCache'[p] = playersCache[p]
      BY <2>1, <3>1, Zenon
    <3> QED
      BY <3>1, <3>2, Zenon
  <2>6. ASSUME NEW b \in Bot, BotDeath(i, b)
        PROVE  Goal
    <3>1. OthersUnchanged /\ felled' = felled
      BY <2>6, Zenon DEF BotDeath
    <3> QED
      BY <2>6, <3>1, KillingBot, Zenon
  <2>7. ASSUME NEW b \in Bot, NEW v \in Player, BotHit(i, b, v)
        PROVE  Goal
    BY <2>7, Zenon
  <2> HIDE DEF Goal
  <2> QED
    BY <1>2, <2>2, <2>3, <2>4, <2>5, <2>6, <2>7, Zenon DEF Run, Resume
<1> HIDE DEF Goal
<1> QED
  BY <1>1, <1>2, Zenon DEF BotsNext

(* The deaths of Combat are settled among those of bots.                   *)
LEMMA BotsSettle == BotsInv => TypeOK /\ IdsKnown /\ DeathsAhead /\ Settled
  BY AgreeSettles, Zenon DEF BotsInv, BotsTypeOK

(* Bots throw without shot ids, and their kills are not recorded: what     *)
(* they do keeps the records of shots and kills.  A bot's hit, like any    *)
(* other, needs a victim whose earlier deaths lie behind.                  *)
LEMMA RecordStep ==
  ASSUME BotsInv, BotsInv', [BotsNext]_allVars, ThrowsSpaced, DeathsBehind,
         KillSpacing
  PROVE  ThrowsSpaced' /\ DeathsBehind' /\ KillSpacing'
<1>1. TypeOK /\ TypeOK' /\ IdsKnown /\ DeathsAhead /\ Settled
  BY BotsSettle, Zenon DEF BotsInv, BotsTypeOK
<1>2. CASE [Next]_vars
  BY <1>1, <1>2, ThrowStep, SpacingStep, Zenon
<1>3. ASSUME OthersUnchanged
      PROVE  ThrowsSpaced' /\ KillSpacing'
  <2>1. UNCHANGED <<now, clients, seenShots, flying, kills, hits>>
    BY <1>3, Zenon DEF OthersUnchanged
  <2>2. Thrown' = Thrown
    BY <2>1, Zenon DEF Thrown
  <2> QED
    BY <2>1, <2>2, Zenon DEF ThrowsSpaced, KillSpacing
<1>4. CASE OthersUnchanged /\ \A p \in clients : playersCache'[p] = playersCache[p]
  <2>1. DeathsBehind'
    BY <1>4, Zenon DEF DeathsBehind, OthersUnchanged
  <2> QED
    BY <1>3, <1>4, <2>1, Zenon
<1>5. ASSUME NEW i \in Loop, NEW b \in Bot, NEW v \in Player, BotHit(i, b, v)
      PROVE  ThrowsSpaced' /\ DeathsBehind' /\ KillSpacing'
  <2> DEFINE after == Damaged(playersCache[v], now)
  <2>1. /\ playersCache[v] \in Snapshot
        /\ playersCache[v].hp = 0 => playersCache[v].deadUntil <= now
        /\ after \in Snapshot
        /\ playersCache' = [playersCache EXCEPT ![v] = after]
    BY <1>5, BotHitEffect, Zenon
  <2>2. OthersUnchanged
    BY <1>5, Zenon DEF BotHit
  <2>3. UNCHANGED <<now, clients, dying, kills>>
    BY <2>2, Zenon DEF OthersUnchanged
  <2>4. after.hp = 0 => after.deadUntil = now + RespawnMs
    BY Zenon DEF Damaged
  <2>5. \A k \in kills : k.victim = v /\ v \in clients => k.respawnAt <= now
    BY <1>1, <2>1, WorldAssumption, CombatAssumption
       DEF DeathsBehind, TypeOK, Row, Snapshot
  <2>6. now \in Nat /\ \A k \in kills : k.respawnAt \in Nat
    BY <1>1, CombatAssumption DEF TypeOK, Row
  <2> HIDE DEF after
  <2>7. ASSUME NEW k \in kills, k.victim \in clients
        PROVE  /\ playersCache'[k.victim].hp > 0 => k.respawnAt <= now
               /\ playersCache'[k.victim].hp = 0 =>
                     \/ k.respawnAt = playersCache'[k.victim].deadUntil
                     \/ k.respawnAt + RespawnMs <= playersCache'[k.victim].deadUntil
    <3>1. CASE k.victim = v
      BY <1>1, <2>1, <2>4, <2>5, <2>6, <2>7, <3>1, WorldAssumption DEF TypeOK
    <3>2. CASE k.victim # v
      BY <1>1, <2>1, <2>7, <3>2, Zenon DEF TypeOK, DeathsBehind
    <3> QED
      BY <3>1, <3>2, Zenon
  <2>8. \A k \in kills : k.victim \in clients =>
            \A d \in dying : d.victim = k.victim => k.respawnAt + RespawnMs <= d.respawnAt
    BY Zenon DEF DeathsBehind
  <2>9. DeathsBehind'
    BY <2>3, <2>7, <2>8, Zenon DEF DeathsBehind
  <2> QED
    BY <1>3, <2>2, <2>9, Zenon
<1> QED
  BY <1>2, <1>4, <1>5, BotsTouch, Zenon

(* With any number of bots, and of calls of updateBots in progress, the    *)
(* records of the players stay right: nobody is killed twice in one life,  *)
(* a shot id hits once per window, and a kill is credited to its attacker  *)
(* unless that player is gone or has an empty name by then.                *)
THEOREM BotsKeepRecords ==
  BotsSpec => [](KillSpacing /\ OneHitPerShot) /\ CreditUnlessGone
<1> DEFINE Inv == ThrowsSpaced /\ DeathsBehind /\ KillSpacing
<1>1. InitBots => Inv
  BY Zenon DEF InitBots, Init, ThrowsSpaced, Thrown, DeathsBehind, KillSpacing
<1>2. BotsInv /\ BotsInv' /\ Inv /\ [BotsNext]_allVars => Inv'
  BY RecordStep, Zenon
<1>3. Inv => KillSpacing /\ OneHitPerShot
  BY Zenon DEF ThrowsSpaced, Thrown, OneHitPerShot
<1>4. BotsSpec => [](KillSpacing /\ OneHitPerShot)
  BY <1>1, <1>2, <1>3, BotsInvariant, PTL DEF BotsSpec
<1>5. BotsInv /\ [BotsNext]_allVars => [Credited]_vars
  <2> SUFFICES ASSUME BotsInv, [BotsNext]_allVars PROVE [Credited]_vars
    BY Zenon
  <2>1. CASE [Next]_vars
    BY <2>1, CreditStep, BotsSettle, Zenon
  <2>2. CASE OthersUnchanged
    BY <2>2, Zenon DEF OthersUnchanged, Credited
  <2> QED
    BY <2>1, <2>2, BotsTouch, Zenon DEF BotHit
<1>6. BotsSpec => [][Credited]_vars
  BY <1>5, BotsInvariant, PTL DEF BotsSpec
<1> QED
  BY <1>4, <1>6, Zenon DEF CreditUnlessGone, Credited

(* With bots in the game a killed player still lies dead for the whole     *)
(* respawn time: neither botShoot nor what updateBots writes back moves    *)
(* it.                                                                     *)
THEOREM TheDeadStayDownWithBots == BotsSpec => DeadStayDown
<1>1. BotsInv /\ [BotsNext]_allVars => [Down]_vars
  <2> SUFFICES ASSUME BotsInv, [BotsNext]_allVars PROVE [Down]_vars
    BY Zenon
  <2>1. TypeOK /\ Settled
    BY BotsSettle, Zenon
  <2>2. CASE [Next]_vars
    BY <2>1, <2>2, DownStep, Zenon
  <2>3. CASE \A p \in clients : playersCache'[p] = playersCache[p]
    BY <2>3, Zenon DEF Down
  <2>4. ASSUME NEW i \in Loop, NEW b \in Bot, NEW v \in Player, BotHit(i, b, v)
        PROVE  Down
    <3>1. ~Frozen(playersCache, v, now)
      BY <2>4, BotHitEffect, Zenon
    <3>2. playersCache' = [playersCache EXCEPT ![v] = Damaged(playersCache[v], now)]
      BY <2>4, BotHitEffect, Zenon
    <3> QED
      BY <2>1, <3>1, <3>2, Zenon DEF TypeOK, Down
  <2> QED
    BY <2>2, <2>3, <2>4, BotsTouch, Zenon
<1>2. BotsSpec => [][Down]_vars
  BY <1>1, BotsInvariant, PTL DEF BotsSpec
<1> QED
  BY <1>2, Zenon DEF DeadStayDown, Down

----------------------------------------------------------------------------
\* The deaths of connected players that bots have dealt.
Fallen == {t \in felled : t.victim \in clients}

(* A step of a bot that leaves the connected players' entries alone shows  *)
(* nothing.                                                                *)
LEMMA BotHides ==
  ASSUME OthersUnchanged, \A p \in clients : playersCache'[p] = playersCache[p]
  PROVE  Hidden
<1>1. UNCHANGED <<now, joined, clients, kills, dying>>
  BY Zenon DEF OthersUnchanged
<1>2. Body' = Body
  BY <1>1, Zenon DEF Body
<1>3. Toll' = Toll
  BY <1>1, Zenon DEF Toll
<1> QED
  BY <1>1, <1>2, <1>3, Zenon DEF Hidden

(* A bot's hit on a connected player strikes it, and shows nothing else.   *)
LEMMA BotStrikes ==
  ASSUME BotsInv, NEW i \in Loop, NEW b \in Bot, NEW v \in Player, BotHit(i, b, v)
  PROVE  \/ Hidden /\ Fallen' = Fallen
         \/ IsStruck(v, Toll' \cup Fallen', Toll \cup Fallen)
<1> PICK after : after = Damaged(playersCache[v], now)
  BY Zenon
<1>1. /\ playersCache[v] \in Snapshot /\ ~Frozen(playersCache, v, now)
      /\ playersCache' = [playersCache EXCEPT ![v] = after]
  BY BotHitEffect, Zenon
<1>2. /\ OthersUnchanged /\ clients' = clients
      /\ felled' = IF after.hp = 0
                   THEN felled \cup {[victim |-> v, respawnAt |-> now + RespawnMs]}
                   ELSE felled
  BY Zenon DEF BotHit, OthersUnchanged
<1>3. playersCache \in [Player -> Snapshot \cup {Absent}] /\ clients \subseteq Player
  BY Zenon DEF BotsInv, BotsTypeOK, TypeOK
<1>4. CASE v \notin clients
  <2>1. \A p \in clients : playersCache'[p] = playersCache[p]
    BY <1>1, <1>3, <1>4, Zenon
  <2>2. Fallen' = Fallen
    BY <1>2, <1>4 DEF Fallen
  <2> QED
    BY <1>2, <2>1, <2>2, BotHides, Zenon
<1>5. CASE v \in clients
  <2>1. Body[v] = playersCache[v]
    BY <1>5, Zenon DEF Body
  <2>2. Body[v] # Absent /\ ~Frozen(Body, v, now)
    BY <1>1, <2>1, WorldAssumption, Zenon DEF Frozen
  <2>3. Body' = [Body EXCEPT ![v] = after]
    BY <1>1, <1>2, <1>3, <1>5, Zenon DEF Body
  <2>4. UNCHANGED <<now, joined, clients, Toll>>
    BY <1>2, Zenon DEF OthersUnchanged, Toll
  <2>5. Fallen' = IF after.hp = 0
                  THEN Fallen \cup {[victim |-> v, respawnAt |-> now + RespawnMs]}
                  ELSE Fallen
    BY <1>2, <1>5 DEF Fallen
  <2>6. after.hp = NewHp(Body[v].hp) /\ after = Damaged(Body[v], now)
    BY <2>1, Zenon DEF Damaged
  <2>7. Toll' \cup Fallen' =
            IF NewHp(Body[v].hp) = 0
            THEN (Toll \cup Fallen) \cup {[victim |-> v, respawnAt |-> now + RespawnMs]}
            ELSE Toll \cup Fallen
    BY <2>4, <2>5, <2>6, Zenon
  <2> QED
    BY <2>2, <2>3, <2>4, <2>6, <2>7, Zenon DEF IsStruck
<1> QED
  BY <1>4, <1>5, Zenon

(* What a step shows of the connected players when there are bots.         *)
LEMMA ShownWithBots ==
  ASSUME BotsInv, BotsInv', [BotsNext]_allVars
  PROVE  \/ Hidden /\ Fallen' = Fallen
         \/ Ticks /\ Fallen' = Fallen
         \/ \E p \in Player : \/ Enters(p) /\ Fallen' = Fallen
                              \/ Exits(p) /\ Fallen' = {t \in Fallen : t.victim # p}
                              \/ IsRevived(p) /\ Fallen' = Fallen
                              \/ IsStruck(p, Toll' \cup Fallen', Toll \cup Fallen)
<1> DEFINE Goal ==
         \/ Hidden /\ Fallen' = Fallen
         \/ Ticks /\ Fallen' = Fallen
         \/ \E p \in Player : \/ Enters(p) /\ Fallen' = Fallen
                              \/ Exits(p) /\ Fallen' = {t \in Fallen : t.victim # p}
                              \/ IsRevived(p) /\ Fallen' = Fallen
                              \/ IsStruck(p, Toll' \cup Fallen', Toll \cup Fallen)
<1> SUFFICES Goal
  BY Zenon
<1>1. ASSUME [Next]_vars, felled' = felled
      PROVE  Goal
  <2>1. /\ TypeOK /\ TypeOK' /\ IdsKnown /\ DeathsCurrent(dying)
        /\ \A p \in clients : playersCache[p] # Absent
        /\ \A t \in felled : t.victim \in joined \cup Bot
    BY Zenon DEF BotsInv, BotsTypeOK, AgreeOn, LogAgrees, DeathsCurrent
  <2>2. \/ Hidden \/ Ticks
        \/ \E p \in Player : \/ Enters(p) \/ Exits(p) \/ IsRevived(p)
                             \/ IsStruck(p, Toll', Toll)
    BY <1>1, <2>1, ShownStep, Zenon
  <2>3. clients' = clients => Fallen' = Fallen
    BY <1>1, Zenon DEF Fallen
  <2>4. Hidden \/ Ticks => clients' = clients
    BY Zenon DEF Hidden, Ticks
  <2>5. ASSUME NEW p \in Player, Enters(p)
        PROVE  Fallen' = Fallen
    BY <1>1, <2>1, <2>5, Zenon DEF Enters, Fallen
  <2>6. ASSUME NEW p \in Player, Exits(p)
        PROVE  Fallen' = {t \in Fallen : t.victim # p}
    BY <1>1, <2>6, Zenon DEF Exits, Fallen
  <2>7. ASSUME NEW p \in Player, IsRevived(p)
        PROVE  clients' = clients
    BY <2>7, Zenon DEF IsRevived
  <2>8. ASSUME NEW p \in Player, IsStruck(p, Toll', Toll)
        PROVE  IsStruck(p, Toll' \cup Fallen', Toll \cup Fallen)
    <3>1. Fallen' = Fallen
      BY <2>3, <2>8, Zenon DEF IsStruck
    <3>2. Toll' \cup Fallen' =
            IF NewHp(Body[p].hp) = 0
            THEN (Toll \cup Fallen) \cup {[victim |-> p, respawnAt |-> now + RespawnMs]}
            ELSE Toll \cup Fallen
      BY <2>8, <3>1, Zenon DEF IsStruck
    <3> QED
      BY <2>8, <3>2, Zenon DEF IsStruck
  <2> QED
    BY <2>2, <2>3, <2>4, <2>5, <2>6, <2>7, <2>8, Zenon
<1>2. ASSUME OthersUnchanged, felled' = felled,
             \A p \in clients : playersCache'[p] = playersCache[p]
      PROVE  Goal
  <2>1. Fallen' = Fallen
    BY <1>2, Zenon DEF OthersUnchanged, Fallen
  <2> QED
    BY <1>2, <2>1, BotHides, Zenon
<1>3. ASSUME NEW i \in Loop, NEW b \in Bot, NEW v \in Player, BotHit(i, b, v)
      PROVE  Goal
  BY <1>3, BotStrikes, Zenon
<1> HIDE DEF Goal
<1> QED
  BY <1>1, <1>2, <1>3, BotsTouch, Zenon

\* The deaths of connected players, whoever dealt them, recorded or not.
Deaths == Toll \cup Fallen

\* They lie behind, or are the present one.
LifeInv ==
    \A t \in Deaths : \/ t.respawnAt <= now
                      \/ /\ Body[t.victim].hp = 0
                         /\ t.respawnAt <= Body[t.victim].deadUntil

\* Two deaths of a connected player are at least the respawn time apart.
LivesSpaced ==
    \A t, u \in Deaths :
        t # u /\ t.victim = u.victim =>
            \/ t.respawnAt >= u.respawnAt + RespawnMs
            \/ u.respawnAt >= t.respawnAt + RespawnMs

\* The table shows entries, and one for whoever died.
BodyTyped ==
    /\ Body \in [Player -> Snapshot \cup {Absent}]
    /\ \A t \in Deaths : /\ t.victim \in Player /\ t.respawnAt \in Nat
                         /\ Body[t.victim] # Absent
    /\ now \in Nat

(* What the table shows of the connected players are entries.              *)
LEMMA BodyShown == BotsInv => BodyTyped
<1> SUFFICES ASSUME BotsInv PROVE BodyTyped
  BY Zenon
<1>1. TypeOK /\ \A p \in clients : playersCache[p] # Absent
  BY BotsSettle, Zenon DEF Settled
<1>2. Body \in [Player -> Snapshot \cup {Absent}]
  BY <1>1, Zenon DEF Body, TypeOK
<1>3. ASSUME NEW t \in Toll
      PROVE  t.victim \in clients /\ t.victim \in Player /\ t.respawnAt \in Nat
  BY <1>1 DEF Toll, TypeOK, Kill, Row
<1>4. ASSUME NEW t \in Fallen
      PROVE  t.victim \in clients /\ t.victim \in Player /\ t.respawnAt \in Nat
  BY Zenon DEF Fallen, BotsInv, BotsTypeOK
<1>5. \A p \in clients : p \in Player => Body[p] # Absent
  BY <1>1, Zenon DEF Body
<1>6. now \in Nat
  BY <1>1, CombatAssumption DEF TypeOK
<1> QED
  BY <1>2, <1>3, <1>4, <1>5, <1>6, Zenon DEF Deaths, BodyTyped

(* Every step that shows keeps the deaths of a player behind its present   *)
(* life and a respawn time apart.                                          *)
LEMMA LifeStep ==
  ASSUME BotsInv, BotsInv', [BotsNext]_allVars, LifeInv, LivesSpaced
  PROVE  LifeInv' /\ LivesSpaced'
<1> USE WorldAssumption
<1>1. /\ Body \in [Player -> Snapshot \cup {Absent}] /\ now \in Nat
      /\ \A t \in Deaths : /\ t.victim \in Player /\ t.respawnAt \in Nat
                           /\ Body[t.victim] # Absent
  BY BodyShown, Zenon DEF BodyTyped
<1> DEFINE Behind(t) == \/ t.respawnAt <= now
                        \/ /\ Body[t.victim].hp = 0
                           /\ t.respawnAt <= Body[t.victim].deadUntil
<1>3. \A t \in Deaths : Behind(t)
  BY Zenon DEF LifeInv
<1>4. SUFFICES LivesSpaced' /\ \A t \in Deaths' : Behind(t)'
  BY Zenon DEF LifeInv
<1>5. ASSUME Deaths' \subseteq Deaths
      PROVE  LivesSpaced'
  BY <1>5, Zenon DEF LivesSpaced
<1>6. CASE (Hidden \/ Ticks) /\ Fallen' = Fallen
  <2>1. Deaths' = Deaths /\ Body' = Body /\ (now' = now \/ now' = now + 1)
    BY <1>6, Zenon DEF Hidden, Ticks, Deaths
  <2>2. \A t \in Deaths' : Behind(t)'
    BY <1>1, <1>3, <2>1
  <2> QED
    BY <1>5, <2>1, <2>2, Zenon
<1>7. ASSUME NEW p \in Player, Enters(p), Fallen' = Fallen
      PROVE  LivesSpaced' /\ \A t \in Deaths' : Behind(t)'
  <2>1. Deaths' = Deaths /\ now' = now /\ Body' = [Body EXCEPT ![p] = Fresh]
    BY <1>7, Zenon DEF Enters, Deaths
  <2>2. p \notin clients
    BY <1>7, Zenon DEF Enters, BotsInv, BotsTypeOK, TypeOK
  <2>3. Body[p] = Absent
    BY <2>2, Zenon DEF Body
  <2>4. \A t \in Deaths' : Body'[t.victim] = Body[t.victim]
    BY <1>1, <2>1, <2>3, Zenon
  <2>5. \A t \in Deaths' : Behind(t)'
    BY <1>3, <2>1, <2>4, Zenon
  <2> QED
    BY <1>5, <2>1, <2>5, Zenon
<1>8. ASSUME NEW p \in Player, Exits(p), Fallen' = {t \in Fallen : t.victim # p}
      PROVE  LivesSpaced' /\ \A t \in Deaths' : Behind(t)'
  <2>1. /\ Deaths' = {t \in Deaths : t.victim # p}
        /\ now' = now /\ Body' = [Body EXCEPT ![p] = Absent]
    BY <1>8, Zenon DEF Exits, Deaths
  <2>2. \A t \in Deaths' : t \in Deaths /\ Body'[t.victim] = Body[t.victim]
    BY <1>1, <2>1, Zenon
  <2>3. \A t \in Deaths' : Behind(t)'
    BY <1>3, <2>1, <2>2, Zenon
  <2> QED
    BY <1>5, <2>2, <2>3, Zenon
<1>9. ASSUME NEW p \in Player, IsRevived(p), Fallen' = Fallen
      PROVE  LivesSpaced' /\ \A t \in Deaths' : Behind(t)'
  <2>1. Deaths' = Deaths /\ now' = now /\ Body' = [Body EXCEPT ![p] = Fresh]
    BY <1>9, Zenon DEF IsRevived, Deaths
  <2>2. Body[p] \in Snapshot /\ Body[p].hp = 0 /\ Body[p].deadUntil <= now
    BY <1>1, <1>9, Zenon DEF IsRevived, Revivable
  <2>3. ASSUME NEW t \in Deaths'
        PROVE  Behind(t)'
    <3>1. CASE t.victim = p
      BY <1>1, <1>3, <2>1, <2>2, <3>1 DEF Snapshot
    <3>2. CASE t.victim # p
      <4>1. Body'[t.victim] = Body[t.victim]
        BY <1>1, <2>1, <3>2, Zenon
      <4> QED
        BY <1>3, <2>1, <4>1, Zenon
    <3> QED
      BY <3>1, <3>2, Zenon
  <2> QED
    BY <1>5, <2>1, <2>3, Zenon
<1>10. ASSUME NEW p \in Player, IsStruck(p, Toll' \cup Fallen', Toll \cup Fallen)
       PROVE  LivesSpaced' /\ \A t \in Deaths' : Behind(t)'
  <2> DEFINE after == Damaged(Body[p], now)
             new == [victim |-> p, respawnAt |-> now + RespawnMs]
  <2>1. /\ Body[p] # Absent /\ ~Frozen(Body, p, now)
        /\ now' = now /\ Body' = [Body EXCEPT ![p] = after]
        /\ Deaths' = IF NewHp(Body[p].hp) = 0 THEN Deaths \cup {new} ELSE Deaths
    BY <1>10, Zenon DEF IsStruck, Deaths
  <2>2. Body[p] \in Snapshot
    BY <1>1, <2>1, Zenon
  <2>3. Body[p].hp = 0 => Body[p].deadUntil <= now
    BY <1>1, <2>1, <2>2 DEF Frozen, Snapshot
  <2>4. \A t \in Deaths : t.victim = p => t.respawnAt <= now
    BY <1>1, <1>3, <2>2, <2>3 DEF Snapshot
  <2>5. /\ after.hp = NewHp(Body[p].hp)
        /\ after.hp = 0 => after.deadUntil = now + RespawnMs
        /\ new.victim = p /\ new.respawnAt = now + RespawnMs
    BY Zenon DEF Damaged
  <2> HIDE DEF after, new
  <2>6. Body'[p] = after /\ \A q \in Player : q # p => Body'[q] = Body[q]
    BY <1>1, <2>1, Zenon
  <2>7. ASSUME NEW t \in Deaths'
        PROVE  Behind(t)'
    <3>1. CASE t \in Deaths /\ t.victim = p
      BY <2>1, <2>4, <3>1, Zenon
    <3>2. CASE t \in Deaths /\ t.victim # p
      BY <1>1, <1>3, <2>1, <2>6, <3>2, Zenon
    <3>3. CASE t = new /\ NewHp(Body[p].hp) = 0
      BY <1>1, <2>5, <2>6, <3>3
    <3> QED
      BY <2>1, <3>1, <3>2, <3>3, Zenon
  <2>8. \A t \in Deaths : t.victim = new.victim => new.respawnAt >= t.respawnAt + RespawnMs
    BY <1>1, <2>4, <2>5
  <2>9. \A t \in Deaths' : t \in Deaths \/ t = new
    BY <2>1, Zenon
  <2>10. LivesSpaced'
    BY <2>8, <2>9, Zenon DEF LivesSpaced
  <2> QED
    BY <2>7, <2>10, Zenon
<1> HIDE DEF Behind
<1> QED
  BY <1>6, <1>7, <1>8, <1>9, <1>10, ShownWithBots, Zenon

(* A connected player is killed at most once per respawn time, by players  *)
(* and bots together: whatever the interleaving of serverHandleSnowball    *)
(* and of the calls of updateBots, recorded deaths, those on their way and *)
(* those dealt by bots are a respawn time apart.                           *)
THEOREM LivesAreSpaced == BotsSpec => []LivesSpaced
<1>1. InitBots => LifeInv /\ LivesSpaced
  <2> SUFFICES ASSUME InitBots PROVE LifeInv /\ LivesSpaced
    BY Zenon
  <2>1. Deaths = {}
    BY Zenon DEF InitBots, Init, Deaths, Toll, Fallen
  <2>2. \A p \in Player : Body[p] = Absent
    BY Zenon DEF InitBots, Init, Body
  <2> QED
    BY <2>1, <2>2, Zenon DEF LifeInv, LivesSpaced
<1>2. /\ BotsInv /\ BotsInv' /\ [BotsNext]_allVars /\ LifeInv /\ LivesSpaced
      => LifeInv' /\ LivesSpaced'
  BY LifeStep, Zenon
<1> QED
  BY <1>1, <1>2, BotsInvariant, PTL DEF BotsSpec

(* With bots in the game the players still see the atomic game: a bot's    *)
(* hit is a strike, and nothing else a bot does can be observed in the     *)
(* entries of connected players.                                           *)
THEOREM BotsImplementTheArena == BotsSpec => BotsImplementArena
<1>1. InitBots => G!Init
  <2> SUFFICES ASSUME InitBots PROVE G!Init
    BY Zenon
  <2>1. Body = [p \in Player |-> Absent]
    BY Zenon DEF InitBots, Init, Body
  <2>2. Toll \cup {t \in felled : t.victim \in clients} = {}
    BY Zenon DEF InitBots, Init, Toll
  <2> QED
    BY <2>1, <2>2, Zenon DEF InitBots, Init, G!Init
<1>2. BotsInv /\ BotsInv' /\ [BotsNext]_allVars => [G!Next]_(G!avars)
  <2> SUFFICES ASSUME BotsInv, BotsInv', [BotsNext]_allVars
               PROVE  G!Next \/ UNCHANGED G!avars
    BY Zenon
  <2>1. Hidden /\ Fallen' = Fallen => UNCHANGED G!avars
    BY Zenon DEF Hidden, Fallen, G!avars
  <2>2. Ticks /\ Fallen' = Fallen => G!Tick
    BY Zenon DEF Ticks, Fallen, G!Tick
  <2>3. ASSUME NEW p \in Player
        PROVE  /\ Enters(p) /\ Fallen' = Fallen => G!Enter(p)
               /\ Exits(p) /\ Fallen' = {t \in Fallen : t.victim # p} => G!Exit(p)
               /\ IsRevived(p) /\ Fallen' = Fallen => G!Revive(p)
               /\ IsStruck(p, Toll' \cup Fallen', Toll \cup Fallen) => G!Strike(p)
    <3>1. Enters(p) /\ Fallen' = Fallen => G!Enter(p)
      BY Zenon DEF Enters, Fallen, G!Enter, Fresh, G!Fresh
    <3>2. Exits(p) /\ Fallen' = {t \in Fallen : t.victim # p} => G!Exit(p)
      <4> SUFFICES ASSUME Exits(p), Fallen' = {t \in Fallen : t.victim # p}
                   PROVE  G!Exit(p)
        BY Zenon
      <4>1. Toll' \cup Fallen' = {t \in Toll \cup Fallen : t.victim # p}
        BY Zenon DEF Exits
      <4> QED
        BY <4>1, Zenon DEF Exits, G!Exit, Fallen
    <3>3. IsRevived(p) /\ Fallen' = Fallen => G!Revive(p)
      <4> SUFFICES ASSUME IsRevived(p), Fallen' = Fallen
                   PROVE  G!Revive(p)
        BY Zenon
      <4>1. G!Revivable(Body, p, now)
        BY Zenon DEF IsRevived, Revivable, G!Revivable
      <4>2. Body' = [Body EXCEPT ![p] = G!Fresh]
        BY Zenon DEF IsRevived, Fresh, G!Fresh
      <4>3. UNCHANGED <<now, joined, Toll \cup Fallen>>
        BY Zenon DEF IsRevived
      <4> QED
        BY <4>1, <4>2, <4>3, Zenon DEF G!Revive, Fallen
    <3>4. IsStruck(p, Toll' \cup Fallen', Toll \cup Fallen) => G!Strike(p)
      BY Zenon DEF IsStruck, Fallen, G!Strike, Frozen, G!Frozen, Damaged,
         G!Damaged, NewHp, G!NewHp
    <3> QED
      BY <3>1, <3>2, <3>3, <3>4, Zenon
  <2> QED
    BY <2>1, <2>2, <2>3, ShownWithBots, Zenon DEF G!Next
<1> QED
  BY <1>1, <1>2, BotsInvariant, PTL DEF BotsSpec, BotsImplementArena, G!Spec
=============================================================================
