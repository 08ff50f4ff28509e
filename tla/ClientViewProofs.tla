-------------------------- MODULE ClientViewProofs --------------------------
(***************************************************************************)
(* What a page shows of the world, proved for any number of players, of    *)
(* connections and of messages under way: every step leaves the page and   *)
(* the stream well formed, and on its first connection the page never      *)
(* shows its own player as somebody else.                                  *)
(***************************************************************************)
EXTENDS ClientView, TLAPS

\* What the page holds, field by field.
Held == [localPlayerId : Id \cup {Absent}, localPlayer : Id \cup {Absent},
         playersById : [Id -> Model \cup {Absent}], orphans : SUBSET Id,
         pendingSnapshot : Poses \cup {Absent}, first : Nat]

\* A join carries the pose of the entry that its hello wrote.
Posed(m) == m.t = "join" => m.pose \in Pose

\* Entries belong to players that have said hello.
StreamInv ==
    /\ StreamTypeOK
    /\ \A p \in Id : cached[p] # Absent => p \in met
    /\ \A m \in sending : Posed(m)

\* Message m says something that player p has sent.
Says(m, p) ==
    \/ m.t = "states" /\ m.list[p] # Absent
    \/ m.t = "respawn" /\ m.id = p

\* Nothing that p has sent waits for a frame or is in one.
Quiet(p) == pending[p] = Absent /\ \A m \in sending : ~ Says(m, p)

\* A page that was just loaded holds nothing and awaits nothing, what
\* arrives is for everybody or for the page, and ids are new when they are
\* given.
LinkInv ==
    /\ conn = 0 => link = "page"
    /\ link = "page" => arriving = {} /\ page = Blank
    /\ \A m \in arriving : m.to \in {All, Me} /\ Posed(m)
    /\ \A i \in 1 .. last : i > conn => Own[i] \notin met
    /\ link = "connecting" => Me \notin met
    /\ \A p \in Id : p \notin met => Quiet(p)

\* A page g that has been given the identity me, or none so far.
Alone(g, me) ==
    /\ g.localPlayerId \in {Absent, me}
    /\ g.localPlayer \in {Absent, me}
    /\ g.localPlayerId = Absent => g.localPlayer = Absent
    /\ g.orphans = {}
    /\ g.playersById[me] # Absent => ~ g.playersById[me].remote
    /\ g.localPlayer = Absent => g.playersById[me] = Absent

\* On its first connection a page has one identity, and until it has its
\* local player it is not sent a frame that lists it.
FirstView ==
    page.first = conn /\ link # "page" =>
        /\ Alone(page, Me)
        /\ page.localPlayer = Absent =>
               /\ \A m \in arriving : ~ (m.t = "states" /\ m.list[Me] # Absent)
               /\ link = "open" => Quiet(Me)

ViewInv == ViewTypeOK /\ page \in Held /\ StreamInv /\ LinkInv /\ FirstView

----------------------------------------------------------------------------
(* Messages.                                                               *)

\* The fields of a message, by its type.
LEMMA MessageFields ==
    ASSUME NEW m \in Message
    PROVE  /\ m.t \in {"join", "leave", "respawn"} =>
                m.to = All /\ m.id \in Id /\ m.pose \in Pose \cup {Absent}
           /\ m.t \in {"welcome", "error"} => m.to \in Id
           /\ m.t = "snapshot" => m.to \in Id \cup {All} /\ m.players \in Poses
           /\ m.t = "states" => m.to = All /\ m.list \in Poses
           /\ m.t \in {"join", "leave", "respawn", "welcome", "error", "snapshot",
                       "states"}
  BY Zenon DEF Message

\* An event, a welcome, a refusal, a snapshot and a frame are messages.
LEMMA EventMessage ==
    ASSUME NEW p \in Id, NEW t \in {"join", "leave", "respawn"}, cached' \in Poses
    PROVE  Event(t, p) \in Message /\ (Posed(Event(t, p)) <=> (t = "join" => cached'[p] \in Pose))
  BY Zenon DEF Event, Message, Poses, Posed

LEMMA OtherMessages ==
    ASSUME NEW p \in Id, cached \in Poses, pending \in Poses
    PROVE  /\ Welcome(p) \in Message /\ Posed(Welcome(p))
           /\ [t |-> "error", to |-> p] \in Message /\ Posed([t |-> "error", to |-> p])
           /\ Snapshot(p) \in Message /\ Posed(Snapshot(p))
  BY Zenon DEF Welcome, Snapshot, Message, Posed

LEMMA Broadcasts ==
    ASSUME cached \in Poses, pending \in Poses
    PROVE  /\ Snapshot(All) \in Message /\ Posed(Snapshot(All))
           /\ States \in Message /\ Posed(States)
  BY Zenon DEF States, Snapshot, Message, Posed

----------------------------------------------------------------------------
(* The handlers of network.js on a page g.                                 *)

\* The model that Steered makes of a page's is a model; it is remote only
\* where there was none or a remote one.
LEMMA SteeredModel ==
    ASSUME NEW g \in Held, NEW p \in Id, NEW target \in Pose, NEW named \in BOOLEAN
    PROVE  Steered(g, p, target, named) \in Model
  <1>1. CASE g.playersById[p] = Absent
    BY <1>1, Zenon DEF Steered, Model
  <1>2. CASE g.playersById[p] # Absent
    <2>1. g.playersById[p] \in Model
      BY <1>2, Zenon DEF Held
    <2> QED
      BY <1>2, <2>1, Zenon DEF Steered, Model
  <1> QED
    BY <1>1, <1>2, Zenon

LEMMA CreateHeld ==
    ASSUME NEW g \in Held, NEW p \in Id, NEW target \in Pose
    PROVE  LET h == createLocalPlayer(g, p, target)
           IN  /\ h \in Held
               /\ h.localPlayerId = g.localPlayerId /\ h.localPlayer = p
               /\ h.first = g.first /\ h.pendingSnapshot = g.pendingSnapshot
               /\ h.playersById[p] # Absent => ~ h.playersById[p].remote
               /\ g.playersById[p] = Absent => h.orphans = g.orphans
  <1> DEFINE model == [remote |-> FALSE, named |-> TRUE, target |-> target]
  <1>1. model \in Model
    BY Zenon DEF Model
  <1>2. [g.playersById EXCEPT ![p] = model] \in [Id -> Model \cup {Absent}]
    BY <1>1, Zenon DEF Held
  <1>3. [g.playersById EXCEPT ![p] = model][p] = model
    BY Zenon DEF Held
  <1> DEFINE left == g.orphans \cup (IF g.playersById[p] = Absent THEN {} ELSE {p})
             models == [g.playersById EXCEPT ![p] = model]
             h == createLocalPlayer(g, p, target)
  <1>4. h = [g EXCEPT !.localPlayer = p, !.playersById = models, !.orphans = left]
    BY Zenon DEF createLocalPlayer, Held
  <1>5. ~ model.remote /\ left \in SUBSET Id
    BY Zenon DEF Held
  <1>8. g.playersById[p] = Absent => left = g.orphans
    BY Zenon DEF Held
  <1> HIDE DEF model, left, models
  <1>6. h \in Held /\ h.playersById = models
    BY <1>2, <1>4, <1>5, Zenon DEF Held, models
  <1>7. /\ h.localPlayerId = g.localPlayerId /\ h.localPlayer = p
        /\ h.first = g.first /\ h.pendingSnapshot = g.pendingSnapshot
        /\ g.playersById[p] = Absent => h.orphans = g.orphans
    BY <1>4, <1>8, Zenon DEF Held
  <1> QED
    BY <1>3, <1>5, <1>6, <1>7, Zenon DEF models

LEMMA RemoveHeld ==
    ASSUME NEW g \in Held, NEW p \in Id
    PROVE  LET h == removePlayer(g, p)
           IN  /\ h \in Held
               /\ h.localPlayerId = g.localPlayerId /\ h.localPlayer = g.localPlayer
               /\ h.first = g.first /\ h.pendingSnapshot = g.pendingSnapshot
               /\ h.orphans = g.orphans
               /\ \A q \in Id : h.playersById[q] = (IF q = p THEN Absent ELSE g.playersById[q])
  BY Zenon DEF removePlayer, Held

\* Exchanging the models leaves the rest of the page.
LEMMA ModelsHeld ==
    ASSUME NEW g \in Held, NEW models \in [Id -> Model \cup {Absent}]
    PROVE  LET h == [g EXCEPT !.playersById = models]
           IN  /\ h \in Held
               /\ h.localPlayerId = g.localPlayerId /\ h.localPlayer = g.localPlayer
               /\ h.first = g.first /\ h.pendingSnapshot = g.pendingSnapshot
               /\ h.orphans = g.orphans /\ h.playersById = models
  BY Zenon DEF Held

\* Alone looks at the identities, the orphans and one model.
LEMMA AloneBy ==
    ASSUME NEW g, NEW h, NEW me, Alone(g, me),
           h.localPlayerId = g.localPlayerId, h.localPlayer = g.localPlayer,
           h.orphans = g.orphans, h.playersById[me] = g.playersById[me]
    PROVE  Alone(h, me)
  BY Zenon DEF Alone

\* What a handler does to a page: it stays well formed, and whoever has a
\* local player keeps one.
Keeps(g, h) ==
    /\ h \in Held
    /\ h.first = g.first
    /\ g.localPlayer # Absent => h.localPlayer # Absent

\* applySnapshot, with or without the local player to create.
LEMMA SnapshotApplied ==
    ASSUME NEW g \in Held, g.localPlayerId \in Id, NEW list \in Poses
    PROVE  /\ Keeps(g, applySnapshot(g, list))
           /\ Alone(g, g.localPlayerId) => Alone(applySnapshot(g, list), g.localPlayerId)
  <1> DEFINE me == g.localPlayerId
             h == IF g.localPlayer = Absent /\ list[me] # Absent
                  THEN createLocalPlayer(g, me, list[me]) ELSE g
             models == [p \in Id |-> IF p = me THEN h.playersById[p]
                                     ELSE IF list[p] = Absent THEN Absent
                                     ELSE Steered(h, p, list[p], TRUE)]
  <1>1. /\ h \in Held /\ h.first = g.first /\ h.localPlayerId = me
        /\ g.localPlayer # Absent => h.localPlayer # Absent
        /\ Alone(g, me) => Alone(h, me)
    <2>1. CASE g.localPlayer = Absent /\ list[me] # Absent
      <3> DEFINE c == createLocalPlayer(g, me, list[me])
      <3>1. list[me] \in Pose
        BY <2>1, Zenon DEF Poses
      <3>2. /\ c \in Held /\ c.localPlayerId = me /\ c.localPlayer = me
            /\ c.first = g.first
            /\ c.playersById[me] # Absent => ~ c.playersById[me].remote
            /\ g.playersById[me] = Absent => c.orphans = g.orphans
        BY <3>1, CreateHeld
      <3>3. me # Absent /\ h = c
        BY <2>1, StreamAssumption, Zenon
      <3> HIDE DEF c, h, me
      <3>4. Alone(g, me) => Alone(c, me)
        BY <2>1, <3>2, <3>3, Zenon DEF Alone
      <3> QED
        BY <2>1, <3>2, <3>3, <3>4, Zenon
    <2>2. CASE ~ (g.localPlayer = Absent /\ list[me] # Absent)
      BY <2>2, Zenon
    <2> QED
      BY <2>1, <2>2, Zenon
  <1> HIDE DEF h
  <1>2. models \in [Id -> Model \cup {Absent}]
    <2> SUFFICES ASSUME NEW p \in Id
                 PROVE  models[p] \in Model \cup {Absent}
      BY Zenon
    <2>1. h.playersById[p] \in Model \cup {Absent}
      BY <1>1, Zenon DEF Held
    <2>2. list[p] # Absent => Steered(h, p, list[p], TRUE) \in Model
      BY <1>1, SteeredModel, Zenon DEF Poses
    <2> QED
      BY <2>1, <2>2, Zenon
  <1>3. models[me] = h.playersById[me]
    BY Zenon
  <1>4. applySnapshot(g, list) = [h EXCEPT !.playersById = models]
    BY Zenon DEF applySnapshot, h
  <1> HIDE DEF models, me
  <1> DEFINE k == [h EXCEPT !.playersById = models]
  <1>5. /\ k \in Held /\ k.localPlayerId = h.localPlayerId
        /\ k.localPlayer = h.localPlayer /\ k.first = h.first
        /\ k.orphans = h.orphans /\ k.playersById = models
    BY <1>1, <1>2, ModelsHeld, Zenon
  <1> HIDE DEF k
  <1>6. Alone(h, me) => Alone(k, me)
    BY <1>3, <1>5, AloneBy, Zenon
  <1>7. applySnapshot(g, list) = k
    BY <1>4, Zenon DEF k
  <1> QED
    BY <1>1, <1>5, <1>6, <1>7, Zenon DEF Keeps, me

\* OnWelcome: the identity is the one of the connection.
LEMMA WelcomeApplied ==
    ASSUME NEW g \in Held, NEW id \in Id
    PROVE  /\ OnWelcome(g, id) \in Held /\ OnWelcome(g, id).first = g.first
           /\ Alone(g, id) => Keeps(g, OnWelcome(g, id)) /\ Alone(OnWelcome(g, id), id)
  <1> DEFINE r == removePlayer(g, g.localPlayer)
             h == IF g.localPlayer \in {Absent, id} THEN g
                  ELSE [r EXCEPT !.localPlayer = Absent]
             k == [h EXCEPT !.localPlayerId = id, !.pendingSnapshot = Absent]
  <1>1. /\ h \in Held /\ h.first = g.first
        /\ Alone(g, id) => h = g
    <2>1. CASE g.localPlayer \in {Absent, id}
      BY <2>1, Zenon
    <2>2. CASE g.localPlayer \notin {Absent, id}
      <3>1. g.localPlayer \in Id
        BY <2>2, Zenon DEF Held
      <3>2. r \in Held /\ r.first = g.first
        BY <3>1, RemoveHeld, Zenon
      <3> HIDE DEF r
      <3>3. [r EXCEPT !.localPlayer = Absent] \in Held /\ [r EXCEPT !.localPlayer = Absent].first = r.first
        BY <3>2, Zenon DEF Held
      <3> QED
        BY <2>2, <3>2, <3>3, Zenon DEF Alone
    <2> QED
      BY <2>1, <2>2, Zenon
  <1> HIDE DEF h
  <1>2. /\ k \in Held /\ k.first = h.first /\ k.localPlayerId = id
        /\ k.localPlayer = h.localPlayer /\ k.orphans = h.orphans
        /\ k.playersById = h.playersById
    BY <1>1, Zenon DEF Held
  <1>3. OnWelcome(g, id) = IF g.pendingSnapshot = Absent THEN k
                           ELSE applySnapshot(k, g.pendingSnapshot)
    BY Zenon DEF OnWelcome, h
  <1> HIDE DEF k
  <1>4. Alone(h, id) => Alone(k, id)
    BY <1>2, StreamAssumption, Zenon DEF Alone
  <1>5. CASE g.pendingSnapshot = Absent
    BY <1>1, <1>2, <1>3, <1>4, <1>5, Zenon DEF Keeps
  <1>6. CASE g.pendingSnapshot # Absent
    <2>1. g.pendingSnapshot \in Poses
      BY <1>6, Zenon DEF Held
    <2>2. /\ Keeps(k, applySnapshot(k, g.pendingSnapshot))
          /\ Alone(k, id) => Alone(applySnapshot(k, g.pendingSnapshot), id)
      BY <1>2, <2>1, SnapshotApplied, Zenon
    <2> QED
      BY <1>1, <1>2, <1>3, <1>4, <1>6, <2>2, Zenon DEF Keeps
  <1> QED
    BY <1>5, <1>6, Zenon

\* OnSnapshot keeps the list until the welcome, or applies it.
LEMMA OnSnapshotApplied ==
    ASSUME NEW g \in Held, NEW list \in Poses
    PROVE  /\ Keeps(g, OnSnapshot(g, list))
           /\ \A me \in Id : Alone(g, me) => Alone(OnSnapshot(g, list), me)
  <1>1. CASE g.localPlayerId = Absent
    <2> DEFINE h == [g EXCEPT !.pendingSnapshot = list]
    <2>1. /\ h \in Held /\ h.first = g.first /\ h.localPlayerId = g.localPlayerId
          /\ h.localPlayer = g.localPlayer /\ h.orphans = g.orphans
          /\ h.playersById = g.playersById
      BY Zenon DEF Held
    <2>2. OnSnapshot(g, list) = h
      BY <1>1, Zenon DEF OnSnapshot
    <2> HIDE DEF h
    <2> QED
      BY <2>1, <2>2, Zenon DEF Keeps, Alone
  <1>2. CASE g.localPlayerId # Absent
    <2>1. g.localPlayerId \in Id
      BY <1>2, Zenon DEF Held
    <2>2. OnSnapshot(g, list) = applySnapshot(g, list)
      BY <1>2, Zenon DEF OnSnapshot
    <2>3. \A me \in Id : Alone(g, me) => me = g.localPlayerId
      BY <1>2, Zenon DEF Alone
    <2> QED
      BY <2>1, <2>2, <2>3, SnapshotApplied, Zenon
  <1> QED
    BY <1>1, <1>2, Zenon

\* OnStates steers nobody whom the frame does not list.
LEMMA OnStatesApplied ==
    ASSUME NEW g \in Held, NEW list \in Poses
    PROVE  /\ Keeps(g, OnStates(g, list))
           /\ \A me \in Id :
                Alone(g, me) /\ (g.localPlayer = Absent => list[me] = Absent)
                  => Alone(OnStates(g, list), me)
  <1> DEFINE models == [p \in Id |-> IF p = g.localPlayerId \/ list[p] = Absent
                                     THEN g.playersById[p]
                                     ELSE Steered(g, p, list[p], FALSE)]
             h == [g EXCEPT !.playersById = models]
  <1>1. models \in [Id -> Model \cup {Absent}]
    <2> SUFFICES ASSUME NEW p \in Id
                 PROVE  models[p] \in Model \cup {Absent}
      BY Zenon
    <2>1. g.playersById[p] \in Model \cup {Absent}
      BY Zenon DEF Held
    <2>2. list[p] # Absent => Steered(g, p, list[p], FALSE) \in Model
      BY SteeredModel, Zenon DEF Poses
    <2> QED
      BY <2>1, <2>2, Zenon
  <1>2. \A me \in Id : me = g.localPlayerId \/ list[me] = Absent
                         => models[me] = g.playersById[me]
    BY Zenon
  <1> HIDE DEF models
  <1>3. /\ h \in Held /\ h.first = g.first /\ h.localPlayerId = g.localPlayerId
        /\ h.localPlayer = g.localPlayer /\ h.orphans = g.orphans
        /\ h.playersById = models
    BY <1>1, ModelsHeld, Zenon
  <1>4. OnStates(g, list) = h
    BY Zenon DEF OnStates, models
  <1> HIDE DEF h
  <1>5. ASSUME NEW me \in Id, Alone(g, me), g.localPlayer = Absent => list[me] = Absent
        PROVE  Alone(h, me)
    <2>1. me = g.localPlayerId \/ list[me] = Absent
      BY <1>5, Zenon DEF Alone
    <2>2. h.playersById[me] = g.playersById[me]
      BY <1>2, <1>3, <2>1, Zenon
    <2> QED
      BY <1>3, <1>5, <2>2, AloneBy, Zenon
  <1> QED
    BY <1>3, <1>4, <1>5, Zenon DEF Keeps

\* OnJoin before the welcome, of oneself, of somebody known and of somebody
\* new.
LEMMA OnJoinApplied ==
    ASSUME NEW g \in Held, NEW p \in Id, NEW target \in Pose
    PROVE  /\ Keeps(g, OnJoin(g, p, target))
           /\ \A me \in Id : Alone(g, me) => Alone(OnJoin(g, p, target), me)
  <1> DEFINE c == createLocalPlayer(g, p, target)
             model == Steered(g, p, target, TRUE)
             models == [g.playersById EXCEPT ![p] = model]
             h == [g EXCEPT !.playersById = models]
  <1>1. CASE OnJoin(g, p, target) = g
    BY <1>1, Zenon DEF Keeps
  <1>2. CASE /\ OnJoin(g, p, target) = c
             /\ g.localPlayerId = p /\ g.localPlayer = Absent
    <2>1. /\ c \in Held /\ c.localPlayerId = p /\ c.localPlayer = p
          /\ c.first = g.first
          /\ c.playersById[p] # Absent => ~ c.playersById[p].remote
          /\ g.playersById[p] = Absent => c.orphans = g.orphans
      BY <1>2, CreateHeld
    <2>2. p # Absent
      BY StreamAssumption, Zenon
    <2> HIDE DEF c
    <2> QED
      BY <1>2, <2>1, <2>2, Zenon DEF Keeps, Alone
  <1>3. CASE /\ OnJoin(g, p, target) = h
             /\ g.localPlayerId \notin {Absent, p}
    <2>1. model \in Model
      BY SteeredModel, Zenon
    <2> HIDE DEF model
    <2>2. models \in [Id -> Model \cup {Absent}]
      BY <2>1, Zenon DEF Held
    <2>3. \A me \in Id : me # p => models[me] = g.playersById[me]
      BY Zenon DEF Held
    <2> HIDE DEF models
    <2>4. /\ h \in Held /\ h.first = g.first /\ h.localPlayerId = g.localPlayerId
          /\ h.localPlayer = g.localPlayer /\ h.orphans = g.orphans
          /\ h.playersById = models
      BY <2>2, ModelsHeld, Zenon
    <2> HIDE DEF h
    <2>5. ASSUME NEW me \in Id, Alone(g, me)
          PROVE  Alone(h, me)
      <3>1. me # p
        BY <1>3, <2>5, Zenon DEF Alone
      <3> QED
        BY <2>3, <2>4, <2>5, <3>1, AloneBy, Zenon
    <2> QED
      BY <1>3, <2>4, <2>5, Zenon DEF Keeps
  <1>4. h = [g EXCEPT !.playersById[p] = model]
    BY Zenon DEF Held
  <1> QED
    BY <1>1, <1>2, <1>3, <1>4, Zenon DEF OnJoin

\* The handler of a message, on the page that it reaches.
LEMMA AppliedHeld ==
    ASSUME NEW g \in Held, NEW m \in Message, Posed(m)
    PROVE  Applied(g, m) \in Held /\ Applied(g, m).first = g.first
  <1>1. CASE m.t = "welcome"
    BY <1>1, MessageFields, WelcomeApplied, Zenon DEF Applied
  <1>2. CASE m.t = "snapshot"
    BY <1>2, MessageFields, OnSnapshotApplied, Zenon DEF Applied, Keeps
  <1>3. CASE m.t = "states"
    BY <1>3, MessageFields, OnStatesApplied, Zenon DEF Applied, Keeps
  <1>4. CASE m.t = "join"
    BY <1>4, MessageFields, OnJoinApplied, Zenon DEF Applied, Keeps, Posed
  <1>5. CASE m.t = "leave"
    BY <1>5, MessageFields, RemoveHeld, Zenon DEF Applied
  <1>6. CASE m.t \in {"respawn", "error"}
    BY <1>6, Zenon DEF Applied
  <1> QED
    BY <1>1, <1>2, <1>3, <1>4, <1>5, <1>6, MessageFields, Zenon

LEMMA AppliedAlone ==
    ASSUME NEW g \in Held, NEW m \in Message, Posed(m), NEW me \in Id,
           Alone(g, me), m.to \in {All, me},
           g.localPlayer = Absent => ~ (m.t = "states" /\ m.list[me] # Absent)
    PROVE  Alone(Applied(g, m), me) /\ Keeps(g, Applied(g, m))
  <1>1. CASE m.t = "welcome"
    <2>1. m.to = me
      BY <1>1, MessageFields, StreamAssumption, Zenon
    <2> QED
      BY <1>1, <2>1, WelcomeApplied, Zenon DEF Applied
  <1>2. CASE m.t = "snapshot"
    BY <1>2, MessageFields, OnSnapshotApplied, Zenon DEF Applied
  <1>3. CASE m.t = "states"
    BY <1>3, MessageFields, OnStatesApplied, Zenon DEF Applied
  <1>4. CASE m.t = "join"
    BY <1>4, MessageFields, OnJoinApplied, Zenon DEF Applied, Posed
  <1>5. CASE m.t = "leave"
    <2> DEFINE h == removePlayer(g, m.id)
    <2>1. m.id \in Id /\ Applied(g, m) = h
      BY <1>5, MessageFields, Zenon DEF Applied
    <2>2. /\ h \in Held /\ h.first = g.first /\ h.localPlayerId = g.localPlayerId
          /\ h.localPlayer = g.localPlayer /\ h.orphans = g.orphans
          /\ h.playersById[me] = Absent \/ h.playersById[me] = g.playersById[me]
      BY <2>1, RemoveHeld
    <2> HIDE DEF h
    <2> QED
      BY <2>1, <2>2, Zenon DEF Alone, Keeps
  <1>6. CASE m.t \in {"respawn", "error"}
    BY <1>6, Zenon DEF Applied, Keeps
  <1> QED
    BY <1>1, <1>2, <1>3, <1>4, <1>5, <1>6, MessageFields, Zenon

----------------------------------------------------------------------------
(* Steps of the server.                                                    *)

\* The stream stays well formed when an event about p is queued and the
\* table is changed for p alone.
LEMMA EventSteps ==
    ASSUME StreamInv, NEW p \in Id, Hello(p) \/ OnClose(p) \/ Revive(p)
    PROVE  StreamInv'
  <1>1. /\ met \subseteq Id /\ clients \subseteq met /\ cached \in Poses
        /\ pose \in [Id -> Pose] /\ fallen \subseteq met /\ pending \in Poses
        /\ sending \subseteq Message
    BY Zenon DEF StreamInv, StreamTypeOK
  <1>2. CASE Hello(p)
    <2>1. cached' \in Poses /\ cached'[p] \in Pose
      BY <1>1, <1>2, StreamAssumption DEF Hello, Poses, Pose
    <2>2. Event("join", p) \in Message /\ Posed(Event("join", p))
      BY <2>1, EventMessage, Zenon
    <2>3. \A q \in Id : cached'[q] # Absent => q \in met'
      BY <1>1, <1>2, Zenon DEF Hello, StreamInv, Poses
    <2>4. StreamTypeOK'
      BY <1>1, <1>2, <2>1, <2>2, Zenon DEF Hello, StreamTypeOK
    <2> QED
      BY <1>2, <2>2, <2>3, <2>4, Zenon DEF Hello, StreamInv
  <1>3. CASE OnClose(p)
    <2>1. cached' \in Poses
      BY <1>1, <1>3, Zenon DEF OnClose, Poses
    <2>2. Event("leave", p) \in Message /\ Posed(Event("leave", p))
      BY <2>1, EventMessage, Zenon
    <2>3. \A q \in Id : cached'[q] # Absent => q \in met'
      BY <1>1, <1>3, Zenon DEF OnClose, StreamInv, Poses
    <2>4. StreamTypeOK'
      BY <1>1, <1>3, <2>1, <2>2, Zenon DEF OnClose, StreamTypeOK
    <2> QED
      BY <1>3, <2>2, <2>3, <2>4, Zenon DEF OnClose, StreamInv
  <1>4. CASE Revive(p)
    <2>1. pose' \in [Id -> Pose] /\ pose'[p] \in Pose
      BY <1>1, <1>4, StreamAssumption DEF Revive, Pose
    <2>2. cached' \in Poses
      BY <1>1, <1>4, <2>1, Zenon DEF Revive, Poses
    <2>3. Event("respawn", p) \in Message /\ Posed(Event("respawn", p))
      BY <2>2, EventMessage, Zenon
    <2>4. \A q \in Id : cached'[q] # Absent => q \in met'
      BY <1>1, <1>4, Zenon DEF Revive, StreamInv, Poses
    <2>5. StreamTypeOK'
      BY <1>1, <1>4, <2>1, <2>2, <2>3, Zenon DEF Revive, StreamTypeOK
    <2> QED
      BY <1>4, <2>3, <2>4, <2>5, Zenon DEF Revive, StreamInv
  <1> QED
    BY <1>2, <1>3, <1>4, Zenon

\* ... when the table is changed without an event.
LEMMA QuietSteps ==
    ASSUME StreamInv, NEW p \in Id, Cleanup(p) \/ Fall(p) \/ Move(p)
    PROVE  StreamInv'
  <1>1. /\ met \subseteq Id /\ clients \subseteq met /\ cached \in Poses
        /\ pose \in [Id -> Pose] /\ fallen \subseteq met /\ pending \in Poses
        /\ sending \subseteq Message
    BY Zenon DEF StreamInv, StreamTypeOK
  <1>2. CASE Cleanup(p)
    <2>1. cached' \in Poses
      BY <1>1, <1>2, Zenon DEF Cleanup, Poses
    <2>2. \A q \in Id : cached'[q] # Absent => q \in met'
      BY <1>1, <1>2, Zenon DEF Cleanup, StreamInv, Poses
    <2>3. StreamTypeOK'
      BY <1>1, <1>2, <2>1, Zenon DEF Cleanup, StreamTypeOK
    <2> QED
      BY <1>2, <2>2, <2>3, Zenon DEF Cleanup, StreamInv
  <1>3. CASE Fall(p)
    <2>1. p \in met
      BY <1>3, Zenon DEF Fall, StreamInv
    <2>2. StreamTypeOK'
      BY <1>1, <1>3, <2>1, Zenon DEF Fall, StreamTypeOK
    <2> QED
      BY <1>3, <2>2, Zenon DEF Fall, StreamInv
  <1>4. CASE Move(p)
    <2>1. pose' \in [Id -> Pose] /\ pose'[p] \in Pose
      BY <1>1, <1>4, StreamAssumption DEF Move, Pose
    <2>2. cached' \in Poses /\ pending' \in Poses
      BY <1>1, <1>4, <2>1, Zenon DEF Move, Poses, enqueuePendingState
    <2>3. \A q \in Id : cached'[q] # Absent => q \in met'
      BY <1>1, <1>4, Zenon DEF Move, StreamInv, Poses
    <2>4. StreamTypeOK'
      BY <1>1, <1>4, <2>1, <2>2, Zenon DEF Move, StreamTypeOK
    <2> QED
      BY <1>4, <2>3, <2>4, Zenon DEF Move, StreamInv
  <1> QED
    BY <1>2, <1>3, <1>4, Zenon

\* ... and by the loops, by a refusal and when a message is encrypted.
LEMMA LoopSteps ==
    ASSUME StreamInv, StateTick \/ StateSync
    PROVE  StreamInv'
  <1>1. cached \in Poses /\ pending \in Poses /\ sending \subseteq Message
    BY Zenon DEF StreamInv, StreamTypeOK
  <1>2. /\ Snapshot(All) \in Message /\ Posed(Snapshot(All))
        /\ States \in Message /\ Posed(States)
    BY <1>1, Broadcasts, Zenon
  <1>3. Nobody \in Poses
    BY Zenon DEF Nobody, Poses
  <1>4. CASE StateTick
    <2>1. StreamTypeOK'
      BY <1>1, <1>2, <1>3, <1>4, Zenon DEF StateTick, StreamInv, StreamTypeOK
    <2> QED
      BY <1>2, <1>4, <2>1, Zenon DEF StateTick, StreamInv
  <1>5. CASE StateSync
    <2>1. StreamTypeOK'
      BY <1>1, <1>2, <1>5, Zenon DEF StateSync, StreamInv, StreamTypeOK
    <2> QED
      BY <1>2, <1>5, <2>1, Zenon DEF StateSync, StreamInv
  <1> QED
    BY <1>4, <1>5, Zenon

LEMMA EncryptedStep ==
    ASSUME StreamInv, NEW m \in sending, Encrypted(m)
    PROVE  StreamInv'
  <1>1. /\ cached \in Poses /\ pending \in Poses /\ sending \subseteq Message
        /\ m \in Message
    BY Zenon DEF StreamInv, StreamTypeOK
  <1> DEFINE more == IF m.t = "join" THEN {Welcome(m.id), Snapshot(m.id)} ELSE {}
  <1>2. \A n \in more : n \in Message /\ Posed(n)
    <2>1. CASE m.t = "join"
      <3>1. m.id \in Id
        BY <1>1, <2>1, MessageFields, Zenon
      <3> QED
        BY <1>1, <2>1, <3>1, OtherMessages, Zenon
    <2>2. CASE m.t # "join"
      BY <2>2, Zenon
    <2> QED
      BY <2>1, <2>2, Zenon
  <1>3. sending' = (sending \ {m}) \cup more
    BY Zenon DEF Encrypted
  <1> HIDE DEF more
  <1>4. pending' \in Poses
    <2>1. CASE m.t = "respawn"
      <3>1. m.id \in Id /\ m.pose \in Pose \cup {Absent}
        BY <1>1, <2>1, MessageFields, Zenon
      <3> QED
        BY <1>1, <2>1, <3>1, Zenon DEF Encrypted, enqueuePendingState, Poses
    <2>2. CASE m.t # "respawn"
      BY <1>1, <2>2, Zenon DEF Encrypted
    <2> QED
      BY <2>1, <2>2, Zenon
  <1>5. sending' \subseteq Message
    BY <1>1, <1>2, <1>3, Zenon
  <1>6. UNCHANGED <<met, clients, cached, pose, fallen>>
    BY Zenon DEF Encrypted
  <1>7. StreamTypeOK'
    BY <1>4, <1>5, <1>6, Zenon DEF StreamInv, StreamTypeOK
  <1> QED
    BY <1>2, <1>3, <1>6, <1>7, Zenon DEF StreamInv

\* A step that does not change the stream.
LEMMA StreamSame ==
    ASSUME UNCHANGED svars
    PROVE  /\ StreamInv => StreamInv'
           /\ \A q : Quiet(q)' <=> Quiet(q)
  BY Zenon DEF svars, StreamInv, StreamTypeOK, Quiet

\* A step of the server in which player q is not heard.
Silent(q) ==
    \/ StateTick \/ StateSync \/ Refuse
    \/ \E m \in sending : Encrypted(m)
    \/ \E p \in Id : Hello(p) \/ OnClose(p) \/ Cleanup(p) \/ Fall(p)
    \/ \E p \in Id \ {q} : Move(p) \/ Revive(p)

\* Nothing of q is pending or under way as long as it is not heard: a frame
\* has what was pending, and only a respawn makes something pending again.
LEMMA QuietKept ==
    ASSUME StreamInv, NEW q \in Id, Quiet(q), Silent(q)
    PROVE  Quiet(q)'
  <1>1. pending \in Poses /\ pending[q] = Absent /\ \A m \in sending : ~ Says(m, q)
    BY Zenon DEF StreamInv, StreamTypeOK, Quiet
  <1>2. CASE StateTick
    <2>1. ~ Says(States, q)
      BY <1>1, Zenon DEF Says, States
    <2> QED
      BY <1>1, <1>2, <2>1, Zenon DEF StateTick, Quiet, Nobody
  <1>3. CASE StateSync
    <2>1. ~ Says(Snapshot(All), q)
      BY Zenon DEF Says, Snapshot
    <2> QED
      BY <1>1, <1>3, <2>1, Zenon DEF StateSync, Quiet
  <1>4. CASE Refuse
    <2>1. ~ Says([t |-> "error", to |-> Me], q)
      BY Zenon DEF Says
    <2> QED
      BY <1>1, <1>4, <2>1, Zenon DEF Refuse, Quiet
  <1>5. ASSUME NEW m \in sending, Encrypted(m)
        PROVE  Quiet(q)'
    <2>1. pending'[q] = Absent
      <3>1. CASE m.t = "respawn"
        BY <1>1, <1>5, <3>1, Zenon DEF Encrypted, enqueuePendingState, Says,
           Poses
      <3>2. CASE m.t # "respawn"
        BY <1>1, <1>5, <3>2, Zenon DEF Encrypted
      <3> QED
        BY <3>1, <3>2, Zenon
    <2>2. ~ Says(Welcome(m.id), q) /\ ~ Says(Snapshot(m.id), q)
      BY Zenon DEF Says, Welcome, Snapshot
    <2>3. \A n \in sending' : n \in sending \/ n \in {Welcome(m.id), Snapshot(m.id)}
      BY <1>5, Zenon DEF Encrypted
    <2> QED
      BY <1>1, <2>1, <2>2, <2>3, Zenon DEF Quiet
  <1>6. ASSUME NEW p \in Id, Hello(p) \/ OnClose(p)
        PROVE  Quiet(q)'
    <2>1. ~ Says(Event("join", p), q) /\ ~ Says(Event("leave", p), q)
      BY Zenon DEF Says, Event
    <2>2. /\ \A n \in sending' : n \in sending \/ n \in {Event("join", p), Event("leave", p)}
          /\ pending' = pending
      BY <1>6, Zenon DEF Hello, OnClose
    <2> QED
      BY <1>1, <2>1, <2>2, Zenon DEF Quiet
  <1>7. ASSUME NEW p \in Id, Cleanup(p) \/ Fall(p)
        PROVE  Quiet(q)'
    BY <1>1, <1>7, Zenon DEF Cleanup, Fall, Quiet
  <1>8. ASSUME NEW p \in Id \ {q}, Move(p)
        PROVE  Quiet(q)'
    BY <1>1, <1>8, Zenon DEF Move, enqueuePendingState, Quiet, Poses
  <1>9. ASSUME NEW p \in Id \ {q}, Revive(p)
        PROVE  Quiet(q)'
    <2>1. ~ Says(Event("respawn", p), q)
      BY <1>9, Zenon DEF Says, Event
    <2> QED
      BY <1>1, <1>9, <2>1, Zenon DEF Revive, Quiet
  <1> QED
    BY <1>2, <1>3, <1>4, <1>5, <1>6, <1>7, <1>8, <1>9, Zenon DEF Silent

\* The page's connections have different ids.
LEMMA OwnIds ==
    ASSUME last \in 1 .. Len(Own)
    PROVE  /\ last \in Nat /\ \A i \in 1 .. last : Own[i] \in Id
           /\ \A i, j \in 1 .. last : Own[i] = Own[j] => i = j
  BY ViewAssumption

\* A page that has connected has an id.
LEMMA MeIsId ==
    ASSUME ViewInv, link # "page"
    PROVE  Me \in Id /\ Me = Own[conn] /\ conn \in 1 .. last
  <1>1. conn \in 0 .. last /\ conn # 0
    BY Zenon DEF ViewInv, ViewTypeOK, LinkInv
  <1>2. last \in Nat /\ \A i \in 1 .. last : Own[i] \in Id
    BY OwnIds, Zenon DEF ViewInv, ViewTypeOK
  <1> QED
    BY <1>1, <1>2 DEF Me

\* What a step of the server must not do to the page: give an id before its
\* time, or let the page be heard that has no local player.
LEMMA ServerStep ==
    ASSUME ViewInv, StreamInv', met \subseteq met',
           UNCHANGED <<link, last, conn, attempts, refused, page>>,
           \A m \in arriving' : \/ m \in arriving
                                \/ link = "open" /\ m \in sending /\ m.to \in {All, Me},
           \A i \in 1 .. last : i > conn => Own[i] \notin met' \ met,
           link = "connecting" => Me \notin met' \ met,
           \A q \in Id : Silent(q) \/ (q \in met /\ Speaks(q))
    PROVE  ViewInv'
  <1>1. arriving' \subseteq Message /\ \A m \in arriving' : Posed(m)
    BY Zenon DEF ViewInv, ViewTypeOK, StreamInv, StreamTypeOK, LinkInv
  <1>2. ViewTypeOK' /\ page' \in Held
    BY <1>1, Zenon DEF ViewInv, ViewTypeOK, StreamInv
  <1>3. PICK me : me = Me /\ me = Me'
    BY Zenon DEF Me
  <1>4. \A q \in Id : Quiet(q) => Quiet(q)' \/ (q \in met /\ Speaks(q))
    BY QuietKept, Zenon DEF ViewInv
  <1>5. LinkInv'
    <2>1. link = "page" => arriving' = {}
      BY Zenon DEF ViewInv, LinkInv
    <2>2. \A m \in arriving' : m.to \in {All, me}
      BY <1>3, Zenon DEF ViewInv, LinkInv
    <2>3. \A i \in 1 .. last : i > conn => Own[i] \notin met'
      BY Zenon DEF ViewInv, LinkInv
    <2>4. link = "connecting" => me \notin met'
      BY <1>3, Zenon DEF ViewInv, LinkInv
    <2>5. \A p \in Id : p \notin met' => Quiet(p)'
      BY <1>4, Zenon DEF ViewInv, LinkInv
    <2> QED
      BY <1>1, <1>3, <2>1, <2>2, <2>3, <2>4, <2>5, Zenon DEF ViewInv, LinkInv
  <1>6. FirstView'
    <2> SUFFICES ASSUME page.first = conn, link # "page"
                 PROVE  /\ Alone(page, me)
                        /\ page.localPlayer = Absent =>
                             /\ \A m \in arriving' : ~ (m.t = "states" /\ m.list[me] # Absent)
                             /\ link = "open" => Quiet(me)'
      BY <1>3, Zenon DEF FirstView
    <2>1. /\ Alone(page, me)
          /\ page.localPlayer = Absent =>
               /\ \A m \in arriving : ~ (m.t = "states" /\ m.list[me] # Absent)
               /\ link = "open" => Quiet(me)
      BY <1>3, Zenon DEF ViewInv, FirstView
    <2>2. me \in Id
      BY <1>3, MeIsId, Zenon
    <2>3. page.localPlayer = Absent /\ link = "open" => Quiet(me)'
      BY <1>3, <1>4, <2>1, <2>2, Zenon DEF Speaks
    <2>4. page.localPlayer = Absent /\ link = "open" => \A m \in sending : ~ Says(m, me)
      BY <2>1, Zenon DEF Quiet
    <2> QED
      BY <2>1, <2>3, <2>4, Zenon DEF Says
  <1> QED
    BY <1>2, <1>5, <1>6, Zenon DEF ViewInv

\* The actions of the server.
LEMMA ServerSteps ==
    ASSUME ViewInv,
           \/ \E m \in sending : Deliver(m) \/ Drop(m)
           \/ \E p \in Id : Join(p) \/ Leave(p) \/ Forget(p) \/ Felled(p)
                             \/ Moved(p) \/ Revived(p)
           \/ Refuse \/ Frame \/ Sync
    PROVE  ViewInv'
  <1> USE DEF cvars
  <1>0. StreamInv /\ met \subseteq Id
    BY Zenon DEF ViewInv, StreamInv, StreamTypeOK
  <1>1. ASSUME NEW m \in sending, Deliver(m)
        PROVE  ViewInv'
    <2>1. StreamInv' /\ met' = met /\ \A q \in Id : Silent(q)
      BY <1>0, <1>1, EncryptedStep, Zenon DEF Deliver, Encrypted, Silent
    <2>2. \A n \in arriving' : \/ n \in arriving
                               \/ link = "open" /\ n \in sending /\ n.to \in {All, Me}
      BY <1>1, Zenon DEF Deliver, Reaches
    <2>3. UNCHANGED <<link, last, conn, attempts, refused, page>>
      BY <1>1, Zenon DEF Deliver
    <2> QED
      BY <2>1, <2>2, <2>3, ServerStep, Zenon
  <1>2. ASSUME NEW m \in sending, Drop(m)
        PROVE  ViewInv'
    <2>1. StreamInv' /\ met' = met /\ \A q \in Id : Silent(q)
      BY <1>0, <1>2, EncryptedStep, Zenon DEF Drop, Encrypted, Silent
    <2>2. UNCHANGED cvars
      BY <1>2, Zenon DEF Drop
    <2> QED
      BY <2>1, <2>2, ServerStep, Zenon
  <1>3. ASSUME NEW p \in Id, Join(p)
        PROVE  ViewInv'
    <2>1. StreamInv' /\ met' = met \cup {p} /\ UNCHANGED cvars
      BY <1>0, <1>3, EventSteps, Zenon DEF Join, Hello
    <2>2. \A q \in Id : Silent(q)
      BY <1>3, Zenon DEF Join, Silent
    <2>3. \A i \in 1 .. last : i > conn => Own[i] # p
      <3>1. CASE p \in Remote
        BY <3>1, Zenon DEF Remote
      <3>2. CASE p = Me /\ link = "open"
        <4>1. p = Own[conn] /\ conn \in 1 .. last
          BY <3>2, MeIsId, Zenon
        <4>2. \A i, j \in 1 .. last : Own[i] = Own[j] => i = j
          BY <1>0, OwnIds, Zenon DEF ViewInv, ViewTypeOK
        <4> QED
          BY <4>1, <4>2
      <3> QED
        BY <1>3, <3>1, <3>2, Zenon DEF Join
    <2>4. link = "connecting" => p # Me
      <3>1. SUFFICES ASSUME link = "connecting", p \in Remote
                     PROVE  p # Me
        BY <1>3, Zenon DEF Join
      <3>2. Me = Own[conn] /\ conn \in 1 .. last
        BY <3>1, MeIsId, Zenon
      <3> QED
        BY <3>1, <3>2, Zenon DEF Remote
    <2> QED
      BY <2>1, <2>2, <2>3, <2>4, ServerStep, Zenon
  <1>4. ASSUME NEW p \in Id, Leave(p)
        PROVE  ViewInv'
    <2>1. StreamInv' /\ met' = met /\ UNCHANGED cvars
      BY <1>0, <1>4, EventSteps, Zenon DEF Leave, OnClose
    <2>2. \A q \in Id : Silent(q)
      BY <1>4, Zenon DEF Leave, Silent
    <2> QED
      BY <2>1, <2>2, ServerStep, Zenon
  <1>5. ASSUME NEW p \in Id, Forget(p) \/ Felled(p)
        PROVE  ViewInv'
    <2>1. StreamInv' /\ met' = met /\ UNCHANGED cvars
      BY <1>0, <1>5, QuietSteps, Zenon DEF Forget, Felled, Cleanup, Fall
    <2>2. \A q \in Id : Silent(q)
      BY <1>5, Zenon DEF Forget, Felled, Silent
    <2> QED
      BY <2>1, <2>2, ServerStep, Zenon
  <1>6. ASSUME NEW p \in Id, Moved(p) \/ Revived(p)
        PROVE  ViewInv'
    <2>1. StreamInv' /\ met' = met /\ UNCHANGED cvars
      BY <1>0, <1>6, QuietSteps, EventSteps, Zenon DEF Moved, Revived, Move,
         Revive
    <2>2. p \in met /\ Speaks(p)
      BY <1>6, Zenon DEF Moved, Revived, Move, Revive
    <2>3. \A q \in Id : q = p \/ Silent(q)
      BY <1>6, Zenon DEF Moved, Revived, Silent
    <2> QED
      BY <2>1, <2>2, <2>3, ServerStep, Zenon
  <1>7. CASE Refuse
    <2>1. link = "open" /\ Me \in Id /\ Me = Own[conn] /\ conn \in 1 .. last
      BY <1>7, MeIsId, Zenon DEF Refuse
    <2>2. /\ [t |-> "error", to |-> Me] \in Message
          /\ Posed([t |-> "error", to |-> Me])
      BY <2>1, OtherMessages, Zenon DEF ViewInv, StreamInv, StreamTypeOK
    <2>3. StreamTypeOK'
      BY <1>0, <1>7, <2>1, <2>2, Zenon DEF Refuse, StreamInv, StreamTypeOK
    <2>4. StreamInv'
      BY <1>0, <1>7, <2>2, <2>3, Zenon DEF Refuse, StreamInv
    <2>5. met' = met \cup {Me} /\ UNCHANGED cvars /\ \A q \in Id : Silent(q)
      BY <1>7, Zenon DEF Refuse, Silent
    <2>6. \A i \in 1 .. last : i > conn => Own[i] # Me
      <3>1. \A i, j \in 1 .. last : Own[i] = Own[j] => i = j
        BY <1>0, OwnIds, Zenon DEF ViewInv, ViewTypeOK
      <3> QED
        BY <2>1, <3>1
    <2> QED
      BY <2>1, <2>4, <2>5, <2>6, ServerStep, Zenon
  <1>8. CASE Frame \/ Sync
    <2>1. StreamInv' /\ met' = met /\ UNCHANGED cvars
      BY <1>0, <1>8, LoopSteps, Zenon DEF Frame, Sync, StateTick, StateSync
    <2>2. \A q \in Id : Silent(q)
      BY <1>8, Zenon DEF Frame, Sync, Silent
    <2> QED
      BY <2>1, <2>2, ServerStep, Zenon
  <1> QED
    BY <1>1, <1>2, <1>3, <1>4, <1>5, <1>6, <1>7, <1>8, Zenon

----------------------------------------------------------------------------
(* Steps of the page.                                                      *)

\* A page that was just loaded is well formed.
LEMMA BlankHeld == Blank \in Held
  <1>1. Nobody \in [Id -> Model \cup {Absent}]
    BY Zenon DEF Nobody
  <1> QED
    BY <1>1, Zenon DEF Blank, Held

\* The types of its fields, as ViewTypeOK has them.
LEMMA HeldTypes ==
    ASSUME NEW g \in Held
    PROVE  /\ {g.localPlayerId, g.localPlayer} \subseteq Id \cup {Absent}
           /\ g.playersById \in [Id -> Model \cup {Absent}]
           /\ g.orphans \subseteq Id /\ g.pendingSnapshot \in Poses \cup {Absent}
  BY Zenon DEF Held

LEMMA StartGameStep ==
    ASSUME ViewInv, StartGame
    PROVE  ViewInv'
  <1>1. /\ link = "page" /\ arriving = {} /\ page = Blank
        /\ conn \in 0 .. last /\ conn < last /\ conn' = conn + 1
        /\ link' = "connecting" /\ page' = [page EXCEPT !.first = conn']
        /\ UNCHANGED <<svars, last, attempts, refused, arriving>>
    BY Zenon DEF StartGame, Connect, ViewInv, ViewTypeOK, LinkInv
  <1>2. /\ last \in Nat /\ \A i \in 1 .. last : Own[i] \in Id
        /\ conn' \in 1 .. last /\ conn' > conn
    <2>1. last \in Nat /\ \A i \in 1 .. last : Own[i] \in Id
      BY OwnIds, Zenon DEF ViewInv, ViewTypeOK
    <2> QED
      BY <1>1, <2>1
  <1>3. PICK me : me = Own[conn'] /\ me = Me' /\ me \in Id
    BY <1>2 DEF Me
  <1>4. /\ page' \in Held /\ page'.first = conn' /\ page'.localPlayerId = Absent
        /\ page'.localPlayer = Absent /\ page'.orphans = {}
        /\ page'.playersById = Nobody
    <2>1. /\ Blank.localPlayerId = Absent /\ Blank.localPlayer = Absent
          /\ Blank.orphans = {} /\ Blank.playersById = Nobody /\ Blank \in Held
      BY BlankHeld, Zenon DEF Blank
    <2>2. page' = [Blank EXCEPT !.first = conn'] /\ conn' \in Nat
      BY <1>1, <1>2
    <2> QED
      BY <2>1, <2>2, Zenon DEF Held
  <1>5. StreamInv' /\ \A q : Quiet(q)' <=> Quiet(q)
    BY <1>1, StreamSame, Zenon DEF ViewInv
  <1>6. ViewTypeOK'
    <2>1. page'.first \in 0 .. conn'
      BY <1>2, <1>4
    <2> QED
      BY <1>1, <1>2, <1>4, <1>5, <2>1, HeldTypes DEF ViewInv, ViewTypeOK,
         StreamInv
  <1>7. LinkInv'
    <2>1. me \notin met' /\ met' = met
      BY <1>1, <1>2, <1>3, Zenon DEF ViewInv, LinkInv, svars
    <2>2. \A i \in 1 .. last : i > conn' => Own[i] \notin met'
      BY <1>1, <1>2, <2>1 DEF ViewInv, LinkInv
    <2>3. \A p \in Id : p \notin met' => Quiet(p)'
      BY <1>5, <2>1, Zenon DEF ViewInv, LinkInv
    <2> QED
      BY <1>1, <1>2, <1>3, <2>1, <2>2, <2>3 DEF LinkInv
  <1>8. FirstView'
    <2>1. Alone(page', me)
      BY <1>3, <1>4, Zenon DEF Alone, Nobody
    <2> QED
      BY <1>1, <1>3, <2>1, Zenon DEF FirstView
  <1> QED
    BY <1>4, <1>5, <1>6, <1>7, <1>8, Zenon DEF ViewInv

\* The id of a connection is not heard of before its hello.
LEMMA OnOpenStep ==
    ASSUME ViewInv, OnOpen
    PROVE  ViewInv'
  <1>1. /\ link = "connecting" /\ link' = "open" /\ attempts' = 0
        /\ UNCHANGED <<svars, last, conn, refused, arriving, page>>
    BY Zenon DEF OnOpen
  <1>2. StreamInv' /\ met' = met /\ \A q : Quiet(q)' <=> Quiet(q)
    BY <1>1, StreamSame, Zenon DEF ViewInv, svars
  <1>3. PICK me : me = Me /\ me = Me' /\ me \in Id
    BY <1>1, MeIsId, Zenon DEF Me
  <1>4. Quiet(me)
    BY <1>1, <1>3, Zenon DEF ViewInv, LinkInv
  <1>5. ViewTypeOK' /\ page' \in Held
    BY <1>1, <1>2, ViewAssumption DEF ViewInv, ViewTypeOK, StreamInv
  <1>6. LinkInv'
    BY <1>1, <1>2, <1>3, Zenon DEF ViewInv, LinkInv
  <1>7. FirstView'
    BY <1>1, <1>2, <1>3, <1>4, Zenon DEF ViewInv, FirstView
  <1> QED
    BY <1>2, <1>5, <1>6, <1>7, Zenon DEF ViewInv

LEMMA LinkDownStep ==
    ASSUME ViewInv, LinkDown
    PROVE  ViewInv'
  <1>1. /\ link \in {"connecting", "open"} /\ link' \in {"waiting", "reloading"}
        /\ arriving' \subseteq arriving
        /\ UNCHANGED <<svars, last, conn, refused, page>>
    BY Zenon DEF LinkDown, scheduleReconnect
  <1>2. attempts' \in 0 .. maxConnectAttempts
    BY ViewAssumption DEF LinkDown, scheduleReconnect, ViewInv, ViewTypeOK
  <1>3. StreamInv' /\ met' = met /\ \A q : Quiet(q)' <=> Quiet(q)
    BY <1>1, StreamSame, Zenon DEF ViewInv, svars
  <1>4. PICK me : me = Me /\ me = Me' /\ me \in Id
    BY <1>1, MeIsId, Zenon DEF Me
  <1>5. ViewTypeOK' /\ page' \in Held
    BY <1>1, <1>2, <1>3, Zenon DEF ViewInv, ViewTypeOK, StreamInv
  <1>6. LinkInv'
    BY <1>1, <1>3, <1>4, Zenon DEF ViewInv, LinkInv
  <1>7. FirstView'
    BY <1>1, <1>3, <1>4, Zenon DEF ViewInv, FirstView
  <1> QED
    BY <1>3, <1>5, <1>6, <1>7, Zenon DEF ViewInv

\* A second connection is not the page's first.
LEMMA RetryStep ==
    ASSUME ViewInv, Retry
    PROVE  ViewInv'
  <1>1. /\ link = "waiting" /\ arriving = {}
        /\ conn \in 0 .. last /\ conn < last /\ conn' = conn + 1
        /\ link' = "connecting"
        /\ UNCHANGED <<svars, last, attempts, refused, arriving, page>>
    BY Zenon DEF Retry, Connect, ViewInv, ViewTypeOK
  <1>2. /\ last \in Nat /\ \A i \in 1 .. last : Own[i] \in Id
        /\ conn' \in 1 .. last /\ conn' > conn
    <2>1. last \in Nat /\ \A i \in 1 .. last : Own[i] \in Id
      BY OwnIds, Zenon DEF ViewInv, ViewTypeOK
    <2> QED
      BY <1>1, <2>1
  <1>3. page'.first # conn' /\ page'.first \in 0 .. conn'
    BY <1>1, <1>2 DEF ViewInv, ViewTypeOK
  <1>4. StreamInv' /\ met' = met /\ \A q : Quiet(q)' <=> Quiet(q)
    BY <1>1, StreamSame, Zenon DEF ViewInv, svars
  <1>5. ViewTypeOK' /\ page' \in Held
    BY <1>1, <1>2, <1>3, <1>4 DEF ViewInv, ViewTypeOK, StreamInv
  <1>6. LinkInv'
    <2>1. Me' = Own[conn']
      BY <1>2 DEF Me
    <2>2. Own[conn'] \notin met'
      BY <1>2, <1>4, Zenon DEF ViewInv, LinkInv
    <2>3. \A i \in 1 .. last : i > conn' => Own[i] \notin met'
      BY <1>1, <1>2, <1>4 DEF ViewInv, LinkInv
    <2>4. \A p \in Id : p \notin met' => Quiet(p)'
      BY <1>4, Zenon DEF ViewInv, LinkInv
    <2> QED
      BY <1>1, <1>2, <2>1, <2>2, <2>3, <2>4 DEF LinkInv
  <1>7. FirstView'
    BY <1>3, Zenon DEF FirstView
  <1> QED
    BY <1>4, <1>5, <1>6, <1>7, Zenon DEF ViewInv

LEMMA ReloadStep ==
    ASSUME ViewInv, Reload
    PROVE  ViewInv'
  <1>1. /\ link' = "page" /\ attempts' = 0 /\ refused' = FALSE /\ arriving' = {}
        /\ page' = Blank /\ UNCHANGED <<svars, last, conn>>
    BY Zenon DEF Reload
  <1>2. StreamInv' /\ met' = met /\ \A q : Quiet(q)' <=> Quiet(q)
    BY <1>1, StreamSame, Zenon DEF ViewInv, svars
  <1>3. page' \in Held /\ page'.first = 0
    BY <1>1, BlankHeld, Zenon DEF Blank
  <1>4. ViewTypeOK'
    <2>1. /\ page'.first \in 0 .. conn' /\ conn' \in 0 .. last'
          /\ last' \in 1 .. Len(Own)
      BY <1>1, <1>3 DEF ViewInv, ViewTypeOK
    <2>2. 0 \in 0 .. maxConnectAttempts
      BY ViewAssumption
    <2>3. /\ {page'.localPlayerId, page'.localPlayer} \subseteq Id \cup {Absent}
          /\ page'.playersById \in [Id -> Model \cup {Absent}]
          /\ page'.orphans \subseteq Id /\ page'.pendingSnapshot \in Poses \cup {Absent}
      BY <1>3, HeldTypes, Zenon
    <2> QED
      BY <1>1, <1>2, <2>1, <2>2, <2>3, Zenon DEF ViewTypeOK, StreamInv
  <1>5. LinkInv'
    BY <1>1, <1>2, Zenon DEF ViewInv, LinkInv
  <1>6. FirstView'
    BY <1>1, Zenon DEF FirstView
  <1> QED
    BY <1>2, <1>3, <1>4, <1>5, <1>6, Zenon DEF ViewInv

\* A handler of network.js.
LEMMA ReceiveStep ==
    ASSUME ViewInv, NEW m \in arriving, Receive(m)
    PROVE  ViewInv'
  <1>1. /\ arriving' = arriving \ {m} /\ page' = Applied(page, m)
        /\ refused' \in BOOLEAN /\ attempts' \in {maxConnectAttempts, attempts}
        /\ UNCHANGED <<svars, link, last, conn>>
    BY Zenon DEF Receive, ViewInv, ViewTypeOK
  <1>2. StreamInv' /\ met' = met /\ \A q : Quiet(q)' <=> Quiet(q)
    BY <1>1, StreamSame, Zenon DEF ViewInv, svars
  <1>3. page \in Held /\ m \in Message /\ Posed(m) /\ link # "page" /\ m.to \in {All, Me}
    BY Zenon DEF ViewInv, ViewTypeOK, LinkInv
  <1>4. page' \in Held /\ page'.first = page.first
    BY <1>1, <1>3, AppliedHeld, Zenon
  <1>5. PICK me : me = Me /\ me = Me' /\ me \in Id
    BY <1>1, <1>3, MeIsId, Zenon DEF Me
  <1>6. ViewTypeOK'
    <2>1. attempts' \in 0 .. maxConnectAttempts
      BY <1>1, ViewAssumption DEF ViewInv, ViewTypeOK
    <2>2. page'.first \in 0 .. conn'
      BY <1>1, <1>4, Zenon DEF ViewInv, ViewTypeOK
    <2> QED
      BY <1>1, <1>2, <1>4, <2>1, <2>2, HeldTypes, Zenon DEF ViewInv,
         ViewTypeOK,
         StreamInv
  <1>7. LinkInv'
    BY <1>1, <1>2, <1>3, <1>5, Zenon DEF ViewInv, LinkInv
  <1>8. FirstView'
    <2> SUFFICES ASSUME page.first = conn
                 PROVE  /\ Alone(page', me)
                        /\ page'.localPlayer = Absent =>
                             /\ \A n \in arriving' : ~ (n.t = "states" /\ n.list[me] # Absent)
                             /\ link = "open" => Quiet(me)'
      BY <1>1, <1>4, <1>5, Zenon DEF FirstView
    <2>1. /\ Alone(page, me)
          /\ page.localPlayer = Absent =>
               /\ \A n \in arriving : ~ (n.t = "states" /\ n.list[me] # Absent)
               /\ link = "open" => Quiet(me)
      BY <1>3, <1>5, Zenon DEF ViewInv, FirstView
    <2>2. Alone(page', me) /\ Keeps(page, page')
      BY <1>1, <1>3, <1>5, <2>1, AppliedAlone, Zenon
    <2> QED
      BY <1>1, <1>2, <2>1, <2>2, Zenon DEF Keeps
  <1> QED
    BY <1>2, <1>4, <1>6, <1>7, <1>8, Zenon DEF ViewInv

----------------------------------------------------------------------------
\* ViewInv holds in every state of the page and the server.
THEOREM ViewInvariant == Spec => []ViewInv
  <1>1. Init => ViewInv
    <2> SUFFICES ASSUME Init
                 PROVE  ViewInv
      BY Zenon
    <2>1. StreamInv /\ \A p \in Id : Quiet(p)
      BY StreamAssumption DEF Init, StreamInit, StreamInv, StreamTypeOK,
         Poses, Pose, Nobody, Quiet
    <2>2. page \in Held /\ page.first = 0
      BY BlankHeld, Zenon DEF Init, Blank
    <2>3. ViewTypeOK
      <3>1. 0 \in 0 .. maxConnectAttempts /\ conn \in 0 .. last /\ page.first \in 0 .. conn
        BY <2>2, ViewAssumption DEF Init
      <3>2. /\ {page.localPlayerId, page.localPlayer} \subseteq Id \cup {Absent}
            /\ page.playersById \in [Id -> Model \cup {Absent}]
            /\ page.orphans \subseteq Id /\ page.pendingSnapshot \in Poses \cup {Absent}
        BY <2>2, HeldTypes, Zenon
      <3> QED
        BY <2>1, <3>1, <3>2, Zenon DEF Init, ViewTypeOK, StreamInv
    <2>4. LinkInv
      BY <2>1, Zenon DEF Init, StreamInit, LinkInv
    <2> QED
      BY <2>1, <2>2, <2>3, <2>4, Zenon DEF Init, FirstView, ViewInv
  <1>2. ViewInv /\ [Next]_vars => ViewInv'
    <2> SUFFICES ASSUME ViewInv, [Next]_vars
                 PROVE  ViewInv'
      BY Zenon
    <2>1. CASE UNCHANGED vars
      <3>1. StreamInv' /\ \A q : Quiet(q)' <=> Quiet(q)
        BY <2>1, StreamSame, Zenon DEF ViewInv, vars
      <3>2. PICK me : me = Me /\ me = Me'
        BY <2>1, Zenon DEF Me, vars, cvars
      <3>3. ViewTypeOK' /\ page' \in Held
        BY <2>1, <3>1, Zenon DEF ViewInv, ViewTypeOK, StreamInv, vars, cvars
      <3>4. LinkInv' /\ FirstView'
        BY <2>1, <3>1, <3>2, Zenon DEF ViewInv, LinkInv, FirstView, vars,
           cvars, svars
      <3> QED
        BY <3>1, <3>3, <3>4, Zenon DEF ViewInv
    <2>2. CASE StartGame \/ OnOpen \/ LinkDown \/ Retry \/ Reload
      BY <2>2, StartGameStep, OnOpenStep, LinkDownStep, RetryStep,
         ReloadStep, Zenon
    <2>3. CASE \E m \in arriving : Receive(m)
      BY <2>3, ReceiveStep, Zenon
    <2>4. CASE \/ \E m \in sending : Deliver(m) \/ Drop(m)
               \/ \E p \in Id : Join(p) \/ Leave(p) \/ Forget(p) \/ Felled(p)
                                 \/ Moved(p) \/ Revived(p)
               \/ Refuse \/ Frame \/ Sync
      BY <2>4, ServerSteps, Zenon
    <2> QED
      BY <2>1, <2>2, <2>3, <2>4, Zenon DEF Next
  <1> QED
    BY <1>1, <1>2, PTL DEF Spec

\* The type invariant of the page and the stream (network.js, state.ts).
THEOREM ViewTypes == Spec => []ViewTypeOK
  BY ViewInvariant, PTL DEF ViewInv

\* In whatever order its welcome, its own join, snapshots and frames are
\* decrypted and applied, a page on its first connection never shows its own
\* player as somebody else and leaves no second model in the scene (the
\* handlers of connect in network.js).
THEOREM NoRivalAtFirstHolds == Spec => []NoRivalAtFirst
  <1>1. ViewInv => NoRivalAtFirst
    <2> SUFFICES ASSUME ViewInv, page.first = conn
                 PROVE  NeverItsOwnRival
      BY Zenon DEF NoRivalAtFirst
    <2>1. CASE link = "page"
      BY <2>1 DEF ViewInv, LinkInv, Blank, NeverItsOwnRival
    <2>2. CASE link # "page"
      BY <2>2, Zenon DEF ViewInv, FirstView, Alone, NeverItsOwnRival
    <2> QED
      BY <2>1, <2>2, Zenon
  <1> QED
    BY <1>1, ViewInvariant, PTL
====
