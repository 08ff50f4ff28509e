----------------------------- MODULE ClientView -----------------------------
(***************************************************************************)
(* One browser page that watches the world through NetworkManager          *)
(* (client_src/network.js): its connections, the identity each of them is  *)
(* given, and the models of the players it shows.  Messages that reach the *)
(* page are decrypted by another thread pool and applied in any order.     *)
(***************************************************************************)
EXTENDS StateStream, Sequences

CONSTANTS
    Own,                \* the ids given to the page's connections, in order;
                        \* the last ones may go to other players instead
    maxConnectAttempts,
    MaxArriving         \* bound: messages on their way to the page

ASSUME ViewAssumption ==
    /\ Own \in Seq(Id)
    /\ \A i, j \in DOMAIN Own : Own[i] = Own[j] => i = j
    /\ maxConnectAttempts \in Nat
    /\ MaxArriving \in Nat \ {0}

VARIABLES
    link,       \* "page", "connecting", "open", "waiting" or "reloading"
    last,       \* how many connections the page makes in this run
    conn,       \* number of the page's latest connection
    attempts,   \* connectAttempts
    refused,    \* an error message was shown since the page was loaded
    arriving,   \* messages at the await of wsDecode
    page        \* what the page holds of the world

cvars == <<link, last, conn, attempts, refused, arriving, page>>
vars == <<svars, cvars>>

Me == IF conn = 0 THEN Absent ELSE Own[conn]

\* A PlayerModel: whether it is a remote player's, whether it has its name,
\* and the pose it is steered to.
Model == [remote : BOOLEAN, named : BOOLEAN, target : Pose]

Blank ==
    [localPlayerId |-> Absent, localPlayer |-> Absent, playersById |-> Nobody,
     orphans |-> {},            \* ids with a model only `players' still has
     pendingSnapshot |-> Absent,
     first |-> 0]               \* history: its first connection

Init ==
    /\ StreamInit
    /\ link = "page"
    /\ last \in 1 .. Len(Own)
    /\ conn = 0
    /\ attempts = 0
    /\ refused = FALSE
    /\ arriving = {}
    /\ page = Blank

----------------------------------------------------------------------------
(* What the handlers of network.js make of a page g.                       *)

removePlayer(g, p) == [g EXCEPT !.playersById[p] = Absent]

\* A model that already had the id stays in the scene.
createLocalPlayer(g, p, target) ==
    [g EXCEPT
       !.localPlayer = p,
       !.playersById[p] = [remote |-> FALSE, named |-> TRUE, target |-> target],
       !.orphans = @ \cup (IF g.playersById[p] = Absent THEN {} ELSE {p})]

\* The model of p, new where there is none, steered to the target.
Steered(g, p, target, named) ==
    IF g.playersById[p] = Absent
    THEN [remote |-> TRUE, named |-> named, target |-> target]
    ELSE [g.playersById[p] EXCEPT !.target = target, !.named = @ \/ named]

\* Mutant: the players who are there already are not corrected.
SnapshotLeavesPoses(g, list) ==
    LET me == g.localPlayerId
        h == IF g.localPlayer = Absent /\ list[me] # Absent
             THEN createLocalPlayer(g, me, list[me]) ELSE g
    IN  [h EXCEPT !.playersById =
           [p \in Id |-> IF p = me THEN h.playersById[p]
                         ELSE IF list[p] = Absent THEN Absent
                         ELSE IF h.playersById[p] # Absent THEN h.playersById[p]
                         ELSE Steered(h, p, list[p], TRUE)]]

\* The players listed are created or corrected, the others removed; the
\* local player is created when it is missing.
applySnapshot(g, list) ==
    LET me == g.localPlayerId
        h == IF g.localPlayer = Absent /\ list[me] # Absent
             THEN createLocalPlayer(g, me, list[me]) ELSE g
    IN  [h EXCEPT !.playersById =
           [p \in Id |-> IF p = me THEN h.playersById[p]
                         ELSE IF list[p] = Absent THEN Absent
                         ELSE Steered(h, p, list[p], TRUE)]]

\* The page takes its new identity; the local player of an earlier
\* connection goes.
OnWelcome(g, id) ==
    LET h == IF g.localPlayer \in {Absent, id} THEN g
             ELSE [removePlayer(g, g.localPlayer) EXCEPT !.localPlayer = Absent]
        k == [h EXCEPT !.localPlayerId = id, !.pendingSnapshot = Absent]
    IN  IF g.pendingSnapshot = Absent THEN k
        ELSE applySnapshot(k, g.pendingSnapshot)

OnSnapshot(g, list) ==
    IF g.localPlayerId = Absent THEN [g EXCEPT !.pendingSnapshot = list]
    ELSE applySnapshot(g, list)

\* The frame steers the remote players it lists.
OnStates(g, list) ==
    [g EXCEPT !.playersById =
       [p \in Id |-> IF p = g.localPlayerId \/ list[p] = Absent
                     THEN g.playersById[p]
                     ELSE Steered(g, p, list[p], FALSE)]]

\* Mutant: a join counts before the welcome, too.
JoinAlways(g, p, target) ==
    IF p = g.localPlayerId
    THEN IF g.localPlayer = Absent THEN createLocalPlayer(g, p, target) ELSE g
    ELSE IF g.playersById[p] # Absent THEN g
    ELSE [g EXCEPT !.playersById[p] = Steered(g, p, target, TRUE)]

\* A join is ignored until the page has an identity.
OnJoin(g, p, target) ==
    IF g.localPlayerId = Absent THEN g
    ELSE IF p = g.localPlayerId
    THEN IF g.localPlayer = Absent THEN createLocalPlayer(g, p, target) ELSE g
    ELSE IF g.playersById[p] # Absent THEN g
    ELSE [g EXCEPT !.playersById[p] = Steered(g, p, target, TRUE)]

\* A respawn moves the mesh and leaves the pose it is steered to.
Applied(g, m) ==
    CASE m.t = "welcome" -> OnWelcome(g, m.to)
      [] m.t = "snapshot" -> OnSnapshot(g, m.players)
      [] m.t = "states" -> OnStates(g, m.list)
      [] m.t = "join" -> OnJoin(g, m.id, m.pose)
      [] m.t = "leave" -> removePlayer(g, m.id)
      [] OTHER -> g
----------------------------------------------------------------------------
(* The page's connection.                                                  *)

Connect ==
    /\ conn < last
    /\ conn' = conn + 1
    /\ link' = "connecting"

\* The player starts the game on a page that was just loaded.
StartGame ==
    /\ link = "page"
    /\ Connect
    /\ page' = [page EXCEPT !.first = conn']
    /\ UNCHANGED <<svars, last, attempts, refused, arriving>>

\* onopen; the hello is on its way.
OnOpen ==
    /\ link = "connecting"
    /\ link' = "open"
    /\ attempts' = 0
    /\ UNCHANGED <<svars, last, conn, refused, arriving, page>>

\* Mutant: the limit is compared with >.
ReconnectOnceMore ==
    IF attempts > maxConnectAttempts
    THEN link' = "reloading" /\ UNCHANGED attempts
    ELSE link' = "waiting" /\ attempts' = attempts + 1

scheduleReconnect ==
    IF attempts >= maxConnectAttempts
    THEN link' = "reloading" /\ UNCHANGED attempts
    ELSE link' = "waiting" /\ attempts' = attempts + 1

\* The page's onclose: what it has received it still decrypts, the rest of
\* what was under way is lost.
LinkDown ==
    /\ link \in {"connecting", "open"}
    /\ \E kept \in SUBSET arriving : arriving' = kept
    /\ scheduleReconnect
    /\ UNCHANGED <<svars, last, conn, refused, page>>

\* The timer of scheduleReconnect, a second later: decryption is over.
Retry ==
    /\ link = "waiting"
    /\ arriving = {}
    /\ Connect
    /\ UNCHANGED <<svars, last, attempts, refused, arriving, page>>

Reload ==
    /\ link = "reloading"
    /\ link' = "page"
    /\ attempts' = 0
    /\ refused' = FALSE
    /\ arriving' = {}
    /\ page' = Blank
    /\ UNCHANGED <<svars, last, conn>>

\* onmessage after its await.
Receive(m) ==
    /\ m \in arriving
    /\ arriving' = arriving \ {m}
    /\ page' = Applied(page, m)
    /\ refused' = (refused \/ m.t = "error")
    /\ attempts' = IF m.t = "error" THEN maxConnectAttempts ELSE attempts
    /\ UNCHANGED <<svars, link, last, conn>>

----------------------------------------------------------------------------
(* The server, as far as the page sees it.                                 *)

Remote == Id \ {Own[i] : i \in 1 .. last}

\* Who may be heard: a page sends the state of its local player, be it one of
\* an earlier connection, and what it sent before a close may come late.
Speaks(p) == p = Me /\ link = "open" => page.localPlayer # Absent

Join(p) ==
    /\ p \in Remote \/ (p = Me /\ link = "open")
    /\ Hello(p)
    /\ UNCHANGED cvars

\* The hello is refused because of its name; the socket is closed after it.
Refuse ==
    /\ link = "open"
    /\ Me \notin met
    /\ Room
    /\ met' = met \cup {Me}
    /\ sending' = sending \cup {[t |-> "error", to |-> Me]}
    /\ UNCHANGED <<clients, cached, pose, fallen, pending, cvars>>

Reaches(m) ==
    /\ link = "open"
    /\ IF m.to = All THEN Me \in clients ELSE m.to = Me

\* No two equal messages are on their way to the page at once.
Deliver(m) ==
    /\ Encrypted(m)
    /\ Reaches(m)
    /\ m \notin arriving
    /\ Cardinality(arriving) < MaxArriving
    /\ arriving' = arriving \cup {m}
    /\ UNCHANGED <<link, last, conn, attempts, refused, page>>

\* The page is not among the receivers, or it is too slow for a frame that
\* broadcastDroppable need not send.
Drop(m) ==
    /\ Encrypted(m)
    /\ Reaches(m) => m.to = All /\ m.t \in {"states", "snapshot"}
    /\ UNCHANGED cvars

Leave(p) == OnClose(p) /\ UNCHANGED cvars
Forget(p) == Cleanup(p) /\ UNCHANGED cvars
Felled(p) == Fall(p) /\ UNCHANGED cvars
Moved(p) == Speaks(p) /\ Move(p) /\ UNCHANGED cvars
Revived(p) == Speaks(p) /\ Revive(p) /\ UNCHANGED cvars
Frame == StateTick /\ UNCHANGED cvars
Sync == StateSync /\ UNCHANGED cvars

Next ==
    \/ StartGame \/ OnOpen \/ LinkDown \/ Retry \/ Reload
    \/ \E m \in arriving : Receive(m)
    \/ \E m \in sending : Deliver(m) \/ Drop(m)
    \/ \E p \in Id : Join(p) \/ Leave(p) \/ Forget(p) \/ Felled(p)
                      \/ Moved(p) \/ Revived(p)
    \/ Refuse \/ Frame \/ Sync

Spec == Init /\ [][Next]_vars

\* The loops of the server run, encryption and decryption of snapshots and
\* of all other messages (there are finitely many) end, and a page is not
\* too slow for every snapshot.
Fairness ==
    /\ WF_vars(Frame) /\ WF_vars(Sync)
    /\ SF_vars(\E m \in sending : m.t = "snapshot" /\ Deliver(m))
    /\ SF_vars(\E m \in sending : m.t = "snapshot" /\ (Deliver(m) \/ Drop(m)))
    /\ SF_vars(\E m \in sending : m.t # "snapshot" /\ (Deliver(m) \/ Drop(m)))
    /\ WF_vars(\E m \in arriving : m.t = "snapshot" /\ Receive(m))
    /\ WF_vars(\E m \in arriving : m.t # "snapshot" /\ Receive(m))

FairSpec == Spec /\ Fairness

----------------------------------------------------------------------------
\* Type invariant: scheduleReconnect never counts beyond its limit.
ViewTypeOK ==
    /\ StreamTypeOK
    /\ link \in {"page", "connecting", "open", "waiting", "reloading"}
    /\ last \in 1 .. Len(Own)
    /\ conn \in 0 .. last
    /\ attempts \in 0 .. maxConnectAttempts
    /\ refused \in BOOLEAN
    /\ arriving \subseteq Message
    /\ {page.localPlayerId, page.localPlayer} \subseteq Id \cup {Absent}
    /\ page.playersById \in [Id -> Model \cup {Absent}]
    /\ page.orphans \subseteq Id
    /\ page.pendingSnapshot \in Poses \cup {Absent}
    /\ page.first \in 0 .. conn

\* The page never shows its own player as somebody else: the model of its
\* identity is the local one, and no second model of a player is left in the
\* scene.  A join is ignored before the welcome "so as not to create oneself
\* as a remote player" (network.js:232).
NeverItsOwnRival ==
    /\ page.orphans = {}
    /\ LET me == page.localPlayerId
       IN  me # Absent /\ page.playersById[me] # Absent
             => ~ page.playersById[me].remote

\* On the first connection after it was loaded, the page never does, in
\* whatever order its own join, the welcome and the snapshots are applied
\* (connect, applyEvent).
NoRivalAtFirst == page.first = conn => NeverItsOwnRival

\* After an error message the page does not reconnect by itself: "no
\* automatic reconnection" (network.js:105).
NoReconnectAfterError == ~ (refused /\ link = "connecting")

\* What the page shows once it agrees with the table: itself, and every other
\* player with its name and its pose.
Agrees ==
    /\ page.localPlayer = Me
    /\ \A p \in Id \ {Me} :
         IF cached[p] = Absent THEN page.playersById[p] = Absent
         ELSE page.playersById[p] # Absent
              /\ page.playersById[p].named
              /\ page.playersById[p].target = cached[p]

\* However events, frames and snapshots overtake each other or are dropped,
\* once the world is at rest a connected page comes to agree with the table
\* and stays so: the snapshot is the "full correction" (state.ts:187).
Converges == <>[](link = "open" /\ Me \in clients => Agrees)

=============================================================================
