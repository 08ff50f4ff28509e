------------------------------ MODULE Gateway ------------------------------
(***************************************************************************)
(* Connections: the life of a socket in handleWs (ws.ts) and of the table  *)
(* entries it leaves behind, which the clean-up of state.ts removes by     *)
(* age.  A connection stands for the player id it is given.  A message is  *)
(* first decrypted by a thread pool, so messages of one socket overtake    *)
(* each other and may come out after the socket has closed.                *)
(*                                                                         *)
(* Ages and timers count time units and saturate, so that behaviours are   *)
(* unbounded and the graph is finite.                                      *)
(***************************************************************************)
EXTENDS Integers, FiniteSets

CONSTANTS
    Conn,       \* sockets
    Bot,        \* ids of the bots
    Name,       \* names the sockets may introduce themselves with
    clampName,  \* what clampName makes of them
    Taken,      \* names of registered clients other than these sockets'
    ALLOW_DUPLICATE_NAMES,
    HelloMs,    \* the hello timeout of handleWs
    IdleMs,     \* CLEANUP_IDLE_MS
    RespawnMs,  \* CONFIG.GAME.respawnMs
    Stall,      \* bound: longest pause between two updates of the bots
    Lag,        \* bound: how far a bot's updatedAt lies behind when written
    MaxHits,    \* bound: hits on players in a behaviour
    Off,        \* a timer that is not set
    Absent      \* no entry

ASSUME GatewayAssumption ==
    /\ Conn \cap Bot = {}
    /\ clampName \in [Name -> Name]
    /\ Taken \subseteq {clampName[n] : n \in Name}
    /\ ALLOW_DUPLICATE_NAMES \in BOOLEAN
    /\ {HelloMs, IdleMs, RespawnMs, Stall} \subseteq Nat \ {0}
    /\ {Lag, MaxHits} \subseteq Nat
    /\ RespawnMs + Stall <= IdleMs
    /\ Lag + Stall <= IdleMs
    /\ Off \notin Nat /\ Absent \notin Nat

VARIABLES
    socket,     \* "none", "open", "closing" (close was called), "closed"
    name,       \* the name a socket's hello carries
    helloTimer, \* time left until the hello timeout, or Off
    decoding,   \* messages at the await of decodeClientWsMsg
    greeting,   \* hello handlers at the await of serverOnHello
    rejecting,  \* hello handlers that send the duplicate-name error
    client,     \* sockets whose variable `client' is set
    clients,    \* the map of registered clients
    age,        \* id -> now - updatedAt of its table entry, or Absent
    down,       \* bot -> time left until it may revive; Off when alive
    quiet,      \* time since the last call of updateBots
    hits        \* hits so far

gvars == <<socket, name, helloTimer, decoding, greeting, rejecting, client,
           clients, age, down, quiet, hits>>

Message == {"hello", "ping", "state", "other"}
Id == Conn \cup Bot

Init ==
    /\ socket = [c \in Conn |-> "none"]
    /\ name \in [Conn -> Name]
    /\ helloTimer = [c \in Conn |-> Off]
    /\ decoding = [c \in Conn |-> {}]
    /\ greeting = {}
    /\ rejecting = {}
    /\ client = {}
    /\ clients = {}
    /\ age = [p \in Id |-> IF p \in Bot THEN 0 ELSE Absent]
    /\ down = [b \in Bot |-> Off]
    /\ quiet = 0
    /\ hits = 0

----------------------------------------------------------------------------
\* serverOnHello resolves at once: only other continuations of the same turn
\* of the event loop run before the hello handler goes on.
TurnOver == greeting = {}

\* Time passes for the table, the timers and the bots.
Tick ==
    /\ TurnOver
    /\ quiet < Stall
    /\ quiet' = quiet + 1
    /\ age' = [p \in Id |-> IF age[p] = Absent \/ age[p] > IdleMs THEN age[p]
                            ELSE age[p] + 1]
    /\ helloTimer' = [c \in Conn |-> IF helloTimer[c] \in {Off, 0} THEN helloTimer[c]
                                     ELSE helloTimer[c] - 1]
    /\ down' = [b \in Bot |-> IF down[b] \in {Off, 0} THEN down[b] ELSE down[b] - 1]
    /\ UNCHANGED <<socket, name, decoding, greeting, rejecting, client, clients, hits>>

\* handleWs: the upgrade of the connection.
HandleWs(c) ==
    /\ TurnOver
    /\ socket[c] = "none"
    /\ socket' = [socket EXCEPT ![c] = "open"]
    /\ helloTimer' = [helloTimer EXCEPT ![c] = HelloMs]
    /\ UNCHANGED <<name, decoding, greeting, rejecting, client, clients, age,
                   down, quiet, hits>>

\* socket.close: the close event comes later.
Close(c) ==
    socket' = IF socket[c] = "open" THEN [socket EXCEPT ![c] = "closing"] ELSE socket

\* Mutant: the timer callback does not close the socket.
HelloTimeoutIdle(c) ==
    /\ TurnOver
    /\ helloTimer[c] = 0
    /\ helloTimer' = [helloTimer EXCEPT ![c] = Off]
    /\ UNCHANGED <<socket, name, decoding, greeting, rejecting, client, clients,
                   age, down, quiet, hits>>

\* The callback of the hello timer.
HelloTimeout(c) ==
    /\ TurnOver
    /\ helloTimer[c] = 0
    /\ helloTimer' = [helloTimer EXCEPT ![c] = Off]
    /\ Close(c)
    /\ UNCHANGED <<name, decoding, greeting, rejecting, client, clients, age,
                   down, quiet, hits>>

\* onclose, for whatever reason the connection ends.
OnClose(c) ==
    /\ TurnOver
    /\ socket[c] \in {"open", "closing"}
    /\ socket' = [socket EXCEPT ![c] = "closed"]
    /\ helloTimer' = [helloTimer EXCEPT ![c] = Off]
    /\ IF c \in client
       THEN /\ clients' = clients \ {c}
            /\ age' = [age EXCEPT ![c] = Absent]
       ELSE UNCHANGED <<clients, age>>
    /\ UNCHANGED <<name, decoding, greeting, rejecting, client, down, quiet, hits>>
----------------------------------------------------------------------------
\* onmessage up to its await.  The browser sends one hello, when the socket
\* opens.
OnMessage(c, m) ==
    /\ TurnOver
    /\ socket[c] = "open"
    /\ m \notin decoding[c]
    /\ m = "hello" => helloTimer[c] # Off
    /\ decoding' = [decoding EXCEPT ![c] = @ \cup {m}]
    /\ UNCHANGED <<socket, name, helloTimer, greeting, rejecting, client,
                   clients, age, down, quiet, hits>>

\* A decrypted message leaves its await.
Decoded(c, m) ==
    /\ m \in decoding[c]
    /\ decoding' = [decoding EXCEPT ![c] = @ \ {m}]

\* Another client has registered this name; registered names are clamped.
DuplicateName(c) ==
    /\ ~ALLOW_DUPLICATE_NAMES
    /\ name[c] \in Taken \cup {clampName[name[k]] : k \in clients}

\* Mutant: the hello timer keeps running.
HelloKeepsTimer(c) ==
    /\ Decoded(c, "hello")
    /\ c \notin client
    /\ IF DuplicateName(c)
       THEN rejecting' = rejecting \cup {c} /\ UNCHANGED greeting
       ELSE greeting' = greeting \cup {c} /\ UNCHANGED rejecting
    /\ UNCHANGED <<socket, name, helloTimer, client, clients, age, down, quiet, hits>>

Hello(c) ==
    /\ Decoded(c, "hello")
    /\ c \notin client
    /\ helloTimer' = [helloTimer EXCEPT ![c] = Off]
    /\ IF DuplicateName(c)
       THEN rejecting' = rejecting \cup {c} /\ UNCHANGED greeting
       ELSE greeting' = greeting \cup {c} /\ UNCHANGED rejecting
    /\ UNCHANGED <<socket, name, client, clients, age, down, quiet, hits>>

\* The error has been sent.
Reject(c) ==
    /\ TurnOver
    /\ c \in rejecting
    /\ rejecting' = rejecting \ {c}
    /\ Close(c)
    /\ UNCHANGED <<name, helloTimer, decoding, greeting, client, clients, age,
                   down, quiet, hits>>

\* Mutant: the socket's own variable is not set.
RegisterUnowned(c) ==
    /\ c \in greeting
    /\ greeting' = greeting \ {c}
    /\ clients' = clients \cup {c}
    /\ age' = [age EXCEPT ![c] = 0]
    /\ UNCHANGED <<socket, name, helloTimer, decoding, rejecting, client, down,
                   quiet, hits>>

\* The rest of the hello handler.
Register(c) ==
    /\ c \in greeting
    /\ greeting' = greeting \ {c}
    /\ client' = client \cup {c}
    /\ clients' = clients \cup {c}
    /\ age' = [age EXCEPT ![c] = 0]
    /\ UNCHANGED <<socket, name, helloTimer, decoding, rejecting, down, quiet, hits>>

\* Mutant: the timer is cleared before the message is known to be a hello.
DroppedDisarms(c, m) ==
    /\ Decoded(c, m)
    /\ m # "hello"
    /\ c \in client => m = "other"
    /\ helloTimer' = [helloTimer EXCEPT ![c] = Off]
    /\ UNCHANGED <<socket, name, greeting, rejecting, client, clients, age, down,
                   quiet, hits>>

\* Before the hello every other message is dropped; after it so is whatever
\* a handler rejects, and chat and snowballs leave the sender's entry alone.
Dropped(c, m) ==
    /\ Decoded(c, m)
    /\ m # "hello"
    /\ c \in client => m = "other"
    /\ UNCHANGED <<socket, name, helloTimer, greeting, rejecting, client,
                   clients, age, down, quiet, hits>>

\* More than RATE.maxMsgs in the window.
RateLimited(c, m) ==
    /\ Decoded(c, m)
    /\ c \in client
    /\ Close(c)
    /\ UNCHANGED <<name, helloTimer, greeting, rejecting, client, clients, age,
                   down, quiet, hits>>

\* A ping renews updatedAt if there is an entry.
Ping(c) ==
    /\ Decoded(c, "ping")
    /\ c \in client
    /\ age' = IF age[c] = Absent THEN age ELSE [age EXCEPT ![c] = 0]
    /\ UNCHANGED <<socket, name, helloTimer, greeting, rejecting, client,
                   clients, down, quiet, hits>>

\* An accepted state writes the entry, even when the player has left.
State(c) ==
    /\ Decoded(c, "state")
    /\ c \in client
    /\ age' = [age EXCEPT ![c] = 0]
    /\ UNCHANGED <<socket, name, helloTimer, greeting, rejecting, client,
                   clients, down, quiet, hits>>

----------------------------------------------------------------------------
\* updateBots: live bots and those whose respawn time has come are written,
\* and so is a bot that was killed while its shot was being broadcast.
UpdateBots ==
    /\ TurnOver
    /\ quiet' = 0
    /\ \E late \in SUBSET Bot, lag \in 0..Lag :
          LET up == {b \in Bot : age[b] # Absent /\ (down[b] \in {Off, 0} \/ b \in late)}
          IN  /\ age' = [p \in Id |-> IF p \in up THEN lag ELSE age[p]]
              /\ down' = [b \in Bot |-> IF b \in up THEN Off ELSE down[b]]
    /\ UNCHANGED <<socket, name, helloTimer, decoding, greeting, rejecting,
                   client, clients, hits>>

\* A snowball hits p and renews its updatedAt; bots may die of it.
Hit(p) ==
    /\ TurnOver
    /\ hits < MaxHits
    /\ hits' = hits + 1
    /\ age[p] # Absent
    /\ p \in Bot => down[p] \in {Off, 0}
    /\ age' = [age EXCEPT ![p] = 0]
    /\ \/ p \in Bot /\ down' = [down EXCEPT ![p] = RespawnMs]
       \/ (p \in Bot => down[p] = Off) /\ UNCHANGED down
    /\ UNCHANGED <<socket, name, helloTimer, decoding, greeting, rejecting,
                   client, clients, quiet>>

\* Mutants: nobody is spared; whoever was ever online is spared.
CleanupOnline ==
    /\ TurnOver
    /\ age' = [p \in Id |-> IF age[p] # Absent /\ age[p] > IdleMs THEN Absent ELSE age[p]]
    /\ UNCHANGED <<socket, name, helloTimer, decoding, greeting, rejecting,
                   client, clients, down, quiet, hits>>

CleanupStrangers ==
    /\ TurnOver
    /\ age' = [p \in Id |-> IF p \notin client /\ age[p] # Absent /\ age[p] > IdleMs
                            THEN Absent ELSE age[p]]
    /\ UNCHANGED <<socket, name, helloTimer, decoding, greeting, rejecting,
                   client, clients, down, quiet, hits>>

\* The scan of state.ts: whoever is online is never removed.
Cleanup ==
    /\ TurnOver
    /\ age' = [p \in Id |-> IF p \notin clients /\ age[p] # Absent /\ age[p] > IdleMs
                            THEN Absent ELSE age[p]]
    /\ UNCHANGED <<socket, name, helloTimer, decoding, greeting, rejecting,
                   client, clients, down, quiet, hits>>

----------------------------------------------------------------------------
Handle(c) ==
    \/ Hello(c)
    \/ Ping(c)
    \/ State(c)
    \/ \E m \in Message : Dropped(c, m) \/ RateLimited(c, m)

Next ==
    \/ Tick
    \/ UpdateBots
    \/ Cleanup
    \/ \E p \in Id : Hit(p)
    \/ \E c \in Conn : \/ HandleWs(c)
                       \/ HelloTimeout(c)
                       \/ OnClose(c)
                       \/ Handle(c)
                       \/ Reject(c)
                       \/ Register(c)
                       \/ \E m \in Message : OnMessage(c, m)

\* Timers fire, decryptions end, and close is followed by the close event.
Fairness ==
    /\ SF_gvars(Tick)
    /\ SF_gvars(UpdateBots)
    /\ SF_gvars(Cleanup)
    /\ \A c \in Conn : /\ SF_gvars(HelloTimeout(c))
                       /\ SF_gvars(socket[c] = "closing" /\ OnClose(c))
                       /\ SF_gvars(Handle(c))
                       /\ SF_gvars(Reject(c))
                       /\ WF_gvars(Register(c))

Spec == Init /\ [][Next]_gvars
FairSpec == Spec /\ Fairness

----------------------------------------------------------------------------
(* Type invariant.                                                         *)
GatewayTypeOK ==
    /\ socket \in [Conn -> {"none", "open", "closing", "closed"}]
    /\ name \in [Conn -> Name]
    /\ helloTimer \in [Conn -> 0..HelloMs \cup {Off}]
    /\ decoding \in [Conn -> SUBSET Message]
    /\ greeting \subseteq Conn
    /\ rejecting \subseteq Conn
    /\ clients \subseteq client
    /\ client \subseteq Conn
    /\ age \in [Id -> 0..(IdleMs + 1) \cup {Absent}]
    /\ down \in [Bot -> 0..RespawnMs \cup {Off}]
    /\ quiet \in 0..Stall
    /\ hits \in 0..MaxHits

(* "Whoever is online is never removed" (the clean-up of state.ts): a      *)
(* registered client has a table entry until its socket closes, however    *)
(* long it is silent, and so has every bot.  A bot has no socket: only its *)
(* updates protect it, dead or alive, and updateBots never brings a        *)
(* removed bot back.                                                       *)
OnlineListed == \A c \in clients \cup Bot : age[c] # Absent

(* The hello timeout never closes the socket of somebody who has said      *)
(* hello, even when the hello is decrypted as the timer runs out.          *)
GreetedKeepSocket ==
    [][\A c \in client \cup greeting :
          helloTimer[c] = 0 => socket'[c] = socket[c]]_gvars

(* No open socket is forgotten: its client is registered, or its hello is  *)
(* being answered or rejected, or the hello timer is still to run out.     *)
NoForgottenSocket ==
    \A c \in Conn : socket[c] = "open" =>
        c \in client \cup greeting \cup rejecting \/ helloTimer[c] # Off

\* Why these hold: a new socket starts from nothing, and the hello timer is off
\* from the hello on.
GreetedDisarmed ==
    /\ \A c \in client \cup greeting : helloTimer[c] = Off
    /\ \A c \in Conn : socket[c] = "none" =>
          decoding[c] = {} /\ c \notin client \cup greeting

\* A bot's entry is never older than its last update and its time on the ground
\* explain, and that is less than the clean-up waits.
BotsYoung ==
    \A b \in Bot :
        /\ age[b] # Absent
        /\ IF down[b] = Off THEN age[b] <= Lag + quiet
           ELSE IF down[b] = 0 THEN age[b] <= RespawnMs + quiet
           ELSE age[b] + down[b] <= RespawnMs

(* A player who has left leaves no ghost behind: messages still being      *)
(* decrypted may bring the entry back, but the clean-up removes it for     *)
(* good.                                                                   *)
GhostsGo ==
    \A c \in Conn : (c \in client \ clients) ~> [](age[c] = Absent)

(* A socket does not stay open without a hello: its client registers, or   *)
(* the hello timeout or the duplicate-name check closes it.                *)
NoSilentSocket ==
    \A c \in Conn : (socket[c] = "open") ~> (c \in client \/ socket[c] = "closed")

(* "Clean-up of players in memory, against ghosts left by abnormal         *)
(* disconnections": once its socket has closed, a player's entry goes.     *)
NoGhosts ==
    \A c \in Conn : (socket[c] = "closed") ~> (age[c] = Absent)
=============================================================================
