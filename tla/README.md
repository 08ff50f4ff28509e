# A TLA+ model of SnowBrawlGame

SnowBrawlGame is a multiplayer snowball fight: one Deno process keeps the world in
memory, browsers see it through encrypted WebSocket messages. The server is one
JavaScript event loop, so code between two `await`s runs undisturbed, and everything
hard about it happens *at* the `await`s: each message is decrypted and each
broadcast encrypted by a thread pool, handlers are suspended there, and other
handlers, timers and closes run in between. The modules cut every handler at its
awaits, make each segment one action, and check and prove what survives the
interleavings.

## The system

| Part | State | Operations | Meets | What is hard |
|---|---|---|---|---|
| Combat rules (`game.ts`, `applyEventToCache` in `state.ts`) | `playersCache` (hp, deadUntil), `seenShots`, suspended snowball handlers | hello, close, state (move / revive / frozen), snowball: throw, hit, death; sweeps | every other server part | two shots in flight, a death event after an await, repeated shot ids |
| Bots (`bot.ts`) | `bots`, calls of `updateBots` in progress | timer, revive, walk, shoot, write back | combat, clean-up | overlapping calls, an entry read before an await and written after it |
| Gateway (`ws.ts`, clean-up in `state.ts`) | sockets, hello timers, messages being decrypted, `clients`, ages of entries | upgrade, message, hello, refuse, register, rate limit, close, timeout, clean-up | combat, bots | close, timeout and hello racing each other |
| State distribution (`state.ts`, `ws.ts`) | `pendingStates`, messages being encrypted | events, 20 Hz frames, 1 Hz snapshots, welcome | gateway, client | messages overtake each other, frames are dropped |
| Client (`client_src/network.js`) | connection, attempts, identity, models of players | connect, open, close, retry, reload, receive | state distribution | decryption out of order, two identities in one page |
| Kill store (`storage.ts`) | tables `kills`, `player_stats` | three statements of `recordKill`, clean-up, two boards | combat | death of the process between statements, window edges |
| Login (`auth.ts`) | `pendingStates` of OAuth, callbacks, tokens being signed, cookie | login, callback, replies, sweep, logout, dev login, me | page | a repeated callback, logins given up, a token older than its cookie |
| Client build (`build_prod.ts`, `client_html.ts`) | sources, `client.prod.html`, builds in progress | test, read, obfuscate, write, load | - | edits and builds at the same time, failing service |
| Rate limiter (`state.ts`, `ws.ts`) | window, count, messages being decrypted | receive, serve, refuse, close | gateway | two windows in a row, messages still decrypted after the close |
| State throttle (`state.ts`, `network.js`) | last sent, last accepted | send, accept, drop | client | jitter against two clocks that allow the same rate |
| Own health (`network.js`, `utils.js`) | hp, dead, overlay of the page | hit, death, respawn, snapshot, welcome | combat | messages out of order, a connection lost while dead |
| Snowballs (`snowball.js`) | objects, list, registry by shot | throw, event, frame, timer | combat | one shot shown twice, timers of balls that ended |
| Chat (`player.js`, `utils.js`) | bubble, log, timers | say, event, timers | - | timers of what has been replaced |
| Controls (`init.js`) | screen, login check, focus, keys, pointer lock | replies, keys, mouse, focus, lock changes | client | answers of the browser that come late or never |
| Scene (`environment.js`, `config.ts`) | seed, ground, loads, obstacles | welcome, build, load, scatter | client | restarts, reconnections, late loads |
| Names (`auth.ts`, `utils.ts`, `utils.js`) | a name on its way | token, hello, label, colours | login | bytes against characters, signed shifts |

Correctness, part by part: hp and deaths follow the rules of one atomic game; every
connected player's entry is what the event log says; online players and bots are in
the table and players who left are not; every socket is registered or closed; a page
comes to show the table; kills are counted once and kept for the time they can be
asked for; a login state is redeemed once; the page served is the one of the sources;
a client within the limit is not closed; a page shows its player dead when it is and
each ball once; pages of one server share one landscape.
`PROJECT.json` lists the hazards, each at its line and with the properties that cover
it.

## Modules

`World` - the player table reduced to hp and deadUntil, and what each event does to it.

`Combat` (extends `World`) - the handlers of `game.ts` with joins, leaves and
clean-up. `flying` and `dying` are the continuations of `serverHandleSnowball` after
its first and second await. `replay` (the table obtained from the event log alone)
and `hits` are history variables. `MaxLate` messages of a socket may still be handled
after its close. Which target a trajectory meets is nondeterministic, so every
geometry is included. Of a name only its being empty is kept: `rename` stores the raw
name in the client (`unnamed`) and the clamped one in the table, and the next state
message copies the client's into the table (`nameless`), where a kill looks it up.

`Arena` - the abstract game, with no awaits, events or tasks: a lethal hit, the death
it causes and its record are one step. `Combat!ImplementsArena` is the refinement,
restricted to connected players (`Body`, `Toll`).

`Bots` (extends `Combat`) - `loop` holds the calls of `updateBots` in progress,
`running` the one that has the event loop. `BotsImplementArena` is the refinement of
the same `Arena` with bots in the game.

`Gateway` - connections and the ages of table entries. Ages and timers count units
and saturate, so behaviours are unbounded. Time, timers and other tasks wait while a
hello handler is at the await of `serverOnHello`, which does not leave the
microtask queue (`TurnOver`).

`StateStream` - what the server sends about the table; a pose is the number of the
state message that set it. `ClientView` (extends `StateStream`) composes it with one
page; its operators `removePlayer`, `createLocalPlayer`, `applySnapshot`, ... take a
page and return the page the JavaScript function of that name leaves.

`KillStore`, `ClientBuild`, `Login` - the parts around the game.

`RateLimit` - `rateLimitOk` with what `handleWs` does on its verdict. Times are ages that
saturate, so runs are unbounded; `handled` and `served` keep the ages of the latest
messages, as many as the properties look back. `StatePace` - `maybeSendLocalState`
against `stateFreqOk`; messages take up to `Delay` and overtake each other.

`Health` - the server's side of one player (`Hit`, `StateArrives`, `Snapshot`, ...) and
what its page makes of the messages (`Applied`, `OverlayAfter`). There is no clock: of
the stamps only the order counts, and `Frozen` says that the news of a death have not
all been applied, that is, messages take less than the respawn time.

`Balls` - a shot has at most two `Snowball` objects on a page, the thrower's and that of
the event. `Chat` - bubble and log with their timers; the log
is the set of the numbers of its lines. `Controls` - `checkAuthStatus`,
the screens, and the handlers of keys, mouse, focus and pointer lock; the browser
grants and takes the lock and hides keys of a window in the background.

`Scene` - which seed a page builds its landscape from, over restarts of the server; the
models it loads become obstacles when they arrive. `Scatter` - the loop that draws
places for them, on a grid, with any set of steep spots.

`Names` - a name as a sequence of code units, through `ThroughToken` (UTF-8 and `atob`),
`clampName` and `fixUTF8`; `hashString` in two halves of 16 bits, as TLC's integers
have 32 bits. The decoding and encoding of the platform is external. Loops over a string
are recursive functions of the position (`BytesUpTo`, `DecodedFrom`, `SpacedUpTo`,
`HashUpTo`), which the proofs can reason about.

`Backend` and `Page` - sums: each behaviour is one of a single part, chosen by `part` in
`Init`, and the others stand still. Their parts share no variable and call none of
each other's operations in the code, so that every interleaving of them projects to
behaviours the sum has; what it saves is the product of independent state spaces. The
parts that do interact are composed for real: `Bots` with `Combat`, `ClientView` with
`StateStream`, server and page in `Health` and `StatePace`.

`*MC` - instances for TLC (symmetry sets, orders). `*Proofs` - the theorems: `CombatProofs`
(combat and bots), `ClientViewProofs`, `GatewayProofs`, `BackendProofs` (kill store, client
build, rate limiter), `SessionProofs` (login, state throttle, health), `ScreenProofs` (scene,
scatter, snowballs, chat, controls), `NamesProofs` and `PageProofs`.
Definitions named in comments as "Mutant" are faulty variants of the definition they
precede; no specification uses them. They document what each property notices.

## Runs

All passing runs are exhaustive for their bounds.

| Run | States | Shows |
|---|---|---|
| `Combat` | 283 k | `CacheIsReplay`, `DeathEventIsCurrent`, `KillSpacing`, `CreditUnlessGone`, `OneHitPerShot`, `DeadStayDown`, and that Combat implements Arena |
| `Bots` | 220 k | the same agreement and refinement for the human, with a bot and two overlapping calls (entries of bots are hidden from `Arena`: what overlapping calls do to a bot itself is in the runs `BotsOverlap` and `BotsStale`); every dead bot comes back |
| `Gateway` | 20 k | clients and bots are never cleaned up, no socket is forgotten or stays silent, the timeout spares greeted clients, entries of players who left go for good |
| `ClientView` | 147 k | a page beside another player who joins, moves, dies, respawns and leaves, or one that comes back under another id: it converges to the table, and on the first connection after a (re)load never duplicates its own player |
| `Backend` | 1.1 M | kill store: boards by time are complete, totals drift by at most one per crash; build: a page taken for current is current unless an edit came during a build; rate limiter: at most two limits' worth in any window, and nobody within the limit is refused |
| `Page` | 227 k | see below |

`Page`, part by part:

- Login: one exchange per state (`OneExchange`); a cookie the browser still sends is
  honoured up to the time signing took (`CookieHonoured`).
- StatePace: never two drops in a row while jitter is below five quarters of the
  interval (`NoTwoDrops`); the last pose arrives (`PoseArrives`).
- Health: `DeathShown` has three parts. `NoFalseDeath`: no late message kills the player
  again. `NoMissedDeath`: a death that the page was there to watch is shown, or about to
  be, until the player is revived. It leaves out what the page does miss: a death
  before it has its local model, or while an older respawn is still to be applied.
  `OverlayTrue`: the overlay is that of a dead player, with one exception it names: a
  connection lost while dead leaves the overlay over the next, living player. The page
  comes to show its player alive and with the hp of the table (`HpSettles`).
- Balls: a ball flies exactly while registered, and no shot flies twice at once
  (`FliesRegistered`).
- Chat: a bubble stays its time, and the log is the latest lines (`ChatTimely`).
- Controls: keys and pointer lock are let go (`InputLetGo`), with the exceptions the
  property names: keys let go in the background, a lock granted into the chat input.
- Scene, Scatter: pages of one run of the server stand on the same ground and have each
  obstacle once (`OneLandscape`); models stand apart (`PlacedApart`).
- Names (`NameShown`): tidy names whose bytes survive `clampName` are shown as they are;
  guests' too unless they contain letters `fixUTF8` looks for; colours are in the palette
  unless the hash has its upper bit set.
- All: `PageTypeOK`. It includes that no login state outlives the sweep after its expiry,
  that a ball that flies is on the list with its timer running, and that the guest form
  appears beside OAuth only when the configuration could not be fetched.

Six runs end in a counterexample, each to a sentence of the repository (quoted under
"findings" in `PROJECT.json`):

- `BotsOverlap` - `lastShotAt` is set after the awaits, so overlapping calls shoot twice.
- `BotsStale` - the entry written back after `botShoot` undoes a death that came meanwhile.
- `GatewayGhost` - close before the hello is decrypted: a client that is registered for ever.
- `ClientRejoin` - after a reconnection `localPlayerId` is stale and the own join makes a
  second model.
- `ClientRefused` - an error decrypted after the close comes too late to stop the retry.
- `Names` - an account called "à" is shown as "Ã": of its bytes in UTF-8, C3 A0, the second
  is a blank to `clampName`, which trims it.

The hazard no property covers is listed in `PROJECT.json` with the reason. Five hazards
do occur in the code, and the property that covers each names it as an exception and
excludes every other way there: the overlay carried over a reconnection (`carried` in
`OverlayTrue`), colours of hashes with the upper bit set (`NameShown`), keys let go in the
background and locks granted late (`missed`, `late` in `InputLetGo`), landscapes kept over a
restart (`kept` in `OneLandscape`). `PROJECT.json` notes this at each of them.

### Bounds

Combat: two players and two shot ids that expire after 2 units. Both ids can be in
flight at one victim, one after it was used before, so that either would be the lethal
hit; and they can be used again, before and after they expire. Hp 3 with damage 2 needs
two hits and exercises the floor at 0; the clock (3) covers a death, the respawn time (2)
and the end of a second life;
`MaxAwait` = 1 < `RespawnMs`; one client at a time may have an empty name
(`MaxUnnamed` = 1), so a nameless player meets a named one. Bots: nobody renames; one human, one bot, two calls and clock 4, so that a
shot interval (1) can elapse during an await; shot ids expire after 2, which leaves the
human shots to kill the bot a second time. Gateway: one socket; `Taken` stands for the
names of all other clients, so a hello can be refused. Each timer has at least one
unit, and `IdleMs` = 4 lets an entry be below, at and beyond the limit; `Stall` = 2 and
`Lag` = 2 bound how late the 50 ms bot timer may be, and the assumption
`RespawnMs + Stall <= IdleMs` is the 3 s against 5 s of the configuration with room
for the delay. ClientView: one message being encrypted and two being decrypted, which is enough for
any pair to overtake. Of two ids the first is the page's and the second another
player's, or the page's own after a reconnection (`last`, chosen at the start). The
second has two accepted state messages (`Mover`, `MaxPose` = 2), so that a move accepted
between the other player's respawn and its continuation is overwritten by the older
pose in `pendingStates`, and states of a player who has left come late. `ClientRejoin` and
`ClientRefused` give each id one.

Backend: three kills, two crashes, clock twice the retention; two files, two processes,
two edits, two attempts (the code has five); a limit of two messages in a window of
two units, three being decrypted, so the limit can be passed by messages already
received. Page, by part. Login: two states, a token life of 3 and signing up to 1, so a
token can expire before its cookie. StatePace: interval 4, so three quarters is a
whole number, and delay 5, the largest for which `NoTwoDrops` claims anything. Health:
two connections and four hits at two hp, so a player can die, come back and die
again while the respawn and snapshots are on their way, or die, lose the connection
and return. Balls: two shots with two objects
each, a timer of two units longer than the cooldown. Chat: four lines in a log of two,
so lines leave both ways. Controls: one key that stays down and one that a jump takes
back. Scene: two pages, two models, one restart. Scatter: a five by five grid, four
models, two attempts, so that room runs out. Names: up to three of a blank, an ASCII
letter, two letters of two bytes (one of which ends in the byte A0) and one of three
bytes; `MAX_NAME` 7 is long enough for "Player" and cuts three letters of three bytes.

### Fairness

Timers fire and promises that are settled are continued: the event loop serves its
queues in turn, hence weak or strong fairness of each timer and continuation (strong
where another handler may disable the action in between). In `ClientView` the loops of
`startStateTickOnce` and `startStateSyncOnce` run, encryption and decryption end, and
a page is not too slow for *every* snapshot: `broadcastDroppable` only skips a client
whose buffer is over the limit. In `Page`, frames
come, time passes and messages arrive (StatePace); messages are decrypted, the server's
snapshot timer and the page's pings and states go on while connected, it connects again
after a loss, the last connection of a run holding (Health). The other parts of `Page`
have no liveness property and no fairness.
No fairness is assumed of users, of the network's
closes, or of frames other than snapshots reaching the page.

`ClientView`, `ClientRejoin` and `ClientRefused` switch the deadlock check off: the
page's connections are bounded by its identities, and with no client left the
server's loops idle. `Page` and `Names` do too: a name that has reached its label, the
end of the scatter loop and a chat with no lines left are ends. Everywhere else it is on.

## Proofs

Every safety property, action property and refinement of the passing runs is also a
theorem, for every value of the constants: any numbers of players, bots, calls, sockets,
messages, pages and shots, any hp, limits and times, names of any length. The runs show
that the interesting cases occur; the theorems, that no larger instance behaves otherwise.

### The game (`CombatProofs`)

| Theorem | States |
|---|---|
| `TypeCorrect`, `BotsTypes` | types, without and with bots |
| `CacheAgreesWithEvents`, `DeathEventsAreCurrent` | the table is what the events say, and a death event still tells the truth when it is applied |
| `BotsKeepAgreement` | both, with bots and overlapping calls of `updateBots` |
| `ShotsHitOnce`, `KillsAreSpaced`, `KillsAreCredited` | one hit per shot, one kill per life, a named attacker unless that player has left or has emptied its name when the kill is recorded |
| `TheDeadStayDown` | action property: nobody revives early |
| `BotsKeepRecords`, `TheDeadStayDownWithBots` | the two rows above, with bots and overlapping calls |
| `LivesAreSpaced` | a connected player dies at most once per respawn time, by players and bots together |
| `CombatImplementsArena`, `BotsImplementTheArena` | the interleaved handlers refine the atomic game |

The argument. `CacheIsReplay` and `DeathEventIsCurrent` are not inductive alone. They are
proved together with "at most one death is pending for a player", on top of `IdsKnown`
(only ids handed out occur anywhere, so a new player has no past) and `DeathsAhead` (a
pending death is applied before its victim may revive): a target is not frozen, a pending
victim is, hence no second death starts while one is pending, and the death event
writes what is already there. The three properties take the set `D` of pending deaths as
a parameter (`AgreeOn(D)`). For `Combat` it is `dying`; with bots it is
`dying \cup BotsDying`, where a call of `updateBots` that waits after a lethal hit holds a
death as well. The lemmas about hits and deaths (`HitAgrees`, `DeathAgrees`) are stated for
any `D` and serve both. `BotsInv` adds what the calls hold at their awaits (`GoodCall`): the
bot whose turn it is, a respawn time that lies ahead, a victim with an id.

`KillSpacing` needs `DeathsBehind` (recorded deaths lie before the present life, or are
the present death). `OneHitPerShot` needs `ThrowsSpaced`, which extends it to throws still
in flight and ties them to `seenShots`. What these steps need of the agreement is one
predicate, `Settled`, which `Agreement` and `BotsInv` both imply, so that the handlers are
treated once (`ThrowStep`, `CreditStep`, `DownStep`) and a call of `updateBots` only has to
be shown to leave the records and the entries it does not hit alone (`BotsTouch`).
Bots' kills are not recorded, so `KillSpacing` says nothing of them; `LivesAreSpaced` does.
Its invariant `LifeInv` (a death lies behind, or is the present one) is stated of what `Arena`
sees, and kept by each kind of step that shows. Of bots, the run `Bots` checks the
agreement and the refinement; `BotsKeepRecords`, `TheDeadStayDownWithBots` and
`LivesAreSpaced` are proved only.

The refinements rest on one lemma, `ShownStep`: every step that is hidden, a tick, an
entry, an exit, one strike or one revival, as `Body` and `Toll` show it, is a step of `Arena`.
Each handler is shown to be one of these; `Agreement` makes `Death` hidden and `Hit` a strike.
With bots, a bot's hit on a connected player is a strike, and all else a bot does,
the write-back of a stale entry included, is hidden (`BotHides`, `BotStrikes`).

### Connections (`GatewayProofs`)

`GatewayTypeCorrect`, `HelloStopsTheTimer` (action property: the timeout spares who has
greeted), `NoSocketIsForgotten`, `OnlineAreListed`. The second needs `GreetedDisarmed` (the
timer of a greeted socket is off), the last `BotsYoung`: a bot's entry is no older than its
last update and its time on the ground explain, which is less than the clean-up waits.

### The page and its stream (`ClientViewProofs`)

`ViewTypes`, `NoRivalAtFirstHolds`. `ViewInv` has the reason why a page on its first
connection does not draw its own player as somebody else. Its id is new (`LinkInv`), so
nothing about it is on the way when it connects; until it has its local player it sends
no state, so no frame lists it (`Quiet`); and once it has one, everything under its id goes
to that model (`Alone`). The operators of the page (`applySnapshot`, `removePlayer`, ...)
each have a lemma saying what they keep.

### Services (`BackendProofs`)

- Kill store: `WindowsAreComplete`, `DriftIsBounded`. `TotalsTrail` counts what a suspended
  `recordKill` still owes: with it, the totals miss at most one row for each crash.
  `YoungKept` says the clean-up only takes rows older than any window.
- Client build: `PageIsFresh`. `ReadsCurrent` (without a race, what a build has read is what
  the sources say) makes a written page current, `TimesPast` that an edit makes it stale.
- Rate limiter: `RateTypes`, `ServedBoundHolds`, `FairRefusalHolds` (action property). All
  but the messages served in this window are older than it (`ServedBefore`), all but those
  and one more limit's worth are older by more than a window (`ServedEarlier`), and those
  of this window were handled since it began (`HandledSince`). Two limits then span more
  than a window.
- `BackendTypes`, `BackendKeepsItsPromises`: the same of `Backend`, whose behaviours project
  to those of its parts.

### Login, pace and health (`SessionProofs`)

- Login: `LoginTypes`, `OneExchangeHolds`, `CookieHonouredHolds`. `SweptInTime` (a state's age
  and the time to the next sweep add up to at most `Ttl + SweepMs`) bounds ages, `Unspent`
  (a pending state has paid for nothing) gives one exchange, and `TokenFresh` (a token
  being signed is at most `MaxSign` old, and a cookie's token expires at most `MaxSign`
  before the cookie) gives the cookie.
- StatePace: `NeverTwoDrops`, for any interval. States were sent at least an interval apart,
  in whatever order they arrive (`Paced`); while the throttle is shut there is an age for
  the state that shut it and one for a state dropped since (`ShutBy`); a second drop would
  be a third such age within five quarters plus three quarters of an interval.
- Health: `DeathIsShown`. `KillsAreTrue`: a message that kills is on its way only while the
  server holds the player for dead, which gives `NoFalseDeath`. For `NoMissedDeath`,
  `WatchInv` adds that after a watched death the page keeps its model under the present id
  and no respawn of it is on the way, so nothing it applies (`AppliedStays`) can raise it.

### On the screen (`ScreenProofs`)

- Scene, Scatter: `OneLandscapeHolds` from two theorems. `SameGroundHolds` needs
  `GreetingsCurrent` (a welcome on its way to a page that is not `kept` bears the present
  seed); `ObstaclesOnceHolds` needs `NothingYet` (a page without ground has no loads and no
  obstacles). `PlacedApartHolds` is inductive once the placed spots are known to be spots.
- Balls: `BallTypes`, `FliesRegisteredHolds`. `FliesRegistered` alone does not survive a throw;
  with `ThrownRegistered` (a shot nobody has thrown is not registered) it does, as
  `destroy` unregisters only while its ball is active.
- Chat: `ChatIsTimely`. Lines are as old as those after them or older (`LinesAge`), so the
  expired ones are the first `n` (`Expired`), and what the timers and the length limit
  have left is the latest lines.
- Controls: `InputIsLetGo`, with the order of the login check (`CheckOrder`).

### Names (`NamesProofs`)

`NameShownHolds`, for names of any length in characters of the basic plane, and
`TokenUndone`: `fixUTF8(Utf8(s)) = s`, so that the label undoes what `verifyJWT` does to a
name whose bytes reach it. The invariant `NamesInv` only says what a name reads at each place
on its way; the work is in the operators.

The library's induction theorems take an operator, which the provers cannot instantiate.
Induction is therefore proved once more for sets, by a least counterexample under the
well-founded order of the naturals (`AllNaturals`, and `UpTo` for a bounded range). A
recursive function comes with a run of its loop (`Recursion`): for steps `d[i]` from values to
values there is a function that follows them, which justifies the definitions of
`BytesUpTo`, `SpacedUpTo` and `HashUpTo`. The decoder looks only ahead (`DecodedAhead`), and
its function is built up from the end (`DecodedIs`).

The encoding: `BytesUpTo` grows with the letters and keeps what it has (`BytesGrow`,
`BytesStay`), so the bytes of letter `i` are found behind those of the letters before it.
`DecodeOne` takes the three lengths apart (`OfOneByte`, `OfTwoBytes`, `OfThreeBytes`, where the
digits to base 64 give the letter back) and `DecodedUtf8` goes through the letters from
the last to the first. A name without the bytes `fixUTF8` looks for is its own encoding
(`PlainUtf8`) and is left alone (`NothingToFix`). Guests: `clampName` returns no letters but
those of the name, spaces and those of "Player" (`ClampLetters`), so `fixUTF8` finds nothing
to look at unless the guest typed it.
Colours: both halves of the hash stay below 2^16 (`HashHalves`), hence `Palette`.

### The page as a whole (`PageProofs`)

`PageTypes`, `PageKeepsItsPromises`: `PageProjects` shows that a behaviour of `Page` is one
of each part, hence the theorems of `SessionProofs`, `ScreenProofs` and `NamesProofs` hold of
the specification that the run `Page` checks.

### Assumptions

They type the constants and keep special values (`Absent`, `Idle`, `None`) apart from the
others. These say more:

- `MaxAwait < RespawnMs` (`CombatAssumption`): a broadcast suspends a handler for less than
  the respawn time of three seconds. The code does not enforce it; without it a death
  event could be applied to a life begun after it.
- `RespawnMs + Stall <= IdleMs` and `Lag + Stall <= IdleMs` (`GatewayAssumption`): a delayed
  bot timer still comes before the clean-up of idle entries. `Conn \cap Bot = {}` there: the ids of bots are not
  ids of connections (`bot.ts` prefixes them).
- `MaxSign <= JwtLife` (`LoginAssumption`): signing takes less than the life of a token.
- `Own \in Seq(Id)`, without repetition (`ViewAssumption`): the ids the page is given, one for
  each connection it makes.
- `Letter \subseteq 1 .. Surrogate - 1` (`NamesAssumption`): names are characters of the basic
  plane below the surrogates.

### Only model-checked

Liveness: `BotsComeBack`, `GhostsGo`, `NoSilentSocket`, `Converges`, `PoseArrives` and
`HpSettles`. They rest on fairness, that is, on `ENABLED`, which the prover does not
reason about.

## Not modelled

Floating-point geometry (trajectories, collision, terrain, where bots walk, physics of
the players): its outcome is left open. Cryptography: only its asynchrony is kept.
Meshes, camera, music, layout and the drawing of the leaderboards: computed from state
and never read back. HTTP routing and static files: no state. The event log (`events`,
`pruneEvents`): written, and read only for its length by `/health`. The ping loop's round
trip: only displayed. The asset inspection script. What the runtime does with a message
sent on a closed socket: outside the sources. The race of two hellos with one name
(`ws.ts:56`): `Gateway` has the check and its await, but with `ALLOW_DUPLICATE_NAMES` on, as
configured, equal names are legal. That the label `dev` after a failed build need not
mean the present sources: `ClientBuild` has the failure, no property is spent on it.
