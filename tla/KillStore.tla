------------------------------ MODULE KillStore -----------------------------
(***************************************************************************)
(* The SQLite store of kills (storage.ts): the table of kills, which is    *)
(* pruned after thirty days, and the table of running totals, which is     *)
(* not.  recordKill issues three statements that commit one by one; the    *)
(* process may die between two of them, and a statement that throws takes  *)
(* the process down as an unhandled rejection.  The tables survive.        *)
(***************************************************************************)
EXTENDS Integers, FiniteSets

CONSTANTS
    Name,       \* names, by which both tables aggregate
    Keep,       \* how long cleanupOldKills keeps a kill
    Idle,       \* no call of recordKill under way
    MaxNow,     \* bound on time
    MaxKills,   \* bound on calls of recordKill
    MaxCrash    \* bound on crashes

ASSUME StoreAssumption ==
    /\ {Keep, MaxNow, MaxKills, MaxCrash} \subseteq Nat
    /\ Idle \notin [stage : {1, 2}, attacker : Name, victim : Name]

VARIABLES
    now,
    kills,      \* rows of the table kills
    stats,      \* rows of the table player_stats, all zero when missing
    call,       \* the call of recordKill under way, or Idle
    log,        \* history: every kill whose row was ever inserted
    crashes     \* history: process deaths so far

kvars == <<now, kills, stats, call, log, crashes>>

Time == 0 .. MaxNow
Row == [id : 1 .. MaxKills, attacker : Name, victim : Name, at : Time]
Stats == [kills : 0 .. MaxKills, deaths : 0 .. MaxKills]

StoreInit ==
    /\ now = 0
    /\ kills = {}
    /\ stats = [n \in Name |-> [kills |-> 0, deaths |-> 0]]
    /\ call = Idle
    /\ log = {}
    /\ crashes = 0

----------------------------------------------------------------------------
\* recordKill: the row of the kill.
InsertKill(a, v) ==
    /\ call = Idle
    /\ Cardinality(log) < MaxKills
    /\ LET row == [id |-> Cardinality(log) + 1, attacker |-> a, victim |-> v,
                   at |-> now]
       IN  kills' = kills \cup {row} /\ log' = log \cup {row}
    /\ call' = [stage |-> 1, attacker |-> a, victim |-> v]
    /\ UNCHANGED <<now, stats, crashes>>

\* upsertStats: a row is created or its totals are added to.
Upsert(n, k, d) ==
    stats' = [stats EXCEPT ![n].kills = @ + k, ![n].deaths = @ + d]

\* Mutant: the names are swapped.
CreditsVictim ==
    /\ call # Idle
    /\ call.stage = 1
    /\ Upsert(call.victim, 1, 0)
    /\ call' = [call EXCEPT !.stage = 2]
    /\ UNCHANGED <<now, kills, log, crashes>>

\* recordKill: a kill for the attacker.
StatsOfAttacker ==
    /\ call # Idle
    /\ call.stage = 1
    /\ Upsert(call.attacker, 1, 0)
    /\ call' = [call EXCEPT !.stage = 2]
    /\ UNCHANGED <<now, kills, log, crashes>>

\* recordKill: a death for the victim, and the call returns.
StatsOfVictim ==
    /\ call # Idle
    /\ call.stage = 2
    /\ Upsert(call.victim, 0, 1)
    /\ call' = Idle
    /\ UNCHANGED <<now, kills, log, crashes>>

\* Mutant: one time unit too early.
CleanupTooSoon ==
    /\ call = Idle
    /\ kills' = {k \in kills : k.at > now - Keep + 1}
    /\ UNCHANGED <<now, stats, call, log, crashes>>

\* cleanupOldKills, from its hourly timer.
CleanupOldKills ==
    /\ call = Idle
    /\ kills' = {k \in kills : k.at >= now - Keep}
    /\ UNCHANGED <<now, stats, call, log, crashes>>

\* The process dies; a new one opens the same file.
Crash ==
    /\ crashes < MaxCrash
    /\ crashes' = crashes + 1
    /\ call' = Idle
    /\ UNCHANGED <<now, kills, stats, log>>

StoreTick ==
    /\ call = Idle
    /\ now < MaxNow
    /\ now' = now + 1
    /\ UNCHANGED <<kills, stats, call, log, crashes>>

StoreNext ==
    \/ \E a, v \in Name : InsertKill(a, v)
    \/ StatsOfAttacker \/ StatsOfVictim
    \/ CleanupOldKills \/ Crash \/ StoreTick

StoreSpec == StoreInit /\ [][StoreNext]_kvars

----------------------------------------------------------------------------
\* The statement behind the board by time: kills after a time, by attacker.
KillsAfter(since) ==
    [n \in Name |-> Cardinality({k \in kills : k.attacker = n /\ k.at > since})]

\* getLeaderboardByTime, before it is sorted and cut.
BoardByTime(window) == KillsAfter(now - window)

\* getLeaderboard, before it is sorted and cut.
Board == [n \in Name |-> stats[n].kills]

\* Type invariant: no total exceeds the number of calls of recordKill.
StoreTypeOK ==
    /\ now \in Time
    /\ kills \subseteq Row
    /\ stats \in [Name -> Stats]
    /\ call = Idle \/ (call.stage \in {1, 2} /\ {call.attacker, call.victim} \subseteq Name)
    /\ log \subseteq Row
    /\ crashes \in 0 .. MaxCrash

\* For every window up to the thirty days a kill is kept, the board by time
\* counts every kill that was recorded in it: the clean-up takes none of
\* them.
WindowsComplete ==
    \A window \in 0 .. Keep, n \in Name :
       BoardByTime(window)[n] =
         Cardinality({k \in log : k.attacker = n /\ k.at > now - window})

\* Between calls of recordKill no player has more kills or deaths in the
\* running totals than were recorded, and at most one fewer for each time
\* the process died.
DriftBounded ==
    LET recorded(n) == Cardinality({k \in log : k.attacker = n})
        died(n) == Cardinality({k \in log : k.victim = n})
    IN  call = Idle =>
          \A n \in Name :
             /\ Board[n] <= recorded(n)
             /\ recorded(n) <= Board[n] + crashes
             /\ stats[n].deaths <= died(n)
             /\ died(n) <= stats[n].deaths + crashes
=============================================================================
