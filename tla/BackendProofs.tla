---------------------------- MODULE BackendProofs ---------------------------
(***************************************************************************)
(* Proofs about the parts of Backend, for every value of their constants   *)
(* that satisfies the assumptions: the totals and windows of the store of  *)
(* kills, the page that is served, and the two promises of rateLimitOk.    *)
(***************************************************************************)
EXTENDS Backend, FiniteSetTheorems, WellFoundedInduction, TLAPS

----------------------------------------------------------------------------
(* The store of kills.                                                     *)

CallRecord == [stage : {1, 2}, attacker : Name, victim : Name]

\* The rows ever inserted with a name as attacker, and as victim.
Recorded(n) == {k \in log : k.attacker = n}
Died(n) == {k \in log : k.victim = n}

\* What the call under way has still to add to the totals of a name.
KillsOwed(n) == IF call # Idle /\ call.stage = 1 /\ call.attacker = n THEN 1 ELSE 0
DeathsOwed(n) == IF call # Idle /\ call.victim = n THEN 1 ELSE 0

StoreBasics ==
    /\ now \in Time
    /\ kills \subseteq Row
    /\ stats \in [Name -> [kills : Nat, deaths : Nat]]
    /\ call \in CallRecord \cup {Idle}
    /\ log \subseteq Row
    /\ crashes \in 0 .. MaxCrash

\* Row ids count the rows, so that a new row is none of the old ones.
LogNumbered ==
    /\ IsFiniteSet(log)
    /\ Cardinality(log) <= MaxKills
    /\ \A k \in log : k.id <= Cardinality(log)

\* The clean-up has taken no row that a window may still ask for.
YoungKept ==
    /\ kills \subseteq log
    /\ \A k \in log : k.at >= now - Keep => k \in kills

\* With what is owed, the totals miss at most one row for each crash.
TotalsTrail ==
    \A n \in Name :
        /\ stats[n].kills + KillsOwed(n) <= Cardinality(Recorded(n))
        /\ Cardinality(Recorded(n)) <= stats[n].kills + KillsOwed(n) + crashes
        /\ stats[n].deaths + DeathsOwed(n) <= Cardinality(Died(n))
        /\ Cardinality(Died(n)) <= stats[n].deaths + DeathsOwed(n) + crashes

StoreInv == StoreBasics /\ LogNumbered /\ YoungKept /\ TotalsTrail

(* The rows of a name are some of the finitely many rows of the log.       *)
LEMMA RowsOfName ==
    ASSUME LogNumbered, NEW n \in Name
    PROVE  /\ IsFiniteSet(Recorded(n)) /\ IsFiniteSet(Died(n))
           /\ Cardinality(Recorded(n)) \in Nat /\ Cardinality(Died(n)) \in Nat
           /\ Cardinality(log) \in Nat
           /\ Cardinality(Recorded(n)) <= Cardinality(log)
           /\ Cardinality(Died(n)) <= Cardinality(log)
<1>1. Recorded(n) \subseteq log /\ Died(n) \subseteq log
  BY Zenon DEF Recorded, Died
<1>2. IsFiniteSet(log)
  BY Zenon DEF LogNumbered
<1> QED
  BY <1>1, <1>2, FS_Subset, FS_CardinalityType, Zenon

(* A row that recordKill inserts is new, and adds one to the rows of its   *)
(* attacker and of its victim and none to those of the other names.        *)
LEMMA InsertedRow ==
    ASSUME StoreBasics, LogNumbered, NEW a \in Name, NEW v \in Name, InsertKill(a, v),
           NEW n \in Name
    PROVE  /\ LogNumbered'
           /\ Cardinality(Recorded(n)') =
                 Cardinality(Recorded(n)) + (IF n = a THEN 1 ELSE 0)
           /\ Cardinality(Died(n)') =
                 Cardinality(Died(n)) + (IF n = v THEN 1 ELSE 0)
<1> DEFINE row == [id |-> Cardinality(log) + 1, attacker |-> a, victim |-> v, at |-> now]
<1>1. log' = log \cup {row} /\ Cardinality(log) < MaxKills
  BY Zenon DEF InsertKill
<1>2. row.id = Cardinality(log) + 1 /\ row.attacker = a /\ row.victim = v
  BY Zenon
<1>3. Cardinality(log) \in Nat /\ IsFiniteSet(log)
  BY FS_CardinalityType, Zenon DEF LogNumbered
<1> HIDE DEF row
<1>4. row \notin log
  BY <1>2, <1>3 DEF LogNumbered
<1>5. IsFiniteSet(log') /\ Cardinality(log') = Cardinality(log) + 1
  BY <1>1, <1>3, <1>4, FS_AddElement, Zenon
<1>6. LogNumbered'
  <2>1. Cardinality(log') <= MaxKills
    BY <1>1, <1>3, <1>5, StoreAssumption
  <2>2. \A k \in log : k.id \in Nat
    BY StoreAssumption DEF StoreBasics, Row
  <2>3. \A k \in log' : k.id <= Cardinality(log')
    BY <1>1, <1>2, <1>3, <1>5, <2>2 DEF LogNumbered
  <2> QED
    BY <1>5, <2>1, <2>3, Zenon DEF LogNumbered
<1>7. /\ row \notin Recorded(n) /\ row \notin Died(n)
      /\ Recorded(n)' = IF n = a THEN Recorded(n) \cup {row} ELSE Recorded(n)
      /\ Died(n)' = IF n = v THEN Died(n) \cup {row} ELSE Died(n)
  BY <1>1, <1>2, <1>4, Zenon DEF Recorded, Died
<1>8. IsFiniteSet(Recorded(n)) /\ IsFiniteSet(Died(n))
  BY RowsOfName, Zenon
<1>9. /\ Cardinality(Recorded(n) \cup {row}) = Cardinality(Recorded(n)) + 1
      /\ Cardinality(Died(n) \cup {row}) = Cardinality(Died(n)) + 1
  BY <1>7, <1>8, FS_AddElement, Zenon
<1>10. Cardinality(Recorded(n)) \in Nat /\ Cardinality(Died(n)) \in Nat
  BY RowsOfName, Zenon
<1> QED
  BY <1>6, <1>7, <1>9, <1>10

(* What the statements of recordKill add to the totals.                    *)
LEMMA UpsertEntry ==
    ASSUME StoreBasics, NEW m \in Name, NEW k \in Nat, NEW d \in Nat, Upsert(m, k, d)
    PROVE  /\ stats' \in [Name -> [kills : Nat, deaths : Nat]]
           /\ \A n \in Name : n # m => stats'[n] = stats[n]
           /\ stats'[m].kills = stats[m].kills + k
           /\ stats'[m].deaths = stats[m].deaths + d
<1> DEFINE Totals == [kills : Nat, deaths : Nat]
           mid == [stats EXCEPT ![m].kills = stats[m].kills + k]
<1>1. stats \in [Name -> Totals]
  BY Zenon DEF StoreBasics
<1>2. stats' = [mid EXCEPT ![m].deaths = stats[m].deaths + d]
  BY Zenon DEF Upsert
<1>3. /\ mid \in [Name -> Totals]
      /\ \A n \in Name : n # m => mid[n] = stats[n]
      /\ mid[m].kills = stats[m].kills + k /\ mid[m].deaths = stats[m].deaths
  BY <1>1
<1> HIDE DEF mid
<1> QED
  BY <1>2, <1>3

(* Every statement, clean-up and crash keeps the invariant of the store.   *)
LEMMA StoreStep == StoreInv /\ [StoreNext]_kvars => StoreInv'
<1> SUFFICES ASSUME StoreInv, [StoreNext]_kvars
             PROVE  StoreInv'
  BY Zenon
<1> USE StoreAssumption
<1>1. ASSUME NEW a \in Name, NEW v \in Name, InsertKill(a, v)
      PROVE  StoreInv'
  <2>1. StoreBasics' /\ YoungKept'
    <3>1. Cardinality(log) \in Nat
      BY FS_CardinalityType, Zenon DEF StoreInv, LogNumbered
    <3> QED
      BY <1>1, <3>1 DEF InsertKill, StoreInv, StoreBasics, YoungKept,
         CallRecord, Row, Time
  <2>2. LogNumbered'
    BY <1>1, InsertedRow, Zenon DEF StoreInv
  <2>3. ASSUME NEW n \in Name
        PROVE  /\ stats'[n].kills + KillsOwed(n)' <= Cardinality(Recorded(n)')
               /\ Cardinality(Recorded(n)') <= stats'[n].kills + KillsOwed(n)' + crashes'
               /\ stats'[n].deaths + DeathsOwed(n)' <= Cardinality(Died(n)')
               /\ Cardinality(Died(n)') <= stats'[n].deaths + DeathsOwed(n)' + crashes'
    <3>1. /\ Cardinality(Recorded(n)') = Cardinality(Recorded(n)) + (IF n = a THEN 1 ELSE 0)
          /\ Cardinality(Died(n)') = Cardinality(Died(n)) + (IF n = v THEN 1 ELSE 0)
      BY <1>1, InsertedRow DEF StoreInv
    <3>2. /\ UNCHANGED <<stats, crashes>>
          /\ KillsOwed(n) = 0 /\ DeathsOwed(n) = 0
      BY <1>1, Zenon DEF InsertKill, KillsOwed, DeathsOwed
    <3>3. /\ KillsOwed(n)' = (IF n = a THEN 1 ELSE 0)
          /\ DeathsOwed(n)' = (IF n = v THEN 1 ELSE 0)
      <4>1. call' = [stage |-> 1, attacker |-> a, victim |-> v] /\ call' # Idle
        BY <1>1 DEF InsertKill
      <4> QED
        BY <4>1, Zenon DEF KillsOwed, DeathsOwed
    <3>4. Cardinality(Recorded(n)) \in Nat /\ Cardinality(Died(n)) \in Nat
      BY RowsOfName, Zenon DEF StoreInv
    <3>5. stats[n].kills \in Nat /\ stats[n].deaths \in Nat /\ crashes \in Nat
      BY DEF StoreInv, StoreBasics
    <3>6. /\ stats[n].kills <= Cardinality(Recorded(n))
          /\ Cardinality(Recorded(n)) <= stats[n].kills + crashes
          /\ stats[n].deaths <= Cardinality(Died(n))
          /\ Cardinality(Died(n)) <= stats[n].deaths + crashes
      BY <3>2, <3>5 DEF StoreInv, TotalsTrail
    <3> QED
      BY <3>1, <3>2, <3>3, <3>4, <3>5, <3>6
  <2>4. TotalsTrail'
    BY <2>3, Zenon DEF TotalsTrail
  <2> QED
    BY <2>1, <2>2, <2>4, Zenon DEF StoreInv
<1>2. CASE StatsOfAttacker
  <2>1. /\ call \in CallRecord /\ call.stage = 1
        /\ call' = [call EXCEPT !.stage = 2] /\ call' \in CallRecord
        /\ UNCHANGED <<now, kills, log, crashes>>
    BY <1>2, Zenon DEF StatsOfAttacker, StoreInv, StoreBasics, CallRecord
  <2>2. /\ stats' \in [Name -> [kills : Nat, deaths : Nat]]
        /\ \A n \in Name : n # call.attacker => stats'[n] = stats[n]
        /\ stats'[call.attacker].kills = stats[call.attacker].kills + 1
        /\ stats'[call.attacker].deaths = stats[call.attacker].deaths + 0
    <3>1. call.attacker \in Name /\ Upsert(call.attacker, 1, 0) /\ StoreBasics
      BY <1>2, <2>1, Zenon DEF StatsOfAttacker, CallRecord, StoreInv
    <3> QED
      BY <3>1, UpsertEntry
  <2>3. StoreBasics' /\ LogNumbered' /\ YoungKept'
    BY <2>1, <2>2, Zenon DEF StoreInv, StoreBasics, LogNumbered, YoungKept
  <2>4. ASSUME NEW n \in Name
        PROVE  /\ stats'[n].kills + KillsOwed(n)' = stats[n].kills + KillsOwed(n)
               /\ stats'[n].deaths + DeathsOwed(n)' = stats[n].deaths + DeathsOwed(n)
    <3>1. stats[n].kills \in Nat /\ stats[n].deaths \in Nat
      BY Zenon DEF StoreInv, StoreBasics
    <3> QED
      BY <2>1, <2>2, <3>1 DEF CallRecord, KillsOwed, DeathsOwed
  <2>5. TotalsTrail'
    BY <2>1, <2>4, Zenon DEF StoreInv, TotalsTrail, Recorded, Died
  <2> QED
    BY <2>3, <2>5, Zenon DEF StoreInv
<1>3. CASE StatsOfVictim
  <2>1. /\ call \in CallRecord /\ call.stage = 2 /\ call' = Idle
        /\ UNCHANGED <<now, kills, log, crashes>>
    BY <1>3, Zenon DEF StatsOfVictim, StoreInv, StoreBasics, CallRecord
  <2>2. /\ stats' \in [Name -> [kills : Nat, deaths : Nat]]
        /\ \A n \in Name : n # call.victim => stats'[n] = stats[n]
        /\ stats'[call.victim].kills = stats[call.victim].kills + 0
        /\ stats'[call.victim].deaths = stats[call.victim].deaths + 1
    <3>1. call.victim \in Name /\ Upsert(call.victim, 0, 1) /\ StoreBasics
      BY <1>3, <2>1, Zenon DEF StatsOfVictim, CallRecord, StoreInv
    <3> QED
      BY <3>1, UpsertEntry
  <2>3. StoreBasics' /\ LogNumbered' /\ YoungKept'
    BY <2>1, <2>2, Zenon DEF StoreInv, StoreBasics, LogNumbered, YoungKept
  <2>4. ASSUME NEW n \in Name
        PROVE  /\ stats'[n].kills + KillsOwed(n)' = stats[n].kills + KillsOwed(n)
               /\ stats'[n].deaths + DeathsOwed(n)' = stats[n].deaths + DeathsOwed(n)
    <3>1. stats[n].kills \in Nat /\ stats[n].deaths \in Nat
      BY Zenon DEF StoreInv, StoreBasics
    <3> QED
      BY <2>1, <2>2, <3>1 DEF CallRecord, KillsOwed, DeathsOwed
  <2>5. TotalsTrail'
    BY <2>1, <2>4, Zenon DEF StoreInv, TotalsTrail, Recorded, Died
  <2> QED
    BY <2>3, <2>5, Zenon DEF StoreInv
<1>4. CASE CleanupOldKills
  <2>1. StoreBasics' /\ LogNumbered' /\ YoungKept'
    BY <1>4, Zenon DEF CleanupOldKills, StoreInv, StoreBasics, LogNumbered,
       YoungKept
  <2>2. TotalsTrail'
    BY <1>4, Zenon DEF CleanupOldKills, StoreInv, TotalsTrail, Recorded, Died,
       KillsOwed, DeathsOwed
  <2> QED
    BY <2>1, <2>2, Zenon DEF StoreInv
<1>5. CASE Crash
  <2>1. StoreBasics' /\ LogNumbered' /\ YoungKept'
    BY <1>5 DEF Crash, StoreInv, StoreBasics, LogNumbered, YoungKept
  <2>2. ASSUME NEW n \in Name
        PROVE  /\ stats'[n].kills + KillsOwed(n)' <= Cardinality(Recorded(n)')
               /\ Cardinality(Recorded(n)') <= stats'[n].kills + KillsOwed(n)' + crashes'
               /\ stats'[n].deaths + DeathsOwed(n)' <= Cardinality(Died(n)')
               /\ Cardinality(Died(n)') <= stats'[n].deaths + DeathsOwed(n)' + crashes'
    <3>1. /\ crashes' = crashes + 1 /\ UNCHANGED stats
          /\ KillsOwed(n)' = 0 /\ DeathsOwed(n)' = 0
          /\ Recorded(n)' = Recorded(n) /\ Died(n)' = Died(n)
      BY <1>5, Zenon DEF Crash, KillsOwed, DeathsOwed, Recorded, Died
    <3>2. KillsOwed(n) \in {0, 1} /\ DeathsOwed(n) \in {0, 1}
      BY Zenon DEF KillsOwed, DeathsOwed
    <3>3. Cardinality(Recorded(n)) \in Nat /\ Cardinality(Died(n)) \in Nat
      BY RowsOfName, Zenon DEF StoreInv
    <3>4. stats[n].kills \in Nat /\ stats[n].deaths \in Nat /\ crashes \in Nat
      BY DEF StoreInv, StoreBasics
    <3> QED
      BY <3>1, <3>2, <3>3, <3>4 DEF StoreInv, TotalsTrail
  <2>3. TotalsTrail'
    BY <2>2, Zenon DEF TotalsTrail
  <2> QED
    BY <2>1, <2>3, Zenon DEF StoreInv
<1>6. CASE StoreTick
  <2>1. StoreBasics' /\ LogNumbered' /\ YoungKept'
    BY <1>6 DEF StoreTick, StoreInv, StoreBasics, LogNumbered, YoungKept,
       Time, Row
  <2>2. TotalsTrail'
    BY <1>6, Zenon DEF StoreTick, StoreInv, TotalsTrail, Recorded, Died,
       KillsOwed,
       DeathsOwed
  <2> QED
    BY <2>1, <2>2, Zenon DEF StoreInv
<1>7. CASE UNCHANGED kvars
  BY <1>7, Zenon DEF kvars, StoreInv, StoreBasics, LogNumbered, YoungKept,
     TotalsTrail,
     Recorded, Died, KillsOwed, DeathsOwed
<1> QED
  BY <1>1, <1>2, <1>3, <1>4, <1>5, <1>6, <1>7, Zenon DEF StoreNext

(* The empty store satisfies it.                                           *)
LEMMA StoreStarts == StoreInit => StoreInv
<1> SUFFICES ASSUME StoreInit PROVE StoreInv
  BY Zenon
<1> USE StoreAssumption DEF StoreInit
<1>1. IsFiniteSet({}) /\ Cardinality({}) = 0
  BY FS_EmptySet, Zenon
<1>2. \A n \in Name : Recorded(n) = {} /\ Died(n) = {}
  BY Zenon DEF Recorded, Died
<1> QED
  BY <1>1, <1>2 DEF StoreInv, StoreBasics, LogNumbered, YoungKept, TotalsTrail,
     KillsOwed, DeathsOwed, Time

(* What the invariant says about the tables: no total exceeds the number   *)
(* of calls, windows are complete and the drift is bounded.                *)
LEMMA StorePromises == StoreInv => StoreTypeOK /\ WindowsComplete /\ DriftBounded
<1> SUFFICES ASSUME StoreInv
             PROVE  StoreTypeOK /\ WindowsComplete /\ DriftBounded
  BY Zenon
<1> USE StoreAssumption
<1>1. StoreTypeOK
  <2>1. ASSUME NEW n \in Name
        PROVE  stats[n].kills \in 0 .. MaxKills /\ stats[n].deaths \in 0 .. MaxKills
    <3>1. KillsOwed(n) \in {0, 1} /\ DeathsOwed(n) \in {0, 1}
      BY Zenon DEF KillsOwed, DeathsOwed
    <3>2. /\ Cardinality(Recorded(n)) \in Nat /\ Cardinality(Died(n)) \in Nat
          /\ Cardinality(log) \in Nat
          /\ Cardinality(Recorded(n)) <= Cardinality(log)
          /\ Cardinality(Died(n)) <= Cardinality(log)
      BY RowsOfName, Zenon DEF StoreInv
    <3>3. stats[n].kills \in Nat /\ stats[n].deaths \in Nat
      BY Zenon DEF StoreInv, StoreBasics
    <3> QED
      BY <3>1, <3>2, <3>3 DEF StoreInv, TotalsTrail, LogNumbered
  <2>2. stats \in [Name -> Stats]
    BY <2>1, Zenon DEF StoreInv, StoreBasics, Stats
  <2> QED
    BY <2>2, Zenon DEF StoreInv, StoreBasics, CallRecord, StoreTypeOK
<1>2. WindowsComplete
  <2> SUFFICES ASSUME NEW window \in 0 .. Keep, NEW n \in Name
               PROVE  BoardByTime(window)[n] =
                        Cardinality({k \in log : k.attacker = n /\ k.at > now - window})
    BY Zenon DEF WindowsComplete
  <2>1. {k \in kills : k.attacker = n /\ k.at > now - window} =
           {k \in log : k.attacker = n /\ k.at > now - window}
    BY DEF StoreInv, StoreBasics, YoungKept, Time, Row
  <2> QED
    BY <2>1, Zenon DEF BoardByTime, KillsAfter
<1>3. DriftBounded
  <2> SUFFICES ASSUME call = Idle, NEW n \in Name
               PROVE  /\ stats[n].kills <= Cardinality(Recorded(n))
                      /\ Cardinality(Recorded(n)) <= stats[n].kills + crashes
                      /\ stats[n].deaths <= Cardinality(Died(n))
                      /\ Cardinality(Died(n)) <= stats[n].deaths + crashes
    BY Zenon DEF DriftBounded, Board, Recorded, Died
  <2>1. KillsOwed(n) = 0 /\ DeathsOwed(n) = 0
    BY Zenon DEF KillsOwed, DeathsOwed
  <2>2. stats[n].kills \in Nat /\ stats[n].deaths \in Nat
    BY Zenon DEF StoreInv, StoreBasics
  <2> QED
    BY <2>1, <2>2 DEF StoreInv, TotalsTrail
<1> QED
  BY <1>1, <1>2, <1>3, Zenon

(* For every window up to the time a kill is kept, the board by time       *)
(* counts every kill recorded in it, whenever the clean-up runs and        *)
(* whenever the process dies.                                              *)
THEOREM WindowsAreComplete == StoreSpec => []WindowsComplete
<1> QED
  BY StoreStarts, StoreStep, StorePromises, PTL DEF StoreSpec

(* The totals and the recorded kills drift apart by at most one for each   *)
(* death of the process, wherever in recordKill it dies.                   *)
THEOREM DriftIsBounded == StoreSpec => []DriftBounded
<1> QED
  BY StoreStarts, StoreStep, StorePromises, PTL DEF StoreSpec

----------------------------------------------------------------------------
(* The build of the page.                                                  *)

(* A set of naturals with an upper bound has a greatest element, and Max   *)
(* is that element.                                                        *)
LEMMA MaxIsGreatest ==
    ASSUME NEW M \in Nat, NEW S \in SUBSET (0 .. M), S # {}
    PROVE  Max(S) \in S /\ \A y \in S : y <= Max(S)
<1> DEFINE T == {M - x : x \in S}
           R == OpToRel(<, Nat)
<1>1. T \subseteq Nat /\ T # {}
  <2>1. PICK x \in S : TRUE
    BY Zenon
  <2>2. M - x \in T
    BY Zenon
  <2>3. \A y \in S : M - y \in Nat
    OBVIOUS
  <2> QED
    BY <2>2, <2>3, Zenon
<1>2. \E t \in T : \A u \in T : ~(<<u, t>> \in R)
  <2> HIDE DEF T
  <2> QED
    BY <1>1, NatLessThanWellFounded, WFMin, Zenon
<1>3. PICK t \in T : \A u \in T : ~(<<u, t>> \in R)
  BY <1>2, Zenon
<1>4. \A u \in T : ~(u < t)
  BY <1>1, <1>3, Zenon DEF OpToRel
<1>5. PICK x \in S : t = M - x
  BY Zenon
<1>6. \A y \in S : x >= y
  <2> SUFFICES ASSUME NEW y \in S PROVE x >= y
    BY Zenon
  <2>1. M - y \in T
    BY Zenon
  <2>2. ~(M - y < M - x)
    BY <1>4, <1>5, <2>1, Zenon
  <2> QED
    BY <2>2
<1>7. Max(S) \in S /\ \A y \in S : Max(S) >= y
  BY <1>5, <1>6, Zenon DEF Max
<1> QED
  BY <1>7, Zenon

\* The processes in the middle of a build.
AtWork(i) == pc[i] \in {"read", "obfuscate", "write"}

\* No file is newer than the clock.
TimesPast ==
    /\ \A f \in File : src[f].mtime <= clock
    /\ prod # Absent => prod.mtime <= clock

\* Without a race, what a build has read is what the files hold, and it goes to
\* the service with all of them.
ReadsCurrent ==
    \A i \in Proc :
        /\ ~raced /\ AtWork(i) =>
              \A f \in File : read[i][f] \in {Absent, src[f].content}
        /\ pc[i] \in {"obfuscate", "write"} => \A f \in File : read[i][f] # Absent

\* Without a race, a file no source is newer than holds the sources.
ProdCurrent ==
    (~raced /\ prod # Absent /\ \A f \in File : src[f].mtime <= prod.mtime)
        => prod.content = Content

BuildInv == BuildTypeOK /\ TimesPast /\ ReadsCurrent /\ ProdCurrent

(* A build that has read nothing has the type of one that has read some.   *)
LEMMA UnreadType == Unread \in [File -> 0 .. MaxEdits \cup {Absent}]
  BY Zenon DEF Unread

(* The state in which the server has never been started satisfies it.      *)
LEMMA BuildStarts == BuildInit => BuildInv
<1> SUFFICES ASSUME BuildInit PROVE BuildInv
  BY Zenon
<1> USE BuildAssumption DEF BuildInit
<1>1. BuildTypeOK
  <2>1. read \in [Proc -> [File -> 0 .. MaxEdits \cup {Absent}]]
    BY UnreadType, Zenon
  <2>2. src \in [File -> [content : 0 .. MaxEdits, mtime : 1 .. MaxClock]]
    OBVIOUS
  <2>3. clock \in 1 .. MaxClock /\ edits \in 0 .. MaxEdits
    OBVIOUS
  <2>4. attempt \in [Proc -> 1 .. MAX_RETRIES]
    OBVIOUS
  <2>5. pc \in [Proc -> {"off", "read", "obfuscate", "write", "stat", "load",
                    "serving", "failed"}]
    BY Zenon
  <2> QED
    BY <2>1, <2>2, <2>3, <2>4, <2>5, Zenon DEF BuildTypeOK
<1>2. TimesPast /\ ReadsCurrent /\ ProdCurrent
  BY DEF TimesPast, ReadsCurrent, ProdCurrent, AtWork
<1> QED
  BY <1>1, <1>2, Zenon DEF BuildInv

(* Every step of the processes and of the developers keeps it.             *)
LEMMA BuildStep == BuildInv /\ [BuildNext]_bvars => BuildInv'
<1> SUFFICES ASSUME BuildInv, [BuildNext]_bvars
             PROVE  BuildInv'
  BY Zenon
<1> USE BuildAssumption DEF BuildInv, BuildTypeOK, TimesPast, ReadsCurrent,
        ProdCurrent, AtWork, Content
<1>1. CASE BuildTick
  BY <1>1 DEF BuildTick
<1>2. CASE Stat
  BY <1>2, Zenon DEF Stat
<1>3. CASE Load
  BY <1>3, ZenonT(60) DEF Load, Contents
<1>4. CASE Stop
  BY <1>4, Zenon DEF Stop
<1>5. ASSUME NEW f \in File, Edit(f)
      PROVE  BuildInv'
  <2>1. /\ src' = [src EXCEPT ![f] = [content |-> edits + 1, mtime |-> clock]]
        /\ edits' = edits + 1 /\ edits + 1 \in 0 .. MaxEdits
        /\ UNCHANGED <<attempt, clock, prod, pc, read, page, source>>
    BY <1>5 DEF Edit
  <2>2. src' \in [File -> [content : 0 .. MaxEdits, mtime : 1 .. MaxClock]]
    BY <2>1, Zenon
  <2>3. /\ src'[f].mtime = clock
        /\ \A g \in File : g # f => src'[g] = src[g]
    BY <2>1, Zenon
  <2>4. raced' \in BOOLEAN /\ (~raced' =>
           /\ ~raced /\ \A i \in Proc : ~AtWork(i)
           /\ prod # Absent => prod.mtime # clock)
    BY <1>5, Zenon DEF Edit, Building
  <2>5. BuildTypeOK'
    BY <2>1, <2>2, <2>4, Zenon
  <2>6. TimesPast'
    BY <2>1, <2>3
  <2>7. ReadsCurrent'
    BY <2>1, <2>4, Zenon
  <2>8. ~raced' /\ prod' # Absent => ~(src'[f].mtime <= prod'.mtime)
    <3>1. prod # Absent => prod.mtime \in Nat /\ prod.mtime <= clock
      OBVIOUS
    <3>2. clock \in Nat
      OBVIOUS
    <3> HIDE DEF BuildInv
    <3> QED
      BY <2>1, <2>3, <2>4, <3>1, <3>2
  <2> QED
    BY <2>5, <2>6, <2>7, <2>8, Zenon
<1>6. ASSUME NEW i \in Proc, Start(i)
      PROVE  BuildInv'
  <2>1. /\ read' = [read EXCEPT ![i] = Unread]
        /\ attempt' = [attempt EXCEPT ![i] = 1]
        /\ UNCHANGED <<clock, edits, src, prod, page, source, raced>>
    BY <1>6, Zenon DEF Start
  <2>2. \/ pc' = [pc EXCEPT ![i] = "read"] \/ pc' = [pc EXCEPT ![i] = "stat"]
        \/ pc' = [pc EXCEPT ![i] = "off"]
    BY <1>6, Zenon DEF Start
  <2>3. BuildTypeOK'
    <3>1. read' \in [Proc -> [File -> 0 .. MaxEdits \cup {Absent}]]
      BY <2>1, UnreadType, Zenon
    <3>2. attempt' \in [Proc -> 1 .. MAX_RETRIES]
      BY <2>1
    <3>3. pc' \in [Proc -> {"off", "read", "obfuscate", "write", "stat", "load",
                      "serving", "failed"}]
      BY <2>2, Zenon
    <3> QED
      BY <2>1, <3>1, <3>2, <3>3, Zenon
  <2>4. ReadsCurrent'
    BY <2>1, <2>2 DEF Unread
  <2> QED
    BY <2>1, <2>3, <2>4
<1>7. ASSUME NEW i \in Proc, Obfuscated(i)
      PROVE  BuildInv'
  BY <1>7, Zenon DEF Obfuscated
<1>8. ASSUME NEW i \in Proc, RetryService(i)
      PROVE  BuildInv'
  BY <1>8 DEF RetryService
<1>9. ASSUME NEW i \in Proc, Write(i)
      PROVE  BuildInv'
  BY <1>9 DEF Write, AfterBuild, Contents
<1>10. ASSUME NEW i \in Proc, BuildFails(i)
       PROVE  BuildInv'
  BY <1>10 DEF BuildFails, AfterBuild
<1>11. ASSUME NEW i \in Proc, NEW f \in File, ReadSource(i, f)
       PROVE  BuildInv'
  BY <1>11 DEF ReadSource
<1>12. CASE UNCHANGED bvars
  BY <1>12, Zenon DEF bvars
<1> QED
  BY <1>1, <1>2, <1>3, <1>4, <1>5, <1>6, <1>7, <1>8, <1>9, <1>10, <1>11, <1>12,
     Zenon DEF BuildNext

(* The invariant makes the page fresh: when getLatestMtime is not after    *)
(* the file, no source is.                                                 *)
LEMMA BuildPromise == BuildInv => FreshUnlessRaced
<1> SUFFICES ASSUME BuildInv, ~raced, ~shouldRebuild
             PROVE  prod.content = Content
  BY Zenon DEF FreshUnlessRaced
<1> DEFINE times == {src[f].mtime : f \in File}
<1>1. times # {} /\ times \in SUBSET (0 .. MaxClock) /\ MaxClock \in Nat
  BY BuildAssumption DEF BuildInv, BuildTypeOK
<1>2. \A t \in times : t <= Max(times)
  <2> HIDE DEF times
  <2> QED
    BY <1>1, MaxIsGreatest, Zenon
<1>3. prod # Absent /\ ~(Max(times) > prod.mtime)
  BY Zenon DEF shouldRebuild, getLatestMtime
<1>4. Max(times) \in times
  <2> HIDE DEF times
  <2> QED
    BY <1>1, MaxIsGreatest, Zenon
<1>5. \A f \in File : src[f].mtime <= prod.mtime
  <2>1. prod.mtime \in Nat /\ Max(times) \in Nat
    BY <1>1, <1>3, <1>4 DEF BuildInv, BuildTypeOK
  <2> HIDE DEF BuildInv
  <2>2. \A f \in File : src[f].mtime \in times
    BY Zenon
  <2> HIDE DEF times
  <2> PICK latest : latest = Max(times)
    BY Zenon
  <2> PICK built : built = prod.mtime
    BY Zenon
  <2>3. latest \in Nat /\ built \in Nat /\ latest <= built
    BY <1>3, <2>1
  <2>4. \A t \in times : t \in Nat /\ t <= latest
    BY <1>1, <1>2
  <2>5. \A t \in times : t <= built
    BY <2>3, <2>4
  <2> QED
    BY <2>2, <2>5, Zenon
<1> QED
  BY <1>3, <1>5, Zenon DEF BuildInv, ProdCurrent

(* A page that is taken for up to date holds the present sources, however  *)
(* builds by hand, restarts and failures of the service interleave, unless *)
(* a source was edited during a build.                                     *)
THEOREM PageIsFresh == BuildSpec => []FreshUnlessRaced
<1> QED
  BY BuildStarts, BuildStep, BuildPromise, PTL DEF BuildSpec

----------------------------------------------------------------------------
(* The limit on the messages of a connection.                              *)

\* The messages of the present window that were let through.
Let == IF bucketCount <= maxMsgs THEN bucketCount ELSE maxMsgs

(***************************************************************************)
(* What the count and the age of the window say about the histories: all   *)
(* but the latest Let messages were served before the window began, all    *)
(* but the latest Let + maxMsgs before the one that ended by then; and the *)
(* latest Let messages were handled since it began.                        *)
(***************************************************************************)
Served == 1 .. 2 * maxMsgs + 1

ServedBefore == \A k \in Served : k > Let => served[k] >= bucketAge

ServedEarlier ==
    \A k \in Served : k > Let + maxMsgs => served[k] > windowMs + bucketAge

HandledSince ==
    bucketAge <= windowMs =>
        \A k \in 1 .. maxMsgs : k <= Let => handled[k] <= bucketAge

CountBounded ==
    /\ rateSocket = "open" => bucketCount <= maxMsgs
    /\ bucketCount + undecoded <= maxMsgs + MaxDecoding

RateInv ==
    /\ RateTypeOK
    /\ CountBounded
    /\ ServedBefore
    /\ ServedEarlier
    /\ HandledSince
    /\ ServedBound

\* What the two operators on histories do to an entry.
LEMMA PushEntry ==
    ASSUME NEW n \in Nat \ {0}, NEW h \in [1 .. n -> 0 .. Long]
    PROVE  /\ Push(h) \in [1 .. n -> 0 .. Long]
           /\ Push(h)[1] = 0
           /\ \A k \in 1 .. n : k # 1 => k - 1 \in 1 .. n /\ Push(h)[k] = h[k - 1]
  BY RateAssumption DEF Push, Long

\* Time adds one to every age below Long.
LEMMA AgedEntry ==
    ASSUME NEW n \in Nat \ {0}, NEW h \in [1 .. n -> 0 .. Long]
    PROVE  /\ Aged(h) \in [1 .. n -> 0 .. Long]
           /\ \A k \in 1 .. n :
                  Aged(h)[k] = IF h[k] < Long THEN h[k] + 1 ELSE Long
  BY RateAssumption DEF Aged, Long

\* The invariant holds when the hello has made the client.
LEMMA RateInitInv == RateInit => RateInv
  BY RateAssumption
     DEF RateInit, RateInv, RateTypeOK, CountBounded, Served, ServedBefore,
         ServedEarlier, HandledSince, ServedBound, Let, Long

\* Time passes: every age grows with that of the window.
LEMMA RateTickInv == RateInv /\ RateTick => RateInv'
<1> SUFFICES ASSUME RateInv, RateTick PROVE RateInv'
  BY Zenon
<1>0. /\ RateTypeOK /\ CountBounded
      /\ windowMs \in Nat /\ maxMsgs \in Nat \ {0} /\ Long = 2 * windowMs + 2
      /\ 2 * maxMsgs + 1 \in Nat \ {0} /\ Long \in Nat
      /\ bucketAge \in 0 .. windowMs + 1
      /\ bucketAge' = IF bucketAge > windowMs THEN bucketAge ELSE bucketAge + 1
      /\ handled \in [1 .. maxMsgs -> 0 .. Long] /\ handled' = Aged(handled)
      /\ served \in [Served -> 0 .. Long] /\ served' = Aged(served)
  BY RateAssumption DEF RateInv, RateTypeOK, RateTick, Served, Long
<1>1. /\ handled' \in [1 .. maxMsgs -> 0 .. Long]
      /\ \A k \in 1 .. maxMsgs :
             handled'[k] = IF handled[k] < Long THEN handled[k] + 1 ELSE Long
  <2>1. maxMsgs \in Nat \ {0} /\ handled \in [1 .. maxMsgs -> 0 .. Long]
    BY <1>0, Zenon
  <2>2. handled' = Aged(handled)
    BY <1>0, Zenon
  <2> QED  BY <2>1, <2>2, AgedEntry, Zenon
<1>2. /\ served' \in [Served -> 0 .. Long]
      /\ \A k \in Served :
             served'[k] = IF served[k] < Long THEN served[k] + 1 ELSE Long
  <2>1. /\ 2 * maxMsgs + 1 \in Nat \ {0}
        /\ served \in [1 .. 2 * maxMsgs + 1 -> 0 .. Long]
    BY <1>0, Zenon DEF Served
  <2>2. served' = Aged(served)
    BY <1>0, Zenon
  <2> QED  BY <2>1, <2>2, AgedEntry, Zenon DEF Served
<1>3. Let' = Let /\ Let \in 0 .. maxMsgs
  BY RateAssumption DEF RateInv, RateTypeOK, RateTick, Let
<1>4. RateTypeOK' /\ CountBounded'
  <2>1. bucketAge' \in 0 .. windowMs + 1
    BY <1>0
  <2>2. UNCHANGED <<rateSocket, undecoded, bucketCount>>
    BY Zenon DEF RateTick
  <2>3. RateTypeOK'
    BY <1>0, <1>1, <1>2, <2>1, <2>2, Zenon DEF RateTypeOK, Served
  <2>4. CountBounded'
    BY <1>0, <2>2, Zenon DEF CountBounded
  <2> QED  BY <2>3, <2>4
<1>5. ServedBefore'
  <2> SUFFICES ASSUME NEW k \in Served, k > Let PROVE served'[k] >= bucketAge'
    BY <1>3, Zenon DEF ServedBefore, Served
  <2>1. served[k] >= bucketAge /\ served[k] \in 0 .. Long
    BY <1>0, Zenon DEF RateInv, ServedBefore
  <2> QED  BY <2>1, <1>0, <1>2
<1>6. ServedEarlier'
  <2> SUFFICES ASSUME NEW k \in Served, k > Let + maxMsgs
               PROVE  served'[k] > windowMs + bucketAge'
    BY <1>3, Zenon DEF ServedEarlier, Served
  <2>1. served[k] > windowMs + bucketAge /\ served[k] \in 0 .. Long
    BY <1>0, Zenon DEF RateInv, ServedEarlier
  <2> QED  BY <2>1, <1>0, <1>2
<1>7. HandledSince'
  <2> SUFFICES ASSUME bucketAge' <= windowMs,
                      NEW k \in 1 .. maxMsgs, k <= Let
               PROVE  handled'[k] <= bucketAge'
    BY <1>3, Zenon DEF HandledSince
  <2>1. bucketAge <= windowMs /\ bucketAge' = bucketAge + 1
    BY <1>0
  <2>2. handled[k] <= bucketAge /\ handled[k] \in 0 .. Long
    BY <1>0, <2>1, Zenon DEF RateInv, HandledSince
  <2> QED  BY <2>1, <2>2, <1>0, <1>1
<1>8. ServedBound'
  <2>1. 1 \in Served /\ served[1] \in 0 .. Long
    BY <1>0 DEF Served
  <2>2. served'[1] # 0
    BY <1>0, <1>2, <2>1
  <2> QED  BY <2>2 DEF ServedBound
<1> QED  BY <1>4, <1>5, <1>6, <1>7, <1>8 DEF RateInv

\* What the count and the messages still undecoded add up to.
LEMMA SumBound ==
    ASSUME NEW a \in Nat, NEW b \in Nat, NEW c \in Nat, NEW d \in Nat,
           a <= c, b <= d
    PROVE  a + b <= c + d /\ a \in 0 .. c + d /\ b \in 0 .. d
  OBVIOUS

\* A message is counted: in the old window, or as the first of a new one.
LEMMA ServeInv == RateInv /\ Serve => RateInv'
<1> SUFFICES ASSUME RateInv, Serve PROVE RateInv'
  BY Zenon
<1>0. /\ windowMs \in Nat /\ maxMsgs \in Nat \ {0} /\ Long \in Nat
      /\ 2 * maxMsgs + 1 \in Nat \ {0} /\ bucketAge \in 0 .. windowMs + 1
      /\ handled \in [1 .. maxMsgs -> 0 .. Long] /\ handled' = Push(handled)
      /\ served \in [Served -> 0 .. Long] /\ served' = Push(served)
  BY RateAssumption
     DEF RateInv, RateTypeOK, Serve, Counted, Served, Long
<1>1. /\ handled' \in [1 .. maxMsgs -> 0 .. Long] /\ handled'[1] = 0
      /\ \A k \in 1 .. maxMsgs : k # 1 =>
             k - 1 \in 1 .. maxMsgs /\ handled'[k] = handled[k - 1]
  <2>1. maxMsgs \in Nat \ {0} /\ handled \in [1 .. maxMsgs -> 0 .. Long]
    BY <1>0, Zenon
  <2>2. handled' = Push(handled)
    BY <1>0, Zenon
  <2> QED  BY <2>1, <2>2, PushEntry, Zenon
<1>2. /\ served' \in [Served -> 0 .. Long] /\ served'[1] = 0
      /\ \A k \in Served : k # 1 =>
             k - 1 \in Served /\ served'[k] = served[k - 1]
  <2>1. /\ 2 * maxMsgs + 1 \in Nat \ {0}
        /\ served \in [1 .. 2 * maxMsgs + 1 -> 0 .. Long]
    BY <1>0, Zenon DEF Served
  <2>2. served' = Push(served)
    BY <1>0, Zenon
  <2> QED  BY <2>1, <2>2, PushEntry, Zenon DEF Served
<1>3. /\ Count \in 1 .. maxMsgs /\ Let' = Count
      /\ bucketCount' = Count /\ bucketCount \in Nat
      /\ bucketAge' = IF WindowOver THEN 0 ELSE bucketAge
      /\ Let \in 0 .. maxMsgs
  BY RateAssumption DEF RateInv, RateTypeOK, Serve, Counted, Count, Let
<1>4. RateTypeOK' /\ CountBounded'
  <2>1. /\ MaxDecoding \in Nat /\ undecoded \in 0 .. MaxDecoding
        /\ undecoded > 0 /\ undecoded' = undecoded - 1
        /\ rateSocket \in {"open", "closing", "closed"} /\ rateSocket' = rateSocket
    BY RateAssumption, Zenon DEF RateInv, RateTypeOK, Serve, Counted
  <2>2. /\ bucketAge' \in 0 .. windowMs + 1
        /\ bucketCount' \in Nat /\ bucketCount' <= maxMsgs
        /\ undecoded' \in Nat /\ undecoded' <= MaxDecoding
        /\ maxMsgs \in Nat /\ MaxDecoding \in Nat
    BY <1>0, <1>3, <2>1
  <2>3. /\ bucketCount' + undecoded' <= maxMsgs + MaxDecoding
        /\ bucketCount' \in 0 .. maxMsgs + MaxDecoding
        /\ undecoded' \in 0 .. MaxDecoding
    BY <2>2, SumBound, Zenon
  <2>4. CountBounded'
    BY <2>2, <2>3, Zenon DEF CountBounded
  <2>5. RateTypeOK'
    BY <1>1, <1>2, <2>1, <2>2, <2>3, Zenon DEF RateTypeOK, Served
  <2> QED  BY <2>4, <2>5
<1>5. \A k \in Served : k # 1 =>
         /\ k - 1 \in Served /\ served'[k] = served[k - 1]
         /\ k - 1 > Let => served[k - 1] >= bucketAge
         /\ k - 1 > Let + maxMsgs => served[k - 1] > windowMs + bucketAge
         /\ served[k - 1] \in 0 .. Long
  BY <1>0, <1>2, Zenon DEF RateInv, ServedBefore, ServedEarlier
<1>6. \/ WindowOver /\ Count = 1 /\ bucketAge' = 0 /\ bucketAge > windowMs
      \/ /\ ~WindowOver /\ Count = Let + 1 /\ Let = bucketCount
         /\ bucketAge' = bucketAge /\ bucketAge <= windowMs
  BY <1>0, <1>3 DEF Count, Let, WindowOver
<1>7. ServedBefore'
  <2> SUFFICES ASSUME NEW k \in Served, k > Count PROVE served'[k] >= bucketAge'
    BY <1>3, Zenon DEF ServedBefore, Served
  <2>1. k # 1 /\ k \in Nat  BY <1>3 DEF Served
  <2> QED  BY <1>0, <1>3, <1>5, <1>6, <2>1
<1>8. ServedEarlier'
  <2> SUFFICES ASSUME NEW k \in Served, k > Count + maxMsgs
               PROVE  served'[k] > windowMs + bucketAge'
    BY <1>3, Zenon DEF ServedEarlier, Served
  <2>1. k # 1 /\ k \in Nat  BY <1>3, <1>0 DEF Served
  <2>2. CASE Count = 1 /\ bucketAge' = 0 /\ bucketAge > windowMs
    <3>1. k - 1 > Let  BY <1>0, <1>3, <2>1, <2>2
    <3> QED  BY <3>1, <1>0, <1>5, <2>1, <2>2
  <2>3. CASE Count = Let + 1 /\ bucketAge' = bucketAge
    <3>1. k - 1 > Let + maxMsgs  BY <1>0, <1>3, <2>1, <2>3
    <3> QED  BY <3>1, <1>0, <1>5, <2>1, <2>3
  <2> QED  BY <1>6, <2>2, <2>3
<1>9. HandledSince'
  <2> SUFFICES ASSUME NEW k \in 1 .. maxMsgs, k <= Count
               PROVE  handled'[k] <= bucketAge'
    BY <1>3, Zenon DEF HandledSince
  <2>1. CASE k = 1  BY <2>1, <1>0, <1>1, <1>6
  <2>2. CASE k # 1
    <3>1. Count = Let + 1 /\ bucketAge' = bucketAge /\ bucketAge <= windowMs
      BY <1>3, <1>6, <2>2
    <3>2. handled[k - 1] <= bucketAge
      BY <3>1, <1>1, <1>3, <2>2 DEF RateInv, HandledSince
    <3> QED  BY <3>1, <3>2, <1>1, <2>2
  <2> QED  BY <2>1, <2>2
<1>10. ServedBound'
  <2>1. 2 * maxMsgs + 1 \in Served /\ 2 * maxMsgs + 1 # 1
    BY <1>0 DEF Served
  <2>2. 2 * maxMsgs + 1 > Count + maxMsgs
    BY <1>0, <1>3
  <2>3. served'[2 * maxMsgs + 1] > windowMs + bucketAge'
    BY <1>3, <1>8, <2>1, <2>2, Zenon DEF ServedEarlier
  <2>4. bucketAge' \in Nat /\ served'[2 * maxMsgs + 1] \in Int
    BY <1>0, <1>2, <1>3, <2>1
  <2>5. served'[2 * maxMsgs + 1] > windowMs
    BY <1>0, <2>3, <2>4
  <2> QED  BY <2>5 DEF ServedBound
<1> QED  BY <1>4, <1>7, <1>8, <1>9, <1>10 DEF RateInv

\* A refusal finds the window running and full, and moves neither.
LEMMA RefuseInv == RateInv /\ Refuse => RateInv' /\ handled[maxMsgs] <= windowMs
<1> SUFFICES ASSUME RateInv, Refuse
             PROVE  RateInv' /\ handled[maxMsgs] <= windowMs
  BY Zenon
<1>0. /\ windowMs \in Nat /\ maxMsgs \in Nat \ {0} /\ Long \in Nat
      /\ handled \in [1 .. maxMsgs -> 0 .. Long] /\ handled' = Push(handled)
      /\ bucketAge \in 0 .. windowMs + 1 /\ served' = served
  BY RateAssumption DEF RateInv, RateTypeOK, Refuse, Counted, Long
<1>1. /\ handled' \in [1 .. maxMsgs -> 0 .. Long] /\ handled'[1] = 0
      /\ \A k \in 1 .. maxMsgs : k # 1 =>
             k - 1 \in 1 .. maxMsgs /\ handled'[k] = handled[k - 1]
  <2>1. maxMsgs \in Nat \ {0} /\ handled \in [1 .. maxMsgs -> 0 .. Long]
    BY <1>0, Zenon
  <2>2. handled' = Push(handled)
    BY <1>0, Zenon
  <2> QED  BY <2>1, <2>2, PushEntry, Zenon
<1>2. /\ Let = maxMsgs /\ Let' = maxMsgs
      /\ bucketAge' = bucketAge /\ bucketAge <= windowMs
      /\ bucketCount' = bucketCount + 1
  BY RateAssumption
     DEF RateInv, RateTypeOK, Refuse, Counted, Count, WindowOver, Let
<1>3. RateTypeOK' /\ CountBounded'
  BY <1>0, <1>1, <1>2, RateAssumption
     DEF RateInv, RateTypeOK, CountBounded, Refuse, Counted
<1>4. ServedBefore' /\ ServedEarlier' /\ ServedBound'
  BY <1>0, <1>2, Zenon DEF RateInv, ServedBefore, ServedEarlier, ServedBound,
     Served
<1>5. \A k \in 1 .. maxMsgs : handled[k] <= bucketAge /\ handled[k] \in Nat
  BY <1>0, <1>2 DEF RateInv, HandledSince
<1>6. HandledSince'
  <2> SUFFICES ASSUME NEW k \in 1 .. maxMsgs PROVE handled'[k] <= bucketAge
    BY <1>2, Zenon DEF HandledSince
  <2> QED  BY <1>0, <1>1, <1>5
<1> QED  BY <1>0, <1>2, <1>3, <1>4, <1>5, <1>6 DEF RateInv

\* Every step of a connection keeps the invariant.
LEMMA RateStep == RateInv /\ [RateNext]_rvars => RateInv'
<1> SUFFICES ASSUME RateInv, [RateNext]_rvars PROVE RateInv'
  BY Zenon
<1>1. CASE RateTick  BY <1>1, RateTickInv
<1>2. CASE Serve  BY <1>2, ServeInv
<1>3. CASE Refuse  BY <1>3, RefuseInv
<1>4. CASE RateReceive \/ RateClose \/ UNCHANGED rvars
  <2>1. UNCHANGED <<bucketAge, bucketCount, handled, served>>
    BY <1>4, Zenon DEF RateReceive, RateClose, rvars
  <2>2. Let' = Let
    BY <2>1, Zenon DEF Let
  <2>3. ServedBefore' /\ ServedEarlier' /\ HandledSince' /\ ServedBound'
    BY <2>1, <2>2, Zenon
       DEF RateInv, ServedBefore, ServedEarlier, HandledSince, ServedBound
  <2>4. RateTypeOK' /\ CountBounded'
    <3>1. \/ rateSocket' \in {rateSocket, "closed"} /\ undecoded' = undecoded
          \/ /\ rateSocket = "open" /\ rateSocket' = rateSocket
             /\ undecoded < MaxDecoding /\ undecoded' = undecoded + 1
      BY <1>4, Zenon DEF RateReceive, RateClose, rvars
    <3>2. RateTypeOK /\ CountBounded /\ MaxDecoding \in Nat /\ maxMsgs \in Nat
      BY RateAssumption, Zenon DEF RateInv
    <3>3. CountBounded'
      BY <3>1, <3>2, <2>1 DEF RateTypeOK, CountBounded
    <3>4. undecoded' \in 0 .. MaxDecoding
      BY <3>1, <3>2 DEF RateTypeOK
    <3> QED  BY <3>1, <3>2, <3>3, <3>4, <2>1 DEF RateTypeOK
  <2> QED  BY <2>3, <2>4 DEF RateInv
<1> QED  BY <1>1, <1>2, <1>3, <1>4 DEF RateNext

\* Type correctness; in particular the count of a client never exceeds the
\* limit by more than the messages that are being decrypted at once.
THEOREM RateTypes == RateSpec => []RateTypeOK
<1>1. RateInv => RateTypeOK  BY DEF RateInv
<1> QED  BY <1>1, RateInitInv, RateStep, PTL DEF RateSpec

\* In no stretch as long as the window does rateLimitOk let more than twice
\* maxMsgs messages of a client through.
THEOREM ServedBoundHolds == RateSpec => []ServedBound
<1>1. RateInv => ServedBound  BY DEF RateInv
<1> QED  BY <1>1, RateInitInv, RateStep, PTL DEF RateSpec

\* rateLimitOk refuses nobody who keeps to the limit.
THEOREM FairRefusalHolds == RateSpec => FairRefusal
<1>1. RateInv /\ [RateNext]_rvars =>
        [Refuse => handled[maxMsgs] <= windowMs]_rvars
  BY RefuseInv, Zenon
<1> QED  BY <1>1, RateInitInv, RateStep, PTL DEF RateSpec, FairRefusal

----------------------------------------------------------------------------
(* The parts together: a behaviour of Backend runs one of them, and the    *)
(* others stay where their invariants hold.                                *)
LEMMA BackendInvariants == Spec => [](StoreInv /\ BuildInv /\ RateInv)
<1> DEFINE Inv == StoreInv /\ BuildInv /\ RateInv
<1>1. Init => Inv
  BY StoreStarts, BuildStarts, RateInitInv, Zenon DEF Init
<1>2. Inv /\ [Next]_vars => Inv'
  <2> SUFFICES ASSUME Inv, [Next]_vars
               PROVE  Inv'
    BY Zenon
  <2>1. [StoreNext]_kvars /\ [BuildNext]_bvars /\ [RateNext]_rvars
    BY Zenon DEF Next, vars
  <2> QED
    BY <2>1, StoreStep, BuildStep, RateStep, Zenon
<1> QED
  BY <1>1, <1>2, PTL DEF Spec

(* Backend's variables keep their types: no total of the store exceeds the *)
(* number of recorded kills, a page that was written holds all sources,    *)
(* and the count of a client exceeds the limit by no more than what is     *)
(* being decrypted.                                                        *)
THEOREM BackendTypes == Spec => []BackendTypeOK
<1>1. StoreInv /\ BuildInv /\ RateInv => BackendTypeOK
  BY StorePromises, Zenon DEF BuildInv, RateInv, BackendTypeOK
<1> QED
  BY <1>1, BackendInvariants, PTL

(* What the services promise holds when they run side by side: boards by   *)
(* time and totals of the kill store (storage.ts), a current page          *)
(* (client_html.ts), and the limit on messages (state.ts).                 *)
THEOREM BackendKeepsItsPromises ==
    Spec => /\ [](WindowsComplete /\ DriftBounded /\ FreshUnlessRaced /\ ServedBound)
            /\ FairRefusal
<1>1. Init => StoreInit /\ BuildInit /\ RateInit
  BY Zenon DEF Init
<1>2. [Next]_vars => [StoreNext]_kvars /\ [BuildNext]_bvars /\ [RateNext]_rvars
  BY Zenon DEF Next, vars
<1>3. Spec => StoreSpec /\ BuildSpec /\ RateSpec
  BY <1>1, <1>2, PTL DEF Spec, StoreSpec, BuildSpec, RateSpec
<1> QED
  BY <1>3, WindowsAreComplete, DriftIsBounded, PageIsFresh, ServedBoundHolds,
     FairRefusalHolds, PTL
=============================================================================
