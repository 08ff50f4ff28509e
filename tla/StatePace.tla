----------------------------- MODULE StatePace ------------------------------
(***************************************************************************)
(* How a pose reaches the server: the page sends its state at most every   *)
(* Interval (maybeSendLocalState, called in every frame), the messages     *)
(* take up to Delay and may overtake each other while they are encrypted   *)
(* and decrypted, and stateFreqOk drops one that follows an accepted one   *)
(* too closely.  Times are ages that saturate.                             *)
(***************************************************************************)
EXTENDS Integers, Sequences

CONSTANTS
    Interval,   \* 1000 / netSendHz on the page, 1000 / STATE_HZ on the server
    Delay,      \* assumed: the longest a state takes from page to server
    MaxMoves    \* bound: changes of pose

ASSUME PaceAssumption == Interval \in Nat \ {0} /\ Delay \in Nat /\ MaxMoves \in Nat

VARIABLES
    pose,       \* the pose of the local player on its page, as a number
    lastSent,   \* now - lastStateSend
    onWay,      \* the states sent and not handled, in the order of sending
    tablePose,  \* the pose in the table of players
    lastState,  \* now - lastStateAt
    drops       \* history: states dropped since the last accepted one

pvars == <<pose, lastSent, onWay, tablePose, lastState, drops>>

Older(age, cap) == IF age < cap THEN age + 1 ELSE cap

\* lastStateSend and lastStateAt start at 0, long ago.
PaceInit ==
    /\ pose = 0 /\ tablePose = 0
    /\ lastSent = Interval /\ lastState = Interval
    /\ onWay = <<>>
    /\ drops = 0

\* The player moves.
Move ==
    /\ pose < MaxMoves
    /\ pose' = pose + 1
    /\ UNCHANGED <<lastSent, onWay, tablePose, lastState, drops>>

\* Mutant: a player that has come to rest sends no more.
SendWhileMoving ==
    /\ lastSent >= Interval
    /\ pose < MaxMoves
    /\ lastSent' = 0
    /\ onWay' = Append(onWay, [pose |-> pose, age |-> 0])
    /\ UNCHANGED <<pose, tablePose, lastState, drops>>

\* A frame in which maybeSendLocalState sends.
maybeSendLocalState ==
    /\ lastSent >= Interval
    /\ lastSent' = 0
    /\ onWay' = Append(onWay, [pose |-> pose, age |-> 0])
    /\ UNCHANGED <<pose, tablePose, lastState, drops>>

\* Mutant: the full interval is asked for.
stateFreqExact == lastState >= Interval

\* stateFreqOk: three quarters of the interval are enough.
stateFreqOk == 4 * lastState >= 3 * Interval

\* A state has been decrypted, of a player that is not dead: the throttle
\* lets it into the table or drops it.
PaceHandle(i) ==
    /\ onWay' = SubSeq(onWay, 1, i - 1) \o SubSeq(onWay, i + 1, Len(onWay))
    /\ \/ /\ stateFreqOk
          /\ tablePose' = onWay[i].pose
          /\ lastState' = 0
          /\ drops' = 0
       \/ /\ ~stateFreqOk
          /\ drops' = drops + 1
          /\ UNCHANGED <<tablePose, lastState>>
    /\ UNCHANGED <<pose, lastSent>>

PaceTick ==
    /\ \A i \in DOMAIN onWay : onWay[i].age < Delay
    /\ onWay' = [i \in DOMAIN onWay |-> [onWay[i] EXCEPT !.age = @ + 1]]
    /\ lastSent' = Older(lastSent, Interval)
    /\ lastState' = Older(lastState, Interval)
    /\ UNCHANGED <<pose, tablePose, drops>>

PaceNext ==
    \/ Move \/ maybeSendLocalState \/ PaceTick
    \/ \E i \in DOMAIN onWay : PaceHandle(i)

PaceSpec == PaceInit /\ [][PaceNext]_pvars

----------------------------------------------------------------------------
\* Type invariant: no more states are on their way than the delay explains.
PaceTypeOK ==
    /\ pose \in 0 .. MaxMoves /\ tablePose \in 0 .. MaxMoves
    /\ lastSent \in 0 .. Interval /\ lastState \in 0 .. Interval
    /\ \A i \in DOMAIN onWay : onWay[i] \in [pose : 0 .. MaxMoves, age : 0 .. Delay]
    /\ Len(onWay) <= 1 + Delay \div Interval

\* The slack of stateFreqOk (the comment at state.ts:162) is enough: as long
\* as no state is later than another by more than five quarters of the
\* interval, never are two of them dropped in a row.
NoTwoDrops == 4 * Delay <= 5 * Interval => drops <= 1

\* A player that stands still is seen where it stands: its last pose
\* reaches the table, whatever was dropped or overtaken on the way.
PoseArrives == <>[](tablePose = pose)
=============================================================================
