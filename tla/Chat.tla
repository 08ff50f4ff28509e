-------------------------------- MODULE Chat --------------------------------
(***************************************************************************)
(* What a page shows of the chat: the bubble over a player (showChat in    *)
(* player.js) and the log (appendChatLog in utils.js).  Both are cleared   *)
(* by timers that were set for something that may have been replaced.      *)
(***************************************************************************)
EXTENDS Integers, Sequences, FiniteSets, FiniteSetsExt

CONSTANTS
    BubbleMs,   \* 5000: how long a bubble stays
    LineMs,     \* 30000: how long a line stays
    MaxLog,     \* 50: lines in the log
    MaxLines    \* bound: lines in a run

ASSUME ChatAssumption ==
    /\ {BubbleMs, LineMs, MaxLog} \subseteq Nat \ {0}
    /\ MaxLines \in Nat

VARIABLES
    bubble,     \* chatSprite.visible
    bubbleIn,   \* times left on the timers set by showChat
    spoken,     \* history: age of the latest showChat, up to BubbleMs
    lines,      \* history: the age of every line, LineMs + 1 after its timer
    log         \* the numbers of the lines in the log, which is in their order

chatvars == <<bubble, bubbleIn, spoken, lines, log>>

ChatInit ==
    /\ bubble = FALSE
    /\ bubbleIn = {}
    /\ spoken = BubbleMs
    /\ lines = <<>>
    /\ log = {}

\* Mutant: the timer of the bubble before is not cleared.
ShowNoClear ==
    /\ bubble' = TRUE
    /\ bubbleIn' = bubbleIn \cup {BubbleMs}
    /\ spoken' = 0

showChat ==
    /\ bubble' = TRUE
    /\ bubbleIn' = {BubbleMs}
    /\ spoken' = 0

appendChatLog ==
    LET all == log \cup {Len(lines) + 1}
    IN /\ Len(lines) < MaxLines
       /\ lines' = Append(lines, 0)
       /\ log' = IF Cardinality(all) > MaxLog THEN all \ {Min(all)} ELSE all

\* Enter in the chat input: the own bubble, before the server has answered.
Say ==
    /\ showChat
    /\ UNCHANGED <<lines, log>>

\* A chat event of the player.
ChatEvent == showChat /\ appendChatLog

\* A chat event of somebody else, or a death event, only writes a line.
OtherLine == appendChatLog /\ UNCHANGED <<bubble, bubbleIn, spoken>>

BubbleTimer ==
    /\ 0 \in bubbleIn
    /\ bubble' = FALSE
    /\ bubbleIn' = bubbleIn \ {0}
    /\ UNCHANGED <<spoken, lines, log>>

\* The timer of a line, which may have left the log already; timers of the
\* same length go in the order they were set.
LineTimer(i) ==
    /\ lines[i] = LineMs
    /\ \A j \in 1 .. i - 1 : lines[j] # LineMs
    /\ lines' = [lines EXCEPT ![i] = LineMs + 1]
    /\ log' = log \ {i}
    /\ UNCHANGED <<bubble, bubbleIn, spoken>>

\* Time passes; timers that are due go first.
ChatTick ==
    /\ 0 \notin bubbleIn
    /\ \A i \in DOMAIN lines : lines[i] # LineMs
    /\ bubbleIn' = {t - 1 : t \in bubbleIn}
    /\ spoken' = IF spoken < BubbleMs THEN spoken + 1 ELSE spoken
    /\ lines' = [i \in DOMAIN lines |-> IF lines[i] < LineMs THEN lines[i] + 1 ELSE lines[i]]
    /\ UNCHANGED <<bubble, log>>

ChatNext ==
    \/ Say \/ ChatEvent \/ OtherLine \/ BubbleTimer \/ ChatTick
    \/ \E i \in DOMAIN lines : LineTimer(i)

ChatSpec == ChatInit /\ [][ChatNext]_chatvars

----------------------------------------------------------------------------
\* Type invariant: at most one timer runs for the bubble.
ChatTypeOK ==
    /\ bubble \in BOOLEAN
    /\ bubbleIn \subseteq 0 .. BubbleMs
    /\ \A t, u \in bubbleIn : t = u
    /\ spoken \in 0 .. BubbleMs
    /\ \A i \in DOMAIN lines : lines[i] \in 0 .. LineMs + 1
    /\ log \subseteq 1 .. Len(lines)

\* A bubble stays its full time after the latest thing said, and no longer:
\* the timer of an earlier one does not hide it (showChat).
BubbleStays == bubble <=> (spoken < BubbleMs \/ 0 \in bubbleIn)

\* The log holds the latest MaxLog lines less those that are past their
\* time, whichever way they left it (appendChatLog).
LogRecent ==
    log = {i \in 1 .. Len(lines) : i > Len(lines) - MaxLog /\ lines[i] <= LineMs}

\* No timer of something that was replaced or pushed out takes away what
\* came after it (showChat, appendChatLog).
ChatTimely == BubbleStays /\ LogRecent
=============================================================================
