----------------------------- MODULE RateLimit ------------------------------
(***************************************************************************)
(* The rate limiter of a connection (rateLimitOk in state.ts) and what     *)
(* handleWs makes of its verdict.  Messages are decrypted concurrently;    *)
(* those under way when the socket is closed are still handled.            *)
(*                                                                         *)
(* Times are kept as ages, now - t, which saturate where the code cannot   *)
(* tell them apart any more.                                               *)
(***************************************************************************)
EXTENDS Integers

CONSTANTS
    windowMs, maxMsgs,  \* CONFIG.RATE
    MaxDecoding         \* bound: messages decrypted at the same time

ASSUME RateAssumption ==
    /\ windowMs \in Nat
    /\ maxMsgs \in Nat \ {0}
    /\ MaxDecoding \in Nat \ {0}

VARIABLES
    rateSocket,     \* "open", "closing" or "closed"
    undecoded,      \* messages at the await of decodeClientWsMsg
    bucketAge,      \* now - bucketStart
    bucketCount,
    handled,        \* history: ages of the latest messages handled
    served          \* history: ages of the latest messages let through

rvars == <<rateSocket, undecoded, bucketAge, bucketCount, handled, served>>

Long == 2 * windowMs + 2

\* A history with a message of this moment, and one a time unit later.
Push(h) == [k \in DOMAIN h |-> IF k = 1 THEN 0 ELSE h[k - 1]]
Aged(h) == [k \in DOMAIN h |-> IF h[k] < Long THEN h[k] + 1 ELSE Long]

\* The client as the hello leaves it.
RateInit ==
    /\ rateSocket = "open"
    /\ undecoded = 0
    /\ bucketAge = 0
    /\ bucketCount = 0
    /\ handled = [k \in 1 .. maxMsgs |-> Long]
    /\ served = [k \in 1 .. 2 * maxMsgs + 1 |-> Long]

RateTick ==
    /\ bucketAge' = IF bucketAge > windowMs THEN bucketAge ELSE bucketAge + 1
    /\ handled' = Aged(handled)
    /\ served' = Aged(served)
    /\ UNCHANGED <<rateSocket, undecoded, bucketCount>>

\* onmessage up to its await.
RateReceive ==
    /\ rateSocket = "open"
    /\ undecoded < MaxDecoding
    /\ undecoded' = undecoded + 1
    /\ UNCHANGED <<rateSocket, bucketAge, bucketCount, handled, served>>

\* The first test of rateLimitOk.
WindowOver == bucketAge > windowMs

\* Mutant: the new window keeps the count of the old one.
CountOn == bucketCount + 1

\* The count rateLimitOk compares, the present message included.
Count == (IF WindowOver THEN 0 ELSE bucketCount) + 1

\* Mutant: the new window keeps the start of the old one.
CountedFromOldStart ==
    /\ undecoded > 0
    /\ undecoded' = undecoded - 1
    /\ UNCHANGED bucketAge
    /\ bucketCount' = Count
    /\ handled' = Push(handled)

\* A message has been decrypted and is counted.
Counted ==
    /\ undecoded > 0
    /\ undecoded' = undecoded - 1
    /\ bucketAge' = IF WindowOver THEN 0 ELSE bucketAge
    /\ bucketCount' = Count
    /\ handled' = Push(handled)

\* rateLimitOk returns true: the message reaches its handler.
Serve ==
    /\ Counted
    /\ Count <= maxMsgs
    /\ served' = Push(served)
    /\ UNCHANGED rateSocket

\* Mutant: the message is refused and the socket left open.
RefuseOnly ==
    /\ Counted
    /\ Count > maxMsgs
    /\ UNCHANGED <<rateSocket, served>>

\* rateLimitOk returns false: the socket is closed at once; the error that
\* is still to be encrypted finds it closed.
Refuse ==
    /\ Counted
    /\ Count > maxMsgs
    /\ rateSocket' = IF rateSocket = "open" THEN "closing" ELSE rateSocket
    /\ UNCHANGED served

RateClose ==
    /\ rateSocket \in {"open", "closing"}
    /\ rateSocket' = "closed"
    /\ UNCHANGED <<undecoded, bucketAge, bucketCount, handled, served>>

RateNext == RateTick \/ RateReceive \/ Serve \/ Refuse \/ RateClose

RateSpec == RateInit /\ [][RateNext]_rvars

----------------------------------------------------------------------------
\* Type invariant: what is still being decrypted when the limit is passed
\* bounds the count.
RateTypeOK ==
    /\ rateSocket \in {"open", "closing", "closed"}
    /\ undecoded \in 0 .. MaxDecoding
    /\ bucketAge \in 0 .. windowMs + 1
    /\ bucketCount \in 0 .. maxMsgs + MaxDecoding
    /\ handled \in [1 .. maxMsgs -> 0 .. Long]
    /\ served \in [1 .. 2 * maxMsgs + 1 -> 0 .. Long]

\* Two full windows may follow each other closely, but no more: in any
\* stretch as long as the window at most twice maxMsgs messages of a client
\* are let through (rateLimitOk starts a window with the first message after
\* the old one).
ServedBound == served[1] = 0 => served[2 * maxMsgs + 1] > windowMs

\* Nobody is refused who keeps to the limit: whoever is, has sent maxMsgs
\* messages within the last window before this one.
FairRefusal == [][Refuse => handled[maxMsgs] <= windowMs]_rvars
=============================================================================
