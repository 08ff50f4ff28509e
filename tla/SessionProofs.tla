--------------------------- MODULE SessionProofs ----------------------------
(***************************************************************************)
(* Proofs about the session of a page with the server, each for all values *)
(* of the constants and any number of steps.  The login: a state pays for  *)
(* one exchange, is never accepted after the sweep that follows its        *)
(* expiry, and a cookie the browser still sends is recognised.  The pace   *)
(* of the states: the throttle never drops two in a row.  The health of    *)
(* the own player: it lies dead only when the server says so.              *)
(***************************************************************************)
EXTENDS Login, StatePace, Health, SequenceTheorems, TLAPS

----------------------------------------------------------------------------
(* The login.                                                              *)

Age == 0 .. Ttl + SweepMs
Call == [state : OAuthState \cup {Absent}, step : Step, jwt : Token \cup {Absent}]

\* A pending state is younger than its limit by what is left until the sweep.
SweptInTime ==
    \A s \in OAuthState : pendingStates[s] # Absent =>
        pendingStates[s] + sweepIn <= Ttl + SweepMs

\* What is pending has been issued, and has paid for nothing yet.
Unspent ==
    \A s \in OAuthState :
        /\ s \notin issued => pendingStates[s] = Absent /\ exchanges[s] = 0
        /\ pendingStates[s] # Absent => exchanges[s] = 0

\* A token being signed has lost MaxSign at most, and so has the one in the
\* cookie against the Max-Age of the cookie.
TokenFresh ==
    /\ \A w \in waiting : w.jwt # Absent => w.jwt >= JwtLife - MaxSign
    /\ \A w \in waiting : w.step = "sign" => w.jwt # Absent
    /\ cookie # Absent => cookie.jwt >= cookie.maxAge - MaxSign

LoginInv == LoginTypeOK /\ SweptInTime /\ Unspent /\ OneExchange /\ TokenFresh

\* The parts of the invariant that speak of the table of states, and of the
\* tokens.
TableInv ==
    /\ issued \subseteq OAuthState
    /\ pendingStates \in [OAuthState -> Age \cup {Absent}]
    /\ sweepIn \in 0 .. SweepMs
    /\ exchanges \in [OAuthState -> Nat]
    /\ SweptInTime /\ Unspent /\ OneExchange
TokenInv ==
    /\ waiting \subseteq Call
    /\ cookie \in [jwt : Token, maxAge : 0 .. JwtLife] \cup {Absent}
    /\ TokenFresh

----------------------------------------------------------------------------
\* The invariant is the two together, before and after a step.
LEMMA Parts ==
    /\ LoginInv <=> TableInv /\ TokenInv
    /\ LoginInv' <=> TableInv' /\ TokenInv'
BY Zenon DEF LoginInv, TableInv, TokenInv, LoginTypeOK, Age, Call

\* What the proofs use of the constants.
LEMMA LoginConstants ==
    /\ Ttl \in Nat \ {0} /\ SweepMs \in Nat \ {0} /\ JwtLife \in Nat \ {0}
    /\ MaxSign \in Nat /\ MaxSign <= JwtLife
    /\ Absent \notin Int /\ Absent \notin OAuthState
BY LoginAssumption

\* Both halves hold when the server starts.
LEMMA LoginInitInv == LoginInit => LoginInv
<1> SUFFICES ASSUME LoginInit PROVE TableInv /\ TokenInv
  BY Parts, Zenon
<1>1. TableInv
  BY LoginConstants DEF LoginInit, TableInv, SweptInTime, Unspent, OneExchange
<1>2. TokenInv
  BY LoginConstants, Zenon DEF LoginInit, TokenInv, TokenFresh
<1> QED  BY <1>1, <1>2

\* The half about the table survives steps that leave it alone.
LEMMA TableUnchanged ==
    TableInv /\ UNCHANGED <<issued, pendingStates, sweepIn, exchanges>> => TableInv'
BY Zenon DEF TableInv, SweptInTime, Unspent, OneExchange

\* The half about tokens survives steps that leave them alone.
LEMMA TokenUnchanged == TokenInv /\ UNCHANGED <<waiting, cookie>> => TokenInv'
BY Zenon DEF TokenInv, TokenFresh

----------------------------------------------------------------------------
\* The table of states.
LEMMA TickTable == TableInv /\ LoginTick => TableInv'
<1> SUFFICES ASSUME TableInv, LoginTick PROVE TableInv'
  BY Zenon
<1>1. /\ sweepIn \in 0 .. SweepMs /\ sweepIn > 0 /\ sweepIn' = sweepIn - 1
      /\ issued' = issued /\ exchanges' = exchanges
  BY Zenon DEF TableInv, LoginTick
<1>2. ASSUME NEW s \in OAuthState
      PROVE  /\ pendingStates'[s] \in Age \cup {Absent}
             /\ pendingStates'[s] = Absent <=> pendingStates[s] = Absent
             /\ pendingStates'[s] # Absent =>
                    pendingStates'[s] + sweepIn' <= Ttl + SweepMs
  <2>1. CASE pendingStates[s] = Absent
    BY <2>1, LoginConstants, Zenon DEF LoginTick
  <2>2. CASE pendingStates[s] # Absent
    <3>1. pendingStates[s] \in Age /\ pendingStates[s] + sweepIn <= Ttl + SweepMs
      BY <2>2, Zenon DEF TableInv, SweptInTime
    <3>2. pendingStates'[s] = pendingStates[s] + 1
      BY <1>1, <2>2, <3>1, LoginConstants DEF LoginTick, Age
    <3> QED  BY <1>1, <3>1, <3>2, LoginConstants DEF Age
  <2> QED  BY <2>1, <2>2
<1>3. pendingStates' \in [OAuthState -> Age \cup {Absent}]
  BY <1>2, Zenon DEF LoginTick
<1>4. sweepIn' \in 0 .. SweepMs
  BY <1>1, LoginConstants
<1>5. SweptInTime'
  BY <1>2, Zenon DEF SweptInTime
<1>6. Unspent' /\ OneExchange'
  BY <1>1, <1>2, Zenon DEF TableInv, Unspent, OneExchange
<1> QED  BY <1>1, <1>3, <1>4, <1>5, <1>6 DEF TableInv

\* The sweep keeps the table: what it leaves is young enough for the next one.
LEMMA SweepTable == TableInv /\ Sweep => TableInv'
<1> SUFFICES ASSUME TableInv, Sweep PROVE TableInv'
  BY Zenon
<1>1. sweepIn' = SweepMs /\ issued' = issued /\ exchanges' = exchanges
  BY Zenon DEF Sweep
<1>2. ASSUME NEW s \in OAuthState
      PROVE  \/ pendingStates'[s] = Absent
             \/ /\ pendingStates'[s] = pendingStates[s] /\ pendingStates[s] \in Age
                /\ pendingStates[s] <= Ttl
  BY LoginConstants DEF TableInv, Sweep, Age
<1>3. pendingStates' \in [OAuthState -> Age \cup {Absent}]
  BY <1>2, Zenon DEF Sweep
<1>4. SweptInTime'
  BY <1>1, <1>2, LoginConstants DEF SweptInTime, Age
<1>5. Unspent' /\ OneExchange'
  BY <1>1, <1>2, Zenon DEF TableInv, Unspent, OneExchange
<1>6. sweepIn' \in 0 .. SweepMs
  BY <1>1, LoginConstants
<1> QED  BY <1>1, <1>3, <1>4, <1>5, <1>6 DEF TableInv

\* handleLogin keeps the table: its state is new.
LEMMA LoginTable == ASSUME TableInv, NEW s \in OAuthState, handleLogin(s) PROVE TableInv'
<1>1. /\ pendingStates' = [pendingStates EXCEPT ![s] = 0] /\ issued' = issued \cup {s}
      /\ s \notin issued /\ sweepIn' = sweepIn /\ exchanges' = exchanges
  BY Zenon DEF handleLogin
<1>2. 0 \in Age /\ 0 # Absent /\ 0 + sweepIn <= Ttl + SweepMs
  BY LoginConstants DEF TableInv, Age
<1>3. pendingStates' \in [OAuthState -> Age \cup {Absent}] /\ issued' \subseteq OAuthState
  BY <1>1, <1>2, Zenon DEF TableInv
<1>4. SweptInTime'
  BY <1>1, <1>2, Zenon DEF TableInv, SweptInTime
<1>5. Unspent' /\ OneExchange'
  BY <1>1, <1>2, Zenon DEF TableInv, Unspent, OneExchange
<1> QED  BY <1>1, <1>3, <1>4, <1>5 DEF TableInv

\* handleCallback keeps the table: it deletes the state it pays with.
LEMMA CallbackTable ==
    ASSUME TableInv, NEW s \in OAuthState, handleCallback(s) PROVE TableInv'
<1>1. /\ pendingStates[s] # Absent /\ pendingStates' = [pendingStates EXCEPT ![s] = Absent]
      /\ exchanges' = [exchanges EXCEPT ![s] = @ + 1]
      /\ issued' = issued /\ sweepIn' = sweepIn
  BY Zenon DEF handleCallback
<1>2. exchanges[s] = 0 /\ s \in issued
  BY <1>1, Zenon DEF TableInv, Unspent
<1>3. exchanges' = [exchanges EXCEPT ![s] = 1]
  BY <1>1, <1>2
<1>4. /\ pendingStates' \in [OAuthState -> Age \cup {Absent}]
      /\ exchanges' \in [OAuthState -> Nat]
  BY <1>1, <1>3 DEF TableInv
<1>5. SweptInTime' /\ Unspent' /\ OneExchange'
  BY <1>1, <1>2, <1>3 DEF TableInv, SweptInTime, Unspent, OneExchange
<1> QED  BY <1>1, <1>4, <1>5 DEF TableInv
----------------------------------------------------------------------------
\* The tokens.
LEMMA NearerToken ==
    ASSUME NEW j \in Token
    PROVE  Nearer(j) \in Token /\ Nearer(j) >= j - 1 /\ Nearer(j) # Absent
BY LoginConstants DEF Nearer, Token

\* The passing of time keeps the tokens: cookie and token age alike.
LEMMA TickToken == TokenInv /\ LoginTick => TokenInv'
<1> SUFFICES ASSUME TokenInv, LoginTick PROVE TokenInv'
  BY Zenon
<1>1. ASSUME NEW v \in waiting'
      PROVE  /\ v \in Call
             /\ v.jwt # Absent => v.jwt >= JwtLife - MaxSign
             /\ v.step = "sign" => v.jwt # Absent
  <2>1. PICK w \in waiting : v = [w EXCEPT !.jwt = Nearer(w.jwt)]
    BY Zenon DEF LoginTick
  <2>2. w \in Call /\ ~Overdue(w)
    BY Zenon DEF TokenInv, LoginTick
  <2>3. v.jwt = Nearer(w.jwt) /\ v.step = w.step /\ v.state = w.state
    BY <2>1, <2>2, Zenon DEF Call
  <2>4. CASE w.jwt = Absent
    <3>1. Nearer(w.jwt) = w.jwt
      BY <2>4, Zenon DEF Nearer
    <3>2. v = w
      BY <2>1, <2>2, <3>1, Zenon DEF Call
    <3> QED  BY <2>2, <2>4, <3>2 DEF TokenInv, TokenFresh
  <2>5. CASE w.jwt # Absent
    <3>1. w.jwt \in Token /\ w.jwt \in Int /\ JwtLife - w.jwt < MaxSign
      BY <2>2, <2>5, LoginConstants DEF Call, Overdue, Token
    <3>2. Nearer(w.jwt) \in Token /\ Nearer(w.jwt) >= w.jwt - 1 /\ Nearer(w.jwt) # Absent
      BY <3>1, NearerToken, Zenon
    <3>3. Nearer(w.jwt) >= JwtLife - MaxSign
      BY <3>1, <3>2, LoginConstants DEF Token
    <3>4. v \in Call
      BY <2>1, <2>2, <3>2, Zenon DEF Call
    <3> QED  BY <2>3, <3>2, <3>3, <3>4
  <2> QED  BY <2>4, <2>5
<1>2. CASE cookie' = Absent
  BY <1>1, <1>2, Zenon DEF TokenInv, TokenFresh
<1>3. CASE cookie' # Absent
  <2>1. /\ cookie # Absent /\ cookie.maxAge # 0
        /\ cookie' = [jwt |-> Nearer(cookie.jwt), maxAge |-> cookie.maxAge - 1]
    BY <1>3, Zenon DEF LoginTick
  <2>2. /\ cookie.jwt \in Token /\ cookie.maxAge \in 0 .. JwtLife
        /\ cookie.jwt >= cookie.maxAge - MaxSign
    BY <2>1, Zenon DEF TokenInv, TokenFresh
  <2>3. Nearer(cookie.jwt) \in Token /\ Nearer(cookie.jwt) >= cookie.jwt - 1
    BY <2>2, NearerToken, Zenon
  <2>4. /\ cookie'.jwt = Nearer(cookie.jwt) /\ cookie'.maxAge = cookie.maxAge - 1
        /\ cookie.maxAge - 1 \in 0 .. JwtLife
    BY <2>1, <2>2, LoginConstants
  <2>5. Nearer(cookie.jwt) >= (cookie.maxAge - 1) - MaxSign
    BY <2>2, <2>3, LoginConstants DEF Token
  <2> QED  BY <1>1, <2>1, <2>3, <2>4, <2>5 DEF TokenInv, TokenFresh
<1> QED  BY <1>2, <1>3

\* A call that is begun, or moves on to its next step, with a token that is
\* Absent or new.
LEMMA CallToken ==
    ASSUME TokenInv, NEW v \in Call, waiting' \subseteq waiting \cup {v}, cookie' = cookie,
           v.jwt \in {Absent, JwtLife}, v.step = "sign" => v.jwt # Absent
    PROVE  TokenInv'
<1>1. JwtLife >= JwtLife - MaxSign
  BY LoginConstants
<1> QED  BY <1>1 DEF TokenInv, TokenFresh

\* A token as createJWT makes it.
LEMMA FreshToken == JwtLife \in Token /\ createJWT = JwtLife /\ JwtLife # Absent
BY LoginConstants DEF Token, createJWT

\* A callback waits without a token.
LEMMA CallbackToken ==
    ASSUME TokenInv, NEW s \in OAuthState, handleCallback(s) PROVE TokenInv'
<1> DEFINE v == [state |-> s, step |-> "token", jwt |-> Absent]
<1>1. v \in Call /\ v.jwt = Absent /\ v.step # "sign"
  BY Zenon DEF Call, Step
<1>2. waiting' \subseteq waiting \cup {v} /\ cookie' = cookie
  BY Zenon DEF handleCallback
<1> QED  BY <1>1, <1>2, CallToken

\* The development login signs a fresh token.
LEMMA DevLoginToken == ASSUME TokenInv, handleDevLogin PROVE TokenInv'
<1> DEFINE v == [state |-> Absent, step |-> "sign", jwt |-> createJWT]
<1>1. v \in Call /\ v.jwt = JwtLife /\ v.jwt # Absent
  BY FreshToken, Zenon DEF Call, Step
<1>2. waiting' \subseteq waiting \cup {v} /\ cookie' = cookie
  BY Zenon DEF handleDevLogin
<1> QED  BY <1>1, <1>2, CallToken

\* The replies of the provider lead to a fresh token at most.
LEMMA ReplyToken ==
    ASSUME TokenInv, NEW w \in waiting, TokenReply(w) \/ UserReply(w) PROVE TokenInv'
<1>1. w \in Call
  BY Zenon DEF TokenInv
<1>2. CASE TokenReply(w) /\ w.jwt = Absent
  <2> DEFINE v == [w EXCEPT !.step = "user"]
  <2>1. v \in Call /\ v.jwt = Absent /\ v.step # "sign"
    BY <1>1, <1>2, Zenon DEF Call, Step
  <2>2. waiting' \subseteq waiting \cup {v} /\ cookie' = cookie
    BY <1>2, Zenon DEF TokenReply
  <2> QED  BY <2>1, <2>2, CallToken, Zenon
<1>3. CASE UserReply(w)
  <2> DEFINE v == [w EXCEPT !.step = "sign", !.jwt = createJWT]
  <2>1. v \in Call /\ v.jwt = JwtLife /\ v.jwt # Absent
    BY <1>1, FreshToken, Zenon DEF Call, Step
  <2>2. waiting' \subseteq waiting \cup {v} /\ cookie' = cookie
    BY <1>3, Zenon DEF UserReply
  <2> QED  BY <2>1, <2>2, CallToken, Zenon
<1>4. CASE TokenReply(w) /\ w.jwt # Absent
  <2> DEFINE v == [w EXCEPT !.step = "user"]
  <2>1. v \in Call /\ v.jwt = w.jwt /\ v.step # "sign"
    BY <1>1, Zenon DEF Call, Step
  <2>2. waiting' \subseteq waiting \cup {v} /\ cookie' = cookie
    BY <1>4, Zenon DEF TokenReply
  <2>3. v.jwt >= JwtLife - MaxSign
    BY <1>4, <2>1, Zenon DEF TokenInv, TokenFresh
  <2> QED  BY <2>1, <2>2, <2>3, Zenon DEF TokenInv, TokenFresh
<1> QED  BY <1>2, <1>3, <1>4

\* The cookie is set with a token younger than MaxSign.
LEMMA SetCookieToken == ASSUME TokenInv, NEW w \in waiting, SetCookie(w) PROVE TokenInv'
<1>1. /\ w \in Call /\ w.jwt # Absent /\ w.jwt >= JwtLife - MaxSign
      /\ waiting' \subseteq waiting /\ cookie' = [jwt |-> w.jwt, maxAge |-> JwtLife]
  BY Zenon DEF TokenInv, TokenFresh, SetCookie
<1>2. w.jwt \in Token /\ JwtLife \in 0 .. JwtLife
  BY <1>1, LoginConstants DEF Call
<1> QED  BY <1>1, <1>2 DEF TokenInv, TokenFresh
----------------------------------------------------------------------------
\* Every step keeps the invariant.
LEMMA LoginStep == LoginInv /\ [LoginNext]_lvars => LoginInv'
<1> SUFFICES ASSUME TableInv, TokenInv, [LoginNext]_lvars PROVE TableInv' /\ TokenInv'
  BY Parts, Zenon
<1>1. CASE LoginTick
  BY <1>1, TickTable, TickToken, Zenon
<1>2. CASE Sweep
  <2>1. UNCHANGED <<waiting, cookie>>  BY <1>2 DEF Sweep
  <2> QED  BY <1>2, <2>1, SweepTable, TokenUnchanged
<1>3. CASE handleDevLogin
  <2>1. UNCHANGED <<issued, pendingStates, sweepIn, exchanges>>  BY <1>3 DEF handleDevLogin
  <2> QED  BY <1>3, <2>1, TableUnchanged, DevLoginToken
<1>4. CASE handleLogout
  <2>1. UNCHANGED <<issued, pendingStates, sweepIn, exchanges>>  BY <1>4 DEF handleLogout
  <2>2. TokenInv'
    BY <1>4, Zenon DEF handleLogout, TokenInv, TokenFresh
  <2> QED  BY <2>1, <2>2, TableUnchanged
<1>5. ASSUME NEW s \in OAuthState, handleLogin(s) PROVE TableInv' /\ TokenInv'
  <2>1. UNCHANGED <<waiting, cookie>>  BY <1>5 DEF handleLogin
  <2> QED  BY <1>5, <2>1, LoginTable, TokenUnchanged
<1>6. ASSUME NEW s \in OAuthState, handleCallback(s) PROVE TableInv' /\ TokenInv'
  BY <1>6, CallbackTable, CallbackToken, Zenon
<1>7. CASE UNCHANGED lvars
  BY <1>7, TableUnchanged, TokenUnchanged, Zenon DEF lvars
<1>8. ASSUME NEW w \in waiting,
             CallbackFailed(w) \/ TokenReply(w) \/ UserReply(w) \/ SetCookie(w)
      PROVE  TableInv' /\ TokenInv'
  <2>1. UNCHANGED <<issued, pendingStates, sweepIn, exchanges>>
    BY <1>8, Zenon DEF CallbackFailed, TokenReply, UserReply, SetCookie
  <2>2. CallbackFailed(w) => TokenInv'
    BY Zenon DEF CallbackFailed, TokenInv, TokenFresh
  <2>3. TokenInv'
    BY <1>8, <2>2, ReplyToken, SetCookieToken, Zenon
  <2> QED  BY <2>1, <2>3, TableUnchanged
<1> QED
  BY <1>1, <1>2, <1>3, <1>4, <1>5, <1>6, <1>7, <1>8, Zenon DEF LoginNext,
     InvalidState

\* A state is never accepted later than the sweep that follows its expiry:
\* the sweep's timer alone bounds the age of what handleCallback finds.
THEOREM LoginTypes == LoginSpec => []LoginTypeOK
<1>1. LoginInv => LoginTypeOK  BY DEF LoginInv
<1> QED  BY <1>1, LoginInitInv, LoginStep, PTL DEF LoginSpec

\* A login state pays for one code exchange, however many callbacks the
\* browser sends with it (handleCallback deletes it before its first await).
THEOREM OneExchangeHolds == LoginSpec => []OneExchange
<1>1. LoginInv => OneExchange  BY DEF LoginInv
<1> QED  BY <1>1, LoginInitInv, LoginStep, PTL DEF LoginSpec

\* A cookie the browser still sends is recognised until MaxSign before its
\* end, whichever of several logins under way set it (createJWT, setCookie,
\* verifyJWT).
THEOREM CookieHonouredHolds == LoginSpec => []CookieHonoured
<1>1. ASSUME LoginInv, cookie # Absent, cookie.maxAge >= MaxSign
      PROVE  handleMe.authenticated
  <2>1. /\ cookie.jwt \in Token /\ cookie.maxAge \in 0 .. JwtLife
        /\ cookie.jwt >= cookie.maxAge - MaxSign
    BY <1>1, Parts, Zenon DEF TokenInv, TokenFresh
  <2>2. cookie.jwt \in Int /\ cookie.jwt >= 0
    BY <1>1, <2>1, LoginConstants DEF Token
  <2>3. verifyJWT(cookie.jwt) # Absent
    BY <2>2, LoginConstants DEF verifyJWT
  <2> QED  BY <1>1, <2>3, Zenon DEF handleMe, getUserFromCookie
<1>2. LoginInv => CookieHonoured  BY <1>1 DEF CookieHonoured
<1> QED  BY <1>2, LoginInitInv, LoginStep, PTL DEF LoginSpec

----------------------------------------------------------------------------
(* The pace of the states.                                                 *)

\* Two states were sent at least an interval apart.
Apart(a, b) == a >= b + Interval \/ b >= a + Interval

SentState == [pose : 0 .. MaxMoves, age : 0 .. Delay]

PaceTyped ==
    /\ pose \in 0 .. MaxMoves /\ tablePose \in 0 .. MaxMoves
    /\ lastSent \in 0 .. Interval /\ lastState \in 0 .. Interval
    /\ onWay \in Seq(SentState) /\ drops \in Nat

\* The states on their way are an interval apart, in the order of sending,
\* and no younger than the last one sent.
Spaced(w, n, last) ==
    /\ \A i \in 1 .. n : w[i].age >= last
    /\ \A i \in 1 .. n : w[i].age >= last + (n - i) * Interval
    /\ \A i, j \in 1 .. n : i < j => w[i].age >= w[j].age + Interval

Paced == Spaced(onWay, Len(onWay), lastSent)

\* x is the age by now of a state that was handled since the last accepted
\* one was, or of that one.
Handled(x) ==
    /\ x <= Delay + lastState
    /\ x >= lastSent
    /\ \A i \in 1 .. Len(onWay) : Apart(x, onWay[i].age)

\* While the throttle is shut there is the state that shut it, and one
\* that was dropped since, if any.
ShutBy ==
    ~stateFreqOk =>
        \E x \in Nat : /\ Handled(x)
                       /\ drops > 0 => \E y \in Nat : Handled(y) /\ Apart(x, y)

PaceInv == PaceTyped /\ Paced /\ ShutBy /\ NoTwoDrops

\* The sequence without its i-th element.
Without(s, i) == SubSeq(s, 1, i - 1) \o SubSeq(s, i + 1, Len(s))

(* Where the others go when an element is taken away.                      *)
LEMMA WithoutFacts ==
    ASSUME NEW S, NEW s \in Seq(S), NEW i \in 1 .. Len(s)
    PROVE  /\ Without(s, i) \in Seq(S)
           /\ Len(Without(s, i)) = Len(s) - 1
           /\ \A j \in 1 .. Len(s) - 1 :
                  Without(s, i)[j] = IF j < i THEN s[j] ELSE s[j + 1]
<1> DEFINE a == SubSeq(s, 1, i - 1)
           b == SubSeq(s, i + 1, Len(s))
<1>1. /\ a \in Seq(S) /\ Len(a) = i - 1
      /\ \A j \in 1 .. i - 1 : a[j] = s[j]
  OBVIOUS
<1>2. /\ b \in Seq(S) /\ Len(b) = Len(s) - i
      /\ \A j \in 1 .. Len(s) - i : b[j] = s[j + i]
  OBVIOUS
<1>3. Without(s, i) = a \o b
  BY Zenon DEF Without
<1> HIDE DEF a, b
<1>4. /\ a \o b \in Seq(S) /\ Len(a \o b) = Len(a) + Len(b)
      /\ \A j \in 1 .. Len(a) + Len(b) :
             (a \o b)[j] = IF j <= Len(a) THEN a[j] ELSE b[j - Len(a)]
  BY <1>1, <1>2, ConcatProperties, Zenon
<1>5. ASSUME NEW j \in 1 .. Len(s) - 1
      PROVE  (a \o b)[j] = IF j < i THEN s[j] ELSE s[j + 1]
  <2>1. j \in 1 .. Len(a) + Len(b)
    BY <1>1, <1>2
  <2>2. CASE j < i
    BY <1>1, <1>4, <2>1, <2>2
  <2>3. CASE ~(j < i)
    <3>1. j - (i - 1) \in 1 .. Len(s) - i /\ j - (i - 1) + i = j + 1 /\ ~(j <= Len(a))
      BY <1>1, <2>3
    <3>2. (a \o b)[j] = b[j - (i - 1)]
      BY <1>1, <1>4, <2>1, <3>1, Zenon
    <3> QED
      BY <1>2, <2>3, <3>1, <3>2, Zenon
  <2> QED
    BY <2>2, <2>3, Zenon
<1> QED
  BY <1>1, <1>2, <1>3, <1>4, <1>5, SMTT(60)

(* One interval more.                                                      *)
LEMMA OneMore == \A k, n \in Int : (k + 1) * n = k * n + n
  OBVIOUS

(* How many intervals there are in the delay.                              *)
LEMMA IntervalsIn ==
    ASSUME NEW k \in Nat, NEW d \in Nat, NEW n \in Nat, n > 0, k * n <= d
    PROVE  k <= d \div n
<1> DEFINE q == d \div n
<1>1. q \in Int /\ d < q * n + n
  OBVIOUS
<1> SUFFICES ASSUME q < k PROVE FALSE
  BY <1>1
<1> HIDE DEF q
<1>2. (k - (q + 1)) * n >= 0
  BY <1>1
<1>3. (k - (q + 1)) * n = k * n - (q * n + n)
  BY <1>1
<1> QED
  BY <1>1, <1>2, <1>3

(* The intervals, delays and moves are numbers.                            *)
LEMMA PaceConstants ==
    Interval \in Nat /\ Interval > 0 /\ Delay \in Nat /\ MaxMoves \in Nat
  BY PaceAssumption

(* At first nothing is on its way and the throttle is open.                *)
LEMMA PaceStart == PaceInit => PaceInv
<1> USE PaceConstants
<1> SUFFICES ASSUME PaceInit PROVE PaceInv
  BY Zenon
<1>1. PaceTyped
  BY DEF PaceInit, PaceTyped
<1>2. Len(onWay) = 0
  BY Zenon DEF PaceInit
<1> QED
  BY <1>1, <1>2 DEF PaceInit, PaceInv, Paced, Spaced, ShutBy, NoTwoDrops,
     stateFreqOk

(* A state is sent an interval after the last one.                         *)
LEMMA SendStep == PaceInv /\ maybeSendLocalState => PaceInv'
<1> USE PaceConstants
<1> SUFFICES ASSUME PaceInv, maybeSendLocalState PROVE PaceInv'
  BY Zenon
<1> DEFINE L == Len(onWay)
           sent == [pose |-> pose, age |-> 0]
<1>1. PaceTyped /\ Paced /\ ShutBy /\ NoTwoDrops
  BY Zenon DEF PaceInv
<1>2. /\ lastSent = Interval /\ lastSent' = 0 /\ onWay' = Append(onWay, sent)
      /\ UNCHANGED <<pose, tablePose, lastState, drops>>
  BY <1>1 DEF maybeSendLocalState, PaceTyped
<1>3. L \in Nat /\ sent \in SentState /\ sent.age = 0 /\ onWay \in Seq(SentState)
  BY <1>1 DEF PaceTyped, SentState
<1> HIDE DEF sent
<1>4. /\ onWay' \in Seq(SentState) /\ Len(onWay') = L + 1
      /\ \A i \in 1 .. L : onWay'[i] = onWay[i] /\ onWay[i].age \in Nat
      /\ onWay'[L + 1] = sent
  <2>1. \A i \in 1 .. L : onWay[i] \in SentState
    BY <1>3
  <2>2. \A i \in 1 .. L : onWay[i].age \in Nat
    BY <2>1 DEF SentState
  <2> QED
    BY <1>2, <1>3, <2>2
<1>5. PaceTyped'
  BY <1>1, <1>2, <1>4 DEF PaceTyped
<1> HIDE DEF L
<1>6. Paced'
  <2>1. \A i \in 1 .. L + 1 : onWay'[i].age \in Nat
    BY <1>3, <1>4
  <2>2. \A i \in 1 .. L : onWay[i].age >= Interval + (L - i) * Interval
    BY <1>1, <1>2, Zenon DEF Paced, Spaced, L
  <2>3. \A i \in 1 .. L + 1 : onWay'[i].age >= (L + 1 - i) * Interval
    <3> SUFFICES ASSUME NEW i \in 1 .. L + 1 PROVE onWay'[i].age >= (L + 1 - i) * Interval
      BY Zenon
    <3>1. CASE i = L + 1
      <4>1. (L + 1 - i) * Interval = 0
        BY <1>3, <3>1
      <4> QED
        BY <1>3, <1>4, <3>1, <4>1
    <3>2. CASE i # L + 1
      <4>1. i \in 1 .. L /\ L - i \in Int
        BY <1>3, <3>2
      <4>2. (L - i + 1) * Interval = (L - i) * Interval + Interval
        BY <4>1, OneMore
      <4>3. L + 1 - i = L - i + 1
        BY <1>3
      <4> QED
        BY <1>4, <2>2, <4>1, <4>2, <4>3
    <3> QED
      BY <3>1, <3>2, Zenon
  <2>4. ASSUME NEW i \in 1 .. L + 1, NEW j \in 1 .. L + 1, i < j
        PROVE  onWay'[i].age >= onWay'[j].age + Interval
    <3>1. i \in 1 .. L
      BY <1>3, <2>4
    <3>2. CASE j = L + 1
      <4>1. onWay[i].age >= Interval
        BY <1>1, <1>2, <3>1, Zenon DEF Paced, Spaced, L
      <4> QED
        BY <1>3, <1>4, <3>1, <3>2, <4>1
    <3>3. CASE j # L + 1
      <4>1. j \in 1 .. L
        BY <1>3, <3>3
      <4> QED
        BY <1>1, <1>4, <2>4, <3>1, <4>1, Zenon DEF Paced, Spaced, L
    <3> QED
      BY <3>2, <3>3, Zenon
  <2>5. PICK n \in Nat : n = L + 1
    BY <1>3
  <2>6. ASSUME NEW i \in 1 .. n
        PROVE  onWay'[i].age >= lastSent' + (n - i) * Interval
    <3>1. onWay'[i].age >= (n - i) * Interval
      BY <1>3, <2>3, <2>5
    <3>2. (n - i) * Interval \in Int /\ lastSent' = 0
      BY <1>2
    <3> QED
      BY <3>1, <3>2
  <2>7. \A i, j \in 1 .. n : i < j => onWay'[i].age >= onWay'[j].age + Interval
    BY <2>4, <2>5, Zenon
  <2>8. \A i \in 1 .. n : onWay'[i].age >= lastSent'
    <3>1. lastSent' = 0 /\ \A i \in 1 .. n : onWay'[i].age \in Nat
      BY <1>2, <2>1, <2>5, Zenon
    <3> QED
      BY <3>1
  <2>9. Spaced(onWay', n, lastSent')
    BY <2>6, <2>7, <2>8, Zenon DEF Spaced
  <2>10. Len(onWay') = n
    BY <1>4, <2>5, Zenon
  <2> QED
    BY <2>9, <2>10, Zenon DEF Paced
<1>7. ASSUME NEW x \in Nat, Handled(x)
      PROVE  Handled(x)'
  <2>1. \A i \in 1 .. L + 1 : Apart(x, onWay'[i].age)
    <3> SUFFICES ASSUME NEW i \in 1 .. L + 1 PROVE Apart(x, onWay'[i].age)
      BY Zenon
    <3>1. CASE i = L + 1
      BY <1>2, <1>3, <1>4, <1>7, <3>1 DEF Handled, Apart
    <3>2. CASE i # L + 1
      <4>1. i \in 1 .. L
        BY <1>3, <3>2
      <4> QED
        BY <1>4, <1>7, <4>1, Zenon DEF Handled, L
    <3> QED
      BY <3>1, <3>2, Zenon
  <2>2. x <= Delay + lastState /\ x >= 0
    BY <1>7 DEF Handled
  <2> QED
    BY <1>2, <1>4, <2>1, <2>2, Zenon DEF Handled
<1>8. ShutBy'
  BY <1>1, <1>2, <1>7, Zenon DEF ShutBy, stateFreqOk, Apart
<1> QED
  BY <1>1, <1>2, <1>5, <1>6, <1>8, Zenon DEF PaceInv, NoTwoDrops

(* Time makes all states older alike.                                      *)
LEMMA PaceTickStep == PaceInv /\ PaceTick => PaceInv'
<1> USE PaceConstants
<1> SUFFICES ASSUME PaceInv, PaceTick PROVE PaceInv'
  BY Zenon
<1> DEFINE L == Len(onWay)
<1>1. PaceTyped /\ Paced /\ ShutBy /\ NoTwoDrops
  BY Zenon DEF PaceInv
<1>2. L \in Nat /\ onWay \in [1 .. L -> SentState] /\ DOMAIN onWay = 1 .. L
  BY <1>1 DEF PaceTyped
<1>3. \A i \in 1 .. L : onWay[i].age \in Nat /\ onWay[i].age < Delay
  <2>1. \A i \in 1 .. L : onWay[i] \in SentState
    BY <1>2, Zenon
  <2>2. \A i \in 1 .. L : onWay[i].age < Delay
    BY <1>2, Zenon DEF PaceTick
  <2> QED
    BY <2>1, <2>2 DEF SentState
<1>4. /\ onWay' = [i \in 1 .. L |-> [onWay[i] EXCEPT !.age = onWay[i].age + 1]]
      /\ lastSent' = Older(lastSent, Interval) /\ lastState' = Older(lastState, Interval)
      /\ UNCHANGED <<pose, tablePose, drops>>
  BY <1>2, Zenon DEF PaceTick
<1>5. \A i \in 1 .. L : onWay'[i] \in SentState /\ onWay'[i].age = onWay[i].age + 1
  <2> SUFFICES ASSUME NEW i \in 1 .. L
               PROVE  onWay'[i] \in SentState /\ onWay'[i].age = onWay[i].age + 1
    BY Zenon
  <2>1. onWay'[i] = [onWay[i] EXCEPT !.age = onWay[i].age + 1]
    BY <1>4, Zenon
  <2>2. onWay[i] \in SentState /\ onWay[i].age + 1 \in 0 .. Delay
    BY <1>2, <1>3
  <2> QED
    BY <2>1, <2>2, Zenon DEF SentState
<1>6. /\ onWay' \in Seq(SentState) /\ Len(onWay') = L
      /\ lastSent' \in 0 .. Interval /\ lastState' \in 0 .. Interval
      /\ lastSent' <= lastSent + 1
      /\ lastState' < Interval => lastState' = lastState + 1
  <2>1. onWay' \in [1 .. L -> SentState]
    BY <1>4, <1>5, Zenon
  <2> QED
    BY <1>1, <1>2, <1>4, <2>1 DEF PaceTyped, Older
<1>7. PaceTyped'
  BY <1>1, <1>4, <1>6, Zenon DEF PaceTyped
<1>8. lastSent \in Nat /\ lastState \in Nat
  BY <1>1 DEF PaceTyped
<1>9. Spaced(onWay, L, lastSent)
  BY <1>1, Zenon DEF Paced
<1> HIDE DEF L
<1>10. Paced'
  <2>1. \A i \in 1 .. L : onWay'[i].age >= lastSent'
    <3> SUFFICES ASSUME NEW i \in 1 .. L PROVE onWay'[i].age >= lastSent'
      BY Zenon
    <3>1. onWay[i].age >= lastSent
      BY <1>9, Zenon DEF Spaced
    <3>2. onWay[i].age \in Nat /\ onWay'[i].age = onWay[i].age + 1
      BY <1>3, <1>5, Zenon
    <3>3. lastSent' \in Int /\ lastSent' <= lastSent + 1
      BY <1>6
    <3> QED
      BY <1>8, <3>1, <3>2, <3>3
  <2>2. \A i \in 1 .. L : onWay'[i].age >= lastSent' + (L - i) * Interval
    <3> SUFFICES ASSUME NEW i \in 1 .. L
                 PROVE  onWay'[i].age >= lastSent' + (L - i) * Interval
      BY Zenon
    <3> DEFINE d == (L - i) * Interval
    <3>1. d \in Int
      BY <1>2
    <3>2. onWay[i].age >= lastSent + d
      BY <1>9, Zenon DEF Spaced
    <3> HIDE DEF d
    <3>3. onWay[i].age \in Nat /\ onWay'[i].age = onWay[i].age + 1
      BY <1>3, <1>5, Zenon
    <3>4. lastSent' \in Int /\ lastSent' <= lastSent + 1
      BY <1>6
    <3>5. onWay'[i].age >= lastSent' + d
      BY <1>8, <3>1, <3>2, <3>3, <3>4
    <3> QED
      BY <3>5, Zenon DEF d
  <2>3. \A i, j \in 1 .. L : i < j => onWay'[i].age >= onWay'[j].age + Interval
    BY <1>3, <1>5, <1>9 DEF Spaced
  <2>4. Spaced(onWay', L, lastSent')
    BY <2>1, <2>2, <2>3, Zenon DEF Spaced
  <2> QED
    BY <1>6, <2>4, Zenon DEF Paced
<1>11. ASSUME NEW x \in Nat, Handled(x), lastState' = lastState + 1
       PROVE  Handled(x + 1)'
  <2>1. \A i \in 1 .. L : Apart(x, onWay[i].age)
    BY <1>11, Zenon DEF Handled, L
  <2>2. \A i \in 1 .. L : Apart(x + 1, onWay'[i].age)
    BY <1>3, <1>5, <2>1 DEF Apart
  <2>3. x + 1 <= Delay + lastState' /\ x + 1 >= lastSent'
    BY <1>6, <1>8, <1>11 DEF Handled
  <2> QED
    BY <1>6, <2>2, <2>3, Zenon DEF Handled
<1>12. ShutBy'
  <2>0. drops' = drops
    BY <1>4, Zenon
  <2> SUFFICES ASSUME ~stateFreqOk'
               PROVE  \E x \in Nat : /\ Handled(x)'
                                     /\ drops > 0 => \E y \in Nat : Handled(y)' /\ Apart(x, y)
    BY <2>0, Zenon DEF ShutBy, Apart
  <2>1. lastState' = lastState + 1 /\ ~stateFreqOk
    <3>1. lastState' \in 0 .. Interval /\ (lastState' < Interval => lastState' = lastState + 1)
      BY <1>6, Zenon
    <3>2. ~(4 * lastState' >= 3 * Interval)
      BY Zenon DEF stateFreqOk
    <3>3. lastState' = lastState + 1 /\ ~(4 * lastState >= 3 * Interval)
      <4>1. lastState' < Interval
        <5>1. \A t \in Nat : ~(4 * t >= 3 * Interval) => t < Interval
          OBVIOUS
        <5>2. lastState' \in Nat
          BY <3>1
        <5> QED
          BY <3>2, <5>1, <5>2, Zenon
      <4>2. lastState' = lastState + 1
        BY <1>8, <3>1, <4>1, Zenon
      <4> QED
        BY <1>8, <3>2, <4>2
    <3> QED
      BY <3>3, Zenon DEF stateFreqOk
  <2>2. PICK x \in Nat : Handled(x) /\ (drops > 0 => \E y \in Nat : Handled(y) /\ Apart(x, y))
    BY <1>1, <2>1, Zenon DEF ShutBy
  <2>3. x + 1 \in Nat /\ Handled(x + 1)'
    BY <1>11, <2>1, <2>2
  <2>4. ASSUME drops > 0
        PROVE  \E y \in Nat : Handled(y)' /\ Apart(x + 1, y)
    <3>1. PICK y \in Nat : Handled(y) /\ Apart(x, y)
      BY <2>2, <2>4, Zenon
    <3>2. y + 1 \in Nat /\ Handled(y + 1)' /\ Apart(x + 1, y + 1)
      BY <1>11, <2>1, <3>1 DEF Apart
    <3> QED
      BY <3>2, Zenon
  <2> QED
    BY <2>3, <2>4, Zenon
<1> QED
  BY <1>1, <1>4, <1>7, <1>10, <1>12, Zenon DEF PaceInv, NoTwoDrops

(* The throttle takes a state or drops it.  Two drops in a row would make  *)
(* three states, each an interval from the others, within the delay and    *)
(* the time the throttle is shut.                                          *)
LEMMA PaceHandleStep ==
    ASSUME PaceInv, NEW k \in DOMAIN onWay, PaceHandle(k)
    PROVE  PaceInv'
<1> USE PaceConstants
<1> DEFINE L == Len(onWay)
<1> PICK z : z = onWay[k].age
  BY Zenon
<1>1. PaceTyped /\ Paced /\ ShutBy /\ NoTwoDrops
  BY Zenon DEF PaceInv
<1>2. L \in Nat /\ onWay \in Seq(SentState) /\ k \in 1 .. L
  BY <1>1 DEF PaceTyped
<1>3. \A i \in 1 .. L : onWay[i] \in SentState /\ onWay[i].age \in 0 .. Delay
  <2>1. \A i \in 1 .. L : onWay[i] \in SentState
    BY <1>2
  <2> QED
    BY <2>1, Zenon DEF SentState
<1>4. /\ onWay' = Without(onWay, k) /\ pose' = pose /\ lastSent' = lastSent
      /\ \/ /\ stateFreqOk /\ tablePose' = onWay[k].pose
            /\ lastState' = 0 /\ drops' = 0
         \/ /\ ~stateFreqOk /\ drops' = drops + 1
            /\ UNCHANGED <<tablePose, lastState>>
  BY Zenon DEF PaceHandle, Without
<1>5. onWay[k].pose \in 0 .. MaxMoves
  BY <1>2, <1>3, Zenon DEF SentState
<1>6. /\ onWay' \in Seq(SentState) /\ Len(onWay') = L - 1
      /\ \A j \in 1 .. L - 1 : onWay'[j] = IF j < k THEN onWay[j] ELSE onWay[j + 1]
  BY <1>2, <1>4, WithoutFacts, Zenon
<1>7. PaceTyped'
  BY <1>1, <1>4, <1>5, <1>6 DEF PaceTyped
<1>8. lastSent \in Nat /\ lastState \in Nat /\ lastState <= Interval /\ drops \in Nat
  BY <1>1 DEF PaceTyped
<1>9. Spaced(onWay, L, lastSent)
  BY <1>1, Zenon DEF Paced
<1>10. z \in 0 .. Delay /\ z >= lastSent
  BY <1>2, <1>3, <1>9, Zenon DEF Spaced
<1>11. \A i \in 1 .. L : i # k => Apart(z, onWay[i].age)
  BY <1>2, <1>9, SMTT(60) DEF Spaced, Apart
<1> HIDE DEF L
<1>12. Paced'
  <2> DEFINE old(j) == IF j < k THEN j ELSE j + 1
  <2>1. \A j \in 1 .. L - 1 : /\ old(j) \in 1 .. L /\ old(j) # k
                              /\ onWay'[j] = onWay[old(j)] /\ L - 1 - j <= L - old(j)
                              /\ \A i \in 1 .. L - 1 : j < i => old(j) < old(i)
    BY <1>2, <1>6
  <2> HIDE DEF old
  <2>2. \A j \in 1 .. L - 1 : onWay'[j].age >= lastSent
    BY <1>9, <2>1, Zenon DEF Spaced
  <2>3. \A j \in 1 .. L - 1 : onWay'[j].age >= lastSent + (L - 1 - j) * Interval
    <3> SUFFICES ASSUME NEW j \in 1 .. L - 1
                 PROVE  onWay'[j].age >= lastSent + (L - 1 - j) * Interval
      BY Zenon
    <3>1. old(j) \in 1 .. L /\ L - 1 - j <= L - old(j)
      BY <2>1, Zenon
    <3> DEFINE a == L - 1 - j
               b == L - old(j)
    <3>2. a \in Int /\ b \in Int /\ a <= b
      BY <1>2, <3>1
    <3>3. onWay[old(j)].age >= lastSent + b * Interval
      BY <1>9, <3>1, Zenon DEF Spaced
    <3> HIDE DEF a, b
    <3>4. a * Interval <= b * Interval /\ a * Interval \in Int /\ b * Interval \in Int
      BY <3>2
    <3>5. onWay[old(j)].age \in Int
      BY <1>3, <3>1
    <3>6. onWay'[j].age >= lastSent + a * Interval
      BY <1>8, <2>1, <3>3, <3>4, <3>5
    <3> QED
      BY <3>6, Zenon DEF a
  <2>4. \A i, j \in 1 .. L - 1 : i < j => onWay'[i].age >= onWay'[j].age + Interval
    BY <1>9, <2>1, Zenon DEF Spaced
  <2>5. Spaced(onWay', L - 1, lastSent)
    BY <2>2, <2>3, <2>4, Zenon DEF Spaced
  <2> QED
    BY <1>4, <1>6, <2>5, Zenon DEF Paced
<1>13. /\ \A j \in 1 .. L - 1 : Apart(z, onWay'[j].age)
       /\ \A x \in Nat : Handled(x) => \A j \in 1 .. L - 1 : Apart(x, onWay'[j].age)
  <2>1. \A j \in 1 .. L - 1 : \E i \in 1 .. L : i # k /\ onWay'[j] = onWay[i]
    <3> SUFFICES ASSUME NEW j \in 1 .. L - 1
                 PROVE  \E i \in 1 .. L : i # k /\ onWay'[j] = onWay[i]
      BY Zenon
    <3>1. CASE j < k
      <4>1. j \in 1 .. L /\ j # k /\ onWay'[j] = onWay[j]
        BY <1>2, <1>6, <3>1
      <4> QED
        BY <4>1, Zenon
    <3>2. CASE ~(j < k)
      <4>1. j + 1 \in 1 .. L /\ j + 1 # k /\ onWay'[j] = onWay[j + 1]
        BY <1>2, <1>6, <3>2
      <4> QED
        BY <4>1, Zenon
    <3> QED
      BY <3>1, <3>2, Zenon
  <2> QED
    BY <1>11, <2>1, Zenon DEF Handled, L
<1>14. CASE stateFreqOk
  <2>1. lastState' = 0 /\ drops' = 0
    BY <1>4, <1>14, Zenon
  <2>2. Handled(z)'
    BY <1>4, <1>6, <1>10, <1>13, <2>1 DEF Handled
  <2>3. ShutBy'
    BY <1>10, <2>1, <2>2 DEF ShutBy
  <2> QED
    BY <1>7, <1>12, <2>1, <2>3 DEF PaceInv, NoTwoDrops
<1>15. CASE ~stateFreqOk
  <2>1. lastState' = lastState /\ drops' = drops + 1
    BY <1>4, <1>15, Zenon
  <2>2. Handled(z)'
    BY <1>4, <1>6, <1>8, <1>10, <1>13, <2>1 DEF Handled
  <2>3. PICK x \in Nat : Handled(x) /\ (drops > 0 => \E y \in Nat : Handled(y) /\ Apart(x, y))
    BY <1>1, <1>15, Zenon DEF ShutBy
  <2>4. Handled(x)'
    BY <1>4, <1>6, <1>13, <2>1, <2>3, Zenon DEF Handled
  <2>5. Apart(x, z)
    BY <1>2, <2>3, Zenon DEF Handled, L
  <2>6. ShutBy'
    BY <1>10, <2>2, <2>4, <2>5 DEF ShutBy, Apart
  <2>7. NoTwoDrops'
    <3> SUFFICES ASSUME 4 * Delay <= 5 * Interval, drops > 0 PROVE FALSE
      BY <1>8, <2>1 DEF NoTwoDrops
    <3>1. PICK y \in Nat : Handled(y) /\ Apart(x, y)
      BY <2>3, Zenon
    <3>2. Apart(y, z)
      BY <1>2, <3>1, Zenon DEF Handled, L
    <3>3. x <= Delay + lastState /\ y <= Delay + lastState /\ z <= Delay + lastState
      BY <1>8, <1>10, <2>3, <3>1 DEF Handled
    <3>4. Delay + lastState >= 2 * Interval
      BY <1>8, <1>10, <2>5, <3>1, <3>2, <3>3 DEF Apart
    <3>5. 4 * lastState < 3 * Interval
      BY <1>8, <1>15 DEF stateFreqOk
    <3> QED
      BY <1>8, <3>4, <3>5
  <2> QED
    BY <1>7, <1>12, <2>6, <2>7, Zenon DEF PaceInv
<1> QED
  BY <1>14, <1>15, Zenon

(* Every step keeps the invariant of the pace.                             *)
LEMMA PaceStep == PaceInv /\ [PaceNext]_pvars => PaceInv'
<1> SUFFICES ASSUME PaceInv, [PaceNext]_pvars PROVE PaceInv'
  BY Zenon
<1>1. CASE Move
  <2>1. UNCHANGED <<lastSent, onWay, tablePose, lastState, drops>> /\ pose' \in 0 .. MaxMoves
    BY <1>1, PaceConstants DEF Move, PaceInv, PaceTyped
  <2> QED
    BY <2>1, Zenon DEF PaceInv, PaceTyped, Paced, ShutBy, Handled,
       stateFreqOk, NoTwoDrops
<1>2. CASE UNCHANGED pvars
  BY <1>2, Zenon DEF pvars, PaceInv, PaceTyped, Paced, ShutBy, Handled,
     stateFreqOk, NoTwoDrops
<1> QED
  BY <1>1, <1>2, SendStep, PaceTickStep, PaceHandleStep, Zenon DEF PaceNext

(* The invariant gives the types of the module: the first state on its way *)
(* is at least as many intervals old as states were sent after it.         *)
LEMMA PacePromises == PaceInv => PaceTypeOK /\ NoTwoDrops
<1> SUFFICES ASSUME PaceInv PROVE PaceTypeOK
  BY Zenon DEF PaceInv
<1> USE PaceConstants
<1>1. onWay \in Seq(SentState) /\ Len(onWay) \in Nat
  BY DEF PaceInv, PaceTyped
<1>2. \A i \in DOMAIN onWay : onWay[i] \in SentState
  BY <1>1
<1>3. Len(onWay) <= 1 + Delay \div Interval
  <2>1. Delay \div Interval \in Nat
    OBVIOUS
  <2>2. CASE Len(onWay) = 0
    BY <2>1, <2>2
  <2>3. CASE Len(onWay) # 0
    <3> DEFINE k == Len(onWay) - 1
    <3>1. 1 \in 1 .. Len(onWay) /\ 1 \in DOMAIN onWay /\ k \in Nat
      BY <1>1, <2>3
    <3>2. onWay[1].age \in 0 .. Delay
      BY <1>2, <3>1, Zenon DEF SentState
    <3>3. lastSent \in Nat /\ onWay[1].age >= lastSent + k * Interval
      BY <3>1 DEF PaceInv, PaceTyped, Paced, Spaced
    <3> HIDE DEF k
    <3>4. k * Interval \in Nat
      BY <3>1
    <3>5. k * Interval <= Delay
      BY <3>2, <3>3, <3>4
    <3>6. k <= Delay \div Interval
      BY <3>1, <3>5, IntervalsIn, Zenon
    <3> QED
      BY <1>1, <2>1, <3>6 DEF k
  <2> QED
    BY <2>2, <2>3, Zenon
<1> QED
  BY <1>2, <1>3, Zenon DEF PaceInv, PaceTyped, PaceTypeOK, SentState

(* The slack of a quarter in stateFreqOk is enough for any interval and    *)
(* any delay up to five quarters of it, however long the player moves:     *)
(* never are two states dropped in a row, although states overtake each    *)
(* other on the way.                                                       *)
THEOREM NeverTwoDrops == PaceSpec => []NoTwoDrops
<1>1. PaceInit => PaceInv
  BY PaceStart, Zenon
<1>2. PaceInv /\ [PaceNext]_pvars => PaceInv'
  BY PaceStep, Zenon
<1>3. PaceInv => NoTwoDrops
  BY PacePromises, Zenon
<1> QED
  BY <1>1, <1>2, <1>3, PTL DEF PaceSpec

----------------------------------------------------------------------------
(* The health of the own player.                                           *)

MailKind == {"welcome", "join", "snapshot", "hit", "death", "respawn"}

\* The messages of the first l connections up to a time, and what the page
\* holds of its player by then.
Mail(l, now) == [t : MailKind, id : 1 .. l, hp : 0 .. MaxHp, stamp : 0 .. now]

Self(l, now) ==
    [id : 0 .. l, there : BOOLEAN, dead : BOOLEAN, hp : 0 .. MaxHp, lastHpAt : 0 .. now,
     pending : {<<>>} \cup {<<m>> : m \in Mail(l, now)}]

HealthTyped ==
    /\ login \in 0 .. MaxLogins /\ linked \in BOOLEAN /\ (linked => login > 0)
    /\ hp \in 0 .. MaxHp /\ hits \in 0 .. MaxHits /\ updatedAt \in 0 .. Now
    /\ toPage \subseteq Mail(login, Now) /\ own \in Self(login, Now)
    /\ overlay \in BOOLEAN /\ carried \in BOOLEAN /\ watched \in BOOLEAN

\* A message that kills is on its way only while the server holds the player
\* for dead: the dead are no targets, and revive when the news is over.
KillsAreTrue ==
    linked => \A m \in toPage : m.id = login /\ Kills(m) => hp = 0

DeathInv ==
    /\ HealthTyped /\ KillsAreTrue /\ NoFalseDeath
    /\ OverlayTrue /\ (carried => overlay)

\* What is on its way belongs to the present connection, nobody is dead
\* without one, and a page that saw the lethal hit coming still shows its
\* player, with no respawn on its way, until the server revives it.
WatchInv ==
    /\ \A m \in toPage : m.id = login
    /\ ~linked => hp # 0
    /\ linked /\ hp = 0 /\ watched => Watching
    /\ NoMissedDeath

HealthInv == DeathInv /\ WatchInv

(* Hp is positive at first and damage is done.                             *)
LEMMA HealthConstants ==
    /\ MaxHp \in Nat /\ MaxHp > 0 /\ damage \in Nat /\ damage > 0
    /\ MaxLogins \in Nat /\ MaxLogins > 0 /\ MaxHits \in Nat
  BY HealthAssumption

(* What was a message or a player on the page remains one.                 *)
LEMMA MailGrows ==
    ASSUME NEW l \in Nat, NEW k \in Nat, l <= k, NEW s \in Nat, NEW t \in Nat, s <= t
    PROVE  Mail(l, s) \subseteq Mail(k, t) /\ Self(l, s) \subseteq Self(k, t)
<1> USE HealthConstants
<1>1. 0 .. l \subseteq 0 .. k /\ 1 .. l \subseteq 1 .. k /\ 0 .. s \subseteq 0 .. t
  OBVIOUS
<1>2. Mail(l, s) \subseteq Mail(k, t)
  BY <1>1, Zenon DEF Mail
<1>3. ASSUME NEW g \in Self(l, s)
      PROVE  g \in Self(k, t)
  <2>1. g.pending \in {<<>>} \cup {<<m>> : m \in Mail(k, t)}
    BY <1>2, <1>3, Zenon DEF Self
  <2>2. /\ g = [id |-> g.id, there |-> g.there, dead |-> g.dead, hp |-> g.hp,
                lastHpAt |-> g.lastHpAt, pending |-> g.pending]
        /\ g.id \in 0 .. l /\ g.there \in BOOLEAN /\ g.dead \in BOOLEAN
        /\ g.hp \in 0 .. MaxHp /\ g.lastHpAt \in 0 .. s
    BY Zenon DEF Self
  <2> HIDE DEF Mail
  <2> QED
    BY <1>1, <2>1, <2>2, Zenon DEF Self
<1> QED
  BY <1>2, <1>3, Zenon

(* A message makes a player of the page out of one.                        *)
LEMMA AppliedTyped ==
    ASSUME NEW l \in Nat, NEW s \in Nat, NEW g \in Self(l, s), NEW m \in Mail(l, s)
    PROVE  Applied(g, m) \in Self(l, s)
<1> USE HealthConstants
<1>1. ASSUME NEW h \in Self(l, s), NEW x \in Mail(l, s)
      PROVE  SnapshotOwn(h, x) \in Self(l, s)
  <2>1. x.hp \in 0 .. MaxHp /\ x.stamp \in 0 .. s
    BY Zenon DEF Mail
  <2>2. createLocal(h, x) \in Self(l, s)
    BY <2>1, Zenon DEF createLocal, Self
  <2> DEFINE c == IF h.there THEN h ELSE createLocal(h, x)
  <2>3. c \in Self(l, s)
    BY <2>2, Zenon
  <2> HIDE DEF c
  <2>4. [c EXCEPT !.hp = x.hp, !.lastHpAt = x.stamp] \in Self(l, s)
    BY <2>1, <2>3, Zenon DEF Self
  <2>5. SnapshotOwn(h, x) \in {h, c, [c EXCEPT !.hp = x.hp, !.lastHpAt = x.stamp]}
    BY Zenon DEF SnapshotOwn, c
  <2> QED
    BY <2>3, <2>4, <2>5, Zenon
<1>2. m.id \in 0 .. l /\ m.hp \in 0 .. MaxHp /\ m.stamp \in 0 .. s
  BY DEF Mail
<1>3. WelcomeOwn(g, m) \in Self(l, s)
  <2> DEFINE c == [g EXCEPT !.there = g.there /\ g.id = m.id, !.id = m.id, !.pending = <<>>]
  <2>1. c \in Self(l, s)
    BY <1>2, Zenon DEF Self
  <2>2. g.pending # <<>> => Head(g.pending) \in Mail(l, s)
    <3>1. g.pending \in {<<>>} \cup {<<x>> : x \in Mail(l, s)}
      BY Zenon DEF Self
    <3> QED
      BY <3>1
  <2> HIDE DEF c
  <2>3. WelcomeOwn(g, m) = IF g.pending = <<>> THEN c ELSE SnapshotOwn(c, Head(g.pending))
    BY Zenon DEF WelcomeOwn, c
  <2> QED
    BY <1>1, <2>1, <2>2, <2>3, Zenon
<1>4. [g EXCEPT !.pending = <<m>>] \in Self(l, s)
  BY Zenon DEF Self
<1>5. createLocal(g, m) \in Self(l, s)
  BY <1>2, Zenon DEF createLocal, Self
<1>6. /\ [g EXCEPT !.hp = m.hp, !.lastHpAt = m.stamp, !.dead = @ \/ m.hp <= 0] \in Self(l, s)
      /\ [g EXCEPT !.dead = TRUE] \in Self(l, s)
      /\ [g EXCEPT !.dead = FALSE, !.hp = m.hp] \in Self(l, s)
  BY <1>2, Zenon DEF Self
<1> QED
  BY <1>1, <1>3, <1>4, <1>5, <1>6, Zenon DEF Applied

(* A message leaves the player lying dead exactly if it kills the player,  *)
(* or finds it dead and does not revive it.  A player that gets another id *)
(* is not dead.                                                            *)
LEMMA AppliedDead ==
    ASSUME NEW l \in Nat, NEW s \in Nat, NEW g \in Self(l, s), NEW m \in Mail(l, s)
    PROVE  /\ Applied(g, m).id # g.id => ~(Applied(g, m).there /\ Applied(g, m).dead)
           /\ m.id = g.id /\ g.there /\ Kills(m) =>
                  Applied(g, m).there /\ Applied(g, m).dead
           /\ m.id = g.id /\ g.there /\ m.t = "respawn" => ~Applied(g, m).dead
           /\ /\ ~(m.id = g.id /\ g.there /\ Kills(m))
              /\ ~(m.id = g.id /\ g.there /\ m.t = "respawn")
              /\ Applied(g, m).id = g.id
              => (Applied(g, m).there /\ Applied(g, m).dead <=> g.there /\ g.dead)
<1> USE HealthConstants
<1>0. /\ m.t \in MailKind /\ m.id \in 0 .. l /\ m.hp \in 0 .. MaxHp
      /\ g.there \in BOOLEAN /\ g.dead \in BOOLEAN
  BY DEF Mail, Self
<1>1. ASSUME NEW h \in Self(l, s), NEW x
      PROVE  /\ SnapshotOwn(h, x).id = h.id
             /\ SnapshotOwn(h, x).there /\ SnapshotOwn(h, x).dead <=> h.there /\ h.dead
  BY Zenon DEF SnapshotOwn, createLocal, Self
<1>2. CASE m.t = "welcome"
  <2> DEFINE c == [g EXCEPT !.there = g.there /\ g.id = m.id, !.id = m.id, !.pending = <<>>]
  <2>0. c \in Self(l, s) /\ c.id = m.id /\ c.dead = g.dead
    <3>1. c \in Self(l, s)
      BY <1>0, Zenon DEF Self
    <3> QED
      BY <3>1, Zenon DEF Self
  <2>1. c.there <=> g.there /\ g.id = m.id
    BY <1>0, Zenon DEF Self
  <2>2. Applied(g, m) = IF g.pending = <<>> THEN c ELSE SnapshotOwn(c, Head(g.pending))
    BY <1>2, Zenon DEF Applied, WelcomeOwn
  <2> HIDE DEF c
  <2>3. /\ Applied(g, m).id = m.id
        /\ Applied(g, m).there /\ Applied(g, m).dead <=> c.there /\ c.dead
    <3>1. CASE g.pending = <<>>
      BY <2>0, <2>2, <3>1, Zenon
    <3>2. CASE g.pending # <<>>
      <4> DEFINE d == SnapshotOwn(c, Head(g.pending))
      <4>1. Applied(g, m) = d
        BY <2>2, <3>2, Zenon
      <4>2. d.id = c.id /\ (d.there /\ d.dead <=> c.there /\ c.dead)
        BY <1>1, <2>0, Zenon
      <4> HIDE DEF d
      <4> QED
        BY <2>0, <4>1, <4>2, Zenon
    <3> QED
      BY <3>1, <3>2, Zenon
  <2>4. ~Kills(m) /\ m.t # "respawn"
    BY <1>2, Zenon DEF Kills
  <2> QED
    BY <2>0, <2>1, <2>3, <2>4, Zenon
<1>3. CASE m.t = "snapshot"
  <2>1. CASE g.id = 0
    BY <1>3, <2>1, Zenon DEF Applied, Kills, Self
  <2>2. CASE g.id # 0
    <3>1. Applied(g, m) = SnapshotOwn(g, m)
      BY <1>3, <2>2, Zenon DEF Applied
    <3> QED
      BY <1>1, <1>3, <3>1 DEF Kills
  <2> QED
    BY <2>1, <2>2, Zenon
<1>4. CASE m.t = "join"
  BY <1>0, <1>4, Zenon DEF Applied, createLocal, Kills, Self
<1>5. CASE m.t = "hit"
  BY <1>0, <1>5, Zenon DEF Applied, Kills, Self
<1>6. CASE m.t = "death"
  BY <1>0, <1>6, Zenon DEF Applied, Kills, Self
<1>7. CASE m.t = "respawn"
  BY <1>0, <1>7, Zenon DEF Applied, Kills, Self
<1> QED
  BY <1>0, <1>2, <1>3, <1>4, <1>5, <1>6, <1>7, Zenon DEF MailKind

(* Before the page has logged in nobody is dead.                           *)
LEMMA HealthStart == HealthInit => HealthInv
<1> SUFFICES ASSUME HealthInit PROVE HealthInv
  BY Zenon
<1> USE HealthConstants DEF HealthInit
<1>1. own \in Self(login, Now)
  BY DEF Self, Now
<1>2. login \in 0 .. MaxLogins /\ hp \in 0 .. MaxHp /\ hits \in 0 .. MaxHits
      /\ updatedAt \in 0 .. Now
  BY DEF Now
<1>3. linked \in BOOLEAN /\ ~linked /\ toPage \subseteq Mail(login, Now)
      /\ overlay \in BOOLEAN /\ carried \in BOOLEAN /\ watched \in BOOLEAN
  BY Zenon
<1>4. HealthTyped
  BY <1>1, <1>2, <1>3, Zenon DEF HealthTyped
<1>5. KillsAreTrue /\ NoFalseDeath /\ OverlayTrue /\ (carried => overlay)
  BY Zenon DEF KillsAreTrue, NoFalseDeath, OverlayTrue
<1>6. hp # 0
  OBVIOUS
<1>7. WatchInv
  BY <1>6, Zenon DEF WatchInv, NoMissedDeath
<1> QED
  BY <1>4, <1>5, <1>7, Zenon DEF DeathInv, HealthInv

(* Messages, players and stamps keep their types.                          *)
LEMMA HealthTypes == HealthTyped /\ [HealthNext]_hvars => HealthTyped'
<1> SUFFICES ASSUME HealthTyped, [HealthNext]_hvars
             PROVE  HealthTyped'
  BY Zenon
<1> USE HealthConstants DEF HealthTyped
<1>1. Now \in Nat /\ login \in Nat /\ hits \in Nat
  BY DEF Now
<1>2. ASSUME NEW what \in MailKind, NEW l \in Nat, NEW id \in 1 .. l,
             NEW h \in 0 .. MaxHp, NEW s \in Nat, NEW stamp \in 0 .. s
      PROVE  Msg(what, id, h, stamp) \in Mail(l, s)
  BY Zenon DEF Msg, Mail
<1>3. CASE Join
  <2>1. login' = login + 1 /\ hits' = hits /\ hp' = hp /\ login' \in 0 .. MaxLogins
        /\ own' = own /\ overlay' = overlay /\ carried' = carried /\ watched' = watched
        /\ linked' \in BOOLEAN /\ login' > 0
    BY <1>3 DEF Join
  <2>2. Now' = Now /\ updatedAt' \in 0 .. Now'
    BY <1>1, <1>3, <2>1 DEF Join, Now
  <2>3. own' \in Self(login', Now')
    BY <1>1, <2>1, <2>2, MailGrows
  <2>4. toPage' \subseteq Mail(login', Now')
    <3>1. login + 1 \in 1 .. login + 1 /\ MaxHp \in 0 .. MaxHp /\ Now \in 0 .. Now
          /\ login + 1 \in Nat
      BY <1>1
    <3>2. \A what \in {"join", "welcome"} : Msg(what, login + 1, MaxHp, Now) \in Mail(login + 1, Now)
      BY <1>1, <1>2, <3>1, Zenon DEF MailKind
    <3>3. toPage' = {Msg(what, login + 1, MaxHp, Now) : what \in {"join", "welcome"}}
      BY <1>3, Zenon DEF Join
    <3> QED
      BY <2>1, <2>2, <3>2, <3>3, Zenon
  <2>5. hp' \in 0 .. MaxHp /\ hits' \in 0 .. MaxHits /\ overlay' \in BOOLEAN
        /\ carried' \in BOOLEAN /\ watched' \in BOOLEAN
    BY <2>1, Zenon
  <2> QED
    BY <2>1, <2>2, <2>3, <2>4, <2>5, Zenon
<1>4. CASE Lose
  <2>1. login' = login /\ hits' = hits /\ hp' = MaxHp /\ own' = own /\ updatedAt' = updatedAt
        /\ overlay' = overlay /\ carried' = carried /\ watched' = watched /\ linked' = FALSE
        /\ toPage' \subseteq toPage
    BY <1>4, Zenon DEF Lose
  <2>2. Now' = Now
    BY <2>1, Zenon DEF Now
  <2>3. hp' \in 0 .. MaxHp
    BY <2>1
  <2> QED
    BY <2>1, <2>2, <2>3, Zenon
<1>5. CASE Hit
  <2> DEFINE h == IF hp > damage THEN hp - damage ELSE 0
             news == IF h = 0 THEN {"hit", "death"} ELSE {"hit"}
  <2>1. login' = login /\ hits' = hits + 1 /\ hp' = h /\ own' = own /\ linked' = linked
        /\ updatedAt' \in {Now, Now + 1} /\ hits' \in 0 .. MaxHits
        /\ overlay' = overlay /\ carried' = carried
        /\ toPage' = toPage \cup {Msg(what, login, h, Now + 1) : what \in news}
    BY <1>5 DEF Hit
  <2>2. Now' = Now + 2 /\ h \in 0 .. MaxHp
    BY <1>1, <2>1 DEF Now
  <2>3. news \subseteq MailKind
    BY Zenon DEF MailKind
  <2> HIDE DEF h, news
  <2>4. toPage' \subseteq Mail(login', Now')
    <3>1. Mail(login, Now) \subseteq Mail(login, Now + 2)
      BY <1>1, MailGrows
    <3>2. login \in 1 .. login /\ Now + 1 \in 0 .. Now + 2 /\ Now + 2 \in Nat
      BY <1>1, <1>5 DEF Hit
    <3>3. \A what \in news : Msg(what, login, h, Now + 1) \in Mail(login, Now + 2)
      BY <1>1, <1>2, <2>2, <2>3, <3>2, Zenon
    <3> QED
      BY <2>1, <2>2, <3>1, <3>3, Zenon
  <2>5. own' \in Self(login', Now')
    BY <1>1, <2>1, <2>2, MailGrows
  <2>6. updatedAt' \in 0 .. Now' /\ (linked' => login' > 0) /\ hp' \in 0 .. MaxHp
    BY <1>1, <2>1, <2>2
  <2>7. watched' \in BOOLEAN
    <3>1. watched' \in {watched, Watching}
      BY <1>5, Zenon DEF Hit
    <3> QED
      BY <3>1, Zenon DEF Watching
  <2> QED
    BY <2>1, <2>4, <2>5, <2>6, <2>7, Zenon
<1>6. CASE StateArrives
  <2>1. login' = login /\ hits' = hits /\ own' = own /\ linked' = linked
        /\ updatedAt' = Now /\ overlay' = overlay /\ carried' = carried /\ watched' = watched
    BY <1>6, Zenon DEF StateArrives
  <2>2. Now' = Now /\ updatedAt' \in 0 .. Now /\ hp' \in 0 .. MaxHp
    BY <1>1, <1>6, <2>1 DEF Now, StateArrives
  <2>3. toPage' \subseteq toPage \cup {Msg("respawn", login, MaxHp, Now)}
    BY <1>6, Zenon DEF StateArrives
  <2>4. Msg("respawn", login, MaxHp, Now) \in Mail(login, Now)
    <3>1. login \in 1 .. login /\ MaxHp \in 0 .. MaxHp /\ Now \in 0 .. Now
      BY <1>1, <1>6 DEF StateArrives
    <3> QED
      BY <1>1, <1>2, <3>1, Zenon DEF MailKind
  <2> QED
    BY <2>1, <2>2, <2>3, <2>4, Zenon
<1>7. CASE Ping
  <2>1. UNCHANGED <<login, linked, hp, hits, toPage, own, overlay, carried, watched>> /\ updatedAt' = Now
    BY <1>7, Zenon DEF Ping
  <2>2. Now' = Now /\ updatedAt' \in 0 .. Now
    BY <1>1, <2>1 DEF Now
  <2> QED
    BY <2>1, <2>2, Zenon
<1>8. CASE Snapshot
  <2>1. UNCHANGED <<login, linked, hp, updatedAt, hits, own, overlay, carried, watched>>
        /\ toPage' = toPage \cup {Msg("snapshot", login, hp, updatedAt)}
    BY <1>8, Zenon DEF Snapshot
  <2>2. Now' = Now
    BY <2>1, Zenon DEF Now
  <2>3. Msg("snapshot", login, hp, updatedAt) \in Mail(login, Now)
    <3>1. login \in 1 .. login
      BY <1>1, <1>8 DEF Snapshot
    <3> QED
      BY <1>1, <1>2, <3>1, Zenon DEF MailKind
  <2> QED
    BY <2>1, <2>2, <2>3, Zenon
<1>9. ASSUME NEW m \in toPage, Apply(m)
      PROVE  HealthTyped'
  <2>1. UNCHANGED <<login, linked, hp, updatedAt, hits, watched>> /\ toPage' \subseteq toPage
        /\ own' = Applied(own, m)
    BY <1>9, Zenon DEF Apply
  <2>2. Now' = Now
    BY <2>1, Zenon DEF Now
  <2>3. own' \in Self(login, Now)
    <3>1. m \in Mail(login, Now)
      BY <1>9, Zenon
    <3> QED
      BY <1>1, <2>1, <3>1, AppliedTyped, Zenon
  <2>4. overlay' \in BOOLEAN
    BY <1>9, Zenon DEF Apply, OverlayAfter
  <2>5. carried' \in BOOLEAN
    BY <1>9, Zenon DEF Apply
  <2> QED
    BY <2>1, <2>2, <2>3, <2>4, <2>5, Zenon
<1>10. CASE UNCHANGED hvars
  <2>1. UNCHANGED <<login, linked, hp, updatedAt, hits, toPage, own, overlay, carried, watched>>
    BY <1>10, Zenon DEF hvars
  <2>2. Now' = Now
    BY <2>1, Zenon DEF Now
  <2> QED
    BY <2>1, <2>2, Zenon
<1> QED
  BY <1>3, <1>4, <1>5, <1>6, <1>7, <1>8, <1>9, <1>10, Zenon DEF HealthNext

(* Every step keeps the invariant: the dead are hit no more, and a message *)
(* that kills is applied before the server revives the player.             *)
LEMMA DeathStep == DeathInv /\ [HealthNext]_hvars => DeathInv'
<1> SUFFICES ASSUME DeathInv, [HealthNext]_hvars
             PROVE  DeathInv'
  BY Zenon
<1> USE HealthConstants
<1>1. HealthTyped /\ KillsAreTrue /\ NoFalseDeath /\ OverlayTrue /\ (carried => overlay)
  BY Zenon DEF DeathInv
<1>2. HealthTyped'
  BY <1>1, HealthTypes, Zenon
<1>3. /\ login \in Nat /\ own.id \in 0 .. login /\ hp \in 0 .. MaxHp
      /\ own.there \in BOOLEAN /\ own.dead \in BOOLEAN
      /\ overlay \in BOOLEAN /\ carried \in BOOLEAN
  BY <1>1 DEF HealthTyped, Self
<1>4. ASSUME UNCHANGED <<own, overlay, carried>>
      PROVE  OverlayTrue' /\ (carried' => overlay')
  BY <1>1, <1>4, Zenon DEF OverlayTrue
<1>5. CASE Join
  <2>1. KillsAreTrue'
    BY <1>5 DEF Join, KillsAreTrue, Kills, Msg
  <2>2. NoFalseDeath'
    BY <1>3, <1>5 DEF Join, NoFalseDeath, RespawnOnWay
  <2> QED
    BY <1>2, <1>4, <1>5, <2>1, <2>2, Zenon DEF Join, DeathInv
<1>6. CASE Lose
  <2>1. KillsAreTrue' /\ NoFalseDeath'
    BY <1>6, Zenon DEF Lose, KillsAreTrue, NoFalseDeath, RespawnOnWay
  <2> QED
    BY <1>2, <1>4, <1>6, <2>1, Zenon DEF Lose, DeathInv
<1>7. ASSUME ~Frozen, linked, NEW m \in toPage, m.id = login
      PROVE  ~Kills(m)
  <2>1. Kills(m) => m.t \in {"hit", "death"}
    BY Zenon DEF Kills
  <2> QED
    BY <1>1, <1>3, <1>7, <2>1 DEF Frozen, KillsAreTrue
<1>8. CASE Hit
  <2> DEFINE h == IF hp > damage THEN hp - damage ELSE 0
             news == IF h = 0 THEN {"hit", "death"} ELSE {"hit"}
  <2>1. /\ linked /\ ~Frozen /\ hp' = h /\ login' = login /\ linked' = linked
        /\ toPage' = toPage \cup {Msg(what, login, h, Now + 1) : what \in news}
        /\ own' = own
    BY <1>8, Zenon DEF Hit
  <2>2. KillsAreTrue'
    <3> SUFFICES ASSUME NEW m \in toPage', m.id = login, Kills(m)
                 PROVE  h = 0
      BY <2>1, Zenon DEF KillsAreTrue
    <3>1. CASE m \in toPage
      BY <1>7, <2>1, <3>1, Zenon
    <3>2. CASE m \notin toPage
      <4>1. PICK what \in news : m = Msg(what, login, h, Now + 1)
        BY <2>1, <3>2, Zenon
      <4>2. m.t = what /\ m.hp = h
        BY <4>1 DEF Msg
      <4>3. what = "death" => h = 0
        BY Zenon
      <4> QED
        BY <1>3, <4>2, <4>3 DEF Kills
    <3> QED
      BY <3>1, <3>2, Zenon
  <2>3. hp = 0 => h = 0
    OBVIOUS
  <2> HIDE DEF h, news
  <2>4. NoFalseDeath'
    BY <1>1, <2>1, <2>3, Zenon DEF NoFalseDeath, RespawnOnWay
  <2> QED
    BY <1>2, <1>4, <1>8, <2>2, <2>4, Zenon DEF Hit, DeathInv
<1>9. CASE StateArrives
  <2>1. /\ linked /\ ~Frozen /\ login' = login /\ linked' = linked /\ own' = own
        /\ \/ hp' = hp /\ toPage' = toPage
           \/ toPage' = toPage \cup {Msg("respawn", login, MaxHp, Now)}
    BY <1>9, Zenon DEF StateArrives
  <2>2. /\ Msg("respawn", login, MaxHp, Now).t = "respawn"
        /\ Msg("respawn", login, MaxHp, Now).id = login
        /\ ~Kills(Msg("respawn", login, MaxHp, Now))
    BY Zenon DEF Msg, Kills
  <2>3. KillsAreTrue'
    <3>1. \A m \in toPage : m.id = login => ~Kills(m)
      BY <1>7, <2>1, Zenon
    <3>2. \A m \in toPage' : m.id = login => ~Kills(m)
      BY <2>1, <2>2, <3>1, Zenon
    <3> QED
      BY <2>1, <3>2, Zenon DEF KillsAreTrue, Kills
  <2>4. NoFalseDeath'
    BY <1>1, <2>1, <2>2, Zenon DEF NoFalseDeath, RespawnOnWay
  <2> QED
    BY <1>2, <1>4, <1>9, <2>3, <2>4, Zenon DEF StateArrives, DeathInv
<1>10. CASE Ping
  <2>1. KillsAreTrue' /\ NoFalseDeath'
    BY <1>1, <1>10, Zenon DEF Ping, KillsAreTrue, NoFalseDeath, RespawnOnWay, Kills
  <2> QED
    BY <1>2, <1>4, <1>10, <2>1, Zenon DEF Ping, DeathInv
<1>11. CASE Snapshot
  <2>1. ~Kills(Msg("snapshot", login, hp, updatedAt))
    BY Zenon DEF Msg, Kills
  <2>2. KillsAreTrue' /\ NoFalseDeath'
    BY <1>1, <1>11, <2>1 DEF Snapshot, KillsAreTrue, NoFalseDeath, RespawnOnWay, Kills
  <2> QED
    BY <1>2, <1>4, <1>11, <2>2, Zenon DEF Snapshot, DeathInv
<1>12. ASSUME NEW m \in toPage, Apply(m)
       PROVE  DeathInv'
  <2> DEFINE a == Applied(own, m)
             mine == m.id = own.id /\ own.there
  <2>1. /\ toPage' = toPage \ {m} /\ own' = a /\ overlay' = OverlayAfter(own, m)
        /\ carried' = (overlay' /\ (carried \/ own'.id # own.id))
        /\ UNCHANGED <<login, linked, hp>>
    BY <1>12, Zenon DEF Apply
  <2>2. /\ a.id # own.id => ~(a.there /\ a.dead)
        /\ mine /\ Kills(m) => a.there /\ a.dead
        /\ mine /\ m.t = "respawn" => ~a.dead
        /\ ~(mine /\ Kills(m)) /\ ~(mine /\ m.t = "respawn") /\ a.id = own.id
           => (a.there /\ a.dead <=> own.there /\ own.dead)
    <3>1. Now \in Nat /\ own \in Self(login, Now) /\ m \in Mail(login, Now)
      BY <1>1, <1>12 DEF HealthTyped, Now
    <3> QED
      BY <1>3, <3>1, AppliedDead, Zenon
  <2>3. /\ mine /\ Kills(m) => overlay' = TRUE
        /\ mine /\ m.t = "respawn" => overlay' = FALSE
        /\ ~(mine /\ Kills(m)) /\ ~(mine /\ m.t = "respawn") => overlay' = overlay
    <3>1. ~(Kills(m) /\ m.t = "respawn")
      BY Zenon DEF Kills
    <3> QED
      BY <2>1, <3>1, Zenon DEF OverlayAfter
  <2>4. a.there \in BOOLEAN /\ a.dead \in BOOLEAN /\ overlay' \in BOOLEAN /\ carried' \in BOOLEAN
    BY <1>2, <2>1, Zenon DEF HealthTyped, Self
  <2> HIDE DEF a, mine
  <2>5. KillsAreTrue'
    BY <1>1, <2>1, Zenon DEF KillsAreTrue, Kills
  <2>6. NoFalseDeath'
    <3> SUFFICES ASSUME a.there, a.dead, linked, a.id = login
                 PROVE  hp = 0 \/ \E r \in toPage' : r.t = "respawn" /\ r.id = login
      BY <2>1, Zenon DEF NoFalseDeath, RespawnOnWay
    <3>1. a.id = own.id
      BY <2>2, Zenon
    <3>2. CASE mine /\ Kills(m)
      BY <1>1, <1>12, <3>1, <3>2, Zenon DEF mine, KillsAreTrue
    <3>3. CASE ~(mine /\ Kills(m))
      <4>1. ~(mine /\ m.t = "respawn") /\ own.there /\ own.dead
        BY <2>2, <3>1, <3>3, Zenon
      <4>2. hp = 0 \/ \E r \in toPage : r.t = "respawn" /\ r.id = login
        BY <1>1, <3>1, <4>1, Zenon DEF NoFalseDeath, RespawnOnWay
      <4> QED
        BY <2>1, <3>1, <4>1, <4>2, Zenon DEF mine
    <3> QED
      BY <3>2, <3>3, Zenon
  <2>7. OverlayTrue' /\ (carried' => overlay')
    <3>1. (overlay <=> own.there /\ own.dead) \/ carried
      BY <1>1, <1>3, Zenon DEF OverlayTrue
    <3>2. carried' <=> overlay' /\ (carried \/ a.id # own.id)
      BY <2>1, <2>4, Zenon
    <3>3. (overlay' <=> a.there /\ a.dead) \/ carried'
      <4>1. CASE a.id # own.id
        BY <2>2, <3>2, <4>1, Zenon
      <4>2. CASE a.id = own.id
        <5>1. CASE (mine /\ Kills(m)) \/ (mine /\ m.t = "respawn")
          BY <2>2, <2>3, <5>1, Zenon
        <5>2. CASE ~(mine /\ Kills(m)) /\ ~(mine /\ m.t = "respawn")
          BY <1>1, <2>2, <2>3, <3>1, <3>2, <4>2, <5>2
        <5> QED
          BY <5>1, <5>2, Zenon
      <4> QED
        BY <4>1, <4>2, Zenon
    <3>4. overlay' = (a.there /\ a.dead) \/ carried'
      BY <2>4, <3>3, Zenon
    <3> QED
      BY <2>1, <3>2, <3>4, Zenon DEF OverlayTrue
  <2> QED
    BY <1>2, <2>5, <2>6, <2>7, Zenon DEF DeathInv
<1>13. CASE UNCHANGED hvars
  <2>1. KillsAreTrue' /\ NoFalseDeath'
    BY <1>1, <1>13, Zenon DEF hvars, KillsAreTrue, NoFalseDeath, RespawnOnWay, Kills
  <2> QED
    BY <1>2, <1>4, <1>13, <2>1, Zenon DEF hvars, DeathInv
<1> QED
  BY <1>5, <1>6, <1>8, <1>9, <1>10, <1>11, <1>12, <1>13, Zenon DEF HealthNext

(* A message about the player that the page shows leaves it shown.         *)
LEMMA AppliedStays ==
    ASSUME NEW l \in Nat, NEW s \in Nat, NEW g \in Self(l, s), NEW m \in Mail(l, s),
           g.there, m.id = g.id
    PROVE  Applied(g, m).there /\ Applied(g, m).id = g.id
<1>1. ASSUME NEW h \in Self(l, s), h.there, NEW x
      PROVE  SnapshotOwn(h, x).there /\ SnapshotOwn(h, x).id = h.id
  BY <1>1, Zenon DEF SnapshotOwn, Self
<1>2. CASE m.t = "welcome"
  <2> DEFINE c == [g EXCEPT !.there = g.there /\ g.id = m.id, !.id = m.id, !.pending = <<>>]
  <2>1. c \in Self(l, s)
    BY Zenon DEF Self
  <2>2. c.there /\ c.id = g.id
    BY Zenon DEF Self
  <2>3. Applied(g, m) = IF g.pending = <<>> THEN c ELSE SnapshotOwn(c, Head(g.pending))
    BY <1>2, Zenon DEF Applied, WelcomeOwn
  <2> HIDE DEF c
  <2> QED
    BY <1>1, <2>1, <2>2, <2>3, Zenon
<1>3. CASE m.t = "snapshot"
  BY <1>1, <1>3, Zenon DEF Applied, Self
<1>4. CASE m.t \in {"join", "hit", "death", "respawn"}
  BY <1>4, Zenon DEF Applied, Self
<1> QED
  BY <1>2, <1>3, <1>4, Zenon DEF Mail, MailKind

(* Every step keeps a death that was seen coming in sight: the model stays *)
(* while the connection does, and nothing but a respawn makes it stand up, *)
(* which the server sends when it revives the player.                      *)
LEMMA WatchStep == HealthInv /\ [HealthNext]_hvars => WatchInv'
<1> SUFFICES ASSUME HealthInv, [HealthNext]_hvars
             PROVE  WatchInv'
  BY Zenon
<1> USE HealthConstants
<1>1. /\ HealthTyped
      /\ \A m \in toPage : m.id = login
      /\ ~linked => hp # 0
      /\ linked /\ hp = 0 /\ watched => Watching
      /\ NoMissedDeath
  BY Zenon DEF HealthInv, DeathInv, WatchInv
<1>2. login \in Nat /\ hp \in 0 .. MaxHp /\ Now \in Nat /\ own \in Self(login, Now)
      /\ toPage \subseteq Mail(login, Now)
  BY <1>1 DEF HealthTyped, Now
<1>3. ASSUME \A m \in toPage' : m.id = login', hp' # 0
      PROVE  WatchInv'
  BY <1>3, Zenon DEF WatchInv, NoMissedDeath
<1>4. CASE Join
  <2>1. \A m \in toPage' : m.id = login'
    BY <1>4 DEF Join, Msg
  <2> QED
    BY <1>1, <1>3, <1>4, <2>1, Zenon DEF Join
<1>5. CASE Lose
  <2>1. hp' # 0
    BY <1>5 DEF Lose
  <2> QED
    BY <1>1, <1>3, <1>5, <2>1, Zenon DEF Lose
<1>6. CASE Hit
  <2> DEFINE h == IF hp > damage THEN hp - damage ELSE 0
             news == IF h = 0 THEN {"hit", "death"} ELSE {"hit"}
  <2>1. /\ hp' = h /\ login' = login /\ linked' = linked /\ own' = own /\ linked
        /\ toPage' = toPage \cup {Msg(what, login, h, Now + 1) : what \in news}
        /\ watched' = IF h = 0 THEN Watching ELSE watched
    BY <1>6, Zenon DEF Hit
  <2>2. news \subseteq {"hit", "death"} /\ (h = 0 => "death" \in news)
    BY Zenon
  <2> HIDE DEF h, news
  <2>3. \A what \in news : /\ Msg(what, login, h, Now + 1).id = login
                           /\ Msg(what, login, h, Now + 1).t = what
    BY DEF Msg
  <2>4. \A m \in toPage' : m.id = login'
    BY <1>1, <2>1, <2>3, ZenonT(60)
  <2>5. RespawnOnWay' => RespawnOnWay
    BY <2>1, <2>2, <2>3 DEF RespawnOnWay
  <2>6. Watching => Watching'
    BY <2>1, <2>5, Zenon DEF Watching
  <2>7. h = 0 => \E m \in toPage' : m.id = login /\ Kills(m)
    BY <2>1, <2>2, <2>3, Zenon DEF Kills
  <2> QED
    BY <2>1, <2>4, <2>6, <2>7, Zenon DEF WatchInv, NoMissedDeath
<1>7. CASE StateArrives
  <2>1. hp' # 0
    BY <1>2, <1>7 DEF StateArrives
  <2>2. \A m \in toPage' : m.id = login'
    BY <1>1, <1>7 DEF StateArrives, Msg
  <2> QED
    BY <1>3, <2>1, <2>2, Zenon
<1>8. CASE Ping \/ UNCHANGED hvars
  <2>1. UNCHANGED <<login, linked, hp, toPage, own, watched>>
    BY <1>8, Zenon DEF Ping, hvars
  <2>2. (Watching' <=> Watching) /\ NoMissedDeath'
    BY <1>1, <2>1, Zenon DEF Watching, RespawnOnWay, NoMissedDeath, Kills
  <2> QED
    BY <1>1, <2>1, <2>2, Zenon DEF WatchInv
<1>9. CASE Snapshot
  <2> DEFINE n == Msg("snapshot", login, hp, updatedAt)
  <2>1. toPage' = toPage \cup {n} /\ UNCHANGED <<login, linked, hp, own, watched>>
    BY <1>9, Zenon DEF Snapshot
  <2>2. n.id = login /\ n.t = "snapshot"
    BY DEF Msg
  <2> HIDE DEF n
  <2>3. Watching => Watching'
    BY <2>1, <2>2 DEF Watching, RespawnOnWay
  <2>4. NoMissedDeath'
    BY <1>1, <2>1, Zenon DEF NoMissedDeath, Kills
  <2> QED
    BY <1>1, <2>1, <2>2, <2>3, <2>4, Zenon DEF WatchInv
<1>10. ASSUME NEW m \in toPage, Apply(m)
       PROVE  WatchInv'
  <2> DEFINE a == Applied(own, m)
  <2>1. toPage' = toPage \ {m} /\ own' = a /\ UNCHANGED <<login, linked, hp, watched>>
    BY <1>10, Zenon DEF Apply
  <2>2. ASSUME linked, hp = 0, watched
        PROVE  Watching' /\ (a.dead \/ \E k \in toPage' : k.id = login /\ Kills(k))
    <3>0. m \in Mail(login, Now)
      BY <1>2, Zenon
    <3>1. own.there /\ own.id = login /\ m.id = own.id /\ m.t # "respawn"
      BY <1>1, <1>10, <2>2, Zenon DEF Watching, RespawnOnWay
    <3>2. a.there /\ a.id = own.id
      BY <1>2, <3>0, <3>1, AppliedStays
    <3>3. /\ Kills(m) => a.dead
          /\ ~Kills(m) => (own.dead => a.dead)
      BY <1>2, <3>0, <3>1, <3>2, AppliedDead, Zenon
    <3> HIDE DEF a
    <3>4. own.dead \/ \E k \in toPage : k.id = login /\ Kills(k)
      BY <1>1, <2>2, Zenon DEF NoMissedDeath
    <3>5. Watching'
      BY <1>1, <2>1, <2>2, <3>1, <3>2, Zenon DEF Watching, RespawnOnWay
    <3> QED
      BY <2>1, <3>3, <3>4, <3>5, Zenon
  <2> HIDE DEF a
  <2>3. NoMissedDeath'
    BY <2>1, <2>2, Zenon DEF NoMissedDeath, Watching, Kills
  <2> QED
    BY <1>1, <2>1, <2>2, <2>3, Zenon DEF WatchInv
<1> QED
  BY <1>4, <1>5, <1>6, <1>7, <1>8, <1>9, <1>10, Zenon DEF HealthNext

(* Every step keeps the whole invariant.                                   *)
LEMMA HealthStep == HealthInv /\ [HealthNext]_hvars => HealthInv'
  BY DeathStep, WatchStep, Zenon DEF HealthInv

(* The invariant gives the types of the module.                            *)
LEMMA HealthPromises == HealthInv => HealthTypeOK /\ DeathShown
<1> SUFFICES ASSUME HealthInv PROVE HealthTypeOK
  BY Zenon DEF HealthInv, DeathInv, WatchInv, DeathShown
<1>1. \A m \in toPage :
           /\ m.t \in {"welcome", "join", "snapshot", "hit", "death", "respawn"}
           /\ m.id \in 1 .. login /\ m.hp \in 0 .. MaxHp /\ m.stamp \in 0 .. Now
  BY Zenon DEF HealthInv, DeathInv, HealthTyped, Mail, MailKind
<1>2. own.id \in 0 .. login /\ own.hp \in 0 .. MaxHp /\ own.lastHpAt \in 0 .. Now
      /\ own.there \in BOOLEAN /\ own.dead \in BOOLEAN
  BY Zenon DEF HealthInv, DeathInv, HealthTyped, Self
<1> QED
  BY <1>1, <1>2, Zenon DEF HealthInv, DeathInv, HealthTyped, HealthTypeOK

(* On its own page a player lies dead only while the server holds it for   *)
(* dead or its respawn is on its way; a player killed before the eyes of   *)
(* its page lies dead there until it is revived; and the overlay says so   *)
(* exactly, but for one that was left on by a lost connection: for any     *)
(* number of hits, logins and snapshots, whatever is lost or overtaken     *)
(* (applyEvent, serverHandleState).                                        *)
THEOREM DeathIsShown == HealthSpec => []DeathShown
<1>1. HealthInit => HealthInv
  BY HealthStart, Zenon
<1>2. HealthInv /\ [HealthNext]_hvars => HealthInv'
  BY HealthStep, Zenon
<1>3. HealthInv => DeathShown
  BY HealthPromises, Zenon
<1> QED
  BY <1>1, <1>2, <1>3, PTL DEF HealthSpec
=============================================================================
