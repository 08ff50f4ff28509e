-------------------------------- MODULE Login -------------------------------
(***************************************************************************)
(* Login with OAuth (auth.ts): the table of login states, the callbacks    *)
(* that redeem them, which wait for two replies of the provider and for    *)
(* the signature of the token, and the cookie that brings the token to the *)
(* browser and back.  The browser may repeat a callback.                   *)
(*                                                                         *)
(* Ages and lifetimes count seconds and saturate, so that behaviours are   *)
(* unbounded and the graph is finite.  A token is the time left until its  *)
(* exp, -1 from then on; whose name it carries is left out.                *)
(***************************************************************************)
EXTENDS Integers, FiniteSets

CONSTANTS
    OAuthState, \* the random states, one for each visit of /auth/login
    Ttl,        \* age from which a state has expired: ten minutes
    SweepMs,    \* interval of the sweep
    JwtLife,    \* JWT_EXPIRE_HOURS
    MaxSign,    \* longest time from the signing of a token to its cookie
    Absent

ASSUME LoginAssumption ==
    /\ {Ttl, SweepMs, JwtLife} \subseteq Nat \ {0}
    /\ MaxSign \in 0 .. JwtLife
    /\ Absent \notin Int \cup OAuthState

VARIABLES
    issued,         \* states handed out so far
    pendingStates,  \* state -> its age, or Absent
    sweepIn,        \* time until the sweep
    waiting,        \* callbacks and developers' logins (state Absent): the
                    \* step they wait for and the token being signed
    cookie,         \* the token and what is left of Max-Age, or Absent
    exchanges       \* history: state -> code exchanges begun with it

lvars == <<issued, pendingStates, sweepIn, waiting, cookie, exchanges>>

Step == {"token", "user", "sign"}
Token == -1 .. JwtLife

\* Mutant: a token is refused in its last second.
verifyJWTEarly(token) == IF token <= 0 THEN Absent ELSE token

createJWT == JwtLife

\* payload.exp < now
verifyJWT(token) == IF token < 0 THEN Absent ELSE token

\* Signing, and the way of the response, take MaxSign at most.
Overdue(w) == w.jwt # Absent /\ JwtLife - w.jwt >= MaxSign

Nearer(token) == IF token \in {Absent, -1} THEN token ELSE token - 1

LoginInit ==
    /\ issued = {}
    /\ pendingStates = [s \in OAuthState |-> Absent]
    /\ sweepIn = SweepMs
    /\ waiting = {}
    /\ cookie = Absent
    /\ exchanges = [s \in OAuthState |-> 0]

----------------------------------------------------------------------------
\* Time passes; the browser drops the cookie after its Max-Age.
LoginTick ==
    /\ sweepIn > 0
    /\ \A w \in waiting : ~Overdue(w)
    /\ sweepIn' = sweepIn - 1
    /\ pendingStates' = [s \in OAuthState |->
         IF pendingStates[s] \in {Absent, Ttl + SweepMs + 1} THEN pendingStates[s]
         ELSE pendingStates[s] + 1]
    /\ waiting' = {[w EXCEPT !.jwt = Nearer(@)] : w \in waiting}
    /\ cookie' = IF cookie = Absent \/ cookie.maxAge = 0 THEN Absent
                 ELSE [jwt |-> Nearer(cookie.jwt), maxAge |-> cookie.maxAge - 1]
    /\ UNCHANGED <<issued, exchanges>>

\* Mutant: the limit is one interval too high.
SweepLate ==
    /\ sweepIn = 0
    /\ sweepIn' = SweepMs
    /\ pendingStates' = [s \in OAuthState |->
         IF pendingStates[s] # Absent /\ pendingStates[s] > Ttl + SweepMs
         THEN Absent ELSE pendingStates[s]]
    /\ UNCHANGED <<issued, waiting, cookie, exchanges>>

\* The sweep of expired states.
Sweep ==
    /\ sweepIn = 0
    /\ sweepIn' = SweepMs
    /\ pendingStates' = [s \in OAuthState |->
         IF pendingStates[s] # Absent /\ pendingStates[s] > Ttl
         THEN Absent ELSE pendingStates[s]]
    /\ UNCHANGED <<issued, waiting, cookie, exchanges>>

handleLogin(s) ==
    /\ s \notin issued
    /\ issued' = issued \cup {s}
    /\ pendingStates' = [pendingStates EXCEPT ![s] = 0]
    /\ UNCHANGED <<sweepIn, waiting, cookie, exchanges>>

\* Mutant: the state is kept until the sweep takes it.
CallbackKeepsState(s) ==
    /\ pendingStates[s] # Absent
    /\ exchanges[s] < 2
    /\ waiting' = waiting \cup {[state |-> s, step |-> "token", jwt |-> Absent]}
    /\ exchanges' = [exchanges EXCEPT ![s] = @ + 1]
    /\ UNCHANGED <<issued, pendingStates, sweepIn, cookie>>

\* handleCallback up to its first await: the state is redeemed.
handleCallback(s) ==
    /\ pendingStates[s] # Absent
    /\ pendingStates' = [pendingStates EXCEPT ![s] = Absent]
    /\ waiting' = waiting \cup {[state |-> s, step |-> "token", jwt |-> Absent]}
    /\ exchanges' = [exchanges EXCEPT ![s] = @ + 1]
    /\ UNCHANGED <<issued, sweepIn, cookie>>

\* A callback without a pending state is redirected.
InvalidState(s) ==
    /\ s \in issued
    /\ pendingStates[s] = Absent
    /\ UNCHANGED lvars

\* A reply came, with an error status or none at all (the catch clause).
CallbackFailed(w) ==
    /\ waiting' = waiting \ {w}
    /\ UNCHANGED <<issued, pendingStates, sweepIn, cookie, exchanges>>

\* The provider's token came, and the user is asked for.
TokenReply(w) ==
    /\ w.step = "token"
    /\ waiting' = (waiting \ {w}) \cup {[w EXCEPT !.step = "user"]}
    /\ UNCHANGED <<issued, pendingStates, sweepIn, cookie, exchanges>>

\* The user came, and createJWT starts to sign: exp counts from here.
UserReply(w) ==
    /\ w.step = "user"
    /\ waiting' = (waiting \ {w}) \cup {[w EXCEPT !.step = "sign", !.jwt = createJWT]}
    /\ UNCHANGED <<issued, pendingStates, sweepIn, cookie, exchanges>>

\* createJWT has signed: the response sets the cookie, whose Max-Age counts
\* from here.
SetCookie(w) ==
    /\ w.step = "sign"
    /\ waiting' = waiting \ {w}
    /\ cookie' = [jwt |-> w.jwt, maxAge |-> JwtLife]
    /\ UNCHANGED <<issued, pendingStates, sweepIn, exchanges>>

\* handleDevLogin signs a token without a provider.
handleDevLogin ==
    /\ waiting' = waiting \cup {[state |-> Absent, step |-> "sign", jwt |-> createJWT]}
    /\ UNCHANGED <<issued, pendingStates, sweepIn, cookie, exchanges>>

handleLogout ==
    /\ cookie' = Absent
    /\ UNCHANGED <<issued, pendingStates, sweepIn, waiting, exchanges>>

LoginNext ==
    \/ LoginTick \/ Sweep \/ handleDevLogin \/ handleLogout
    \/ \E s \in OAuthState : handleLogin(s) \/ handleCallback(s) \/ InvalidState(s)
    \/ \E w \in waiting : \/ CallbackFailed(w) \/ TokenReply(w)
                          \/ UserReply(w) \/ SetCookie(w)

LoginSpec == LoginInit /\ [][LoginNext]_lvars

\* The user the cookie stands for, if verifyJWT accepts its token.
getUserFromCookie == IF cookie = Absent THEN Absent ELSE verifyJWT(cookie.jwt)

\* The answer of /auth/me.
handleMe == [authenticated |-> getUserFromCookie # Absent]

----------------------------------------------------------------------------
\* Type invariant.  A state is never accepted later than the sweep that
\* follows its expiry: its age is bounded while it is pending.
LoginTypeOK ==
    /\ issued \subseteq OAuthState
    /\ pendingStates \in [OAuthState -> 0 .. (Ttl + SweepMs) \cup {Absent}]
    /\ sweepIn \in 0 .. SweepMs
    /\ waiting \subseteq [state : OAuthState \cup {Absent}, step : Step,
                          jwt : Token \cup {Absent}]
    /\ cookie \in [jwt : Token, maxAge : 0 .. JwtLife] \cup {Absent}
    /\ exchanges \in [OAuthState -> Nat]

\* A login state pays for one code exchange, however often and however close
\* together the browser repeats the callback (handleCallback deletes it
\* before its first await).
OneExchange == \A s \in OAuthState : exchanges[s] <= 1

\* A browser that still sends its cookie is recognised, whichever of several
\* logins under way set it last, except in the last moments: the token is
\* older than its cookie by the time it took to sign it (createJWT takes the
\* time before its awaits, Max-Age counts after them).
CookieHonoured ==
    (cookie # Absent /\ cookie.maxAge >= MaxSign) => handleMe.authenticated
=============================================================================
