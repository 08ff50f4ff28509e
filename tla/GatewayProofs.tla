--------------------------- MODULE GatewayProofs ----------------------------
(***************************************************************************)
(* Proofs about Gateway, for every set of sockets, names and bots and every*)
(* value of the time constants that satisfies the assumptions.             *)
(***************************************************************************)
EXTENDS Gateway, TLAPS

(* Gateway's variables keep their types; in particular the map of clients  *)
(* never holds a socket whose own variable `client' is not set, so the     *)
(* close of a socket always finds its entry.                               *)
THEOREM GatewayTypeCorrect == Spec => []GatewayTypeOK
<1> USE GatewayAssumption
<1>1. Init => GatewayTypeOK
  BY DEF Init, GatewayTypeOK, Id
<1>2. GatewayTypeOK /\ [Next]_gvars => GatewayTypeOK'
  <2> SUFFICES ASSUME GatewayTypeOK, [Next]_gvars
               PROVE  GatewayTypeOK'
    BY Zenon
  <2> USE DEF GatewayTypeOK
  <2>1. CASE Tick
    BY <2>1 DEF Tick
  <2>2. CASE UpdateBots
    BY <2>2 DEF UpdateBots
  <2>3. CASE Cleanup
    BY <2>3, Zenon DEF Cleanup
  <2>4. ASSUME NEW p \in Id, Hit(p)
        PROVE  GatewayTypeOK'
    BY <2>4 DEF Hit
  <2>5. ASSUME NEW c \in Conn, HandleWs(c)
        PROVE  GatewayTypeOK'
    BY <2>5 DEF HandleWs
  <2>6. ASSUME NEW c \in Conn, HelloTimeout(c)
        PROVE  GatewayTypeOK'
    BY <2>6, Zenon DEF HelloTimeout, Close
  <2>7. ASSUME NEW c \in Conn, OnClose(c)
        PROVE  GatewayTypeOK'
    BY <2>7, Zenon DEF OnClose
  <2>8. ASSUME NEW c \in Conn, Hello(c)
        PROVE  GatewayTypeOK'
    BY <2>8, Zenon DEF Hello, Decoded
  <2>9. ASSUME NEW c \in Conn, Ping(c)
        PROVE  GatewayTypeOK'
    BY <2>9 DEF Id, Ping, Decoded
  <2>10. ASSUME NEW c \in Conn, State(c)
        PROVE  GatewayTypeOK'
    BY <2>10 DEF Id, State, Decoded
  <2>11. ASSUME NEW c \in Conn, NEW m \in Message, Dropped(c, m)
        PROVE  GatewayTypeOK'
    BY <2>11, Zenon DEF Dropped, Decoded
  <2>12. ASSUME NEW c \in Conn, NEW m \in Message, RateLimited(c, m)
        PROVE  GatewayTypeOK'
    BY <2>12, Zenon DEF RateLimited, Decoded, Close
  <2>13. ASSUME NEW c \in Conn, Reject(c)
        PROVE  GatewayTypeOK'
    BY <2>13, Zenon DEF Reject, Close
  <2>14. ASSUME NEW c \in Conn, Register(c)
        PROVE  GatewayTypeOK'
    BY <2>14 DEF Id, Register
  <2>15. ASSUME NEW c \in Conn, NEW m \in Message, OnMessage(c, m)
        PROVE  GatewayTypeOK'
    BY <2>15 DEF OnMessage
  <2>16. CASE UNCHANGED gvars
    BY <2>16, Zenon DEF gvars
  <2> QED
    BY <2>1, <2>2, <2>3, <2>4, <2>5, <2>6, <2>7, <2>8, <2>9, <2>10, <2>11,
       <2>12, <2>13, <2>14, <2>15, <2>16, Zenon DEF Next, Handle
<1> QED
  BY <1>1, <1>2, PTL DEF Spec

(* Nobody who has said hello still has a hello timer, and a socket that is *)
(* about to be opened has no message, handler or client.                   *)
LEMMA GreetedAreDisarmed == Spec => []GreetedDisarmed
<1> USE GatewayAssumption
<1>1. Init => GreetedDisarmed
  BY Zenon DEF Init, GreetedDisarmed
<1>2. GatewayTypeOK /\ GreetedDisarmed /\ [Next]_gvars => GreetedDisarmed'
  <2> SUFFICES ASSUME GatewayTypeOK, GreetedDisarmed, [Next]_gvars
               PROVE  GreetedDisarmed'
    BY Zenon
  <2> USE DEF GatewayTypeOK, GreetedDisarmed
  <2>1. CASE Tick
    BY <2>1, Zenon DEF Tick
  <2>2. CASE UpdateBots
    BY <2>2, Zenon DEF UpdateBots
  <2>3. CASE Cleanup
    BY <2>3, Zenon DEF Cleanup
  <2>4. ASSUME NEW p \in Id, Hit(p)
        PROVE  GreetedDisarmed'
    BY <2>4, Zenon DEF Hit
  <2>5. ASSUME NEW c \in Conn, HandleWs(c)
        PROVE  GreetedDisarmed'
    BY <2>5, Zenon DEF HandleWs
  <2>6. ASSUME NEW c \in Conn, HelloTimeout(c)
        PROVE  GreetedDisarmed'
    BY <2>6, Zenon DEF HelloTimeout, Close
  <2>7. ASSUME NEW c \in Conn, OnClose(c)
        PROVE  GreetedDisarmed'
    BY <2>7, Zenon DEF OnClose
  <2>8. ASSUME NEW c \in Conn, Hello(c)
        PROVE  GreetedDisarmed'
    BY <2>8 DEF Hello, Decoded
  <2>9. ASSUME NEW c \in Conn, Ping(c)
        PROVE  GreetedDisarmed'
    BY <2>9, Zenon DEF Ping, Decoded
  <2>10. ASSUME NEW c \in Conn, State(c)
        PROVE  GreetedDisarmed'
    BY <2>10, Zenon DEF State, Decoded
  <2>11. ASSUME NEW c \in Conn, NEW m \in Message, Dropped(c, m)
        PROVE  GreetedDisarmed'
    BY <2>11, Zenon DEF Dropped, Decoded
  <2>12. ASSUME NEW c \in Conn, NEW m \in Message, RateLimited(c, m)
        PROVE  GreetedDisarmed'
    BY <2>12, Zenon DEF RateLimited, Decoded, Close
  <2>13. ASSUME NEW c \in Conn, Reject(c)
        PROVE  GreetedDisarmed'
    BY <2>13, Zenon DEF Reject, Close
  <2>14. ASSUME NEW c \in Conn, Register(c)
        PROVE  GreetedDisarmed'
    BY <2>14, Zenon DEF Register
  <2>15. ASSUME NEW c \in Conn, NEW m \in Message, OnMessage(c, m)
        PROVE  GreetedDisarmed'
    BY <2>15, Zenon DEF OnMessage
  <2>16. CASE UNCHANGED gvars
    BY <2>16, Zenon DEF gvars
  <2> QED
    BY <2>1, <2>2, <2>3, <2>4, <2>5, <2>6, <2>7, <2>8, <2>9, <2>10, <2>11,
       <2>12, <2>13, <2>14, <2>15, <2>16, Zenon DEF Next, Handle
<1> QED
  BY <1>1, <1>2, GatewayTypeCorrect, PTL DEF Spec

(* The hello timeout never closes the socket of somebody who has said      *)
(* hello, in whatever order hellos are decrypted and timers run out.       *)
THEOREM HelloStopsTheTimer == Spec => GreetedKeepSocket
<1> DEFINE Keep == \A c \in client \cup greeting :
                      helloTimer[c] = 0 => socket'[c] = socket[c]
<1>1. GreetedDisarmed => Keep
  BY GatewayAssumption DEF GreetedDisarmed
<1> HIDE DEF Keep
<1>2. Spec => [][Keep]_gvars
  BY <1>1, GreetedAreDisarmed, PTL
<1> QED
  BY <1>2, Zenon DEF GreetedKeepSocket, Keep

(* Every open socket has somebody who will register or close it, whatever  *)
(* messages reach it before its hello.                                     *)
THEOREM NoSocketIsForgotten == Spec => []NoForgottenSocket
<1> USE GatewayAssumption
<1>1. Init => NoForgottenSocket
  BY Zenon DEF Init, NoForgottenSocket
<1>2. GatewayTypeOK /\ NoForgottenSocket /\ [Next]_gvars => NoForgottenSocket'
  <2> SUFFICES ASSUME GatewayTypeOK, NoForgottenSocket, [Next]_gvars
               PROVE  NoForgottenSocket'
    BY Zenon
  <2> USE DEF GatewayTypeOK, NoForgottenSocket
  <2>1. CASE Tick
    BY <2>1 DEF Tick
  <2>2. CASE UpdateBots
    BY <2>2, Zenon DEF UpdateBots
  <2>3. CASE Cleanup
    BY <2>3, Zenon DEF Cleanup
  <2>4. ASSUME NEW p \in Id, Hit(p)
        PROVE  NoForgottenSocket'
    BY <2>4, Zenon DEF Hit
  <2>5. ASSUME NEW c \in Conn, HandleWs(c)
        PROVE  NoForgottenSocket'
    BY <2>5, Zenon DEF HandleWs
  <2>6. ASSUME NEW c \in Conn, HelloTimeout(c)
        PROVE  NoForgottenSocket'
    BY <2>6, Zenon DEF HelloTimeout, Close
  <2>7. ASSUME NEW c \in Conn, OnClose(c)
        PROVE  NoForgottenSocket'
    BY <2>7, Zenon DEF OnClose
  <2>8. ASSUME NEW c \in Conn, Hello(c)
        PROVE  NoForgottenSocket'
    BY <2>8, Zenon DEF Hello, Decoded
  <2>9. ASSUME NEW c \in Conn, Ping(c)
        PROVE  NoForgottenSocket'
    BY <2>9, Zenon DEF Ping, Decoded
  <2>10. ASSUME NEW c \in Conn, State(c)
        PROVE  NoForgottenSocket'
    BY <2>10, Zenon DEF State, Decoded
  <2>11. ASSUME NEW c \in Conn, NEW m \in Message, Dropped(c, m)
        PROVE  NoForgottenSocket'
    BY <2>11, Zenon DEF Dropped, Decoded
  <2>12. ASSUME NEW c \in Conn, NEW m \in Message, RateLimited(c, m)
        PROVE  NoForgottenSocket'
    BY <2>12, Zenon DEF RateLimited, Decoded, Close
  <2>13. ASSUME NEW c \in Conn, Reject(c)
        PROVE  NoForgottenSocket'
    BY <2>13, Zenon DEF Reject, Close
  <2>14. ASSUME NEW c \in Conn, Register(c)
        PROVE  NoForgottenSocket'
    BY <2>14, Zenon DEF Register
  <2>15. ASSUME NEW c \in Conn, NEW m \in Message, OnMessage(c, m)
        PROVE  NoForgottenSocket'
    BY <2>15, Zenon DEF OnMessage
  <2>16. CASE UNCHANGED gvars
    BY <2>16, Zenon DEF gvars
  <2> QED
    BY <2>1, <2>2, <2>3, <2>4, <2>5, <2>6, <2>7, <2>8, <2>9, <2>10, <2>11,
       <2>12, <2>13, <2>14, <2>15, <2>16, Zenon DEF Next, Handle
<1> QED
  BY <1>1, <1>2, GatewayTypeCorrect, PTL DEF Spec

----------------------------------------------------------------------------
(* The entry of a bot never grows older than its last update and its time  *)
(* on the ground account for.                                              *)
LEMMA BotsAreYoung == Spec => []BotsYoung
<1> USE GatewayAssumption
<1>1. Init => BotsYoung
  BY DEF Init, BotsYoung, Id
<1>2. GatewayTypeOK /\ BotsYoung /\ [Next]_gvars => BotsYoung'
  <2> SUFFICES ASSUME GatewayTypeOK, BotsYoung, [Next]_gvars
               PROVE  BotsYoung'
    BY Zenon
  <2> USE DEF GatewayTypeOK, BotsYoung, Id
  <2>1. CASE Tick
    BY <2>1 DEF Tick
  <2>2. CASE UpdateBots
    BY <2>2 DEF UpdateBots
  <2>3. CASE Cleanup
    BY <2>3 DEF Cleanup
  <2>4. ASSUME NEW p \in Id, Hit(p)
        PROVE  BotsYoung'
    BY <2>4 DEF Hit
  <2>5. ASSUME NEW c \in Conn, HandleWs(c)
        PROVE  BotsYoung'
    BY <2>5, Zenon DEF HandleWs
  <2>6. ASSUME NEW c \in Conn, HelloTimeout(c)
        PROVE  BotsYoung'
    BY <2>6, Zenon DEF HelloTimeout, Close
  <2>7. ASSUME NEW c \in Conn, OnClose(c)
        PROVE  BotsYoung'
    BY <2>7 DEF OnClose
  <2>8. ASSUME NEW c \in Conn, Hello(c)
        PROVE  BotsYoung'
    BY <2>8, Zenon DEF Hello, Decoded
  <2>9. ASSUME NEW c \in Conn, Ping(c)
        PROVE  BotsYoung'
    BY <2>9, Zenon DEF Ping, Decoded
  <2>10. ASSUME NEW c \in Conn, State(c)
        PROVE  BotsYoung'
    BY <2>10, Zenon DEF State, Decoded
  <2>11. ASSUME NEW c \in Conn, NEW m \in Message, Dropped(c, m)
        PROVE  BotsYoung'
    BY <2>11, Zenon DEF Dropped, Decoded
  <2>12. ASSUME NEW c \in Conn, NEW m \in Message, RateLimited(c, m)
        PROVE  BotsYoung'
    BY <2>12, Zenon DEF RateLimited, Decoded, Close
  <2>13. ASSUME NEW c \in Conn, Reject(c)
        PROVE  BotsYoung'
    BY <2>13, Zenon DEF Reject, Close
  <2>14. ASSUME NEW c \in Conn, Register(c)
        PROVE  BotsYoung'
    BY <2>14, Zenon DEF Register
  <2>15. ASSUME NEW c \in Conn, NEW m \in Message, OnMessage(c, m)
        PROVE  BotsYoung'
    BY <2>15, Zenon DEF OnMessage
  <2>16. CASE UNCHANGED gvars
    BY <2>16, Zenon DEF gvars
  <2> QED
    BY <2>1, <2>2, <2>3, <2>4, <2>5, <2>6, <2>7, <2>8, <2>9, <2>10, <2>11,
       <2>12, <2>13, <2>14, <2>15, <2>16, Zenon DEF Next, Handle
<1> QED
  BY <1>1, <1>2, GatewayTypeCorrect, PTL DEF Spec

(* "Whoever is online is never removed": clients keep their entries        *)
(* because the clean-up spares them, bots because their entries never      *)
(* reach the age at which it removes anybody.                              *)
THEOREM OnlineAreListed == Spec => []OnlineListed
<1> USE GatewayAssumption
<1>1. Init => OnlineListed
  BY DEF Init, OnlineListed, Id
<1>2. GatewayTypeOK /\ BotsYoung' /\ OnlineListed /\ [Next]_gvars => OnlineListed'
  <2> SUFFICES ASSUME GatewayTypeOK, BotsYoung', OnlineListed, [Next]_gvars
               PROVE  \A c \in clients' : age'[c] # Absent
    BY Zenon DEF OnlineListed, BotsYoung
  <2> DEFINE Listed == \A c \in clients' : age'[c] # Absent
  <2> USE DEF GatewayTypeOK, OnlineListed, Id
  <2>1. CASE Tick
    BY <2>1 DEF Tick
  <2>2. CASE UpdateBots
    BY <2>2, Zenon DEF UpdateBots
  <2>3. CASE Cleanup
    BY <2>3, Zenon DEF Cleanup
  <2>4. ASSUME NEW p \in Id, Hit(p)
        PROVE  Listed
    BY <2>4 DEF Hit
  <2>5. ASSUME NEW c \in Conn, HandleWs(c)
        PROVE  Listed
    BY <2>5, Zenon DEF HandleWs
  <2>6. ASSUME NEW c \in Conn, HelloTimeout(c)
        PROVE  Listed
    BY <2>6, Zenon DEF HelloTimeout, Close
  <2>7. ASSUME NEW c \in Conn, OnClose(c)
        PROVE  Listed
    BY <2>7 DEF OnClose
  <2>8. ASSUME NEW c \in Conn, Hello(c)
        PROVE  Listed
    BY <2>8, Zenon DEF Hello, Decoded
  <2>9. ASSUME NEW c \in Conn, Ping(c)
        PROVE  Listed
    BY <2>9 DEF Ping, Decoded
  <2>10. ASSUME NEW c \in Conn, State(c)
        PROVE  Listed
    BY <2>10 DEF State, Decoded
  <2>11. ASSUME NEW c \in Conn, NEW m \in Message, Dropped(c, m)
        PROVE  Listed
    BY <2>11, Zenon DEF Dropped, Decoded
  <2>12. ASSUME NEW c \in Conn, NEW m \in Message, RateLimited(c, m)
        PROVE  Listed
    BY <2>12, Zenon DEF RateLimited, Decoded, Close
  <2>13. ASSUME NEW c \in Conn, Reject(c)
        PROVE  Listed
    BY <2>13, Zenon DEF Reject, Close
  <2>14. ASSUME NEW c \in Conn, Register(c)
        PROVE  Listed
    BY <2>14 DEF Register
  <2>15. ASSUME NEW c \in Conn, NEW m \in Message, OnMessage(c, m)
        PROVE  Listed
    BY <2>15, Zenon DEF OnMessage
  <2>16. CASE UNCHANGED gvars
    BY <2>16, Zenon DEF gvars
  <2> QED
    BY <2>1, <2>2, <2>3, <2>4, <2>5, <2>6, <2>7, <2>8, <2>9, <2>10, <2>11,
       <2>12, <2>13, <2>14, <2>15, <2>16, Zenon DEF Next, Handle
<1> QED
  BY <1>1, <1>2, GatewayTypeCorrect, BotsAreYoung, PTL DEF Spec
=============================================================================
