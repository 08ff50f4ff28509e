---------------------------- MODULE NamesProofs ----------------------------
(***************************************************************************)
(* What a page shows of a name, proved for names of any length over any    *)
(* alphabet below the surrogates.  The heart of it is that TextDecoder     *)
(* undoes TextEncoder, so that fixUTF8 undoes what verifyJWT does.  Both   *)
(* are recursions over data: induction is used as the least number outside *)
(* of a set (AllNaturals, UpTo), and Recursion gives a function that is    *)
(* what a recursive definition says.                                       *)
(***************************************************************************)
EXTENDS Names, SequenceTheorems, WellFoundedInduction, TLAPS

----------------------------------------------------------------------------
(* Induction and recursion.                                                *)

(* Induction over the naturals, for a set: a number outside of S would     *)
(* have a least one below it.                                              *)
LEMMA AllNaturals ==
    ASSUME NEW S, 0 \in S, \A n \in Nat : n \in S => n + 1 \in S
    PROVE  Nat \subseteq S
<1> DEFINE T == Nat \ S
           R == OpToRel(<, Nat)
<1> SUFFICES ASSUME T # {} PROVE FALSE
  BY Zenon
<1>1. \E t \in T : \A u \in T : ~(<<u, t>> \in R)
  <2>1. T \subseteq Nat
    BY Zenon
  <2> HIDE DEF T
  <2> QED
    BY <2>1, NatLessThanWellFounded, WFMin, Zenon
<1>2. PICK t \in T : \A u \in T : ~(<<u, t>> \in R)
  BY <1>1, Zenon
<1>3. \A u \in T : ~(u < t)
  BY <1>2, Zenon DEF OpToRel
<1>4. t # 0 /\ t \in Nat
  BY Zenon
<1>5. t - 1 \in Nat /\ t - 1 < t /\ (t - 1) + 1 = t
  BY <1>4
<1>6. t - 1 \notin T
  BY <1>3, <1>5, Zenon
<1> QED
  BY <1>2, <1>5, <1>6, Zenon

(* A recursion along 0 .. N, from v with the steps d[i], has values; the   *)
(* loops of hashString, of TextEncoder and of replace are such recursions. *)
HasRun(N, V, v, d) ==
    \E g \in [0 .. N -> V] : g[0] = v /\ \A i \in 1 .. N : g[i] = d[i][g[i - 1]]

LEMMA Recursion ==
    ASSUME NEW N \in Nat, NEW V, NEW v \in V, NEW d \in [1 .. N -> [V -> V]]
    PROVE  HasRun(N, V, v, d)
<1> DEFINE Good(g, n) == g[0] = v /\ \A i \in 1 .. n : g[i] = d[i][g[i - 1]]
           S == {n \in Nat : n <= N => \E g \in [0 .. n -> V] : Good(g, n)}
<1>1. 0 \in S
  <2> DEFINE g == [i \in 0 .. 0 |-> v]
  <2>1. g \in [0 .. 0 -> V] /\ Good(g, 0)
    OBVIOUS
  <2>2. 0 \in Nat
    OBVIOUS
  <2> QED
    BY <2>1, <2>2, Zenon
<1>2. ASSUME NEW n \in Nat, n \in S PROVE n + 1 \in S
  <2> SUFFICES ASSUME n + 1 <= N
               PROVE  \E g \in [0 .. n + 1 -> V] : Good(g, n + 1)
    OBVIOUS
  <2>1. PICK f \in [0 .. n -> V] : Good(f, n)
    BY <1>2
  <2> DEFINE g == [i \in 0 .. n + 1 |-> IF i = n + 1 THEN d[n + 1][f[n]] ELSE f[i]]
  <2>2. d[n + 1][f[n]] \in V
    OBVIOUS
  <2>3. g \in [0 .. n + 1 -> V]
    BY <2>2
  <2>4. Good(g, n + 1)
    BY <2>1
  <2> QED
    BY <2>3, <2>4, Zenon
<1>3. Nat \subseteq S
  <2> HIDE DEF S
  <2> QED
    BY <1>1, <1>2, AllNaturals, Zenon
<1>4. N \in S
  BY <1>3, Zenon
<1> QED
  BY <1>4 DEF HasRun

(* Induction up to N, for a set.                                           *)
LEMMA UpTo ==
    ASSUME NEW N \in Nat, NEW S, 0 \in S, \A i \in 1 .. N : i - 1 \in S => i \in S
    PROVE  0 .. N \subseteq S
<1> DEFINE T == {n \in Nat : n <= N => n \in S}
<1>1. 0 \in T
  BY Zenon
<1>2. ASSUME NEW n \in Nat, n \in T PROVE n + 1 \in T
  <2> SUFFICES ASSUME n + 1 <= N PROVE n + 1 \in S
    OBVIOUS
  <2>1. n + 1 \in 1 .. N /\ (n + 1) - 1 = n /\ n <= N
    OBVIOUS
  <2> QED
    BY <1>2, <2>1, Zenon
<1>3. Nat \subseteq T
  <2> HIDE DEF T
  <2> QED
    BY <1>1, <1>2, AllNaturals, Zenon
<1> QED
  BY <1>3

----------------------------------------------------------------------------
(* Strings and hashes.                                                     *)

(* hashString of any string is two halves of 16 bits: its loop never       *)
(* leaves 32 bits, whatever the length of the name.                        *)
LEMMA HashHalves ==
    ASSUME NEW s \in Seq(Nat)
    PROVE  /\ hashString(s)[1] \in 0 .. HalfWord - 1
           /\ hashString(s)[2] \in 0 .. HalfWord - 1
<1> DEFINE V == (0 .. HalfWord - 1) \X (0 .. HalfWord - 1)
           N == Len(s)
           Next1(w, c) == LET low == w[2] * 31 + c
                          IN <<(w[1] * 31 + low \div HalfWord) % HalfWord,
                               low % HalfWord>>
           d == [i \in 1 .. N |-> [w \in V |-> Next1(w, s[i])]]
           H == HashUpTo(s)
<1>0. /\ HalfWord \in Nat
      /\ \A x \in Nat : x % HalfWord \in 0 .. HalfWord - 1 /\ x \div HalfWord \in Nat
  <2>1. HalfWord \in Nat
    BY DEF HalfWord
  <2>2. \A x \in Nat : /\ x % HalfWord \in Int /\ x % HalfWord >= 0
                       /\ x % HalfWord < HalfWord
                       /\ x \div HalfWord \in Nat
    BY DEF HalfWord
  <2> QED
    BY <2>1, <2>2
<1>1. N \in Nat /\ \A i \in 1 .. N : s[i] \in Nat
  OBVIOUS
<1>2. ASSUME NEW w \in V, NEW c \in Nat PROVE Next1(w, c) \in V
  <2>1. w[1] \in 0 .. HalfWord - 1 /\ w[2] \in 0 .. HalfWord - 1
    BY Zenon
  <2>2. w[1] \in Nat /\ w[2] \in Nat
    BY <1>0, <2>1
  <2>3. w[2] * 31 + c \in Nat
    BY <2>2
  <2>4. (w[1] * 31 + (w[2] * 31 + c) \div HalfWord) \in Nat
    <3>1. (w[2] * 31 + c) \div HalfWord \in Nat
      BY <1>0, <2>3, Zenon
    <3>2. \A a \in Nat, q \in Nat : a * 31 + q \in Nat
      OBVIOUS
    <3> QED
      BY <2>2, <3>1, <3>2, Zenon
  <2> QED
    BY <1>0, <2>3, <2>4, Zenon
<1> HIDE DEF V, N, Next1
<1>3. d \in [1 .. N -> [V -> V]]
  BY <1>1, <1>2, Zenon
<1>4. <<0, 0>> \in V
  <2>1. 0 \in 0 .. HalfWord - 1
    BY DEF HalfWord
  <2> QED
    BY <2>1, Zenon DEF V
<1> HIDE DEF d
<1>5. PICK g \in [0 .. N -> V] :
          g[0] = <<0, 0>> /\ \A i \in 1 .. N : g[i] = d[i][g[i - 1]]
  <2> DEFINE v == <<0, 0>>
  <2>1. v \in V
    BY <1>4, Zenon
  <2> HIDE DEF v
  <2>2. HasRun(N, V, v, d)
    BY <1>1, <1>3, <2>1, Recursion, Zenon
  <2> QED
    BY <2>2, Zenon DEF v, HasRun
<1>6. \A i \in 1 .. N : i - 1 \in 0 .. N
  BY <1>1
<1>7. g = [i \in 0 .. N |-> IF i = 0 THEN <<0, 0>> ELSE Next1(g[i - 1], s[i])]
  <2>1. ASSUME NEW i \in 0 .. N, i # 0 PROVE g[i] = Next1(g[i - 1], s[i])
    <3>1. i \in 1 .. N
      BY <1>1, <2>1
    <3>2. g[i - 1] \in V
      BY <1>6, <3>1, Zenon
    <3> QED
      BY <1>5, <3>1, <3>2, Zenon DEF d
  <2> QED
    BY <1>5, <2>1, Zenon
<1>8. H = [i \in 0 .. N |-> IF i = 0 THEN <<0, 0>> ELSE Next1(H[i - 1], s[i])]
  BY <1>7, Zenon DEF HashUpTo, Next1, N
<1> HIDE DEF H
<1>9. 0 .. N \subseteq {i \in 0 .. N : H[i] \in V}
  <2> DEFINE S == {i \in 0 .. N : H[i] \in V}
  <2>1. 0 \in 0 .. N
    BY <1>1
  <2>2. 0 \in S
    BY <1>4, <1>8, <2>1, Zenon
  <2>3. ASSUME NEW i \in 1 .. N, i - 1 \in S PROVE i \in S
    <3>1. i \in 0 .. N /\ i # 0
      BY <1>1
    <3>2. H[i] = Next1(H[i - 1], s[i])
      BY <1>8, <3>1, Zenon
    <3> QED
      BY <1>1, <1>2, <2>3, <3>1, <3>2, Zenon
  <2> HIDE DEF S
  <2>4. 0 .. N \subseteq S
    BY <1>1, <2>2, <2>3, UpTo, Zenon
  <2> QED
    BY <2>4, Zenon DEF S
<1>10. H[N] \in V
  <2>1. N \in 0 .. N
    BY <1>1
  <2> QED
    BY <1>9, <2>1, Zenon
<1> QED
  BY <1>10, Zenon DEF hashString, H, N, V

(* replace(/\s+/g, " ") adds no letter but the single space.               *)
LEMMA SpacedLetters ==
    ASSUME NEW V, 32 \in V, NEW s \in Seq(V)
    PROVE  SingleSpaced(s) \in Seq(V)
<1> DEFINE N == Len(s)
           last == {i \in DOMAIN s : Blank(s[i]) => i = Len(s) \/ ~Blank(s[i + 1])}
           spaced == [i \in DOMAIN s |-> IF Blank(s[i]) THEN 32 ELSE s[i]]
           Grown(w, i) == IF i \in last THEN Append(w, spaced[i]) ELSE w
           W == Seq(V)
           v == << >>
           d == [i \in 1 .. N |-> [w \in W |-> Grown(w, i)]]
           K == SpacedUpTo(s)
<1>1. N \in Nat /\ DOMAIN s = 1 .. N /\ \A i \in 1 .. N : s[i] \in V
  BY LenProperties, ElementOfSeq, Zenon
<1>2. ASSUME NEW w \in W, NEW i \in 1 .. N PROVE Grown(w, i) \in W
  <2>1. spaced[i] \in V
    BY <1>1, Zenon
  <2> HIDE DEF spaced
  <2> QED
    BY <2>1, AppendProperties, Zenon
<1>3. v \in W
  BY EmptySeq, Zenon
<1> HIDE DEF N, W, v, Grown
<1>4. d \in [1 .. N -> [W -> W]]
  BY <1>2, Zenon
<1> HIDE DEF d
<1>5. HasRun(N, W, v, d)
  BY <1>1, <1>3, <1>4, Recursion, Zenon
<1>6. PICK g \in [0 .. N -> W] :
          g[0] = v /\ \A i \in 1 .. N : g[i] = d[i][g[i - 1]]
  BY <1>5, Zenon DEF HasRun
<1>7. g = [i \in 0 .. N |-> IF i = 0 THEN v ELSE Grown(g[i - 1], i)]
  <2>1. ASSUME NEW i \in 0 .. N, i # 0 PROVE g[i] = Grown(g[i - 1], i)
    <3>1. i \in 1 .. N /\ i - 1 \in 0 .. N
      BY <1>1, <2>1
    <3> QED
      BY <1>6, <3>1, Zenon DEF d
  <2> QED
    BY <1>6, <2>1, Zenon
<1>8. K = [i \in 0 .. N |-> IF i = 0 THEN v ELSE Grown(K[i - 1], i)]
  BY <1>7, Zenon DEF SpacedUpTo, Grown, N, v
<1> HIDE DEF K
<1> DEFINE S == {i \in 0 .. N : K[i] \in W}
<1>9. 0 .. N \subseteq S
  <2>1. 0 \in S
    <3>1. 0 \in 0 .. N
      BY <1>1
    <3> QED
      BY <1>3, <1>8, <3>1, Zenon
  <2>2. ASSUME NEW i \in 1 .. N, i - 1 \in S PROVE i \in S
    <3>1. i \in 0 .. N /\ i # 0
      BY <1>1
    <3> QED
      BY <1>2, <1>8, <2>2, <3>1, Zenon
  <2> HIDE DEF S
  <2> QED
    BY <1>1, <2>1, <2>2, UpTo, Zenon
<1>10. N \in 0 .. N
  BY <1>1
<1> QED
  BY <1>9, <1>10, Zenon DEF SingleSpaced, K, N, W

(* The positions of a string that hold ink have a first and a last one.    *)
LEMMA Ends ==
    ASSUME NEW N \in Nat, NEW T \in SUBSET (1 .. N), T # {}
    PROVE  /\ Min(T) \in T /\ \A j \in T : Min(T) <= j
           /\ Max(T) \in T /\ \A j \in T : Max(T) >= j
<1> DEFINE R == OpToRel(<, Nat)
<1>1. ASSUME NEW U, U \subseteq Nat, U # {}
      PROVE  \E u \in U : \A w \in U : u <= w
  <2>1. PICK u \in U : \A w \in U : ~(<<w, u>> \in R)
    BY <1>1, NatLessThanWellFounded, WFMin, Zenon
  <2>2. \A w \in U : ~(w < u)
    BY <1>1, <2>1, Zenon DEF OpToRel
  <2>3. \A w \in U : u <= w
    BY <1>1, <2>2
  <2> QED
    BY <2>3, Zenon
<1>2. T \subseteq Nat
  OBVIOUS
<1>3. \E i \in T : \A j \in T : i <= j
  BY <1>1, <1>2, Zenon
<1>4. \E i \in T : \A j \in T : i >= j
  <2> DEFINE U == {N - x : x \in T}
  <2>1. U \subseteq Nat
    OBVIOUS
  <2>2. U # {}
    BY Zenon
  <2>3. PICK u \in U : \A w \in U : u <= w
    <3> HIDE DEF U
    <3> QED
      BY <1>1, <2>1, <2>2, Zenon
  <2>4. PICK i \in T : u = N - i
    BY Zenon
  <2>5. ASSUME NEW j \in T PROVE i >= j
    <3>1. N - i <= N - j
      BY <2>3, <2>4, Zenon
    <3> QED
      BY <1>2, <3>1
  <2> QED
    BY <2>5, Zenon
<1>5. Min(T) \in T /\ \A j \in T : Min(T) <= j
  BY <1>3, Zenon DEF Min
<1>6. Max(T) \in T /\ \A j \in T : Max(T) >= j
  BY <1>4, Zenon DEF Max
<1> QED
  BY <1>5, <1>6, Zenon

(* trim() adds no letters, and trims no more when it is called again.      *)
LEMMA TrimmedIs ==
    ASSUME NEW V, NEW s \in Seq(V)
    PROVE  /\ Trimmed(s) \in Seq(V)
           /\ Trimmed(Trimmed(s)) = Trimmed(s)
<1> DEFINE ink(t) == {i \in DOMAIN t : ~Blank(t[i])}
<1>1. CASE ink(s) = {}
  <2>1. Trimmed(s) = << >>
    BY <1>1, Zenon DEF Trimmed
  <2>2. << >> \in Seq(V) /\ Len(<< >>) = 0
    BY EmptySeq, Zenon
  <2>3. ink(<< >>) = {}
    OBVIOUS
  <2>4. Trimmed(<< >>) = << >>
    BY <2>3, Zenon DEF Trimmed
  <2> QED
    BY <2>1, <2>2, <2>4, Zenon
<1>2. CASE ink(s) # {}
  <2> DEFINE a == Min(ink(s))
             z == Max(ink(s))
             t == SubSeq(s, a, z)
  <2>1. Len(s) \in Nat /\ DOMAIN s = 1 .. Len(s)
    BY LenProperties, Zenon
  <2>2. /\ a \in ink(s) /\ \A j \in ink(s) : a <= j
        /\ z \in ink(s) /\ \A j \in ink(s) : z >= j
    <3> DEFINE T == ink(s)
    <3>1. T \in SUBSET (1 .. Len(s)) /\ T # {}
      BY <1>2, <2>1, Zenon
    <3> HIDE DEF T
    <3>2. /\ Min(T) \in T /\ \A j \in T : Min(T) <= j
          /\ Max(T) \in T /\ \A j \in T : Max(T) >= j
      BY <2>1, <3>1, Ends, Zenon
    <3> QED
      BY <3>2, Zenon DEF T
  <2>3. Trimmed(s) = t
    BY <1>2, Zenon DEF Trimmed
  <2>4. /\ a \in 1 .. Len(s) /\ z \in 1 .. Len(s) /\ a <= z
        /\ ~Blank(s[a]) /\ ~Blank(s[z])
    BY <2>1, <2>2, Zenon
  <2> HIDE DEF a, z
  <2>5. /\ t \in Seq(V) /\ Len(t) = z - a + 1
        /\ t[1] = s[a] /\ t[z - a + 1] = s[z]
    BY <2>4
  <2> HIDE DEF t
  <2> DEFINE n == Len(t)
             T == ink(t)
  <2>6. n \in Nat /\ n >= 1 /\ DOMAIN t = 1 .. n
    BY <2>4, <2>5
  <2>7. 1 \in T /\ n \in T /\ T \in SUBSET (1 .. n)
    <3>1. 1 \in 1 .. n /\ n \in 1 .. n
      BY <2>6
    <3> QED
      BY <2>4, <2>5, <2>6, <3>1, Zenon
  <2>8. Min(T) = 1 /\ Max(T) = n
    <3> HIDE DEF T, n
    <3>1. /\ Min(T) \in T /\ \A j \in T : Min(T) <= j
          /\ Max(T) \in T /\ \A j \in T : Max(T) >= j
      BY <2>6, <2>7, Ends, Zenon
    <3>2. Min(T) \in 1 .. n /\ Max(T) \in 1 .. n /\ Min(T) <= 1 /\ Max(T) >= n
      BY <2>7, <3>1, Zenon
    <3> QED
      BY <2>6, <3>2
  <2>9. Trimmed(t) = SubSeq(t, 1, Len(t))
    BY <2>7, <2>8, Zenon DEF Trimmed
  <2>10. Trimmed(t) = t
    BY <2>5, <2>9, SubSeqFull, Zenon
  <2> QED
    BY <2>3, <2>5, <2>10, Zenon
<1> QED
  BY <1>1, <1>2, Zenon

(* clampName has no letters but those of the name, single spaces and those *)
(* of "Player".                                                            *)
LEMMA ClampLetters ==
    ASSUME NEW V, 32 \in V, {80, 108, 97, 121, 101, 114} \subseteq V,
           NEW s \in Seq(V)
    PROVE  clampName(s) \in Seq(V)
<1> DEFINE clean == SingleSpaced(Trimmed(s))
           name == IF clean = << >> THEN Player ELSE clean
           m == IF Len(name) < MAX_NAME THEN Len(name) ELSE MAX_NAME
<1>1. clean \in Seq(V)
  BY TrimmedIs, SpacedLetters, Zenon
<1>2. Player \in Seq(V)
  BY DEF Player
<1>3. name \in Seq(V)
  BY <1>1, <1>2, Zenon
<1>4. clampName(s) = SubSeq(name, 1, m)
  BY Zenon DEF clampName
<1> HIDE DEF clean, name
<1>5. m \in 0 .. Len(name)
  BY <1>3, NamesAssumption
<1> HIDE DEF m
<1>6. SubSeq(name, 1, m) \in Seq(V)
  BY <1>3, <1>5
<1> QED
  BY <1>4, <1>6, Zenon

----------------------------------------------------------------------------
(* UTF-8.                                                                 *)

\* Letters of names, and bytes.
Unit == 1 .. Surrogate - 1
Byte == 0 .. 255

(* The forms TextEncoder gives a letter: one, two or three bytes.          *)
LEMMA EncodedIs ==
    ASSUME NEW c \in Nat
    PROVE  /\ c < 128 => Encoded(c) = <<c>>
           /\ c >= 128 /\ c < 2048 => Encoded(c) = <<192 + c \div 64, 128 + (c % 64)>>
           /\ c >= 2048 => Encoded(c) = <<224 + c \div 4096, 128 + ((c \div 64) % 64),
                                          128 + (c % 64)>>
<1>1. c < 128 => Encoded(c) = <<c>>
  BY DEF Encoded
<1>2. c >= 128 /\ c < 2048 => Encoded(c) = <<192 + c \div 64, 128 + (c % 64)>>
  BY DEF Encoded
<1>3. c >= 2048 => Encoded(c) = <<224 + c \div 4096, 128 + ((c \div 64) % 64),
                                  128 + (c % 64)>>
  BY DEF Encoded
<1> QED
  BY <1>1, <1>2, <1>3

(* How many bytes a letter takes, and which: all of them are bytes.        *)
LEMMA Forms ==
    ASSUME NEW c \in Nat, c < Surrogate
    PROVE  /\ Encoded(c) \in Seq(Byte)
           /\ Len(Encoded(c)) = IF c < 128 THEN 1 ELSE IF c < 2048 THEN 2 ELSE 3
           /\ c < 128 => Encoded(c)[1] = c
           /\ c >= 128 /\ c < 2048 =>
                 Encoded(c)[1] = 192 + c \div 64 /\ Encoded(c)[2] = 128 + (c % 64)
           /\ c >= 2048 =>
                 /\ Encoded(c)[1] = 224 + c \div 4096
                 /\ Encoded(c)[2] = 128 + ((c \div 64) % 64)
                 /\ Encoded(c)[3] = 128 + (c % 64)
<1>1. CASE c < 128
  <2>1. Encoded(c) = <<c>>
    BY <1>1, EncodedIs
  <2> QED
    BY <1>1, <2>1 DEF Byte
<1>2. CASE c >= 128 /\ c < 2048
  <2> DEFINE x == 192 + c \div 64
             y == 128 + (c % 64)
  <2>1. Encoded(c) = <<x, y>>
    BY <1>2, EncodedIs
  <2>2. x \in Byte /\ y \in Byte
    BY <1>2 DEF Byte
  <2> HIDE DEF x, y
  <2>3. <<x, y>> \in Seq(Byte) /\ Len(<<x, y>>) = 2 /\ <<x, y>>[1] = x /\ <<x, y>>[2] = y
    BY <2>2
  <2>4. Encoded(c) \in Seq(Byte) /\ Len(Encoded(c)) = 2
    BY <2>1, <2>3, Zenon
  <2>5. Encoded(c)[1] = 192 + c \div 64 /\ Encoded(c)[2] = 128 + (c % 64)
    BY <2>1, <2>3, Zenon DEF x, y
  <2> QED
    BY <1>2, <2>4, <2>5
<1>3. CASE c >= 2048
  <2> DEFINE x == 224 + c \div 4096
             y == 128 + ((c \div 64) % 64)
             z == 128 + (c % 64)
  <2>1. Encoded(c) = <<x, y, z>>
    BY <1>3, EncodedIs
  <2>2. x \in Byte /\ y \in Byte /\ z \in Byte
    BY <1>3 DEF Byte, Surrogate
  <2> HIDE DEF x, y, z
  <2>3. /\ <<x, y, z>> \in Seq(Byte) /\ Len(<<x, y, z>>) = 3
        /\ <<x, y, z>>[1] = x /\ <<x, y, z>>[2] = y /\ <<x, y, z>>[3] = z
    BY <2>2
  <2>4. Encoded(c) \in Seq(Byte) /\ Len(Encoded(c)) = 3
    BY <2>1, <2>3, Zenon
  <2>5. /\ Encoded(c)[1] = x
        /\ Encoded(c)[2] = y
        /\ Encoded(c)[3] = z
    BY <2>1, <2>3, Zenon
  <2> QED
    BY <1>3, <2>4, <2>5 DEF x, y, z
<1> QED
  BY <1>1, <1>2, <1>3

(* A letter of a name is a number, and its encoding is made of bytes.      *)
LEMMA UnitForms ==
    ASSUME NEW c \in Unit
    PROVE  c \in Nat /\ c < Surrogate /\ Encoded(c) \in Seq(Byte)
<1>1. Surrogate \in Nat
  BY DEF Surrogate
<1>2. c \in Nat /\ c < Surrogate
  BY <1>1 DEF Unit
<1>3. \A x \in Nat : x < Surrogate => Encoded(x) \in Seq(Byte)
  BY Forms
<1> QED
  BY <1>2, <1>3, Zenon

(* TextEncoder writes letter by letter: BytesUpTo is what its definition   *)
(* says, for strings of any length.                                        *)
LEMMA BytesGrow ==
    ASSUME NEW s \in Seq(Unit)
    PROVE  /\ BytesUpTo(s)[0] = << >>
           /\ \A i \in 0 .. Len(s) : BytesUpTo(s)[i] \in Seq(Byte)
           /\ \A i \in 1 .. Len(s) :
                 BytesUpTo(s)[i] = BytesUpTo(s)[i - 1] \o Encoded(s[i])
<1> DEFINE N == Len(s)
           W == Seq(Byte)
           v == << >>
           Grown(w, i) == w \o Encoded(s[i])
           d == [i \in 1 .. N |-> [w \in W |-> Grown(w, i)]]
           B == BytesUpTo(s)
<1>1. N \in Nat /\ \A i \in 1 .. N : s[i] \in Unit
  BY LenProperties, ElementOfSeq, Zenon
<1>2. ASSUME NEW w \in W, NEW i \in 1 .. N PROVE Grown(w, i) \in W
  <2>1. Encoded(s[i]) \in W
    BY <1>1, UnitForms, Zenon
  <2> QED
    BY <2>1, ConcatProperties, Zenon
<1>3. v \in W
  BY EmptySeq, Zenon
<1> HIDE DEF N, W, v, Grown
<1>4. d \in [1 .. N -> [W -> W]]
  BY <1>2, Zenon
<1> HIDE DEF d
<1>5. HasRun(N, W, v, d)
  BY <1>1, <1>3, <1>4, Recursion, Zenon
<1>6. PICK g \in [0 .. N -> W] :
          g[0] = v /\ \A i \in 1 .. N : g[i] = d[i][g[i - 1]]
  BY <1>5, Zenon DEF HasRun
<1>7. g = [i \in 0 .. N |-> IF i = 0 THEN v ELSE Grown(g[i - 1], i)]
  <2>1. ASSUME NEW i \in 0 .. N, i # 0 PROVE g[i] = Grown(g[i - 1], i)
    <3>1. i \in 1 .. N /\ i - 1 \in 0 .. N
      BY <1>1, <2>1
    <3> QED
      BY <1>6, <3>1, Zenon DEF d
  <2> QED
    BY <1>6, <2>1, Zenon
<1>8. B = [i \in 0 .. N |-> IF i = 0 THEN v ELSE Grown(B[i - 1], i)]
  BY <1>7, Zenon DEF BytesUpTo, Grown, N, v
<1> HIDE DEF B
<1> DEFINE S == {i \in 0 .. N : B[i] \in W}
<1>9. 0 \in 0 .. N /\ \A i \in 1 .. N : i \in 0 .. N /\ i # 0
  BY <1>1
<1>10. 0 .. N \subseteq S
  <2>1. 0 \in S
    BY <1>3, <1>8, <1>9, Zenon
  <2>2. ASSUME NEW i \in 1 .. N, i - 1 \in S PROVE i \in S
    BY <1>2, <1>8, <1>9, <2>2, Zenon
  <2> HIDE DEF S
  <2> QED
    BY <1>1, <2>1, <2>2, UpTo, Zenon
<1>11. B[0] = << >> /\ \A i \in 1 .. N : B[i] = B[i - 1] \o Encoded(s[i])
  BY <1>8, <1>9, Zenon DEF v, Grown
<1> QED
  BY <1>10, <1>11, Zenon DEF B, N, W

(* What TextEncoder has written of the first letters stays as it is.       *)
LEMMA BytesStay ==
    ASSUME NEW s \in Seq(Unit), NEW j \in 0 .. Len(s), NEW i \in 0 .. j
    PROVE  /\ Len(BytesUpTo(s)[i]) <= Len(BytesUpTo(s)[j])
           /\ \A k \in 1 .. Len(BytesUpTo(s)[i]) :
                 BytesUpTo(s)[j][k] = BytesUpTo(s)[i][k]
<1> DEFINE N == Len(s)
           B == BytesUpTo(s)
           Kept(m, n) == /\ Len(B[m]) <= Len(B[n])
                         /\ \A k \in 1 .. Len(B[m]) : B[n][k] = B[m][k]
           S == {n \in 0 .. N : \A m \in 0 .. n : Kept(m, n)}
<1>1. N \in Nat
  OBVIOUS
<1>2. /\ \A n \in 0 .. N : B[n] \in Seq(Byte)
      /\ \A n \in 1 .. N : B[n] = B[n - 1] \o Encoded(s[n])
  BY BytesGrow, Zenon
<1>3. \A n \in 1 .. N : Encoded(s[n]) \in Seq(Byte)
  BY ElementOfSeq, UnitForms, Zenon
<1> HIDE DEF N, B
<1>4. ASSUME NEW n \in 0 .. N PROVE Kept(n, n)
  BY <1>2
<1>5. 0 \in S
  <2>1. 0 \in 0 .. N /\ \A m \in 0 .. 0 : m = 0
    BY <1>1
  <2> QED
    BY <1>4, <2>1, Zenon
<1>6. ASSUME NEW n \in 1 .. N, n - 1 \in S PROVE n \in S
  <2>1. n \in 0 .. N /\ n - 1 \in 0 .. N
    BY <1>1
  <2> SUFFICES ASSUME NEW m \in 0 .. n, m # n PROVE Kept(m, n)
    BY <1>4, <2>1, Zenon
  <2>2. m \in 0 .. n - 1 /\ m \in 0 .. N
    BY <1>1
  <2>3. Kept(m, n - 1)
    BY <1>6, <2>2, Zenon
  <2> DEFINE a == B[n - 1]
             e == Encoded(s[n])
             c == B[m]
  <2>4. a \in Seq(Byte) /\ e \in Seq(Byte) /\ c \in Seq(Byte) /\ B[n] = a \o e
    BY <1>2, <1>3, <2>1, <2>2, Zenon
  <2>5. Len(c) <= Len(a) /\ \A k \in 1 .. Len(c) : a[k] = c[k]
    BY <2>3, Zenon
  <2> HIDE DEF a, e, c
  <2>6. Len(c) <= Len(a \o e) /\ \A k \in 1 .. Len(c) : (a \o e)[k] = c[k]
    BY <2>4, <2>5
  <2> QED
    BY <2>4, <2>6, Zenon DEF c
<1>7. 0 .. N \subseteq S
  <2> HIDE DEF S
  <2> QED
    BY <1>1, <1>5, <1>6, UpTo, Zenon
<1>8. Kept(i, j)
  BY <1>7, Zenon DEF N
<1> QED
  BY <1>8, Zenon DEF B

(* What TextDecoder reads at a byte, for each of the forms: no two of them *)
(* apply at once.                                                          *)
LEMMA DecodedForms ==
    ASSUME NEW b \in Seq(Byte), NEW f, NEW i \in Nat \ {0}
    PROVE  /\ i > Len(b) => DecodedAt(b, f, i) = << >>
           /\ OneByte(b, i) => DecodedAt(b, f, i) = <<b[i]>> \o f[i + 1]
           /\ TwoBytes(b, i) => DecodedAt(b, f, i) = <<OfTwo(b, i)>> \o f[i + 2]
           /\ ThreeBytes(b, i) => DecodedAt(b, f, i) = <<OfThree(b, i)>> \o f[i + 3]
           /\ ~(i > Len(b)) /\ ~OneByte(b, i) /\ ~TwoBytes(b, i) /\ ~ThreeBytes(b, i)
                 => DecodedAt(b, f, i) = <<Replacement>> \o f[i + 1]
<1>1. i <= Len(b) => b[i] \in Byte
  OBVIOUS
<1>2. i <= Len(b) => b[i] \in Nat
  <2>1. Byte \subseteq Nat
    BY DEF Byte
  <2> QED
    BY <1>1, <2>1, Zenon
<1>3. OneByte(b, i) => ~(i > Len(b)) /\ b[i] \in Nat /\ b[i] < 128
  BY <1>2 DEF OneByte
<1>4. TwoBytes(b, i) => ~(i > Len(b)) /\ b[i] \in Nat /\ ~(b[i] < 128) /\ b[i] < 224
  <2> DEFINE Lead == 194 .. 223
  <2>1. \A c \in Lead : ~(c < 128) /\ c < 224
    OBVIOUS
  <2>2. TwoBytes(b, i) => i <= Len(b) /\ b[i] \in Lead
    BY DEF TwoBytes
  <2>3. i <= Len(b) => ~(i > Len(b))
    OBVIOUS
  <2> HIDE DEF Lead
  <2> QED
    BY <1>2, <2>1, <2>2, <2>3
<1>5. ThreeBytes(b, i) => ~(i > Len(b)) /\ b[i] \in Nat /\ b[i] >= 224
  <2> DEFINE Lead == 224 .. 239
  <2>1. \A c \in Lead : c >= 224
    OBVIOUS
  <2>2. ThreeBytes(b, i) => i <= Len(b) /\ b[i] \in Lead
    BY Zenon DEF ThreeBytes
  <2>3. i <= Len(b) => ~(i > Len(b))
    OBVIOUS
  <2> HIDE DEF Lead
  <2> QED
    BY <1>2, <2>1, <2>2, <2>3
<1>6. /\ OneByte(b, i) => ~TwoBytes(b, i) /\ ~ThreeBytes(b, i)
      /\ TwoBytes(b, i) => ~ThreeBytes(b, i)
      /\ i > Len(b) => ~OneByte(b, i) /\ ~TwoBytes(b, i) /\ ~ThreeBytes(b, i)
  BY <1>3, <1>4, <1>5
<1>7. i > Len(b) => DecodedAt(b, f, i) = << >>
  BY <1>6, SMTT(60) DEF DecodedAt
<1>8. OneByte(b, i) => DecodedAt(b, f, i) = <<b[i]>> \o f[i + 1]
  BY <1>3, <1>6, SMTT(60) DEF DecodedAt
<1>9. TwoBytes(b, i) => DecodedAt(b, f, i) = <<OfTwo(b, i)>> \o f[i + 2]
  BY <1>4, <1>6, SMTT(60) DEF DecodedAt
<1>10. ThreeBytes(b, i) => DecodedAt(b, f, i) = <<OfThree(b, i)>> \o f[i + 3]
  BY <1>5, <1>6, SMTT(60) DEF DecodedAt
<1>11. ~(i > Len(b)) /\ ~OneByte(b, i) /\ ~TwoBytes(b, i) /\ ~ThreeBytes(b, i)
                 => DecodedAt(b, f, i) = <<Replacement>> \o f[i + 1]
  BY SMTT(60) DEF DecodedAt
<1> QED
  BY <1>7, <1>8, <1>9, <1>10, <1>11, Zenon

(* TextDecoder looks only ahead of a byte, and not beyond the end.         *)
LEMMA DecodedAhead ==
    ASSUME NEW b \in Seq(Byte), NEW f, NEW g, NEW i \in 1 .. Len(b) + 1,
           \A j \in i + 1 .. Len(b) + 1 : f[j] = g[j]
    PROVE  DecodedAt(b, f, i) = DecodedAt(b, g, i)
<1>1. i \in Nat \ {0}
  OBVIOUS
<1>2. ~(i > Len(b)) => i + 1 \in i + 1 .. Len(b) + 1
  OBVIOUS
<1>3. TwoBytes(b, i) => i + 2 \in i + 1 .. Len(b) + 1
  BY DEF TwoBytes, Follows
<1>4. ThreeBytes(b, i) => i + 3 \in i + 1 .. Len(b) + 1
  BY DEF ThreeBytes, Follows
<1>5. OneByte(b, i) => ~(i > Len(b))
  BY DEF OneByte
<1>6. CASE i > Len(b)
  BY <1>1, <1>6, DecodedForms, Zenon
<1>7. CASE OneByte(b, i)
  <2>1. f[i + 1] = g[i + 1]
    BY <1>2, <1>5, <1>7, Zenon
  <2> QED
    BY <1>1, <1>7, <2>1, DecodedForms, Zenon
<1>8. CASE TwoBytes(b, i)
  <2>1. f[i + 2] = g[i + 2]
    BY <1>3, <1>8, Zenon
  <2>2. DecodedAt(b, f, i) = <<OfTwo(b, i)>> \o f[i + 2]
    BY <1>1, <1>8, DecodedForms, Zenon
  <2>3. DecodedAt(b, g, i) = <<OfTwo(b, i)>> \o g[i + 2]
    BY <1>1, <1>8, DecodedForms, Zenon
  <2> QED
    BY <2>1, <2>2, <2>3, Zenon
<1>9. CASE ThreeBytes(b, i)
  <2>1. f[i + 3] = g[i + 3]
    BY <1>4, <1>9, Zenon
  <2>2. DecodedAt(b, f, i) = <<OfThree(b, i)>> \o f[i + 3]
    BY <1>1, <1>9, DecodedForms, Zenon
  <2>3. DecodedAt(b, g, i) = <<OfThree(b, i)>> \o g[i + 3]
    BY <1>1, <1>9, DecodedForms, Zenon
  <2> QED
    BY <2>1, <2>2, <2>3, Zenon
<1>10. CASE ~(i > Len(b)) /\ ~OneByte(b, i) /\ ~TwoBytes(b, i) /\ ~ThreeBytes(b, i)
  <2>1. f[i + 1] = g[i + 1]
    BY <1>2, <1>10, Zenon
  <2>2. DecodedAt(b, f, i) = <<Replacement>> \o f[i + 1]
    BY <1>1, <1>10, DecodedForms, Zenon
  <2>3. DecodedAt(b, g, i) = <<Replacement>> \o g[i + 1]
    BY <1>1, <1>10, DecodedForms, Zenon
  <2> QED
    BY <2>1, <2>2, <2>3, Zenon
<1> QED
  BY <1>6, <1>7, <1>8, <1>9, <1>10, Zenon

(* TextDecoder reads from byte to byte: DecodedFrom is what its definition *)
(* says, for byte strings of any length.                                   *)
LEMMA DecodedIs ==
    ASSUME NEW b \in Seq(Byte), NEW i \in 1 .. Len(b) + 1
    PROVE  DecodedFrom(b)[i] = DecodedAt(b, DecodedFrom(b), i)
<1> DEFINE L == Len(b)
           D == 1 .. L + 1
           Good(g, n) == \A j \in D : j > L - n => g[j] = DecodedAt(b, g, j)
           S == {n \in 0 .. L : \E g : g = [j \in D |-> g[j]] /\ Good(g, n)}
           F == DecodedFrom(b)
<1>1. L \in Nat
  OBVIOUS
<1> HIDE DEF L
<1>2. 0 \in S
  <2> DEFINE g == [j \in D |-> << >>]
  <2>1. g = [j \in D |-> g[j]]
    BY Zenon
  <2>2. ASSUME NEW j \in D, j > L - 0 PROVE g[j] = DecodedAt(b, g, j)
    <3>1. j \in Nat \ {0} /\ j > Len(b)
      BY <1>1, <2>2 DEF L
    <3> HIDE DEF g
    <3>2. DecodedAt(b, g, j) = << >>
      BY <3>1, DecodedForms, Zenon
    <3> QED
      BY <3>2, Zenon DEF g
  <2>3. 0 \in 0 .. L
    BY <1>1
  <2> QED
    BY <2>1, <2>2, <2>3, Zenon
<1>3. ASSUME NEW n \in 1 .. L, n - 1 \in S PROVE n \in S
  <2>1. PICK f : f = [j \in D |-> f[j]] /\ Good(f, n - 1)
    BY <1>3, Zenon
  <2> DEFINE m == L - n + 1
             g == [j \in D |-> IF j = m THEN DecodedAt(b, f, m) ELSE f[j]]
  <2>2. m \in D /\ n \in 0 .. L
    BY <1>1
  <2>3. ASSUME NEW j \in D, j >= m PROVE DecodedAt(b, f, j) = DecodedAt(b, g, j)
    <3>1. \A k \in j + 1 .. L + 1 : k \in D /\ k # m
      BY <1>1, <2>2, <2>3
    <3>2. \A k \in j + 1 .. L + 1 : f[k] = g[k]
      BY <3>1, Zenon
    <3> HIDE DEF g, m
    <3> QED
      BY <3>2, DecodedAhead, Zenon DEF L
  <2>4. ASSUME NEW j \in D, j > L - n PROVE g[j] = DecodedAt(b, g, j)
    <3>1. j >= m
      BY <1>1, <2>4
    <3>2. DecodedAt(b, f, j) = DecodedAt(b, g, j)
      BY <2>3, <3>1, Zenon
    <3>3. CASE j = m
      BY <3>2, <3>3, Zenon
    <3>4. CASE j # m
      <4>1. j > L - (n - 1)
        BY <1>1, <3>1, <3>4
      <4>2. f[j] = DecodedAt(b, f, j)
        BY <2>1, <4>1, Zenon
      <4> QED
        BY <3>2, <3>4, <4>2, Zenon
    <3> QED
      BY <3>3, <3>4, Zenon
  <2>5. g = [j \in D |-> g[j]]
    BY Zenon
  <2> HIDE DEF g
  <2> QED
    BY <2>2, <2>4, <2>5, Zenon
<1>4. L \in S
  <2>1. L \in 0 .. L
    BY <1>1
  <2> HIDE DEF S
  <2>2. 0 .. L \subseteq S
    BY <1>1, <1>2, <1>3, UpTo, Zenon
  <2> QED
    BY <2>1, <2>2, Zenon
<1>5. PICK g : g = [j \in D |-> g[j]] /\ Good(g, L)
  BY <1>4, Zenon
<1>6. \A j \in D : j > L - L
  BY <1>1
<1>7. g = [j \in D |-> DecodedAt(b, g, j)]
  BY <1>5, <1>6, Zenon
<1>8. F = [j \in D |-> DecodedAt(b, F, j)]
  BY <1>7, Zenon DEF DecodedFrom, L
<1> HIDE DEF F
<1> QED
  BY <1>8, Zenon DEF F, L

(* The byte of a letter of one byte has that form.                         *)
LEMMA OfOneByte ==
    ASSUME NEW c \in Nat, c < 128, NEW b \in Seq(Byte), NEW p \in Nat \ {0},
           p <= Len(b), b[p] = c
    PROVE  OneByte(b, p)
BY DEF OneByte

(* The bytes of a letter of two bytes have that form and stand for it.     *)
LEMMA OfTwoBytes ==
    ASSUME NEW c \in Nat, c >= 128, c < 2048, NEW b \in Seq(Byte), NEW p \in Nat \ {0},
           p + 1 <= Len(b), b[p] = 192 + c \div 64, b[p + 1] = 128 + (c % 64)
    PROVE  TwoBytes(b, p) /\ OfTwo(b, p) = c
<1> DEFINE x == c \div 64
           y == c % 64
<1>1. x \in 2 .. 31 /\ y \in 0 .. 63 /\ c = 64 * x + y
  OBVIOUS
<1> HIDE DEF x, y
<1>2. (192 + x) % 32 = x /\ (128 + y) % 64 = y
  BY <1>1
<1>3. 192 + x \in 194 .. 223 /\ 128 + y \in 128 .. 191
  BY <1>1
<1>4. b[p] = 192 + x /\ b[p + 1] = 128 + y
  BY DEF x, y
<1>5. TwoBytes(b, p)
  BY <1>3, <1>4 DEF TwoBytes, Follows
<1>6. OfTwo(b, p) = x * 64 + y
  BY <1>2, <1>4 DEF OfTwo
<1> QED
  BY <1>1, <1>5, <1>6

(* The three digits of a letter above 2047: they make up the letter again, *)
(* and the second one keeps the form clear of overlong encodings and of    *)
(* the surrogates.                                                         *)
LEMMA ThreeDigits ==
    ASSUME NEW c \in Nat, c >= 2048, c < Surrogate
    PROVE  /\ c \div 4096 \in 0 .. 13
           /\ (c \div 64) % 64 \in 0 .. 63 /\ c % 64 \in 0 .. 63
           /\ c = (c \div 4096) * 4096 + ((c \div 64) % 64) * 64 + (c % 64)
           /\ c \div 4096 = 0 => (c \div 64) % 64 >= 32
           /\ c \div 4096 = 13 => (c \div 64) % 64 < 32
<1>1. c \div 4096 \in 0 .. 13 /\ (c \div 64) % 64 \in 0 .. 63 /\ c % 64 \in 0 .. 63
  BY DEF Surrogate
<1>2. c = (c \div 4096) * 4096 + ((c \div 64) % 64) * 64 + (c % 64)
  OBVIOUS
<1>3. c \div 4096 = 0 => (c \div 64) % 64 >= 32
  OBVIOUS
<1>4. c \div 4096 = 13 => (c \div 64) % 64 < 32
  BY DEF Surrogate
<1> QED
  BY <1>1, <1>2, <1>3, <1>4

\* The form of three bytes at p, with the digits x, y, z.
Digits(x, y, z) == x * 4096 + y * 64 + z

ThreeAt(x, y, z, b, p) ==
    /\ x \in 0 .. 13 /\ y \in 0 .. 63 /\ z \in 0 .. 63
    /\ x = 0 => y >= 32
    /\ x = 13 => y < 32
    /\ b \in Seq(Byte) /\ p \in Nat \ {0} /\ p + 2 <= Len(b)
    /\ b[p] = 224 + x /\ b[p + 1] = 128 + y /\ b[p + 2] = 128 + z

(* Three such bytes have the form of three bytes and stand for their       *)
(* digits.                                                                 *)
LEMMA OfThreeBytes ==
    ASSUME NEW x, NEW y, NEW z, NEW b, NEW p, ThreeAt(x, y, z, b, p)
    PROVE  ThreeBytes(b, p) /\ OfThree(b, p) = Digits(x, y, z)
<1>0. x \in 0 .. 13 /\ y \in 0 .. 63 /\ z \in 0 .. 63
  BY Zenon DEF ThreeAt
<1>1. /\ (224 + x) % 16 = x /\ (128 + y) % 64 = y /\ (128 + z) % 64 = z
  <2>1. (224 + x) % 16 = x
    BY <1>0
  <2>2. \A d \in 0 .. 63 : (128 + d) % 64 = d
    OBVIOUS
  <2> QED
    BY <1>0, <2>1, <2>2, Zenon
<1>2. /\ 224 + x \in 224 .. 239 /\ 128 + y \in 128 .. 191 /\ 128 + z \in 128 .. 191
      /\ 224 + x = 224 => 128 + y >= 160
      /\ 224 + x = 237 => 128 + y < 160
  BY DEF ThreeAt
<1>3. b[p] = 224 + x /\ b[p + 1] = 128 + y /\ b[p + 2] = 128 + z
  BY DEF ThreeAt
<1>4. /\ b \in Seq(Byte) /\ p \in Nat \ {0}
      /\ p + 2 <= Len(b) /\ p + 1 <= Len(b) /\ p <= Len(b)
  BY DEF ThreeAt
<1>5. ThreeBytes(b, p)
  <2>1. Follows(b, p + 1)
    BY <1>2, <1>3, <1>4 DEF Follows
  <2>2. Follows(b, p + 2)
    BY <1>2, <1>3, <1>4 DEF Follows
  <2>3. b[p] \in 224 .. 239
    BY <1>2, <1>3
  <2>4. (b[p] = 224 => b[p + 1] >= 160) /\ (b[p] = 237 => b[p + 1] < 160)
    BY <1>2, <1>3
  <2> QED
    BY <1>4, <2>1, <2>2, <2>3, <2>4 DEF ThreeBytes
<1>6. OfThree(b, p) = Digits(x, y, z)
  BY <1>1, <1>3 DEF OfThree, Digits
<1> QED
  BY <1>5, <1>6

(* Where the bytes of a letter stand, TextDecoder reads the letter and     *)
(* goes on behind them.                                                    *)
LEMMA DecodeOne ==
    ASSUME NEW c \in Nat, c < Surrogate, NEW b \in Seq(Byte), NEW p \in Nat \ {0},
           p - 1 + Len(Encoded(c)) <= Len(b),
           \A k \in 1 .. Len(Encoded(c)) : b[p - 1 + k] = Encoded(c)[k], NEW f
    PROVE  DecodedAt(b, f, p) = <<c>> \o f[p + Len(Encoded(c))]
<1> DEFINE e == Encoded(c)
           Short == c < 128
           Middle == c >= 128 /\ c < 2048
           Long == c >= 2048
<1>0. p - 1 + 1 = p /\ p - 1 + 2 = p + 1 /\ p - 1 + 3 = p + 2
  OBVIOUS
<1>1. CASE Short
  <2>1. Len(e) = 1 /\ e[1] = c
    BY <1>1, Forms
  <2> HIDE DEF e
  <2>2. b[p - 1 + 1] = c /\ p - 1 + 1 <= Len(b)
    BY <2>1 DEF e
  <2>3. b[p] = c /\ p <= Len(b)
    BY <1>0, <2>2
  <2>4. OneByte(b, p)
    BY <1>1, <2>3, OfOneByte
  <2>5. DecodedAt(b, f, p) = <<b[p]>> \o f[p + 1]
    BY <2>4, DecodedForms, Zenon
  <2> QED
    BY <2>1, <2>3, <2>5, Zenon DEF e
<1>2. CASE Middle
  <2>1. Len(e) = 2 /\ e[1] = 192 + c \div 64 /\ e[2] = 128 + (c % 64)
    BY <1>2, Forms
  <2>2. b[p - 1 + 1] = e[1] /\ b[p - 1 + 2] = e[2] /\ p - 1 + 2 <= Len(b)
    BY <2>1
  <2> HIDE DEF e
  <2>3. b[p] = 192 + c \div 64 /\ b[p + 1] = 128 + (c % 64) /\ p + 1 <= Len(b)
    <3> DEFINE x == 192 + c \div 64
               y == 128 + (c % 64)
    <3>1. e[1] = x /\ e[2] = y
      BY <2>1, Zenon
    <3> HIDE DEF x, y
    <3>2. b[p] = x /\ b[p + 1] = y /\ p + 1 <= Len(b)
      BY <1>0, <2>2, <3>1, Zenon
    <3> QED
      BY <3>2, Zenon DEF x, y
  <2>4. TwoBytes(b, p) /\ OfTwo(b, p) = c
    BY <1>2, <2>3, OfTwoBytes, SMTT(60)
  <2>5. DecodedAt(b, f, p) = <<OfTwo(b, p)>> \o f[p + 2]
    BY <2>4, DecodedForms, Zenon
  <2>6. Len(Encoded(c)) = 2
    BY <2>1 DEF e
  <2> QED
    BY <2>4, <2>5, <2>6, Zenon
<1>3. CASE Long
  <2> DEFINE x == c \div 4096
             y == (c \div 64) % 64
             z == c % 64
  <2>1. Len(e) = 3 /\ e[1] = 224 + x /\ e[2] = 128 + y /\ e[3] = 128 + z
    BY <1>3, Forms
  <2>2. /\ b[p - 1 + 1] = e[1] /\ b[p - 1 + 2] = e[2] /\ b[p - 1 + 3] = e[3]
        /\ p - 1 + 3 <= Len(b)
    BY <2>1
  <2>3. /\ x \in 0 .. 13 /\ y \in 0 .. 63 /\ z \in 0 .. 63
        /\ x = 0 => y >= 32
        /\ x = 13 => y < 32
    BY <1>3, ThreeDigits
  <2>4. c = x * 4096 + y * 64 + z
    BY <1>3, ThreeDigits
  <2> HIDE DEF e, x, y, z
  <2>5. b[p] = 224 + x /\ b[p + 1] = 128 + y /\ b[p + 2] = 128 + z /\ p + 2 <= Len(b)
    BY <1>0, <2>1, <2>2
  <2>6. ThreeAt(x, y, z, b, p)
    BY <2>3, <2>5 DEF ThreeAt
  <2>7. ThreeBytes(b, p) /\ OfThree(b, p) = c
    <3>1. c = Digits(x, y, z)
      BY <2>4 DEF Digits
    <3>2. ThreeBytes(b, p) /\ OfThree(b, p) = Digits(x, y, z)
      BY <2>6, OfThreeBytes, ZenonT(60)
    <3> QED
      BY <3>1, <3>2, Zenon
  <2>8. DecodedAt(b, f, p) = <<OfThree(b, p)>> \o f[p + 3]
    BY <2>7, DecodedForms, Zenon
  <2>9. Len(Encoded(c)) = 3
    BY <2>1 DEF e
  <2> QED
    BY <2>7, <2>8, <2>9, Zenon
<1>4. Short \/ Middle \/ Long
  OBVIOUS
<1> HIDE DEF e, Short, Middle, Long
<1> QED
  BY <1>1, <1>2, <1>3, <1>4, Zenon

(* TextDecoder undoes TextEncoder, for every string of letters below the   *)
(* surrogates.                                                             *)
LEMMA DecodedUtf8 ==
    ASSUME NEW s \in Seq(Unit)
    PROVE  Decoded(Utf8(s)) = s
<1> DEFINE N == Len(s)
           B == BytesUpTo(s)
           b == Utf8(s)
           F == DecodedFrom(b)
           Read(m) == F[Len(B[m]) + 1] = SubSeq(s, m + 1, N)
           S == {n \in 0 .. N : Read(N - n)}
<1>1. N \in Nat /\ N \in 0 .. N /\ 0 \in 0 .. N
  OBVIOUS
<1>2. /\ B[0] = << >>
      /\ \A i \in 0 .. N : B[i] \in Seq(Byte)
      /\ \A i \in 1 .. N : B[i] = B[i - 1] \o Encoded(s[i])
  BY BytesGrow, Zenon
<1>3. b = B[N] /\ b \in Seq(Byte) /\ Len(b) \in Nat
  <2>1. b = B[N]
    BY Zenon DEF Utf8
  <2>2. b \in Seq(Byte)
    BY <1>1, <1>2, <2>1, Zenon
  <2> HIDE DEF b
  <2> QED
    BY <2>1, <2>2
<1>4. \A i \in 1 .. Len(b) + 1 : F[i] = DecodedAt(b, F, i)
  <2> HIDE DEF b
  <2> QED
    BY <1>3, DecodedIs, Zenon
<1>5. \A m \in 0 .. N : /\ Len(B[m]) \in Nat /\ Len(B[m]) <= Len(b)
                        /\ \A k \in 1 .. Len(B[m]) : b[k] = B[m][k]
  <2> SUFFICES ASSUME NEW m \in 0 .. N
               PROVE  /\ Len(B[m]) \in Nat /\ Len(B[m]) <= Len(b)
                      /\ \A k \in 1 .. Len(B[m]) : b[k] = B[m][k]
    BY Zenon
  <2>1. B[m] \in Seq(Byte)
    BY <1>2, Zenon
  <2>2. Len(B[m]) \in Nat
    <3> HIDE DEF B
    <3> QED
      BY <2>1
  <2> HIDE DEF b
  <2>3. Len(B[m]) <= Len(b) /\ \A k \in 1 .. Len(B[m]) : b[k] = B[m][k]
    BY <1>1, <1>3, BytesStay, Zenon
  <2> QED
    BY <2>2, <2>3, Zenon
<1> HIDE DEF B, b, F
<1>6. 0 \in S
  <2>1. Len(b) + 1 \in 1 .. Len(b) + 1 /\ Len(b) + 1 > Len(b) /\ Len(b) + 1 \in Nat \ {0}
    BY <1>3
  <2>2. F[Len(b) + 1] = << >>
    BY <1>3, <1>4, <2>1, DecodedForms, Zenon
  <2>3. SubSeq(s, N + 1, N) = << >> /\ N - 0 = N
    OBVIOUS
  <2>4. Read(N)
    BY <1>3, <2>2, <2>3, Zenon
  <2> QED
    BY <1>1, <2>3, <2>4, Zenon
<1>7. ASSUME NEW n \in 1 .. N, n - 1 \in S PROVE n \in S
  <2> DEFINE m == N - n + 1
             c == s[m]
             e == Encoded(c)
             a == B[m - 1]
             p == Len(a) + 1
  <2>1. /\ m \in 1 .. N /\ m \in 0 .. N /\ m - 1 \in 0 .. N /\ n \in 0 .. N
        /\ N - (n - 1) = m /\ N - n = m - 1
    OBVIOUS
  <2>2. Read(m)
    BY <2>1, <1>7, Zenon
  <2> HIDE DEF m
  <2>3. c \in Unit
    BY <2>1
  <2>4. c \in Nat /\ c < Surrogate /\ e \in Seq(Byte)
    BY <2>3, UnitForms, Zenon
  <2>5. a \in Seq(Byte) /\ B[m] = a \o e
    BY <1>2, <2>1, Zenon
  <2>6. Len(B[m]) <= Len(b) /\ \A k \in 1 .. Len(B[m]) : b[k] = B[m][k]
    BY <1>5, <2>1, Zenon
  <2> HIDE DEF c, e, a
  <2>7. /\ Len(B[m]) = Len(a) + Len(e)
        /\ \A k \in 1 .. Len(e) : /\ (a \o e)[Len(a) + k] = e[k]
                                  /\ Len(a) + k \in 1 .. Len(a) + Len(e)
        /\ p \in Nat \ {0} /\ p - 1 = Len(a) /\ p + Len(e) = Len(a) + Len(e) + 1
        /\ Len(a) \in Nat /\ Len(e) \in Nat
    BY <2>4, <2>5
  <2>8. p - 1 + Len(e) <= Len(b) /\ \A k \in 1 .. Len(e) : b[p - 1 + k] = e[k]
    BY <2>5, <2>6, <2>7, Zenon
  <2>9. p \in 1 .. Len(b) + 1
    BY <1>3, <2>7, <2>8
  <2> HIDE DEF p
  <2>10. DecodedAt(b, F, p) = <<c>> \o F[p + Len(e)]
    BY <1>3, <2>4, <2>7, <2>8, DecodeOne, ZenonT(60) DEF e
  <2>11. F[p + Len(e)] = SubSeq(s, m + 1, N)
    BY <2>2, <2>7, Zenon
  <2>12. F[p] = <<c>> \o SubSeq(s, m + 1, N)
    BY <1>4, <2>9, <2>10, <2>11, Zenon
  <2>13. <<c>> \o SubSeq(s, m + 1, N) = SubSeq(s, m, N)
    BY <2>1 DEF c
  <2>14. m - 1 + 1 = m
    BY <2>1
  <2>15. Read(m - 1)
    BY <2>12, <2>13, <2>14, Zenon DEF p, a
  <2> QED
    BY <2>1, <2>15, Zenon
<1>8. 0 .. N \subseteq S
  <2> HIDE DEF S
  <2> QED
    BY <1>1, <1>6, <1>7, UpTo, Zenon
<1>9. Read(N - N)
  BY <1>1, <1>8, Zenon
<1>10. N - N = 0 /\ SubSeq(s, 0 + 1, N) = s /\ Len(<< >>) + 1 = 1
  OBVIOUS
<1>11. F[1] = s
  BY <1>2, <1>9, <1>10, Zenon
<1> QED
  BY <1>11, Zenon DEF Decoded, F, b

\* What fixUTF8 looks for: the bytes that lead two or more.
Lead == 192 .. 255

(* A string in whose bytes fixUTF8 finds nothing to look for is its own    *)
(* encoding.                                                               *)
LEMMA PlainUtf8 ==
    ASSUME NEW s \in Seq(Unit), \A i \in DOMAIN Utf8(s) : Utf8(s)[i] \notin Lead
    PROVE  Utf8(s) = s
<1> DEFINE N == Len(s)
           B == BytesUpTo(s)
           b == Utf8(s)
           S == {n \in 0 .. N : B[n] = SubSeq(s, 1, n)}
<1>1. N \in Nat /\ N \in 0 .. N /\ 0 \in 0 .. N
  OBVIOUS
<1>2. /\ B[0] = << >>
      /\ \A i \in 0 .. N : B[i] \in Seq(Byte)
      /\ \A i \in 1 .. N : B[i] = B[i - 1] \o Encoded(s[i])
  BY BytesGrow, Zenon
<1>3. b = B[N]
  BY Zenon DEF Utf8
<1>4. \A i \in DOMAIN b : b[i] \notin Lead
  BY Zenon
<1>5. ASSUME NEW j \in 1 .. N PROVE Encoded(s[j]) = <<s[j]>>
  <2> DEFINE c == s[j]
             e == Encoded(c)
             a == B[j - 1]
             p == Len(a) + 1
  <2>1. c \in Unit /\ j - 1 \in 0 .. N /\ j \in 0 .. N
    OBVIOUS
  <2>2. c \in Nat /\ c < Surrogate /\ e \in Seq(Byte)
    BY <2>1, UnitForms, Zenon
  <2> HIDE DEF c
  <2>3. /\ Len(e) >= 1
        /\ c >= 128 => e[1] >= 192
    BY <2>2, Forms, SMTT(60)
  <2>4. a \in Seq(Byte) /\ B[j] = a \o e
    BY <1>2, <2>1, Zenon DEF c
  <2>5. Len(B[j]) <= Len(b) /\ \A k \in 1 .. Len(B[j]) : b[k] = B[j][k]
    <3> HIDE DEF b
    <3> QED
      BY <1>1, <1>3, <2>1, BytesStay, Zenon
  <2>6. b \in Seq(Byte)
    <3> HIDE DEF b, B
    <3> QED
      BY <1>1, <1>2, <1>3, Zenon
  <2> HIDE DEF e, a, b, B
  <2>7. p \in 1 .. Len(B[j]) /\ (a \o e)[p] = e[1] /\ e[1] \in Byte
    BY <2>2, <2>3, <2>4
  <2>8. p \in 1 .. Len(b)
    BY <2>4, <2>5, <2>6, <2>7
  <2>9. b[p] = e[1] /\ p \in DOMAIN b
    <3>1. DOMAIN b = 1 .. Len(b)
      BY <2>6
    <3> HIDE DEF p
    <3> QED
      BY <2>4, <2>5, <2>7, <2>8, <3>1, Zenon
  <2>10. e[1] \notin Lead
    BY <1>4, <2>9, Zenon
  <2>11. c < 128
    <3>1. \A x \in Byte : x >= 192 => x \in Lead
      BY DEF Lead, Byte
    <3>2. ~(c >= 128)
      BY <2>3, <2>7, <2>10, <3>1
    <3> QED
      BY <2>2, <3>2
  <2> QED
    BY <2>2, <2>11, EncodedIs DEF c
<1> HIDE DEF B, b
<1>6. 0 \in S
  BY <1>1, <1>2
<1>7. ASSUME NEW n \in 1 .. N, n - 1 \in S PROVE n \in S
  <2>1. B[n] = B[n - 1] \o <<s[n]>>
    BY <1>2, <1>5, Zenon
  <2>2. B[n - 1] = SubSeq(s, 1, n - 1)
    BY <1>7, Zenon
  <2>3. SubSeq(s, 1, n - 1) \o <<s[n]>> = SubSeq(s, 1, n)
    OBVIOUS
  <2>4. n \in 0 .. N
    OBVIOUS
  <2> QED
    BY <2>1, <2>2, <2>3, <2>4, Zenon
<1>8. 0 .. N \subseteq S
  <2> HIDE DEF S
  <2> QED
    BY <1>1, <1>6, <1>7, UpTo, Zenon
<1>9. B[N] = SubSeq(s, 1, N)
  BY <1>1, <1>8, Zenon
<1>10. SubSeq(s, 1, N) = s
  OBVIOUS
<1> QED
  BY <1>3, <1>9, <1>10, Zenon DEF b

(* A string without such letters is left alone by fixUTF8.                 *)
LEMMA NothingToFix ==
    ASSUME NEW s, \A i \in DOMAIN s : s[i] \notin Lead
    PROVE  fixUTF8(s) = s
BY DEF fixUTF8, Lead

(* fixUTF8 undoes what verifyJWT makes of a name: every string of letters  *)
(* below the surrogates, turned into the characters of its bytes, is       *)
(* turned back.                                                            *)
THEOREM TokenUndone ==
    ASSUME NEW s \in Seq(Unit)
    PROVE  fixUTF8(Utf8(s)) = s
<1> DEFINE b == Utf8(s)
           r == [i \in DOMAIN b |-> b[i] % 256]
<1>1. CASE \A i \in DOMAIN b : b[i] \notin Lead
  <2>1. b = s
    BY <1>1, PlainUtf8, Zenon
  <2> HIDE DEF b
  <2>2. fixUTF8(b) = b
    BY <1>1, NothingToFix, Zenon
  <2> QED
    BY <2>1, <2>2, Zenon DEF b
<1>2. CASE \E i \in DOMAIN b : b[i] \in Lead
  <2>1. b \in Seq(Byte)
    <3>1. Len(s) \in 0 .. Len(s)
      OBVIOUS
    <3> QED
      BY <3>1, BytesGrow, Zenon DEF Utf8
  <2>2. Decoded(b) = s
    BY DecodedUtf8, Zenon
  <2> HIDE DEF b
  <2>3. b = [i \in DOMAIN b |-> b[i]]
    BY <2>1
  <2>4. \A x \in Byte : x % 256 = x
    BY DEF Byte
  <2>5. \A i \in DOMAIN b : b[i] \in Byte
    BY <2>1
  <2>6. \A i \in DOMAIN b : b[i] % 256 = b[i]
    BY <2>4, <2>5
  <2>7. r = b
    BY <2>3, <2>6
  <2> HIDE DEF r
  <2>8. Decoded(r) = s
    BY <2>2, <2>7, Zenon
  <2>9. \A i \in DOMAIN s : s[i] # Replacement
    <3>1. \A i \in DOMAIN s : s[i] \in Unit
      OBVIOUS
    <3>2. Replacement \notin Unit
      <4>1. Surrogate \in Nat /\ Replacement \in Nat /\ Surrogate < Replacement
        BY DEF Replacement, Surrogate
      <4> QED
        BY <4>1 DEF Unit
    <3> QED
      BY <3>1, <3>2, Zenon
  <2>10. fixUTF8(b) = IF \/ \A i \in DOMAIN b : b[i] \notin Lead
                         \/ \E i \in DOMAIN Decoded(r) : Decoded(r)[i] = Replacement
                      THEN b ELSE Decoded(r)
    BY DEF fixUTF8, Lead, r
  <2>11. fixUTF8(b) = Decoded(r)
    BY <1>2, <2>8, <2>9, <2>10, Zenon
  <2> QED
    BY <2>8, <2>11, Zenon DEF b
<1> QED
  BY <1>1, <1>2, Zenon

----------------------------------------------------------------------------
(* The way of a name.                                                     *)

\* What the page says in its hello: the name in the token or the trimmed
\* input.
Said ==
    IF who = "login" THEN ThroughToken(given)
    ELSE IF Trimmed(given) = << >> THEN Guest ELSE Trimmed(given)

\* The inductive invariant: what a name reads at each place on its way.
NamesInv ==
    /\ who \in {"login", "guest"}
    /\ given \in Given
    /\ \/ at = "account" /\ text = given
       \/ at = "page" /\ text = Said
       \/ at = "table" /\ text = clampName(Said)
       \/ at = "label" /\ text = fixUTF8(clampName(Said))

(* A name starts out in its account or in the input field.                 *)
LEMMA NamesStarts == NamesInit => NamesInv
BY Zenon DEF NamesInit, NamesInv

(* Every step of the way keeps the invariant: /auth/me or the input field, *)
(* the hello, the label.                                                   *)
LEMMA NamesSteps == NamesInv /\ [NamesNext]_nvars => NamesInv'
<1> SUFFICES ASSUME NamesInv, [NamesNext]_nvars PROVE NamesInv'
  BY Zenon
<1> USE DEF NamesInv
<1>1. CASE ToPage
  BY <1>1 DEF ToPage, Said
<1>2. CASE ToTable
  BY <1>2 DEF ToTable, Said
<1>3. CASE ToLabel
  BY <1>3 DEF ToLabel, Said
<1>4. CASE UNCHANGED nvars
  BY <1>4 DEF nvars, Said
<1> QED
  BY <1>1, <1>2, <1>3, <1>4, Zenon DEF NamesNext

(* A name is a string of letters below the surrogates.                     *)
LEMMA GivenLetters == NamesInv => given \in Seq(Unit)
<1> SUFFICES ASSUME given \in Given PROVE given \in Seq(Unit)
  BY Zenon DEF NamesInv
<1>1. PICK n \in 1 .. MaxLetters : given \in [1 .. n -> Letter]
  BY Zenon DEF Given
<1>2. Letter \subseteq Unit /\ n \in Nat
  BY NamesAssumption DEF Unit
<1>3. given \in [1 .. n -> Unit]
  BY <1>1, <1>2, Zenon
<1> QED
  BY <1>2, <1>3

(* clampName does not tell whether the page has trimmed the name.          *)
LEMMA ClampTrims ==
    ASSUME NEW V, NEW s \in Seq(V)
    PROVE  clampName(Trimmed(s)) = clampName(s)
<1>1. Trimmed(Trimmed(s)) = Trimmed(s)
  BY TrimmedIs, Zenon
<1> QED
  BY <1>1 DEF clampName

(* What the page says in its hello is a string, of bytes or of letters.    *)
LEMMA SaidLetters == NamesInv => Said \in Seq(Nat)
<1> SUFFICES ASSUME NamesInv PROVE Said \in Seq(Nat)
  BY Zenon
<1>1. given \in Seq(Unit)
  BY GivenLetters, Zenon
<1>2. Byte \subseteq Nat /\ Unit \subseteq Nat
  <2>1. Surrogate \in Nat
    BY DEF Surrogate
  <2> QED
    BY <2>1 DEF Byte, Unit
<1>3. ASSUME NEW A, A \subseteq Nat, NEW w \in Seq(A) PROVE w \in Seq(Nat)
  <2>1. Len(w) \in Nat /\ w \in [1 .. Len(w) -> A]
    OBVIOUS
  <2>2. w \in [1 .. Len(w) -> Nat]
    BY <1>3, <2>1, Zenon
  <2> QED
    BY <2>1, <2>2
<1>4. Utf8(given) \in Seq(Byte)
  <2>1. Len(given) \in 0 .. Len(given)
    BY <1>1
  <2> QED
    BY <1>1, <2>1, BytesGrow, Zenon DEF Utf8
<1>5. Utf8(given) \in Seq(Nat)
  BY <1>2, <1>3, <1>4, Zenon
<1>6. Trimmed(given) \in Seq(Unit)
  BY <1>1, TrimmedIs, Zenon
<1>7. Trimmed(given) \in Seq(Nat)
  BY <1>2, <1>3, <1>6, Zenon
<1>8. Guest \in Seq(Nat)
  BY DEF Guest
<1> QED
  BY <1>5, <1>7, <1>8, Zenon DEF Said, ThroughToken

(* pickPastelPair: a hash of two halves picks a shirt of the palette, and  *)
(* trousers as long as its upper bit is clear.                             *)
LEMMA Palette ==
    ASSUME NEW h, h[1] \in Nat, h[2] \in Nat
    PROVE  /\ Shirt(h) \in 0 .. 7
           /\ h[1] < 32768 => Pants(h) \in 0 .. 7
<1>1. \A x \in Nat : x % 8 \in 0 .. 7 /\ x \div 8 \in Nat /\ x \div 32 \in Nat
  OBVIOUS
<1>2. Shirt(h) \in 0 .. 7
  BY <1>1 DEF Shirt
<1>3. h[1] < 32768 => Shifted(h, 8) \in 0 .. 7
  BY <1>1 DEF Shifted
<1>4. h[1] < 32768 => Shifted(h, 32) \in 0 .. 7
  BY <1>1 DEF Shifted
<1> QED
  BY <1>2, <1>3, <1>4 DEF Pants

(* The invariant gives what the page shows: for an account since fixUTF8   *)
(* undoes the token, for a guest since clampName adds nothing that fixUTF8 *)
(* looks for, for the colours since the hash is two halves.                *)
LEMMA NamesInvShows == NamesInv => NameShown
<1> SUFFICES ASSUME NamesInv PROVE NameShown
  BY Zenon
<1>1. given \in Seq(Unit)
  BY GivenLetters, Zenon
<1>2. at = "label" => text = fixUTF8(clampName(Said))
  BY DEF NamesInv
<1>3. AccountNameShown
  <2> SUFFICES ASSUME at = "label", who = "login", Tidy(Utf8(given)) PROVE text = given
    BY Zenon DEF AccountNameShown
  <2>1. Said = Utf8(given)
    BY Zenon DEF Said, ThroughToken
  <2>2. text = fixUTF8(Utf8(given))
    BY <1>2, <2>1, Zenon DEF Tidy
  <2> QED
    BY <1>1, <2>2, TokenUndone, Zenon
<1>4. GuestNameShown
  <2> DEFINE V == Nat \ Lead
  <2> SUFFICES ASSUME at = "label", who = "guest", Trimmed(given) # << >>,
                      \A i \in DOMAIN given : given[i] \notin Lead
               PROVE  text = clampName(given)
    BY Zenon DEF GuestNameShown, Lead
  <2>1. Said = Trimmed(given)
    BY DEF Said
  <2>2. text = fixUTF8(clampName(given))
    BY <1>1, <1>2, <2>1, ClampTrims, Zenon
  <2>3. given \in Seq(V)
    <3>1. \A i \in DOMAIN given : given[i] \in Unit
      BY <1>1
    <3>2. Unit \subseteq Nat
      <4>1. Surrogate \in Nat
        BY DEF Surrogate
      <4> QED
        BY <4>1 DEF Unit
    <3>3. \A i \in DOMAIN given : given[i] \in V
      BY <3>1, <3>2, Zenon
    <3> HIDE DEF V
    <3> QED
      BY <1>1, <3>3
  <2>4. 32 \in V /\ {80, 108, 97, 121, 101, 114} \subseteq V
    BY DEF Lead
  <2> HIDE DEF V
  <2>5. clampName(given) \in Seq(V)
    BY <2>3, <2>4, ClampLetters, Zenon
  <2>6. \A i \in DOMAIN clampName(given) : clampName(given)[i] \in V
    BY <2>5
  <2>7. \A i \in DOMAIN clampName(given) : clampName(given)[i] \notin Lead
    BY <2>6, Zenon DEF V
  <2> QED
    BY <2>2, <2>7, NothingToFix, Zenon
<1>5. ColoursInPalette
  <2> SUFFICES ASSUME at = "table"
               PROVE  LET h == hashString(Trimmed(text))
                      IN  Shirt(h) \in 0 .. 7 /\ (h[1] < 32768 => Pants(h) \in 0 .. 7)
    BY DEF ColoursInPalette
  <2> DEFINE h == hashString(Trimmed(text))
  <2>1. text = clampName(Said)
    BY DEF NamesInv
  <2>2. {32, 80, 108, 97, 121, 101, 114} \subseteq Nat
    OBVIOUS
  <2>3. text \in Seq(Nat)
    BY <2>1, <2>2, SaidLetters, ClampLetters
  <2>4. Trimmed(text) \in Seq(Nat)
    BY <2>3, TrimmedIs, Zenon
  <2>5. h[1] \in 0 .. HalfWord - 1 /\ h[2] \in 0 .. HalfWord - 1
    BY <2>4, HashHalves, Zenon
  <2>6. h[1] \in Nat /\ h[2] \in Nat
    <3>1. HalfWord \in Nat
      BY DEF HalfWord
    <3> HIDE DEF h
    <3> QED
      BY <2>5, <3>1
  <2> HIDE DEF h
  <2>7. Shirt(h) \in 0 .. 7 /\ (h[1] < 32768 => Pants(h) \in 0 .. 7)
    BY <2>6, Palette
  <2> QED
    BY <2>7 DEF h
<1> QED
  BY <1>3, <1>4, <1>5, Zenon DEF NameShown

(* What a page shows of a name, for alphabets below the surrogates,        *)
(* lengths and MAX_NAME of any size: an account's name that is tidy, as    *)
(* letters and as bytes, comes through the token and back (createJWT,      *)
(* verifyJWT, clampName, fixUTF8); a guest's name without the letters      *)
(* fixUTF8 looks for is shown as the server keeps it; and pickPastelPair   *)
(* has a colour for it.                                                    *)
THEOREM NameShownHolds == NamesSpec => []NameShown
<1>1. NamesInit => NamesInv
  BY NamesStarts
<1>2. NamesInv /\ [NamesNext]_nvars => NamesInv'
  BY NamesSteps
<1>3. NamesInv => NameShown
  BY NamesInvShows
<1> QED
  BY <1>1, <1>2, <1>3, PTL DEF NamesSpec
=============================================================================
