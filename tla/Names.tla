------------------------------- MODULE Names --------------------------------
(***************************************************************************)
(* The way of a name: from the account through the token (auth.ts) to the  *)
(* page, or from the guest's input field, through the hello to the table   *)
(* of players (clampName in utils.ts) and from there to the label that     *)
(* every page shows (fixUTF8 and pickPastelPair in client_src/utils.js).   *)
(*                                                                         *)
(* A string is the sequence of its code units, a byte string that of its   *)
(* bytes.  Names are taken from the basic plane.                           *)
(***************************************************************************)
EXTENDS Integers, Sequences, FiniteSetsExt

CONSTANTS
    Letter,         \* the code units of names
    MaxLetters,     \* bound: length of a name
    MAX_NAME

Surrogate == 55296      \* the first code unit that is no character

ASSUME NamesAssumption ==
    /\ Letter \subseteq 1 .. Surrogate - 1
    /\ MaxLetters \in Nat /\ MAX_NAME \in Nat \ {0}

VARIABLES
    who,        \* "login" or "guest"
    given,      \* the name
    at,         \* where it is: "account", "page", "table" or "label"
    text        \* and what it reads there

nvars == <<who, given, at, text>>

Given == UNION {[1 .. n -> Letter] : n \in 1 .. MaxLetters}

----------------------------------------------------------------------------
(* Strings.                                                                *)

Blank(c) == c \in {32, 160}     \* of \s, those below 256 that occur

\* TextEncoder, of a code unit, of the first letters and of all.
Encoded(c) ==
    CASE c < 128 -> <<c>>
      [] 128 <= c /\ c < 2048 -> <<192 + c \div 64, 128 + (c % 64)>>
      [] 2048 <= c -> <<224 + c \div 4096, 128 + ((c \div 64) % 64), 128 + (c % 64)>>

BytesUpTo(s) ==
    LET bytes[i \in 0 .. Len(s)] ==
            IF i = 0 THEN <<>> ELSE bytes[i - 1] \o Encoded(s[i])
    IN bytes

Utf8(s) == BytesUpTo(s)[Len(s)]

Replacement == 65533
Follows(b, i) == i <= Len(b) /\ b[i] \in 128 .. 191

\* The forms of one, two and three bytes at i, and the letters they stand for.
OneByte(b, i) == i <= Len(b) /\ b[i] < 128

TwoBytes(b, i) == i <= Len(b) /\ b[i] \in 194 .. 223 /\ Follows(b, i + 1)

ThreeBytes(b, i) ==
    /\ i <= Len(b) /\ b[i] \in 224 .. 239 /\ Follows(b, i + 1) /\ Follows(b, i + 2)
    /\ b[i] = 224 => b[i + 1] >= 160
    /\ b[i] = 237 => b[i + 1] < 160

OfTwo(b, i) == (b[i] % 32) * 64 + (b[i + 1] % 64)
OfThree(b, i) == (b[i] % 16) * 4096 + (b[i + 1] % 64) * 64 + (b[i + 2] % 64)

\* TextDecoder: what byte i begins, where f is the rest; what is none of the
\* forms is replaced.
DecodedAt(b, f, i) ==
    CASE i > Len(b) -> <<>>
      [] OneByte(b, i) -> <<b[i]>> \o f[i + 1]
      [] TwoBytes(b, i) -> <<OfTwo(b, i)>> \o f[i + 2]
      [] ThreeBytes(b, i) -> <<OfThree(b, i)>> \o f[i + 3]
      [] OTHER -> <<Replacement>> \o f[i + 1]

DecodedFrom(b) ==
    LET from[i \in 1 .. Len(b) + 1] == DecodedAt(b, from, i)
    IN from

Decoded(b) == DecodedFrom(b)[1]

\* The string less its leading and trailing blanks.
Trimmed(s) ==
    LET ink == {i \in DOMAIN s : ~Blank(s[i])}
    IN IF ink = {} THEN <<>>
       ELSE SubSeq(s, Min(ink), Max(ink))

\* .replace(/\s+/g, " "), of the first letters and of all.
SpacedUpTo(s) ==
    LET last == {i \in DOMAIN s : Blank(s[i]) => i = Len(s) \/ ~Blank(s[i + 1])}
        spaced == [i \in DOMAIN s |-> IF Blank(s[i]) THEN 32 ELSE s[i]]
        kept[i \in 0 .. Len(s)] ==
            IF i = 0 THEN <<>>
            ELSE IF i \in last THEN Append(kept[i - 1], spaced[i]) ELSE kept[i - 1]
    IN kept

SingleSpaced(s) == SpacedUpTo(s)[Len(s)]

----------------------------------------------------------------------------
(* The code.                                                               *)

\* createJWT encodes the payload as UTF-8 (base64url); verifyJWT decodes it
\* with atob, which makes a character of every byte.
ThroughToken(s) == Utf8(s)

\* "Player" and "Guest", for names without ink.
Player == <<80, 108, 97, 121, 101, 114>>
Guest == <<71, 117, 101, 115, 116>>

clampName(s) ==
    LET clean == SingleSpaced(Trimmed(s))
        name == IF clean = <<>> THEN Player ELSE clean
    IN SubSeq(name, 1, IF Len(name) < MAX_NAME THEN Len(name) ELSE MAX_NAME)

\* Mutant: the letters that start two byte forms are overlooked.
FixFromE0(s) ==
    LET fixed == Decoded([i \in DOMAIN s |-> s[i] % 256])
    IN IF \/ \A i \in DOMAIN s : s[i] \notin 224 .. 255
          \/ \E i \in DOMAIN fixed : fixed[i] = Replacement
       THEN s ELSE fixed

fixUTF8(s) ==
    LET fixed == Decoded([i \in DOMAIN s |-> s[i] % 256])
    IN IF \/ \A i \in DOMAIN s : s[i] \notin 192 .. 255
          \/ \E i \in DOMAIN fixed : fixed[i] = Replacement
       THEN s ELSE fixed

HalfWord == 65536

\* hashString of the first letters and of all, as the upper and lower half of
\* its 32 bits.
HashUpTo(s) ==
    LET h[i \in 0 .. Len(s)] ==
            IF i = 0 THEN <<0, 0>>
            ELSE LET low == h[i - 1][2] * 31 + s[i]
                 IN <<(h[i - 1][1] * 31 + low \div HalfWord) % HalfWord, low % HalfWord>>
    IN h

hashString(s) == HashUpTo(s)[Len(s)]

Undefined == -1

\* x % 8 for the index x = h >> n, with d = 2^n: undefined where x is negative and not a
\* multiple of 8, as the bits of h >> n are signed.
Shifted(h, d) ==
    LET bits == (h[2] \div d) % 8
    IN IF h[1] >= 32768 /\ bits # 0 THEN Undefined ELSE bits

\* pickPastelPair.
Shirt(h) == h[2] % 8

Pants(h) == IF Shifted(h, 8) = Shirt(h) THEN Shifted(h, 32) ELSE Shifted(h, 8)

NamesInit ==
    /\ who \in {"login", "guest"}
    /\ given \in Given
    /\ at = "account"
    /\ text = given

\* /auth/me tells the page the name in the token; a guest types one in.
ToPage ==
    /\ at = "account"
    /\ at' = "page"
    /\ text' = IF who = "login" THEN ThroughToken(text)
               ELSE IF Trimmed(text) = <<>> THEN Guest ELSE Trimmed(text)
    /\ UNCHANGED <<who, given>>

\* The hello: serverOnHello.
ToTable ==
    /\ at = "page"
    /\ at' = "table"
    /\ text' = clampName(text)
    /\ UNCHANGED <<who, given>>

\* The label: the constructor of PlayerModel, updateNameLabel.
ToLabel ==
    /\ at = "table"
    /\ at' = "label"
    /\ text' = fixUTF8(text)
    /\ UNCHANGED <<who, given>>

NamesNext == ToPage \/ ToTable \/ ToLabel

NamesSpec == NamesInit /\ [][NamesNext]_nvars

----------------------------------------------------------------------------
Tidy(s) == clampName(s) = s

\* An account's name is shown as it is if it is tidy, none of its bytes reads
\* as a blank, and it fits into MAX_NAME bytes: then fixUTF8 undoes what
\* verifyJWT does to it.
AccountNameShown ==
    at = "label" /\ who = "login" /\ Tidy(given) /\ Tidy(Utf8(given)) => text = given

\* A guest's name is shown as the server keeps it, unless it has one of the
\* letters fixUTF8 looks for.
GuestNameShown ==
    /\ at = "label" /\ who = "guest"
    /\ \A i \in DOMAIN given : given[i] \notin 192 .. 255
    /\ Trimmed(given) # <<>>
    => text = clampName(given)

\* Every name has a shirt of the palette, and trousers too unless the upper
\* bit of its hash is set (the signed shifts of pickPastelPair).
ColoursInPalette ==
    at = "table" =>
        LET h == hashString(Trimmed(text))
        IN /\ Shirt(h) \in 0 .. 7
           /\ h[1] < 32768 => Pants(h) \in 0 .. 7

\* What the page makes of a name, in letters and in colours.
NameShown ==
    /\ AccountNameShown
    /\ GuestNameShown
    /\ ColoursInPalette

\* What the comments at auth.ts:34 and client_src/utils.js:248 promise: a
\* tidy name that needs UTF-8 comes through the token and is shown as it is.
NameComesThrough == at = "label" /\ who = "login" /\ Tidy(given) => text = given
=============================================================================
