------------------------ MODULE KeyValueStoreProofs ------------------------
(***************************************************************************)
(* Theorems about KeyValueStore, for every width of an int, every unit of  *)
(* time, all expiries and every file: no key outlives its expiry, the load *)
(* of a file undoes its encoding, and the two maps implement a store of    *)
(* values with deadlines.                                                  *)
(***************************************************************************)
EXTENDS KeyValueStore, SequenceLemmas, TLAPS

-----------------------------------------------------------------------------
(* Arithmetic of time.                                                     *)

LEMMA UnitsArePositive == UsecPerSec \in Nat \ {0}
<1>1. \A a, b \in Nat \ {0} : a * b \in Nat \ {0}
  OBVIOUS
<1>2. QED
  BY <1>1, UnitsAssumption DEF UsecPerSec

LEMMA Division ==
  ASSUME NEW n \in Int, NEW d \in Nat \ {0}
  PROVE  /\ n \div d \in Int /\ n % d \in 0 .. d - 1
         /\ (n \div d) * d + (n % d) = n
OBVIOUS

\* A carry keeps the instant.
LEMMA CarryKeepsInstant ==
  ASSUME NEW s \in Int, NEW u \in Int
  PROVE  Instant(Carry(s, u)) = s * UsecPerSec + u
<1>1. CASE u > UsecPerSec
  <2> DEFINE q == u \div UsecPerSec
             m == u % UsecPerSec
  <2>1. q \in Int /\ m \in Int /\ q * UsecPerSec + m = u /\ UsecPerSec \in Int
    BY Division, UnitsArePositive
  <2>2. Instant(Carry(s, u)) = (s + q) * UsecPerSec + m
    BY <1>1 DEF Instant, Carry, Timeval
  <2> HIDE DEF q, m
  <2>3. \A a, b, c \in Int : (a + b) * c = a * c + b * c
    OBVIOUS
  <2>4. (s + q) * UsecPerSec = s * UsecPerSec + q * UsecPerSec
    BY <2>1, <2>3
  <2>5. s * UsecPerSec \in Int /\ q * UsecPerSec \in Int
    BY <2>1
  <2>6. QED
    BY <2>1, <2>2, <2>4, <2>5
<1>2. CASE ~(u > UsecPerSec)
  BY <1>2 DEF Instant, Carry, Timeval
<1>3. QED
  BY <1>1, <1>2

\* What an int keeps of a positive number is no more than the number.
LEMMA WrapsDown ==
  ASSUME NEW n \in Nat
  PROVE  AsInt(n) \in Int /\ AsInt(n) <= n
<1> DEFINE d == 2 * MaxInt + 2
           m == n + MaxInt + 1
<1>1. d \in Nat \ {0} /\ m \in Nat /\ MaxInt \in Nat
  BY UnitsAssumption
<1>2. AsInt(n) = (m % d) - (MaxInt + 1)
  BY DEF AsInt
<1> HIDE DEF d, m
<1>3. m % d \in Int /\ m % d <= m
  <2>1. m \div d \in Int /\ m % d \in 0 .. d - 1 /\ (m \div d) * d + (m % d) = m
    BY <1>1, Division
  <2>2. m \div d >= 0
    BY <1>1
  <2>3. \A a, b \in Nat : a * b >= 0
    OBVIOUS
  <2>4. (m \div d) * d >= 0 /\ (m \div d) * d \in Int
    BY <1>1, <2>1, <2>2, <2>3
  <2>5. QED
    BY <1>1, <2>1, <2>4
<1>4. QED
  BY <1>1, <1>2, <1>3 DEF m

-----------------------------------------------------------------------------
ClockInv == now \in Nat /\ timeouts = [k \in Keys |-> timeouts[k]]

LEMMA ClockInvNext ==
  ASSUME ClockInv, [Next]_vars
  PROVE  ClockInv'
<1>1. CASE UNCHANGED <<now, timeouts>>
  BY <1>1 DEF ClockInv
<1>2. CASE LoadEntry
  BY <1>2 DEF LoadEntry, ClockInv
<1>3. CASE Tick
  BY <1>3 DEF Tick, ClockInv
<1>4. ASSUME NEW k \in Keys, NEW v \in SetValues, NEW px \in Px, SetPx(k, v, px)
      PROVE  ClockInv'
  BY <1>4 DEF SetPx, Writes, ClockInv
<1>5. QED
  BY <1>1, <1>2, <1>3, <1>4
     DEF Next, vars, LoadMetadata, Set, Get, Incr, IncrError, Type, KeysLike, Reads, Writes, Stopped

LEMMA SetPxInTime ==
  ASSUME ClockInv, NEW k \in Keys, NEW v \in SetValues, NEW px \in Px, SetPx(k, v, px), px > 0
  PROVE  Instant(timeouts'[k]) <= now + px * UsecPerMs
<1>1. PICK p \in Products(px) : timeouts' = [timeouts EXCEPT ![k] = Carry(Sec, Usec + p)]
  BY DEF SetPx
<1>2. timeouts'[k] = Carry(Sec, Usec + p)
  BY <1>1 DEF ClockInv
<1>3. px \in Nat /\ px * UsecPerMs \in Nat /\ now \in Nat
  BY PxAssumption, UnitsAssumption DEF ClockInv
<1>4. p \in Int /\ p <= px * UsecPerMs
  BY <1>3, WrapsDown DEF Products
<1>5. Sec \in Int /\ Usec \in Int /\ Sec * UsecPerSec + Usec = now
  BY SMTT(30), <1>3, Division, UnitsArePositive DEF Sec, Usec
<1>6. Instant(timeouts'[k]) = Sec * UsecPerSec + (Usec + p)
  BY <1>2, <1>4, <1>5, CarryKeepsInstant
<1>7. Sec * UsecPerSec \in Int
  BY <1>5, UnitsArePositive
<1>8. QED
  BY <1>3, <1>4, <1>5, <1>6, <1>7

\* A key does not outlive the expiry it is set with, however wide an int is and however
\* the product overflows: the carries of KeyValueStore::set keep the instant.
THEOREM KeysDieInTime == Spec => NeverOutlives
<1>1. Init => ClockInv
  BY DEF Init, ClockInv
<1>2. ClockInv /\ [Next]_vars => ClockInv'
  BY ClockInvNext
<1>3. ClockInv /\ [Next]_vars =>
        [last' # last /\ last'.kind = "ok" /\ last'.px > 0 =>
           Instant(timeouts'[last'.key]) <= now + last'.px * UsecPerMs]_vars
  <2> SUFFICES ASSUME ClockInv, Next, last' # last, last'.kind = "ok", last'.px > 0
               PROVE  Instant(timeouts'[last'.key]) <= now + last'.px * UsecPerMs
    BY DEF vars
  <2>1. ASSUME NEW k \in Keys, NEW v \in SetValues, NEW px \in Px, SetPx(k, v, px)
        PROVE  Instant(timeouts'[last'.key]) <= now + last'.px * UsecPerMs
    <3>1. last'.key = k /\ last'.px = px
      BY <2>1 DEF SetPx, Writes, Did
    <3>2. QED
      BY <2>1, <3>1, SetPxInTime
  <2>2. ASSUME NEW k \in Keys, NEW v \in SetValues, Set(k, v)
        PROVE  FALSE
    BY <2>2 DEF Set, Writes, Did
  <2>3. ASSUME NEW k \in Keys, Get(k) \/ Incr(k) \/ IncrError(k) \/ Type(k)
        PROVE  FALSE
    BY <2>3 DEF Get, Incr, IncrError, Type, Reads, Writes, Said, Did
  <2>4. ASSUME NEW p \in DOMAIN Matches, KeysLike(p)
        PROVE  FALSE
    BY <2>4 DEF KeysLike, Reads, Did
  <2>5. QED
    BY <2>1, <2>2, <2>3, <2>4 DEF Next, LoadMetadata, LoadEntry, Tick, Stopped, vars
<1>4. QED
  BY <1>1, <1>2, <1>3, PTL DEF Spec, NeverOutlives

-----------------------------------------------------------------------------
(* The tokens of a file.                                                   *)

Tokens == [kind : {"byte", "text", "stamp"}, n : Nat, val : Keys \cup Texts \cup {NoValue}]

LEMMA Prefixed ==
  ASSUME NEW p \in Seq(Tokens), NEW s \in Seq(Tokens)
  PROVE  /\ p \o s \in Seq(Tokens)
         /\ Drop(p \o s, Len(p)) = s
         /\ \A i \in 1 .. Len(p) : (p \o s)[i] = p[i] /\ B(p \o s, i) = p[i].n
         /\ p # <<>> => p \o s # <<>>
<1>1. p \o s \in Seq(Tokens) /\ Len(p \o s) = Len(p) + Len(s)
  OBVIOUS
<1>2. Drop(p \o s, Len(p)) = s
  BY DEF Drop
<1>3. \A i \in 1 .. Len(p) : (p \o s)[i] = p[i]
  OBVIOUS
<1>4. p # <<>> => p \o s # <<>>
  OBVIOUS
<1>5. QED
  BY <1>1, <1>2, <1>3, <1>4 DEF B

LEMMA Assoc ==
  ASSUME NEW p \in Seq(Tokens), NEW q \in Seq(Tokens), NEW s \in Seq(Tokens)
  PROVE  (p \o q) \o s = p \o (q \o s)
OBVIOUS

\* The first token of a sequence.
LEMMA FirstToken ==
  ASSUME NEW t \in Tokens, NEW s \in Seq(Tokens)
  PROVE  /\ <<t>> \o s \in Seq(Tokens) /\ <<t>> \o s # <<>>
         /\ Tail(<<t>> \o s) = s
         /\ (<<t>> \o s)[1] = t
OBVIOUS

LEMMA TokensAre ==
  /\ \A n \in Nat : Byte(n) \in Tokens /\ Byte(n).n = n /\ Byte(n).kind = "byte"
  /\ \A n \in Nat : Token("stamp", n, NoValue) \in Tokens
  /\ \A v \in Keys \cup Texts, n \in Nat : Token("text", n, v) \in Tokens
BY DEF Byte, Token, Tokens

LEMMA BytesAre ==
  ASSUME NEW s \in Seq(Nat)
  PROVE  /\ Bytes(s) \in Seq(Tokens) /\ Len(Bytes(s)) = Len(s)
         /\ \A i \in 1 .. Len(s) : Bytes(s)[i] = Byte(s[i]) /\ Bytes(s)[i].n = s[i]
<1>1. \A i \in 1 .. Len(s) : Byte(s[i]) \in Tokens /\ Byte(s[i]).n = s[i]
  BY TokensAre
<1>2. DOMAIN s = 1 .. Len(s)
  OBVIOUS
<1>3. Bytes(s) = [i \in 1 .. Len(s) |-> Byte(s[i])]
  BY <1>2 DEF Bytes
<1>4. Bytes(s) \in [1 .. Len(s) -> Tokens]
  BY <1>1, <1>3
<1>5. QED
  BY <1>1, <1>3, <1>4

-----------------------------------------------------------------------------
(* The codec of lengths and numbers.                                       *)

LEMMA BytesFirst ==
  ASSUME NEW b \in Seq(Nat), NEW s \in Seq(Tokens)
  PROVE  /\ Bytes(b) \in Seq(Tokens) /\ Len(Bytes(b)) = Len(b)
         /\ \A i \in 1 .. Len(b) : B(Bytes(b) \o s, i) = b[i]
<1>1. Bytes(b) \in Seq(Tokens) /\ Len(Bytes(b)) = Len(b) /\ \A i \in 1 .. Len(b) : Bytes(b)[i].n = b[i]
  BY BytesAre
<1>2. \A i \in 1 .. Len(Bytes(b)) : B(Bytes(b) \o s, i) = Bytes(b)[i].n
  BY <1>1, Prefixed
<1>3. QED
  BY <1>1, <1>2

LEMMA OneByte ==
  ASSUME NEW a \in Nat, NEW s \in Seq(Tokens)
  PROVE  /\ Bytes(<<a>>) \in Seq(Tokens) /\ Len(Bytes(<<a>>)) = 1
         /\ B(Bytes(<<a>>) \o s, 1) = a
<1> DEFINE p == <<a>>
<1>1. p \in Seq(Nat) /\ Len(p) = 1 /\ p[1] = a
  OBVIOUS
<1> HIDE DEF p
<1>2. /\ Bytes(p) \in Seq(Tokens) /\ Len(Bytes(p)) = 1
      /\ \A i \in 1 .. 1 : B(Bytes(p) \o s, i) = p[i]
  BY <1>1, BytesFirst
<1>3. QED
  BY <1>1, <1>2 DEF p

LEMMA TwoBytes ==
  ASSUME NEW a \in Nat, NEW b \in Nat, NEW s \in Seq(Tokens)
  PROVE  /\ Bytes(<<a, b>>) \in Seq(Tokens) /\ Len(Bytes(<<a, b>>)) = 2
         /\ B(Bytes(<<a, b>>) \o s, 1) = a
         /\ B(Bytes(<<a, b>>) \o s, 2) = b
<1> DEFINE p == <<a, b>>
<1>1. p \in Seq(Nat) /\ Len(p) = 2 /\ p[1] = a /\ p[2] = b
  OBVIOUS
<1> HIDE DEF p
<1>2. /\ Bytes(p) \in Seq(Tokens) /\ Len(Bytes(p)) = 2
      /\ \A i \in 1 .. 2 : B(Bytes(p) \o s, i) = p[i]
  BY <1>1, BytesFirst
<1>3. QED
  BY <1>1, <1>2 DEF p

LEMMA ThreeBytes ==
  ASSUME NEW a \in Nat, NEW b \in Nat, NEW c \in Nat, NEW s \in Seq(Tokens)
  PROVE  /\ Bytes(<<a, b, c>>) \in Seq(Tokens) /\ Len(Bytes(<<a, b, c>>)) = 3
         /\ B(Bytes(<<a, b, c>>) \o s, 1) = a
         /\ B(Bytes(<<a, b, c>>) \o s, 2) = b
         /\ B(Bytes(<<a, b, c>>) \o s, 3) = c
<1> DEFINE p == <<a, b, c>>
<1>1. p \in Seq(Nat) /\ Len(p) = 3 /\ p[1] = a /\ p[2] = b /\ p[3] = c
  OBVIOUS
<1> HIDE DEF p
<1>2. /\ Bytes(p) \in Seq(Tokens) /\ Len(Bytes(p)) = 3
      /\ \A i \in 1 .. 3 : B(Bytes(p) \o s, i) = p[i]
  BY <1>1, BytesFirst
<1>3. QED
  BY <1>1, <1>2 DEF p

LEMMA HighAndLow ==
  \A n \in Int :
     /\ High(n) \in Int /\ Low(n) \in Nat /\ Low(n) < 256 /\ High(n) * 256 + Low(n) = n
     /\ n \in Nat => High(n) \in Nat
BY DEF High, Low

LEMMA EncodedLength ==
  ASSUME NEW n \in Nat
  PROVE  /\ n < 64 => EncodeLength(n) = Bytes(<<n>>)
         /\ n >= 64 /\ High(n) < 64 => EncodeLength(n) = Bytes(<<64 + High(n), Low(n)>>)
         /\ n >= 64 /\ High(n) >= 64 =>
              EncodeLength(n) = Bytes(<<128, High(High(High(n))), Low(High(High(n))),
                                        Low(High(n)), Low(n)>>)
<1> DEFINE h == High(n)
           a == Bytes(<<n>>)
           b == Bytes(<<64 + High(n), Low(n)>>)
           c == Bytes(<<128, High(High(High(n))), Low(High(High(n))), Low(High(n)), Low(n)>>)
<1>1. EncodeLength(n) = CASE n < 64 -> a [] n >= 64 /\ h < 64 -> b [] OTHER -> c
  BY DEF EncodeLength
<1>2. h \in Int
  BY HighAndLow
<1> HIDE DEF h, a, b, c
<1>3. /\ n < 64 => EncodeLength(n) = a
      /\ n >= 64 /\ h < 64 => EncodeLength(n) = b
      /\ n >= 64 /\ h >= 64 => EncodeLength(n) = c
  BY <1>1, <1>2
<1>4. QED
  BY <1>3 DEF h, a, b, c

LEMMA DecodedLength ==
  ASSUME NEW s, B(s, 1) \in Nat
  PROVE  /\ B(s, 1) \div 64 = 0 => DecodeLength(s) = Sized(B(s, 1) % 64, 1)
         /\ B(s, 1) \div 64 = 1 => DecodeLength(s) = Sized((B(s, 1) % 64) * 256 + B(s, 2), 2)
         /\ B(s, 1) \div 64 = 2 =>
              DecodeLength(s) =
                Sized(((B(s, 2) * 256 + B(s, 3)) * 256 + B(s, 4)) * 256 + B(s, 5), 5)
         /\ B(s, 1) = 192 => DecodeLength(s) = Integer(8)
         /\ B(s, 1) = 193 => DecodeLength(s) = Integer(16)
         /\ B(s, 1) = 194 => DecodeLength(s) = Integer(32)
<1> DEFINE b == B(s, 1)
           v0 == Sized(B(s, 1) % 64, 1)
           v1 == Sized((B(s, 1) % 64) * 256 + B(s, 2), 2)
           v2 == Sized(((B(s, 2) * 256 + B(s, 3)) * 256 + B(s, 4)) * 256 + B(s, 5), 5)
           v3 == Integer(8)
           v4 == Integer(16)
           v5 == Integer(32)
           v6 == Sized(253, 1)
           v7 == Integer(0)
           r == DecodeLength(s)
<1>1. r = CASE b \div 64 = 0 -> v0
            [] b \div 64 = 1 -> v1
            [] b \div 64 = 2 -> v2
            [] b = 192 -> v3
            [] b = 193 -> v4
            [] b = 194 -> v5
            [] b = 253 -> v6
            [] OTHER -> v7
  BY DEF DecodeLength
<1>2. b \in Nat
  OBVIOUS
<1> HIDE DEF b, v0, v1, v2, v3, v4, v5, v6, v7, r
<1>3. /\ b \div 64 = 0 => r = v0
      /\ b \div 64 = 1 => r = v1
      /\ b \div 64 = 2 => r = v2
      /\ b = 192 => r = v3
      /\ b = 193 => r = v4
      /\ b = 194 => r = v5
  BY SMT, <1>1, <1>2
<1>4. QED
  BY <1>3 DEF b, v0, v1, v2, v3, v4, v5, r

\* What is written for a length is read as that length, and nothing after it.
LEMMA LengthUndone ==
  ASSUME NEW n \in Nat, NEW s \in Seq(Tokens)
  PROVE  /\ EncodeLength(n) \in Seq(Tokens)
         /\ DecodeLength(EncodeLength(n) \o s) = Sized(n, Len(EncodeLength(n)))
<1>1. CASE n < 64
  <2> DEFINE p == Bytes(<<n>>)
  <2>1. p \in Seq(Tokens) /\ Len(p) = 1 /\ B(p \o s, 1) = n
    BY OneByte
  <2>2. EncodeLength(n) = p
    BY <1>1, EncodedLength
  <2> HIDE DEF p
  <2>3. n \div 64 = 0 /\ n % 64 = n
    BY <1>1
  <2>4. DecodeLength(p \o s) = Sized(n, 1)
    BY <2>1, <2>3, DecodedLength
  <2>5. QED
    BY <2>1, <2>2, <2>4
<1>2. CASE n >= 64 /\ High(n) < 64
  <2> DEFINE h == High(n)
             l == Low(n)
             p == Bytes(<<64 + h, l>>)
  <2>1. EncodeLength(n) = p
    BY <1>2, EncodedLength
  <2>2. h \in Nat /\ h < 64 /\ l \in Nat /\ h * 256 + l = n
    BY <1>2, HighAndLow
  <2> HIDE DEF h, l
  <2>3. p \in Seq(Tokens) /\ Len(p) = 2 /\ B(p \o s, 1) = 64 + h /\ B(p \o s, 2) = l
    BY <2>2, TwoBytes
  <2> HIDE DEF p
  <2>4. 64 + h \in Nat /\ (64 + h) \div 64 = 1 /\ (64 + h) % 64 = h
    BY <2>2
  <2>5. DecodeLength(p \o s) = Sized(h * 256 + l, 2)
    BY <2>3, <2>4, DecodedLength
  <2>6. QED
    BY <2>1, <2>2, <2>3, <2>5
<1>3. CASE n >= 64 /\ High(n) >= 64
  <2> DEFINE n1 == High(n)
             n2 == High(n1)
             n3 == High(n2)
             d1 == Low(n)
             d2 == Low(n1)
             d3 == Low(n2)
             b == 128
             q == <<b, n3, d3, d2, d1>>
             p == Bytes(q)
  <2>1. EncodeLength(n) = p
    BY <1>3, EncodedLength
  <2>2. n1 \in Nat /\ d1 \in Nat /\ n1 * 256 + d1 = n
    <3>1. n \in Int
      OBVIOUS
    <3>2. QED
      BY <3>1, HighAndLow
  <2>3. n2 \in Nat /\ d2 \in Nat /\ n2 * 256 + d2 = n1
    BY <2>2, HighAndLow
  <2>4. n3 \in Nat /\ d3 \in Nat /\ n3 * 256 + d3 = n2
    BY <2>3, HighAndLow
  <2>6. b \in Nat /\ b \div 64 = 2
    BY SMT
  <2> HIDE DEF b, n1, n2, n3, d1, d2, d3
  <2>5. /\ p \in Seq(Tokens) /\ Len(p) = 5
        /\ B(p \o s, 1) = b /\ B(p \o s, 2) = n3 /\ B(p \o s, 3) = d3
        /\ B(p \o s, 4) = d2 /\ B(p \o s, 5) = d1
    <3>1. b \in Nat /\ n3 \in Nat /\ d3 \in Nat /\ d2 \in Nat /\ d1 \in Nat
      BY <2>2, <2>3, <2>4, <2>6
    <3>2. q \in Seq(Nat) /\ Len(q) = 5 /\ q[1] = b /\ q[2] = n3 /\ q[3] = d3 /\ q[4] = d2 /\ q[5] = d1
      BY <3>1
    <3> HIDE DEF q
    <3>3. p \in Seq(Tokens) /\ Len(p) = 5 /\ \A i \in 1 .. 5 : B(p \o s, i) = q[i]
      BY <3>2, BytesFirst
    <3>4. QED
      BY <3>2, <3>3
  <2> HIDE DEF p
  <2>7. DecodeLength(p \o s) = Sized(((n3 * 256 + d3) * 256 + d2) * 256 + d1, 5)
    BY <2>5, <2>6, DecodedLength
  <2>8. QED
    BY <2>1, <2>2, <2>3, <2>4, <2>5, <2>7
<1>4. High(n) \in Int
  BY HighAndLow
<1>5. QED
  BY <1>1, <1>2, <1>3, <1>4

LEMMA ReadStringIs ==
  ASSUME NEW s, NEW d, DecodeLength(s) = d
  PROVE  /\ d.known => ReadString(s) =
              [val |-> IF Drop(s, d.used)[1].kind = "text" /\ Drop(s, d.used)[1].n = d.n
                       THEN Drop(s, d.used)[1].val ELSE Empty,
               rest |-> Tail(Drop(s, d.used))]
         /\ ~d.known /\ d.n # 0 => ReadString(s) =
              [val |-> Signed(Drop(s, d.used), d.n), rest |-> Drop(Drop(s, d.used), d.n \div 8)]
BY DEF ReadString

\* A text is read as it was written, and the tokens after it are left.
LEMMA TextUndone ==
  ASSUME NEW v \in Keys \cup Texts, NEW s \in Seq(Tokens)
  PROVE  /\ EncodeText(v) \in Seq(Tokens) /\ EncodeText(v) # <<>>
         /\ ReadString(EncodeText(v) \o s) = [val |-> v, rest |-> s]
<1> DEFINE n == LengthOf[v]
           p == EncodeLength(n)
           t == Token("text", n, v)
           rest == <<t>> \o s
           all == p \o rest
<1>1. n \in Nat
  BY LengthAssumption
<1>2. t \in Tokens /\ t.kind = "text" /\ t.n = n /\ t.val = v
  BY <1>1, TokensAre DEF Token
<1>3. EncodeText(v) = p \o <<t>>
  BY DEF EncodeText
<1> HIDE DEF t, n
<1>4. rest \in Seq(Tokens) /\ rest[1] = t /\ Tail(rest) = s
  BY <1>2, FirstToken
<1> HIDE DEF rest
<1>5. p \in Seq(Tokens) /\ DecodeLength(all) = Sized(n, Len(p))
  BY <1>1, <1>4, LengthUndone
<1> HIDE DEF p
<1>6. <<t>> \in Seq(Tokens) /\ <<t>> # <<>>
  BY <1>2
<1>7. EncodeText(v) \o s = all /\ EncodeText(v) \in Seq(Tokens) /\ EncodeText(v) # <<>>
  <2>1. (p \o <<t>>) \o s = p \o (<<t>> \o s)
    BY <1>5, <1>6, Assoc
  <2>2. p \o <<t>> \in Seq(Tokens) /\ p \o <<t>> # <<>>
    BY <1>5, <1>6
  <2>3. QED
    BY <1>3, <2>1, <2>2 DEF rest
<1>8. Drop(all, Len(p)) = rest
  BY <1>4, <1>5, Prefixed
<1> HIDE DEF all
<1> DEFINE d == Sized(n, Len(p))
<1>9. d.known /\ d.n = n /\ d.used = Len(p)
  BY DEF Sized
<1> HIDE DEF d
<1>10. ReadString(all) =
         [val |-> IF rest[1].kind = "text" /\ rest[1].n = n THEN rest[1].val ELSE Empty,
          rest |-> Tail(rest)]
  BY <1>5, <1>8, <1>9, ReadStringIs DEF d
<1>11. QED
  BY <1>2, <1>4, <1>7, <1>10

-----------------------------------------------------------------------------
(* Numbers of 8, 16 and 32 bits.                                           *)

LEMMA SignedLow ==
  ASSUME NEW n \in Int, n >= -128, n < 128
  PROVE  SignedByte(Low(n)) = n
BY DEF SignedByte, Low

LEMMA SignedIs ==
  ASSUME NEW s
  PROVE  /\ Signed(s, 8) = SignedByte(B(s, 1))
         /\ Signed(s, 16) = B(s, 1) + 256 * SignedByte(B(s, 2))
         /\ Signed(s, 32) =
              B(s, 1) + 256 * (B(s, 2) + 256 * (B(s, 3) + 256 * SignedByte(B(s, 4))))
BY DEF Signed

LEMMA EncodedNumber ==
  ASSUME NEW n \in Int
  PROVE  /\ n >= -128 /\ n < 128 => EncodeNumber(n) = Bytes(<<192, Low(n)>>)
         /\ ~(n >= -128 /\ n < 128) /\ High(n) >= -128 /\ High(n) < 128 =>
              EncodeNumber(n) = Bytes(<<193, Low(n), Low(High(n))>>)
         /\ ~(n >= -128 /\ n < 128) /\ ~(High(n) >= -128 /\ High(n) < 128) =>
              EncodeNumber(n) = Bytes(<<194, Low(n), Low(High(n)), Low(High(High(n))),
                                        Low(High(High(High(n))))>>)
<1> DEFINE h == High(n)
           a == Bytes(<<192, Low(n)>>)
           b == Bytes(<<193, Low(n), Low(High(n))>>)
           c == Bytes(<<194, Low(n), Low(High(n)), Low(High(High(n))), Low(High(High(High(n))))>>)
<1>1. EncodeNumber(n) = CASE n >= -128 /\ n < 128 -> a
                          [] ~(n >= -128 /\ n < 128) /\ h >= -128 /\ h < 128 -> b
                          [] OTHER -> c
  BY DEF EncodeNumber
<1>2. h \in Int
  BY HighAndLow
<1> HIDE DEF h, a, b, c
<1>3. /\ n >= -128 /\ n < 128 => EncodeNumber(n) = a
      /\ ~(n >= -128 /\ n < 128) /\ h >= -128 /\ h < 128 => EncodeNumber(n) = b
      /\ ~(n >= -128 /\ n < 128) /\ ~(h >= -128 /\ h < 128) => EncodeNumber(n) = c
  BY <1>1, <1>2
<1>4. QED
  BY <1>3 DEF h, a, b, c

LEMMA DropDrop ==
  ASSUME NEW t \in Seq(Tokens), NEW j \in Nat, 1 + j <= Len(t)
  PROVE  /\ Drop(Drop(t, 1), j) = Drop(t, 1 + j)
         /\ \A k \in 1 .. j : B(Drop(t, 1), k) = B(t, k + 1)
BY DEF Drop, B

LEMMA HighIs == \A n \in Int : High(n) \in Int /\ High(n) * 256 <= n /\ n < High(n) * 256 + 256
BY DEF High

\* The high digits of a number that fits 32 bits fit a signed byte.
LEMMA TopByte ==
  ASSUME NEW n \in Int32
  PROVE  /\ n \in Int
         /\ High(High(High(n))) >= -128 /\ High(High(High(n))) < 128
<1> DEFINE n1 == High(n)
           n2 == High(n1)
           n3 == High(n2)
<1>0. MaxInt32 \in Int
  BY SMT DEF MaxInt32
<1>1. n \in Int /\ n >= -MaxInt32 - 1 /\ n <= MaxInt32
  BY <1>0 DEF Int32
<1>2. n1 \in Int /\ n1 * 256 <= n /\ n < n1 * 256 + 256
  BY <1>1, HighIs
<1>3. n2 \in Int /\ n2 * 256 <= n1 /\ n1 < n2 * 256 + 256
  BY <1>2, HighIs
<1>4. n3 \in Int /\ n3 * 256 <= n2 /\ n2 < n3 * 256 + 256
  BY <1>3, HighIs
<1> HIDE DEF n1, n2, n3
<1>5. n3 >= -128 /\ n3 < 128
  BY SMT, <1>1, <1>2, <1>3, <1>4 DEF MaxInt32
<1>6. QED
  BY <1>1, <1>5 DEF n1, n2, n3

\* What is read of a number whose first byte says it has j more.
LEMMA IntegerRead ==
  ASSUME NEW q \in Seq(Nat), NEW j \in 1 .. 4, Len(q) = 1 + j, NEW s \in Seq(Tokens),
         \/ j = 1 /\ q[1] = 192
         \/ j = 2 /\ q[1] = 193
         \/ j = 4 /\ q[1] = 194
  PROVE  /\ Bytes(q) \in Seq(Tokens) /\ Bytes(q) # <<>>
         /\ ReadString(Bytes(q) \o s).rest = s
         /\ j = 1 => ReadString(Bytes(q) \o s).val = SignedByte(q[2])
         /\ j = 2 => ReadString(Bytes(q) \o s).val = q[2] + 256 * SignedByte(q[3])
         /\ j = 4 => ReadString(Bytes(q) \o s).val =
                       q[2] + 256 * (q[3] + 256 * (q[4] + 256 * SignedByte(q[5])))
<1> DEFINE p == Bytes(q)
           t == p \o s
           body == Drop(t, 1)
           d == Integer(8 * j)
<1>1. p \in Seq(Tokens) /\ Len(p) = 1 + j /\ \A i \in 1 .. 1 + j : B(t, i) = q[i]
  BY BytesFirst
<1> HIDE DEF p
<1>2. t \in Seq(Tokens) /\ Drop(t, 1 + j) = s /\ 1 + j <= Len(t)
  <2>1. Len(p) <= Len(t)
    BY <1>1
  <2>2. QED
    BY <1>1, <2>1, Prefixed
<1>3. B(t, 1) = q[1] /\ B(t, 1) \in Nat
  BY <1>1
<1> HIDE DEF t
<1>4. DecodeLength(t) = d
  BY <1>3, DecodedLength
<1>5. ~d.known /\ d.n = 8 * j /\ d.used = 1
  BY DEF Integer
<1> HIDE DEF d
<1>6. d.n # 0 /\ d.n \div 8 = j
  BY <1>5
<1>7. ReadString(t) = [val |-> Signed(body, d.n), rest |-> Drop(body, j)]
  BY <1>4, <1>5, <1>6, ReadStringIs
<1>8. Drop(body, j) = s /\ \A k \in 1 .. j : B(body, k) = q[k + 1]
  <2>1. Drop(body, j) = Drop(t, 1 + j) /\ \A k \in 1 .. j : B(body, k) = B(t, k + 1)
    BY <1>2, DropDrop
  <2>2. QED
    BY <1>1, <1>2, <2>1
<1> HIDE DEF body
<1>9. /\ j = 1 => Signed(body, d.n) = SignedByte(q[2])
      /\ j = 2 => Signed(body, d.n) = q[2] + 256 * SignedByte(q[3])
      /\ j = 4 => Signed(body, d.n) =
                    q[2] + 256 * (q[3] + 256 * (q[4] + 256 * SignedByte(q[5])))
  <2>1. CASE j = 1
    <3>1. d.n = 8 /\ B(body, 1) = q[2]
      BY <1>5, <1>8, <2>1
    <3>2. QED
      BY <2>1, <3>1, SignedIs
  <2>2. CASE j = 2
    <3>1. d.n = 16 /\ B(body, 1) = q[2] /\ B(body, 2) = q[3]
      BY <1>5, <1>8, <2>2
    <3>2. QED
      BY <2>2, <3>1, SignedIs
  <2>3. CASE j = 4
    <3>1. /\ d.n = 32 /\ B(body, 1) = q[2] /\ B(body, 2) = q[3]
          /\ B(body, 3) = q[4] /\ B(body, 4) = q[5]
      BY <1>5, <1>8, <2>3
    <3>2. QED
      BY <2>3, <3>1, SignedIs
  <2>4. QED
    BY <2>1, <2>2, <2>3
<1>10. p # <<>>
  BY <1>1
<1>11. QED
  BY <1>1, <1>7, <1>8, <1>9, <1>10 DEF p, t

\* A number is read as it was written, in the width it was written with.
LEMMA NumberUndone ==
  ASSUME NEW n \in Int32, NEW s \in Seq(Tokens)
  PROVE  /\ EncodeNumber(n) \in Seq(Tokens) /\ EncodeNumber(n) # <<>>
         /\ ReadString(EncodeNumber(n) \o s).val = n /\ ReadString(EncodeNumber(n) \o s).rest = s
<1> DEFINE n1 == High(n)
           n2 == High(n1)
           n3 == High(n2)
           d0 == Low(n)
           d1 == Low(n1)
           d2 == Low(n2)
           d3 == Low(n3)
<1>1. n \in Int /\ n3 >= -128 /\ n3 < 128
  BY TopByte
<1>2. n1 \in Int /\ d0 \in Nat /\ n1 * 256 + d0 = n
  BY <1>1, HighAndLow
<1>3. n2 \in Int /\ d1 \in Nat /\ n2 * 256 + d1 = n1
  BY <1>2, HighAndLow
<1>4. n3 \in Int /\ d2 \in Nat /\ n3 * 256 + d2 = n2 /\ d3 \in Nat
  BY <1>3, HighAndLow
<1>5. CASE n >= -128 /\ n < 128
  <2> DEFINE q == <<192, d0>>
  <2>1. EncodeNumber(n) = Bytes(q)
    BY <1>1, <1>5, EncodedNumber
  <2>2. SignedByte(d0) = n
    BY <1>1, <1>5, SignedLow
  <2> HIDE DEF d0
  <2>3. q \in Seq(Nat) /\ Len(q) = 1 + 1 /\ q[1] = 192 /\ q[2] = d0
    BY <1>2
  <2> HIDE DEF q
  <2>4. QED
    BY <2>1, <2>2, <2>3, IntegerRead
<1>6. CASE ~(n >= -128 /\ n < 128) /\ n1 >= -128 /\ n1 < 128
  <2> DEFINE q == <<193, d0, d1>>
  <2>1. EncodeNumber(n) = Bytes(q)
    BY <1>1, <1>6, EncodedNumber
  <2>2. SignedByte(d1) = n1
    BY <1>2, <1>6, SignedLow
  <2> HIDE DEF d0, d1, n1
  <2>3. q \in Seq(Nat) /\ Len(q) = 1 + 2 /\ q[1] = 193 /\ q[2] = d0 /\ q[3] = d1
    BY <1>2, <1>3
  <2> HIDE DEF q
  <2>4. /\ Bytes(q) \in Seq(Tokens) /\ Bytes(q) # <<>>
        /\ ReadString(Bytes(q) \o s).rest = s
        /\ ReadString(Bytes(q) \o s).val = d0 + 256 * n1
    BY <2>2, <2>3, IntegerRead
  <2>5. d0 + 256 * n1 = n
    BY <1>1, <1>2
  <2>6. QED
    BY <2>1, <2>4, <2>5
<1>7. CASE ~(n >= -128 /\ n < 128) /\ ~(n1 >= -128 /\ n1 < 128)
  <2> DEFINE q == <<194, d0, d1, d2, d3>>
  <2>1. EncodeNumber(n) = Bytes(q)
    BY <1>1, <1>7, EncodedNumber
  <2>2. SignedByte(d3) = n3
    BY <1>1, <1>4, SignedLow
  <2> HIDE DEF d0, d1, d2, d3, n1, n2, n3
  <2>3. /\ q \in Seq(Nat) /\ Len(q) = 1 + 4
        /\ q[1] = 194 /\ q[2] = d0 /\ q[3] = d1 /\ q[4] = d2 /\ q[5] = d3
    BY <1>2, <1>3, <1>4
  <2> HIDE DEF q
  <2>4. /\ Bytes(q) \in Seq(Tokens) /\ Bytes(q) # <<>>
        /\ ReadString(Bytes(q) \o s).rest = s
        /\ ReadString(Bytes(q) \o s).val = d0 + 256 * (d1 + 256 * (d2 + 256 * n3))
    BY <2>2, <2>3, IntegerRead
  <2>5. d0 + 256 * (d1 + 256 * (d2 + 256 * n3)) = n
    BY <1>1, <1>2, <1>3, <1>4
  <2>6. QED
    BY <2>1, <2>4, <2>5
<1>8. QED
  BY <1>5, <1>6, <1>7

-----------------------------------------------------------------------------
(* The entries of a file.                                                  *)

LEMMA Lengths ==
  /\ \A p \in Seq(Tokens) : Len(p) \in Nat /\ (p = <<>> <=> Len(p) = 0)
  /\ \A p, q \in Seq(Tokens) : Len(p \o q) = Len(p) + Len(q)
OBVIOUS

\* What a file may say of a key.
IsEntry(e) ==
    /\ e.key \in Keys /\ e.at \in Nat /\ e.unit \in {"none", "s", "ms"}
    /\ e.val \in Texts \/ e.val \in Int32 \ Texts
    /\ e.unit = "ms" => e.at > 0

ValueCode(v) == IF v \in Texts THEN EncodeText(v) ELSE EncodeNumber(v)

LEMMA ValueUndone ==
  ASSUME NEW v, v \in Texts \/ v \in Int32 \ Texts, NEW s \in Seq(Tokens)
  PROVE  /\ ValueCode(v) \in Seq(Tokens)
         /\ ReadString(ValueCode(v) \o s).val = v /\ ReadString(ValueCode(v) \o s).rest = s
<1>1. CASE v \in Texts
  BY <1>1, TextUndone DEF ValueCode
<1>2. CASE v \in Int32 \ Texts
  BY <1>2, NumberUndone DEF ValueCode
<1>3. QED
  BY <1>1, <1>2

LEMMA KeyUndone ==
  ASSUME NEW k \in Keys, NEW s \in Seq(Tokens)
  PROVE  /\ EncodeText(k) \in Seq(Tokens)
         /\ ReadString(EncodeText(k) \o s).val = k /\ ReadString(EncodeText(k) \o s).rest = s
BY TextUndone

\* What LoadEntry makes of the tokens r: the expiry and the pair behind it.
AfterSeconds(r) == IF B(r, 1) = 253 THEN Drop(r, 2) ELSE r
StampIn(r) == IF B(AfterSeconds(r), 1) = 252 THEN B(AfterSeconds(r), 2) ELSE 0
PairIn(r) ==
    IF B(AfterSeconds(r), 1) = 252 THEN Drop(AfterSeconds(r), 3) ELSE Tail(AfterSeconds(r))

LEMMA ZeroByte ==
  ASSUME NEW s \in Seq(Tokens)
  PROVE  /\ Bytes(<<0>>) \in Seq(Tokens) /\ Len(Bytes(<<0>>)) = 1
         /\ Bytes(<<0>>) \o s \in Seq(Tokens) /\ Bytes(<<0>>) \o s # <<>>
         /\ B(Bytes(<<0>>) \o s, 1) = 0
         /\ Tail(Bytes(<<0>>) \o s) = s /\ Drop(Bytes(<<0>>) \o s, 1) = s
<1> DEFINE z == 0
           p == Bytes(<<z>>)
<1>1. z \in Nat
  OBVIOUS
<1> HIDE DEF z
<1>2. p \in Seq(Tokens) /\ Len(p) = 1 /\ B(p \o s, 1) = z
  BY <1>1, OneByte
<1> HIDE DEF p
<1>3. p \o s \in Seq(Tokens) /\ Drop(p \o s, 1) = s
  BY <1>2, Prefixed
<1>4. p \o s # <<>> /\ Tail(p \o s) = s
  <2>1. p # <<>>
    <3>1. Len(p) # 0
      BY <1>2
    <3>2. QED
      BY <1>2, <3>1, Lengths
  <2>2. p \o s # <<>>
    BY <1>2, <2>1, Prefixed
  <2> DEFINE t == p \o s
  <2> HIDE DEF t
  <2>3. Tail(t) = Drop(t, 1)
    <3>1. t \in Seq(Tokens) /\ t # <<>>
      BY <1>3, <2>2 DEF t
    <3>2. QED
      BY <3>1 DEF Drop
  <2>4. QED
    BY <1>3, <2>2, <2>3 DEF t
<1>5. QED
  BY <1>2, <1>3, <1>4 DEF p, z

LEMMA StampedBytes ==
  ASSUME NEW a \in Nat, NEW at \in Nat, NEW s \in Seq(Tokens)
  PROVE  LET p == <<Byte(a), Token("stamp", at, NoValue)>>
         IN /\ p \in Seq(Tokens) /\ Len(p) = 2
            /\ p \o s \in Seq(Tokens) /\ p \o s # <<>>
            /\ B(p \o s, 1) = a /\ B(p \o s, 2) = at /\ Drop(p \o s, 2) = s
<1> DEFINE p == <<Byte(a), Token("stamp", at, NoValue)>>
<1>1. Byte(a) \in Tokens /\ Token("stamp", at, NoValue) \in Tokens
  BY TokensAre
<1>2. Byte(a).n = a /\ Token("stamp", at, NoValue).n = at
  BY DEF Byte, Token
<1>3. p \in Seq(Tokens) /\ Len(p) = 2 /\ p[1].n = a /\ p[2].n = at
  BY <1>1, <1>2
<1> HIDE DEF p
<1>4. p \o s \in Seq(Tokens) /\ p \o s # <<>> /\ B(p \o s, 1) = a /\ B(p \o s, 2) = at
  <2>1. p # <<>> /\ 1 \in 1 .. Len(p) /\ 2 \in 1 .. Len(p)
    BY <1>3
  <2>2. QED
    BY <1>3, <2>1, Prefixed
<1>5. Drop(p \o s, 2) = s
  BY <1>3, Prefixed
<1>6. QED
  BY <1>3, <1>4, <1>5 DEF p

StampCode(e) ==
    CASE e.unit = "none" -> <<>>
      [] e.unit = "s"  -> <<Byte(253), Token("stamp", e.at, NoValue)>>
      [] e.unit = "ms" -> <<Byte(252), Token("stamp", e.at, NoValue)>>

LEMMA StampRead ==
  ASSUME NEW e, IsEntry(e), NEW s \in Seq(Tokens), NEW z \in Seq(Tokens),
         z # <<>>, B(z, 1) = 0, Tail(z) = s, Drop(z, 1) = s
  PROVE  /\ StampCode(e) \in Seq(Tokens) /\ StampCode(e) \o z \in Seq(Tokens)
         /\ StampCode(e) \o z # <<>> /\ B(StampCode(e) \o z, 1) # 255
         /\ StampIn(StampCode(e) \o z) = (IF e.unit = "ms" THEN e.at ELSE 0)
         /\ PairIn(StampCode(e) \o z) = s
<1> DEFINE c == StampCode(e)
           r == c \o z
<1>3. e.at \in Nat
  BY DEF IsEntry
<1>4. CASE e.unit = "none"
  <2>1. c = <<>>
    BY <1>4 DEF StampCode
  <2>2. r = z /\ c \in Seq(Tokens)
    <3>1. <<>> \in Seq(Tokens) /\ <<>> \o z = z
      OBVIOUS
    <3>2. QED
      BY <2>1, <3>1
  <2> HIDE DEF c, r
  <2>3. AfterSeconds(r) = z
    BY <2>2 DEF AfterSeconds
  <2>4. StampIn(r) = 0 /\ PairIn(r) = s
    BY <2>3 DEF StampIn, PairIn
  <2>5. QED
    BY <1>4, <2>2, <2>4 DEF r, c
<1>5. CASE e.unit = "s"
  <2>1. c = <<Byte(253), Token("stamp", e.at, NoValue)>>
    BY <1>5 DEF StampCode
  <2>2. /\ c \in Seq(Tokens) /\ r \in Seq(Tokens) /\ r # <<>>
        /\ B(r, 1) = 253 /\ Drop(r, 2) = z
    BY <1>3, <2>1, StampedBytes
  <2> HIDE DEF c, r
  <2>3. AfterSeconds(r) = z
    BY <2>2 DEF AfterSeconds
  <2>4. StampIn(r) = 0 /\ PairIn(r) = s
    BY <2>3 DEF StampIn, PairIn
  <2>5. QED
    BY <1>5, <2>2, <2>4 DEF r, c
<1>6. CASE e.unit = "ms"
  <2>1. c = <<Byte(252), Token("stamp", e.at, NoValue)>>
    BY <1>6 DEF StampCode
  <2>2. /\ c \in Seq(Tokens) /\ Len(c) = 2 /\ r \in Seq(Tokens) /\ r # <<>>
        /\ B(r, 1) = 252 /\ B(r, 2) = e.at /\ Drop(r, 2) = z
    BY <1>3, <2>1, StampedBytes
  <2> HIDE DEF c, r
  <2>3. Drop(r, 3) = s
    <3>1. Len(r) \in Nat /\ Len(z) \in Nat /\ Len(z) >= 1
      BY <2>2
    <3>2. Len(r) = 2 + Len(z)
      <4>0. c \in Seq(Tokens) /\ z \in Seq(Tokens)
        BY <2>2
      <4>1. Len(c \o z) = Len(c) + Len(z)
        BY <4>0, Lengths
      <4>2. QED
        BY <2>2, <4>1 DEF r
    <3>3. Drop(Drop(r, 2), 1) = Drop(r, 3)
      BY <2>2, <3>1, <3>2 DEF Drop
    <3>4. QED
      BY <2>2, <3>3
  <2>4. AfterSeconds(r) = r
    BY <2>2 DEF AfterSeconds
  <2>5. StampIn(r) = e.at /\ PairIn(r) = s
    BY <2>2, <2>3, <2>4 DEF StampIn, PairIn
  <2>6. QED
    BY <1>6, <2>2, <2>5 DEF r, c
<1>7. QED
  BY <1>4, <1>5, <1>6 DEF IsEntry

\* An entry is read as it was written, up to the next one.
LEMMA EntryUndone ==
  ASSUME NEW e, IsEntry(e), NEW s \in Seq(Tokens)
  PROVE  LET r == EncodeEntry(e) \o s
             key == ReadString(PairIn(r))
             val == ReadString(key.rest)
         IN /\ EncodeEntry(e) \in Seq(Tokens) /\ r \in Seq(Tokens) /\ r # <<>> /\ B(r, 1) # 255
            /\ StampIn(r) = IF e.unit = "ms" THEN e.at ELSE 0
            /\ key.val = e.key /\ val.val = e.val /\ val.rest = s
<1> DEFINE c == StampCode(e)
           z == Bytes(<<0>>)
           k == EncodeText(e.key)
           v == ValueCode(e.val)
<1>1. EncodeEntry(e) = ((c \o z) \o k) \o v
  BY DEF EncodeEntry, StampCode, ValueCode
<1>2. /\ v \in Seq(Tokens) /\ v \o s \in Seq(Tokens)
      /\ ReadString(v \o s).val = e.val /\ ReadString(v \o s).rest = s
  <2>1. e.val \in Texts \/ e.val \in Int32 \ Texts
    BY DEF IsEntry
  <2>2. v \in Seq(Tokens) /\ ReadString(v \o s).val = e.val /\ ReadString(v \o s).rest = s
    BY <2>1, ValueUndone
  <2> HIDE DEF v
  <2>3. v \o s \in Seq(Tokens)
    BY <2>2
  <2>4. QED
    BY <2>2, <2>3
<1> HIDE DEF v
<1> DEFINE vs == v \o s
           kvs == k \o vs
<1>3. /\ k \in Seq(Tokens)
      /\ ReadString(kvs).val = e.key /\ ReadString(kvs).rest = vs
  <2>1. e.key \in Keys
    BY DEF IsEntry
  <2>2. QED
    BY <1>2, <2>1, KeyUndone
<1> HIDE DEF k
<1>4. kvs \in Seq(Tokens)
  BY <1>2, <1>3
<1>5. LET r == c \o (z \o kvs)
      IN /\ c \in Seq(Tokens) /\ r \in Seq(Tokens) /\ r # <<>> /\ B(r, 1) # 255
         /\ StampIn(r) = IF e.unit = "ms" THEN e.at ELSE 0
         /\ PairIn(r) = kvs
  <2> DEFINE y == z \o kvs
  <2> HIDE DEF kvs
  <2>1. y \in Seq(Tokens) /\ y # <<>> /\ B(y, 1) = 0 /\ Tail(y) = kvs /\ Drop(y, 1) = kvs
    BY <1>4, ZeroByte
  <2> HIDE DEF y
  <2>2. /\ c \in Seq(Tokens) /\ c \o y \in Seq(Tokens) /\ c \o y # <<>> /\ B(c \o y, 1) # 255
        /\ StampIn(c \o y) = (IF e.unit = "ms" THEN e.at ELSE 0)
        /\ PairIn(c \o y) = kvs
    BY <1>4, <2>1, StampRead
  <2>3. QED
    BY <2>2 DEF y
<1>6. z \in Seq(Tokens)
  BY <1>4, ZeroByte
<1> HIDE DEF c, z
<1>7. /\ ((c \o z) \o k) \o v \in Seq(Tokens)
      /\ (((c \o z) \o k) \o v) \o s = c \o (z \o kvs)
  <2>1. c \o z \in Seq(Tokens) /\ (c \o z) \o k \in Seq(Tokens)
    BY <1>3, <1>5, <1>6
  <2>2. ((c \o z) \o k) \o v \in Seq(Tokens)
    BY <1>2, <2>1
  <2>3. (((c \o z) \o k) \o v) \o s = ((c \o z) \o k) \o vs
    BY <1>2, <2>1, Assoc
  <2>4. ((c \o z) \o k) \o vs = (c \o z) \o kvs
    BY <1>2, <1>3, <2>1, Assoc
  <2>5. (c \o z) \o kvs = c \o (z \o kvs)
    BY <1>4, <1>5, <1>6, Assoc
  <2>6. QED
    BY <2>2, <2>3, <2>4, <2>5
<1>8. QED
  BY <1>1, <1>2, <1>3, <1>5, <1>7

\* The entries of a file.
LEMMA EntriesOf ==
  ASSUME NEW f \in Files
  PROVE  /\ Len(f.entries) \in Nat /\ DOMAIN f.entries = 1 .. Len(f.entries)
         /\ \A i \in 1 .. Len(f.entries) : IsEntry(f.entries[i])
         /\ \A i, j \in 1 .. Len(f.entries) : f.entries[i].key = f.entries[j].key => i = j
         /\ f.kind \in {"absent", "nodb", "cut", "whole"}
         /\ f.kind \in {"absent", "nodb"} => f.entries = <<>>
<1> DEFINE R == [key : Keys, val : Texts \cup Int, unit : {"none", "s", "ms"}, at : Nat]
           s == f.entries
<1>1. /\ s \in Seq(R) /\ f.kind \in {"absent", "nodb", "cut", "whole"}
      /\ f.kind \in {"absent", "nodb"} => s = <<>>
      /\ \A i \in DOMAIN s : (s[i].val \in Texts \/ s[i].val \in Int32) /\ (s[i].unit = "ms" => s[i].at > 0)
      /\ \A i, j \in DOMAIN s : s[i].key = s[j].key => i = j
  BY FilesAssumption
<1> HIDE DEF R, s
<1>2. Len(s) \in Nat /\ DOMAIN s = 1 .. Len(s) /\ \A i \in 1 .. Len(s) : s[i] \in R
  <2>1. s \in Seq(R)
    BY <1>1
  <2>2. QED
    BY <2>1
<1>3. ASSUME NEW i \in 1 .. Len(s) PROVE IsEntry(s[i])
  <2> DEFINE e == s[i]
  <2>1. e \in R /\ (e.val \in Texts \/ e.val \in Int32) /\ (e.unit = "ms" => e.at > 0)
    BY <1>1, <1>2
  <2> HIDE DEF e
  <2>2. IsEntry(e)
    BY <2>1 DEF IsEntry, R
  <2>3. QED
    BY <2>2 DEF e
<1>4. QED
  BY <1>1, <1>2, <1>3 DEF s

FileEnd(f) == IF f.kind = "whole" THEN EndMark ELSE <<>>

LEMMA EndMarkIs ==
  /\ EndMark \in Seq(Tokens) /\ EndMark # <<>> /\ B(EndMark, 1) = 255
  /\ Tail(EndMark) = <<Token("stamp", 0, NoValue)>> /\ Tail(EndMark) # <<>>
  /\ B(Tail(EndMark), 1) = 0 /\ Tail(Tail(EndMark)) = <<>>
<1> DEFINE b == Byte(255)
           t == Token("stamp", 0, NoValue)
<1>1. b \in Tokens /\ b.n = 255 /\ t \in Tokens /\ t.n = 0
  BY TokensAre DEF Byte, Token
<1>2. EndMark = <<b, t>>
  BY DEF EndMark
<1> HIDE DEF b, t
<1>3. /\ <<b, t>> \in Seq(Tokens) /\ <<b, t>> # <<>> /\ <<b, t>>[1] = b
      /\ Tail(<<b, t>>) = <<t>> /\ <<t>> # <<>> /\ <<t>>[1] = t /\ Tail(<<t>>) = <<>>
  BY <1>1
<1>4. QED
  BY <1>1, <1>2, <1>3 DEF B, t

\* What is left of a file after each of its entries.
LEMMA LastEntriesAre ==
  ASSUME NEW f \in Files
  PROVE  /\ LastEntries(f) \in [0 .. Len(f.entries) -> Seq(Tokens)]
         /\ LastEntries(f)[0] = FileEnd(f)
         /\ \A m \in 1 .. Len(f.entries) :
              LastEntries(f)[m] = EncodeEntry(f.entries[Len(f.entries) - m + 1]) \o LastEntries(f)[m - 1]
<1> DEFINE N == Len(f.entries)
           V == Seq(Tokens)
           base == FileEnd(f)
           Code(m) == EncodeEntry(f.entries[N - m + 1])
           Step(s, m) == Code(m) \o s
           step == [p \in V \X (1 .. N) |-> Step(p[1], p[2])]
           left == LastEntries(f)
<1>1. N \in Nat /\ base \in V
  BY EntriesOf, EndMarkIs DEF FileEnd
<1>2. \A m \in 1 .. N : Code(m) \in V
  <2>1. ASSUME NEW m \in 1 .. N PROVE Code(m) \in V
    <3>1. N - m + 1 \in 1 .. N
      BY <1>1
    <3>2. IsEntry(f.entries[N - m + 1])
      BY <3>1, EntriesOf
    <3>3. <<>> \in Seq(Tokens)
      OBVIOUS
    <3>4. QED
      BY <3>2, <3>3, EntryUndone
  <2>2. QED
    BY <2>1
<1>3. left = CHOOSE k : k = [i \in 0 .. N |-> IF i = 0 THEN base ELSE Step(k[i - 1], i)]
  BY DEF LastEntries, FileEnd
<1>4. \A s \in V, i \in 1 .. N : Step(s, i) \in V
  <2> HIDE DEF N, Code
  <2>1. QED
    BY <1>2
<1> HIDE DEF N, V, base, Code, Step, left
<1>5. step \in [V \X (1 .. N) -> V]
  BY <1>4
<1>6. \A k \in V, i \in 1 .. N : step[<<k, i>>] = Step(k, i)
  OBVIOUS
<1> HIDE DEF step
<1>7. PICK g \in [0 .. N -> V] : g[0] = base /\ \A i \in 1 .. N : g[i] = step[<<g[i - 1], i>>]
  <2>1. step \in Steps(N, V)
    BY <1>5 DEF Steps
  <2>2. \E g : Follows(g, N, V, base, step)
    BY <1>1, <2>1, RecursionTo
  <2>3. QED
    BY <2>2 DEF Follows
<1>8. \A i \in 1 .. N : g[i] = Step(g[i - 1], i)
  <2>1. ASSUME NEW i \in 1 .. N PROVE g[i] = Step(g[i - 1], i)
    <3>1. i - 1 \in 0 .. N
      BY <1>1
    <3>2. g[i - 1] \in V
      BY <3>1
    <3>3. QED
      BY <1>6, <1>7, <3>2
  <2>2. QED
    BY <2>1
<1>9. g = [i \in 0 .. N |-> IF i = 0 THEN base ELSE Step(g[i - 1], i)]
  <2>1. ASSUME NEW i \in 0 .. N PROVE g[i] = IF i = 0 THEN base ELSE Step(g[i - 1], i)
    <3>1. i = 0 \/ i \in 1 .. N
      BY <1>1
    <3>2. QED
      BY <1>7, <1>8, <3>1
  <2>2. QED
    BY <2>1
<1>10. left = [i \in 0 .. N |-> IF i = 0 THEN base ELSE Step(left[i - 1], i)]
  BY <1>3, <1>9
<1>11. DOMAIN left = 0 .. N /\ left[0] = base /\ \A i \in 1 .. N : left[i] = Step(left[i - 1], i)
  <2>1. 0 \in 0 .. N /\ \A i \in 1 .. N : i \in 0 .. N /\ i # 0
    BY <1>1
  <2>2. QED
    BY <1>10, <2>1
<1>12. 0 .. N \subseteq {i \in 0 .. N : left[i] \in V}
  <2> DEFINE T == {i \in 0 .. N : left[i] \in V}
  <2>1. 0 \in T
    BY <1>1, <1>11
  <2>2. ASSUME NEW n \in 0 .. N, n < N, n \in T PROVE n + 1 \in T
    <3>1. n + 1 \in 1 .. N /\ n + 1 \in 0 .. N /\ (n + 1) - 1 = n
      BY <2>2, <1>1
    <3>2. left[n + 1] = Step(left[n], n + 1) /\ left[n] \in V
      BY <3>1, <1>11, <2>2
    <3>3. QED
      BY <3>1, <3>2, <1>4
  <2> HIDE DEF T
  <2>3. 0 .. N \subseteq T
    BY <1>1, <2>1, <2>2, InductionTo
  <2>4. QED
    BY <2>3 DEF T
<1>13. left \in [0 .. N -> V]
  <2>1. left = [i \in 0 .. N |-> left[i]]
    BY <1>10
  <2>2. QED
    BY <1>12, <2>1
<1>14. QED
  BY <1>11, <1>13 DEF N, V, base, Step, Code, left

-----------------------------------------------------------------------------
(* The opcodes before the entries.                                         *)

LEMMA TailIsDrop ==
  ASSUME NEW r \in Seq(Tokens), r # <<>>
  PROVE  Tail(r) = Drop(r, 1)
BY DEF Drop

LEMMA Drops ==
  ASSUME NEW r \in Seq(Tokens), NEW i \in Nat, i < Len(r)
  PROVE  /\ Drop(r, i) \in Seq(Tokens) /\ Drop(r, i) # <<>>
         /\ Drop(Drop(r, i), 1) = Drop(r, i + 1)
         /\ Tail(Drop(r, i)) = Drop(r, i + 1)
         /\ B(Drop(r, i), 1) = B(r, i + 1)
<1> DEFINE d == Drop(r, i)
<1>1. /\ d \in Seq(Tokens) /\ Len(d) = Len(r) - i /\ \A j \in 1 .. Len(r) - i : d[j] = r[i + j]
  BY DEF Drop
<1>2. d # <<>> /\ d[1] = r[i + 1]
  BY <1>1
<1>3. Drop(d, 1) = Drop(r, i + 1)
  BY DEF Drop
<1> HIDE DEF d
<1>4. Tail(d) = Drop(d, 1)
  BY <1>1, <1>2, TailIsDrop
<1>5. QED
  BY <1>1, <1>2, <1>3, <1>4 DEF d, B

\* The two strings of a metadata opcode are skipped.
SkipMetadata(r) == ReadString(ReadString(Tail(r)).rest).rest

LEMMA MetadataRead ==
  ASSUME NEW s \in Seq(Tokens)
  PROVE  /\ Metadata \in Seq(Tokens) /\ Metadata \o s # <<>>
         /\ B(Metadata \o s, 1) = 250 /\ SkipMetadata(Metadata \o s) = s
<1> DEFINE b == Byte(250)
           p == <<b>>
           x == EncodeText(Empty)
           y == EncodeNumber(64)
           ys == y \o s
           xys == x \o ys
<1>0. Metadata = (p \o x) \o y
  BY DEF Metadata
<1>1. b \in Tokens /\ b.n = 250
  BY TokensAre DEF Byte, Token
<1>2. y \in Seq(Tokens) /\ ReadString(ys).rest = s
  <2>1. 64 \in Int32
    <3>1. MaxInt32 \in Int /\ 64 <= MaxInt32
      BY SMT DEF MaxInt32
    <3>2. QED
      BY <3>1 DEF Int32
  <2>2. QED
    BY <2>1, NumberUndone
<1> HIDE DEF y, b
<1>3. ys \in Seq(Tokens)
  BY <1>2
<1> HIDE DEF ys
<1>4. x \in Seq(Tokens) /\ ReadString(xys).rest = ys
  BY <1>3, ValuesAssumption, TextUndone
<1> HIDE DEF x
<1>5. xys \in Seq(Tokens)
  BY <1>3, <1>4
<1>6. p \in Seq(Tokens) /\ (p \o x) \o y \in Seq(Tokens)
  BY <1>1, <1>2, <1>4
<1>7. ((p \o x) \o y) \o s = p \o xys
  <2> HIDE DEF p
  <2>1. p \o x \in Seq(Tokens)
    BY <1>4, <1>6
  <2>2. ((p \o x) \o y) \o s = (p \o x) \o ys
    BY <1>2, <2>1, Assoc DEF ys
  <2>3. (p \o x) \o ys = p \o xys
    BY <1>3, <1>4, <1>6, Assoc
  <2>4. QED
    BY <2>2, <2>3
<1> HIDE DEF xys
<1>8. p \o xys # <<>> /\ Tail(p \o xys) = xys /\ (p \o xys)[1] = b
  BY <1>1, <1>5, FirstToken
<1> DEFINE t == Metadata \o s
<1>9. t = p \o xys /\ Metadata \in Seq(Tokens)
  BY <1>0, <1>6, <1>7
<1> HIDE DEF p, t
<1>10. t # <<>> /\ Tail(t) = xys /\ B(t, 1) = 250
  BY <1>1, <1>8, <1>9 DEF B
<1>11. SkipMetadata(t) = s
  BY <1>2, <1>4, <1>10 DEF SkipMetadata
<1>12. QED
  BY <1>9, <1>10, <1>11 DEF t

\* Where the opcode of the sizes is, the second size and what follows it.
SizesFrom(r) == IF B(r, 1) = 254 THEN AfterDb(Tail(r)) ELSE r
SecondSize(r) == Drop(Tail(SizesFrom(r)), DecodeLength(Tail(SizesFrom(r))).used)
AfterSizes(r) == Drop(SecondSize(r), DecodeLength(SecondSize(r)).used)

LEMMA ZeroLength ==
  ASSUME NEW s, B(s, 1) = 0
  PROVE  DecodeLength(s).used = 1
BY DecodedLength DEF Sized

LEMMA DatabaseRead ==
  ASSUME NEW f \in Files
  PROVE  /\ Database(f) \in Seq(Tokens) /\ Database(f) # <<>>
         /\ B(Database(f), 1) = 254 /\ B(SizesFrom(Database(f)), 1) = 251
         /\ AfterSizes(Database(f)) = LastEntries(f)[Len(f.entries)]
<1> DEFINE q == <<254, 0, 251>>
           p == Bytes(q)
           n == Len(f.entries)
           x == EncodeLength(n)
           z == Bytes(<<0>>)
           s == LastEntries(f)[n]
           zs == z \o s
           xzs == x \o zs
           r == p \o xzs
<1>1. n \in Nat /\ s \in Seq(Tokens)
  <2>1. n \in Nat
    BY EntriesOf
  <2>2. n \in 0 .. n
    BY <2>1
  <2>3. LastEntries(f) \in [0 .. n -> Seq(Tokens)]
    BY LastEntriesAre
  <2>4. QED
    BY <2>1, <2>2, <2>3
<1>2. Database(f) = ((p \o x) \o z) \o s
  BY DEF Database
<1>3. q \in Seq(Nat) /\ Len(q) = 3 /\ q[1] = 254 /\ q[2] = 0 /\ q[3] = 251
  OBVIOUS
<1> HIDE DEF n, s, q
<1>4. z \in Seq(Tokens) /\ zs \in Seq(Tokens) /\ B(zs, 1) = 0 /\ Drop(zs, 1) = s
  BY <1>1, ZeroByte
<1> HIDE DEF z, zs
<1>5. x \in Seq(Tokens) /\ DecodeLength(xzs) = Sized(n, Len(x))
  BY <1>1, <1>4, LengthUndone
<1> HIDE DEF x
<1>6. xzs \in Seq(Tokens) /\ Drop(xzs, Len(x)) = zs
  BY <1>4, <1>5, Prefixed
<1> HIDE DEF xzs
<1>7. /\ p \in Seq(Tokens) /\ Len(p) = 3
      /\ \A i \in 1 .. 3 : B(r, i) = q[i]
  BY <1>3, <1>6, BytesFirst
<1> HIDE DEF p
<1>8. r \in Seq(Tokens) /\ Drop(r, 3) = xzs
  <2>1. r \in Seq(Tokens) /\ Drop(r, Len(p)) = xzs
    BY <1>6, <1>7, Prefixed
  <2>2. QED
    BY <1>7, <2>1
<1>9. Len(r) \in Nat /\ Len(r) >= 3
  <2>1. Len(r) = Len(p) + Len(xzs)
    BY <1>6, <1>7, Lengths
  <2>2. Len(xzs) \in Nat
    BY <1>6, Lengths
  <2>3. QED
    BY <1>7, <2>1, <2>2
<1>10. Database(f) = r
  <2>1. p \o x \in Seq(Tokens) /\ (p \o x) \o z \in Seq(Tokens)
    BY <1>4, <1>5, <1>7
  <2>2. ((p \o x) \o z) \o s = (p \o x) \o zs
    BY <1>1, <1>4, <2>1, Assoc DEF zs
  <2>3. (p \o x) \o zs = p \o xzs
    BY <1>4, <1>5, <1>7, Assoc DEF xzs
  <2>4. QED
    BY <1>2, <2>2, <2>3
<1> HIDE DEF r
<1>11. B(r, 1) = 254 /\ B(r, 2) = 0 /\ B(r, 3) = 251
  BY <1>3, <1>7
<1>12. r # <<>> /\ Tail(r) = Drop(r, 1)
  <2>1. Len(r) # 0
    BY <1>9
  <2>2. r # <<>>
    BY <1>8, <2>1, Lengths
  <2>3. QED
    BY <1>8, <2>2, TailIsDrop
<1>13. B(Drop(r, 1), 1) = B(r, 2) /\ Drop(Drop(r, 1), 1) = Drop(r, 2)
  <2>1. 1 \in Nat /\ 1 < Len(r) /\ 1 + 1 = 2
    BY <1>9
  <2>2. /\ B(Drop(r, 1), 1) = B(r, 1 + 1) /\ Drop(Drop(r, 1), 1) = Drop(r, 1 + 1)
    BY <1>8, <2>1, Drops
  <2>3. QED
    BY <2>1, <2>2
<1>14. B(Drop(r, 2), 1) = B(r, 3) /\ Tail(Drop(r, 2)) = Drop(r, 3)
  <2>1. 2 \in Nat /\ 2 < Len(r) /\ 2 + 1 = 3
    BY <1>9
  <2>2. /\ B(Drop(r, 2), 1) = B(r, 2 + 1) /\ Tail(Drop(r, 2)) = Drop(r, 2 + 1)
    BY <1>8, <2>1, Drops
  <2>3. QED
    BY <2>1, <2>2
<1>15. SizesFrom(r) = Drop(r, 2)
  <2>1. DecodeLength(Drop(r, 1)).used = 1
    BY <1>11, <1>13, ZeroLength
  <2>2. QED
    BY <1>11, <1>12, <1>13, <2>1 DEF SizesFrom, AfterDb
<1>16. SecondSize(r) = zs
  <2>1. DecodeLength(xzs).used = Len(x)
    BY <1>5 DEF Sized
  <2>2. QED
    BY <1>6, <1>8, <1>14, <1>15, <2>1 DEF SecondSize
<1>17. AfterSizes(r) = s
  <2>1. DecodeLength(zs).used = 1
    BY <1>4, ZeroLength
  <2>2. QED
    BY <1>4, <1>16, <2>1 DEF AfterSizes
<1>18. QED
  BY <1>8, <1>10, <1>11, <1>12, <1>14, <1>15, <1>17 DEF s, n

-----------------------------------------------------------------------------
(* The steps of the load.                                                  *)

LEMMA LoadMetadataIs ==
  ASSUME LoadMetadata
  PROVE  /\ phase = "metadata" /\ UNCHANGED <<file, values, timeouts, now, writes, last>>
         /\ rdb = <<>> => phase' = "failed" /\ rdb' = rdb
         /\ rdb # <<>> /\ B(rdb, 1) = 250 => rdb' = SkipMetadata(rdb) /\ phase' = phase
         /\ rdb # <<>> /\ B(rdb, 1) # 250 /\ B(SizesFrom(rdb), 1) = 251 =>
              rdb' = AfterSizes(rdb) /\ phase' = "entries"
         /\ rdb # <<>> /\ B(rdb, 1) # 250 /\ B(SizesFrom(rdb), 1) # 251 =>
              rdb' = Tail(SizesFrom(rdb)) /\ phase' = phase
BY DEF LoadMetadata, SkipMetadata, SizesFrom, SecondSize, AfterSizes

KeyIn(r) == ReadString(PairIn(r)).val
ValueIn(r) == ReadString(ReadString(PairIn(r)).rest).val
AfterEntry(r) == ReadString(ReadString(PairIn(r)).rest).rest

LEMMA LoadEntryIs ==
  ASSUME LoadEntry
  PROVE  /\ phase = "entries" /\ UNCHANGED <<file, now, writes, last>>
         /\ rdb = <<>> \/ B(rdb, 1) = 255 =>
              phase' = "ready" /\ rdb' = <<>> /\ UNCHANGED <<values, timeouts>>
         /\ ~(rdb = <<>> \/ B(rdb, 1) = 255) =>
              /\ rdb' = AfterEntry(rdb) /\ phase' = phase
              /\ values' = [values EXCEPT ![KeyIn(rdb)] = ValueIn(rdb)]
              /\ timeouts' = IF StampIn(rdb) = 0 THEN timeouts
                             ELSE [timeouts EXCEPT ![KeyIn(rdb)] = StampTimeout(StampIn(rdb))]
BY DEF LoadEntry, AfterSeconds, StampIn, PairIn, KeyIn, ValueIn, AfterEntry

\* What an entry makes of the timeout of its key.
EntryTimeout(e) == IF e.unit = "ms" THEN StampTimeout(e.at) ELSE NoTimeout

\* The first n entries of the file are in the maps, and nothing else.
Loaded(n) ==
    /\ \A i \in 1 .. n : /\ values[file.entries[i].key] = file.entries[i].val
                         /\ timeouts[file.entries[i].key] = EntryTimeout(file.entries[i])
    /\ \A k \in Keys : (\A i \in 1 .. n : file.entries[i].key # k) =>
                         values[k] = NoValue /\ timeouts[k] = NoTimeout

\* What is to be read before the entries.
ToLoad ==
    IF file.kind = "nodb" THEN {Metadata \o EndMark, EndMark, Tail(EndMark), <<>>}
    ELSE {Metadata \o Database(file), Database(file)}

LoadInv ==
    /\ phase = "metadata" => file.kind # "absent" /\ rdb \in ToLoad /\ Loaded(0)
    /\ phase = "entries" =>
         \E m \in 0 .. Len(file.entries) :
            rdb = LastEntries(file)[m] /\ Loaded(Len(file.entries) - m)

LEMMA EntryRead ==
  ASSUME NEW f \in Files, NEW m \in 1 .. Len(f.entries),
         NEW e, e = f.entries[Len(f.entries) - m + 1],
         NEW r, r = LastEntries(f)[m]
  PROVE  /\ IsEntry(e) /\ r # <<>> /\ B(r, 1) # 255
         /\ KeyIn(r) = e.key /\ ValueIn(r) = e.val
         /\ StampIn(r) = (IF e.unit = "ms" THEN e.at ELSE 0)
         /\ AfterEntry(r) = LastEntries(f)[m - 1]
<1> DEFINE s == LastEntries(f)[m - 1]
           n == Len(f.entries)
<1>1. n \in Nat /\ n - m + 1 \in 1 .. n /\ m - 1 \in 0 .. n
  BY EntriesOf
<1>2. IsEntry(e)
  BY <1>1, EntriesOf
<1>3. s \in Seq(Tokens) /\ r = EncodeEntry(e) \o s
  <2>1. LastEntries(f) \in [0 .. n -> Seq(Tokens)]
    BY LastEntriesAre
  <2>2. s \in Seq(Tokens)
    BY <1>1, <2>1
  <2>3. r = EncodeEntry(e) \o s
    BY LastEntriesAre
  <2>4. QED
    BY <2>2, <2>3
<1> HIDE DEF s
<1>4. /\ EncodeEntry(e) \o s # <<>> /\ B(EncodeEntry(e) \o s, 1) # 255
      /\ StampIn(EncodeEntry(e) \o s) = (IF e.unit = "ms" THEN e.at ELSE 0)
      /\ KeyIn(EncodeEntry(e) \o s) = e.key /\ ValueIn(EncodeEntry(e) \o s) = e.val
      /\ AfterEntry(EncodeEntry(e) \o s) = s
  BY <1>2, <1>3, EntryUndone DEF KeyIn, ValueIn, AfterEntry
<1>5. QED
  BY <1>2, <1>3, <1>4 DEF s

LEMMA FileEndRead ==
  ASSUME NEW f \in Files, NEW r, r = LastEntries(f)[0]
  PROVE  r = <<>> \/ B(r, 1) = 255
BY LastEntriesAre, EndMarkIs DEF FileEnd

\* An entry is loaded, or the last one was.
Loads(m) ==
    LET e == file.entries[Len(file.entries) - m + 1]
    IN /\ IsEntry(e) /\ Loaded(Len(file.entries) - m)
       /\ rdb' = LastEntries(file)[m - 1] /\ phase' = "entries"
       /\ values' = [values EXCEPT ![e.key] = e.val]
       /\ timeouts' = IF e.unit = "ms" THEN [timeouts EXCEPT ![e.key] = StampTimeout(e.at)]
                      ELSE timeouts

LEMMA LoadEntryCases ==
  ASSUME file \in Files, LoadInv, LoadEntry
  PROVE  /\ phase = "entries" /\ UNCHANGED <<file, now, writes, last>>
         /\ \/ /\ Loaded(Len(file.entries)) /\ phase' = "ready"
               /\ UNCHANGED <<values, timeouts>>
            \/ \E m \in 1 .. Len(file.entries) : Loads(m)
<1> DEFINE n == Len(file.entries)
<1>1. phase = "entries" /\ UNCHANGED <<file, now, writes, last>>
  BY LoadEntryIs
<1>2. PICK m \in 0 .. n : rdb = LastEntries(file)[m] /\ Loaded(n - m)
  BY <1>1 DEF LoadInv
<1>3. n \in Nat
  BY EntriesOf
<1>4. CASE m = 0
  <2>1. rdb = <<>> \/ B(rdb, 1) = 255
    BY <1>2, <1>4, FileEndRead
  <2>2. n - m = n
    BY <1>3, <1>4
  <2>3. QED
    BY <1>1, <1>2, <2>1, <2>2, LoadEntryIs
<1>5. CASE m # 0
  <2> DEFINE e == file.entries[n - m + 1]
  <2>1. m \in 1 .. n
    BY <1>3, <1>5
  <2>2. /\ IsEntry(e) /\ rdb # <<>> /\ B(rdb, 1) # 255
        /\ KeyIn(rdb) = e.key /\ ValueIn(rdb) = e.val
        /\ StampIn(rdb) = (IF e.unit = "ms" THEN e.at ELSE 0)
        /\ AfterEntry(rdb) = LastEntries(file)[m - 1]
    BY <1>2, <2>1, EntryRead
  <2>3. StampIn(rdb) = 0 <=> e.unit # "ms"
    BY <2>2 DEF IsEntry
  <2>4. /\ rdb' = AfterEntry(rdb) /\ phase' = phase
        /\ values' = [values EXCEPT ![KeyIn(rdb)] = ValueIn(rdb)]
        /\ timeouts' = IF StampIn(rdb) = 0 THEN timeouts
                       ELSE [timeouts EXCEPT ![KeyIn(rdb)] = StampTimeout(StampIn(rdb))]
    BY <2>2, LoadEntryIs
  <2> HIDE DEF e
  <2>5. timeouts' = IF e.unit = "ms" THEN [timeouts EXCEPT ![e.key] = StampTimeout(e.at)]
                    ELSE timeouts
    BY <2>2, <2>3, <2>4
  <2>6. values' = [values EXCEPT ![e.key] = e.val] /\ rdb' = LastEntries(file)[m - 1] /\ phase' = "entries"
    BY <1>1, <2>2, <2>4
  <2>7. Loads(m)
    BY <1>2, <2>2, <2>5, <2>6 DEF Loads, e
  <2>8. QED
    BY <1>1, <2>1, <2>7
<1>6. QED
  BY <1>4, <1>5

\* Only a file without a database runs out before its entries.
LEMMA LoadMetadataCases ==
  ASSUME file \in Files, LoadInv, LoadMetadata
  PROVE  /\ phase = "metadata" /\ UNCHANGED <<file, values, timeouts, now, writes, last>>
         /\ Loaded(0)
         /\ \/ phase' = "failed" /\ file.entries = <<>>
            \/ phase' = "metadata" /\ file.kind # "absent" /\ rdb' \in ToLoad
            \/ phase' = "entries" /\ rdb' = LastEntries(file)[Len(file.entries)]
<1>1. phase = "metadata" /\ UNCHANGED <<file, values, timeouts, now, writes, last>>
  BY LoadMetadataIs
<1>2. file.kind # "absent" /\ rdb \in ToLoad /\ Loaded(0)
  BY <1>1 DEF LoadInv
<1>3. CASE file.kind = "nodb"
  <2>1. file.entries = <<>>
    BY <1>3, EntriesOf
  <2>2. ToLoad = {Metadata \o EndMark, EndMark, Tail(EndMark), <<>>}
    BY <1>3 DEF ToLoad
  <2>3. CASE rdb = Metadata \o EndMark
    <3>1. rdb # <<>> /\ B(rdb, 1) = 250 /\ SkipMetadata(rdb) = EndMark
      BY <2>3, MetadataRead, EndMarkIs
    <3>2. rdb' = EndMark /\ phase' = phase
      BY <3>1, LoadMetadataIs
    <3>3. QED
      BY <1>1, <1>2, <2>2, <3>2
  <2>4. CASE rdb = EndMark
    <3>1. rdb # <<>> /\ B(rdb, 1) = 255
      BY <2>4, EndMarkIs
    <3>2. SizesFrom(rdb) = rdb
      BY <3>1 DEF SizesFrom
    <3>3. rdb' = Tail(rdb) /\ phase' = phase
      BY <3>1, <3>2, LoadMetadataIs
    <3>4. QED
      BY <1>1, <1>2, <2>2, <2>4, <3>3
  <2>5. CASE rdb = Tail(EndMark)
    <3>1. rdb # <<>> /\ B(rdb, 1) = 0 /\ Tail(rdb) = <<>>
      BY <2>5, EndMarkIs
    <3>2. SizesFrom(rdb) = rdb
      BY <3>1 DEF SizesFrom
    <3>3. rdb' = <<>> /\ phase' = phase
      <4>1. B(rdb, 1) # 250 /\ B(SizesFrom(rdb), 1) # 251
        BY <3>1, <3>2
      <4>2. rdb' = Tail(SizesFrom(rdb)) /\ phase' = phase
        BY <3>1, <4>1, LoadMetadataIs
      <4>3. QED
        BY <3>1, <3>2, <4>2
    <3>4. QED
      BY <1>1, <1>2, <2>2, <3>3
  <2>6. CASE rdb = <<>>
    BY <1>1, <1>2, <2>1, <2>6, LoadMetadataIs
  <2>7. QED
    BY <1>2, <2>2, <2>3, <2>4, <2>5, <2>6
<1>4. CASE file.kind # "nodb"
  <2>1. ToLoad = {Metadata \o Database(file), Database(file)}
    BY <1>4 DEF ToLoad
  <2>2. CASE rdb = Metadata \o Database(file)
    <3>1. Database(file) \in Seq(Tokens)
      BY DatabaseRead
    <3>2. rdb # <<>> /\ B(rdb, 1) = 250 /\ SkipMetadata(rdb) = Database(file)
      BY <2>2, <3>1, MetadataRead
    <3>3. rdb' = Database(file) /\ phase' = phase
      BY <3>2, LoadMetadataIs
    <3>4. QED
      BY <1>1, <1>2, <2>1, <3>3
  <2>3. CASE rdb = Database(file)
    <3>1. /\ rdb # <<>> /\ B(rdb, 1) # 250 /\ B(SizesFrom(rdb), 1) = 251
          /\ AfterSizes(rdb) = LastEntries(file)[Len(file.entries)]
      BY <2>3, DatabaseRead
    <3>2. rdb' = AfterSizes(rdb) /\ phase' = "entries"
      BY <3>1, LoadMetadataIs
    <3>3. QED
      BY <1>1, <1>2, <3>1, <3>2
  <2>4. QED
    BY <1>2, <2>1, <2>2, <2>3
<1>5. QED
  BY <1>3, <1>4

\* The steps of the loop once the store is ready.
ReadStep ==
    \/ \E k \in Keys : Get(k) \/ IncrError(k) \/ Type(k)
    \/ \E p \in DOMAIN Matches : KeysLike(p)
WriteStep ==
    \E k \in Keys : Incr(k) \/ \E v \in SetValues : Set(k, v) \/ \E px \in Px : SetPx(k, v, px)

LEMMA NextIs ==
  ASSUME [Next]_vars
  PROVE  LoadMetadata \/ LoadEntry \/ Tick \/ ReadStep \/ WriteStep \/ UNCHANGED vars
BY DEF Next, Stopped, ReadStep, WriteStep

LEMMA ReadStepIs ==
  ASSUME ReadStep
  PROVE  phase = "ready" /\ UNCHANGED <<file, rdb, phase, values, timeouts, now, writes>>
BY DEF ReadStep, Get, IncrError, Type, KeysLike, Reads

LEMMA WriteStepIs ==
  ASSUME WriteStep
  PROVE  phase = "ready" /\ UNCHANGED <<file, rdb, phase, now>>
BY DEF WriteStep, Incr, Set, SetPx, Writes

LEMMA EntryTimeoutType ==
  ASSUME NEW e, IsEntry(e)
  PROVE  EntryTimeout(e) \in Timeouts
<1>1. CASE e.unit = "ms"
  <2>1. e.at \in Nat /\ MsPerSec \in Nat \ {0} /\ UsecPerMs \in Nat \ {0}
    BY UnitsAssumption DEF IsEntry
  <2>2. e.at \div MsPerSec \in Nat /\ e.at % MsPerSec \in Nat
    BY <2>1
  <2>3. (e.at % MsPerSec) * UsecPerMs \in Int
    BY <2>1, <2>2
  <2>4. QED
    BY <1>1, <2>2, <2>3 DEF EntryTimeout, StampTimeout, Timeval, Timeouts
<1>2. CASE e.unit # "ms"
  BY <1>2 DEF EntryTimeout, NoTimeout, Timeouts
<1>3. QED
  BY <1>1, <1>2

LEMMA LoadsMore ==
  ASSUME TypeOK, NEW m \in 1 .. Len(file.entries), Loads(m), file' = file
  PROVE  Loaded(Len(file.entries) - (m - 1))'
<1> DEFINE n == Len(file.entries)
           i0 == n - m + 1
           e == file.entries[i0]
<1>1. n \in Nat /\ i0 \in 1 .. n /\ n - (m - 1) = i0 /\ n - m = i0 - 1
  BY EntriesOf DEF TypeOK
<1>2. /\ IsEntry(e) /\ Loaded(i0 - 1) /\ values' = [values EXCEPT ![e.key] = e.val]
      /\ timeouts' = IF e.unit = "ms" THEN [timeouts EXCEPT ![e.key] = StampTimeout(e.at)]
                     ELSE timeouts
  BY <1>1 DEF Loads
<1>3. /\ e.key \in Keys /\ values = [k \in Keys |-> values[k]]
      /\ timeouts = [k \in Keys |-> timeouts[k]]
  BY <1>2 DEF TypeOK, IsEntry
<1>4. \A i \in 1 .. i0 - 1 : file.entries[i].key \in Keys /\ file.entries[i].key # e.key
  <2>1. ASSUME NEW i \in 1 .. i0 - 1
        PROVE  file.entries[i].key \in Keys /\ file.entries[i].key # e.key
    <3>1. i \in 1 .. n /\ i # i0
      BY <1>1
    <3>2. IsEntry(file.entries[i])
      BY <3>1, EntriesOf DEF TypeOK
    <3>3. file.entries[i].key = file.entries[i0].key => i = i0
      BY <1>1, <3>1, EntriesOf DEF TypeOK
    <3>4. QED
      BY <3>1, <3>2, <3>3 DEF IsEntry
  <2>2. QED
    BY <2>1
<1>5. values[e.key] = NoValue /\ timeouts[e.key] = NoTimeout
  BY <1>2, <1>3, <1>4 DEF Loaded
<1>6. values'[e.key] = e.val /\ \A k \in Keys : k # e.key => values'[k] = values[k]
  BY <1>2, <1>3
<1>7. timeouts'[e.key] = EntryTimeout(e) /\ \A k \in Keys : k # e.key => timeouts'[k] = timeouts[k]
  BY <1>2, <1>3, <1>5 DEF EntryTimeout
<1>8. ASSUME NEW i \in 1 .. i0
      PROVE  /\ values'[file.entries[i].key] = file.entries[i].val
             /\ timeouts'[file.entries[i].key] = EntryTimeout(file.entries[i])
  <2>1. CASE i = i0
    BY <1>6, <1>7, <2>1
  <2>2. CASE i # i0
    <3>1. i \in 1 .. i0 - 1
      BY <1>1, <2>2
    <3>2. QED
      BY <3>1, <1>2, <1>4, <1>6, <1>7 DEF Loaded
  <2>3. QED
    BY <2>1, <2>2
<1>9. ASSUME NEW k \in Keys, \A i \in 1 .. i0 : file.entries[i].key # k
      PROVE  values'[k] = NoValue /\ timeouts'[k] = NoTimeout
  <2>1. k # e.key /\ \A i \in 1 .. i0 - 1 : file.entries[i].key # k
    BY <1>1, <1>9
  <2>2. values[k] = NoValue /\ timeouts[k] = NoTimeout
    BY <1>2, <2>1 DEF Loaded
  <2>3. QED
    BY <1>6, <1>7, <2>1, <2>2
<1>10. Loaded(i0)'
  BY <1>8, <1>9 DEF Loaded
<1>11. QED
  BY <1>1, <1>10

LEMMA LoadInvNext ==
  ASSUME TypeOK, LoadInv, [Next]_vars
  PROVE  LoadInv'
<1>0. file \in Files /\ Len(file.entries) \in Nat
  BY EntriesOf DEF TypeOK
<1>1. CASE LoadMetadata
  <2>1. /\ UNCHANGED <<file, values, timeouts>> /\ Loaded(0)
        /\ \/ phase' = "failed" /\ file.entries = <<>>
           \/ phase' = "metadata" /\ file.kind # "absent" /\ rdb' \in ToLoad
           \/ phase' = "entries" /\ rdb' = LastEntries(file)[Len(file.entries)]
    BY <1>0, <1>1, LoadMetadataCases
  <2>2. Loaded(0)' /\ ToLoad' = ToLoad
    BY <2>1 DEF Loaded, ToLoad
  <2>3. Len(file.entries) \in 0 .. Len(file.entries) /\ Len(file.entries) - Len(file.entries) = 0
    BY <1>0
  <2>4. QED
    BY <2>1, <2>2, <2>3 DEF LoadInv
<1>2. CASE LoadEntry
  <2>1. /\ file' = file
        /\ phase' = "ready" \/ \E m \in 1 .. Len(file.entries) : Loads(m)
    BY <1>0, <1>2, LoadEntryCases
  <2>2. CASE phase' = "ready"
    BY <2>2 DEF LoadInv
  <2>3. ASSUME NEW m \in 1 .. Len(file.entries), Loads(m) PROVE LoadInv'
    <3>1. Loaded(Len(file.entries) - (m - 1))'
      BY <2>1, <2>3, LoadsMore
    <3>2. rdb' = LastEntries(file)[m - 1] /\ phase' = "entries"
      BY <2>3 DEF Loads
    <3>3. m - 1 \in 0 .. Len(file.entries)
      BY <1>0
    <3>4. QED
      BY <2>1, <3>1, <3>2, <3>3 DEF LoadInv
  <2>4. QED
    BY <2>1, <2>2, <2>3
<1>3. CASE Tick \/ ReadStep \/ WriteStep
  <2>1. phase' = "ready"
    BY <1>3, ReadStepIs, WriteStepIs DEF Tick
  <2>2. QED
    BY <2>1 DEF LoadInv
<1>4. CASE UNCHANGED vars
  BY <1>4 DEF vars, LoadInv, ToLoad, Loaded
<1>5. QED
  BY <1>1, <1>2, <1>3, <1>4, NextIs

-----------------------------------------------------------------------------
(* The types.                                                              *)

LEMMA AsIntType ==
  ASSUME NEW n \in Int
  PROVE  AsInt(n) \in Int
<1> DEFINE d == 2 * MaxInt + 2
           m == n + MaxInt + 1
<1>1. d \in Nat \ {0} /\ m \in Int /\ MaxInt \in Int
  BY UnitsAssumption
<1> HIDE DEF d, m
<1>2. m % d \in Int
  BY <1>1, Division
<1>3. AsInt(n) = (m % d) - (MaxInt + 1)
  BY DEF AsInt, d, m
<1>4. QED
  BY <1>1, <1>2, <1>3

LEMMA ClockReads ==
  ASSUME now \in Nat
  PROVE  /\ Sec \in Nat /\ Usec \in Nat /\ Usec < UsecPerSec
         /\ Sec * UsecPerSec + Usec = now
<1>1. UsecPerSec \in Nat \ {0}
  BY UnitsArePositive
<1> DEFINE d == UsecPerSec
<1> HIDE DEF d
<1>2. d \in Nat \ {0}
  BY <1>1 DEF d
<1>3. now \div d \in Int /\ now % d \in 0 .. d - 1 /\ (now \div d) * d + (now % d) = now
  BY <1>2, Division
<1>4. now \div d \in Nat
  BY <1>2
<1>5. QED
  BY <1>2, <1>3, <1>4 DEF Sec, Usec, d

LEMMA ProductType ==
  ASSUME NEW px \in Px, NEW p \in Products(px)
  PROVE  p \in Int
<1>1. px * UsecPerMs \in Int
  BY PxAssumption, UnitsAssumption
<1>2. QED
  BY <1>1, AsIntType DEF Products

LEMMA CarryType ==
  ASSUME NEW s \in Nat, NEW u \in Int
  PROVE  Carry(s, u) \in Timeouts /\ Carry(s, u).on
<1> DEFINE d == UsecPerSec
<1>1. d \in Nat \ {0}
  BY UnitsArePositive
<1>2. Carry(s, u) = IF u > d THEN Timeval(s + u \div d, u % d) ELSE Timeval(s, u)
  BY DEF Carry
<1> HIDE DEF d
<1>3. u > d => u \div d \in Nat /\ u % d \in Int
  BY <1>1
<1>4. QED
  BY <1>2, <1>3 DEF Timeval, Timeouts

Replies ==
    [kind : {"none", "ok", "bulk", "nil", "int", "error", "string", "notstring", "keys"},
     key : Keys \cup {NoValue}, val : Vals \cup {NoValue}, px : Px \cup {0},
     found : SUBSET Keys]

LEMMA TypeOKNext ==
  ASSUME TypeOK, LoadInv, [Next]_vars
  PROVE  TypeOK'
<1>0. /\ file \in Files /\ values \in [Keys -> Vals \cup {NoValue}]
      /\ timeouts \in [Keys -> Timeouts] /\ last \in Replies
      /\ now \in 0 .. MaxTime /\ writes \in 0 .. MaxWrites
      /\ phase \in {"metadata", "entries", "ready", "failed"}
      /\ MaxTime \in Nat /\ MaxWrites \in Nat
  BY BoundsAssumption DEF TypeOK, Replies
<1>1. CASE LoadMetadata
  BY <1>0, <1>1, LoadMetadataCases DEF TypeOK
<1>2. CASE LoadEntry
  <2>1. /\ UNCHANGED <<file, now, writes, last>>
        /\ \/ phase' = "ready" /\ UNCHANGED <<values, timeouts>>
           \/ \E m \in 1 .. Len(file.entries) : Loads(m)
    BY <1>0, <1>2, LoadEntryCases
  <2>2. CASE phase' = "ready" /\ UNCHANGED <<values, timeouts>>
    BY <1>0, <2>1, <2>2 DEF TypeOK
  <2>3. ASSUME NEW m \in 1 .. Len(file.entries), Loads(m) PROVE TypeOK'
    <3> DEFINE e == file.entries[Len(file.entries) - m + 1]
    <3>1. /\ IsEntry(e) /\ phase' = "entries" /\ values' = [values EXCEPT ![e.key] = e.val]
          /\ timeouts' = IF e.unit = "ms" THEN [timeouts EXCEPT ![e.key] = StampTimeout(e.at)]
                         ELSE timeouts
      BY <2>3 DEF Loads
    <3> HIDE DEF e
    <3>2. e.val \in Vals
      <4>1. MaxInt32 \in Int
        BY SMT DEF MaxInt32
      <4>2. Int32 \subseteq Int
        BY <4>1 DEF Int32
      <4>3. QED
        BY <3>1, <4>2 DEF IsEntry, Vals
    <3>3. values' \in [Keys -> Vals \cup {NoValue}]
      BY <1>0, <3>1, <3>2
    <3>4. timeouts' \in [Keys -> Timeouts]
      <4>1. e.unit = "ms" => StampTimeout(e.at) \in Timeouts
        BY <3>1, EntryTimeoutType DEF EntryTimeout
      <4>2. QED
        BY <1>0, <3>1, <4>1
    <3>5. QED
      BY <1>0, <2>1, <3>1, <3>3, <3>4 DEF TypeOK
  <2>4. QED
    BY <2>1, <2>2, <2>3
<1>3. CASE Tick
  <2>1. now' \in 0 .. MaxTime
    BY <1>0, <1>3 DEF Tick
  <2>2. QED
    BY <1>0, <1>3, <2>1 DEF Tick, TypeOK
<1>4. CASE ReadStep
  <2>1. UNCHANGED <<file, rdb, phase, values, timeouts, now, writes>>
    BY <1>4, ReadStepIs
  <2>2. last' \in Replies
    <3>1. ASSUME NEW k \in Keys, Get(k) \/ IncrError(k) \/ Type(k) PROVE last' \in Replies
      BY <1>0, <3>1 DEF Get, IncrError, Type, Reads, Said, Did, Replies, Readable
    <3>2. ASSUME NEW p \in DOMAIN Matches, KeysLike(p) PROVE last' \in Replies
      <4>1. {k \in Matches[p] : values[k] # NoValue} \in SUBSET Keys
        BY PatternAssumption
      <4>2. QED
        BY <3>2, <4>1 DEF KeysLike, Reads, Did, Replies
    <3>3. QED
      BY <1>4, <3>1, <3>2 DEF ReadStep
  <2>3. QED
    BY <1>0, <2>1, <2>2 DEF TypeOK, Replies
<1>5. CASE WriteStep
  <2>1. ASSUME NEW k \in Keys, NEW v \in Vals, NEW px \in Px \cup {0}, NEW kind \in {"ok", "int"},
               Writes(k, v, Did(kind, k, v, px, {})), timeouts' \in [Keys -> Timeouts]
        PROVE  TypeOK'
    <3>1. /\ writes' \in 0 .. MaxWrites /\ values' \in [Keys -> Vals \cup {NoValue}]
          /\ UNCHANGED <<file, phase, now>>
      BY <1>0, <2>1 DEF Writes
    <3>2. last' \in Replies
      BY <2>1 DEF Writes, Did, Replies
    <3>3. QED
      BY <1>0, <2>1, <3>1, <3>2 DEF TypeOK, Replies
  <2>2. SetValues \subseteq Vals
    BY ValuesAssumption DEF Vals
  <2>3. ASSUME NEW k \in Keys, NEW v \in SetValues, Set(k, v) PROVE TypeOK'
    BY <1>0, <2>1, <2>2, <2>3 DEF Set
  <2>4. ASSUME NEW k \in Keys, NEW v \in SetValues, NEW px \in Px, SetPx(k, v, px) PROVE TypeOK'
    <3>1. PICK p \in Products(px) : timeouts' = [timeouts EXCEPT ![k] = Carry(Sec, Usec + p)]
      BY <2>4 DEF SetPx
    <3>2. Sec \in Nat /\ Usec + p \in Int
      BY <1>0, ClockReads, ProductType
    <3>3. timeouts' \in [Keys -> Timeouts]
      BY <1>0, <3>1, <3>2, CarryType
    <3>4. QED
      BY <2>1, <2>2, <2>4, <3>3 DEF SetPx
  <2>5. ASSUME NEW k \in Keys, Incr(k) PROVE TypeOK'
    <3> DEFINE v == IF Readable(k) THEN AsInt(Stoi(values[k]) + 1) ELSE 1
    <3>1. v \in Vals
      <4>1. CASE Readable(k)
        <5>1. IsInt(values[k]) /\ values[k] \in Vals
          BY <1>0, <2>5, <4>1 DEF Incr, Readable
        <5>2. Stoi(values[k]) \in Int
          BY <5>1, ValuesAssumption DEF IsInt, Stoi, Vals
        <5>3. AsInt(Stoi(values[k]) + 1) \in Int
          BY <5>2, AsIntType
        <5>4. QED
          BY <4>1, <5>3 DEF Vals
      <4>2. CASE ~Readable(k)
        BY <4>2 DEF Vals
      <4>3. QED
        BY <4>1, <4>2
    <3>2. Writes(k, v, Did("int", k, v, 0, {})) /\ UNCHANGED timeouts
      BY <2>5 DEF Incr, Said
    <3> HIDE DEF v
    <3>3. QED
      BY <1>0, <2>1, <3>1, <3>2
  <2>6. QED
    BY <1>5, <2>3, <2>4, <2>5 DEF WriteStep
<1>6. CASE UNCHANGED vars
  BY <1>0, <1>6 DEF vars, TypeOK, Replies
<1>7. QED
  BY <1>1, <1>2, <1>3, <1>4, <1>5, <1>6, NextIs

LEMMA StartsTyped ==
  ASSUME Init
  PROVE  TypeOK /\ LoadInv
<1>1. file \in Files /\ file.kind \in {"absent", "nodb", "cut", "whole"}
  BY EntriesOf DEF Init
<1>2. TypeOK
  <2>1. NoTimeout \in Timeouts
    BY DEF NoTimeout, Timeouts
  <2>2. NothingYet \in Replies
    BY DEF NothingYet, Said, Did, Replies
  <2>3. values \in [Keys -> Vals \cup {NoValue}] /\ timeouts \in [Keys -> Timeouts]
    BY <2>1 DEF Init
  <2>4. 0 \in 0 .. MaxTime /\ 0 \in 0 .. MaxWrites
    BY BoundsAssumption
  <2>5. QED
    BY <1>1, <2>2, <2>3, <2>4 DEF Init, TypeOK, Replies
<1>3. phase = "metadata" => file.kind # "absent" /\ rdb \in ToLoad
  <2>1. phase = "metadata" => file.kind # "absent"
    BY DEF Init
  <2>2. file.kind = "nodb" => rdb = Metadata \o EndMark
    BY DEF Init, FileTokens
  <2>3. file.kind \in {"cut", "whole"} => rdb = Metadata \o Database(file)
    BY DEF Init, FileTokens
  <2>4. QED
    BY <1>1, <2>1, <2>2, <2>3 DEF ToLoad
<1>4. Loaded(0)
  BY DEF Init, Loaded
<1>5. phase # "entries"
  BY DEF Init
<1>6. QED
  BY <1>2, <1>3, <1>4, <1>5 DEF LoadInv

\* The maps, the clock and the replies keep their types: every text, number and stamp of
\* every file is read as it was written, whatever the forms its lengths and numbers take.
THEOREM TypeCorrect == Spec => []TypeOK
<1>1. Init => TypeOK /\ LoadInv
  BY StartsTyped
<1>2. TypeOK /\ LoadInv /\ [Next]_vars => TypeOK' /\ LoadInv'
  BY TypeOKNext, LoadInvNext
<1>3. QED
  BY <1>1, <1>2, PTL DEF Spec

-----------------------------------------------------------------------------
(* The refinement of ExpiringStore.                                        *)

\* A timeout has less than a second of microseconds, and none below zero unless its
\* second has come.
Carried(t) == t.on => t.usec <= UsecPerSec /\ (t.usec >= 0 \/ t.sec <= Sec)
TimeoutInv == \A k \in Keys : Carried(timeouts[k])

LEMMA ProductsGrow ==
  ASSUME NEW a \in Nat, NEW b \in Nat, NEW c \in Nat, a <= b
  PROVE  a * c <= b * c /\ a * c \in Nat /\ b * c \in Nat
<1>1. PICK d \in Nat : b = a + d
  <2>1. b - a \in Nat /\ b = a + (b - a)
    OBVIOUS
  <2>2. QED
    BY <2>1
<1>2. \A x, y, z \in Nat : (x + y) * z = x * z + y * z /\ x * z \in Nat /\ y * z \in Nat
  OBVIOUS
<1>3. b * c = a * c + d * c /\ a * c \in Nat /\ d * c \in Nat
  BY <1>1, <1>2
<1>4. QED
  BY <1>3

\* A timeout has passed only at its instant or after it, and not only up to it.
LEMMA PassedTells ==
  ASSUME now \in Nat, NEW t \in Timeouts, Carried(t), t.on
  PROVE  /\ Instant(t) \in Int
         /\ Passed(t) => Instant(t) <= now
         /\ ~Passed(t) => now <= Instant(t)
<1> DEFINE d == UsecPerSec
           s == t.sec
           u == t.usec
           c == Sec
           m == Usec
<1>1. d \in Nat \ {0} /\ s \in Nat /\ u \in Int /\ u <= d /\ (u >= 0 \/ s <= c)
  BY UnitsArePositive DEF Timeouts, Carried
<1>2. c \in Nat /\ m \in Nat /\ m < d /\ c * d + m = now
  BY ClockReads
<1>3. Instant(t) = s * d + u /\ (Passed(t) <=> s < c \/ (s = c /\ u < m))
  BY DEF Instant, Passed
<1> HIDE DEF d, s, u, c, m
<1>4. s * d \in Nat /\ c * d \in Nat /\ d \in Nat
  BY <1>1, <1>2, ProductsGrow
<1>5. CASE s < c
  <2>1. s + 1 \in Nat /\ s + 1 <= c
    BY <1>1, <1>2, <1>5
  <2>2. (s + 1) * d <= c * d
    BY <1>2, <1>4, <2>1, ProductsGrow
  <2>3. (s + 1) * d = s * d + d
    <3>1. \A x, z \in Nat : (x + 1) * z = x * z + z
      OBVIOUS
    <3>2. QED
      BY <1>1, <1>4, <3>1
  <2>4. s * d + u <= now
    BY <1>1, <1>2, <1>4, <2>2, <2>3
  <2>5. QED
    BY <1>1, <1>3, <1>4, <1>5, <2>4
<1>6. CASE s = c
  BY <1>1, <1>2, <1>3, <1>4, <1>6
<1>7. CASE s > c
  <2>1. c + 1 \in Nat /\ c + 1 <= s
    BY <1>1, <1>2, <1>7
  <2>2. (c + 1) * d <= s * d
    BY <1>1, <1>4, <2>1, ProductsGrow
  <2>3. (c + 1) * d = c * d + d
    <3>1. \A x, z \in Nat : (x + 1) * z = x * z + z
      OBVIOUS
    <3>2. QED
      BY <1>2, <1>4, <3>1
  <2>4. u >= 0
    BY <1>1, <1>2, <1>7
  <2>5. now <= s * d + u /\ s * d + u \in Int
    BY <1>1, <1>2, <1>4, <2>2, <2>3, <2>4
  <2>6. ~Passed(t)
    BY <1>1, <1>2, <1>3, <1>7
  <2>7. QED
    BY <1>3, <2>5, <2>6
<1>8. QED
  BY <1>1, <1>2, <1>5, <1>6, <1>7

\* What a carry makes is carried.
LEMMA CarryCarries ==
  ASSUME now \in Nat, NEW u \in Int
  PROVE  Carried(Carry(Sec, u))
<1> DEFINE d == UsecPerSec
           c == Sec
<1>1. d \in Nat \ {0} /\ c \in Nat
  BY UnitsArePositive, ClockReads
<1>2. Carry(c, u) = IF u > d THEN Timeval(c + u \div d, u % d) ELSE Timeval(c, u)
  BY DEF Carry
<1>3. \A t : Carried(t) <=> (t.on => t.usec <= d /\ (t.usec >= 0 \/ t.sec <= c))
  BY DEF Carried
<1> HIDE DEF d, c
<1>4. u % d \in Nat /\ u % d <= d
  BY <1>1
<1>5. CASE u > d
  <2>1. Carry(c, u).usec = u % d
    BY <1>2, <1>5 DEF Timeval
  <2>2. QED
    BY <1>3, <1>4, <2>1 DEF c
<1>6. CASE ~(u > d)
  <2>1. Carry(c, u).usec = u /\ Carry(c, u).sec = c
    BY <1>2, <1>6 DEF Timeval
  <2>2. u <= d /\ c <= c
    BY <1>1, <1>6
  <2>3. QED
    BY <1>3, <2>1, <2>2 DEF c
<1>7. QED
  BY <1>5, <1>6

LEMMA StampCarried ==
  ASSUME NEW at \in Nat
  PROVE  /\ Carried(StampTimeout(at)) /\ StampTimeout(at).on
         /\ Instant(StampTimeout(at)) = at * UsecPerMs
<1> DEFINE a == at \div MsPerSec
           b == at % MsPerSec
           m == MsPerSec
           u == UsecPerMs
<1>1. m \in Nat \ {0} /\ u \in Nat \ {0}
  BY UnitsAssumption
<1>2. a \in Nat /\ b \in Nat /\ b <= m /\ a * m + b = at
  <2>1. m \in Nat \ {0} /\ at \in Int
    BY <1>1
  <2>2. at \div m \in Int /\ at % m \in 0 .. m - 1 /\ (at \div m) * m + (at % m) = at
    BY <2>1, Division
  <2>3. at \div m \in Nat
    BY <1>1
  <2>4. QED
    BY <1>1, <2>2, <2>3
<1>3. StampTimeout(at) = Timeval(a, b * u) /\ UsecPerSec = u * m
  BY DEF StampTimeout, UsecPerSec
<1> HIDE DEF a, b, m, u
<1>4. b * u <= m * u /\ b * u \in Nat
  BY <1>1, <1>2, ProductsGrow
<1>5. m * u = u * m
  BY <1>1
<1>6. Carried(StampTimeout(at)) /\ StampTimeout(at).on
  BY <1>3, <1>4, <1>5 DEF Carried, Timeval
<1>7. a * (u * m) + b * u = at * u
  <2>1. \A w, x, y, z \in Nat : w * x + y = z => w * (x * u) + y * u = z * u
    <3>1. \A w, x, y, z, v \in Nat : w * x + y = z => w * (x * v) + y * v = z * v
      OBVIOUS
    <3>2. QED
      BY <1>1, <3>1
  <2>2. QED
    BY <1>1, <1>2, <1>5, <2>1
<1>8. Instant(StampTimeout(at)) = a * (u * m) + b * u
  BY <1>3 DEF Instant, Timeval
<1>9. QED
  BY <1>6, <1>7, <1>8 DEF u

LEMMA TimeoutInvNext ==
  ASSUME TypeOK, LoadInv, TimeoutInv, [Next]_vars
  PROVE  TimeoutInv'
<1>0. file \in Files /\ timeouts \in [Keys -> Timeouts] /\ now \in Nat
  BY DEF TypeOK
<1>1. CASE UNCHANGED <<timeouts, now>>
  BY <1>1 DEF TimeoutInv, Carried, Sec
<1>2. CASE LoadEntry
  <2>1. /\ now' = now
        /\ UNCHANGED timeouts \/ \E m \in 1 .. Len(file.entries) : Loads(m)
    BY <1>0, <1>2, LoadEntryCases
  <2>2. ASSUME NEW m \in 1 .. Len(file.entries), Loads(m) PROVE TimeoutInv'
    <3> DEFINE e == file.entries[Len(file.entries) - m + 1]
    <3>1. /\ IsEntry(e)
          /\ timeouts' = IF e.unit = "ms" THEN [timeouts EXCEPT ![e.key] = StampTimeout(e.at)]
                         ELSE timeouts
      BY <2>2 DEF Loads
    <3> HIDE DEF e
    <3>2. Carried(StampTimeout(e.at)) /\ e.key \in Keys
      BY <3>1, StampCarried DEF IsEntry
    <3>3. \A k \in Keys : Carried(timeouts'[k])
      BY <1>0, <3>1, <3>2 DEF TimeoutInv
    <3>4. QED
      BY <2>1, <3>3 DEF TimeoutInv, Carried, Sec
  <2>3. QED
    BY <1>1, <2>1, <2>2
<1>3. CASE Tick
  <2>1. timeouts' = timeouts /\ now' = now + 1
    BY <1>3 DEF Tick
  <2>2. Sec \in Nat /\ Sec' \in Nat /\ Sec <= Sec'
    <3>1. UsecPerSec \in Nat \ {0}
      BY UnitsArePositive
    <3> DEFINE d == UsecPerSec
    <3> HIDE DEF d
    <3>2. d \in Nat \ {0}
      BY <3>1 DEF d
    <3>3. now \div d <= (now + 1) \div d /\ now \div d \in Nat /\ (now + 1) \div d \in Nat
      BY <1>0, <3>2
    <3>4. Sec = now \div d /\ Sec' = (now + 1) \div d
      BY <2>1 DEF Sec, d, UsecPerSec
    <3>5. QED
      BY <3>3, <3>4
  <2>3. ASSUME NEW k \in Keys PROVE Carried(timeouts[k])'
    <3> DEFINE t == timeouts[k]
    <3>1. t \in Timeouts /\ (t.on => t.usec <= UsecPerSec /\ (t.usec >= 0 \/ t.sec <= Sec)) /\ t' = t
      BY <1>0, <2>1 DEF TimeoutInv, Carried
    <3>2. t.sec \in Nat
      BY <3>1 DEF Timeouts
    <3>3. t.on => t.usec <= UsecPerSec /\ (t.usec >= 0 \/ t.sec <= Sec')
      BY <2>2, <3>1, <3>2
    <3>4. UsecPerSec' = UsecPerSec
      BY DEF UsecPerSec
    <3>5. QED
      BY <3>1, <3>3, <3>4 DEF Carried
  <2>4. QED
    BY <2>3 DEF TimeoutInv
<1>4. ASSUME NEW k \in Keys, NEW v \in SetValues, NEW px \in Px, SetPx(k, v, px) PROVE TimeoutInv'
  <2>1. PICK p \in Products(px) : timeouts' = [timeouts EXCEPT ![k] = Carry(Sec, Usec + p)]
    BY <1>4 DEF SetPx
  <2>2. Usec + p \in Int
    BY <1>0, ClockReads, ProductType
  <2>3. Carried(Carry(Sec, Usec + p))
    BY <1>0, <2>2, CarryCarries
  <2>4. \A j \in Keys : Carried(timeouts'[j])
    BY <1>0, <2>1, <2>3 DEF TimeoutInv
  <2>5. now' = now
    BY <1>4 DEF SetPx, Writes
  <2>6. QED
    BY <2>4, <2>5 DEF TimeoutInv, Carried, Sec
<1>5. CASE WriteStep /\ UNCHANGED timeouts
  BY <1>1, <1>5, WriteStepIs
<1>6. CASE WriteStep
  BY <1>4, <1>5, <1>6 DEF WriteStep, Set, Incr
<1>7. CASE LoadMetadata
  BY <1>1, <1>7, LoadMetadataIs
<1>8. CASE ReadStep
  BY <1>1, <1>8, ReadStepIs
<1>9. CASE UNCHANGED vars
  BY <1>1, <1>9 DEF vars
<1>10. QED
  BY <1>2, <1>3, <1>6, <1>7, <1>8, <1>9, NextIs

-----------------------------------------------------------------------------
(* The steps of the load are none of the store.                            *)

LEMMA NoTimeoutInstant == Instant(NoTimeout) = 0 /\ ~NoTimeout.on
<1>1. UsecPerSec \in Int
  BY UnitsArePositive
<1>2. 0 * UsecPerSec + 0 = 0
  BY <1>1
<1>3. QED
  BY <1>2 DEF Instant, NoTimeout

\* With all its entries in the maps, the file says what they do.
LEMMA FileLoaded ==
  ASSUME file \in Files, Loaded(Len(file.entries)), NEW k \in Keys
  PROVE  /\ FileValue(k) = values[k]
         /\ FileDeadline(k) = [on |-> timeouts[k].on, at |-> Instant(timeouts[k])]
<1> DEFINE n == Len(file.entries)
           es == file.entries
<1>1. /\ DOMAIN es = 1 .. n /\ \A i \in 1 .. n : IsEntry(es[i])
      /\ \A i, j \in 1 .. n : es[i].key = es[j].key => i = j
  BY EntriesOf
<1>2. EntryOf(k) = {e \in {es[i] : i \in 1 .. n} : e.key = k}
  BY <1>1 DEF EntryOf
<1>3. CASE \A i \in 1 .. n : es[i].key # k
  <2>1. EntryOf(k) = {}
    BY <1>2, <1>3
  <2>2. FileValue(k) = NoValue /\ FileDeadline(k) = [on |-> FALSE, at |-> 0]
    BY <2>1 DEF FileValue, FileDeadline
  <2>3. values[k] = NoValue /\ timeouts[k] = NoTimeout
    BY <1>3 DEF Loaded
  <2>4. NoTimeout.on = FALSE
    BY DEF NoTimeout
  <2>5. QED
    BY <2>2, <2>3, <2>4, NoTimeoutInstant
<1>4. ASSUME NEW i \in 1 .. n, es[i].key = k
      PROVE  /\ FileValue(k) = values[k]
             /\ FileDeadline(k) = [on |-> timeouts[k].on, at |-> Instant(timeouts[k])]
  <2> DEFINE e == es[i]
  <2>1. EntryOf(k) = {e}
    BY <1>1, <1>2, <1>4
  <2>2. values[k] = e.val /\ timeouts[k] = EntryTimeout(e) /\ IsEntry(e)
    BY <1>1, <1>4 DEF Loaded
  <2> HIDE DEF e
  <2>3. (CHOOSE x \in {e} : TRUE) = e
    OBVIOUS
  <2>4. FileValue(k) = e.val
    BY <2>1, <2>3 DEF FileValue
  <2>5. CASE e.unit = "ms"
    <3>1. {x \in {e} : x.unit = "ms"} = {e}
      BY <2>5
    <3>2. FileDeadline(k) = [on |-> TRUE, at |-> e.at * UsecPerMs]
      BY <2>1, <2>3, <3>1 DEF FileDeadline
    <3>3. timeouts[k] = StampTimeout(e.at) /\ e.at \in Nat
      BY <2>2, <2>5 DEF EntryTimeout, IsEntry
    <3>4. timeouts[k].on = TRUE
      BY <3>3 DEF StampTimeout, Timeval
    <3>5. Instant(timeouts[k]) = e.at * UsecPerMs
      BY <3>3, StampCarried
    <3>6. QED
      BY <2>2, <2>4, <3>2, <3>4, <3>5
  <2>6. CASE e.unit # "ms"
    <3>1. {x \in {e} : x.unit = "ms"} = {}
      BY <2>6
    <3>2. FileDeadline(k) = [on |-> FALSE, at |-> 0]
      BY <2>1, <3>1 DEF FileDeadline
    <3>3. timeouts[k] = NoTimeout /\ NoTimeout.on = FALSE
      BY <2>2, <2>6 DEF EntryTimeout, NoTimeout
    <3>4. QED
      BY <2>2, <2>4, <3>2, <3>3, NoTimeoutInstant
  <2>7. QED
    BY <2>5, <2>6
<1>5. QED
  BY <1>3, <1>4

\* What the store sees of a key.
SeenValue(k) == values[k]
SeenDeadline(k) == [on |-> timeouts[k].on, at |-> Instant(timeouts[k])]

LEMMA SeenLoading ==
  ASSUME Loading
  PROVE  Dict = [k \in Keys |-> FileValue(k)] /\ Deadline = [k \in Keys |-> FileDeadline(k)]
BY DEF Dict, Deadline

LEMMA SeenReady ==
  ASSUME ~Loading
  PROVE  Dict = [k \in Keys |-> SeenValue(k)] /\ Deadline = [k \in Keys |-> SeenDeadline(k)]
BY DEF Dict, Deadline, SeenValue, SeenDeadline

LEMMA FileStays ==
  ASSUME file' = file, NEW k \in Keys
  PROVE  FileValue(k)' = FileValue(k) /\ FileDeadline(k)' = FileDeadline(k)
BY DEF FileValue, FileDeadline, EntryOf

LEMMA LoadStutters ==
  ASSUME TypeOK, LoadInv, LoadMetadata \/ LoadEntry
  PROVE  UNCHANGED <<Dict, Deadline, now, last>>
<1>0. file \in Files
  BY DEF TypeOK
<1>1. Loading /\ UNCHANGED <<file, now, last>>
  BY <1>0, LoadMetadataCases, LoadEntryCases DEF Loading
<1>2. CASE Loading'
  <2>1. Dict' = [k \in Keys |-> FileValue(k)'] /\ Deadline' = [k \in Keys |-> FileDeadline(k)']
    BY <1>2 DEF Dict, Deadline
  <2>2. QED
    BY <1>1, <2>1, SeenLoading, FileStays
<1>3. CASE ~Loading'
  <2>1. Loaded(Len(file.entries)) /\ UNCHANGED <<values, timeouts>>
    <3>1. CASE LoadMetadata
      <4>1. UNCHANGED <<values, timeouts>> /\ Loaded(0) /\ file.entries = <<>>
        BY <1>0, <1>3, <3>1, LoadMetadataCases DEF Loading
      <4>2. Len(file.entries) = 0
        BY <4>1
      <4>3. QED
        BY <4>1, <4>2
    <3>2. CASE LoadEntry
      BY <1>0, <1>3, <3>2, LoadEntryCases DEF Loading, Loads
    <3>3. QED
      BY <3>1, <3>2
  <2>2. /\ Dict' = [k \in Keys |-> values'[k]]
        /\ Deadline' = [k \in Keys |-> [on |-> timeouts'[k].on, at |-> Instant(timeouts'[k])]]
    BY <1>3 DEF Dict, Deadline, Instant, UsecPerSec
  <2>3. /\ Dict = [k \in Keys |-> values[k]]
        /\ Deadline = [k \in Keys |-> [on |-> timeouts[k].on, at |-> Instant(timeouts[k])]]
    BY <1>0, <1>1, <2>1, SeenLoading, FileLoaded
  <2>4. QED
    BY <1>1, <2>1, <2>2, <2>3
<1>4. QED
  BY <1>2, <1>3

-----------------------------------------------------------------------------
(* The commands are steps of the store.                                    *)

\* A key that is read may be, one that is not may be missed.
LEMMA ReadableTells ==
  ASSUME TypeOK, TimeoutInv, phase = "ready", NEW k \in Keys
  PROVE  /\ Dict[k] = values[k]
         /\ Readable(k) => Store!MayRead(k)
         /\ ~Readable(k) => Store!MayMiss(k)
<1> DEFINE t == timeouts[k]
<1>1. t \in Timeouts /\ Carried(t) /\ now \in Nat
  BY DEF TypeOK, TimeoutInv
<1>2. ~Loading
  BY DEF Loading
<1>3. Dict[k] = values[k] /\ Deadline[k].on = t.on /\ Deadline[k].at = Instant(t)
  BY <1>2, SeenReady DEF SeenValue, SeenDeadline
<1>4. Readable(k) <=> values[k] # NoValue /\ ~Passed(t)
  BY DEF Readable
<1> HIDE DEF t
<1>5. t.on => /\ Instant(t) \in Int
              /\ Passed(t) => Instant(t) <= now
              /\ ~Passed(t) => now <= Instant(t)
  BY <1>1, PassedTells
<1>6. Passed(t) => t.on
  BY DEF Passed
<1>7. Readable(k) => Store!MayRead(k)
  BY <1>3, <1>4, <1>5 DEF Store!MayRead
<1>8. ~Readable(k) => Store!MayMiss(k)
  <2>1. CASE Passed(t)
    <3>1. Instant(t) <= now /\ Instant(t) \in Int
      BY <1>5, <1>6, <2>1
    <3>2. now >= Instant(t)
      BY <1>1, <3>1
    <3>3. QED
      BY <1>3, <1>6, <2>1, <3>2 DEF Store!MayMiss
  <2>2. CASE ~Passed(t)
    BY <1>3, <1>4, <2>2 DEF Store!MayMiss
  <2>3. QED
    BY <2>1, <2>2
<1>9. QED
  BY <1>3, <1>7, <1>8

LEMMA ReadsKeep ==
  ASSUME UNCHANGED <<file, phase, values, timeouts>>
  PROVE  UNCHANGED <<Dict, Deadline>>
BY DEF Dict, Deadline, Loading, FileValue, FileDeadline, EntryOf, Instant, UsecPerSec

LEMMA NumberIsStoi == \A v : Store!Number(v) = Stoi(v)
BY DEF Store!Number, Stoi

LEMMA ReadStepImplements ==
  ASSUME TypeOK, TimeoutInv, ReadStep
  PROVE  Store!StoreNext
<1>1. phase = "ready" /\ UNCHANGED <<file, phase, values, timeouts, now>>
  BY ReadStepIs
<1>2. UNCHANGED <<Dict, Deadline, now>>
  BY <1>1, ReadsKeep
<1>3. \A k \in Keys : /\ Dict[k] = values[k]
                      /\ Readable(k) => Store!MayRead(k)
                      /\ ~Readable(k) => Store!MayMiss(k)
  BY <1>1, ReadableTells
<1>4. ASSUME NEW k \in Keys, Get(k) PROVE Store!Get(k)
  <2>1. last' = IF Readable(k) THEN Said("bulk", k, values[k]) ELSE Said("nil", k, NoValue)
    BY <1>4 DEF Get, Reads
  <2>2. /\ Readable(k) => last' = Store!Said("bulk", k, Dict[k])
        /\ ~Readable(k) => last' = Store!Said("nil", k, NoValue)
    BY <1>3, <2>1 DEF Said, Did, Store!Said, Store!Did
  <2>3. QED
    BY <1>2, <1>3, <2>2 DEF Store!Get
<1>5. ASSUME NEW k \in Keys, IncrError(k) PROVE Store!Refuse(k)
  <2>1. Readable(k) /\ ~IsInt(values[k]) /\ last' = Said("error", k, NoValue)
    BY <1>5 DEF IncrError, Reads
  <2>2. Store!Number(Dict[k]) = NoValue \/ ~Store!FitsInt(Store!Number(Dict[k]))
    BY <1>3, <2>1, NumberIsStoi DEF IsInt, FitsInt, Store!FitsInt
  <2>3. last' = Store!Said("error", k, NoValue)
    BY <2>1 DEF Said, Did, Store!Said, Store!Did
  <2>4. QED
    BY <1>2, <1>3, <2>1, <2>2, <2>3 DEF Store!Refuse
<1>6. ASSUME NEW k \in Keys, Type(k) PROVE Store!TypeOf(k)
  <2>1. last' = Said(IF Readable(k) THEN "string" ELSE "notstring", k, NoValue)
    BY <1>6 DEF Type, Reads
  <2>2. /\ Readable(k) => last' = Store!Said("string", k, NoValue)
        /\ ~Readable(k) => last' = Store!Said("notstring", k, NoValue)
    BY <2>1 DEF Said, Did, Store!Said, Store!Did
  <2>3. QED
    BY <1>2, <1>3, <2>2 DEF Store!TypeOf
<1>7. ASSUME NEW p \in DOMAIN Matches, KeysLike(p) PROVE Store!List(p)
  <2>1. last' = Did("keys", NoValue, NoValue, 0, {k \in Matches[p] : values[k] # NoValue})
    BY <1>7 DEF KeysLike, Reads
  <2>2. \A k \in Matches[p] : Dict[k] = values[k]
    BY <1>3, PatternAssumption
  <2>3. {k \in Matches[p] : values[k] # NoValue} = {k \in Matches[p] : Dict[k] # NoValue}
    BY <2>2
  <2>4. last' = Store!Did("keys", NoValue, NoValue, 0, {k \in Matches[p] : Dict[k] # NoValue})
    BY <2>1, <2>3 DEF Did, Store!Did
  <2>5. QED
    BY <1>2, <2>4 DEF Store!List
<1>8. QED
  BY <1>4, <1>5, <1>6, <1>7 DEF ReadStep, Store!StoreNext

\* A write, seen through the maps.
LEMMA WriteSeen ==
  ASSUME TypeOK, phase = "ready", phase' = "ready", NEW k \in Keys, NEW v,
         values' = [values EXCEPT ![k] = v]
  PROVE  /\ Dict' = [Dict EXCEPT ![k] = v]
         /\ Dict'[k] = v /\ \A j \in Keys \ {k} : Dict'[j] = Dict[j]
<1>1. /\ Dict = [j \in Keys |-> values[j]] /\ Dict' = [j \in Keys |-> values'[j]]
  BY DEF Dict, Loading
<1>2. values = [j \in Keys |-> values[j]]
  BY DEF TypeOK
<1>3. values'[k] = v /\ \A j \in Keys \ {k} : values'[j] = values[j]
  BY <1>2
<1>4. [Dict EXCEPT ![k] = v] = [j \in Keys |-> IF j = k THEN v ELSE values[j]]
  BY <1>1
<1>5. Dict' = [j \in Keys |-> IF j = k THEN v ELSE values[j]]
  BY <1>1, <1>3
<1>6. QED
  BY <1>1, <1>3, <1>4, <1>5

LEMMA DeadlineSeen ==
  ASSUME phase = "ready", phase' = "ready", NEW j \in Keys
  PROVE  /\ Deadline[j] = [on |-> timeouts[j].on, at |-> Instant(timeouts[j])]
         /\ Deadline'[j] = [on |-> timeouts'[j].on, at |-> Instant(timeouts'[j])]
BY DEF Deadline, Loading, Instant, UsecPerSec

\* An int keeps the numbers that fit it.
LEMMA AsIntKeeps ==
  ASSUME NEW n \in Int, FitsInt(n)
  PROVE  AsInt(n) = n
<1> DEFINE d == 2 * MaxInt + 2
           m == n + MaxInt + 1
<1>1. MaxInt \in Nat
  BY UnitsAssumption
<1>2. d \in Nat \ {0} /\ m \in Nat /\ m < d
  BY <1>1 DEF FitsInt
<1>3. AsInt(n) = (m % d) - (MaxInt + 1)
  BY DEF AsInt
<1> HIDE DEF d, m
<1>4. m % d = m
  BY <1>2
<1>5. QED
  BY <1>1, <1>3, <1>4 DEF m

LEMMA SetImplements ==
  ASSUME TypeOK, NEW k \in Keys, NEW v \in SetValues, Set(k, v)
  PROVE  Store!Put(k, last'.val, last'.px)
<1>1. /\ phase = "ready" /\ phase' = "ready" /\ values' = [values EXCEPT ![k] = v]
      /\ UNCHANGED <<timeouts, now>> /\ last' = Did("ok", k, v, 0, {})
  BY DEF Set, Writes
<1>2. last'.val = v /\ last'.px = 0 /\ last' = Store!Did("ok", k, v, 0, {})
  BY <1>1 DEF Did, Store!Did
<1>3. Dict' = [Dict EXCEPT ![k] = v]
  BY <1>1, WriteSeen
<1>4. \A j \in Keys : Deadline'[j] = Deadline[j]
  BY <1>1, DeadlineSeen
<1>5. QED
  BY <1>1, <1>2, <1>3, <1>4 DEF Store!Put

LEMMA SetPxImplements ==
  ASSUME TypeOK, NEW k \in Keys, NEW v \in SetValues, NEW px \in Px, SetPx(k, v, px)
  PROVE  Store!Put(k, last'.val, last'.px)
<1> DEFINE n == px * UsecPerMs
<1>1. /\ phase = "ready" /\ phase' = "ready" /\ values' = [values EXCEPT ![k] = v]
      /\ now' = now /\ last' = Did("ok", k, v, px, {})
  BY DEF SetPx, Writes
<1>2. last'.val = v /\ last'.px = px /\ last' = Store!Did("ok", k, v, px, {})
  BY <1>1 DEF Did, Store!Did
<1>3. Dict' = [Dict EXCEPT ![k] = v]
  BY <1>1, WriteSeen
<1>4. PICK p \in Products(px) : timeouts' = [timeouts EXCEPT ![k] = Carry(Sec, Usec + p)]
  BY DEF SetPx
<1>5. /\ timeouts'[k] = Carry(Sec, Usec + p)
      /\ \A j \in Keys : j # k => timeouts'[j] = timeouts[j]
  BY <1>4 DEF TypeOK
<1>6. now \in Nat /\ p \in Int /\ n \in Int
  BY ProductType, PxAssumption, UnitsAssumption DEF TypeOK
<1>7. Sec \in Nat /\ Usec + p \in Int /\ Usec \in Int /\ Sec * UsecPerSec + Usec = now
  BY <1>6, ClockReads
<1>8. timeouts'[k].on /\ Instant(timeouts'[k]) = Sec * UsecPerSec + (Usec + p)
  BY <1>5, <1>7, CarryType, CarryKeepsInstant
<1>8a. timeouts'[k].on = TRUE
  BY <1>5 DEF Carry, Timeval
<1>9. FitsInt(n) => Deadline'[k] = [on |-> TRUE, at |-> now + n]
  <2>1. FitsInt(n) => p = n
    BY <1>6, AsIntKeeps DEF Products
  <2>2. Sec * UsecPerSec \in Int
    BY <1>7, UnitsArePositive
  <2>3. Instant(timeouts'[k]) = now + p
    BY <1>6, <1>7, <1>8, <2>2
  <2>4. Deadline'[k] = [on |-> timeouts'[k].on, at |-> Instant(timeouts'[k])]
    BY <1>1, DeadlineSeen
  <2>5. QED
    BY <1>8a, <2>1, <2>3, <2>4
<1>10. Deadline'[k].on
  <2>1. Deadline'[k] = [on |-> timeouts'[k].on, at |-> Instant(timeouts'[k])]
    BY <1>1, DeadlineSeen
  <2>2. QED
    BY <1>8a, <2>1
<1>11. \A j \in Keys : j # k => Deadline'[j] = Deadline[j]
  BY <1>1, <1>5, DeadlineSeen
<1>12. px # 0
  BY PxAssumption
<1>13. ASSUME NEW j \in Keys
       PROVE  IF j = k /\ px # 0
              THEN /\ Deadline'[k].on
                   /\ Store!FitsInt(px * UsecPerMs) => Deadline'[k] = Store!Until(now + px * UsecPerMs)
              ELSE Deadline'[j] = Deadline[j]
  BY <1>9, <1>10, <1>11, <1>12 DEF Store!FitsInt, FitsInt, Store!Until
<1>14. QED
  BY <1>1, <1>2, <1>3, <1>13 DEF Store!Put

LEMMA IncrImplements ==
  ASSUME TypeOK, TimeoutInv, NEW k \in Keys, Incr(k)
  PROVE  Store!Count(k)
<1> DEFINE v == IF Readable(k) THEN AsInt(Stoi(values[k]) + 1) ELSE 1
           n == Stoi(values[k])
<1>1. /\ phase = "ready" /\ phase' = "ready" /\ values' = [values EXCEPT ![k] = v]
      /\ UNCHANGED <<timeouts, now>> /\ last' = Said("int", k, v)
      /\ Readable(k) => IsInt(values[k])
  BY DEF Incr, Writes
<1>2. /\ Dict[k] = values[k]
      /\ Readable(k) => Store!MayRead(k)
      /\ ~Readable(k) => Store!MayMiss(k)
  BY <1>1, ReadableTells
<1> HIDE DEF v
<1>3. Dict'[k] = v /\ \A j \in Keys \ {k} : Dict'[j] = Dict[j]
  BY <1>1, WriteSeen
<1>4. Deadline' = Deadline
  BY <1>1 DEF Deadline, Loading, Instant, UsecPerSec
<1>5. last' = Store!Said("int", k, Dict'[k])
  BY <1>1, <1>3 DEF Said, Did, Store!Said, Store!Did
<1>6. CASE Readable(k)
  <2>1. v = AsInt(n + 1) /\ n # NoValue /\ FitsInt(n)
    BY <1>1, <1>6 DEF v, IsInt
  <2>2. Store!Number(Dict[k]) = n
    BY <1>2, NumberIsStoi
  <2> HIDE DEF n
  <2>3. n < MaxInt => v = n + 1
    <3>1. MaxInt \in Nat
      BY UnitsAssumption
    <3>2. n \in Int /\ (n < MaxInt => FitsInt(n + 1))
      BY <2>1, <3>1 DEF FitsInt
    <3>3. n + 1 \in Int
      BY <3>2
    <3>4. QED
      BY <2>1, <3>2, <3>3, AsIntKeeps
  <2>4. Store!FitsInt(n)
    BY <2>1 DEF FitsInt, Store!FitsInt
  <2>5. QED
    BY <1>1, <1>2, <1>3, <1>4, <1>5, <1>6, <2>1, <2>2, <2>3, <2>4 DEF Store!Count
<1>7. CASE ~Readable(k)
  <2>1. v = 1
    BY <1>7 DEF v
  <2>2. QED
    BY <1>1, <1>2, <1>3, <1>4, <1>5, <1>7, <2>1 DEF Store!Count
<1>8. QED
  BY <1>6, <1>7

LEMMA WriteStepImplements ==
  ASSUME TypeOK, TimeoutInv, WriteStep
  PROVE  Store!StoreNext
<1>1. ASSUME NEW k \in Keys, NEW v \in SetValues, Set(k, v) PROVE Store!StoreNext
  BY <1>1, SetImplements DEF Store!StoreNext
<1>2. ASSUME NEW k \in Keys, NEW v \in SetValues, NEW px \in Px, SetPx(k, v, px)
      PROVE  Store!StoreNext
  BY <1>2, SetPxImplements DEF Store!StoreNext
<1>3. ASSUME NEW k \in Keys, Incr(k) PROVE Store!StoreNext
  BY <1>3, IncrImplements DEF Store!StoreNext
<1>4. QED
  BY <1>1, <1>2, <1>3 DEF WriteStep

LEMMA TickPasses ==
  ASSUME TypeOK, Tick
  PROVE  Store!Pass
<1>1. now' = now + 1 /\ UNCHANGED <<file, phase, values, timeouts, last>> /\ now \in Nat
  BY DEF Tick, TypeOK
<1>2. now' > now
  BY <1>1
<1>3. UNCHANGED <<Dict, Deadline>>
  BY <1>1, ReadsKeep
<1>4. QED
  BY <1>1, <1>2, <1>3 DEF Store!Pass

LEMMA StepImplements ==
  ASSUME TypeOK, LoadInv, TimeoutInv, [Next]_vars
  PROVE  [Store!StoreNext]_(Store!sVars)
<1>1. CASE LoadMetadata \/ LoadEntry
  BY <1>1, LoadStutters DEF Store!sVars
<1>2. CASE Tick
  BY <1>2, TickPasses DEF Store!StoreNext
<1>3. CASE ReadStep
  BY <1>3, ReadStepImplements
<1>4. CASE WriteStep
  BY <1>4, WriteStepImplements
<1>5. CASE UNCHANGED vars
  <2>1. UNCHANGED <<Dict, Deadline, now, last>>
    BY <1>5, ReadsKeep DEF vars
  <2>2. QED
    BY <2>1 DEF Store!sVars
<1>6. QED
  BY <1>1, <1>2, <1>3, <1>4, <1>5, NextIs

LEMMA StartsWithoutTimeouts ==
  ASSUME Init
  PROVE  TimeoutInv /\ Store!StoreInit
<1>1. TimeoutInv
  BY DEF Init, TimeoutInv, Carried, NoTimeout
<1>2. Store!StoreInit
  BY DEF Init, NothingYet, Said, Did, Store!StoreInit, Store!NothingYet, Store!Said, Store!Did
<1>3. QED
  BY <1>1, <1>2

\* The two maps and the timevals are a store whose keys are read up to a deadline on one
\* clock, and the load of any file makes the store that was saved in it.
THEOREM StoreImplementsExpiringStore == Spec => ImplementsStore
<1>1. Init => TypeOK /\ LoadInv /\ TimeoutInv /\ Store!StoreInit
  BY StartsTyped, StartsWithoutTimeouts
<1>2. TypeOK /\ LoadInv /\ TimeoutInv /\ [Next]_vars => TypeOK' /\ LoadInv' /\ TimeoutInv'
  BY TypeOKNext, LoadInvNext, TimeoutInvNext
<1>3. TypeOK /\ LoadInv /\ TimeoutInv /\ [Next]_vars => [Store!StoreNext]_(Store!sVars)
  BY StepImplements
<1>4. QED
  BY <1>1, <1>2, <1>3, PTL DEF Spec, ImplementsStore, Store!StoreSpec
=============================================================================
