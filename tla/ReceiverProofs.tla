--------------------------- MODULE ReceiverProofs ---------------------------
(***************************************************************************)
(* Theorems about Receiver: the chain of reads, the bytes of the stream    *)
(* and the promise of Inbox.  The first part has the lemmas about the      *)
(* operators of Codec and about sequences, the second part the invariants. *)
(***************************************************************************)
EXTENDS Receiver, SequenceTheorems, WellFoundedInduction, TLAPS

-----------------------------------------------------------------------------
(* Induction and recursion over numbers.                                   *)

(* A set of numbers has a smallest element. *)
LEMMA Smallest ==
  ASSUME NEW T, T \subseteq Nat, T # {}
  PROVE  \E x \in T : \A y \in T : x <= y
<1>1. PICK x \in T : \A y \in T : <<y, x>> \notin OpToRel(<, Nat)
  BY NatLessThanWellFounded, WFMin
<1>2. \A y \in T : y < x => <<y, x>> \in OpToRel(<, Nat)
  BY DEF OpToRel
<1>3. \A y \in T : ~ (y < x)
  BY <1>1, <1>2
<1>4. \A y \in T : x <= y
  BY <1>3
<1> QED BY <1>4

(* A set with zero and the successor of each of its elements has all. *)
LEMMA SetInduction ==
  ASSUME NEW S, 0 \in S, \A n \in Nat : n \in S => n + 1 \in S
  PROVE  Nat \subseteq S
<1> SUFFICES ASSUME Nat \ S # {} PROVE FALSE
  OBVIOUS
<1>1. PICK x \in Nat \ S : \A y \in Nat \ S : x <= y
  BY Smallest
<1>2. x # 0 /\ x - 1 \in Nat
  BY <1>1
<1>3. x - 1 \in S
  BY <1>1, <1>2
<1> QED BY <1>1, <1>2, <1>3

(* A function from 0 .. n to V can be defined by a start and a step. *)
Recurs(f, V, a, step, n) ==
  /\ f \in [0 .. n -> V]
  /\ f[0] = a
  /\ \A i \in 1 .. n : f[i] = step[i][f[i - 1]]

LEMMA Recursion ==
  ASSUME NEW V, NEW a \in V, NEW step \in [Nat -> [V -> V]], NEW n \in Nat
  PROVE  \E f : Recurs(f, V, a, step, n)
<1> USE DEF Recurs
<1> DEFINE Defined(m, f) == Recurs(f, V, a, step, m)
           S == {m \in Nat : \E f : Defined(m, f)}
<1>1. 0 \in S
  <2>1. Defined(0, [i \in 0 .. 0 |-> a])
    OBVIOUS
  <2> QED BY <2>1
<1>2. ASSUME NEW m \in Nat, m \in S PROVE m + 1 \in S
  <2>1. PICK f : Defined(m, f)
    BY <1>2
  <2> DEFINE g == [i \in 0 .. m + 1 |->
                     IF i = m + 1 THEN step[m + 1][f[m]] ELSE f[i]]
  <2>2. g \in [0 .. m + 1 -> V]
    BY <2>1
  <2>3. Defined(m + 1, g)
    <3>1. g[0] = a
      BY <2>1
    <3>2. ASSUME NEW i \in 1 .. m + 1
          PROVE  g[i] = step[i][g[i - 1]]
      <4>1. CASE i = m + 1
        BY <4>1, <2>1
      <4>2. CASE i \in 1 .. m
        BY <4>2, <2>1
      <4> QED BY <4>1, <4>2
    <3> QED BY <2>2, <3>1, <3>2
  <2> HIDE DEF g, Defined
  <2> QED BY <2>3
<1>3. n \in S
  <2> HIDE DEF S
  <2> QED BY <1>1, <1>2, SetInduction
<1> QED BY <1>3

-----------------------------------------------------------------------------
(* Words of bytes.                                                         *)

(* The equations of Place. *)
LEMMA PlaceFacts ==
  /\ Place \in [0 .. WordBytes -> Nat \ {0}]
  /\ Place[0] = 1
  /\ \A k \in 1 .. WordBytes : Place[k] = Base * Place[k - 1]
<1> DEFINE step == [i \in Nat |-> [x \in Nat |-> Base * x]]
<1>0. Base \in Nat \ {0} /\ WordBytes \in Nat
  BY CodecAssumption
<1>1. /\ step \in [Nat -> [Nat -> Nat]]
      /\ \A i, x \in Nat : step[i][x] = Base * x
  BY <1>0
<1>2. PICK f : Recurs(f, Nat, 1, step, WordBytes)
  <2>1. 1 \in Nat
    OBVIOUS
  <2> HIDE DEF step
  <2> QED BY <1>0, <1>1, <2>1, Recursion, Zenon
<1>3. f = [k \in 0 .. WordBytes |-> IF k = 0 THEN 1 ELSE Base * f[k - 1]]
  <2> HIDE DEF step
  <2>1. ASSUME NEW k \in 0 .. WordBytes
        PROVE  f[k] = IF k = 0 THEN 1 ELSE Base * f[k - 1]
    <3>1. k # 0 => k - 1 \in 0 .. WordBytes /\ k \in 1 .. WordBytes
      BY <1>0
    <3>2. k # 0 => f[k - 1] \in Nat /\ f[k] = step[k][f[k - 1]]
      BY <1>2, <3>1 DEF Recurs
    <3>3. k # 0 => step[k][f[k - 1]] = Base * f[k - 1]
      <4>1. k \in Nat
        BY <1>0
      <4> QED BY <1>1, <3>2, <4>1, Zenon
    <3> QED BY <1>2, <3>2, <3>3 DEF Recurs
  <2> QED BY <1>2, <2>1 DEF Recurs
<1>4. Place = [k \in 0 .. WordBytes |->
                 IF k = 0 THEN 1 ELSE Base * Place[k - 1]]
  BY <1>3 DEF Place
<1>5. Place[0] = 1 /\ \A k \in 1 .. WordBytes : Place[k] = Base * Place[k - 1]
  BY <1>0, <1>4
<1> DEFINE S == {k \in Nat : k <= WordBytes => Place[k] \in Nat \ {0}}
<1>6. 0 \in S
  BY <1>5
<1>7. ASSUME NEW k \in Nat, k \in S PROVE k + 1 \in S
  <2>1. SUFFICES ASSUME k + 1 <= WordBytes PROVE Place[k + 1] \in Nat \ {0}
    OBVIOUS
  <2>2. Place[k + 1] = Base * Place[(k + 1) - 1] /\ (k + 1) - 1 = k
    BY <1>0, <1>5, <2>1
  <2>3. Place[k] \in Nat \ {0}
    BY <1>0, <1>7, <2>1
  <2> QED BY <1>0, <2>2, <2>3
<1>8. \A k \in 0 .. WordBytes : Place[k] \in Nat \ {0}
  <2>1. Nat \subseteq S
    <3> HIDE DEF S
    <3> QED BY <1>6, <1>7, SetInduction
  <2> QED BY <1>0, <2>1
<1>9. Place \in [0 .. WordBytes -> Nat \ {0}]
  BY <1>4, <1>8
<1> QED BY <1>5, <1>9

(* The value of a sequence of bytes, from the left. *)
LEMMA ValueFacts ==
  ASSUME NEW bytes \in Seq(Byte)
  PROVE  \E value \in [0 .. Len(bytes) -> Nat] :
           /\ value[0] = 0
           /\ \A n \in 1 .. Len(bytes) :
                value[n] = value[n - 1] * Base + bytes[n]
           /\ NetworkToHost(bytes) = value[Len(bytes)]
<1> DEFINE byte(i) == IF i \in 1 .. Len(bytes) THEN bytes[i] ELSE 0
           step == [i \in Nat |-> [x \in Nat |-> x * Base + byte(i)]]
           Equation(value) == value = [n \in 0 .. Len(bytes) |->
             IF n = 0 THEN 0 ELSE value[n - 1] * Base + bytes[n]]
<1>0. /\ Base \in Nat
      /\ Len(bytes) \in Nat
      /\ \A n \in 1 .. Len(bytes) : bytes[n] \in Nat
  BY CodecAssumption DEF Byte
<1>1. /\ step \in [Nat -> [Nat -> Nat]]
      /\ \A i, x \in Nat : step[i][x] = x * Base + byte(i)
  BY <1>0
<1>2. PICK f : Recurs(f, Nat, 0, step, Len(bytes))
  <2>1. 0 \in Nat
    OBVIOUS
  <2> HIDE DEF step
  <2> QED BY <1>0, <1>1, <2>1, Recursion, Zenon
<1>3. Equation(f)
  <2> HIDE DEF step
  <2>1. ASSUME NEW n \in 0 .. Len(bytes)
        PROVE  f[n] = IF n = 0 THEN 0 ELSE f[n - 1] * Base + bytes[n]
    <3>1. n # 0 => n - 1 \in 0 .. Len(bytes) /\ n \in 1 .. Len(bytes)
      BY <1>0
    <3>2. n # 0 => f[n - 1] \in Nat /\ f[n] = step[n][f[n - 1]]
      BY <1>2, <3>1 DEF Recurs
    <3>3. n # 0 => step[n][f[n - 1]] = f[n - 1] * Base + byte(n)
      <4>1. n \in Nat
        BY <1>0
      <4> HIDE DEF byte
      <4> QED BY <1>1, <3>2, <4>1, Zenon
    <3> QED BY <1>2, <3>1, <3>2, <3>3 DEF Recurs
  <2> QED BY <1>2, <2>1 DEF Recurs
<1> DEFINE value == CHOOSE v : Equation(v)
<1>4. Equation(value)
  BY <1>3
<1>5. NetworkToHost(bytes) = value[Len(bytes)]
  BY DEF NetworkToHost
<1> HIDE DEF value
<1>6. /\ value[0] = 0
      /\ \A n \in 1 .. Len(bytes) : value[n] = value[n - 1] * Base + bytes[n]
  BY <1>0, <1>4
<1> DEFINE S == {n \in Nat : n <= Len(bytes) => value[n] \in Nat}
<1>7. 0 \in S
  BY <1>6
<1>8. ASSUME NEW n \in Nat, n \in S PROVE n + 1 \in S
  <2>1. SUFFICES ASSUME n + 1 <= Len(bytes) PROVE value[n + 1] \in Nat
    OBVIOUS
  <2>2. /\ value[n + 1] = value[(n + 1) - 1] * Base + bytes[n + 1]
        /\ (n + 1) - 1 = n
    BY <1>0, <1>6, <2>1
  <2>3. value[n] \in Nat /\ bytes[n + 1] \in Nat
    BY <1>0, <1>8, <2>1
  <2>4. value[n + 1] = value[n] * Base + bytes[n + 1]
    BY <2>2
  <2>5. \A x, y, z \in Nat : x * y + z \in Nat
    OBVIOUS
  <2>6. value[n] * Base + bytes[n + 1] \in Nat
    BY <1>0, <2>3, <2>5, Zenon
  <2> QED BY <2>4, <2>6
<1>9. \A n \in 0 .. Len(bytes) : value[n] \in Nat
  <2>1. Nat \subseteq S
    <3> HIDE DEF S
    <3> QED BY <1>7, <1>8, SetInduction
  <2> QED BY <1>0, <2>1
<1>10. value \in [0 .. Len(bytes) -> Nat]
  BY <1>4, <1>9
<1> HIDE DEF Equation
<1> QED BY <1>5, <1>6, <1>10, Zenon

(* Dividing by a product, after and before a digit is appended. *)
LEMMA DivideAppended ==
  ASSUME NEW v \in Nat, NEW B \in Nat \ {0}, NEW b \in 0 .. B - 1,
         NEW p \in Nat \ {0}
  PROVE  /\ (v * B + b) \div (B * p) = v \div p
         /\ v < p => v * B + b < B * p
<1>1. (v * B + b) \div (B * p) = v \div p
  OBVIOUS
<1>2. v < p => v * B + b < B * p
  OBVIOUS
<1> QED BY <1>1, <1>2

LEMMA LastDigit ==
  ASSUME NEW v \in Nat, NEW B \in Nat \ {0}, NEW b \in 0 .. B - 1
  PROVE  (v * B + b) % B = b
OBVIOUS

LEMMA DivideByProduct ==
  ASSUME NEW v \in Nat, NEW B \in Nat \ {0}, NEW p \in Nat \ {0}
  PROVE  (v \div (B * p)) * B + ((v \div p) % B) = v \div p
<1> DEFINE q == v \div p
           r == v % p
           q2 == q \div B
           r2 == q % B
           rest == r2 * p + r
<1>1. /\ q \in Nat /\ r \in 0 .. p - 1
      /\ v = q * p + r
  OBVIOUS
<1>2. /\ q2 \in Nat /\ r2 \in 0 .. B - 1
      /\ q = q2 * B + r2
  BY <1>1
<1> HIDE DEF q, r, q2, r2
<1>3. rest \in Nat /\ rest < B * p
  <2>1. rest \in Nat
    BY <1>1, <1>2
  <2>2. r2 * p <= (B - 1) * p
    BY <1>2
  <2>3. (B - 1) * p = B * p - p
    OBVIOUS
  <2>4. rest < B * p
    BY <1>1, <1>2, <2>2, <2>3
  <2> QED BY <2>1, <2>4
<1>4. v = q2 * (B * p) + rest
  <2>1. v = (q2 * B + r2) * p + r
    BY <1>1, <1>2
  <2>2. (q2 * B + r2) * p + r = q2 * (B * p) + (r2 * p + r)
    BY <1>1, <1>2
  <2> QED BY <2>1, <2>2
<1> HIDE DEF rest
<1> DEFINE d == B * p
<1>5. d \in Nat \ {0}
  OBVIOUS
<1> HIDE DEF d
<1>6. (q2 * d + rest) \div d = q2
  BY <1>2, <1>3, <1>5 DEF d
<1>7. v \div (B * p) = q2
  BY <1>4, <1>6 DEF d
<1> QED BY <1>2, <1>7 DEF q, r2

LEMMA DivideFacts ==
  ASSUME NEW v \in Nat, NEW B \in Nat \ {0}, NEW p \in Nat \ {0}
  PROVE  /\ v \div p \in Nat
         /\ (v \div p) % B \in 0 .. B - 1
OBVIOUS

LEMMA DivideSmall ==
  ASSUME NEW v \in Nat, NEW p \in Nat \ {0}, v < p
  PROVE  v \div p = 0
OBVIOUS

(* A word has one value and a value one word. *)
LEMMA WordOfValue ==
  ASSUME NEW value \in 0 .. Word - 1
  PROVE  /\ HostToNetwork(value) \in Seq(Byte)
         /\ Len(HostToNetwork(value)) = WordBytes
         /\ NetworkToHost(HostToNetwork(value)) = value
<1> DEFINE bytes == HostToNetwork(value)
<1>0. Base \in Nat \ {0} /\ WordBytes \in Nat /\ value \in Nat /\ value < Word
  BY PlaceFacts, CodecAssumption DEF Word
<1>1. ASSUME NEW k \in 1 .. WordBytes
      PROVE  /\ Place[WordBytes - k] \in Nat \ {0}
             /\ bytes[k] = (value \div Place[WordBytes - k]) % Base
             /\ bytes[k] \in Byte
  <2>1. WordBytes - k \in 0 .. WordBytes
    BY <1>0
  <2>2. Place[WordBytes - k] \in Nat \ {0}
    BY <2>1, PlaceFacts
  <2>3. bytes[k] = (value \div Place[WordBytes - k]) % Base
    BY DEF HostToNetwork
  <2>4. (value \div Place[WordBytes - k]) % Base \in 0 .. Base - 1
    <3> HIDE DEF bytes
    <3> QED BY <1>0, <2>2, DivideFacts
  <2> QED BY <2>2, <2>3, <2>4 DEF Byte
<1>2. bytes \in [1 .. WordBytes -> Byte]
  BY <1>1 DEF HostToNetwork
<1>3. bytes \in Seq(Byte) /\ Len(bytes) = WordBytes
  <2> HIDE DEF bytes
  <2> QED BY <1>0, <1>2
<1> HIDE DEF bytes
<1>4. PICK v \in [0 .. WordBytes -> Nat] :
        /\ v[0] = 0
        /\ \A n \in 1 .. WordBytes : v[n] = v[n - 1] * Base + bytes[n]
        /\ NetworkToHost(bytes) = v[WordBytes]
  BY <1>3, ValueFacts
<1> DEFINE S == {n \in Nat : n <= WordBytes =>
                               v[n] = value \div Place[WordBytes - n]}
<1>5. 0 \in S
  <2>1. value \div Word = 0
    <3>1. Word \in Nat \ {0}
      BY <1>0, PlaceFacts DEF Word
    <3> QED BY <1>0, <3>1, DivideSmall
  <2>2. WordBytes - 0 = WordBytes
    BY <1>0
  <2> QED BY <1>0, <1>4, <2>1, <2>2 DEF Word
<1>6. ASSUME NEW n \in Nat, n \in S PROVE n + 1 \in S
  <2>1. SUFFICES ASSUME n + 1 <= WordBytes
                 PROVE  v[n + 1] = value \div Place[WordBytes - (n + 1)]
    OBVIOUS
  <2> DEFINE k == WordBytes - (n + 1)
  <2>2. /\ n + 1 \in 1 .. WordBytes /\ (n + 1) - 1 = n /\ n <= WordBytes
        /\ k \in 0 .. WordBytes /\ k + 1 \in 1 .. WordBytes /\ (k + 1) - 1 = k
        /\ WordBytes - n = k + 1 /\ WordBytes - (n + 1) = k
    BY <1>0, <2>1
  <2>3. v[n + 1] = v[n] * Base + bytes[n + 1] /\ v[n] = value \div Place[k + 1]
    BY <1>4, <1>6, <2>2
  <2>4. Place[k + 1] = Base * Place[k] /\ Place[k] \in Nat \ {0}
    BY <2>2, PlaceFacts
  <2>5. bytes[n + 1] = (value \div Place[k]) % Base
    BY <1>1, <2>2
  <2> DEFINE p == Place[k]
  <2>6. (value \div (Base * p)) * Base + ((value \div p) % Base) = value \div p
    <3> HIDE DEF p, k
    <3>1. p \in Nat \ {0}
      BY <2>4 DEF p
    <3> QED BY <1>0, <3>1, DivideByProduct
  <2> QED BY <2>2, <2>3, <2>4, <2>5, <2>6
<1>7. Nat \subseteq S
  <2> HIDE DEF S
  <2> QED BY <1>5, <1>6, SetInduction
<1>8. v[WordBytes] = value \div Place[0]
  <2>1. WordBytes - WordBytes = 0 /\ WordBytes <= WordBytes
    BY <1>0
  <2> QED BY <1>0, <1>7, <2>1
<1>9. NetworkToHost(bytes) = value
  BY <1>0, <1>4, <1>8, PlaceFacts
<1> QED BY <1>3, <1>9 DEF bytes

LEMMA ValueOfWord ==
  ASSUME NEW bytes \in Seq(Byte), Len(bytes) = WordBytes
  PROVE  /\ NetworkToHost(bytes) \in 0 .. Word - 1
         /\ HostToNetwork(NetworkToHost(bytes)) = bytes
<1>0. Base \in Nat \ {0} /\ WordBytes \in Nat
  BY CodecAssumption
<1>1. PICK v \in [0 .. WordBytes -> Nat] :
        /\ v[0] = 0
        /\ \A n \in 1 .. WordBytes : v[n] = v[n - 1] * Base + bytes[n]
        /\ NetworkToHost(bytes) = v[WordBytes]
  BY ValueFacts
<1>2. \A n \in 1 .. WordBytes : bytes[n] \in 0 .. Base - 1
  BY DEF Byte
<1> DEFINE S == {n \in Nat : n <= WordBytes =>
                   /\ v[n] < Place[n]
                   /\ \A k \in 1 .. n :
                        (v[n] \div Place[n - k]) % Base = bytes[k]}
<1>3. 0 \in S
  BY <1>0, <1>1, PlaceFacts
<1>4. ASSUME NEW n \in Nat, n \in S PROVE n + 1 \in S
  <2>1. SUFFICES ASSUME n + 1 <= WordBytes
                 PROVE  /\ v[n + 1] < Place[n + 1]
                        /\ \A k \in 1 .. n + 1 :
                             (v[n + 1] \div Place[n + 1 - k]) % Base = bytes[k]
    OBVIOUS
  <2>2. /\ n + 1 \in 1 .. WordBytes /\ (n + 1) - 1 = n
        /\ n <= WordBytes /\ n \in 0 .. WordBytes
    BY <1>0, <2>1
  <2> DEFINE w == v[n]
             b == bytes[n + 1]
  <2>3. v[n + 1] = w * Base + b /\ w \in Nat /\ b \in 0 .. Base - 1
    BY <1>1, <1>2, <2>2
  <2>4. Place[n + 1] = Base * Place[n]
    BY <2>2, PlaceFacts
  <2>5. w < Place[n] /\ \A k \in 1 .. n : (w \div Place[n - k]) % Base = bytes[k]
    BY <1>4, <2>2
  <2>6. \A k \in 0 .. WordBytes : Place[k] \in Nat \ {0}
    BY PlaceFacts
  <2> HIDE DEF w, b
  <2>7. v[n + 1] < Place[n + 1]
    <3>1. Place[n] \in Nat \ {0}
      BY <2>2, <2>6
    <3>2. w < Place[n]
      BY <2>5
    <3>3. w * Base + b < Base * Place[n]
      BY <1>0, <2>3, <3>1, <3>2, DivideAppended, Zenon
    <3> QED BY <2>3, <2>4, <3>3
  <2>8. ASSUME NEW k \in 1 .. n + 1
        PROVE  (v[n + 1] \div Place[n + 1 - k]) % Base = bytes[k]
    <3>1. CASE k = n + 1
      <4>1. n + 1 - k = 0
        BY <3>1
      <4>2. v[n + 1] \div Place[n + 1 - k] = v[n + 1]
        <5>1. v[n + 1] \in Nat
          BY <1>0, <1>1, <2>2
        <5>2. Place[n + 1 - k] = 1
          BY <4>1, PlaceFacts
        <5>3. \A x \in Nat : x \div 1 = x
          OBVIOUS
        <5> QED BY <5>1, <5>2, <5>3
      <4>3. (w * Base + b) % Base = b
        BY <1>0, <2>3, LastDigit
      <4> QED BY <2>3, <3>1, <4>2, <4>3 DEF b
    <3>2. CASE k \in 1 .. n
      <4> DEFINE j == n - k
      <4>1. /\ n + 1 - k = j + 1 /\ (j + 1) - 1 = j
            /\ j + 1 \in 1 .. WordBytes /\ j \in 0 .. WordBytes
        BY <2>2, <3>2
      <4>2. Place[n + 1 - k] = Base * Place[j] /\ Place[j] \in Nat \ {0}
        BY <2>6, <4>1, PlaceFacts
      <4>3. (w * Base + b) \div (Base * Place[j]) = w \div Place[j]
        <5> DEFINE p == Place[j]
        <5>1. p \in Nat \ {0}
          BY <4>2
        <5> HIDE DEF p
        <5>2. (w * Base + b) \div (Base * p) = w \div p
          BY <1>0, <2>3, <5>1, DivideAppended
        <5> QED BY <5>2 DEF p
      <4> QED BY <2>3, <2>5, <3>2, <4>2, <4>3
    <3> QED BY <2>2, <3>1, <3>2
  <2> QED BY <2>7, <2>8
<1>5. Nat \subseteq S
  <2> HIDE DEF S
  <2> QED BY <1>3, <1>4, SetInduction
<1>6. /\ v[WordBytes] < Word
      /\ \A k \in 1 .. WordBytes :
           (v[WordBytes] \div Place[WordBytes - k]) % Base = bytes[k]
  BY <1>0, <1>5 DEF Word
<1>7. NetworkToHost(bytes) \in 0 .. Word - 1
  <2>1. v[WordBytes] \in Nat /\ Word \in Nat
    BY <1>0, <1>1, PlaceFacts DEF Word
  <2> QED BY <1>1, <1>6, <2>1
<1>8. HostToNetwork(NetworkToHost(bytes)) = bytes
  <2>1. bytes = [k \in 1 .. WordBytes |-> bytes[k]]
    BY <1>0
  <2> QED BY <1>1, <1>6, <2>1 DEF HostToNetwork
<1> QED BY <1>7, <1>8

-----------------------------------------------------------------------------
(* Flattening, as a recursion that starts with nothing.                    *)

LEMMA FlattenFacts ==
  ASSUME NEW A, NEW seqs \in Seq(Seq(A))
  PROVE  \E f : /\ f \in [0 .. Len(seqs) -> Seq(A)]
                /\ f[0] = <<>>
                /\ \A i \in 1 .. Len(seqs) : f[i] = f[i - 1] \o seqs[i]
                /\ FlattenSeq(seqs) = f[Len(seqs)]
<1> DEFINE L == Len(seqs)
           item(i) == IF i \in 1 .. L THEN seqs[i] ELSE <<>>
           step == [i \in Nat |-> [x \in Seq(A) |-> x \o item(i)]]
           Equation(f) == f = [i \in 1 .. L |->
             IF i = 1 THEN seqs[i] ELSE f[i - 1] \o seqs[i]]
<1>0. /\ L \in Nat
      /\ <<>> \in Seq(A)
      /\ \A i \in 1 .. L : seqs[i] \in Seq(A)
      /\ \A i \in Nat : item(i) \in Seq(A)
  OBVIOUS
<1>1. /\ step \in [Nat -> [Seq(A) -> Seq(A)]]
      /\ \A i \in Nat, x \in Seq(A) : step[i][x] = x \o item(i)
  <2> HIDE DEF item
  <2>1. ASSUME NEW i \in Nat, NEW x \in Seq(A) PROVE x \o item(i) \in Seq(A)
    BY <1>0, ConcatProperties
  <2> QED BY <2>1
<1>2. PICK g : Recurs(g, Seq(A), <<>>, step, L)
  <2> HIDE DEF step, L
  <2> QED BY <1>0, <1>1, Recursion, Zenon
<1>3. /\ g \in [0 .. L -> Seq(A)]
      /\ g[0] = <<>>
      /\ \A i \in 1 .. L : g[i] = g[i - 1] \o seqs[i]
  <2>1. ASSUME NEW i \in 1 .. L PROVE g[i] = g[i - 1] \o seqs[i]
    <3>1. i \in Nat /\ i - 1 \in 0 .. L /\ item(i) = seqs[i]
      BY <1>0
    <3> HIDE DEF item, step
    <3>2. g[i - 1] \in Seq(A) /\ g[i] = step[i][g[i - 1]]
      BY <1>2, <3>1 DEF Recurs
    <3>3. step[i][g[i - 1]] = g[i - 1] \o item(i)
      BY <1>1, <3>1, <3>2, Zenon
    <3> QED BY <3>1, <3>2, <3>3
  <2> HIDE DEF step
  <2> QED BY <1>2, <2>1 DEF Recurs
<1> HIDE DEF step, item
<1> DEFINE f == [i \in 1 .. L |-> g[i]]
<1>4. Equation(f)
  <2>1. ASSUME NEW i \in 1 .. L
        PROVE  g[i] = IF i = 1 THEN seqs[i] ELSE f[i - 1] \o seqs[i]
    <3>1. CASE i = 1
      <4>1. i - 1 = 0
        BY <3>1
      <4>2. g[i] = <<>> \o seqs[i] /\ seqs[i] \in Seq(A)
        BY <1>0, <1>3, <4>1
      <4> QED BY <3>1, <4>2, ConcatEmptySeq
    <3>2. CASE i # 1
      <4>1. i - 1 \in 1 .. L
        BY <1>0, <3>2
      <4> QED BY <1>3, <3>2, <4>1
    <3> QED BY <3>1, <3>2
  <2> QED BY <2>1
<1> DEFINE flatten == CHOOSE h : Equation(h)
<1>5. Equation(flatten)
  BY <1>4
<1>6. FlattenSeq(seqs) = IF L = 0 THEN seqs ELSE flatten[L]
  BY DEF FlattenSeq
<1> HIDE DEF flatten
<1> DEFINE S == {i \in Nat : i \in 1 .. L => flatten[i] = g[i]}
<1>7. 0 \in S
  OBVIOUS
<1>8. ASSUME NEW i \in Nat, i \in S PROVE i + 1 \in S
  <2>1. SUFFICES ASSUME i + 1 \in 1 .. L PROVE flatten[i + 1] = g[i + 1]
    OBVIOUS
  <2>2. (i + 1) - 1 = i
    OBVIOUS
  <2>3. flatten[i + 1] = IF i = 0 THEN seqs[i + 1]
                         ELSE flatten[i] \o seqs[i + 1]
    <3>1. \A j \in 1 .. L : flatten[j] = IF j = 1 THEN seqs[j]
                                      ELSE flatten[j - 1] \o seqs[j]
      BY <1>5
    <3>2. i + 1 = 1 <=> i = 0
      OBVIOUS
    <3> QED BY <2>1, <2>2, <3>1, <3>2
  <2>4. g[i + 1] = g[i] \o seqs[i + 1]
    BY <1>3, <2>1, <2>2
  <2>5. CASE i = 0
    <3>1. g[i] = <<>> /\ seqs[i + 1] \in Seq(A)
      BY <1>0, <1>3, <2>1, <2>5
    <3> QED BY <2>3, <2>4, <2>5, <3>1, ConcatEmptySeq
  <2>6. CASE i # 0
    <3>1. i \in 1 .. L
      BY <1>0, <2>1, <2>6
    <3> QED BY <1>8, <2>3, <2>4, <2>6, <3>1
  <2> QED BY <2>5, <2>6
<1>9. Nat \subseteq S
  <2> HIDE DEF S
  <2> QED BY <1>7, <1>8, SetInduction
<1>10. FlattenSeq(seqs) = g[L]
  <2>1. CASE L = 0
    BY <1>3, <1>6, <2>1
  <2>2. CASE L # 0
    BY <1>0, <1>6, <1>9, <2>2
  <2> QED BY <2>1, <2>2
<1> HIDE DEF Equation
<1> QED BY <1>3, <1>10

LEMMA FlattenAppend ==
  ASSUME NEW A, NEW seqs \in Seq(Seq(A)), NEW e \in Seq(A)
  PROVE  /\ FlattenSeq(seqs) \in Seq(A)
         /\ FlattenSeq(Append(seqs, e)) = FlattenSeq(seqs) \o e
<1> DEFINE L == Len(seqs)
           more == Append(seqs, e)
<1>0. /\ L \in Nat
      /\ more \in Seq(Seq(A)) /\ Len(more) = L + 1 /\ more[L + 1] = e
      /\ \A i \in 1 .. L : more[i] = seqs[i]
  OBVIOUS
<1>1. PICK f : /\ f \in [0 .. Len(seqs) -> Seq(A)]
               /\ f[0] = <<>>
               /\ \A i \in 1 .. Len(seqs) : f[i] = f[i - 1] \o seqs[i]
               /\ FlattenSeq(seqs) = f[Len(seqs)]
  BY FlattenFacts
<1>2. PICK g : /\ g \in [0 .. Len(more) -> Seq(A)]
               /\ g[0] = <<>>
               /\ \A i \in 1 .. Len(more) : g[i] = g[i - 1] \o more[i]
               /\ FlattenSeq(more) = g[Len(more)]
  <2> HIDE DEF more
  <2> QED BY <1>0, FlattenFacts
<1> HIDE DEF more
<1> DEFINE S == {i \in Nat : i <= L => f[i] = g[i]}
<1>3. 0 \in S
  BY <1>1, <1>2
<1>4. ASSUME NEW i \in Nat, i \in S PROVE i + 1 \in S
  <2>1. SUFFICES ASSUME i + 1 <= L PROVE f[i + 1] = g[i + 1]
    OBVIOUS
  <2>2. /\ (i + 1) - 1 = i /\ i <= L
        /\ i + 1 \in 1 .. Len(seqs) /\ i + 1 \in 1 .. Len(more)
    BY <1>0, <2>1
  <2>3. f[i + 1] = f[(i + 1) - 1] \o seqs[i + 1]
    BY <1>1, <2>2
  <2>4. g[i + 1] = g[(i + 1) - 1] \o more[i + 1] /\ more[i + 1] = seqs[i + 1]
    BY <1>0, <1>2, <2>2
  <2> QED BY <1>4, <2>2, <2>3, <2>4
<1>5. Nat \subseteq S
  <2> HIDE DEF S
  <2> QED BY <1>3, <1>4, SetInduction
<1>6. f[L] = g[L]
  BY <1>0, <1>5
<1>7. g[L + 1] = g[L] \o e
  <2>1. L + 1 \in 1 .. Len(more) /\ (L + 1) - 1 = L
    BY <1>0
  <2> QED BY <1>0, <1>2, <2>1
<1> QED BY <1>0, <1>1, <1>2, <1>6, <1>7 DEF more

(* The bytes of messages. *)
LEMMA TerminatorType ==
  ASSUME NEW protocol
  PROVE  /\ Terminator(protocol) \in Seq(Byte)
         /\ Len(Terminator(protocol)) \in {1, 2}
<1>1. LF \in Byte /\ CR \in Byte
  BY CodecAssumption DEF Byte
<1>2. <<LF>> \in Seq(Byte) /\ <<CR, LF>> \in Seq(Byte)
  BY <1>1
<1> QED BY <1>2 DEF Terminator

LEMMA EncodeType ==
  ASSUME NEW protocol \in Protocols \ {"compressed"}, NEW m \in AnyMessage
  PROVE  Encode(protocol, m) \in Seq(Byte)
<1>1. m.contents \in Seq(Byte) /\ m.id \in 0 .. Word - 1
  BY DEF AnyMessage
<1>2. CASE protocol = "direct"
  BY <1>2 DEF Encode
<1>3. CASE protocol \in {"line", "telnet"}
  <2>1. Terminator(protocol) \in Seq(Byte)
    BY TerminatorType
  <2> QED BY <1>1, <1>3, <2>1 DEF Encode
<1>4. CASE protocol = "basic"
  <2>1. HostToNetwork(m.id) \in Seq(Byte)
    BY <1>1, WordOfValue
  <2>2. <<TypeLetter(m.type)>> \in Seq(Byte)
    BY CodecAssumption DEF TypeLetter, Byte
  <2>3. BasicFrame(m) \in Seq(Byte)
    <3> HIDE DEF TypeLetter, HostToNetwork
    <3> QED BY <1>1, <2>1, <2>2, ConcatProperties DEF BasicFrame
  <2>4. Len(BasicFrame(m)) % Word \in 0 .. Word - 1
    <3>1. Word \in Nat \ {0} /\ Len(BasicFrame(m)) \in Nat
      BY <2>3, PlaceFacts, CodecAssumption DEF Word
    <3> QED BY <3>1
  <2>5. HostToNetwork(Len(BasicFrame(m)) % Word) \in Seq(Byte)
    BY <2>4, WordOfValue
  <2> QED BY <1>4, <2>3, <2>5, ConcatProperties DEF Encode
<1> QED BY <1>2, <1>3, <1>4 DEF Protocols

LEMMA BytesFacts ==
  ASSUME protocol_ \in Protocols \ {"compressed"},
         NEW messages \in Seq(AnyMessage), NEW m \in AnyMessage
  PROVE  /\ Bytes(messages) \in Seq(Byte)
         /\ Bytes(Append(messages, m)) = Bytes(messages) \o Encode(protocol_, m)
<1> DEFINE frames == [k \in DOMAIN messages |-> Encode(protocol_, messages[k])]
           more == Append(messages, m)
           moreFrames == [k \in DOMAIN more |-> Encode(protocol_, more[k])]
<1>1. /\ Len(messages) \in Nat /\ DOMAIN messages = 1 .. Len(messages)
      /\ \A k \in 1 .. Len(messages) : messages[k] \in AnyMessage
  OBVIOUS
<1>2. frames \in Seq(Seq(Byte)) /\ Len(frames) = Len(messages)
  <2>1. frames \in [1 .. Len(messages) -> Seq(Byte)]
    BY <1>1, EncodeType
  <2> HIDE DEF frames
  <2> QED BY <1>1, <2>1
<1>3. Encode(protocol_, m) \in Seq(Byte)
  BY EncodeType
<1>4. moreFrames = Append(frames, Encode(protocol_, m))
  <2>1. /\ DOMAIN more = 1 .. Len(messages) + 1
        /\ more[Len(messages) + 1] = m
        /\ \A k \in 1 .. Len(messages) : more[k] = messages[k]
    BY <1>1
  <2>2. /\ Append(frames, Encode(protocol_, m)) \in Seq(Seq(Byte))
        /\ Len(Append(frames, Encode(protocol_, m))) = Len(messages) + 1
        /\ \A k \in 1 .. Len(messages) :
             Append(frames, Encode(protocol_, m))[k] = frames[k]
        /\ Append(frames, Encode(protocol_, m))[Len(messages) + 1]
             = Encode(protocol_, m)
    <3> DEFINE e == Encode(protocol_, m)
               T == Seq(Byte)
    <3>1. frames \in Seq(T) /\ e \in T
      BY <1>2, <1>3
    <3> HIDE DEF frames, e, T
    <3>2. /\ Append(frames, e) \in Seq(T)
          /\ Len(Append(frames, e)) = Len(frames) + 1
          /\ \A k \in 1 .. Len(frames) : Append(frames, e)[k] = frames[k]
          /\ Append(frames, e)[Len(frames) + 1] = e
      BY <3>1, AppendProperties
    <3> QED BY <1>2, <3>2 DEF e, T
  <2>3. moreFrames \in [1 .. Len(messages) + 1 -> Seq(Byte)]
    <3>1. ASSUME NEW k \in 1 .. Len(messages) + 1
          PROVE  Encode(protocol_, more[k]) \in Seq(Byte)
      BY <1>1, <2>1, EncodeType
    <3> HIDE DEF more
    <3> QED BY <2>1, <3>1
  <2>4. moreFrames \in Seq(Seq(Byte)) /\ Len(moreFrames) = Len(messages) + 1
    <3> HIDE DEF moreFrames
    <3> QED BY <1>1, <2>3
  <2>5. ASSUME NEW k \in 1 .. Len(messages) + 1
        PROVE  moreFrames[k] = Append(frames, Encode(protocol_, m))[k]
    <3>1. CASE k = Len(messages) + 1
      <4> HIDE DEF more, frames
      <4> QED BY <2>1, <2>2, <3>1
    <3>2. CASE k \in 1 .. Len(messages)
      <4>1. frames[k] = Encode(protocol_, messages[k])
        BY <1>1, <3>2
      <4> HIDE DEF more, frames
      <4> QED BY <2>1, <2>2, <3>2, <4>1
    <3> QED BY <1>1, <3>1, <3>2
  <2> HIDE DEF moreFrames, frames
  <2> QED BY <2>2, <2>4, <2>5, SeqEqual
<1>5. /\ FlattenSeq(frames) \in Seq(Byte)
      /\ FlattenSeq(Append(frames, Encode(protocol_, m)))
           = FlattenSeq(frames) \o Encode(protocol_, m)
  <2> HIDE DEF frames
  <2> QED BY <1>2, <1>3, FlattenAppend
<1> QED BY <1>4, <1>5 DEF Bytes

-----------------------------------------------------------------------------
(* Minima, and pieces of sequences.                                        *)

LEMMA MinFacts ==
  ASSUME NEW T, T \subseteq Nat, T # {}
  PROVE  Min(T) \in T /\ \A n \in T : Min(T) <= n
<1>1. PICK x \in T : \A y \in T : x <= y
  BY Smallest
<1> QED BY <1>1 DEF Min

LEMMA PairMin ==
  ASSUME NEW a \in Nat, NEW b \in Nat
  PROVE  /\ Min({a, b}) \in {a, b}
         /\ Min({a, b}) <= a
         /\ Min({a, b}) <= b
BY MinFacts

LEMMA Piece ==
  ASSUME NEW A, NEW s \in Seq(A), NEW m \in Nat \ {0}, NEW n \in 0 .. Len(s)
  PROVE  /\ SubSeq(s, m, n) \in Seq(A)
         /\ m <= n => Len(SubSeq(s, m, n)) = n - m + 1
         /\ m > n => Len(SubSeq(s, m, n)) = 0
<1>1. m \in Int /\ n \in Int /\ \A i \in m .. n : s[i] \in A
  OBVIOUS
<1> QED BY <1>1, SubSeqProperties

(* A sequence falls into two pieces. *)
LEMMA TwoPieces ==
  ASSUME NEW A, NEW s \in Seq(A), NEW n \in 0 .. Len(s)
  PROVE  /\ SubSeq(s, 1, n) \in Seq(A)
         /\ Len(SubSeq(s, 1, n)) = n
         /\ SubSeq(s, n + 1, Len(s)) \in Seq(A)
         /\ Len(SubSeq(s, n + 1, Len(s))) = Len(s) - n
         /\ SubSeq(s, 1, n) \o SubSeq(s, n + 1, Len(s)) = s
<1>1. SubSeq(s, 1, n) \in Seq(A) /\ Len(SubSeq(s, 1, n)) = n
  BY Piece
<1>2. /\ SubSeq(s, n + 1, Len(s)) \in Seq(A)
      /\ Len(SubSeq(s, n + 1, Len(s))) = Len(s) - n
  BY Piece
<1>3. SubSeq(s, 1, n) \o SubSeq(s, n + 1, Len(s)) = SubSeq(s, 1, Len(s))
  <2>1. 1 \in 1 .. Len(s) + 1 /\ n \in 1 - 1 .. Len(s) /\ Len(s) \in n .. Len(s)
    OBVIOUS
  <2> QED BY <2>1, ConcatAdjacentSubSeq
<1>4. SubSeq(s, 1, Len(s)) = s
  BY SubSeqFull
<1> QED BY <1>1, <1>2, <1>3, <1>4

(* Sequences of bytes are a free monoid. *)
LEMMA Concat ==
  ASSUME NEW s \in Seq(Byte), NEW t \in Seq(Byte)
  PROVE  /\ s \o t \in Seq(Byte)
         /\ Len(s \o t) = Len(s) + Len(t)
         /\ s \o <<>> = s /\ <<>> \o s = s
BY ConcatProperties, ConcatEmptySeq

LEMMA Assoc ==
  ASSUME NEW s \in Seq(Byte), NEW t \in Seq(Byte), NEW u \in Seq(Byte)
  PROVE  (s \o t) \o u = s \o (t \o u)
OBVIOUS

LEMMA Cancel ==
  ASSUME NEW s \in Seq(Byte), NEW t \in Seq(Byte), NEW u \in Seq(Byte),
         s \o t = s \o u
  PROVE  t = u
BY ConcatSimplifications

(* The end of the first terminator, if there is one. *)
LEMMA FirstEnd ==
  ASSUME NEW bytes \in Seq(Byte), NEW terminator \in Seq(Byte),
         Ends(bytes, terminator) # {}
  PROVE  /\ Min(Ends(bytes, terminator)) \in Ends(bytes, terminator)
         /\ Min(Ends(bytes, terminator)) \in Len(terminator) .. Len(bytes)
         /\ \A n \in Ends(bytes, terminator) : Min(Ends(bytes, terminator)) <= n
<1>1. Ends(bytes, terminator) \subseteq Len(terminator) .. Len(bytes)
  BY DEF Ends
<1>2. Ends(bytes, terminator) \subseteq Nat
  BY <1>1
<1> QED BY <1>1, <1>2, MinFacts

(* A frame decodes to something a message can hold. *)
LEMMA DecodeType ==
  ASSUME NEW protocol \in Protocols, NEW frame \in Seq(Byte),
         DecodeError(protocol, frame) = "none"
  PROVE  protocol # "compressed" /\ Decode(protocol, frame) \in AnyMessage
<1>1. protocol # "compressed"
  BY DEF DecodeError
<1>2. Word \in Nat \ {0} /\ WordBytes \in Nat \ {0}
  BY PlaceFacts, CodecAssumption DEF Word
<1>3. \A type \in {"action", "reply"}, id \in 0 .. Word - 1,
         contents \in Seq(Byte) : Message(type, id, contents) \in AnyMessage
  BY DEF Message, AnyMessage
<1>4. 0 \in 0 .. Word - 1
  BY <1>2
<1>5. CASE protocol = "direct"
  <2>1. Decode(protocol, frame) = Message("reply", 0, frame)
    BY <1>5 DEF Decode
  <2> QED BY <1>1, <1>3, <1>4, <2>1
<1>6. CASE protocol \in {"line", "telnet"}
  <2> DEFINE contents == Chop(frame, Len(Terminator(protocol)))
  <2>1. contents \in Seq(Byte)
    <3> DEFINE n == Len(Terminator(protocol))
    <3>1. n \in {1, 2}
      BY TerminatorType
    <3> HIDE DEF n
    <3>2. ~ (Len(frame) < n) => Len(frame) - n \in 0 .. Len(frame)
      BY <3>1
    <3> QED BY <3>2, TwoPieces DEF Chop, n
  <2>2. Decode(protocol, frame) = Message("reply", 0, contents)
    BY <1>6 DEF Decode
  <2> QED BY <1>1, <1>3, <1>4, <2>1, <2>2
<1>7. CASE protocol = "basic"
  <2>1. Len(frame) >= 1 + WordBytes
    BY <1>2, <1>7 DEF DecodeError
  <2> DEFINE id == SubSeq(frame, 2, 1 + WordBytes)
             contents == SubSeq(frame, 2 + WordBytes, Len(frame))
  <2>2. id \in Seq(Byte) /\ Len(id) = WordBytes
    <3>1. /\ 2 \in Nat \ {0} /\ 1 + WordBytes \in 0 .. Len(frame)
          /\ 2 <= 1 + WordBytes /\ (1 + WordBytes) - 2 + 1 = WordBytes
      BY <1>2, <2>1
    <3> QED BY <3>1, Piece
  <2>3. contents \in Seq(Byte)
    <3>1. 2 + WordBytes \in Nat \ {0} /\ Len(frame) \in 0 .. Len(frame)
      BY <1>2
    <3> QED BY <3>1, Piece
  <2>4. NetworkToHost(id) \in 0 .. Word - 1
    BY <2>2, ValueOfWord
  <2>5. Decode(protocol, frame) =
          Message(IF frame[1] = LetterA THEN "action" ELSE "reply",
                  NetworkToHost(id), contents)
    BY <1>7 DEF Decode, DecodeBasic
  <2> HIDE DEF id, contents
  <2> QED BY <1>1, <1>3, <2>3, <2>4, <2>5
<1> QED BY <1>1, <1>5, <1>6, <1>7 DEF Protocols

-----------------------------------------------------------------------------
(* The chain of reads.                                                     *)

Kinds == {"none", "until", "length", "contents"}

Reads == [kind : Kinds, until : Seq(Byte), want : Nat, got : Nat]

(* The records of the reads. *)
LEMMA ReadFacts ==
  /\ NoRead \in Reads /\ NoRead.kind = "none"
  /\ \A terminator \in Seq(Byte) :
       /\ Until(terminator) \in Reads
       /\ Until(terminator).kind = "until"
       /\ Until(terminator).until = terminator
       /\ Until(terminator).got = 0
  /\ \A kind \in Kinds, bytes \in Nat :
       /\ Exactly(kind, bytes) \in Reads
       /\ Exactly(kind, bytes).kind = kind
       /\ Exactly(kind, bytes).want = bytes
       /\ Exactly(kind, bytes).got = 0
  /\ \A read \in Reads, n \in Nat :
       LET grown == [read EXCEPT !.got = @ + n]
       IN  /\ grown \in Reads
           /\ grown.kind = read.kind
           /\ grown.until = read.until
           /\ grown.want = read.want
           /\ grown.got = read.got + n
<1>1. <<>> \in Seq(Byte) /\ {"none", "until"} \subseteq Kinds
  BY DEF Kinds
<1>2. /\ NoRead \in Reads /\ NoRead.kind = "none" /\ NoRead.got = 0
  <2> HIDE DEF Kinds
  <2> QED BY <1>1 DEF NoRead, Reads
<1>3. ASSUME NEW read \in Reads, NEW kind \in Kinds
      PROVE  LET given == [read EXCEPT !.kind = kind]
             IN  /\ given \in Reads /\ given.kind = kind
                 /\ given.got = read.got
  BY DEF Reads
<1>4. ASSUME NEW terminator \in Seq(Byte)
      PROVE  /\ Until(terminator) \in Reads
             /\ Until(terminator).kind = "until"
             /\ Until(terminator).until = terminator
             /\ Until(terminator).got = 0
  <2> DEFINE r == [NoRead EXCEPT !.kind = "until"]
  <2>1. r \in Reads /\ r.kind = "until" /\ r.got = 0
    BY <1>1, <1>2, <1>3
  <2>2. Until(terminator) = [r EXCEPT !.until = terminator]
    BY DEF Until
  <2> HIDE DEF r
  <2> QED BY <2>1, <2>2 DEF Reads
<1>5. ASSUME NEW kind \in Kinds, NEW bytes \in Nat
      PROVE  /\ Exactly(kind, bytes) \in Reads
             /\ Exactly(kind, bytes).kind = kind
             /\ Exactly(kind, bytes).want = bytes
             /\ Exactly(kind, bytes).got = 0
  <2> DEFINE r == [NoRead EXCEPT !.kind = kind]
  <2>1. r \in Reads /\ r.kind = kind /\ r.got = 0
    BY <1>2, <1>3
  <2>2. Exactly(kind, bytes) = [r EXCEPT !.want = bytes]
    BY DEF Exactly
  <2> HIDE DEF r
  <2> QED BY <2>1, <2>2 DEF Reads
<1>6. ASSUME NEW read \in Reads, NEW n \in Nat
      PROVE  LET grown == [read EXCEPT !.got = @ + n]
             IN  /\ grown \in Reads
                 /\ grown.kind = read.kind
                 /\ grown.until = read.until
                 /\ grown.want = read.want
                 /\ grown.got = read.got + n
  BY DEF Reads
<1> QED BY <1>2, <1>4, <1>5, <1>6

(* The types, and for the messages what Decode and the peer make of them. *)
TypeInv ==
  /\ protocol_ \in Protocols /\ peer \in Protocols
  /\ switches \in 0 .. MaxSwitches
  /\ input_buffer_ \in Seq(Byte) /\ wire \in Seq(Byte) /\ taken \in Seq(Byte)
  /\ posted \in Nat
  /\ reading \in Reads
  /\ sent \in Seq(AnyMessage) /\ Len(sent) <= MaxSends
  /\ received \in Seq(AnyMessage)
  /\ closed \in BOOLEAN /\ told \in BOOLEAN
  /\ fault \in {"none", "handler", "protocol_error", "invalid_value",
                "not_implemented_yet"}

(* One read is asked for or outstanding until something ended the chain,   *)
(* and a read of a number of bytes has its bytes in the buffer.            *)
ChainInv ==
  /\ posted + (IF reading.kind = "none" THEN 0 ELSE 1)
       = IF told \/ fault # "none" THEN 0 ELSE 1
  /\ Exact => /\ reading.got <= reading.want
              /\ reading.got <= Len(input_buffer_)
  /\ reading.kind = "length" => reading.want = WordBytes

ReadInv == TypeInv /\ ChainInv

LEMMA InitReads == Init => ReadInv
<1> SUFFICES ASSUME Init PROVE ReadInv
  OBVIOUS
<1>1. <<>> \in Seq(Byte) /\ <<>> \in Seq(AnyMessage)
  OBVIOUS
<1>2. 0 \in 0 .. MaxSwitches /\ 0 <= MaxSends
  BY ReceiverAssumption
<1>3. NoRead \in Reads
  BY ReadFacts
<1>4. protocol_ \in Protocols
  BY ReceiverAssumption DEF Init
<1>5. TypeInv
  <2> HIDE DEF NoRead
  <2> QED BY <1>1, <1>2, <1>3, <1>4 DEF Init, TypeInv
<1>6. ChainInv
  BY DEF Init, ChainInv, Exact, NoRead
<1> QED BY <1>5, <1>6 DEF ReadInv

(* What a read can still use, and what a completed one hands over. *)
LEMMA RoomFacts ==
  ASSUME ReadInv, NEW n \in 1 .. Min({Room, Len(wire)})
  PROVE  /\ n \in 1 .. Len(wire)
         /\ reading.kind # "none"
         /\ Exact => reading.got + n <= reading.want
<1> USE DEF ReadInv
<1>1. reading.kind \in Kinds /\ reading.want \in Nat /\ reading.got \in Nat
  BY DEF TypeInv, Reads
<1>2. Len(wire) \in Nat
  BY DEF TypeInv
<1>3. /\ Room \in Nat
      /\ reading.kind = "none" => Room = 0
      /\ Exact => Room = reading.want - reading.got
  <2>1. CASE reading.kind = "until"
    <3>1. ~ Exact
      BY <2>1 DEF Exact
    <3>2. Room = IF Found = {} THEN Len(wire) ELSE 0
      BY <2>1, <3>1 DEF Room
    <3> QED BY <1>2, <2>1, <3>1, <3>2
  <2>2. CASE Exact
    <3>1. Room = reading.want - reading.got
      BY <2>2 DEF Room, Exact
    <3>2. reading.got <= reading.want
      BY <2>2 DEF ChainInv
    <3> QED BY <1>1, <2>2, <3>1, <3>2 DEF Exact
  <2>3. CASE reading.kind = "none"
    BY <2>3 DEF Room, Exact
  <2> QED BY <1>1, <2>1, <2>2, <2>3 DEF Kinds, Exact
<1> DEFINE room == Room
           len == Len(wire)
           m == Min({room, len})
<1>4. m \in {room, len} /\ m <= room /\ m <= len
  <2> HIDE DEF room, len
  <2>1. room \in Nat /\ len \in Nat
    BY <1>2, <1>3 DEF room, len
  <2> QED BY <2>1, PairMin
<1> HIDE DEF m
<1>5. n \in 1 .. m
  BY DEF m
<1> HIDE DEF room, len
<1>6. n <= len /\ n <= room /\ n \in Nat \ {0}
  <2>1. room \in Nat /\ len \in Nat
    BY <1>2, <1>3 DEF room, len
  <2> QED BY <1>4, <1>5, <2>1
<1>7. n \in 1 .. Len(wire)
  BY <1>2, <1>6 DEF len
<1>8. reading.kind # "none"
  BY <1>3, <1>6 DEF room
<1>9. Exact => reading.got + n <= reading.want
  BY <1>1, <1>3, <1>6 DEF room
<1> QED BY <1>7, <1>8, <1>9

LEMMA CompleteFacts ==
  ASSUME ReadInv, Complete
  PROVE  /\ reading.kind # "none"
         /\ Transferred \in 0 .. Len(input_buffer_)
         /\ reading.kind = "until" =>
              Transferred \in Ends(input_buffer_, reading.until)
         /\ reading.kind # "until" =>
              /\ Transferred = reading.want
              /\ reading.kind = "length" => Transferred = WordBytes
<1> USE DEF ReadInv
<1>1. /\ input_buffer_ \in Seq(Byte) /\ reading.until \in Seq(Byte)
      /\ reading.want \in Nat /\ reading.got \in Nat
  BY DEF TypeInv, Reads
<1>2. CASE reading.kind = "until"
  <2>1. Ends(input_buffer_, reading.until) # {}
    BY <1>2 DEF Complete, Found, Exact
  <2>2. Transferred = Min(Ends(input_buffer_, reading.until))
    BY <1>2 DEF Transferred, Found
  <2>3. /\ Transferred \in Ends(input_buffer_, reading.until)
        /\ Transferred \in Len(reading.until) .. Len(input_buffer_)
    BY <1>1, <2>1, <2>2, FirstEnd
  <2>4. Len(reading.until) \in Nat /\ Len(input_buffer_) \in Nat
    BY <1>1
  <2>5. Transferred \in 0 .. Len(input_buffer_)
    BY <2>3, <2>4
  <2> QED BY <1>2, <2>3, <2>5
<1>3. CASE reading.kind # "until"
  <2>1. Exact /\ reading.got = reading.want
    BY <1>3 DEF Complete
  <2>2. Transferred = reading.want
    BY <1>3 DEF Transferred
  <2>3. /\ reading.got <= Len(input_buffer_)
        /\ reading.kind = "length" => reading.want = WordBytes
    BY <2>1 DEF ChainInv
  <2>4. reading.want \in 0 .. Len(input_buffer_)
    BY <1>1, <2>1, <2>3
  <2> QED BY <1>3, <2>1, <2>2, <2>3, <2>4 DEF Exact
<1> QED BY <1>2, <1>3

(* Consuming moves bytes, and loses none. *)
LEMMA ConsumeFacts ==
  ASSUME TypeInv, NEW n \in 0 .. Len(input_buffer_), Consume(n)
  PROVE  /\ taken' \in Seq(Byte) /\ input_buffer_' \in Seq(Byte)
         /\ SubSeq(input_buffer_, 1, n) \in Seq(Byte)
         /\ Len(SubSeq(input_buffer_, 1, n)) = n
         /\ taken' = taken \o SubSeq(input_buffer_, 1, n)
         /\ taken' \o input_buffer_' = taken \o input_buffer_
<1> DEFINE front == SubSeq(input_buffer_, 1, n)
           back == SubSeq(input_buffer_, n + 1, Len(input_buffer_))
<1>1. taken \in Seq(Byte) /\ input_buffer_ \in Seq(Byte)
  BY DEF TypeInv
<1>2. /\ front \in Seq(Byte) /\ Len(front) = n
      /\ back \in Seq(Byte) /\ front \o back = input_buffer_
  BY <1>1, TwoPieces
<1>3. taken' = taken \o front /\ input_buffer_' = back
  BY DEF Consume
<1> HIDE DEF front, back
<1>4. (taken \o front) \o back = taken \o (front \o back)
  <2>1. front \in Seq(Byte) /\ back \in Seq(Byte)
    BY <1>2
  <2> QED BY <1>1, <2>1, Assoc
<1>5. taken \o front \in Seq(Byte)
  BY <1>1, <1>2, ConcatProperties
<1> QED BY <1>2, <1>3, <1>4, <1>5 DEF front

(* A read that fails consumes a part of the buffer: what it has            *)
(* transferred, or nothing.                                                *)
LEMMA FailureConsumes ==
  ASSUME ReadInv, ReceiveFails
  PROVE  \E n \in 0 .. Len(input_buffer_) : Consume(n)
<1>1. /\ reading.got \in Nat /\ Len(input_buffer_) \in Nat
      /\ Exact => reading.got <= Len(input_buffer_)
  BY DEF ReadInv, TypeInv, ChainInv, Reads
<1>2. PICK n \in {0, IF Exact THEN reading.got ELSE 0} : Consume(n)
  BY DEF ReceiveFails
<1>3. n \in 0 .. Len(input_buffer_)
  BY <1>1, <1>2
<1> QED BY <1>2, <1>3

LEMMA NextReads ==
  ASSUME ReadInv, [Next]_vars
  PROVE  ReadInv'
<1> USE DEF ReadInv
<1>0. /\ reading.kind \in Kinds /\ reading.want \in Nat /\ reading.got \in Nat
      /\ input_buffer_ \in Seq(Byte) /\ wire \in Seq(Byte) /\ posted \in Nat
      /\ WordBytes \in Nat /\ protocol_ \in Protocols
      /\ reading.until \in Seq(Byte)
  BY CodecAssumption DEF TypeInv, Reads
<1>n. NoRead.kind = "none" /\ NoRead.want = 0 /\ NoRead.got = 0
  BY DEF NoRead
<1>o. NoRead \in Reads
  BY ReadFacts
<1>1. ASSUME NEW m \in Messages, PeerSends(m) PROVE ReadInv'
  <2>1. m \in AnyMessage
    BY ReceiverAssumption
  <2>2. peer \in Protocols \ {"compressed"}
    BY <1>1 DEF PeerSends, EncodeThrows, TypeInv
  <2>3. Encode(peer, m) \in Seq(Byte)
    BY <2>1, <2>2, EncodeType
  <2>4. wire' \in Seq(Byte)
    <3>1. wire' = wire \o Encode(peer, m)
      BY <1>1 DEF PeerSends
    <3> QED BY <1>0, <2>3, <3>1, ConcatProperties
  <2>5. sent' \in Seq(AnyMessage) /\ Len(sent') <= MaxSends
    <3>1. sent' = Append(sent, m) /\ Len(sent) < MaxSends /\ sent \in Seq(AnyMessage)
      BY <1>1 DEF PeerSends, TypeInv
    <3> QED BY <2>1, <3>1, ReceiverAssumption
  <2>6. TypeInv'
    BY <1>1, <2>4, <2>5 DEF PeerSends, TypeInv, settings
  <2> QED BY <1>1, <2>6 DEF PeerSends, ChainInv, Exact
<1>2. CASE PeerCloses
  <2>1. wire' \in Seq(Byte)
    <3>1. PICK n \in 0 .. Len(wire) : wire' = SubSeq(wire, 1, n)
      BY <1>2 DEF PeerCloses
    <3> QED BY <1>0, <3>1, TwoPieces
  <2>2. TypeInv'
    BY <1>2, <2>1 DEF PeerCloses, TypeInv, settings
  <2> QED BY <1>2, <2>2 DEF PeerCloses, ChainInv, Exact
<1>3. CASE Settings
  <2>1. switches' \in 0 .. MaxSwitches
    BY <1>3, ReceiverAssumption
       DEF Settings, SetProtocol, PeerSetProtocol, TypeInv
  <2>2. protocol_' \in Protocols /\ peer' \in Protocols
    BY <1>3 DEF Settings, SetProtocol, PeerSetProtocol, TypeInv
  <2>3. UNCHANGED <<input_buffer_, posted, reading, sent, wire, closed,
                    taken, received, told, fault>>
    BY <1>3 DEF Settings, SetProtocol, PeerSetProtocol, peerVars
  <2>4. TypeInv'
    BY <2>1, <2>2, <2>3 DEF TypeInv
  <2> QED BY <2>3, <2>4 DEF ChainInv, Exact
<1>4. CASE BytesArrive
  <2>1. PICK n \in 1 .. Min({Room, Len(wire)}) :
          /\ input_buffer_' = input_buffer_ \o SubSeq(wire, 1, n)
          /\ wire' = SubSeq(wire, n + 1, Len(wire))
          /\ reading' = [reading EXCEPT !.got = @ + n]
          /\ UNCHANGED <<settings, posted, sent, closed,
                         taken, received, told, fault>>
    BY <1>4 DEF BytesArrive
  <2>2. n \in 1 .. Len(wire) /\ (Exact => reading.got + n <= reading.want)
    BY RoomFacts
  <2>3. /\ SubSeq(wire, 1, n) \in Seq(Byte) /\ Len(SubSeq(wire, 1, n)) = n
        /\ wire' \in Seq(Byte)
    <3>1. wire \in Seq(Byte) /\ n \in 0 .. Len(wire)
      BY <1>0, <2>2
    <3>2. /\ SubSeq(wire, 1, n) \in Seq(Byte) /\ Len(SubSeq(wire, 1, n)) = n
          /\ SubSeq(wire, n + 1, Len(wire)) \in Seq(Byte)
      BY ONLY <3>1, TwoPieces
    <3> QED BY <2>1, <3>2
  <2>4. /\ input_buffer_' \in Seq(Byte)
        /\ Len(input_buffer_') = Len(input_buffer_) + n
    BY <1>0, <2>1, <2>3, ConcatProperties
  <2>5. /\ reading' \in Reads
        /\ reading'.kind = reading.kind /\ reading'.want = reading.want
        /\ reading'.got = reading.got + n
    <3>1. reading \in Reads
      BY DEF TypeInv
    <3>2. n \in Nat /\ reading' = [reading EXCEPT !.got = @ + n]
      BY <2>1, <2>2
    <3> QED BY <3>1, <3>2, ReadFacts
  <2>6. TypeInv'
    BY <2>1, <2>3, <2>4, <2>5 DEF TypeInv, settings
  <2>7. ChainInv'
    <3>1. Len(input_buffer_) \in Nat
      BY <1>0
    <3>2. Exact' <=> Exact
      BY <2>5 DEF Exact
    <3>3. Exact' => /\ reading'.got <= reading'.want
                    /\ reading'.got <= Len(input_buffer_')
      BY <1>0, <2>2, <2>4, <2>5, <3>1, <3>2 DEF ChainInv
    <3> QED BY <2>1, <2>5, <3>3 DEF ChainInv
  <2> QED BY <2>6, <2>7
<1>5. CASE ReceiveMessage
  <2>1. /\ posted = 1 /\ posted' = 0 /\ ~told /\ fault = "none"
        /\ reading = NoRead
    BY <1>0, <1>5, <1>n DEF ReceiveMessage, ChainInv
  <2>2. UNCHANGED <<settings, input_buffer_, peerVars, taken, received, told>>
    BY <1>5 DEF ReceiveMessage
  <2>3. CASE protocol_ \in {"line", "telnet"}
    <3> DEFINE T == Terminator(protocol_)
    <3>1. reading' = Until(T) /\ fault' = fault
      BY <1>5, <2>3 DEF ReceiveMessage, Starts
    <3>2. T \in Seq(Byte)
      BY TerminatorType
    <3> HIDE DEF T
    <3>4. reading' \in Reads /\ reading'.kind = "until"
      BY <3>1, <3>2, ReadFacts
    <3>5. TypeInv'
      BY <2>1, <2>2, <3>1, <3>4 DEF TypeInv, settings, peerVars
    <3> QED BY <2>1, <2>2, <3>1, <3>4, <3>5 DEF ChainInv, Exact
  <2>4. CASE protocol_ = "basic"
    <3>1. reading' = Exactly("length", WordBytes) /\ fault' = fault
      BY <1>5, <2>4 DEF ReceiveMessage, Starts
    <3>2. "length" \in Kinds
      BY DEF Kinds
    <3>3. /\ reading' \in Reads
          /\ reading'.kind = "length" /\ reading'.want = WordBytes
          /\ reading'.got = 0
      BY <1>0, <3>1, <3>2, ReadFacts
    <3>4. TypeInv'
      BY <2>1, <2>2, <3>1, <3>3 DEF TypeInv, settings, peerVars
    <3>5. Len(input_buffer_') \in Nat
      BY <1>0, <2>2
    <3> QED BY <1>0, <2>1, <2>2, <3>1, <3>3, <3>4, <3>5 DEF ChainInv, Exact
  <2>5. CASE protocol_ \in {"direct", "compressed"}
    <3>1. fault' = "not_implemented_yet" /\ reading' = reading
      BY <1>5, <2>5 DEF ReceiveMessage, Starts
    <3>2. TypeInv'
      BY <2>1, <2>2, <3>1 DEF TypeInv, settings, peerVars
    <3> QED BY <1>n, <2>1, <2>2, <3>1, <3>2 DEF ChainInv, Exact
  <2> QED BY <1>0, <2>3, <2>4, <2>5 DEF Protocols
<1>6. CASE ReceiveLength
  <2>1. /\ Complete /\ reading.kind = "length" /\ Consume(WordBytes)
        /\ reading' = Exactly("contents",
                        NetworkToHost(SubSeq(input_buffer_, 1, WordBytes)))
        /\ UNCHANGED <<settings, posted, peerVars, received, told, fault>>
    BY <1>6 DEF ReceiveLength
  <2>2. WordBytes \in 0 .. Len(input_buffer_)
    BY <2>1, CompleteFacts
  <2> DEFINE bytes == SubSeq(input_buffer_, 1, WordBytes)
  <2>3. /\ taken' \in Seq(Byte) /\ input_buffer_' \in Seq(Byte)
        /\ bytes \in Seq(Byte) /\ Len(bytes) = WordBytes
    BY <2>1, <2>2, ConsumeFacts
  <2> DEFINE want == NetworkToHost(bytes)
  <2>4. want \in Nat
    <3>1. want \in 0 .. Word - 1
      BY <2>3, ValueOfWord
    <3> QED BY <3>1
  <2> HIDE DEF want, bytes
  <2>5. "contents" \in Kinds
    BY DEF Kinds
  <2>6. /\ reading' \in Reads
        /\ reading'.kind = "contents" /\ reading'.want = want /\ reading'.got = 0
    <3>1. reading' = Exactly("contents", want)
      BY <2>1 DEF want, bytes
    <3> QED BY <2>4, <2>5, <3>1, ReadFacts
  <2>7. TypeInv'
    BY <2>1, <2>3, <2>6 DEF TypeInv, settings, peerVars
  <2>8. Len(input_buffer_') \in Nat
    BY <2>3
  <2> QED BY <2>1, <2>4, <2>6, <2>7, <2>8 DEF ChainInv, Exact
<1>7. CASE DecodeFails
  <2>1. /\ Complete /\ reading' = NoRead
        /\ fault' \in {"protocol_error", "invalid_value", "not_implemented_yet"}
        /\ UNCHANGED <<settings, input_buffer_, posted, peerVars,
                       taken, received, told>>
    BY <1>7 DEF DecodeFails, DecodeError
  <2>2. reading.kind # "none"
    BY <2>1, CompleteFacts
  <2>3. posted = 0
    BY <1>0, <2>2 DEF ChainInv
  <2>4. TypeInv'
    BY <1>o, <2>1 DEF TypeInv, settings, peerVars
  <2> QED BY <1>n, <2>1, <2>3, <2>4 DEF ChainInv, Exact
<1>8. CASE ReceiveSucceeds
  <2> DEFINE frame == SubSeq(input_buffer_, 1, Transferred)
  <2>1. /\ Complete /\ reading' = NoRead /\ Consume(Transferred)
        /\ DecodeError(protocol_, frame) = "none"
        /\ received' = Append(received, Decode(protocol_, frame))
        /\ \/ posted' = posted + 1 /\ fault' = fault
           \/ fault' = "handler" /\ posted' = posted
        /\ UNCHANGED <<settings, peerVars, told>>
    BY <1>8 DEF ReceiveSucceeds
  <2>2. Transferred \in 0 .. Len(input_buffer_) /\ reading.kind # "none"
    BY <2>1, CompleteFacts
  <2>3. taken' \in Seq(Byte) /\ input_buffer_' \in Seq(Byte) /\ frame \in Seq(Byte)
    BY <2>1, <2>2, ConsumeFacts
  <2>4. Decode(protocol_, frame) \in AnyMessage
    BY <1>0, <2>1, <2>3, DecodeType
  <2>5. posted = 0 /\ ~told /\ fault = "none"
    BY <1>0, <2>2 DEF ChainInv
  <2> DEFINE m == Decode(protocol_, frame)
  <2> HIDE DEF frame, m
  <2>6. received' \in Seq(AnyMessage)
    <3>1. received \in Seq(AnyMessage)
      BY DEF TypeInv
    <3> QED BY <2>1, <2>4, <3>1 DEF frame, m
  <2>7. TypeInv'
    BY <1>o, <2>1, <2>3, <2>5, <2>6 DEF TypeInv, settings, peerVars
  <2> QED BY <1>n, <2>1, <2>5, <2>7 DEF ChainInv, Exact
<1>9. CASE ReceiveFails
  <2>1. /\ reading.kind # "none" /\ told' = TRUE /\ reading' = NoRead
        /\ fault' \in {fault, "handler"}
        /\ UNCHANGED <<settings, posted, peerVars, received>>
    BY <1>9 DEF ReceiveFails
  <2>2. PICK n \in 0 .. Len(input_buffer_) : Consume(n)
    BY <1>0, <1>9, FailureConsumes
  <2>3. taken' \in Seq(Byte) /\ input_buffer_' \in Seq(Byte)
    BY <1>0, <2>2, ConsumeFacts
  <2>4. posted = 0
    BY <1>0, <2>1 DEF ChainInv
  <2>5. TypeInv'
    BY <1>o, <2>1, <2>3 DEF TypeInv, settings, peerVars
  <2> QED BY <1>n, <2>1, <2>4, <2>5 DEF ChainInv, Exact
<1>10. CASE UNCHANGED vars
  <2>1. TypeInv'
    BY <1>10 DEF vars, settings, peerVars, TypeInv
  <2> QED BY <1>10, <2>1 DEF vars, settings, peerVars, ChainInv, Exact
<1> QED BY <1>1, <1>2, <1>3, <1>4, <1>5, <1>6, <1>7, <1>8, <1>9, <1>10
        DEF Next, PeerSteps, Settings, Handlers

(* The chain of reads neither breaks nor forks: receiver.hpp promises that *)
(* receiving continues, and one buffer bears one read at a time.           *)
THEOREM ReceivingIsAChain == Spec => []ReadChain
<1>1. ReadInv => ReadChain
  BY DEF ReadInv, TypeInv, ChainInv, ReadChain, TypeOK, Kinds, Reads
<1> QED BY <1>1, InitReads, NextReads, PTL DEF Spec

-----------------------------------------------------------------------------
(* Prefixes.                                                               *)

LEMMA PrefixIsFront ==
  ASSUME NEW s \in Seq(Byte), NEW t \in Seq(Byte)
  PROVE  IsPrefix(s, t) <=> \E u \in Seq(Byte) : t = s \o u
<1>1. ASSUME IsPrefix(s, t) PROVE \E u \in Seq(Byte) : t = s \o u
  <2>1. Len(s) \in 0 .. Len(t) /\ SubSeq(s, 1, Len(s)) = SubSeq(t, 1, Len(s))
    BY <1>1 DEF IsPrefix
  <2>2. s = SubSeq(t, 1, Len(s))
    BY <2>1, SubSeqFull
  <2> DEFINE u == SubSeq(t, Len(s) + 1, Len(t))
  <2>3. u \in Seq(Byte) /\ SubSeq(t, 1, Len(s)) \o u = t
    BY <2>1, TwoPieces
  <2> HIDE DEF u
  <2> QED BY <2>2, <2>3
<1>2. ASSUME NEW u \in Seq(Byte), t = s \o u PROVE IsPrefix(s, t)
  <2>1. Len(t) = Len(s) + Len(u) /\ Len(s) \in Nat /\ Len(u) \in Nat
    BY <1>2, Concat
  <2>2. \A i \in 1 .. Len(s) : t[i] = s[i]
    BY <1>2, ConcatProperties
  <2>3. Len(s) \in 0 .. Len(t)
    BY <2>1
  <2>4. SubSeq(t, 1, Len(s)) = SubSeq(s, 1, Len(s))
    <3>1. /\ SubSeq(t, 1, Len(s)) \in Seq(Byte)
          /\ Len(SubSeq(t, 1, Len(s))) = Len(s)
      BY <2>3, TwoPieces
    <3>2. /\ 1 \in Int /\ Len(s) \in Int /\ Len(s) - 1 + 1 = Len(s)
          /\ \A i \in 1 .. Len(s) : t[i] \in Byte
      BY <2>1, <2>2
    <3>3. \A i \in 1 .. Len(s) - 1 + 1 : SubSeq(t, 1, Len(s))[i] = t[1 + i - 1]
      BY <3>2, SubSeqProperties
    <3>4. \A i \in 1 .. Len(s) : SubSeq(t, 1, Len(s))[i] = s[i]
      BY <2>2, <3>2, <3>3
    <3>5. SubSeq(t, 1, Len(s)) = s
      BY <3>1, <3>4, SeqEqual
    <3> QED BY <3>5, SubSeqFull
  <2> QED BY <2>1, <2>4 DEF IsPrefix
<1> QED BY <1>1, <1>2

LEMMA PrefixLonger ==
  ASSUME NEW s \in Seq(Byte), NEW t \in Seq(Byte), NEW u \in Seq(Byte),
         IsPrefix(s, t)
  PROVE  IsPrefix(s, t \o u)
<1>1. PICK v \in Seq(Byte) : t = s \o v
  BY PrefixIsFront
<1>2. v \o u \in Seq(Byte) /\ t \o u = s \o (v \o u) /\ t \o u \in Seq(Byte)
  BY <1>1, Concat, Assoc
<1> QED BY <1>2, PrefixIsFront

LEMMA PrefixShorter ==
  ASSUME NEW s \in Seq(Byte), NEW t \in Seq(Byte), NEW u \in Seq(Byte),
         IsPrefix(s \o u, t)
  PROVE  IsPrefix(s, t)
<1>1. s \o u \in Seq(Byte)
  BY Concat
<1>2. PICK v \in Seq(Byte) : t = (s \o u) \o v
  BY <1>1, PrefixIsFront
<1>3. u \o v \in Seq(Byte) /\ t = s \o (u \o v)
  BY <1>2, Concat, Assoc
<1> QED BY <1>3, PrefixIsFront

-----------------------------------------------------------------------------
(* Decoding is the inverse of encoding, on frames that are complete.       *)

(* A piece of a front. *)
LEMMA FrontOfFront ==
  ASSUME NEW s \in Seq(Byte), NEW n \in 0 .. Len(s), NEW k \in 0 .. n
  PROVE  SubSeq(SubSeq(s, 1, n), 1, k) = SubSeq(s, 1, k)
<1> DEFINE front == SubSeq(s, 1, n)
<1>1. front \in Seq(Byte) /\ Len(front) = n
  BY TwoPieces
<1>2. \A i \in 1 .. n : front[i] = s[i]
  <2>1. 1 \in Int /\ n \in Int /\ n - 1 + 1 = n /\ \A i \in 1 .. n : s[i] \in Byte
    OBVIOUS
  <2>2. \A i \in 1 .. n - 1 + 1 : front[i] = s[1 + i - 1]
    BY <2>1, SubSeqProperties
  <2> QED BY <2>1, <2>2
<1> HIDE DEF front
<1>3. k \in 0 .. Len(front) /\ k \in 0 .. Len(s)
  BY <1>1
<1>4. /\ SubSeq(front, 1, k) \in Seq(Byte) /\ Len(SubSeq(front, 1, k)) = k
      /\ SubSeq(s, 1, k) \in Seq(Byte) /\ Len(SubSeq(s, 1, k)) = k
  BY <1>1, <1>3, TwoPieces
<1>5. ASSUME NEW i \in 1 .. k
      PROVE  SubSeq(front, 1, k)[i] = SubSeq(s, 1, k)[i]
  <2>1. /\ 1 \in Int /\ k \in Int /\ i \in 1 .. k - 1 + 1 /\ 1 + i - 1 = i
        /\ \A j \in 1 .. k : front[j] \in Byte /\ s[j] \in Byte
    BY <1>1, <1>3
  <2>2. SubSeq(front, 1, k)[i] = front[1 + i - 1]
    BY <2>1, SubSeqProperties
  <2>3. SubSeq(s, 1, k)[i] = s[1 + i - 1]
    BY <2>1, SubSeqProperties
  <2> QED BY <1>2, <2>1, <2>2, <2>3
<1> QED BY <1>4, <1>5, SeqEqual DEF front

(* What a read for a terminator hands over is a line. *)
LEMMA LineFrame ==
  ASSUME NEW protocol \in {"line", "telnet"}, NEW bytes \in Seq(Byte),
         NEW n \in Ends(bytes, Terminator(protocol))
  PROVE  LET frame == SubSeq(bytes, 1, n)
         IN  Encode(protocol, Decode(protocol, frame)) = frame
<1> DEFINE T == Terminator(protocol)
           frame == SubSeq(bytes, 1, n)
           contents == SubSeq(bytes, 1, n - Len(T))
<1>1. T \in Seq(Byte) /\ Len(T) \in Nat
  BY TerminatorType
<1>2. /\ n \in Len(T) .. Len(bytes)
      /\ SubSeq(bytes, n - Len(T) + 1, n) = T
  BY DEF Ends
<1> HIDE DEF T
<1>3. /\ n \in 0 .. Len(bytes) /\ n - Len(T) \in 0 .. n
      /\ n - Len(T) \in 0 .. Len(bytes)
  BY <1>1, <1>2
<1>4. frame = contents \o T
  <2>1. /\ 1 \in 1 .. Len(bytes) + 1 /\ n - Len(T) \in 1 - 1 .. Len(bytes)
        /\ n \in n - Len(T) .. Len(bytes)
    BY <1>1, <1>3
  <2>2. contents \o SubSeq(bytes, n - Len(T) + 1, n) = frame
    BY <2>1, ConcatAdjacentSubSeq
  <2> QED BY <1>2, <2>2
<1>5. Len(frame) = n
  BY <1>3, TwoPieces
<1>6. Chop(frame, Len(T)) = contents
  <2>1. ~ (Len(frame) < Len(T))
    BY <1>1, <1>2, <1>5
  <2>2. SubSeq(frame, 1, n - Len(T)) = contents
    BY <1>3, FrontOfFront
  <2> HIDE DEF frame, contents
  <2> QED BY <1>5, <2>1, <2>2 DEF Chop
<1>7. Decode(protocol, frame) = Message("reply", 0, contents)
  <2> HIDE DEF frame, contents
  <2> QED BY <1>6 DEF Decode, T
<1>8. Encode(protocol, Message("reply", 0, contents)) = contents \o T
  BY DEF Encode, Message, T
<1> QED BY <1>4, <1>7, <1>8

(* The parts of a basic frame. *)
LEMMA BasicParts ==
  ASSUME NEW frame \in Seq(Byte), Len(frame) >= 1 + WordBytes
  PROVE  LET id == SubSeq(frame, 2, 1 + WordBytes)
             contents == SubSeq(frame, 2 + WordBytes, Len(frame))
         IN  /\ id \in Seq(Byte) /\ Len(id) = WordBytes
             /\ contents \in Seq(Byte)
             /\ frame = (<<frame[1]>> \o id) \o contents
<1> DEFINE id == SubSeq(frame, 2, 1 + WordBytes)
           contents == SubSeq(frame, 2 + WordBytes, Len(frame))
           W == WordBytes
<1>1. W \in Nat \ {0} /\ Len(frame) \in Nat
  BY CodecAssumption
<1> HIDE DEF W
<1>2. SubSeq(frame, 1, 1) = <<frame[1]>>
  <2>1. 1 \in 1 .. Len(frame)
    BY <1>1 DEF W
  <2>2. frame[1] \in Byte
    BY <2>1
  <2>3. /\ SubSeq(frame, 1, 1) \in Seq(Byte)
        /\ Len(SubSeq(frame, 1, 1)) = 1
        /\ SubSeq(frame, 1, 1)[1] = frame[1]
    <3>1. 1 \in Int /\ \A i \in 1 .. 1 : frame[i] \in Byte
      BY <2>2
    <3>2. /\ SubSeq(frame, 1, 1) \in Seq(Byte)
          /\ Len(SubSeq(frame, 1, 1)) = IF 1 <= 1 THEN 1 - 1 + 1 ELSE 0
          /\ \A i \in 1 .. 1 - 1 + 1 : SubSeq(frame, 1, 1)[i] = frame[1 + i - 1]
      BY <3>1, SubSeqProperties
    <3> QED BY <3>2
  <2>4. /\ <<frame[1]>> \in Seq(Byte) /\ Len(<<frame[1]>>) = 1
        /\ <<frame[1]>>[1] = frame[1]
    BY <2>2
  <2> DEFINE s == SubSeq(frame, 1, 1)
             t == <<frame[1]>>
  <2> HIDE DEF s, t
  <2>5. s \in Seq(Byte) /\ t \in Seq(Byte) /\ Len(s) = 1 /\ Len(t) = 1 /\ s[1] = t[1]
    BY <2>3, <2>4 DEF s, t
  <2>6. s = t
    BY <2>5, SeqEqual
  <2> QED BY <2>6 DEF s, t
<1>3. /\ id \in Seq(Byte) /\ Len(id) = W
  <2>1. /\ 2 \in Nat \ {0} /\ 1 + W \in 0 .. Len(frame)
        /\ 2 <= 1 + W /\ (1 + W) - 2 + 1 = W
    BY <1>1 DEF W
  <2> QED BY <2>1, Piece DEF W
<1>4. contents \in Seq(Byte)
  <2>1. 2 + W \in Nat \ {0} /\ Len(frame) \in 0 .. Len(frame)
    BY <1>1
  <2> QED BY <2>1, Piece DEF W
<1>5. SubSeq(frame, 1, 1) \o id = SubSeq(frame, 1, 1 + W)
  <2>1. /\ 1 \in 1 .. Len(frame) + 1 /\ 1 \in 1 - 1 .. Len(frame)
        /\ 1 + W \in 1 .. Len(frame) /\ 1 + 1 = 2
    BY <1>1 DEF W
  <2>2. SubSeq(frame, 1, 1) \o SubSeq(frame, 1 + 1, 1 + W) = SubSeq(frame, 1, 1 + W)
    BY <2>1, ConcatAdjacentSubSeq
  <2> QED BY <2>1, <2>2 DEF W
<1>6. SubSeq(frame, 1, 1 + W) \o contents = frame
  <2>1. 1 + W \in 0 .. Len(frame) /\ (1 + W) + 1 = 2 + W
    BY <1>1 DEF W
  <2>2. SubSeq(frame, 1, 1 + W) \o SubSeq(frame, (1 + W) + 1, Len(frame)) = frame
    BY <2>1, TwoPieces
  <2> QED BY <2>1, <2>2 DEF W
<1> QED BY <1>2, <1>3, <1>4, <1>5, <1>6 DEF W

(* What a read of the given length hands over is a basic frame. *)
LEMMA BasicFrameOfDecoded ==
  ASSUME NEW frame \in Seq(Byte), DecodeError("basic", frame) = "none"
  PROVE  BasicFrame(Decode("basic", frame)) = frame
<1> DEFINE id == SubSeq(frame, 2, 1 + WordBytes)
           contents == SubSeq(frame, 2 + WordBytes, Len(frame))
           type == IF frame[1] = LetterA THEN "action" ELSE "reply"
<1>1. Len(frame) >= 1 + WordBytes /\ frame[1] \in {LetterA, LetterR}
  <2>1. Len(frame) \in Nat /\ WordBytes \in Nat
    BY CodecAssumption
  <2> QED BY <2>1 DEF DecodeError
<1>2. /\ id \in Seq(Byte) /\ Len(id) = WordBytes
      /\ frame = (<<frame[1]>> \o id) \o contents
  BY <1>1, BasicParts
<1>3. TypeLetter(type) = frame[1]
  BY <1>1 DEF TypeLetter
<1>4. HostToNetwork(NetworkToHost(id)) = id
  BY <1>2, ValueOfWord
<1>5. Decode("basic", frame) = Message(type, NetworkToHost(id), contents)
  BY DEF Decode, DecodeBasic
<1> HIDE DEF id, contents, type
<1>6. BasicFrame(Message(type, NetworkToHost(id), contents))
        = (<<TypeLetter(type)>> \o HostToNetwork(NetworkToHost(id))) \o contents
  BY DEF BasicFrame, Message
<1> QED BY <1>2, <1>3, <1>4, <1>5, <1>6

-----------------------------------------------------------------------------
(* The bytes of the stream.                                                *)

(* What was consumed, is in the buffer or is on its way. *)
Stream == (taken \o input_buffer_) \o wire

(* As long as no side changed its protocol both have the same, the reads   *)
(* are those of the protocol, and the stream is what the peer encoded, or  *)
(* what is left of that after a loss.                                      *)
StreamInv ==
  switches = 0 =>
    /\ peer = protocol_
    /\ protocol_ = "compressed" => sent = <<>> /\ received = <<>>
    /\ reading.kind = "until" =>
         /\ protocol_ \in {"line", "telnet"}
         /\ reading.until = Terminator(protocol_)
    /\ Exact => protocol_ = "basic"
    /\ IsPrefix(Stream, Bytes(sent))
    /\ closed \/ Stream = Bytes(sent)

(* And as long as nothing was discarded the messages handed over encode to *)
(* what was consumed, except for the length of an outstanding message.     *)
FrameInv ==
  switches = 0 /\ protocol_ # "direct" /\ ~told /\ fault = "none" =>
    /\ reading.kind = "contents" =>
         /\ reading.want \in 0 .. Word - 1
         /\ taken = Bytes(received) \o HostToNetwork(reading.want)
    /\ reading.kind # "contents" => taken = Bytes(received)

BytesInv == ReadInv /\ StreamInv /\ FrameInv

LEMMA NoBytes == Bytes(<<>>) = <<>>
BY DEF Bytes, FlattenSeq

(* The bytes of messages are bytes. *)
LEMMA BytesType ==
  ASSUME protocol_ \in Protocols, NEW messages \in Seq(AnyMessage),
         protocol_ = "compressed" => messages = <<>>
  PROVE  Bytes(messages) \in Seq(Byte)
<1>1. CASE protocol_ = "compressed"
  <2>1. <<>> \in Seq(Byte)
    OBVIOUS
  <2> QED BY <1>1, <2>1, NoBytes
<1>2. CASE protocol_ # "compressed"
  <2>1. Message("reply", 0, <<>>) \in AnyMessage
    <3>1. Word \in Nat \ {0}
      BY PlaceFacts, CodecAssumption DEF Word
    <3>2. 0 \in 0 .. Word - 1
      BY <3>1
    <3> QED BY <3>2 DEF Message, AnyMessage
  <2> QED BY <1>2, <2>1, BytesFacts
<1> QED BY <1>1, <1>2

LEMMA StreamType ==
  ASSUME TypeInv
  PROVE  /\ taken \o input_buffer_ \in Seq(Byte)
         /\ Stream \in Seq(Byte)
<1>1. taken \in Seq(Byte) /\ input_buffer_ \in Seq(Byte) /\ wire \in Seq(Byte)
  BY DEF TypeInv
<1>2. taken \o input_buffer_ \in Seq(Byte)
  BY <1>1, Concat
<1> DEFINE front == taken \o input_buffer_
<1>3. Stream = front \o wire
  BY DEF Stream
<1> HIDE DEF front
<1>4. Stream \in Seq(Byte)
  BY <1>1, <1>2, <1>3, Concat DEF front
<1> QED BY <1>2, <1>4

LEMMA StreamLength ==
  ASSUME TypeInv
  PROVE  /\ Len(Stream) = (Len(taken) + Len(input_buffer_)) + Len(wire)
         /\ Len(taken) \in Nat /\ Len(input_buffer_) \in Nat /\ Len(wire) \in Nat
<1>1. taken \in Seq(Byte) /\ input_buffer_ \in Seq(Byte) /\ wire \in Seq(Byte)
  BY DEF TypeInv
<1> DEFINE front == taken \o input_buffer_
<1>2. front \in Seq(Byte) /\ Len(front) = Len(taken) + Len(input_buffer_)
  BY <1>1, Concat
<1> HIDE DEF front
<1>3. Len(front \o wire) = Len(front) + Len(wire)
  BY <1>1, <1>2, Concat
<1> QED BY <1>1, <1>2, <1>3 DEF Stream, front

LEMMA InitBytes == Init => BytesInv
<1> SUFFICES ASSUME Init PROVE BytesInv
  OBVIOUS
<1>1. ReadInv
  BY InitReads
<1>2. /\ taken = <<>> /\ input_buffer_ = <<>> /\ wire = <<>>
      /\ sent = <<>> /\ received = <<>> /\ reading = NoRead
      /\ peer = protocol_
  BY DEF Init
<1>3. NoRead.kind = "none"
  BY ReadFacts
<1>4. <<>> \in Seq(Byte) /\ (<<>> \o <<>>) \o <<>> = <<>>
  OBVIOUS
<1>5. Stream = <<>>
  BY <1>2, <1>4 DEF Stream
<1>6. IsPrefix(<<>>, <<>>)
  <2>1. <<>> = <<>> \o <<>>
    OBVIOUS
  <2> QED BY <1>4, <2>1, PrefixIsFront
<1>7. StreamInv
  BY <1>2, <1>3, <1>5, <1>6, NoBytes DEF StreamInv, Exact
<1>8. FrameInv
  BY <1>2, <1>3, NoBytes DEF FrameInv
<1> QED BY <1>1, <1>7, <1>8 DEF BytesInv

(* The stream of the next state when its bytes are where they were, and    *)
(* when they move.                                                         *)
LEMMA StreamMoves ==
  ASSUME TypeInv, NEW n \in 1 .. Len(wire),
         UNCHANGED taken,
         input_buffer_' = input_buffer_ \o SubSeq(wire, 1, n),
         wire' = SubSeq(wire, n + 1, Len(wire))
  PROVE  Stream' = Stream
<1> DEFINE front == SubSeq(wire, 1, n)
           back == SubSeq(wire, n + 1, Len(wire))
<1>1. taken \in Seq(Byte) /\ input_buffer_ \in Seq(Byte) /\ wire \in Seq(Byte)
  BY DEF TypeInv
<1>2. front \in Seq(Byte) /\ back \in Seq(Byte) /\ front \o back = wire
  BY <1>1, TwoPieces
<1>3. Stream' = (taken \o (input_buffer_ \o front)) \o back
  BY DEF Stream
<1>4. Stream = (taken \o input_buffer_) \o (front \o back)
  BY <1>2 DEF Stream
<1> HIDE DEF front, back
<1> DEFINE t == taken
           i == input_buffer_
<1> HIDE DEF t, i
<1>5. t \in Seq(Byte) /\ i \in Seq(Byte) /\ t \o i \in Seq(Byte)
  BY <1>1, Concat DEF t, i
<1>f. front \in Seq(Byte)
  BY <1>2
<1>6. t \o (i \o front) = (t \o i) \o front
  BY ONLY <1>f, <1>5, Assoc
<1> DEFINE ti == t \o i
<1>t. ti \in Seq(Byte)
  BY <1>5
<1> HIDE DEF ti
<1>v. (ti \o front) \o back = ti \o (front \o back)
  BY ONLY <1>2, <1>t, Assoc
<1>7. ((t \o i) \o front) \o back = (t \o i) \o (front \o back)
  BY <1>v DEF ti
<1> QED BY <1>3, <1>4, <1>6, <1>7 DEF t, i

LEMMA StreamStays ==
  ASSUME TypeInv, UNCHANGED wire,
         \/ UNCHANGED <<taken, input_buffer_>>
         \/ \E n \in 0 .. Len(input_buffer_) : Consume(n)
  PROVE  Stream' = Stream
<1>1. taken' \o input_buffer_' = taken \o input_buffer_
  BY ConsumeFacts
<1> QED BY <1>1 DEF Stream

(* The bytes of a history under the protocol of the next state. *)
LEMMA BytesUnchanged ==
  ASSUME UNCHANGED protocol_
  PROVE  /\ Bytes(sent)' = Bytes(sent')
         /\ Bytes(received)' = Bytes(received')
BY DEF Bytes

(* A step that leaves the number of switches at zero is none of Settings. *)
LEMMA SameProtocol ==
  ASSUME TypeInv, [Next]_vars, switches' = 0
  PROVE  switches = 0 /\ ~ Settings /\ UNCHANGED <<protocol_, peer>>
<1>1. switches \in Nat
  BY ReceiverAssumption DEF TypeInv
<1>2. ~ Settings
  BY <1>1 DEF Settings, SetProtocol, PeerSetProtocol
<1>3. UNCHANGED settings
  BY <1>2 DEF Next, PeerSteps, PeerSends, PeerCloses, BytesArrive, Handlers,
              ReceiveMessage, ReceiveLength, DecodeFails, ReceiveSucceeds,
              ReceiveFails, vars
<1> QED BY <1>2, <1>3 DEF settings

LEMMA NextStream ==
  ASSUME BytesInv, [Next]_vars
  PROVE  StreamInv'
<1> SUFFICES ASSUME switches' = 0 PROVE StreamInv'
  BY DEF StreamInv
<1>0. TypeInv /\ ReadInv /\ ReadInv' /\ TypeInv'
  BY NextReads DEF BytesInv, ReadInv
<1>1. switches = 0 /\ ~ Settings /\ UNCHANGED <<protocol_, peer>>
  BY <1>0, SameProtocol
<1>2. /\ peer = protocol_
      /\ protocol_ = "compressed" => sent = <<>> /\ received = <<>>
      /\ reading.kind = "until" =>
           /\ protocol_ \in {"line", "telnet"}
           /\ reading.until = Terminator(protocol_)
      /\ Exact => protocol_ = "basic"
      /\ IsPrefix(Stream, Bytes(sent))
      /\ closed \/ Stream = Bytes(sent)
  BY <1>1 DEF BytesInv, StreamInv
<1>3. Bytes(sent)' = Bytes(sent')
  BY <1>1, BytesUnchanged
<1>4. /\ Stream \in Seq(Byte) /\ Bytes(sent) \in Seq(Byte)
      /\ taken \o input_buffer_ \in Seq(Byte) /\ wire \in Seq(Byte)
  BY <1>0, <1>2, StreamType, BytesType DEF TypeInv
<1>n. NoRead.kind = "none"
  BY ReadFacts
(* What is left to show when the histories of the peer stay.               *)
<1>5. ASSUME Stream' = Stream, UNCHANGED <<sent, closed>>,
             protocol_ = "compressed" => received' = <<>>,
             reading'.kind = "until" =>
               /\ protocol_ \in {"line", "telnet"}
               /\ reading'.until = Terminator(protocol_),
             Exact' => protocol_ = "basic"
      PROVE  StreamInv'
  BY <1>1, <1>2, <1>3, <1>5 DEF StreamInv
<1>6. ASSUME NEW m \in Messages, PeerSends(m) PROVE StreamInv'
  <2>1. /\ ~ closed /\ sent' = Append(sent, m)
        /\ wire' = wire \o Encode(peer, m)
        /\ UNCHANGED <<input_buffer_, reading, closed, taken, received>>
        /\ peer # "compressed"
    BY <1>6 DEF PeerSends, EncodeThrows
  <2>2. protocol_ \in Protocols \ {"compressed"} /\ m \in AnyMessage
        /\ sent \in Seq(AnyMessage)
    BY <1>0, <1>2, <2>1, ReceiverAssumption DEF TypeInv
  <2> DEFINE e == Encode(protocol_, m)
  <2>3. e \in Seq(Byte) /\ Bytes(sent') = Bytes(sent) \o e
    BY <2>1, <2>2, EncodeType, BytesFacts
  <2> HIDE DEF e
  <2>4. Stream' = Stream \o e
    <3>1. Stream' = (taken \o input_buffer_) \o (wire \o e)
      BY <1>2, <2>1 DEF Stream, e
    <3> QED BY <1>4, <2>3, <3>1, Assoc DEF Stream
  <2>5. Stream' = Bytes(sent)'
    BY <1>2, <1>3, <2>1, <2>3, <2>4
  <2>6. IsPrefix(Stream, Bytes(sent))'
    <3>1. Stream \o e \in Seq(Byte)
      BY <1>4, <2>3, Concat
    <3>2. <<>> \in Seq(Byte) /\ (Stream \o e) \o <<>> = Stream \o e
      BY <3>1, Concat
    <3>3. IsPrefix(Stream \o e, Stream \o e)
      BY <3>1, <3>2, PrefixIsFront
    <3> QED BY <1>2, <1>3, <2>1, <2>3, <2>4, <3>3
  <2>7. (reading.kind = "until" =>
           /\ protocol_ \in {"line", "telnet"}
           /\ reading.until = Terminator(protocol_))'
    BY <1>1, <1>2, <2>1
  <2>8. (Exact => protocol_ = "basic")'
    BY <1>1, <1>2, <2>1 DEF Exact
  <2> QED BY <1>1, <1>2, <2>2, <2>5, <2>6, <2>7, <2>8 DEF StreamInv
<1>7. CASE PeerCloses
  <2>1. PICK n \in 0 .. Len(wire) : wire' = SubSeq(wire, 1, n)
    BY <1>7 DEF PeerCloses
  <2>2. closed' = TRUE /\ UNCHANGED <<sent, input_buffer_, reading, taken, received>>
    BY <1>7 DEF PeerCloses
  <2> DEFINE rest == SubSeq(wire, n + 1, Len(wire))
             front == SubSeq(wire, 1, n)
  <2>3. front \in Seq(Byte) /\ rest \in Seq(Byte) /\ wire = front \o rest
    BY <1>4, <2>1, TwoPieces
  <2> HIDE DEF rest, front
  <2> DEFINE before == taken \o input_buffer_
  <2>4. Stream' = before \o front
    BY <2>1, <2>2 DEF Stream, front
  <2>5. Stream = before \o (front \o rest)
    BY <2>3 DEF Stream
  <2>6. before \in Seq(Byte)
    BY <1>4
  <2> HIDE DEF before
  <2>7. Stream = (before \o front) \o rest /\ before \o front \in Seq(Byte)
    <3>1. (before \o front) \o rest = before \o (front \o rest)
      BY ONLY <2>3, <2>6, Assoc
    <3>2. before \o front \in Seq(Byte)
      BY ONLY <2>3, <2>6, Concat
    <3> QED BY <2>5, <3>1, <3>2
  <2>8. IsPrefix(before \o front, Bytes(sent))
    BY <1>2, <1>4, <2>3, <2>7, PrefixShorter
  <2>9. IsPrefix(Stream, Bytes(sent))'
    <3>1. Bytes(sent)' = Bytes(sent)
      BY <1>3, <2>2
    <3> QED BY <2>4, <2>8, <3>1
  <2>10. (Exact => protocol_ = "basic")'
    BY <1>1, <1>2, <2>2 DEF Exact
  <2> QED BY <1>1, <1>2, <2>2, <2>9, <2>10 DEF StreamInv
<1>8. CASE BytesArrive
  <2>1. PICK n \in 1 .. Min({Room, Len(wire)}) :
          /\ input_buffer_' = input_buffer_ \o SubSeq(wire, 1, n)
          /\ wire' = SubSeq(wire, n + 1, Len(wire))
          /\ reading' = [reading EXCEPT !.got = @ + n]
          /\ UNCHANGED <<settings, posted, sent, closed,
                         taken, received, told, fault>>
    BY <1>8 DEF BytesArrive
  <2>2. n \in 1 .. Len(wire)
    BY <1>0, RoomFacts
  <2>3. Stream' = Stream
    BY <1>0, <2>1, <2>2, StreamMoves
  <2>4. reading'.kind = reading.kind /\ reading'.until = reading.until
    <3>1. n \in Nat /\ reading \in Reads
      BY <1>0, <2>2 DEF TypeInv
    <3> QED BY <2>1, <3>1, ReadFacts
  <2> QED BY <1>2, <1>5, <2>1, <2>3, <2>4 DEF Exact
<1>9. CASE ReceiveMessage
  <2>1. UNCHANGED <<input_buffer_, sent, wire, closed, taken, received>>
        /\ reading = NoRead
    BY <1>9 DEF ReceiveMessage, peerVars
  <2>2. Stream' = Stream
    BY <1>0, <2>1, StreamStays
  <2>3. CASE protocol_ \in {"line", "telnet"}
    <3>1. reading' = Until(Terminator(protocol_))
      BY <1>9, <2>3 DEF ReceiveMessage, Starts
    <3>2. Terminator(protocol_) \in Seq(Byte)
      BY TerminatorType
    <3>3. reading'.kind = "until" /\ reading'.until = Terminator(protocol_)
      BY <3>1, <3>2, ReadFacts
    <3> QED BY <1>2, <1>5, <2>1, <2>2, <2>3, <3>3 DEF Exact
  <2>4. CASE protocol_ = "basic"
    <3>1. reading' = Exactly("length", WordBytes)
      BY <1>9, <2>4 DEF ReceiveMessage, Starts
    <3>2. "length" \in Kinds /\ WordBytes \in Nat
      BY CodecAssumption DEF Kinds
    <3>3. reading'.kind = "length"
      BY <3>1, <3>2, ReadFacts
    <3> QED BY <1>2, <1>5, <2>1, <2>2, <2>4, <3>3 DEF Exact
  <2>5. CASE protocol_ \in {"direct", "compressed"}
    <3>1. reading' = reading
      BY <1>9, <2>5 DEF ReceiveMessage, Starts
    <3> QED BY <1>2, <1>5, <1>n, <2>1, <2>2, <3>1 DEF Exact
  <2> QED BY <1>0, <2>3, <2>4, <2>5 DEF TypeInv, Protocols
<1>10. CASE ReceiveLength
  <2>1. /\ Complete /\ reading.kind = "length" /\ Consume(WordBytes)
        /\ reading' = Exactly("contents",
                        NetworkToHost(SubSeq(input_buffer_, 1, WordBytes)))
        /\ UNCHANGED <<sent, wire, closed, received>>
    BY <1>10 DEF ReceiveLength, peerVars
  <2>2. WordBytes \in 0 .. Len(input_buffer_)
    BY <1>0, <2>1, CompleteFacts
  <2>3. Stream' = Stream
    BY <1>0, <2>1, <2>2, StreamStays
  <2> DEFINE bytes == SubSeq(input_buffer_, 1, WordBytes)
             want == NetworkToHost(bytes)
  <2>4. bytes \in Seq(Byte) /\ Len(bytes) = WordBytes
    BY <1>0, <2>1, <2>2, ConsumeFacts
  <2>5. want \in Nat
    <3>1. want \in 0 .. Word - 1
      BY <2>4, ValueOfWord
    <3> QED BY <3>1
  <2>6. reading' = Exactly("contents", want)
    BY <2>1
  <2> HIDE DEF bytes, want
  <2>7. reading'.kind = "contents"
    <3>1. "contents" \in Kinds
      BY DEF Kinds
    <3> QED BY <2>5, <2>6, <3>1, ReadFacts
  <2> QED BY <1>2, <1>5, <2>1, <2>3, <2>7 DEF Exact
<1>11. CASE DecodeFails
  <2>1. /\ reading' = NoRead
        /\ UNCHANGED <<input_buffer_, sent, wire, closed, taken, received>>
    BY <1>11 DEF DecodeFails, peerVars
  <2>2. Stream' = Stream
    BY <1>0, <2>1, StreamStays
  <2> QED BY <1>2, <1>5, <1>n, <2>1, <2>2 DEF Exact
<1>12. CASE ReceiveSucceeds
  <2>1. /\ Complete /\ reading' = NoRead /\ Consume(Transferred)
        /\ UNCHANGED <<sent, wire, closed>>
    BY <1>12 DEF ReceiveSucceeds, peerVars
  <2>2. Transferred \in 0 .. Len(input_buffer_) /\ reading.kind # "none"
    BY <1>0, <2>1, CompleteFacts
  <2>3. Stream' = Stream
    BY <1>0, <2>1, <2>2, StreamStays
  <2>4. protocol_ # "compressed"
    BY <1>0, <1>2, <2>2 DEF TypeInv, Reads, Kinds, Exact
  <2> QED BY <1>5, <1>n, <2>1, <2>3, <2>4 DEF Exact
<1>13. CASE ReceiveFails
  <2>1. reading' = NoRead /\ UNCHANGED <<sent, wire, closed, received>>
    BY <1>13 DEF ReceiveFails, peerVars
  <2>2. PICK n \in 0 .. Len(input_buffer_) : Consume(n)
    BY <1>0, <1>13, FailureConsumes
  <2>3. Stream' = Stream
    BY <1>0, <2>1, <2>2, StreamStays
  <2> QED BY <1>2, <1>5, <1>n, <2>1, <2>3 DEF Exact
<1>14. CASE UNCHANGED vars
  <2>1. UNCHANGED <<input_buffer_, sent, wire, closed, taken, received, reading>>
    BY <1>14 DEF vars, peerVars
  <2>2. Stream' = Stream
    BY <2>1 DEF Stream
  <2> QED BY <1>2, <1>5, <2>1, <2>2 DEF Exact
<1> QED BY <1>1, <1>6, <1>7, <1>8, <1>9, <1>10, <1>11, <1>12, <1>13, <1>14
        DEF Next, PeerSteps, Handlers

LEMMA NextFrame ==
  ASSUME BytesInv, [Next]_vars
  PROVE  FrameInv'
<1> SUFFICES ASSUME switches' = 0, protocol_' # "direct", ~ told', fault' = "none"
             PROVE  FrameInv'
  BY DEF FrameInv
<1>0. TypeInv /\ ReadInv /\ StreamInv /\ FrameInv
  BY DEF BytesInv, ReadInv
<1>1. switches = 0 /\ ~ Settings /\ UNCHANGED <<protocol_, peer>>
  BY <1>0, SameProtocol
<1>2. ~ told /\ fault = "none" /\ protocol_ # "direct"
  BY <1>0, <1>1 DEF Next, PeerSteps, PeerSends, PeerCloses, BytesArrive, Handlers,
      ReceiveMessage, Starts, ReceiveLength, DecodeFails, ReceiveSucceeds,
      ReceiveFails, vars, TypeInv
<1>3. /\ reading.kind = "contents" =>
           /\ reading.want \in 0 .. Word - 1
           /\ taken = Bytes(received) \o HostToNetwork(reading.want)
      /\ reading.kind # "contents" => taken = Bytes(received)
  BY <1>0, <1>1, <1>2 DEF FrameInv
<1>4. Bytes(received)' = Bytes(received')
  BY <1>1, BytesUnchanged
<1>5. ASSUME UNCHANGED <<taken, received>>, reading'.kind = reading.kind,
             reading'.want = reading.want
      PROVE  FrameInv'
  BY <1>3, <1>4, <1>5 DEF FrameInv
<1>6. ASSUME UNCHANGED <<taken, received>>, reading.kind # "contents",
             reading'.kind # "contents"
      PROVE  FrameInv'
  BY <1>3, <1>4, <1>6 DEF FrameInv
<1>n. NoRead.kind = "none"
  BY ReadFacts
<1>7. CASE PeerSteps
  BY <1>5, <1>7 DEF PeerSteps, PeerSends, PeerCloses
<1>8. CASE BytesArrive
  <2>1. PICK n \in 1 .. Min({Room, Len(wire)}) :
          /\ reading' = [reading EXCEPT !.got = @ + n]
          /\ UNCHANGED <<taken, received>>
    BY <1>8 DEF BytesArrive
  <2>2. n \in 1 .. Len(wire)
    BY <1>0, RoomFacts
  <2>3. reading'.kind = reading.kind /\ reading'.want = reading.want
    <3>1. n \in Nat /\ reading \in Reads
      BY <1>0, <2>2 DEF TypeInv
    <3> QED BY <2>1, <3>1, ReadFacts
  <2> QED BY <1>5, <2>1, <2>3
<1>9. CASE ReceiveMessage
  <2>1. UNCHANGED <<taken, received>> /\ reading = NoRead
    BY <1>9 DEF ReceiveMessage
  <2>2. reading'.kind # "contents"
    <3>1. /\ Until(Terminator(protocol_)).kind = "until"
          /\ Exactly("length", WordBytes).kind = "length"
      <4>1. /\ "length" \in Kinds /\ WordBytes \in Nat
            /\ Terminator(protocol_) \in Seq(Byte)
        BY CodecAssumption, TerminatorType DEF Kinds
      <4> QED BY <4>1, ReadFacts
    <3> QED BY <1>9, <1>n, <3>1 DEF ReceiveMessage, Starts
  <2> QED BY <1>6, <1>n, <2>1, <2>2
<1>10. CASE ReceiveLength
  <2>1. /\ Complete /\ reading.kind = "length" /\ Consume(WordBytes)
        /\ reading' = Exactly("contents",
                        NetworkToHost(SubSeq(input_buffer_, 1, WordBytes)))
        /\ UNCHANGED received
    BY <1>10 DEF ReceiveLength
  <2>2. WordBytes \in 0 .. Len(input_buffer_)
    BY <1>0, <2>1, CompleteFacts
  <2> DEFINE bytes == SubSeq(input_buffer_, 1, WordBytes)
             want == NetworkToHost(bytes)
  <2>3. /\ bytes \in Seq(Byte) /\ Len(bytes) = WordBytes
        /\ taken' = taken \o bytes
    BY <1>0, <2>1, <2>2, ConsumeFacts
  <2>4. want \in 0 .. Word - 1 /\ HostToNetwork(want) = bytes
    BY <2>3, ValueOfWord
  <2>5. reading' = Exactly("contents", want)
    BY <2>1
  <2> HIDE DEF bytes, want
  <2>6. reading'.kind = "contents" /\ reading'.want = want
    <3>1. "contents" \in Kinds /\ want \in Nat
      BY <2>4 DEF Kinds
    <3> QED BY <2>5, <3>1, ReadFacts
  <2>7. taken' = Bytes(received') \o HostToNetwork(want)
    BY <1>3, <2>1, <2>3, <2>4
  <2> QED BY <1>4, <2>4, <2>6, <2>7 DEF FrameInv
<1>11. CASE DecodeFails
  BY <1>11 DEF DecodeFails
<1>12. CASE ReceiveSucceeds
  <2> DEFINE frame == SubSeq(input_buffer_, 1, Transferred)
             m == Decode(protocol_, frame)
  <2>1. /\ Complete /\ reading.kind # "length" /\ Consume(Transferred)
        /\ DecodeError(protocol_, frame) = "none"
        /\ received' = Append(received, m)
        /\ reading' = NoRead
    BY <1>12 DEF ReceiveSucceeds
  <2>2. /\ Transferred \in 0 .. Len(input_buffer_)
        /\ reading.kind # "none"
        /\ reading.kind = "until" =>
             Transferred \in Ends(input_buffer_, reading.until)
        /\ reading.kind # "until" => Transferred = reading.want
    BY <1>0, <2>1, CompleteFacts
  <2>3. /\ frame \in Seq(Byte) /\ Len(frame) = Transferred
        /\ taken' = taken \o frame
    BY <1>0, <2>1, <2>2, ConsumeFacts
  <2>4. protocol_ \in Protocols \ {"compressed"} /\ m \in AnyMessage
    BY <1>0, <2>1, <2>3, DecodeType DEF TypeInv
  <2>5. /\ Bytes(received) \in Seq(Byte)
        /\ Bytes(received') = Bytes(received) \o Encode(protocol_, m)
    BY <1>0, <2>1, <2>4, BytesFacts DEF TypeInv
  <2>6. CASE reading.kind = "until"
    <3>1. /\ protocol_ \in {"line", "telnet"}
          /\ Transferred \in Ends(input_buffer_, Terminator(protocol_))
      BY <1>0, <1>1, <2>2, <2>6 DEF StreamInv
    <3>2. Encode(protocol_, m) = frame
      BY <1>0, <3>1, LineFrame DEF TypeInv
    <3> HIDE DEF m, frame
    <3>3. taken' = Bytes(received')
      BY <1>3, <2>3, <2>5, <2>6, <3>2
    <3> QED BY <1>4, <1>n, <2>1, <3>3 DEF FrameInv
  <2>7. CASE reading.kind = "contents"
    <3>1. protocol_ = "basic"
      BY <1>0, <1>1, <2>7 DEF StreamInv, Exact
    <3>2. BasicFrame(m) = frame
      BY <2>1, <2>3, <3>1, BasicFrameOfDecoded
    <3>3. Transferred \in 0 .. Word - 1 /\ Word \in Nat
      <4>1. Word \in Nat
        BY PlaceFacts, CodecAssumption DEF Word
      <4> QED BY <1>3, <2>2, <2>7, <4>1
    <3> DEFINE length == HostToNetwork(reading.want)
    <3>4. Len(frame) % Word = reading.want
      <4>1. Len(frame) \in 0 .. Word - 1 /\ Len(frame) = reading.want
        BY <2>2, <2>3, <2>7, <3>3
      <4> QED BY <3>3, <4>1
    <3>5. Encode(protocol_, m) = length \o frame
      <4> HIDE DEF m, frame
      <4>1. Encode(protocol_, m)
              = HostToNetwork(Len(BasicFrame(m)) % Word) \o BasicFrame(m)
        BY <3>1 DEF Encode
      <4> QED BY <3>2, <3>4, <4>1
    <3>6. length \in Seq(Byte)
      BY <1>3, <2>7, WordOfValue
    <3>7. taken = Bytes(received) \o length
      BY <1>3, <2>7
    <3> HIDE DEF length, m, frame
    <3> DEFINE b == Bytes(received)
    <3>b. b \in Seq(Byte) /\ frame \in Seq(Byte)
      BY <2>3, <2>5
    <3> HIDE DEF b
    <3>c. (b \o length) \o frame = b \o (length \o frame)
      BY ONLY <3>b, <3>6, Assoc
    <3>8. taken' = Bytes(received')
      BY <2>3, <2>5, <3>5, <3>7, <3>c DEF b
    <3> QED BY <1>4, <1>n, <2>1, <3>8 DEF FrameInv
  <2> QED BY <1>0, <2>1, <2>2, <2>6, <2>7 DEF TypeInv, Reads, Kinds
<1>13. CASE ReceiveFails
  BY <1>13 DEF ReceiveFails
<1>14. CASE UNCHANGED vars
  BY <1>5, <1>14 DEF vars
<1> QED BY <1>1, <1>7, <1>8, <1>9, <1>10, <1>11, <1>12, <1>13, <1>14
        DEF Next, Handlers

LEMMA NextBytes == BytesInv /\ [Next]_vars => BytesInv'
BY NextReads, NextStream, NextFrame DEF BytesInv

(* Every byte of the peer is consumed once and in order, and the messages  *)
(* handed over encode to the bytes that were consumed, whatever pieces the *)
(* stream arrives in and wherever its frames end (receiver.hpp).           *)
THEOREM NothingIsInvented == Spec => []BytesConserved
<1>1. BytesInv => BytesConserved
  <2> SUFFICES ASSUME BytesInv, switches = 0
               PROVE  /\ IsPrefix(Stream, Bytes(sent))
                      /\ closed \/ Stream = Bytes(sent)
                      /\ protocol_ # "direct" /\ ~ told /\ fault = "none" =>
                           LET pending == IF reading.kind = "contents"
                                          THEN WordBytes ELSE 0
                           IN Bytes(received) = SubSeq(taken, 1, Len(taken) - pending)
    BY DEF BytesConserved, Stream
  <2>0. TypeInv /\ StreamInv /\ FrameInv
    BY DEF BytesInv, ReadInv
  <2>1. IsPrefix(Stream, Bytes(sent)) /\ (closed \/ Stream = Bytes(sent))
    BY <2>0 DEF StreamInv
  <2>2. ASSUME protocol_ # "direct", ~ told, fault = "none"
        PROVE  LET pending == IF reading.kind = "contents" THEN WordBytes ELSE 0
               IN Bytes(received) = SubSeq(taken, 1, Len(taken) - pending)
    <3>1. taken \in Seq(Byte) /\ received \in Seq(AnyMessage)
      BY <2>0 DEF TypeInv
    <3>2. CASE reading.kind # "contents"
      <4>1. taken = Bytes(received)
        BY <2>0, <2>2, <3>2 DEF FrameInv
      <4>2. SubSeq(taken, 1, Len(taken)) = taken /\ Len(taken) - 0 = Len(taken)
        BY <3>1, SubSeqFull
      <4> QED BY <3>2, <4>1, <4>2
    <3>3. CASE reading.kind = "contents"
      <4>1. /\ reading.want \in 0 .. Word - 1
            /\ taken = Bytes(received) \o HostToNetwork(reading.want)
        BY <2>0, <2>2, <3>3 DEF FrameInv
      <4> DEFINE length == HostToNetwork(reading.want)
                 front == Bytes(received)
      <4>2. length \in Seq(Byte) /\ Len(length) = WordBytes
        BY <4>1, WordOfValue
      <4>3. front \in Seq(Byte)
        <5>1. protocol_ = "compressed" => received = <<>>
          BY <2>0 DEF StreamInv
        <5> QED BY <2>0, <3>1, <5>1, BytesType DEF TypeInv
      <4>4. taken = front \o length
        BY <4>1
      <4> HIDE DEF length, front
      <4>5. /\ Len(taken) = Len(front) + WordBytes
            /\ Len(front) \in Nat /\ WordBytes \in Nat
        <5>1. Len(front \o length) = Len(front) + Len(length)
          BY <4>2, <4>3, Concat
        <5> QED BY <4>2, <4>3, <4>4, <5>1, CodecAssumption
      <4>6. Len(taken) - WordBytes = Len(front)
        BY <4>5
      <4>7. front = SubSeq(taken, 1, Len(front))
        <5>1. IsPrefix(front, taken)
          BY <3>1, <4>2, <4>3, <4>4, PrefixIsFront
        <5>2. SubSeq(front, 1, Len(front)) = SubSeq(taken, 1, Len(front))
          BY <5>1 DEF IsPrefix
        <5> QED BY <4>3, <5>2, SubSeqFull
      <4> QED BY <3>3, <4>6, <4>7 DEF front
    <3> QED BY <3>2, <3>3
  <2> QED BY <2>1, <2>2
<1> QED BY <1>1, InitBytes, NextBytes, PTL DEF Spec

-----------------------------------------------------------------------------
(* Encoding is the inverse of decoding, on messages that are carried.      *)

(* Two equal sequences with fronts of the same length. *)
LEMMA SameFront ==
  ASSUME NEW s \in Seq(Byte), NEW t \in Seq(Byte), NEW u \in Seq(Byte),
         NEW v \in Seq(Byte), Len(s) = Len(t), s \o u = t \o v
  PROVE  s = t /\ u = v
<1>1. ASSUME NEW i \in 1 .. Len(s) PROVE s[i] = t[i]
  <2>1. i \in 1 .. Len(s) + Len(u) /\ i \in 1 .. Len(t) + Len(v)
        /\ i <= Len(s) /\ i <= Len(t)
    OBVIOUS
  <2>2. (s \o u)[i] = s[i] /\ (t \o v)[i] = t[i]
    BY <2>1, ConcatProperties
  <2> QED BY <2>2
<1>2. s = t
  BY <1>1, SeqEqual
<1> QED BY <1>2, Cancel

(* An end, byte by byte. *)
LEMMA EndFacts ==
  ASSUME NEW bytes \in Seq(Byte), NEW terminator \in Seq(Byte),
         NEW n \in Len(terminator) .. Len(bytes)
  PROVE  n \in Ends(bytes, terminator)
           <=> \A j \in 1 .. Len(terminator) :
                 bytes[n - Len(terminator) + j] = terminator[j]
<1> DEFINE size == Len(terminator)
           piece == SubSeq(bytes, n - size + 1, n)
<1>1. size \in Nat /\ n \in Nat /\ Len(bytes) \in Nat /\ size <= n /\ n <= Len(bytes)
  OBVIOUS
<1>2. /\ piece \in Seq(Byte) /\ Len(piece) = size
      /\ \A j \in 1 .. size : piece[j] = bytes[n - size + j]
  <2> DEFINE m == n - size + 1
  <2>1. m \in Int /\ n \in Int /\ m <= n + 1 /\ n - m + 1 = size
        /\ \A i \in m .. n : bytes[i] \in Byte
    BY <1>1
  <2> HIDE DEF m
  <2>2. /\ SubSeq(bytes, m, n) \in Seq(Byte)
        /\ Len(SubSeq(bytes, m, n)) = IF m <= n THEN n - m + 1 ELSE 0
        /\ \A i \in 1 .. n - m + 1 : SubSeq(bytes, m, n)[i] = bytes[m + i - 1]
    BY <2>1, SubSeqProperties
  <2>3. \A j \in 1 .. size : m + j - 1 = n - size + j
    BY <1>1 DEF m
  <2>4. Len(SubSeq(bytes, m, n)) = size
    BY <1>1, <2>1, <2>2
  <2>5. \A j \in 1 .. size : SubSeq(bytes, m, n)[j] = bytes[n - size + j]
    BY <2>1, <2>2, <2>3
  <2> QED BY <2>2, <2>4, <2>5 DEF m
<1>3. n \in Ends(bytes, terminator) <=> piece = terminator
  BY DEF Ends
<1> HIDE DEF piece
<1>4. piece = terminator <=> \A j \in 1 .. size : piece[j] = terminator[j]
  BY <1>2, SeqEqual
<1> QED BY <1>2, <1>3, <1>4

(* The bytes of a terminator differ, so that none begins in another one.   *)
Clear(T) == Len(T) = 1 \/ (Len(T) = 2 /\ T[1] # T[2])

LEMMA TerminatorFacts ==
  ASSUME NEW protocol \in {"line", "telnet"}
  PROVE  Terminator(protocol) \in Seq(Byte) /\ Clear(Terminator(protocol))
<1>1. Terminator(protocol) \in Seq(Byte)
  BY TerminatorType
<1>2. CASE protocol = "line"
  <2>1. Len(Terminator(protocol)) = 1
    BY <1>2 DEF Terminator
  <2> QED BY <1>1, <2>1 DEF Clear
<1>3. CASE protocol = "telnet"
  <2>1. Terminator(protocol) = <<CR, LF>>
    BY <1>3 DEF Terminator
  <2>2. Len(<<CR, LF>>) = 2 /\ <<CR, LF>>[1] = CR /\ <<CR, LF>>[2] = LF
    OBVIOUS
  <2> QED BY <1>1, <2>1, <2>2, CodecAssumption DEF Clear
<1> QED BY <1>2, <1>3

(* The bytes of a concatenation. *)
LEMMA ConcatBytes ==
  ASSUME NEW s \in Seq(Byte), NEW t \in Seq(Byte)
  PROVE  /\ \A i \in 1 .. Len(s) : (s \o t)[i] = s[i]
         /\ \A j \in 1 .. Len(t) : (s \o t)[Len(s) + j] = t[j]
<1> DEFINE c == Len(s)
           e == Len(t)
           u == s \o t
<1>1. c \in Nat /\ e \in Nat
  OBVIOUS
<1>2. \A i \in 1 .. c + e : u[i] = IF i <= c THEN s[i] ELSE t[i - c]
  BY ConcatProperties
<1> HIDE DEF u, c, e
<1>3. \A i \in 1 .. c : u[i] = s[i]
  BY <1>1, <1>2
<1>4. ASSUME NEW j \in 1 .. e PROVE u[c + j] = t[j]
  <2>1. c + j \in 1 .. c + e /\ ~ (c + j <= c) /\ (c + j) - c = j
    BY <1>1
  <2> QED BY <1>2, <2>1
<1> QED BY <1>3, <1>4 DEF u, c, e

(* The first end behind contents without one is that of their terminator.  *)
LEMMA FirstEndAt ==
  ASSUME NEW T \in Seq(Byte), Clear(T),
         NEW contents \in Seq(Byte), NEW bytes \in Seq(Byte), NEW s,
         Ends(contents, T) = {}, Ends(bytes, T) # {},
         \A i \in 1 .. Len(bytes) : s[i] = bytes[i],
         \A i \in 1 .. Len(contents) : s[i] = contents[i],
         \A j \in 1 .. Len(T) : s[Len(contents) + j] = T[j]
  PROVE  /\ Min(Ends(bytes, T)) = Len(contents) + Len(T)
         /\ Min(Ends(bytes, T)) \in 0 .. Len(bytes)
<1> DEFINE n == Min(Ends(bytes, T))
           c == Len(contents)
           b == Len(bytes)
           t == Len(T)
<1>1. /\ T \in Seq(Byte) /\ t \in Nat /\ c \in Nat /\ b \in Nat
      /\ t = 1 \/ (t = 2 /\ T[1] # T[2])
  BY DEF Clear
<1>2. /\ n \in Ends(bytes, T) /\ n \in t .. b
      /\ \A k \in Ends(bytes, T) : n <= k
  BY <1>1, FirstEnd
<1>3. \A j \in 1 .. t : bytes[n - t + j] = T[j]
  BY <1>1, <1>2, EndFacts
<1>4. ASSUME NEW k \in t .. b, \A j \in 1 .. t : bytes[k - t + j] = T[j]
      PROVE  k \in Ends(bytes, T)
  BY <1>1, <1>4, EndFacts
<1>5. ASSUME NEW k \in t .. c, \A j \in 1 .. t : contents[k - t + j] = T[j]
      PROVE  FALSE
  BY <1>1, <1>5, EndFacts
<1>6. /\ \A i \in 1 .. b : s[i] = bytes[i]
      /\ \A i \in 1 .. c : s[i] = contents[i]
      /\ \A j \in 1 .. t : s[c + j] = T[j]
  OBVIOUS
<1> HIDE DEF n, c, b, t
<1>7. \A j \in 1 .. t : s[n - t + j] = T[j]
  <2>1. ASSUME NEW j \in 1 .. t PROVE n - t + j \in 1 .. b
    BY <1>1, <1>2
  <2> QED BY <1>3, <1>6, <2>1
<1>8. n >= c + t
  <2> SUFFICES ASSUME n < c + t PROVE FALSE
    BY <1>1, <1>2
  <2>1. CASE n <= c
    <3>1. n \in t .. c
      BY <1>1, <1>2, <2>1
    <3>2. ASSUME NEW j \in 1 .. t PROVE n - t + j \in 1 .. c
      BY <1>1, <3>1
    <3> QED BY <1>5, <1>6, <1>7, <3>1, <3>2
  <2>2. CASE ~ (n <= c)
    <3>1. t = 2 /\ T[1] # T[2] /\ n = c + 1
      BY <1>1, <1>2, <2>2
    <3>2. s[n - t + 2] = T[2] /\ s[c + 1] = T[1] /\ n - t + 2 = c + 1
      BY <1>1, <1>6, <1>7, <3>1
    <3> QED BY <3>1, <3>2
  <2> QED BY <2>1, <2>2
<1>9. n <= c + t
  <2> SUFFICES ASSUME c + t < n PROVE FALSE
    BY <1>1, <1>2
  <2>1. c + t \in t .. b
    BY <1>1, <1>2
  <2>2. ASSUME NEW j \in 1 .. t PROVE bytes[(c + t) - t + j] = T[j]
    <3>1. c + j \in 1 .. b /\ (c + t) - t + j = c + j
      BY <1>1, <2>1
    <3> QED BY <1>6, <3>1
  <2>3. c + t \in Ends(bytes, T)
    BY <1>4, <2>1, <2>2
  <2> QED BY <1>1, <1>2, <2>3
<1>10. n = c + t /\ n \in 0 .. b
  BY <1>1, <1>2, <1>8, <1>9
<1> QED BY <1>10 DEF n, c, b, t

(* A sequence that begins with another one. *)
LEMMA FrontOf ==
  ASSUME NEW A, NEW s \in Seq(A), NEW t \in Seq(A), Len(t) <= Len(s),
         \A i \in 1 .. Len(t) : s[i] = t[i]
  PROVE  SubSeq(s, 1, Len(t)) = t
<1> DEFINE n == Len(t)
           front == SubSeq(s, 1, n)
<1>1. n \in 0 .. Len(s)
  OBVIOUS
<1>2. front \in Seq(A) /\ Len(front) = n
  BY <1>1, TwoPieces
<1>3. \A i \in 1 .. n : front[i] = s[i]
  <2>1. 1 \in Int /\ n \in Int /\ \A i \in 1 .. n : s[i] \in A
    BY <1>1
  <2>2. \A i \in 1 .. n - 1 + 1 : front[i] = s[1 + i - 1]
    BY <2>1, SubSeqProperties
  <2>3. n - 1 + 1 = n /\ \A i \in 1 .. n : 1 + i - 1 = i
    BY <1>1
  <2> QED BY <2>2, <2>3
<1> HIDE DEF front
<1>4. front = t
  BY <1>2, <1>3, SeqEqual
<1> QED BY <1>4 DEF front

(* Two sequences that agree with a third one. *)
LEMMA FrontIs ==
  ASSUME NEW bytes \in Seq(Byte), NEW line \in Seq(Byte), NEW s,
         Len(line) \in 0 .. Len(bytes),
         \A i \in 1 .. Len(bytes) : s[i] = bytes[i],
         \A i \in 1 .. Len(line) : s[i] = line[i]
  PROVE  SubSeq(bytes, 1, Len(line)) = line
<1>1. Len(line) <= Len(bytes)
  OBVIOUS
<1>2. \A i \in 1 .. Len(line) : i \in 1 .. Len(bytes)
  OBVIOUS
<1>3. \A i \in 1 .. Len(line) : bytes[i] = line[i]
  BY <1>2
<1> QED BY <1>1, <1>3, FrontOf

LEMMA LineParsed ==
  ASSUME NEW T \in Seq(Byte), Clear(T),
         NEW contents \in Seq(Byte), NEW rest \in Seq(Byte),
         NEW bytes \in Seq(Byte), NEW tail \in Seq(Byte),
         Ends(contents, T) = {}, Ends(bytes, T) # {},
         bytes \o tail = (contents \o T) \o rest
  PROVE  SubSeq(bytes, 1, Min(Ends(bytes, T))) = contents \o T
<1> DEFINE line == contents \o T
           s == bytes \o tail
           n == Min(Ends(bytes, T))
<1>2. /\ line \in Seq(Byte) /\ Len(line) = Len(contents) + Len(T)
      /\ Len(contents) \in Nat /\ Len(T) \in Nat
  BY Concat
<1>3. \A i \in 1 .. Len(bytes) : s[i] = bytes[i]
  BY ConcatBytes
<1>4. /\ \A i \in 1 .. Len(contents) : line[i] = contents[i]
      /\ \A j \in 1 .. Len(T) : line[Len(contents) + j] = T[j]
  BY ConcatBytes
<1>5. s = line \o rest
  OBVIOUS
<1> HIDE DEF line, s
<1>6. \A i \in 1 .. Len(line) : s[i] = line[i]
  BY <1>2, <1>5, ConcatBytes
<1>7. /\ \A i \in 1 .. Len(contents) : s[i] = contents[i]
      /\ \A j \in 1 .. Len(T) : s[Len(contents) + j] = T[j]
  <2>1. \A i \in 1 .. Len(contents) : i \in 1 .. Len(line)
    BY <1>2
  <2>2. \A j \in 1 .. Len(T) : Len(contents) + j \in 1 .. Len(line)
    BY <1>2
  <2> QED BY <1>4, <1>6, <2>1, <2>2
<1>8. n = Len(contents) + Len(T) /\ n \in 0 .. Len(bytes)
  BY <1>3, <1>7, FirstEndAt, Zenon
<1>9. n = Len(line) /\ Len(line) \in 0 .. Len(bytes)
  BY <1>2, <1>8
<1>10. SubSeq(bytes, 1, Len(line)) = line
  BY <1>2, <1>3, <1>6, <1>9, FrontIs, Zenon
<1> QED BY <1>9, <1>10, Zenon DEF line

LEMMA RemainderSmall ==
  ASSUME NEW v \in Nat, NEW w \in Nat, v < w
  PROVE  v \in 0 .. w - 1 /\ v % w = v
OBVIOUS

(* A basic frame and its parts. *)
LEMMA BasicFrameType ==
  ASSUME NEW m \in AnyMessage
  PROVE  /\ HostToNetwork(m.id) \in Seq(Byte)
         /\ Len(HostToNetwork(m.id)) = WordBytes
         /\ NetworkToHost(HostToNetwork(m.id)) = m.id
         /\ <<TypeLetter(m.type)>> \in Seq(Byte)
         /\ m.contents \in Seq(Byte)
         /\ BasicFrame(m) \in Seq(Byte)
         /\ Len(BasicFrame(m)) >= 1 + WordBytes
<1>1. m.contents \in Seq(Byte) /\ m.id \in 0 .. Word - 1
  BY DEF AnyMessage
<1> DEFINE letter == <<TypeLetter(m.type)>>
           id == HostToNetwork(m.id)
<1>2. id \in Seq(Byte) /\ Len(id) = WordBytes /\ NetworkToHost(id) = m.id
  BY <1>1, WordOfValue
<1>3. letter \in Seq(Byte) /\ Len(letter) = 1
  BY CodecAssumption DEF TypeLetter, Byte
<1>4. BasicFrame(m) = (letter \o id) \o m.contents
  BY DEF BasicFrame
<1> HIDE DEF letter, id
<1>5. letter \o id \in Seq(Byte) /\ Len(letter \o id) = 1 + WordBytes
  <2>1. Len(letter \o id) = Len(letter) + Len(id)
    BY <1>2, <1>3, Concat
  <2>2. letter \o id \in Seq(Byte)
    BY <1>2, <1>3, Concat
  <2> QED BY <1>2, <1>3, <2>1, <2>2
<1> DEFINE head == letter \o id
           contents == m.contents
<1>6. head \in Seq(Byte) /\ Len(head) = 1 + WordBytes /\ contents \in Seq(Byte)
  BY <1>1, <1>5
<1>7. BasicFrame(m) = head \o contents
  BY <1>4
<1> HIDE DEF head, contents
<1>8. BasicFrame(m) \in Seq(Byte) /\ Len(BasicFrame(m)) = Len(head) + Len(contents)
  BY <1>6, <1>7, Concat
<1>9. Len(contents) \in Nat /\ WordBytes \in Nat
  BY <1>6, CodecAssumption
<1>10. Len(BasicFrame(m)) >= 1 + WordBytes
  BY <1>6, <1>8, <1>9
<1> QED BY <1>1, <1>2, <1>3, <1>8, <1>10 DEF letter, id

(* What encode made of a message is decoded to that message. *)
LEMMA DecodeOfFrame ==
  ASSUME NEW m \in AnyMessage
  PROVE  Decode("basic", BasicFrame(m)) = m
<1> DEFINE frame == BasicFrame(m)
           first == <<frame[1]>>
           id == SubSeq(frame, 2, 1 + WordBytes)
           contents == SubSeq(frame, 2 + WordBytes, Len(frame))
           letter == <<TypeLetter(m.type)>>
           word == HostToNetwork(m.id)
<1>1. /\ word \in Seq(Byte) /\ Len(word) = WordBytes
      /\ NetworkToHost(word) = m.id
      /\ letter \in Seq(Byte) /\ m.contents \in Seq(Byte)
      /\ frame \in Seq(Byte) /\ Len(frame) >= 1 + WordBytes
  BY BasicFrameType
<1>2. frame = (letter \o word) \o m.contents
  BY DEF BasicFrame
<1>3. /\ id \in Seq(Byte) /\ Len(id) = WordBytes
      /\ contents \in Seq(Byte)
      /\ frame = (first \o id) \o contents
  BY <1>1, BasicParts
<1>4. first \in Seq(Byte) /\ Len(first) = 1 /\ first[1] = frame[1]
  <2>1. 1 \in 1 .. Len(frame)
    BY <1>1, CodecAssumption
  <2>2. frame[1] \in Byte
    BY <1>1, <2>1
  <2> HIDE DEF frame
  <2> QED BY <2>2
<1>5. Len(letter) = 1 /\ letter[1] = TypeLetter(m.type)
  OBVIOUS
<1> DEFINE c == m.contents
           value == NetworkToHost(id)
<1>6. Decode("basic", frame)
        = Message(IF frame[1] = LetterA THEN "action" ELSE "reply", value, contents)
  BY DEF Decode, DecodeBasic
<1>c. c \in Seq(Byte) /\ frame = (letter \o word) \o c
  BY <1>1, <1>2
<1> HIDE DEF frame, first, id, contents, letter, word, c
<1>7. /\ first \o id \in Seq(Byte) /\ letter \o word \in Seq(Byte)
      /\ Len(first \o id) = Len(letter \o word)
  <2>1. first \o id \in Seq(Byte) /\ letter \o word \in Seq(Byte)
    BY <1>1, <1>3, <1>4, Concat
  <2>2. /\ Len(first \o id) = Len(first) + Len(id)
        /\ Len(letter \o word) = Len(letter) + Len(word)
    BY <1>1, <1>3, <1>4, Concat
  <2>3. Len(first \o id) = Len(letter \o word)
    BY <1>1, <1>3, <1>4, <1>5, <2>2
  <2> QED BY <2>1, <2>3
<1>8. first \o id = letter \o word /\ contents = c
  <2> DEFINE a == first \o id
             b == letter \o word
  <2>1. a \in Seq(Byte) /\ b \in Seq(Byte) /\ Len(a) = Len(b)
        /\ a \o contents = b \o c
    BY <1>3, <1>7, <1>c
  <2> HIDE DEF a, b
  <2>2. a = b /\ contents = c
    BY <1>3, <1>c, <2>1, SameFront
  <2> QED BY <2>2 DEF a, b
<1>9. first = letter /\ id = word
  <2>1. /\ first \in Seq(Byte) /\ letter \in Seq(Byte) /\ Len(first) = Len(letter)
        /\ id \in Seq(Byte) /\ word \in Seq(Byte) /\ first \o id = letter \o word
    BY <1>1, <1>3, <1>4, <1>5, <1>8, Zenon
  <2> QED BY <2>1, SameFront, Zenon
<1>10. frame[1] = TypeLetter(m.type)
  BY <1>4, <1>5, <1>9
<1>11. (IF frame[1] = LetterA THEN "action" ELSE "reply") = m.type
  <2>1. m.type \in {"action", "reply"}
    BY DEF AnyMessage
  <2> QED BY <1>10, <2>1, CodecAssumption DEF TypeLetter
<1>12. value = m.id
  BY <1>1, <1>9
<1>13. Message(m.type, m.id, m.contents) = m
  BY DEF Message, AnyMessage
<1>14. Decode("basic", frame) = m
  BY <1>6, <1>8, <1>11, <1>12, <1>13 DEF c
<1> QED BY <1>14 DEF frame

(* The length in front of a frame tells where it ends. *)
LEMMA BasicParsed ==
  ASSUME NEW m \in AnyMessage, Len(BasicFrame(m)) < Word,
         NEW want \in 0 .. Word - 1,
         NEW bytes \in Seq(Byte), NEW tail \in Seq(Byte), NEW rest \in Seq(Byte),
         want <= Len(bytes),
         HostToNetwork(want) \o (bytes \o tail) = Encode("basic", m) \o rest
  PROVE  SubSeq(bytes, 1, want) = BasicFrame(m)
<1> DEFINE frame == BasicFrame(m)
           size == Len(frame)
           wanted == HostToNetwork(want)
           length == HostToNetwork(size)
           got == bytes \o tail
<1>1. frame \in Seq(Byte) /\ size \in Nat /\ Word \in Nat
  BY BasicFrameType, PlaceFacts, CodecAssumption DEF Word
<1>2. size \in 0 .. Word - 1 /\ size % Word = size
  BY <1>1, RemainderSmall
<1>3. Encode("basic", m) = HostToNetwork(size % Word) \o frame
  BY DEF Encode
<1>4. /\ wanted \in Seq(Byte) /\ Len(wanted) = WordBytes
      /\ NetworkToHost(wanted) = want
  BY WordOfValue
<1>5. /\ length \in Seq(Byte) /\ Len(length) = WordBytes
      /\ NetworkToHost(length) = size
  BY <1>2, WordOfValue
<1>6. got \in Seq(Byte)
  BY Concat
<1>7. wanted \o got = (length \o frame) \o rest
  BY <1>2, <1>3
<1>8. \A i \in 1 .. Len(bytes) : got[i] = bytes[i]
  BY ConcatBytes
<1>9. wanted = wanted /\ SubSeq(bytes, 1, want) = SubSeq(bytes, 1, want)
  OBVIOUS
<1> HIDE DEF frame, size, wanted, length, got
<1>10. length \o frame \in Seq(Byte) /\ frame \o rest \in Seq(Byte)
  BY <1>1, <1>5, Concat
<1>11. (length \o frame) \o rest = length \o (frame \o rest)
  BY <1>1, <1>5, Assoc
<1>12. wanted = length /\ got = frame \o rest
  <2> DEFINE u == frame \o rest
  <2>1. u \in Seq(Byte) /\ wanted \o got = length \o u
    BY <1>7, <1>10, <1>11
  <2> HIDE DEF u
  <2>2. wanted = length /\ got = u
    BY <1>4, <1>5, <1>6, <2>1, SameFront
  <2> QED BY <2>2 DEF u
<1>13. want = size
  BY <1>4, <1>5, <1>12
<1>14. \A i \in 1 .. Len(frame) : got[i] = frame[i]
  BY <1>1, <1>12, ConcatBytes
<1>15. Len(frame) \in 0 .. Len(bytes)
  BY <1>1, <1>13 DEF size
<1>16. SubSeq(bytes, 1, Len(frame)) = frame
  BY <1>1, <1>8, <1>14, <1>15, FrontIs, Zenon
<1> QED BY <1>13, <1>16, Zenon DEF frame, size

-----------------------------------------------------------------------------
(* The promise of Inbox.                                                   *)

LEMMA AppendFront ==
  ASSUME NEW A, NEW s \in Seq(A), NEW n \in Nat, n < Len(s)
  PROVE  /\ SubSeq(s, 1, n) \in Seq(A) /\ Len(SubSeq(s, 1, n)) = n
         /\ s[n + 1] \in A
         /\ SubSeq(s, 1, n + 1) = Append(SubSeq(s, 1, n), s[n + 1])
<1> DEFINE front == SubSeq(s, 1, n)
           more == SubSeq(s, 1, n + 1)
           x == s[n + 1]
<1>1. n \in 0 .. Len(s) /\ n + 1 \in 0 .. Len(s) /\ x \in A
  OBVIOUS
<1>2. front \in Seq(A) /\ Len(front) = n
  BY <1>1, TwoPieces
<1>3. more \in Seq(A) /\ Len(more) = n + 1
  BY <1>1, TwoPieces
<1>4. \A i \in 1 .. n : front[i] = s[i]
  <2>1. 1 \in Int /\ n \in Int /\ \A i \in 1 .. n : s[i] \in A
    OBVIOUS
  <2>2. \A i \in 1 .. n - 1 + 1 : front[i] = s[1 + i - 1]
    BY <2>1, SubSeqProperties
  <2>3. n - 1 + 1 = n /\ \A i \in 1 .. n : 1 + i - 1 = i
    OBVIOUS
  <2> QED BY <2>2, <2>3
<1>5. \A i \in 1 .. n + 1 : more[i] = s[i]
  <2>1. 1 \in Int /\ n + 1 \in Int /\ \A i \in 1 .. n + 1 : s[i] \in A
    OBVIOUS
  <2>2. \A i \in 1 .. (n + 1) - 1 + 1 : more[i] = s[1 + i - 1]
    BY <2>1, SubSeqProperties
  <2>3. (n + 1) - 1 + 1 = n + 1 /\ \A i \in 1 .. n + 1 : 1 + i - 1 = i
    OBVIOUS
  <2> QED BY <2>2, <2>3
<1>6. /\ Append(front, x) \in Seq(A) /\ Len(Append(front, x)) = n + 1
      /\ \A i \in 1 .. n + 1 :
           Append(front, x)[i] = IF i <= n THEN front[i] ELSE x
  <2> HIDE DEF front, x
  <2> QED BY <1>1, <1>2
<1>x. x = s[n + 1]
  OBVIOUS
<1> HIDE DEF front, more, x
<1>7. \A i \in 1 .. n + 1 : more[i] = Append(front, x)[i]
  <2>1. ASSUME NEW i \in 1 .. n + 1 PROVE more[i] = Append(front, x)[i]
    <3>1. (i <= n => i \in 1 .. n) /\ (~ (i <= n) => i = n + 1)
      OBVIOUS
    <3> QED BY <1>4, <1>5, <1>6, <1>x, <3>1
  <2> QED BY <2>1
<1>8. more = Append(front, x)
  BY <1>3, <1>6, <1>7, SeqEqual
<1> QED BY <1>1, <1>2, <1>8 DEF front, more, x

(* What the messages up to one encode to begins what all of them do. *)
LEMMA BytesFront ==
  ASSUME protocol_ \in Protocols \ {"compressed"},
         NEW messages \in Seq(AnyMessage), NEW r \in Nat, r < Len(messages)
  PROVE  /\ Bytes(SubSeq(messages, 1, r)) \in Seq(Byte)
         /\ Encode(protocol_, messages[r + 1]) \in Seq(Byte)
         /\ \E rest \in Seq(Byte) :
              Bytes(messages) = Bytes(SubSeq(messages, 1, r))
                                  \o (Encode(protocol_, messages[r + 1]) \o rest)
<1> DEFINE Upto(n) == SubSeq(messages, 1, n)
           m == messages[r + 1]
           e == Encode(protocol_, m)
           b == Bytes(Upto(r))
           Good(n) == \E rest \in Seq(Byte) : Bytes(Upto(n)) = b \o (e \o rest)
           S == {n \in Nat : r < n /\ n <= Len(messages) => Good(n)}
<1>0. Len(messages) \in Nat
  OBVIOUS
<1>1. ASSUME NEW n \in Nat, n < Len(messages)
      PROVE  /\ Bytes(Upto(n)) \in Seq(Byte)
             /\ Encode(protocol_, messages[n + 1]) \in Seq(Byte)
             /\ Bytes(Upto(n + 1))
                  = Bytes(Upto(n)) \o Encode(protocol_, messages[n + 1])
  <2> DEFINE x == messages[n + 1]
             front == SubSeq(messages, 1, n)
  <2>1. /\ front \in Seq(AnyMessage) /\ x \in AnyMessage
        /\ SubSeq(messages, 1, n + 1) = Append(front, x)
    BY <1>1, AppendFront
  <2> HIDE DEF x, front
  <2>2. /\ Bytes(front) \in Seq(Byte) /\ Encode(protocol_, x) \in Seq(Byte)
        /\ Bytes(Append(front, x)) = Bytes(front) \o Encode(protocol_, x)
    BY <2>1, BytesFacts, EncodeType
  <2> QED BY <2>1, <2>2, Zenon DEF x, front
<1>2. b \in Seq(Byte) /\ e \in Seq(Byte) /\ Bytes(Upto(r + 1)) = b \o e
  BY <1>1
<1> HIDE DEF Upto, e, b, m
<1> HIDE DEF Good
<1>s. \A n \in Nat : n \in S <=> (r < n /\ n <= Len(messages) => Good(n))
  OBVIOUS
<1> HIDE DEF S
<1> USE DEF Good
<1>3. 0 \in S
  BY <1>0, <1>s
<1>4. ASSUME NEW n \in Nat, n \in S, r < n + 1, n + 1 <= Len(messages)
      PROVE  Good(n + 1)
  <2>1. CASE n = r
    <3>1. e \o <<>> = e /\ <<>> \in Seq(Byte)
      BY <1>2, Concat
    <3>2. Bytes(Upto(n + 1)) = b \o (e \o <<>>)
      BY <1>2, <2>1, <3>1
    <3> QED BY <3>1, <3>2
  <2>2. CASE n # r
    <3>1. n < Len(messages) /\ n <= Len(messages) /\ r < n
      BY <1>0, <1>4, <2>2
    <3> DEFINE x == Encode(protocol_, messages[n + 1])
    <3>2. x \in Seq(Byte) /\ Bytes(Upto(n + 1)) = Bytes(Upto(n)) \o x
      BY <1>1, <3>1
    <3> HIDE DEF x
    <3>3. Good(n)
      BY <1>4, <1>s, <3>1
    <3>4. PICK rest \in Seq(Byte) : Bytes(Upto(n)) = b \o (e \o rest)
      BY <3>3
    <3> DEFINE more == rest \o x
               f == e \o rest
    <3>5. more \in Seq(Byte) /\ f \in Seq(Byte)
      BY <1>2, <3>2, Concat
    <3>6. f \o x = e \o more
      <4>1. (e \o rest) \o x = e \o (rest \o x)
        BY ONLY <1>2, <3>2, Assoc
      <4> QED BY <4>1
    <3>7. Bytes(Upto(n)) = b \o f
      BY <3>4
    <3> HIDE DEF f, more
    <3>8. (b \o f) \o x = b \o (f \o x)
      BY ONLY <1>2, <3>2, <3>5, Assoc
    <3>9. Bytes(Upto(n + 1)) = b \o (e \o more)
      BY <3>2, <3>6, <3>7, <3>8, Zenon
    <3> QED BY <3>5, <3>9
  <2> QED BY <2>1, <2>2
<1>5. Nat \subseteq S
  <2> HIDE DEF Good
  <2>1. ASSUME NEW n \in Nat, n \in S PROVE n + 1 \in S
    BY <1>s, <1>4, <2>1
  <2> QED BY <1>3, <2>1, SetInduction
<1>6. Good(Len(messages))
  <2>1. Len(messages) \in S
    BY <1>0, <1>5
  <2> HIDE DEF Good
  <2> QED BY <1>0, <1>s, <2>1
<1>7. Upto(Len(messages)) = messages
  BY SubSeqFull DEF Upto
<1>8. \E rest \in Seq(Byte) : Bytes(messages) = b \o (e \o rest)
  BY <1>6, <1>7
<1> QED BY <1>2, <1>8 DEF b, e, m, Upto

(* Equal frames are equal bytes. *)
LEMMA BytesSame ==
  ASSUME NEW messages \in Seq(AnyMessage), NEW others \in Seq(AnyMessage),
         Len(messages) = Len(others),
         \A k \in 1 .. Len(messages) :
           Encode(protocol_, messages[k]) = Encode(protocol_, others[k])
  PROVE  Bytes(messages) = Bytes(others)
<1>1. DOMAIN messages = 1 .. Len(messages) /\ DOMAIN others = 1 .. Len(messages)
  OBVIOUS
<1>2. [k \in DOMAIN messages |-> Encode(protocol_, messages[k])]
        = [k \in DOMAIN others |-> Encode(protocol_, others[k])]
  BY <1>1
<1> QED BY <1>2 DEF Bytes

(* What the receiver sees of a message is encoded like the message. *)
LEMMA SeenFacts ==
  ASSUME NEW protocol \in Protocols, NEW m \in AnyMessage
  PROVE  /\ Seen(protocol, m) \in AnyMessage
         /\ protocol # "compressed" =>
              Encode(protocol, Seen(protocol, m)) = Encode(protocol, m)
<1>1. CASE protocol = "basic"
  BY <1>1 DEF Seen
<1>2. CASE protocol # "basic"
  <2>1. Seen(protocol, m) = Message("reply", 0, m.contents)
    BY <1>2 DEF Seen
  <2>2. Message("reply", 0, m.contents) \in AnyMessage
    <3>1. Word \in Nat \ {0}
      BY PlaceFacts, CodecAssumption DEF Word
    <3>2. 0 \in 0 .. Word - 1
      BY <3>1
    <3> QED BY <3>2 DEF Message, AnyMessage
  <2>3. Message("reply", 0, m.contents).contents = m.contents
    BY DEF Message
  <2> HIDE DEF Message
  <2> QED BY <1>2, <2>1, <2>2, <2>3 DEF Encode, Protocols
<1> QED BY <1>1, <1>2

LEMMA MaxFacts ==
  ASSUME NEW L \in Nat, NEW T, T \subseteq 0 .. L, T # {}
  PROVE  Max(T) \in T /\ \A n \in T : n <= Max(T)
<1> DEFINE R == {k \in Nat : L - k \in T}
<1>1. R \subseteq Nat /\ R # {}
  <2>1. PICK n \in T : TRUE
    OBVIOUS
  <2>2. n \in 0 .. L
    BY <2>1
  <2>3. L - n \in Nat /\ L - (L - n) = n
    BY <2>2
  <2> QED BY <2>1, <2>3
<1>2. PICK x \in R : \A y \in R : x <= y
  <2> HIDE DEF R
  <2> QED BY <1>1, Smallest
<1>3. L - x \in T /\ x \in Nat
  BY <1>2
<1>4. ASSUME NEW n \in T PROVE n <= L - x
  <2>1. n \in 0 .. L
    OBVIOUS
  <2>2. L - n \in Nat /\ L - (L - n) = n
    BY <2>1
  <2>3. L - n \in R
    BY <2>2
  <2> QED BY <1>2, <1>3, <2>1, <2>3
<1>5. \A n \in T : L - x >= n
  <2>1. L \in Int /\ x \in Int /\ T \subseteq Int
    BY <1>3
  <2> QED BY <1>4, <2>1
<1>6. Max(T) \in T /\ \A n \in T : Max(T) >= n
  BY <1>3, <1>5 DEF Max
<1>7. T \subseteq Int
  OBVIOUS
<1> QED BY <1>6, <1>7

(* How many messages can be carried before one that cannot. *)
Able(protocol, messages) ==
  {n \in 0 .. Len(messages) : \A k \in 1 .. n : Carries(protocol, messages[k])}

LEMMA AbleFacts ==
  ASSUME NEW protocol, NEW messages \in Seq(AnyMessage)
  PROVE  LET able == Max(Able(protocol, messages))
         IN  /\ able \in 0 .. Len(messages)
             /\ \A k \in 1 .. able : Carries(protocol, messages[k])
             /\ able < Len(messages) => ~ Carries(protocol, messages[able + 1])
<1> DEFINE T == Able(protocol, messages)
           able == Max(T)
           L == Len(messages)
           Good(k) == Carries(protocol, messages[k])
<1>1. L \in Nat /\ T = {n \in 0 .. L : \A k \in 1 .. n : Good(k)}
  BY DEF Able
<1> HIDE DEF T, L, Good
<1>2. 0 \in T /\ T \subseteq 0 .. L
  BY <1>1
<1>3. able \in T /\ \A n \in T : n <= able
  BY <1>1, <1>2, MaxFacts
<1> HIDE DEF able
<1>4. able \in 0 .. L /\ \A k \in 1 .. able : Good(k)
  BY <1>1, <1>3
<1>5. ASSUME able < L, Good(able + 1) PROVE FALSE
  <2>1. able + 1 \in 0 .. L
    BY <1>1, <1>4, <1>5
  <2>2. \A k \in 1 .. able + 1 : k \in 1 .. able \/ k = able + 1
    BY <1>4
  <2>3. able + 1 \in T
    BY <1>1, <1>4, <1>5, <2>1, <2>2
  <2>4. able + 1 <= able
    BY <1>3, <2>3
  <2> QED BY <1>4, <2>4
<1> QED BY <1>4, <1>5 DEF T, L, able, Good

LEMMA AbleAppend ==
  ASSUME NEW protocol, NEW messages \in Seq(AnyMessage), NEW m \in AnyMessage
  PROVE  LET able == Max(Able(protocol, messages))
             more == Max(Able(protocol, Append(messages, m)))
         IN  \/ able = Len(messages) /\ more = able + 1
             \/ more = able
<1> DEFINE able == Max(Able(protocol, messages))
           longer == Append(messages, m)
           more == Max(Able(protocol, longer))
           L == Len(messages)
           Good(k) == Carries(protocol, messages[k])
           GoodToo(k) == Carries(protocol, longer[k])
<1>1. /\ L \in Nat /\ longer \in Seq(AnyMessage) /\ Len(longer) = L + 1
      /\ \A k \in 1 .. L : longer[k] = messages[k]
  OBVIOUS
<1>2. /\ able \in 0 .. L /\ \A k \in 1 .. able : Good(k)
      /\ able < L => ~ Good(able + 1)
  BY AbleFacts
<1> HIDE DEF longer
<1>3. /\ more \in 0 .. L + 1 /\ \A k \in 1 .. more : GoodToo(k)
      /\ more < L + 1 => ~ GoodToo(more + 1)
  BY <1>1, AbleFacts
<1>4. \A k \in 1 .. L : GoodToo(k) <=> Good(k)
  BY <1>1
<1> HIDE DEF able, more, L, Good, GoodToo
<1>5. ~ (more < able)
  <2> SUFFICES ASSUME more < able PROVE FALSE
    OBVIOUS
  <2>1. more + 1 \in 1 .. able /\ more + 1 \in 1 .. L /\ more < L + 1
    BY <1>1, <1>2, <1>3
  <2> QED BY <1>2, <1>3, <1>4, <2>1
<1>6. ASSUME able < more, able < L PROVE FALSE
  <2>1. able + 1 \in 1 .. more /\ able + 1 \in 1 .. L
    BY <1>1, <1>2, <1>3, <1>6
  <2> QED BY <1>2, <1>3, <1>4, <1>6, <2>1
<1>7. (able = L /\ more = able + 1) \/ more = able
  BY <1>1, <1>2, <1>3, <1>5, <1>6
<1> QED BY <1>7 DEF able, more, L, longer

(* What was handed over is what the peer sent, as far as the protocol can  *)
(* carry it, and never more than that.                                     *)
InboxInv ==
  switches = 0 =>
    /\ \A k \in 1 .. Len(received) : k <= Len(Carried) => received[k] = Carried[k]
    /\ Len(Carried) = Len(sent) => Len(received) <= Len(Carried)

PromiseInv == BytesInv /\ InboxInv

(* Carried, of any history. *)
CarriedOf(protocol, messages) ==
  [k \in 1 .. Max(Able(protocol, messages)) |-> Seen(protocol, messages[k])]

LEMMA CarriedOfFacts ==
  ASSUME NEW protocol \in Protocols, NEW messages \in Seq(AnyMessage)
  PROVE  LET carried == CarriedOf(protocol, messages)
         IN  /\ Len(carried) = Max(Able(protocol, messages))
             /\ carried \in Seq(AnyMessage)
             /\ Len(carried) \in 0 .. Len(messages)
             /\ \A k \in 1 .. Len(carried) :
                  /\ carried[k] = Seen(protocol, messages[k])
                  /\ Carries(protocol, messages[k])
<1> DEFINE able == Max(Able(protocol, messages))
           carried == CarriedOf(protocol, messages)
<1>2. /\ able \in 0 .. Len(messages)
      /\ \A k \in 1 .. able : Carries(protocol, messages[k])
  BY AbleFacts
<1>3. carried = [k \in 1 .. able |-> Seen(protocol, messages[k])]
  BY DEF CarriedOf
<1> HIDE DEF able
<1>4. \A k \in 1 .. able : messages[k] \in AnyMessage
  BY <1>2
<1>5. \A k \in 1 .. able : Seen(protocol, messages[k]) \in AnyMessage
  BY <1>4, SeenFacts
<1>6. able \in Nat
  BY <1>2
<1>7. carried \in [1 .. able -> AnyMessage]
  BY <1>3, <1>5
<1>8. \A k \in 1 .. able : carried[k] = Seen(protocol, messages[k])
  BY <1>3
<1> HIDE DEF carried
<1>9. carried \in Seq(AnyMessage) /\ Len(carried) = able
  BY <1>6, <1>7
<1> QED BY <1>2, <1>8, <1>9 DEF able, carried

LEMMA CarriedFacts ==
  ASSUME TypeInv
  PROVE  /\ Carried = CarriedOf(protocol_, sent)
         /\ Carried \in Seq(AnyMessage)
         /\ Len(Carried) \in 0 .. Len(sent)
         /\ \A k \in 1 .. Len(Carried) : /\ Carried[k] = Seen(protocol_, sent[k])
                                         /\ Carries(protocol_, sent[k])
<1>1. Carried = CarriedOf(protocol_, sent)
  BY DEF Carried, CarriedOf, Able
<1> QED BY <1>1, CarriedOfFacts DEF TypeInv

(* What was handed over encodes to what the peer wrote. *)
LEMMA HandedBytes ==
  ASSUME PromiseInv, switches = 0, Len(received) <= Len(Carried),
         protocol_ # "compressed"
  PROVE  Bytes(received) = Bytes(SubSeq(sent, 1, Len(received)))
<1> DEFINE r == Len(received)
           front == SubSeq(sent, 1, r)
<1>0. TypeInv /\ InboxInv
  BY DEF PromiseInv, BytesInv, ReadInv
<1>1. /\ received \in Seq(AnyMessage) /\ sent \in Seq(AnyMessage)
      /\ protocol_ \in Protocols
  BY <1>0 DEF TypeInv
<1>2. r \in Nat /\ r <= Len(Carried) /\ r \in 0 .. Len(sent)
  <2>1. Len(Carried) \in 0 .. Len(sent)
    BY <1>0, CarriedFacts
  <2> QED BY <1>1, <2>1
<1>3. front \in Seq(AnyMessage) /\ Len(front) = r
  BY <1>1, <1>2, TwoPieces
<1>4. ASSUME NEW k \in 1 .. r
      PROVE  Encode(protocol_, received[k]) = Encode(protocol_, front[k])
  <2>1. k \in 1 .. Len(Carried) /\ k <= Len(Carried) /\ k \in 1 .. Len(sent)
    BY <1>0, <1>1, <1>2, CarriedFacts
  <2>2. received[k] = Seen(protocol_, sent[k])
    <3>1. received[k] = Carried[k]
      BY <1>0, <2>1 DEF InboxInv
    <3>2. Carried[k] = Seen(protocol_, sent[k])
      BY <1>0, <2>1, CarriedFacts
    <3> QED BY <3>1, <3>2
  <2>3. Encode(protocol_, Seen(protocol_, sent[k])) = Encode(protocol_, sent[k])
    <3>1. sent[k] \in AnyMessage
      BY <1>1, <2>1
    <3> QED BY <1>1, <3>1, SeenFacts
  <2>4. front[k] = sent[k]
    <3>1. 1 \in Int /\ r \in Int /\ r - 1 + 1 = r /\ 1 + k - 1 = k
          /\ \A i \in 1 .. r : sent[i] \in AnyMessage
      BY <1>1, <1>2
    <3>2. \A i \in 1 .. r - 1 + 1 : front[i] = sent[1 + i - 1]
      BY <3>1, SubSeqProperties
    <3> QED BY <3>1, <3>2
  <2> QED BY <2>2, <2>3, <2>4
<1> HIDE DEF front
<1>5. Bytes(received) = Bytes(front)
  BY <1>1, <1>3, <1>4, BytesSame
<1> QED BY <1>5 DEF front

(* As long as the messages handed over are those carried, the stream goes  *)
(* on with the frame of the next one.                                      *)
LEMMA NextFrameOfStream ==
  ASSUME PromiseInv, switches = 0, Len(received) < Len(Carried),
         ~ told, fault = "none"
  PROVE  LET m == sent[Len(received) + 1]
             length == IF reading.kind = "contents"
                       THEN HostToNetwork(reading.want) ELSE <<>>
         IN  /\ protocol_ \in {"line", "telnet", "basic"}
             /\ m \in AnyMessage
             /\ Carries(protocol_, m)
             /\ Carried[Len(received) + 1] = Seen(protocol_, m)
             /\ \E tail \in Seq(Byte), rest \in Seq(Byte) :
                  length \o (input_buffer_ \o tail) = Encode(protocol_, m) \o rest
<1> DEFINE r == Len(received)
           m == sent[r + 1]
           e == Encode(protocol_, m)
           length == IF reading.kind = "contents"
                     THEN HostToNetwork(reading.want) ELSE <<>>
           b == Bytes(received)
<1>0. TypeInv /\ StreamInv /\ FrameInv /\ InboxInv
  BY DEF PromiseInv, BytesInv, ReadInv
<1>1. /\ received \in Seq(AnyMessage) /\ sent \in Seq(AnyMessage)
      /\ taken \in Seq(Byte) /\ input_buffer_ \in Seq(Byte) /\ wire \in Seq(Byte)
      /\ protocol_ \in Protocols
  BY <1>0 DEF TypeInv
<1>2. r \in Nat /\ r < Len(Carried) /\ Len(Carried) <= Len(sent)
      /\ r < Len(sent) /\ r + 1 \in 1 .. Len(Carried)
  BY <1>0, <1>1, CarriedFacts
<1>3. /\ Carried[r + 1] = Seen(protocol_, m) /\ Carries(protocol_, m)
      /\ m \in AnyMessage
  BY <1>0, <1>1, <1>2, CarriedFacts
<1>4. protocol_ \in {"line", "telnet", "basic"}
  BY <1>1, <1>3 DEF Carries, Protocols
<1> DEFINE front == SubSeq(sent, 1, r)
<1>5. b = Bytes(front)
  BY <1>2, <1>4, HandedBytes
<1>6. b \in Seq(Byte) /\ e \in Seq(Byte)
      /\ \E rest \in Seq(Byte) : Bytes(sent) = b \o (e \o rest)
  <2>1. protocol_ \in Protocols \ {"compressed"}
    BY <1>4 DEF Protocols
  <2>2. /\ Bytes(front) \in Seq(Byte) /\ e \in Seq(Byte)
        /\ \E rest \in Seq(Byte) : Bytes(sent) = Bytes(front) \o (e \o rest)
    BY <1>1, <1>2, <2>1, BytesFront
  <2> HIDE DEF b, front, e
  <2> QED BY <1>5, <2>2
<1>7. length \in Seq(Byte) /\ taken = b \o length
  <2>1. /\ reading.kind = "contents" =>
             /\ reading.want \in 0 .. Word - 1
             /\ taken = b \o HostToNetwork(reading.want)
        /\ reading.kind # "contents" => taken = b
    BY <1>0, <1>4 DEF FrameInv
  <2>2. CASE reading.kind = "contents"
    <3>1. HostToNetwork(reading.want) \in Seq(Byte)
      BY <2>1, <2>2, WordOfValue
    <3> QED BY <2>1, <2>2, <3>1
  <2>3. CASE reading.kind # "contents"
    <3> HIDE DEF b
    <3>1. b \o <<>> = b /\ <<>> \in Seq(Byte)
      BY <1>6, Concat
    <3> QED BY <2>1, <2>3, <3>1
  <2> QED BY <2>2, <2>3
<1>8. Bytes(sent) \in Seq(Byte) /\ Stream \in Seq(Byte) /\ IsPrefix(Stream, Bytes(sent))
  <2>1. IsPrefix(Stream, Bytes(sent))
    BY <1>0 DEF StreamInv
  <2>2. protocol_ # "compressed"
    BY <1>4
  <2> QED BY <1>0, <1>1, <2>1, <2>2, BytesType, StreamType
<1>9. PICK rest \in Seq(Byte) : Bytes(sent) = b \o (e \o rest)
  BY <1>6
<1>10. PICK lost \in Seq(Byte) : Bytes(sent) = Stream \o lost
  BY <1>8, PrefixIsFront
<1> DEFINE all == Bytes(sent)
           i == input_buffer_
           t == taken
           w == wire
<1>11. /\ t \in Seq(Byte) /\ i \in Seq(Byte) /\ w \in Seq(Byte)
       /\ all = ((t \o i) \o w) \o lost /\ all = b \o (e \o rest)
       /\ t = b \o length
  BY <1>1, <1>7, <1>9, <1>10 DEF Stream
<1>12. b \in Seq(Byte) /\ e \in Seq(Byte) /\ length \in Seq(Byte)
  BY <1>6, <1>7
<1>e. \A tail \in Seq(Byte) : i \o tail = input_buffer_ \o tail
  OBVIOUS
<1> HIDE DEF all, i, t, w, b, e, length, m, r, front
<1> DEFINE tail == w \o lost
           it == i \o tail
<1>13. tail \in Seq(Byte) /\ it \in Seq(Byte)
  BY <1>11, Concat
<1>14. all = (t \o i) \o tail
  <2> DEFINE ti == t \o i
  <2>1. ti \in Seq(Byte) /\ all = (ti \o w) \o lost
    BY <1>11, Concat
  <2> HIDE DEF ti
  <2>2. (ti \o w) \o lost = ti \o (w \o lost)
    BY ONLY <1>10, <1>11, <2>1, Assoc
  <2> QED BY <2>1, <2>2 DEF ti
<1> HIDE DEF tail
<1>15. all = t \o it
  <2>1. t \in Seq(Byte) /\ i \in Seq(Byte) /\ tail \in Seq(Byte)
    BY <1>11, <1>13
  <2>2. (t \o i) \o tail = t \o (i \o tail)
    BY ONLY <2>1, Assoc
  <2> QED BY <1>14, <2>2
<1> HIDE DEF it
<1> DEFINE lit == length \o it
           er == e \o rest
<1>16. lit \in Seq(Byte) /\ er \in Seq(Byte)
  BY <1>12, <1>13, Concat
<1>17. all = b \o lit
  <2>1. b \in Seq(Byte) /\ length \in Seq(Byte) /\ it \in Seq(Byte)
    BY <1>12, <1>13
  <2>2. (b \o length) \o it = b \o (length \o it)
    BY ONLY <2>1, Assoc
  <2> QED BY <1>11, <1>15, <2>2
<1>18. all = b \o er
  BY <1>11
<1> HIDE DEF lit, er
<1>19. lit = er
  BY <1>12, <1>16, <1>17, <1>18, Cancel
<1>20. length \o (i \o tail) = e \o rest
  BY <1>19 DEF lit, er, it
<1>21. \E u \in Seq(Byte), v \in Seq(Byte) : length \o (i \o u) = e \o v
  BY <1>13, <1>20
<1> QED BY <1>3, <1>4, <1>21 DEF m, r, e, length, i

(* A complete frame is that of the next message, if there is a next one;   *)
(* and when all were carried there is.                                     *)
LEMMA HandsOver ==
  ASSUME PromiseInv, switches = 0, Complete, reading.kind # "length"
  PROVE  LET frame == SubSeq(input_buffer_, 1, Transferred)
         IN  /\ ~ told
             /\ Len(received) < Len(Carried) =>
                  Decode(protocol_, frame) = Carried[Len(received) + 1]
             /\ Len(Carried) = Len(sent) => Len(received) < Len(Carried)
<1> DEFINE frame == SubSeq(input_buffer_, 1, Transferred)
           i == input_buffer_
           T == Terminator(protocol_)
           want == reading.want
<1>0. TypeInv /\ ReadInv /\ StreamInv /\ FrameInv /\ InboxInv
  BY DEF PromiseInv, BytesInv, ReadInv
<1>1. /\ received \in Seq(AnyMessage) /\ sent \in Seq(AnyMessage)
      /\ taken \in Seq(Byte) /\ i \in Seq(Byte) /\ wire \in Seq(Byte)
      /\ reading.kind \in Kinds /\ want \in Nat /\ posted \in Nat
  BY <1>0 DEF TypeInv, Reads
<1>2. /\ reading.kind # "none" /\ Transferred \in 0 .. Len(i)
      /\ reading.kind # "until" => Transferred = want
  BY <1>0, CompleteFacts
<1>3. ~ told /\ fault = "none"
  BY <1>0, <1>1, <1>2 DEF ReadInv, ChainInv
<1>4. CASE reading.kind = "until"
  <2>1. protocol_ \in {"line", "telnet"} /\ reading.until = T
    BY <1>0, <1>4 DEF StreamInv
  <2>2. Ends(i, T) # {} /\ Transferred = Min(Ends(i, T))
    BY <1>4, <2>1 DEF Complete, Transferred, Found, Exact
  <2>3. ASSUME Len(received) < Len(Carried)
        PROVE  Decode(protocol_, frame) = Carried[Len(received) + 1]
    <3> DEFINE m == sent[Len(received) + 1]
               c == m.contents
    <3>1. /\ m \in AnyMessage /\ Carries(protocol_, m)
          /\ Carried[Len(received) + 1] = Seen(protocol_, m)
          /\ \E tail \in Seq(Byte), rest \in Seq(Byte) :
               <<>> \o (i \o tail) = Encode(protocol_, m) \o rest
      BY <1>3, <1>4, <2>3, NextFrameOfStream
    <3> HIDE DEF m
    <3>2. c \in Seq(Byte) /\ Ends(c, T) = {} /\ Encode(protocol_, m) = c \o T
      BY <2>1, <3>1 DEF AnyMessage, Carries, Encode
    <3>3. PICK tail \in Seq(Byte), rest \in Seq(Byte) :
            <<>> \o (i \o tail) = Encode(protocol_, m) \o rest
      BY <3>1
    <3> HIDE DEF c, T, i
    <3>4. i \o tail = (c \o T) \o rest
      <4>1. i \o tail \in Seq(Byte)
        BY <1>1, Concat
      <4>2. <<>> \o (i \o tail) = i \o tail
        BY <4>1, Concat
      <4> QED BY <3>2, <3>3, <4>2
    <3>5. SubSeq(i, 1, Min(Ends(i, T))) = c \o T
      <4>1. T \in Seq(Byte) /\ Clear(T)
        BY <2>1, TerminatorFacts DEF T
      <4> QED BY <1>1, <2>2, <3>2, <3>4, <4>1, LineParsed, Zenon
    <3>6. frame = c \o T
      BY <2>2, <3>5 DEF i
    <3>7. Decode(protocol_, c \o T) = Message("reply", 0, c)
      <4>1. T \in Seq(Byte) /\ Len(T) \in {1, 2}
        BY TerminatorType DEF T
      <4> DEFINE line == c \o T
      <4>2. line \in Seq(Byte) /\ Len(line) = Len(c) + Len(T) /\ Len(c) \in Nat
        BY <3>2, <4>1, Concat
      <4>3. \A k \in 1 .. Len(line) : line[k] = line[k]
        OBVIOUS
      <4>4. \A k \in 1 .. Len(c) : line[k] = c[k]
        BY <3>2, <4>1, ConcatBytes
      <4> HIDE DEF line
      <4>5. Len(c) \in 0 .. Len(line)
        BY <4>1, <4>2
      <4>6. SubSeq(line, 1, Len(c)) = c
        BY <3>2, <4>2, <4>3, <4>4, <4>5, FrontIs, Zenon
      <4>7. Len(line) - Len(T) = Len(c) /\ ~ (Len(line) < Len(T))
        BY <4>1, <4>2
      <4>8. Chop(line, Len(T)) = c
        BY <4>6, <4>7 DEF Chop
      <4>9. Decode(protocol_, line) = Message("reply", 0, c)
        BY <2>1, <4>8 DEF Decode, T
      <4> QED BY <4>9 DEF line
    <3>8. Seen(protocol_, m) = Message("reply", 0, c)
      BY <2>1 DEF Seen, c
    <3> QED BY <3>1, <3>6, <3>7, <3>8
  <2>4. ASSUME Len(Carried) = Len(sent) PROVE Len(received) < Len(Carried)
    <3> SUFFICES ASSUME Len(received) = Len(sent) PROVE FALSE
      <4>1. Len(received) <= Len(Carried) /\ Len(Carried) \in Nat
        BY <1>0, <1>1, <2>4, CarriedFacts DEF InboxInv
      <4> QED BY <1>1, <2>4, <4>1
    <3>1. Bytes(received) = Bytes(sent)
      <4>1. SubSeq(sent, 1, Len(sent)) = sent
        BY <1>1, SubSeqFull
      <4>2. Len(received) <= Len(Carried) /\ protocol_ # "compressed"
        BY <1>1, <2>1, <2>4
      <4> QED BY <4>1, <4>2, HandedBytes
    <3>2. taken = Bytes(sent)
      BY <1>0, <1>3, <1>4, <2>1, <3>1 DEF FrameInv
    <3>3. Len(Stream) <= Len(taken)
      <4>1. IsPrefix(Stream, taken)
        BY <1>0, <3>2 DEF StreamInv
      <4> QED BY <4>1 DEF IsPrefix
    <3>4. Len(i) <= 0
      BY <1>0, <3>3, StreamLength
    <3>5. Len(T) >= 1 /\ Transferred \in Len(T) .. Len(i) /\ Len(i) \in Nat
      <4>1. T \in Seq(Byte) /\ Len(T) \in {1, 2}
        BY TerminatorType
      <4>2. Transferred \in Len(T) .. Len(i)
        BY <1>1, <2>2, <4>1, FirstEnd
      <4>3. Len(T) >= 1
        BY <4>1
      <4> QED BY <1>1, <4>2, <4>3
    <3> QED BY <3>4, <3>5
  <2> QED BY <1>3, <2>3, <2>4
<1>5. CASE reading.kind = "contents"
  <2>1. protocol_ = "basic"
    BY <1>0, <1>5 DEF StreamInv, Exact
  <2>2. want \in 0 .. Word - 1 /\ taken = Bytes(received) \o HostToNetwork(want)
    BY <1>0, <1>3, <1>5, <2>1 DEF FrameInv
  <2>3. Transferred = want /\ want <= Len(i)
    BY <1>1, <1>2, <1>5
  <2>4. ASSUME Len(received) < Len(Carried)
        PROVE  Decode(protocol_, frame) = Carried[Len(received) + 1]
    <3> DEFINE m == sent[Len(received) + 1]
    <3>1. /\ m \in AnyMessage /\ Carries(protocol_, m)
          /\ Carried[Len(received) + 1] = Seen(protocol_, m)
          /\ \E tail \in Seq(Byte), rest \in Seq(Byte) :
               HostToNetwork(want) \o (i \o tail) = Encode(protocol_, m) \o rest
      BY <1>3, <1>5, <2>4, NextFrameOfStream
    <3> HIDE DEF m
    <3>2. Len(BasicFrame(m)) < Word
      BY <2>1, <3>1 DEF Carries
    <3>3. PICK tail \in Seq(Byte), rest \in Seq(Byte) :
            HostToNetwork(want) \o (i \o tail) = Encode("basic", m) \o rest
      BY <2>1, <3>1
    <3> HIDE DEF i, want
    <3>4. SubSeq(i, 1, want) = BasicFrame(m)
      BY <1>1, <2>2, <2>3, <3>1, <3>2, <3>3, BasicParsed, Zenon
    <3>5. Decode("basic", BasicFrame(m)) = m
      BY <3>1, DecodeOfFrame
    <3>6. Seen(protocol_, m) = m
      BY <2>1 DEF Seen
    <3> QED BY <2>1, <2>3, <3>1, <3>4, <3>5, <3>6 DEF i
  <2>5. ASSUME Len(Carried) = Len(sent) PROVE Len(received) < Len(Carried)
    <3> SUFFICES ASSUME Len(received) = Len(sent) PROVE FALSE
      <4>1. Len(received) <= Len(Carried) /\ Len(Carried) \in Nat
        BY <1>0, <1>1, <2>5, CarriedFacts DEF InboxInv
      <4> QED BY <1>1, <2>5, <4>1
    <3> DEFINE b == Bytes(sent)
               length == HostToNetwork(want)
    <3>1. Bytes(received) = b
      <4>1. SubSeq(sent, 1, Len(sent)) = sent
        BY <1>1, SubSeqFull
      <4>2. Len(received) <= Len(Carried) /\ protocol_ # "compressed"
        BY <1>1, <2>1, <2>5
      <4> QED BY <4>1, <4>2, HandedBytes
    <3>2. b \in Seq(Byte) /\ length \in Seq(Byte) /\ Len(length) = WordBytes
      <4>1. protocol_ \in Protocols /\ protocol_ # "compressed"
        BY <2>1 DEF Protocols
      <4> QED BY <1>1, <2>2, <4>1, BytesType, WordOfValue
    <3>3. taken = b \o length
      BY <2>2, <3>1
    <3>4. Len(Stream) <= Len(b)
      <4>1. IsPrefix(Stream, b)
        BY <1>0 DEF StreamInv
      <4> QED BY <4>1 DEF IsPrefix
    <3> HIDE DEF b, length
    <3>5. Len(taken) = Len(b) + WordBytes /\ Len(b) \in Nat
      <4>1. Len(b \o length) = Len(b) + Len(length)
        BY <3>2, Concat
      <4> QED BY <3>2, <3>3, <4>1
    <3>6. Len(Stream) >= Len(taken) /\ Len(Stream) \in Nat
      BY <1>0, StreamLength
    <3> QED BY <3>4, <3>5, <3>6, CodecAssumption
  <2> QED BY <1>3, <2>4, <2>5
<1> QED BY <1>1, <1>2, <1>4, <1>5 DEF Kinds

(* How what is carried changes: by one message more, or not at all.        *)
LEMMA CarriedGrows ==
  ASSUME TypeInv, TypeInv', UNCHANGED protocol_, NEW m \in AnyMessage,
         sent' = Append(sent, m)
  PROVE  /\ \/ Len(Carried) = Len(sent) /\ Len(Carried') = Len(Carried) + 1
            \/ Len(Carried') = Len(Carried)
         /\ \A k \in 1 .. Len(Carried) : Carried'[k] = Carried[k]
<1> DEFINE old == CarriedOf(protocol_, sent)
           new == CarriedOf(protocol_, Append(sent, m))
<1>1. protocol_ \in Protocols /\ sent \in Seq(AnyMessage)
      /\ Append(sent, m) \in Seq(AnyMessage)
      /\ \A k \in 1 .. Len(sent) : Append(sent, m)[k] = sent[k]
  BY DEF TypeInv
<1>2. Carried = old /\ Carried' = new
  BY DEF Carried, CarriedOf, Able
<1>3. /\ Len(old) = Max(Able(protocol_, sent)) /\ Len(old) \in 0 .. Len(sent)
      /\ \A k \in 1 .. Len(old) : old[k] = Seen(protocol_, sent[k])
  BY <1>1, CarriedOfFacts
<1>4. /\ Len(new) = Max(Able(protocol_, Append(sent, m)))
      /\ \A k \in 1 .. Len(new) : new[k] = Seen(protocol_, Append(sent, m)[k])
  BY <1>1, CarriedOfFacts
<1>5. \/ Len(old) = Len(sent) /\ Len(new) = Len(old) + 1
      \/ Len(new) = Len(old)
  BY <1>1, <1>3, <1>4, AbleAppend
<1> HIDE DEF old, new
<1>6. ASSUME NEW k \in 1 .. Len(old) PROVE new[k] = old[k]
  <2>1. k \in 1 .. Len(new) /\ k \in 1 .. Len(sent)
    BY <1>1, <1>3, <1>5
  <2> QED BY <1>1, <1>3, <1>4, <2>1
<1> QED BY <1>2, <1>5, <1>6

LEMMA InitPromise == Init => PromiseInv
<1> SUFFICES ASSUME Init PROVE InboxInv
  BY InitBytes DEF PromiseInv
<1>1. received = <<>>
  BY DEF Init
<1>2. TypeInv
  BY InitBytes DEF BytesInv, ReadInv
<1>3. Len(received) = 0 /\ Len(Carried) \in Nat
  BY <1>1, <1>2, CarriedFacts DEF TypeInv
<1> QED BY <1>3 DEF InboxInv

(* Every step but those of the peer and of the receive handler leaves the  *)
(* histories alone. *)
LEMMA Histories ==
  ASSUME PromiseInv, [Next]_vars, switches' = 0
  PROVE  \/ /\ UNCHANGED <<received, told>>
            /\ \/ UNCHANGED sent
               \/ \E m \in AnyMessage : sent' = Append(sent, m)
         \/ ReceiveSucceeds
         \/ ReceiveFails
<1>1. TypeInv
  BY DEF PromiseInv, BytesInv, ReadInv
<1>2. ~ Settings
  BY <1>1, SameProtocol
<1>3. ASSUME NEW m \in Messages, PeerSends(m)
      PROVE  UNCHANGED <<received, told>> /\ m \in AnyMessage
             /\ sent' = Append(sent, m)
  BY <1>3, ReceiverAssumption DEF PeerSends
<1>4. CASE PeerCloses \/ BytesArrive \/ ReceiveMessage \/ ReceiveLength
           \/ DecodeFails \/ UNCHANGED vars
  <2>1. UNCHANGED <<received, told, sent>>
    BY <1>4 DEF PeerCloses, BytesArrive, ReceiveMessage, ReceiveLength,
                DecodeFails, vars, peerVars
  <2> QED BY <2>1
<1> QED BY <1>2, <1>3, <1>4 DEF Next, PeerSteps, Handlers

(* A message that is handed over while another one is carried.             *)
LEMMA Handing ==
  ASSUME PromiseInv, switches = 0, ReceiveSucceeds
  PROVE  /\ UNCHANGED <<sent, told>> /\ ~ told
         /\ \E m \in AnyMessage :
              /\ received' = Append(received, m)
              /\ Len(received) < Len(Carried) => m = Carried[Len(received) + 1]
         /\ Len(Carried) = Len(sent) => Len(received) < Len(Carried)
<1> DEFINE frame == SubSeq(input_buffer_, 1, Transferred)
           m == Decode(protocol_, frame)
<1>0. TypeInv /\ ReadInv
  BY DEF PromiseInv, BytesInv, ReadInv
<1>1. /\ Complete /\ reading.kind # "length"
      /\ DecodeError(protocol_, frame) = "none"
      /\ received' = Append(received, m)
      /\ UNCHANGED <<sent, told>>
  BY DEF ReceiveSucceeds, peerVars
<1>2. m \in AnyMessage
  <2>1. Transferred \in 0 .. Len(input_buffer_)
    BY <1>0, <1>1, CompleteFacts
  <2>2. frame \in Seq(Byte)
    BY <1>0, <2>1, TwoPieces DEF TypeInv
  <2> QED BY <1>0, <1>1, <2>2, DecodeType DEF TypeInv
<1>3. /\ ~ told
      /\ Len(received) < Len(Carried) => m = Carried[Len(received) + 1]
      /\ Len(Carried) = Len(sent) => Len(received) < Len(Carried)
  BY <1>1, HandsOver
<1> QED BY <1>1, <1>2, <1>3

LEMMA NextInbox ==
  ASSUME PromiseInv, [Next]_vars
  PROVE  InboxInv'
<1> SUFFICES ASSUME switches' = 0 PROVE InboxInv'
  BY DEF InboxInv
<1>0. TypeInv /\ TypeInv' /\ InboxInv
  BY NextReads DEF PromiseInv, BytesInv, ReadInv
<1>1. switches = 0 /\ UNCHANGED protocol_
  BY <1>0, SameProtocol
<1> DEFINE C == Carried
           R == received
           S == sent
<1>2. /\ \A k \in 1 .. Len(R) : k <= Len(C) => R[k] = C[k]
      /\ Len(C) = Len(S) => Len(R) <= Len(C)
  BY <1>0, <1>1 DEF InboxInv
<1>3. /\ R \in Seq(AnyMessage) /\ S \in Seq(AnyMessage)
      /\ C \in Seq(AnyMessage) /\ Len(C) \in 0 .. Len(S)
  BY <1>0, CarriedFacts DEF TypeInv
<1>4. ASSUME C' = C, S' = S, R' = R PROVE InboxInv'
  BY <1>1, <1>2, <1>4 DEF InboxInv
<1>c. ASSUME S' = S PROVE C' = C
  BY <1>1, <1>c DEF Carried
<1>5. ASSUME NEW m \in AnyMessage, S' = Append(S, m), R' = R PROVE InboxInv'
  <2>1. /\ \/ Len(C) = Len(S) /\ Len(C') = Len(C) + 1
           \/ Len(C') = Len(C)
        /\ \A k \in 1 .. Len(C) : C'[k] = C[k]
    BY <1>0, <1>1, <1>5, CarriedGrows
  <2>2. Len(S') = Len(S) + 1
    BY <1>3, <1>5
  <2>3. InboxInv' <=> (/\ \A k \in 1 .. Len(R') : k <= Len(C') => R'[k] = C'[k]
                       /\ Len(C') = Len(S') => Len(R') <= Len(C'))
    BY DEF InboxInv
  <2>n. Len(R) \in Nat /\ Len(S) \in Nat /\ Len(C) \in Nat
    BY <1>3
  <2> HIDE DEF C, R, S
  <2>4. ASSUME NEW k \in 1 .. Len(R'), k <= Len(C') PROVE R'[k] = C'[k]
    <3>1. k \in 1 .. Len(C) /\ k <= Len(C) /\ k \in 1 .. Len(R)
      BY <1>2, <1>3, <1>5, <2>1, <2>4, <2>n
    <3> QED BY <1>2, <1>5, <2>1, <3>1
  <2>5. Len(C') = Len(S') => Len(R') <= Len(C')
    BY <1>2, <1>3, <1>5, <2>1, <2>2, <2>n
  <2> QED BY <2>3, <2>4, <2>5
<1>6. CASE ReceiveSucceeds
  <2>1. PICK m \in AnyMessage :
          /\ R' = Append(R, m)
          /\ Len(R) < Len(C) => m = C[Len(R) + 1]
    BY <1>1, <1>6, Handing
  <2>2. S' = S /\ C' = C
    BY <1>1, <1>6, <1>c, Handing
  <2>3. Len(C) = Len(S) => Len(R) < Len(C)
    BY <1>1, <1>6, Handing
  <2>4. /\ Len(R') = Len(R) + 1 /\ R'[Len(R) + 1] = m
        /\ \A k \in 1 .. Len(R) : R'[k] = R[k]
    BY <1>3, <2>1
  <2>5. InboxInv' <=> (/\ \A k \in 1 .. Len(R') : k <= Len(C') => R'[k] = C'[k]
                       /\ Len(C') = Len(S') => Len(R') <= Len(C'))
    BY <1>1 DEF InboxInv
  <2>n. Len(R) \in Nat /\ Len(S) \in Nat /\ Len(C) \in Nat
    BY <1>3
  <2> HIDE DEF C, R, S
  <2>6. ASSUME NEW k \in 1 .. Len(R'), k <= Len(C') PROVE R'[k] = C'[k]
    <3>1. CASE k <= Len(R)
      <4>1. k \in 1 .. Len(R)
        BY <2>4, <2>n, <3>1
      <4> QED BY <1>2, <2>2, <2>4, <2>6, <4>1
    <3>2. CASE ~ (k <= Len(R))
      <4>1. k = Len(R) + 1 /\ Len(R) < Len(C)
        BY <2>2, <2>4, <2>6, <2>n, <3>2
      <4> QED BY <2>1, <2>2, <2>4, <4>1
    <3> QED BY <3>1, <3>2
  <2>7. Len(C') = Len(S') => Len(R') <= Len(C')
    BY <2>2, <2>3, <2>4, <2>n
  <2> QED BY <2>5, <2>6, <2>7
<1>7. CASE ReceiveFails
  BY <1>4, <1>7, <1>c DEF ReceiveFails, peerVars
<1> QED BY <1>4, <1>5, <1>6, <1>7, <1>c, Histories

LEMMA NextPromise == PromiseInv /\ [Next]_vars => PromiseInv'
BY NextBytes, NextInbox DEF PromiseInv

(* A message handed over is that of the oldest one that was not; what      *)
(* comes behind a message that cannot be carried is no part of the promise.*)
LEMMA PromiseHandOver ==
  ASSUME PromiseInv, switches = 0, UNCHANGED protocol_, ReceiveSucceeds
  PROVE  Promise!HandOver \/ UNCHANGED Promise!vars
<1> DEFINE C == Carried
           R == received
           L == Len(R)
           N == Len(C)
<1>0. TypeInv
  BY DEF PromiseInv, BytesInv, ReadInv
<1>1. /\ R \in Seq(AnyMessage) /\ C \in Seq(AnyMessage) /\ L \in Nat /\ N \in Nat
  BY <1>0, CarriedFacts DEF TypeInv
<1>2. PICK m \in AnyMessage : /\ R' = Append(R, m)
                              /\ L < N => m = C[L + 1]
  BY Handing
<1>3. ~ told /\ told' = told /\ C' = C
  BY Handing DEF Carried
<1>4. /\ R' \in Seq(AnyMessage) /\ Len(R') = L + 1
      /\ \A i \in 1 .. L : R'[i] = R[i]
  BY <1>1, <1>2
<1>5. HandedOver = SubSeq(R, 1, Min({L, N}))
  BY DEF HandedOver
<1>6. HandedOver' = SubSeq(R', 1, Min({L + 1, N}))
  BY <1>3, <1>4 DEF HandedOver
<1>7. CASE L < N
  <2>1. Min({L, N}) = L /\ Min({L + 1, N}) = L + 1
    <3>1. /\ Min({L, N}) \in {L, N} /\ Min({L, N}) <= L
          /\ Min({L + 1, N}) \in {L + 1, N} /\ Min({L + 1, N}) <= N
          /\ Min({L + 1, N}) <= L + 1
      <4> HIDE DEF L, N
      <4>1. L + 1 \in Nat
        BY <1>1
      <4> QED BY <1>1, <4>1, PairMin
    <3> HIDE DEF L, N
    <3> QED BY <1>1, <1>7, <3>1
  <2>2. HandedOver = R
    BY <1>1, <1>5, <2>1, SubSeqFull
  <2>3. HandedOver' = R'
    BY <1>4, <1>6, <2>1, SubSeqFull
  <2>4. HandedOver' = Append(HandedOver, C[Len(HandedOver) + 1])
    BY <1>2, <1>7, <2>2, <2>3
  <2>5. Promise!HandOver
    BY <1>3, <1>7, <2>2, <2>4 DEF Promise!HandOver
  <2> QED BY <2>5
<1>8. CASE ~ (L < N)
  <2>1. Min({L, N}) = N /\ Min({L + 1, N}) = N
    <3>1. /\ Min({L, N}) \in {L, N} /\ Min({L, N}) <= N
          /\ Min({L + 1, N}) \in {L + 1, N} /\ Min({L + 1, N}) <= N
      <4> HIDE DEF L, N
      <4>1. L + 1 \in Nat
        BY <1>1
      <4> QED BY <1>1, <4>1, PairMin
    <3> HIDE DEF L, N
    <3> QED BY <1>1, <1>8, <3>1
  <2> DEFINE front == SubSeq(R, 1, N)
  <2>2. N \in 0 .. Len(R)
    BY <1>1, <1>8
  <2>3. front \in Seq(AnyMessage) /\ Len(front) = N
    BY <1>1, <2>2, TwoPieces
  <2>4. \A i \in 1 .. N : front[i] = R[i]
    <3>1. 1 \in Int /\ N \in Int /\ \A i \in 1 .. N : R[i] \in AnyMessage
      BY <1>1, <1>8
    <3>2. \A i \in 1 .. N - 1 + 1 : front[i] = R[1 + i - 1]
      BY <3>1, SubSeqProperties
    <3>3. N - 1 + 1 = N /\ \A i \in 1 .. N : 1 + i - 1 = i
      BY <1>1
    <3> QED BY <3>2, <3>3
  <2> HIDE DEF front
  <2>5. \A i \in 1 .. Len(front) : R'[i] = front[i]
    <3>1. \A i \in 1 .. N : i \in 1 .. L
      BY <1>1, <1>8
    <3> QED BY <1>4, <2>3, <2>4, <3>1
  <2>6. Len(front) <= Len(R')
    BY <1>1, <1>4, <1>8, <2>3
  <2>7. SubSeq(R', 1, Len(front)) = front
    BY <1>4, <2>3, <2>5, <2>6, FrontOf
  <2>8. HandedOver' = HandedOver
    BY <1>5, <1>6, <2>1, <2>3, <2>7 DEF front
  <2> QED BY <1>3, <2>8 DEF Promise!vars
<1> QED BY <1>7, <1>8

(* A message of the peer arrives in the promise if it can be carried, and  *)
(* none before it could not be.                                            *)
LEMMA PromiseArrive ==
  ASSUME PromiseInv, TypeInv', switches = 0, UNCHANGED <<protocol_, received, told>>,
         NEW m \in AnyMessage, sent' = Append(sent, m)
  PROVE  Promise!Arrive \/ UNCHANGED Promise!vars
<1> DEFINE C == Carried
           R == received
           L == Len(R)
           N == Len(C)
<1>0. TypeInv /\ InboxInv
  BY DEF PromiseInv, BytesInv, ReadInv
<1>1. /\ R \in Seq(AnyMessage) /\ C \in Seq(AnyMessage) /\ L \in Nat /\ N \in Nat
  BY <1>0, CarriedFacts DEF TypeInv
<1>2. /\ \/ N = Len(sent) /\ Len(C') = N + 1
         \/ Len(C') = N
      /\ \A k \in 1 .. N : C'[k] = C[k]
  BY <1>0, CarriedGrows
<1>3. C' \in Seq(AnyMessage)
  <2>1. /\ protocol_ \in Protocols /\ sent \in Seq(AnyMessage)
        /\ Append(sent, m) \in Seq(AnyMessage)
    BY <1>0 DEF TypeInv
  <2>2. C' = CarriedOf(protocol_, Append(sent, m))
    BY DEF Carried, CarriedOf, Able
  <2> QED BY <2>1, <2>2, CarriedOfFacts
<1>4. CASE Len(C') = N
  <2>1. C' = C
    <3> HIDE DEF C
    <3> QED BY <1>1, <1>2, <1>3, <1>4, SeqEqual
  <2>2. HandedOver' = HandedOver
    BY <2>1 DEF HandedOver
  <2> QED BY <2>1, <2>2 DEF Promise!vars
<1>5. CASE Len(C') = N + 1 /\ N = Len(sent)
  <2>1. L <= N
    BY <1>0, <1>5 DEF InboxInv
  <2>2. Min({L, N}) = L /\ Min({L, N + 1}) = L
    <3>1. /\ Min({L, N}) \in {L, N} /\ Min({L, N}) <= L
          /\ Min({L, N + 1}) \in {L, N + 1} /\ Min({L, N + 1}) <= L
      <4> HIDE DEF L, N
      <4>1. N + 1 \in Nat
        BY <1>1
      <4> QED BY <1>1, <4>1, PairMin
    <3> HIDE DEF L, N
    <3> QED BY <1>1, <2>1, <3>1
  <2>3. HandedOver' = HandedOver
    BY <1>5, <2>2 DEF HandedOver
  <2>4. SubSeq(C', 1, N) = C
    <3> HIDE DEF C
    <3>1. Len(C) <= Len(C')
      BY <1>1, <1>5
    <3> QED BY <1>1, <1>2, <1>3, <3>1, FrontOf
  <2>5. Promise!Arrive
    BY <1>5, <2>3, <2>4 DEF Promise!Arrive
  <2> QED BY <2>5
<1> QED BY <1>2, <1>4, <1>5

(* The receiver keeps the promise of Inbox for every protocol and every    *)
(* split of the stream, as long as no side has changed its protocol: what  *)
(* the protocol can carry is handed over once, in order and unchanged,     *)
(* until an error, which is reported once (receiver.hpp).                  *)
THEOREM ReceiverImplementsInbox == Spec => ImplementsInbox
<1>1. Init => Promise!Init
  <2> SUFFICES ASSUME Init PROVE Promise!Init
    OBVIOUS
  <2>0. TypeInv
    BY InitBytes DEF BytesInv, ReadInv
  <2>1. sent = <<>> /\ received = <<>> /\ told = FALSE
    BY DEF Init
  <2>2. Carried = <<>>
    <3>1. Carried \in Seq(AnyMessage) /\ Len(Carried) \in 0 .. Len(sent)
      BY <2>0, CarriedFacts
    <3>2. Len(Carried) = 0
      BY <2>1, <3>1
    <3> HIDE DEF Carried
    <3> QED BY <3>1, <3>2
  <2>3. HandedOver = <<>>
    <3>1. Min({0, 0}) = 0
      <4>1. 0 \in Nat
        OBVIOUS
      <4>2. Min({0, 0}) \in {0, 0}
        BY <4>1, PairMin
      <4> QED BY <4>2
    <3>2. Len(received) = 0 /\ Len(Carried) = 0
      BY <2>1, <2>2
    <3>3. SubSeq(<<>>, 1, 0) = <<>>
      OBVIOUS
    <3> QED BY <2>1, <3>1, <3>2, <3>3 DEF HandedOver
  <2> QED BY <2>1, <2>2, <2>3 DEF Promise!Init
<1>2. PromiseInv /\ [Next]_vars
        => [switches' = 0 => Promise!Next \/ UNCHANGED Promise!vars]_vars
  <2> SUFFICES ASSUME PromiseInv, [Next]_vars, switches' = 0
               PROVE  Promise!Next \/ UNCHANGED Promise!vars
    OBVIOUS
  <2>0. TypeInv /\ TypeInv' /\ ReadInv
    BY NextReads DEF PromiseInv, BytesInv, ReadInv
  <2>1. switches = 0 /\ UNCHANGED protocol_
    BY <2>0, SameProtocol
  <2>2. ASSUME UNCHANGED <<received, told, sent>>
        PROVE  UNCHANGED Promise!vars
    BY <2>1, <2>2 DEF Promise!vars, HandedOver, Carried
  <2>3. ASSUME NEW m \in AnyMessage, sent' = Append(sent, m),
               UNCHANGED <<received, told>>
        PROVE  Promise!Next \/ UNCHANGED Promise!vars
    BY <2>0, <2>1, <2>3, PromiseArrive DEF Promise!Next
  <2>4. CASE ReceiveSucceeds
    BY <2>1, <2>4, PromiseHandOver DEF Promise!Next
  <2>5. CASE ReceiveFails
    <3>1. /\ reading.kind # "none" /\ told' = TRUE
          /\ UNCHANGED <<sent, received>>
      BY <2>5 DEF ReceiveFails, peerVars
    <3>2. ~ told
      BY <2>0, <3>1 DEF ReadInv, ChainInv, TypeInv
    <3>3. UNCHANGED <<Carried, HandedOver>>
      BY <2>1, <3>1 DEF HandedOver, Carried
    <3> QED BY <3>1, <3>2, <3>3 DEF Promise!Next, Promise!Fail
  <2> QED BY <2>2, <2>3, <2>4, <2>5, Histories
<1> QED BY <1>1, <1>2, InitPromise, NextPromise, PTL DEF Spec, ImplementsInbox

-----------------------------------------------------------------------------
(* A read of a number of bytes finds no others in the buffer, and told     *)
(* means closed: the two facts that BytesInv lacks for what follows.       *)
GotInv ==
  /\ told => closed
  /\ switches = 0 /\ protocol_ = "basic" =>
       /\ Exact => reading.got = Len(input_buffer_)
       /\ posted > 0 => input_buffer_ = <<>>

LEMMA InitGot == Init => GotInv
<1>1. NoRead.kind = "none"
  BY ReadFacts
<1> QED BY <1>1 DEF Init, GotInv, Exact

LEMMA NextGot ==
  ASSUME BytesInv, GotInv, [Next]_vars
  PROVE  GotInv'
<1>0. /\ ReadInv /\ TypeInv /\ TypeInv' /\ ChainInv /\ StreamInv
      /\ input_buffer_ \in Seq(Byte) /\ wire \in Seq(Byte)
      /\ reading.kind \in Kinds /\ reading.want \in Nat /\ reading.got \in Nat
      /\ posted \in Nat /\ Len(input_buffer_) \in Nat
  BY NextReads DEF BytesInv, ReadInv, TypeInv, Reads
<1>n. NoRead.kind = "none"
  BY ReadFacts
<1>1. told' => closed'
  BY DEF GotInv, Next, PeerSteps, PeerSends, PeerCloses, Settings, SetProtocol,
         PeerSetProtocol, BytesArrive, Handlers, ReceiveMessage, ReceiveLength,
         DecodeFails, ReceiveSucceeds, ReceiveFails, vars, peerVars
<1> DEFINE Basic == /\ Exact => reading.got = Len(input_buffer_)
                    /\ posted > 0 => input_buffer_ = <<>>
<1> SUFFICES ASSUME switches' = 0, protocol_' = "basic" PROVE Basic'
  BY <1>1 DEF GotInv
<1>2. switches = 0 /\ protocol_ = "basic" /\ ~ Settings
  BY <1>0, SameProtocol
<1>3. Basic
  BY <1>2 DEF GotInv
<1>4. ASSUME UNCHANGED <<reading, posted, input_buffer_>> PROVE Basic'
  BY <1>3, <1>4 DEF Exact
<1>5. CASE BytesArrive
  <2>1. PICK n \in 1 .. Min({Room, Len(wire)}) :
          /\ input_buffer_' = input_buffer_ \o SubSeq(wire, 1, n)
          /\ reading' = [reading EXCEPT !.got = @ + n]
          /\ posted' = posted
    BY <1>5 DEF BytesArrive
  <2>2. n \in 1 .. Len(wire) /\ reading.kind # "none"
    BY <1>0, RoomFacts
  <2>3. SubSeq(wire, 1, n) \in Seq(Byte) /\ Len(SubSeq(wire, 1, n)) = n
    <3>1. n \in 0 .. Len(wire)
      BY <2>2
    <3> QED BY <1>0, <3>1, TwoPieces
  <2>4. Len(input_buffer_') = Len(input_buffer_) + n
    BY <1>0, <2>1, <2>3, Concat
  <2>5. reading'.kind = reading.kind /\ reading'.got = reading.got + n
    BY <1>0, <2>1, <2>2, ReadFacts DEF TypeInv
  <2>6. posted = 0
    BY <1>0, <2>2 DEF ChainInv
  <2> QED BY <1>3, <2>1, <2>4, <2>5, <2>6 DEF Exact
<1>6. CASE ReceiveMessage
  <2>1. posted > 0 /\ posted' = posted - 1 /\ input_buffer_' = input_buffer_
        /\ reading' = Exactly("length", WordBytes)
    BY <1>2, <1>6 DEF ReceiveMessage, Starts
  <2>2. posted' = 0 /\ input_buffer_' = <<>>
    BY <1>0, <1>3, <2>1 DEF ChainInv
  <2>3. reading'.got = 0
    BY <2>1, ReadFacts, CodecAssumption DEF Kinds
  <2> QED BY <2>2, <2>3
<1>7. CASE ReceiveLength
  <2>1. /\ Complete /\ reading.kind = "length" /\ Consume(WordBytes)
        /\ reading' = Exactly("contents",
                        NetworkToHost(SubSeq(input_buffer_, 1, WordBytes)))
        /\ posted' = posted
    BY <1>7 DEF ReceiveLength
  <2>2. reading.got = WordBytes /\ WordBytes = Len(input_buffer_)
    BY <1>0, <1>3, <2>1 DEF Complete, ChainInv, Exact
  <2>3. Len(input_buffer_') = 0
    <3>1. input_buffer_' = SubSeq(input_buffer_, WordBytes + 1, Len(input_buffer_))
      BY <2>1 DEF Consume
    <3>2. WordBytes \in 0 .. Len(input_buffer_)
      BY <1>0, <2>2
    <3> QED BY <1>0, <2>2, <3>1, <3>2, TwoPieces
  <2>4. reading'.got = 0
    <3> DEFINE bytes == SubSeq(input_buffer_, 1, WordBytes)
    <3>1. bytes \in Seq(Byte) /\ Len(bytes) = WordBytes
      BY <1>0, <2>2, TwoPieces
    <3>2. NetworkToHost(bytes) \in Nat
      <4>1. NetworkToHost(bytes) \in 0 .. Word - 1
        BY <3>1, ValueOfWord
      <4> QED BY <4>1
    <3> HIDE DEF bytes
    <3>3. reading' = Exactly("contents", NetworkToHost(bytes))
      BY <2>1 DEF bytes
    <3> QED BY <3>2, <3>3, ReadFacts DEF Kinds
  <2>5. posted = 0
    BY <1>0, <2>1 DEF ChainInv
  <2> QED BY <1>0, <2>1, <2>3, <2>4, <2>5
<1>8. CASE DecodeFails
  <2>1. /\ Complete /\ reading' = NoRead /\ posted' = posted
        /\ input_buffer_' = input_buffer_
    BY <1>8 DEF DecodeFails
  <2>2. posted = 0
    BY <1>0, <2>1, CompleteFacts DEF ChainInv
  <2> QED BY <1>n, <2>1, <2>2 DEF Exact
<1>9. CASE ReceiveSucceeds
  <2>1. /\ Complete /\ reading' = NoRead /\ Consume(Transferred)
        /\ reading.kind # "length"
    BY <1>9 DEF ReceiveSucceeds
  <2>2. Exact
    <3>1. reading.kind # "until" /\ reading.kind # "none"
      BY <1>0, <1>2, <2>1, CompleteFacts DEF StreamInv
    <3> QED BY <1>0, <3>1 DEF Kinds, Exact
  <2>3. Transferred = Len(input_buffer_)
    BY <1>3, <2>1, <2>2 DEF Complete, Transferred, Exact
  <2>4. input_buffer_' = <<>>
    <3>1. input_buffer_' = SubSeq(input_buffer_, Transferred + 1, Len(input_buffer_))
      BY <2>1 DEF Consume
    <3>2. Transferred \in 0 .. Len(input_buffer_)
      BY <1>0, <2>3
    <3>3. input_buffer_' \in Seq(Byte) /\ Len(input_buffer_') = 0
      BY <1>0, <2>3, <3>1, <3>2, TwoPieces
    <3> QED BY <3>3
  <2> QED BY <1>n, <2>1, <2>4 DEF Exact
<1>10. CASE ReceiveFails
  <2>1. /\ reading.kind # "none" /\ reading' = NoRead /\ posted' = posted
    BY <1>10 DEF ReceiveFails
  <2>2. posted = 0
    BY <1>0, <2>1 DEF ChainInv
  <2> QED BY <1>n, <2>1, <2>2 DEF Exact
<1>11. CASE PeerSteps \/ UNCHANGED vars
  BY <1>4, <1>11 DEF PeerSteps, PeerSends, PeerCloses, vars
<1> QED BY <1>2, <1>5, <1>6, <1>7, <1>8, <1>9, <1>10, <1>11
        DEF Next, Handlers

(* Nothing is left to do for the network and the io_service: receive() was *)
(* not posted, no byte is under way, and the outstanding read, if there is *)
(* one, has not got all it wants.                                          *)
AtRest == posted = 0 /\ wire = <<>> /\ ~Complete

(* Of a live peer the bytes behind what was handed over are all there, and *)
(* begin with the frame of the next message it sent.                       *)
LEMMA NextFrameIsThere ==
  ASSUME PromiseInv, switches = 0, Len(received) < Len(Carried),
         ~ told, fault = "none", ~ closed, wire = <<>>
  PROVE  LET m == sent[Len(received) + 1]
             length == IF reading.kind = "contents"
                       THEN HostToNetwork(reading.want) ELSE <<>>
         IN  /\ protocol_ \in {"line", "telnet", "basic"}
             /\ m \in AnyMessage
             /\ Carries(protocol_, m)
             /\ reading.kind = "contents" => reading.want \in 0 .. Word - 1
             /\ \E rest \in Seq(Byte) :
                  length \o input_buffer_ = Encode(protocol_, m) \o rest
<1> DEFINE r == Len(received)
           m == sent[r + 1]
           e == Encode(protocol_, m)
           length == IF reading.kind = "contents"
                     THEN HostToNetwork(reading.want) ELSE <<>>
           b == Bytes(received)
           front == SubSeq(sent, 1, r)
           i == input_buffer_
<1>0. TypeInv /\ StreamInv /\ FrameInv /\ InboxInv
  BY DEF PromiseInv, BytesInv, ReadInv
<1>1. /\ received \in Seq(AnyMessage) /\ sent \in Seq(AnyMessage)
      /\ taken \in Seq(Byte) /\ i \in Seq(Byte) /\ protocol_ \in Protocols
  BY <1>0 DEF TypeInv
<1>2. /\ protocol_ \in {"line", "telnet", "basic"}
      /\ m \in AnyMessage /\ Carries(protocol_, m)
  BY NextFrameOfStream
<1>3. r \in Nat /\ r < Len(sent) /\ r <= Len(Carried)
  <2>1. Len(Carried) \in 0 .. Len(sent)
    BY <1>0, CarriedFacts
  <2> QED BY <1>1, <2>1
<1>4. b = Bytes(front)
  BY <1>2, <1>3, HandedBytes
<1>5. b \in Seq(Byte) /\ e \in Seq(Byte)
      /\ \E rest \in Seq(Byte) : Bytes(sent) = b \o (e \o rest)
  <2>1. protocol_ \in Protocols \ {"compressed"}
    BY <1>2 DEF Protocols
  <2>2. /\ Bytes(front) \in Seq(Byte) /\ e \in Seq(Byte)
        /\ \E rest \in Seq(Byte) : Bytes(sent) = Bytes(front) \o (e \o rest)
    BY <1>1, <1>3, <2>1, BytesFront
  <2> HIDE DEF b, front, e
  <2> QED BY <1>4, <2>2
<1>6. /\ reading.kind = "contents" =>
           /\ reading.want \in 0 .. Word - 1
           /\ taken = b \o HostToNetwork(reading.want)
      /\ reading.kind # "contents" => taken = b
  BY <1>0, <1>2 DEF FrameInv
<1>7. length \in Seq(Byte) /\ taken = b \o length
  <2>1. CASE reading.kind = "contents"
    <3>1. HostToNetwork(reading.want) \in Seq(Byte)
      BY <1>6, <2>1, WordOfValue
    <3> QED BY <1>6, <2>1, <3>1
  <2>2. CASE reading.kind # "contents"
    <3> HIDE DEF b
    <3>1. b \o <<>> = b /\ <<>> \in Seq(Byte)
      BY <1>5, Concat
    <3> QED BY <1>6, <2>2, <3>1
  <2> QED BY <2>1, <2>2
<1>8. taken \o i = Bytes(sent)
  <2> DEFINE ti == taken \o i
  <2>1. ti \in Seq(Byte)
    BY <1>1, Concat
  <2>2. Stream = ti \o <<>> /\ Stream = Bytes(sent)
    BY <1>0 DEF StreamInv, Stream
  <2> HIDE DEF ti
  <2>3. ti = Bytes(sent)
    BY <2>1, <2>2, Concat
  <2> QED BY <2>3 DEF ti
<1>9. PICK rest \in Seq(Byte) : taken \o i = b \o (e \o rest)
  BY <1>5, <1>8
<1>10. i \in Seq(Byte) /\ (b \o length) \o i = b \o (e \o rest)
  BY <1>1, <1>7, <1>9
<1>11. \A x \in Seq(Byte) :
         length \o i = e \o x => length \o input_buffer_ = e \o x
  OBVIOUS
<1> HIDE DEF b, e, length, i, front, m, r
<1>12. length \o i = e \o rest
  <2> DEFINE li == length \o i
             er == e \o rest
  <2>1. li \in Seq(Byte) /\ er \in Seq(Byte)
    BY <1>5, <1>7, <1>10, Concat
  <2>2. (b \o length) \o i = b \o (length \o i)
    BY ONLY <1>5, <1>7, <1>10, Assoc
  <2>3. b \o li = b \o er
    BY <1>10, <2>2
  <2> HIDE DEF li, er
  <2>4. li = er
    BY <1>5, <2>1, <2>3, Cancel
  <2> QED BY <2>4 DEF li, er
<1>13. \E x \in Seq(Byte) : length \o input_buffer_ = e \o x
  BY <1>11, <1>12
<1> QED BY <1>2, <1>6, <1>13 DEF m, r, e, length, i

(* And then the outstanding read is complete.                              *)
LEMMA FrameIsComplete ==
  ASSUME PromiseInv, GotInv, switches = 0, Len(received) < Len(Carried),
         fault = "none", ~ closed, posted = 0, wire = <<>>
  PROVE  Complete
<1> DEFINE m == sent[Len(received) + 1]
           i == input_buffer_
           T == Terminator(protocol_)
<1>0. /\ ReadInv /\ TypeInv /\ ChainInv /\ StreamInv
      /\ i \in Seq(Byte) /\ reading.kind \in Kinds
      /\ reading.want \in Nat /\ reading.got \in Nat
      /\ posted \in Nat /\ Len(i) \in Nat
      /\ T \in Seq(Byte) /\ Len(T) \in {1, 2}
  BY TerminatorType DEF PromiseInv, BytesInv, ReadInv, TypeInv, Reads
<1>1. ~ told
  BY DEF GotInv
<1>2. reading.kind # "none"
  BY <1>0, <1>1 DEF ChainInv
<1>3. /\ protocol_ \in {"line", "telnet", "basic"}
      /\ m \in AnyMessage /\ Carries(protocol_, m)
      /\ reading.kind = "contents" => reading.want \in 0 .. Word - 1
      /\ \E rest \in Seq(Byte) :
            (IF reading.kind = "contents"
             THEN HostToNetwork(reading.want) ELSE <<>>) \o i
              = Encode(protocol_, m) \o rest
  BY <1>1, NextFrameIsThere
<1> DEFINE length == IF reading.kind = "contents"
                     THEN HostToNetwork(reading.want) ELSE <<>>
<1>4. PICK rest \in Seq(Byte) : length \o i = Encode(protocol_, m) \o rest
  BY <1>3
<1> HIDE DEF m
<1>5. reading.kind # "contents" => i = Encode(protocol_, m) \o rest
  <2>1. <<>> \o i = i
    BY <1>0, Concat
  <2> QED BY <1>4, <2>1
<1>6. CASE reading.kind = "until"
  <2>1. protocol_ \in {"line", "telnet"} /\ reading.until = T
    BY <1>0, <1>6 DEF StreamInv
  <2> DEFINE c == m.contents
             line == c \o T
             n == Len(c) + Len(T)
  <2>2. c \in Seq(Byte) /\ i = line \o rest
    BY <1>3, <1>5, <1>6, <2>1 DEF AnyMessage, Encode
  <2>3. line \in Seq(Byte) /\ Len(line) = n /\ Len(c) \in Nat
    BY <1>0, <2>2, Concat
  <2>4. \A j \in 1 .. Len(T) : line[Len(c) + j] = T[j]
    BY <1>0, <2>2, ConcatBytes
  <2> HIDE DEF c, T, i, line
  <2>5. Len(i) = Len(line) + Len(rest) /\ \A k \in 1 .. Len(line) : i[k] = line[k]
    BY <2>2, <2>3, Concat, ConcatBytes
  <2>6. n \in Len(T) .. Len(i)
    BY <1>0, <2>3, <2>5
  <2>7. ASSUME NEW j \in 1 .. Len(T) PROVE i[n - Len(T) + j] = T[j]
    <3>1. n - Len(T) + j = Len(c) + j /\ Len(c) + j \in 1 .. Len(line)
      BY <1>0, <2>3
    <3> QED BY <2>4, <2>5, <3>1
  <2>8. n \in Ends(i, T)
    BY <1>0, <2>6, <2>7, EndFacts
  <2> QED BY <1>6, <2>1, <2>8 DEF Complete, Found, i
<1>7. CASE Exact
  <2>1. protocol_ = "basic"
    BY <1>0, <1>7 DEF StreamInv
  <2>2. reading.got = Len(i) /\ reading.got <= reading.want
    BY <1>0, <1>7, <2>1 DEF GotInv, ChainInv
  <2> DEFINE frame == BasicFrame(m)
             size == Len(frame)
             head == HostToNetwork(size)
  <2>3. frame \in Seq(Byte) /\ size \in Nat /\ size < Word /\ Word \in Nat
    BY <1>3, <2>1, BasicFrameType, PlaceFacts, CodecAssumption DEF Word, Carries
  <2>4. size \in 0 .. Word - 1 /\ size % Word = size
    BY <2>3, RemainderSmall
  <2>5. Encode(protocol_, m) = head \o frame
    BY <2>1, <2>4 DEF Encode
  <2>6. head \in Seq(Byte) /\ Len(head) = WordBytes /\ NetworkToHost(head) = size
    BY <2>4, WordOfValue
  <2> HIDE DEF frame, size, head
  <2> DEFINE fr == frame \o rest
  <2>7. /\ fr \in Seq(Byte) /\ Len(fr) = Len(frame) + Len(rest)
        /\ (head \o frame) \o rest = head \o fr
    <3>1. frame \in Seq(Byte) /\ head \in Seq(Byte) /\ rest \in Seq(Byte)
      BY <2>3, <2>6
    <3>2. (head \o frame) \o rest = head \o (frame \o rest)
      BY ONLY <3>1, Assoc
    <3>3. fr \in Seq(Byte) /\ Len(fr) = Len(frame) + Len(rest)
      BY <3>1, Concat
    <3> QED BY <3>2, <3>3
  <2>8. WordBytes \in Nat /\ Len(frame) \in Nat /\ Len(rest) \in Nat
    BY <2>3, CodecAssumption
  <2> HIDE DEF fr
  <2>9. reading.want <= Len(i)
    <3>1. CASE reading.kind = "length"
      <4>1. reading.want = WordBytes
        BY <1>0, <3>1 DEF ChainInv
      <4>2. i = head \o fr
        BY <1>5, <2>5, <2>7, <3>1
      <4>3. Len(i) = WordBytes + Len(fr)
        BY <2>6, <2>7, <4>2, Concat
      <4> QED BY <2>7, <2>8, <4>1, <4>3
    <3>2. CASE reading.kind = "contents"
      <4> DEFINE wanted == HostToNetwork(reading.want)
      <4>1. /\ wanted \in Seq(Byte) /\ Len(wanted) = WordBytes
            /\ NetworkToHost(wanted) = reading.want
        BY <1>3, <3>2, WordOfValue
      <4>2. wanted \o i = head \o fr
        BY <1>4, <2>5, <2>7, <3>2
      <4> HIDE DEF wanted, i
      <4>3. wanted = head /\ i = fr
        BY <1>0, <2>6, <2>7, <4>1, <4>2, SameFront
      <4>4. reading.want = size
        BY <2>6, <4>1, <4>3
      <4> QED BY <2>7, <2>8, <4>3, <4>4 DEF size
    <3> QED BY <1>7, <3>1, <3>2 DEF Exact
  <2>10. reading.got = reading.want
    BY <1>0, <2>2, <2>9
  <2> QED BY <1>7, <2>10 DEF Complete
<1> QED BY <1>0, <1>2, <1>6, <1>7 DEF Kinds, Exact

(* What the peer sent is not kept back: with neither protocol changed, a   *)
(* peer that is there and a handler that has not thrown, the receiver only *)
(* comes to rest when all that the protocol can carry was handed over. It  *)
(* is the part of Delivered that needs no fairness: whatever the sizes of  *)
(* the pieces the bytes came in, the read that is left waits for a byte    *)
(* that was not sent.                                                      *)
THEOREM NothingIsWithheld ==
  Spec => [](switches = 0 /\ ~closed /\ fault = "none" /\ AtRest
               => Len(received) >= Len(Carried))
<1>1. Init => PromiseInv /\ GotInv
  BY InitPromise, InitGot
<1>2. PromiseInv /\ GotInv /\ [Next]_vars => PromiseInv' /\ GotInv'
  BY NextPromise, NextGot DEF PromiseInv
<1>3. PromiseInv /\ GotInv
        => (switches = 0 /\ ~closed /\ fault = "none" /\ AtRest
              => Len(received) >= Len(Carried))
  <2> SUFFICES ASSUME PromiseInv, GotInv, switches = 0, ~closed, fault = "none",
                      AtRest, ~ (Len(received) >= Len(Carried))
               PROVE  FALSE
    OBVIOUS
  <2>1. Len(received) < Len(Carried)
    <3>1. TypeInv
      BY DEF PromiseInv, BytesInv, ReadInv
    <3>2. Len(received) \in Nat /\ Len(Carried) \in Nat
      BY <3>1, CarriedFacts DEF TypeInv
    <3> QED BY <3>2
  <2> QED BY <2>1, FrameIsComplete DEF AtRest
<1> QED BY <1>1, <1>2, <1>3, PTL DEF Spec

=============================================================================
