----------------------------- MODULE TextProofs -----------------------------
(***************************************************************************)
(* Proofs about the texts of Codecs, for all values of its constants: what *)
(* the readers and writers of numbers, bytes, hashes, addresses and ages   *)
(* make of any input, and the answers to messages.  First the lemmas about *)
(* folds, quotients and powers of two that CodecProofs needs as well.      *)
(***************************************************************************)
EXTENDS Codecs, SequenceTheorems, FiniteSetTheorems, WellFoundedInduction, TLAPS

-----------------------------------------------------------------------------
(* Folds.  FoldLeft picks a function on sets of places; such a function is *)
(* made here for any operation on a set R that is given as a table G, one  *)
(* function from R to R for each place.                                    *)
Iterates(iter, n, base, G) ==
  iter = [s \in SUBSET (1..n) |->
            IF s = {} THEN base ELSE G[Max(s)][iter[s \ {Max(s)}]]]

LEMMA NatSetInduction ==
  ASSUME NEW T, 0 \in T, \A n \in Nat : n \in T => n + 1 \in T
  PROVE  \A n \in Nat : n \in T
<1> SUFFICES ASSUME NEW n \in Nat, n \notin T PROVE FALSE
  OBVIOUS
<1> DEFINE R == OpToRel(<, Nat)
           U == {m \in Nat : m \notin T}
<1>1. PICK x \in U : \A y \in U : <<y, x>> \notin R
  <2>1. IsWellFoundedOn(R, Nat)
    BY NatLessThanWellFounded
  <2>2. U \subseteq Nat /\ U # {}
    OBVIOUS
  <2> HIDE DEF R, U
  <2> QED BY <2>1, <2>2, WFMin
<1>2. x # 0 /\ x - 1 \in Nat /\ x - 1 \in U
  OBVIOUS
<1>3. <<x - 1, x>> \in R
  BY <1>2 DEF OpToRel
<1> QED BY <1>1, <1>2, <1>3

LEMMA MaxIs ==
  ASSUME NEW S \in SUBSET Nat, NEW m \in S, \A x \in S : x <= m
  PROVE  Max(S) = m
<1>1. \A x \in S : (\A y \in S : x >= y) => x = m
  OBVIOUS
<1>2. \A y \in S : m >= y
  OBVIOUS
<1> QED BY <1>1, <1>2 DEF Max

(* A set of places has a greatest one.                                     *)
LEMMA MaxExists ==
  \A n \in Nat : \A s \in SUBSET (1..n) : s # {} => Max(s) \in s /\ \A x \in s : x <= Max(s)
<1> DEFINE T == {n \in Nat : \A s \in SUBSET (1..n) :
                               s # {} => \E m \in s : \A x \in s : x <= m}
<1>1. 0 \in T
  <2>1. \A s \in SUBSET (1..0) : s = {}
    OBVIOUS
  <2> QED BY <2>1
<1>2. ASSUME NEW n \in Nat, n \in T PROVE n + 1 \in T
  <2> SUFFICES ASSUME NEW s \in SUBSET (1..(n + 1)), s # {} PROVE \E m \in s : \A x \in s : x <= m
    OBVIOUS
  <2>1. CASE n + 1 \in s
    BY <2>1
  <2>2. CASE n + 1 \notin s
    <3>1. s \in SUBSET (1..n)
      BY <2>2
    <3> QED BY <1>2, <3>1
  <2> QED BY <2>1, <2>2
<1> HIDE DEF T
<1>3. \A n \in Nat : n \in T
  BY <1>1, <1>2, NatSetInduction
<1> SUFFICES ASSUME NEW n \in Nat, NEW s \in SUBSET (1..n), s # {}
             PROVE  Max(s) \in s /\ \A x \in s : x <= Max(s)
  OBVIOUS
<1>4. PICK m \in s : \A x \in s : x <= m
  BY <1>3 DEF T
<1> QED BY <1>4, MaxIs

LEMMA FoldExists ==
  ASSUME NEW R, NEW base \in R, NEW N \in Nat, NEW G \in [1..N -> [R -> R]]
  PROVE  \E iter \in [SUBSET (1..N) -> R] : Iterates(iter, N, base, G)
<1> DEFINE Exists(n) == \E iter \in [SUBSET (1..n) -> R] : Iterates(iter, n, base, G)
           T == {n \in Nat : n <= N => Exists(n)}
<1>1. 0 \in T
  <2> DEFINE iter == [s \in SUBSET (1..0) |-> base]
  <2>1. SUBSET (1..0) = {{}}
    OBVIOUS
  <2>2. Iterates(iter, 0, base, G)
    BY <2>1 DEF Iterates
  <2> QED BY <2>2
<1>2. ASSUME NEW n \in Nat, n \in T PROVE n + 1 \in T
  <2> SUFFICES ASSUME n + 1 <= N PROVE Exists(n + 1)
    <3> HIDE DEF Exists
    <3> QED OBVIOUS
  <2>0. Exists(n)
    <3> HIDE DEF Exists
    <3> QED BY <1>2
  <2>1. PICK f \in [SUBSET (1..n) -> R] : Iterates(f, n, base, G)
    BY <2>0
  <2> DEFINE Here(h, s) == IF s = {} THEN base ELSE G[Max(s)][h[s \ {Max(s)}]]
             g == [s \in SUBSET (1..(n + 1)) |->
                     IF n + 1 \in s THEN G[n + 1][f[s \ {n + 1}]] ELSE f[s]]
  <2>2. \A s \in SUBSET (1..n) : f[s] = Here(f, s)
    BY <2>1 DEF Iterates
  <2>3. \A s \in SUBSET (1..(n + 1)) : s \ {n + 1} \in SUBSET (1..n)
    OBVIOUS
  <2>4. g \in [SUBSET (1..(n + 1)) -> R]
    <3>1. n + 1 \in 1..N /\ G[n + 1] \in [R -> R]
      OBVIOUS
    <3>2. ASSUME NEW s \in SUBSET (1..(n + 1))
          PROVE  (IF n + 1 \in s THEN G[n + 1][f[s \ {n + 1}]] ELSE f[s]) \in R
      <4>1. CASE n + 1 \in s
        BY <2>3, <3>1, <4>1
      <4>2. CASE n + 1 \notin s
        BY <2>3, <4>2
      <4> QED BY <4>1, <4>2
    <3> QED BY <3>2
  <2>5. \A s \in SUBSET (1..n) : g[s] = f[s] /\ s \in SUBSET (1..(n + 1))
    BY <2>3
  <2>6. ASSUME NEW s \in SUBSET (1..(n + 1)) PROVE g[s] = Here(g, s)
    <3>1. CASE n + 1 \in s
      <4>1. Max(s) = n + 1
        BY <3>1, MaxIs
      <4>2. g[s \ {n + 1}] = f[s \ {n + 1}]
        BY <2>3, <2>5
      <4> QED BY <3>1, <4>1, <4>2
    <3>2. CASE n + 1 \notin s
      <4>1. s \in SUBSET (1..n) /\ g[s] = f[s]
        BY <3>2, <2>5
      <4>2. CASE s = {}
        BY <4>1, <4>2, <2>2
      <4>3. CASE s # {}
        <5>1. s \ {Max(s)} \in SUBSET (1..n)
          BY <4>1
        <5>2. g[s \ {Max(s)}] = f[s \ {Max(s)}]
          BY <2>5, <5>1
        <5> HIDE DEF g
        <5> QED BY <4>1, <4>3, <5>2, <2>2
      <4> QED BY <4>2, <4>3
    <3> QED BY <3>1, <3>2
  <2>7. g = [s \in SUBSET (1..(n + 1)) |-> Here(g, s)]
    <3>1. g = [s \in SUBSET (1..(n + 1)) |-> g[s]]
      BY <2>4
    <3> HIDE DEF g
    <3> QED BY <2>6, <3>1, Zenon
  <2>8. Iterates(g, n + 1, base, G)
    BY <2>7, Zenon DEF Iterates
  <2> QED BY <2>4, <2>8
<1> HIDE DEF T
<1>3. \A n \in Nat : n \in T
  BY <1>1, <1>2, NatSetInduction
<1>4. Exists(N)
  <2> HIDE DEF Exists
  <2> QED BY <1>3 DEF T
<1> QED BY <1>4

(* The sets that FoldLeft goes through, one place after the other.         *)
LEMMA Turns ==
  ASSUME NEW n \in Nat, NEW k \in 1..n
  PROVE  /\ 1..k \in SUBSET (1..n) /\ 1..k # {} /\ Max(1..k) = k
         /\ (1..k) \ {k} = 1..(k - 1) /\ 1..(k - 1) \in SUBSET (1..n)
<1>1. 1..k \in SUBSET Nat /\ k \in 1..k /\ \A x \in 1..k : x <= k
  OBVIOUS
<1>2. Max(1..k) = k
  BY <1>1, MaxIs
<1> QED BY <1>1, <1>2

(* A function on 0..N that goes from one value to the next, G[n] giving    *)
(* the one of n from the one before.                                       *)
LEMMA StepsExist ==
  ASSUME NEW R, NEW base \in R, NEW N \in Nat, NEW G \in [1..N -> [R -> R]]
  PROVE  \E f : f = [n \in 0..N |-> IF n = 0 THEN base ELSE G[n][f[n - 1]]]
                /\ \A n \in 0..N : f[n] \in R
<1>1. PICK iter \in [SUBSET (1..N) -> R] : Iterates(iter, N, base, G)
  BY FoldExists
<1> DEFINE f == [n \in 0..N |-> iter[1..n]]
<1>2. \A s \in SUBSET (1..N) : iter[s] = IF s = {} THEN base ELSE G[Max(s)][iter[s \ {Max(s)}]]
  BY <1>1 DEF Iterates
<1>3. ASSUME NEW n \in 0..N PROVE f[n] = IF n = 0 THEN base ELSE G[n][f[n - 1]]
  <2>1. CASE n = 0
    <3>1. 1..0 = {} /\ {} \in SUBSET (1..N)
      OBVIOUS
    <3> QED BY <1>2, <2>1, <3>1
  <2>2. CASE n # 0
    <3>1. n \in 1..N /\ n - 1 \in 0..N
      BY <2>2
    <3>2. 1..n \in SUBSET (1..N) /\ 1..n # {} /\ Max(1..n) = n /\ (1..n) \ {n} = 1..(n - 1)
      BY <3>1, Turns
    <3>3. iter[1..n] = G[n][iter[1..(n - 1)]]
      BY <1>2, <3>2
    <3>4. f[n] = iter[1..n] /\ f[n - 1] = iter[1..(n - 1)]
      BY <3>1
    <3> HIDE DEF f
    <3> QED BY <2>2, <3>3, <3>4
  <2> QED BY <2>1, <2>2
<1>4. \A n \in 0..N : f[n] \in R
  <2>1. \A n \in 0..N : 1..n \in SUBSET (1..N)
    OBVIOUS
  <2> QED BY <1>1, <2>1
<1>5. f = [n \in 0..N |-> f[n]]
  OBVIOUS
<1> HIDE DEF f
<1>6. f = [n \in 0..N |-> IF n = 0 THEN base ELSE G[n][f[n - 1]]]
  BY <1>3, <1>5
<1> QED BY <1>4, <1>6

-----------------------------------------------------------------------------
(* Quotients and remainders.                                               *)
LEMMA Divides ==
  ASSUME NEW m \in Nat \ {0}, NEW q \in Int, NEW r \in 0..(m - 1)
  PROVE  (m * q + r) % m = r /\ (m * q + r) \div m = q
OBVIOUS

LEMMA Divided ==
  ASSUME NEW m \in Nat \ {0}, NEW x \in Int
  PROVE  x \div m \in Int /\ x % m \in 0..(m - 1) /\ x = m * (x \div m) + (x % m)
OBVIOUS

LEMMA Products ==
  ASSUME NEW a \in Nat \ {0}, NEW b \in Nat \ {0}
  PROVE  a * b \in Nat \ {0}
OBVIOUS

LEMMA DigitBelow ==
  ASSUME NEW a \in Nat \ {0}, NEW b \in Nat \ {0}, NEW r \in 0..(b - 1), NEW s \in 0..(a - 1)
  PROVE  a * r + s \in 0..(a * b - 1)
<1>1. r + 1 <= b /\ r >= 0
  OBVIOUS
<1>2. a * (r + 1) <= a * b
  BY <1>1
<1>3. a * (r + 1) = a * r + a
  OBVIOUS
<1>4. a * r \in Nat /\ a * b \in Nat
  OBVIOUS
<1> QED BY <1>2, <1>3, <1>4

(* A number in two digits, to the bases a and b.                           *)
LEMMA TwoDigits ==
  ASSUME NEW a \in Nat \ {0}, NEW b \in Nat \ {0}, NEW x \in Int
  PROVE  /\ (x \div a) \div b = x \div (a * b)
         /\ x % (a * b) = a * ((x \div a) % b) + (x % a)
<1> DEFINE y == x \div a
           s == x % a
           q == y \div b
           r == y % b
<1>1. y \in Int /\ s \in 0..(a - 1) /\ x = a * y + s
  BY Divided
<1>2. q \in Int /\ r \in 0..(b - 1) /\ y = b * q + r
  BY <1>1, Divided
<1> HIDE DEF y, s, q, r
<1>3. a * b \in Nat \ {0} /\ a * r + s \in 0..(a * b - 1)
  BY <1>1, <1>2, Products, DigitBelow
<1>4. x = (a * b) * q + (a * r + s)
  <2>1. x = a * (b * q + r) + s
    BY <1>1, <1>2
  <2>2. a * (b * q + r) = (a * b) * q + a * r
    BY <1>2
  <2>3. a * (b * q + r) \in Int /\ (a * b) * q \in Int /\ a * r \in Int
    BY <1>2
  <2> QED BY <1>1, <2>1, <2>2, <2>3
<1>5. x % (a * b) = a * r + s /\ x \div (a * b) = q
  <2> DEFINE m == a * b
             t == a * r + s
  <2> HIDE DEF m, t
  <2>1. (m * q + t) % m = t /\ (m * q + t) \div m = q
    BY <1>2, <1>3, Divides DEF m, t
  <2> QED BY <1>4, <2>1 DEF m, t
<1> QED BY <1>5 DEF q, y, r, s

(* Powers of two count the subsets of a set, and so double.                *)
LEMMA PowersDouble ==
  ASSUME NEW n \in Nat
  PROVE  2^n \in Nat \ {0} /\ 2^(n + 1) = 2 * 2^n
<1> DEFINE A == 1..n
           B == 1..(n + 1)
           old == SUBSET A
           new == {s \cup {n + 1} : s \in old}
           f == [s \in old |-> s \cup {n + 1}]
<1>1. IsFiniteSet(A) /\ Cardinality(A) = n /\ IsFiniteSet(B) /\ Cardinality(B) = n + 1
  BY FS_Interval
<1>2. IsFiniteSet(old) /\ Cardinality(old) = 2^n /\ Cardinality(SUBSET B) = 2^(n + 1)
  BY <1>1, FS_SUBSET
<1>3. f \in Bijection(old, new)
  <2>1. \A s \in old : n + 1 \notin s
    OBVIOUS
  <2>2. \A s, t \in old : s \cup {n + 1} = t \cup {n + 1} => s = t
    BY <2>1
  <2>3. f \in [old -> new] /\ \A t \in new : \E s \in old : f[s] = t
    OBVIOUS
  <2>4. \A s, t \in old : f[s] = f[t] => s = t
    BY <2>2
  <2> QED BY <2>3, <2>4 DEF Bijection, Injection, Surjection, IsInjective
<1>4. IsFiniteSet(new) /\ Cardinality(new) = Cardinality(old)
  <2> HIDE DEF f, old, new
  <2> QED BY <1>2, <1>3, FS_Bijection DEF ExistsBijection
<1>5. SUBSET B = old \cup new /\ old \cap new = {}
  <2>1. \A s \in SUBSET B : s \in old \/ s \in new
    <3> SUFFICES ASSUME NEW s \in SUBSET B, n + 1 \in s PROVE s \in new
      OBVIOUS
    <3>1. s \ {n + 1} \in old /\ s = (s \ {n + 1}) \cup {n + 1}
      OBVIOUS
    <3> QED BY <3>1
  <2>2. \A s \in old \cup new : s \in SUBSET B
    OBVIOUS
  <2>3. \A s \in old : s \notin new
    OBVIOUS
  <2> QED BY <2>1, <2>2, <2>3
<1> HIDE DEF old, new, A, B
<1>6. Cardinality(old \cup new) = Cardinality(old) + Cardinality(new) - Cardinality(old \cap new)
  BY <1>2, <1>4, FS_Union
<1>7. Cardinality({}) = 0
  BY FS_EmptySet
<1>8. 2^n \in Nat
  BY <1>2, FS_CardinalityType
<1>9. 2^(n + 1) = 2 * 2^n
  <2> DEFINE a == 2^n
             b == 2^(n + 1)
  <2>1. a \in Nat /\ b = a + a - 0
    BY <1>2, <1>4, <1>5, <1>6, <1>7, <1>8
  <2> HIDE DEF a, b
  <2>2. b = 2 * a
    BY <2>1
  <2> QED BY <2>2 DEF a, b
<1>10. 2^n # 0
  <2>1. {} \in old
    BY DEF old
  <2>2. Cardinality(old) # 0
    BY <1>2, <2>1, FS_EmptySet
  <2> QED BY <1>2, <2>2
<1> QED BY <1>8, <1>9, <1>10

(* Powers of two.                                                          *)
LEMMA PowersAdd ==
  \A a, b \in Nat : 2^(a + b) = 2^a * 2^b
<1> SUFFICES ASSUME NEW a \in Nat PROVE \A b \in Nat : 2^(a + b) = 2^a * 2^b
  OBVIOUS
<1> DEFINE T == {b \in Nat : 2^(a + b) = 2^a * 2^b}
<1>1. 0 \in T
  <2>1. 2^0 = 1 /\ a + 0 = a /\ 2^a \in Int
    BY PowersDouble
  <2> QED BY <2>1
<1>2. ASSUME NEW b \in Nat, b \in T PROVE b + 1 \in T
  <2> DEFINE p == 2^a
             q == 2^b
             r == 2^(a + b)
             s == 2^(b + 1)
             t == 2^((a + b) + 1)
  <2>1. p \in Int /\ q \in Int /\ r = p * q /\ s = 2 * q /\ t = 2 * r
    BY <1>2, PowersDouble
  <2> HIDE DEF p, q, r, s, t
  <2>2. t = p * s
    <3>1. p * (2 * q) = 2 * (p * q)
      BY <2>1
    <3> QED BY <2>1, <3>1
  <2>3. (a + b) + 1 = a + (b + 1)
    OBVIOUS
  <2>4. 2^(a + (b + 1)) = 2^a * 2^(b + 1)
    BY <2>2, <2>3 DEF p, s, t
  <2> QED BY <2>4
<1> HIDE DEF T
<1>3. \A b \in Nat : b \in T
  BY <1>1, <1>2, NatSetInduction
<1> QED BY <1>3 DEF T

LEMMA PowersGrow ==
  \A n \in Nat : n < 2^n
<1> DEFINE T == {n \in Nat : n < 2^n}
<1>1. 0 \in T
  OBVIOUS
<1>2. ASSUME NEW n \in Nat, n \in T PROVE n + 1 \in T
  BY <1>2, PowersDouble
<1> HIDE DEF T
<1>3. \A n \in Nat : n \in T
  BY <1>1, <1>2, NatSetInduction
<1> QED BY <1>3 DEF T

LEMMA PowersRise ==
  \A a, b \in Nat : a <= b => 2^a <= 2^b
<1> SUFFICES ASSUME NEW a \in Nat, NEW b \in Nat, a <= b PROVE 2^a <= 2^b
  OBVIOUS
<1> DEFINE p == 2^a
           q == 2^(b - a)
<1>1. b - a \in Nat /\ a + (b - a) = b
  OBVIOUS
<1>2. p \in Nat \ {0} /\ q \in Nat \ {0}
  BY <1>1, PowersDouble
<1>3. 2^b = p * q
  BY <1>1, PowersAdd
<1> HIDE DEF p, q
<1>4. p <= p * q
  BY <1>2
<1> QED BY <1>3, <1>4 DEF p

LEMMA LeastExists ==
  ASSUME NEW S \in SUBSET Nat, S # {}
  PROVE  \E n \in S : \A k \in S : n <= k
<1> DEFINE R == OpToRel(<, Nat)
<1>1. IsWellFoundedOn(R, Nat)
  BY NatLessThanWellFounded
<1>2. PICK n \in S : \A k \in S : <<k, n>> \notin R
  <2> HIDE DEF R
  <2> QED BY <1>1, WFMin
<1>3. \A k \in Nat : k < n => <<k, n>> \in R
  BY DEF OpToRel
<1> HIDE DEF R
<1>4. \A k \in S : k \in Nat /\ ~(k < n)
  BY <1>2, <1>3
<1>5. \A k \in S : n <= k
  BY <1>4
<1> QED BY <1>5

-----------------------------------------------------------------------------
(* Digits. The characters of the texts, and the numbers that are read from *)
(* digits one after the other, in full or modulo the range of a type.      *)

(* The characters: those of any text, and those that are written.          *)
Hex == {Text!LowerHex[i] : i \in 1..16}
Quote == "\""
Chars == STRING \cup Hex \cup {Text!UpperHex[i] : i \in 1..16} \cup {"0", "x", "-", Quote}

LEMMA Letters == /\ Text!LowerHex[1] = "0"
                 /\ \A i \in 2..16 : Text!LowerHex[i] # "0"
BY DEF Text!LowerHex

LEMMA LettersDiffer ==
  \A i, j \in 1..16 :
    i # j => {Text!LowerHex[i], Text!UpperHex[i]} \cap {Text!LowerHex[j], Text!UpperHex[j]} = {}
BY DEF Text!LowerHex, Text!UpperHex

LEMMA NibbleRange == \A c : Text!decodeNibble(c) \in -1..15
BY DEF Text!decodeNibble, Text!badNibble

LEMMA NibbleOf ==
  \A i \in 1..16 : Text!decodeNibble(Text!LowerHex[i]) = i - 1 /\ Text!decodeNibble(Text!UpperHex[i]) = i - 1
<1> SUFFICES ASSUME NEW i \in 1..16, NEW c \in {Text!LowerHex[i], Text!UpperHex[i]} PROVE Text!decodeNibble(c) = i - 1
  OBVIOUS
<1>1. \A j \in 1..16 : c \in {Text!LowerHex[j], Text!UpperHex[j]} <=> j = i
  BY LettersDiffer
<1> QED BY <1>1 DEF Text!decodeNibble

(* Numbers out of digits: from one to the next the number is multiplied by *)
(* B and the digit s[k] added, in full or, if M is not 0, modulo M.        *)
NextNumber(v, B, M, d) == IF M = 0 THEN v * B + d ELSE (v * B + d) % M
Runs(c, n, B, M, s) ==
  c = [t \in SUBSET (1..n) |-> IF t = {} THEN 0 ELSE NextNumber(c[t \ {Max(t)}], B, M, s[Max(t)])]

(* The numbers on the way.                                                 *)
Way(h, n, B, M, s) ==
  h \in [0..n -> Int] /\ h[0] = 0 /\ \A k \in 1..n : h[k] = NextNumber(h[k - 1], B, M, s[k])

LEMMA NextNumberIsInt ==
  ASSUME NEW v \in Int, NEW B \in Int, NEW M \in Nat, NEW d \in Int
  PROVE  NextNumber(v, B, M, d) \in Int
<1>1. v * B + d \in Int
  OBVIOUS
<1> QED BY <1>1, Divided DEF NextNumber

(* The function on sets of places that a fold picks exists, and goes       *)
(* through the numbers on the way.                                         *)
LEMMA RunsExist ==
  ASSUME NEW n \in Nat, NEW B \in Int, NEW M \in Nat, NEW s \in [1..n -> Int]
  PROVE  \E c : Runs(c, n, B, M, s)
<1> DEFINE G == [k \in 1..n |-> [v \in Int |-> NextNumber(v, B, M, s[k])]]
<1>1. G \in [1..n -> [Int -> Int]]
  BY NextNumberIsInt
<1>2. PICK f \in [SUBSET (1..n) -> Int] : Iterates(f, n, 0, G)
  <2> DEFINE R == Int
  <2>1. 0 \in R
    OBVIOUS
  <2> HIDE DEF G, R
  <2>2. \E f \in [SUBSET (1..n) -> R] : Iterates(f, n, 0, G)
    BY <1>1, <2>1, FoldExists DEF R
  <2> QED BY <2>2 DEF R
<1>3. \A t \in SUBSET (1..n) : t # {} => G[Max(t)][f[t \ {Max(t)}]] = NextNumber(f[t \ {Max(t)}], B, M, s[Max(t)])
  <2> SUFFICES ASSUME NEW t \in SUBSET (1..n), t # {}
               PROVE  G[Max(t)][f[t \ {Max(t)}]] = NextNumber(f[t \ {Max(t)}], B, M, s[Max(t)])
    OBVIOUS
  <2>1. Max(t) \in 1..n /\ f[t \ {Max(t)}] \in Int
    BY MaxExists
  <2> QED BY <2>1
<1>4. f = [t \in SUBSET (1..n) |-> IF t = {} THEN 0 ELSE G[Max(t)][f[t \ {Max(t)}]]]
  BY <1>2 DEF Iterates
<1> HIDE DEF G
<1>5. \A t \in SUBSET (1..n) :
        (IF t = {} THEN 0 ELSE G[Max(t)][f[t \ {Max(t)}]]) =
        IF t = {} THEN 0 ELSE NextNumber(f[t \ {Max(t)}], B, M, s[Max(t)])
  BY <1>3
<1>6. Runs(f, n, B, M, s)
  BY <1>4, <1>5, Zenon DEF Runs
<1> QED BY <1>6

LEMMA RunsTo ==
  ASSUME NEW n \in Nat, NEW B \in Int, NEW M \in Nat, NEW s \in [1..n -> Int], NEW c, Runs(c, n, B, M, s),
         NEW h, Way(h, n, B, M, s)
  PROVE  c[1..n] = h[n]
<1>0. h[0] = 0 /\ \A k \in 1..n : h[k] = NextNumber(h[k - 1], B, M, s[k])
  BY DEF Way
<1>1. \A t \in SUBSET (1..n) : c[t] = IF t = {} THEN 0 ELSE NextNumber(c[t \ {Max(t)}], B, M, s[Max(t)])
  BY DEF Runs
<1> DEFINE T == {k \in Nat : k <= n => c[1..k] = h[k]}
<1>2. 0 \in T
  <2>1. 1..0 = {} /\ 1..0 \in SUBSET (1..n)
    OBVIOUS
  <2> QED BY <1>0, <1>1, <2>1
<1>3. ASSUME NEW k \in Nat, k \in T PROVE k + 1 \in T
  <2> SUFFICES ASSUME k + 1 <= n PROVE c[1..(k + 1)] = h[k + 1]
    OBVIOUS
  <2> DEFINE j == k + 1
  <2>1. j \in 1..n /\ j - 1 = k /\ c[1..k] = h[k]
    BY <1>3
  <2>2. 1..j \in SUBSET (1..n) /\ 1..j # {} /\ Max(1..j) = j /\ (1..j) \ {j} = 1..(j - 1)
    BY <2>1, Turns
  <2> HIDE DEF j
  <2>3. c[1..j] = NextNumber(c[1..(j - 1)], B, M, s[j])
    BY <1>1, <2>2
  <2>4. h[j] = NextNumber(h[j - 1], B, M, s[j])
    BY <1>0, <2>1
  <2>5. c[1..j] = h[j]
    BY <2>1, <2>3, <2>4
  <2> QED BY <2>5 DEF j
<1> HIDE DEF T
<1>4. n \in T
  BY <1>2, <1>3, NatSetInduction
<1> QED BY <1>4 DEF T

LEMMA WayExists ==
  ASSUME NEW n \in Nat, NEW B \in Int, NEW M \in Nat, NEW s \in [1..n -> Int]
  PROVE  \E h : Way(h, n, B, M, s)
<1>1. PICK c : Runs(c, n, B, M, s)
  BY RunsExist
<1> DEFINE G == [k \in 1..n |-> [v \in Int |-> NextNumber(v, B, M, s[k])]]
           R == Int
           b == 0
<1>2. G \in [1..n -> [R -> R]] /\ b \in R
  BY NextNumberIsInt
<1>3. \A k \in 1..n, v \in R : G[k][v] = NextNumber(v, B, M, s[k])
  OBVIOUS
<1> HIDE DEF G
<1>4. PICK h : h = [k \in 0..n |-> IF k = 0 THEN b ELSE G[k][h[k - 1]]] /\ \A k \in 0..n : h[k] \in R
  <2> HIDE DEF R, b
  <2> QED BY <1>2, StepsExist
<1>5. h \in [0..n -> Int]
  <2>1. h = [k \in 0..n |-> h[k]]
    BY <1>4
  <2> QED BY <1>4, <2>1
<1>6. h[0] = 0
  BY <1>4
<1>7. ASSUME NEW k \in 1..n PROVE h[k] = NextNumber(h[k - 1], B, M, s[k])
  <2>1. k \in 0..n /\ k # 0 /\ k - 1 \in 0..n
    OBVIOUS
  <2>2. h[k] = G[k][h[k - 1]]
    BY <1>4, <2>1
  <2> QED BY <1>3, <1>4, <2>1, <2>2
<1> QED BY <1>5, <1>6, <1>7 DEF Way

Nibbles(raw) == [k \in 1..Len(raw) |-> Text!decodeNibble(raw[k])]

LEMMA NibblesAre ==
  ASSUME NEW S, NEW raw \in Seq(S)
  PROVE  Nibbles(raw) \in [1..Len(raw) -> Int] /\ Len(raw) \in Nat /\ DOMAIN raw = 1..Len(raw)
BY NibbleRange, LenProperties DEF Nibbles

(* Value and Accumulate are such numbers of the digits of a text.          *)
LEMMA ValueIs ==
  ASSUME NEW S, NEW raw \in Seq(S), NEW h, Way(h, Len(raw), 16, 0, Nibbles(raw))
  PROVE  Text!Value(raw) = h[Len(raw)]
<1> DEFINE n == Len(raw)
           B == 16
           M == 0
           s == Nibbles(raw)
           Body(f, t) == f[t \ {Max(t)}] * 16 + Text!decodeNibble(raw[Max(t)])
           P(f) == f = [t \in SUBSET (1..n) |-> IF t = {} THEN 0 ELSE Body(f, t)]
           c == CHOOSE f : P(f)
<1>1. n \in Nat /\ DOMAIN raw = 1..n /\ s \in [1..n -> Int] /\ B \in Int /\ M \in Nat
  BY NibblesAre
<1>2. \A f, t : t \in SUBSET (1..n) /\ t # {} => Body(f, t) = NextNumber(f[t \ {Max(t)}], B, M, s[Max(t)])
  BY <1>1, MaxExists DEF NextNumber, Nibbles
<1>3. Way(h, n, B, M, s)
  OBVIOUS
<1>4. Text!Value(raw) = c[1..n]
  BY <1>1 DEF Text!Value, Text!FoldLeft, Text!MapThenFoldSet, Text!Max, Max, c
<1> HIDE DEF n, B, M, s
<1>5. \A f : P(f) <=> Runs(f, n, B, M, s)
  <2> SUFFICES ASSUME NEW f PROVE P(f) <=> Runs(f, n, B, M, s)
    OBVIOUS
  <2>1. \A t \in SUBSET (1..n) :
          (IF t = {} THEN 0 ELSE Body(f, t)) =
          IF t = {} THEN 0 ELSE NextNumber(f[t \ {Max(t)}], B, M, s[Max(t)])
    BY <1>2
  <2> HIDE DEF Body
  <2>2. [t \in SUBSET (1..n) |-> IF t = {} THEN 0 ELSE Body(f, t)] =
        [t \in SUBSET (1..n) |-> IF t = {} THEN 0 ELSE NextNumber(f[t \ {Max(t)}], B, M, s[Max(t)])]
    BY <2>1
  <2> QED BY <2>2, Zenon DEF Runs
<1>6. P(c)
  <2>1. PICK f : Runs(f, n, B, M, s)
    BY <1>1, RunsExist
  <2>2. P(f)
    BY <1>5, <2>1, Zenon
  <2> QED BY <2>2, Zenon
<1>7. Runs(c, n, B, M, s)
  BY <1>5, <1>6, Zenon
<1> HIDE DEF c, P
<1>8. c[1..n] = h[n]
  BY <1>1, <1>3, <1>7, RunsTo
<1> QED BY <1>4, <1>8 DEF n

LEMMA AccumulateIs ==
  ASSUME NEW S, NEW raw \in Seq(S), NEW digits \in Nat,
         NEW h, Way(h, Len(raw), 16, 2^(4 * digits), Nibbles(raw))
  PROVE  Text!Accumulate(raw, digits) = h[Len(raw)]
<1> DEFINE n == Len(raw)
           B == 16
           M == 2^(4 * digits)
           s == Nibbles(raw)
           Body(f, t) == (f[t \ {Max(t)}] * 16 + Text!decodeNibble(raw[Max(t)])) % 2^(4 * digits)
           P(f) == f = [t \in SUBSET (1..n) |-> IF t = {} THEN 0 ELSE Body(f, t)]
           c == CHOOSE f : P(f)
<1>1. n \in Nat /\ DOMAIN raw = 1..n /\ s \in [1..n -> Int] /\ B \in Int
  BY NibblesAre
<1>0. M \in Nat \ {0}
  BY PowersDouble
<1>2. \A f, t : t \in SUBSET (1..n) /\ t # {} => Body(f, t) = NextNumber(f[t \ {Max(t)}], B, M, s[Max(t)])
  <2>1. \A f, t : t \in SUBSET (1..n) /\ t # {} => s[Max(t)] = Text!decodeNibble(raw[Max(t)])
    BY <1>1, MaxExists DEF Nibbles
  <2> QED BY <1>0, <2>1 DEF NextNumber
<1>3. Way(h, n, B, M, s)
  OBVIOUS
<1>4. Text!Accumulate(raw, digits) = c[1..n]
  BY <1>1 DEF Text!Accumulate, Text!FoldLeft, Text!MapThenFoldSet, Text!Max, Max, c
<1> HIDE DEF n, B, M, s
<1>5. \A f : P(f) <=> Runs(f, n, B, M, s)
  <2> SUFFICES ASSUME NEW f PROVE P(f) <=> Runs(f, n, B, M, s)
    OBVIOUS
  <2>1. \A t \in SUBSET (1..n) :
          (IF t = {} THEN 0 ELSE Body(f, t)) =
          IF t = {} THEN 0 ELSE NextNumber(f[t \ {Max(t)}], B, M, s[Max(t)])
    BY <1>2
  <2> HIDE DEF Body
  <2>2. [t \in SUBSET (1..n) |-> IF t = {} THEN 0 ELSE Body(f, t)] =
        [t \in SUBSET (1..n) |-> IF t = {} THEN 0 ELSE NextNumber(f[t \ {Max(t)}], B, M, s[Max(t)])]
    BY <2>1
  <2> QED BY <2>2, Zenon DEF Runs
<1>6. P(c)
  <2>1. PICK f : Runs(f, n, B, M, s)
    BY <1>0, <1>1, RunsExist
  <2>2. P(f)
    BY <1>5, <2>1, Zenon
  <2> QED BY <2>2, Zenon
<1>7. Runs(c, n, B, M, s)
  BY <1>5, <1>6, Zenon
<1> HIDE DEF c, P
<1>8. c[1..n] = h[n]
  BY <1>0, <1>1, <1>3, <1>7, RunsTo
<1> QED BY <1>4, <1>8 DEF n

LEMMA SixteenIs == \A k \in Nat : 2^(4 * k) \in Nat \ {0} /\ 2^(4 * (k + 1)) = 16 * 2^(4 * k)
<1> SUFFICES ASSUME NEW k \in Nat PROVE 2^(4 * k) \in Nat \ {0} /\ 2^(4 * (k + 1)) = 16 * 2^(4 * k)
  OBVIOUS
<1> DEFINE a == 2^(4 * k)
           b == 2^(4 * k + 1)
           c == 2^(4 * k + 2)
           d == 2^(4 * k + 3)
           e == 2^(4 * k + 4)
<1>1. a \in Nat \ {0}
  BY PowersDouble
<1>2. b = 2 * a
  BY PowersDouble
<1>3. c = 2 * b
  <2>1. (4 * k + 1) + 1 = 4 * k + 2 /\ 4 * k + 1 \in Nat
    OBVIOUS
  <2> HIDE DEF b, c
  <2> QED BY <2>1, PowersDouble DEF b, c
<1>4. d = 2 * c
  <2>1. (4 * k + 2) + 1 = 4 * k + 3 /\ 4 * k + 2 \in Nat
    OBVIOUS
  <2> QED BY <2>1, PowersDouble
<1>5. e = 2 * d
  <2>1. (4 * k + 3) + 1 = 4 * k + 4 /\ 4 * k + 3 \in Nat
    OBVIOUS
  <2> QED BY <2>1, PowersDouble
<1>6. 4 * (k + 1) = 4 * k + 4
  OBVIOUS
<1>7. 2^(4 * (k + 1)) = e
  BY <1>6
<1> HIDE DEF a, b, c, d, e
<1>8. e = 16 * a
  BY <1>1, <1>2, <1>3, <1>4, <1>5
<1> QED BY <1>1, <1>7, <1>8 DEF a

(* The value of a text, digit by digit; it has a bound if all are digits.  *)
LEMMA DigitsAre ==
  ASSUME NEW S, NEW raw \in Seq(S), Text!AllDigits(raw)
  PROVE  \A k \in 1..Len(raw) : Nibbles(raw)[k] \in 0..15
BY NibbleRange, NibblesAre DEF Nibbles, Text!AllDigits, Text!badNibble

LEMMA TextWay ==
  ASSUME NEW S, NEW raw \in Seq(S)
  PROVE  \E h : Way(h, Len(raw), 16, 0, Nibbles(raw))
<1>1. Nibbles(raw) \in [1..Len(raw) -> Int] /\ Len(raw) \in Nat
  BY NibblesAre
<1> QED BY <1>1, WayExists

(* So many digits stay below so many powers of sixteen.                    *)
LEMMA WayBounded ==
  ASSUME NEW n \in Nat, NEW s, \A k \in 1..n : s[k] \in 0..15, NEW h, Way(h, n, 16, 0, s)
  PROVE  \A k \in 0..n : h[k] \in 0..(2^(4 * k) - 1)
<1> DEFINE T == {k \in Nat : k <= n => h[k] \in 0..(2^(4 * k) - 1)}
<1>1. h[0] = 0 /\ \A k \in 1..n : h[k] = h[k - 1] * 16 + s[k]
  BY DEF Way, NextNumber
<1>2. 0 \in T
  BY <1>1, SixteenIs
<1>3. ASSUME NEW k \in Nat, k \in T PROVE k + 1 \in T
  <2> SUFFICES ASSUME k + 1 <= n PROVE h[k + 1] \in 0..(2^(4 * (k + 1)) - 1)
    OBVIOUS
  <2> DEFINE p == 2^(4 * k)
             q == 2^(4 * (k + 1))
  <2>1. p \in Nat \ {0} /\ q = 16 * p
    BY SixteenIs
  <2>2. h[k] \in 0..(p - 1) /\ k + 1 \in 1..n /\ (k + 1) - 1 = k
    BY <1>3
  <2>3. h[k + 1] = h[k] * 16 + s[k + 1] /\ s[k + 1] \in 0..15
    BY <1>1, <2>2
  <2> HIDE DEF p, q
  <2>4. h[k + 1] \in 0..(q - 1)
    BY <2>1, <2>2, <2>3
  <2> QED BY <2>4 DEF q
<1> HIDE DEF T
<1>4. \A k \in Nat : k \in T
  BY <1>2, <1>3, NatSetInduction
<1> QED BY <1>4 DEF T

LEMMA ValueBounded ==
  ASSUME NEW S, NEW raw \in Seq(S), Text!AllDigits(raw)
  PROVE  Text!Value(raw) \in 0..(2^(4 * Len(raw)) - 1)
<1>1. Nibbles(raw) \in [1..Len(raw) -> Int] /\ Len(raw) \in Nat
  BY NibblesAre
<1>2. PICK h : Way(h, Len(raw), 16, 0, Nibbles(raw))
  BY TextWay
<1>3. h[Len(raw)] \in 0..(2^(4 * Len(raw)) - 1)
  BY <1>1, <1>2, DigitsAre, WayBounded
<1> QED BY <1>2, <1>3, ValueIs

(* Nothing is cut off a text that fits.                                    *)
LEMMA AccumulatedInFull ==
  ASSUME NEW S, NEW raw \in Seq(S), Text!AllDigits(raw), NEW digits \in Nat, Len(raw) <= digits
  PROVE  Text!Accumulate(raw, digits) = Text!Value(raw)
<1> DEFINE s == Nibbles(raw)
           n == Len(raw)
           M == 2^(4 * digits)
<1>1. s \in [1..n -> Int] /\ n \in Nat
  BY NibblesAre
<1>2. PICK h : Way(h, n, 16, 0, s)
  BY TextWay
<1>3. M \in Nat \ {0}
  BY SixteenIs
<1>4. \A k \in 0..n : h[k] \in 0..(M - 1)
  <2> SUFFICES ASSUME NEW k \in 0..n PROVE h[k] \in 0..(M - 1)
    OBVIOUS
  <2>1. \A j \in 1..n : s[j] \in 0..15
    BY DigitsAre
  <2> HIDE DEF s, n
  <2> DEFINE p == 2^(4 * k)
  <2>2. h[k] \in 0..(p - 1)
    BY <1>1, <1>2, <2>1, WayBounded
  <2>3. p <= M /\ p \in Nat
    <3>1. 4 * k \in Nat /\ 4 * digits \in Nat /\ 4 * k <= 4 * digits
      BY <1>1 DEF n
    <3> QED BY <3>1, PowersRise, PowersDouble
  <2> HIDE DEF p, M
  <2> QED BY <1>3, <2>2, <2>3
<1> HIDE DEF s, M
<1>5. Way(h, n, 16, M, s)
  <2>1. h \in [0..n -> Int] /\ h[0] = 0
    BY <1>2 DEF Way
  <2>2. ASSUME NEW k \in 1..n PROVE h[k] = NextNumber(h[k - 1], 16, M, s[k])
    <3>1. h[k] = h[k - 1] * 16 + s[k] /\ k \in 0..n
      BY <1>1, <1>2 DEF Way, NextNumber
    <3>2. h[k] % M = h[k]
      <4>1. h[k] \in 0..(M - 1)
        BY <1>4, <3>1
      <4> QED BY <1>3, <4>1
    <3> QED BY <1>3, <3>1, <3>2 DEF NextNumber
  <2> QED BY <2>1, <2>2 DEF Way
<1>6. Text!Accumulate(raw, digits) = h[n]
  BY <1>5, AccumulateIs DEF M, s
<1>7. Text!Value(raw) = h[n]
  BY <1>2, ValueIs DEF s
<1> QED BY <1>6, <1>7

(* A text cut in two.                                                      *)
LEMMA ValueCut ==
  ASSUME NEW S, NEW raw \in Seq(S), NEW h, Way(h, Len(raw), 16, 0, Nibbles(raw)),
         NEW a \in 0..Len(raw), NEW b \in a..Len(raw)
  PROVE  h[b] = h[a] * 2^(4 * (b - a)) + Text!Value(SubSeq(raw, a + 1, b))
<1> DEFINE n == Len(raw)
           sub == SubSeq(raw, a + 1, b)
           m == b - a
<1>1. n \in Nat /\ Nibbles(raw) \in [1..n -> Int] /\ m \in Nat
  BY NibblesAre
<1>2. sub \in Seq(S) /\ Len(sub) = m /\ \A k \in 1..m : sub[k] = raw[a + k]
  BY <1>1, SubSeqProperties
<1> HIDE DEF sub
<1>3. Nibbles(sub) \in [1..m -> Int]
  BY <1>2, NibblesAre
<1>4. PICK g : Way(g, m, 16, 0, Nibbles(sub))
  BY <1>2, TextWay
<1>5. \A k \in 1..m : a + k \in 1..n /\ Nibbles(sub)[k] = Nibbles(raw)[a + k]
  BY <1>1, <1>2 DEF Nibbles
<1>6. h \in [0..n -> Int] /\ g \in [0..m -> Int] /\ g[0] = 0
  BY <1>4 DEF Way
<1>7. \A k \in 1..m : g[k] = g[k - 1] * 16 + Nibbles(raw)[a + k]
  BY <1>4, <1>5 DEF Way, NextNumber
<1>8. \A k \in 1..m : h[a + k] = h[a + (k - 1)] * 16 + Nibbles(raw)[a + k]
  <2> SUFFICES ASSUME NEW k \in 1..m PROVE h[a + k] = h[a + (k - 1)] * 16 + Nibbles(raw)[a + k]
    OBVIOUS
  <2>1. a + k \in 1..n /\ (a + k) - 1 = a + (k - 1)
    BY <1>5
  <2> QED BY <2>1 DEF Way, NextNumber
<1> DEFINE T == {k \in Nat : k <= m => h[a + k] = h[a] * 2^(4 * k) + g[k]}
<1>9. 0 \in T
  <2>1. h[a] \in Int /\ 2^(4 * 0) = 1 /\ a + 0 = a
    BY <1>1, <1>6, PowersDouble
  <2> QED BY <1>6, <2>1
<1>10. ASSUME NEW k \in Nat, k \in T PROVE k + 1 \in T
  <2> SUFFICES ASSUME k + 1 <= m PROVE h[a + (k + 1)] = h[a] * 2^(4 * (k + 1)) + g[k + 1]
    OBVIOUS
  <2> DEFINE p == 2^(4 * k)
             q == 2^(4 * (k + 1))
             x == h[a]
             y == g[k]
             d == Nibbles(raw)[a + (k + 1)]
  <2>1. p \in Int /\ q = 16 * p /\ x \in Int /\ y \in Int
    BY <1>1, <1>6, SixteenIs
  <2>2. k + 1 \in 1..m /\ (k + 1) - 1 = k /\ a + (k + 1) \in 1..n
    BY <1>5
  <2>3. d \in Int
    BY <1>1, <2>2
  <2>4. h[a + k] = x * p + y
    BY <1>10, <2>2
  <2>5. h[a + (k + 1)] = h[a + k] * 16 + d /\ g[k + 1] = y * 16 + d
    BY <1>7, <1>8, <2>2
  <2> HIDE DEF p, q, x, y, d
  <2>6. h[a + (k + 1)] = x * q + g[k + 1]
    <3>1. x * q = (x * p) * 16
      BY <2>1
    <3>2. x * p \in Int
      BY <2>1
    <3> QED BY <2>1, <2>3, <2>4, <2>5, <3>1, <3>2
  <2> QED BY <2>6 DEF x, q
<1> HIDE DEF T
<1>11. m \in T
  BY <1>1, <1>9, <1>10, NatSetInduction
<1>12. h[a + m] = h[a] * 2^(4 * m) + g[m] /\ a + m = b
  BY <1>11 DEF T
<1>13. Text!Value(sub) = g[m]
  BY <1>2, <1>4, ValueIs
<1> QED BY <1>12, <1>13 DEF sub

-----------------------------------------------------------------------------
(* The words of a big number: read one by one, digits to a word, and put   *)
(* together they are the number that the digits stand for.                 *)

(* The words, from the most significant one on.                            *)
LEMMA SetBitsIs ==
  ASSUME NEW words \in Seq(Int), NEW h, Way(h, Len(words), 2^(4 * WordNibbles), 0, Reverse(words))
  PROVE  Text!SetBits(words) = h[Len(words)]
<1> DEFINE n == Len(words)
           B == 2^(4 * WordNibbles)
           M == 0
           s == Reverse(words)
           Body(f, t) == f[t \ {Max(t)}] * B + s[Max(t)]
           P(f) == f = [t \in SUBSET (1..n) |-> IF t = {} THEN 0 ELSE Body(f, t)]
           c == CHOOSE f : P(f)
<1>0. B \in Int /\ M \in Nat
  BY SixteenIs, TextsAssumption
<1>1. n \in Nat /\ DOMAIN s = 1..n /\ s \in [1..n -> Int] /\ Len(s) = n
  <2>1. n \in Nat /\ \A i \in 1..n : words[i] \in Int
    BY ElementOfSeq
  <2>2. s = [i \in 1..n |-> words[(n - i) + 1]]
    BY DEF Reverse
  <2>3. \A i \in 1..n : (n - i) + 1 \in 1..n
    BY <2>1
  <2> HIDE DEF s, n
  <2>4. s \in [1..n -> Int]
    BY <2>1, <2>2, <2>3
  <2>5. s \in Seq(Int) /\ Len(s) = n
    BY <2>1, <2>4, IsASeq
  <2> QED BY <2>1, <2>4, <2>5
<1>2. \A f, t : t \in SUBSET (1..n) /\ t # {} => Body(f, t) = NextNumber(f[t \ {Max(t)}], B, M, s[Max(t)])
  BY DEF NextNumber
<1>3. Way(h, n, B, M, s)
  OBVIOUS
<1>4. Text!SetBits(words) = c[1..n]
  BY <1>1 DEF Text!SetBits, Text!FoldLeft, Text!MapThenFoldSet, Text!Reverse, Reverse, Text!Max, Max, c
<1> HIDE DEF n, B, M, s
<1>5. \A f : P(f) <=> Runs(f, n, B, M, s)
  <2> SUFFICES ASSUME NEW f PROVE P(f) <=> Runs(f, n, B, M, s)
    OBVIOUS
  <2>1. \A t \in SUBSET (1..n) :
          (IF t = {} THEN 0 ELSE Body(f, t)) =
          IF t = {} THEN 0 ELSE NextNumber(f[t \ {Max(t)}], B, M, s[Max(t)])
    BY <1>2
  <2> HIDE DEF Body
  <2>2. [t \in SUBSET (1..n) |-> IF t = {} THEN 0 ELSE Body(f, t)] =
        [t \in SUBSET (1..n) |-> IF t = {} THEN 0 ELSE NextNumber(f[t \ {Max(t)}], B, M, s[Max(t)])]
    BY <2>1
  <2> QED BY <2>2, Zenon DEF Runs
<1>6. P(c)
  <2>1. PICK f : Runs(f, n, B, M, s)
    BY <1>0, <1>1, RunsExist
  <2>2. P(f)
    BY <1>5, <2>1, Zenon
  <2> QED BY <2>2, Zenon
<1>7. Runs(c, n, B, M, s)
  BY <1>5, <1>6, Zenon
<1> HIDE DEF c, P
<1>8. c[1..n] = h[n]
  BY <1>0, <1>1, <1>3, <1>7, RunsTo
<1> QED BY <1>4, <1>8 DEF n

(* Where the words are cut: a word ends as many digits before the end as   *)
(* the words after it have, the first one begins where the text does.      *)
Cut(n, m, j) == n - (m - j) * WordNibbles

(* Where a text is cut into words.                                         *)
LEMMA Cuts ==
  ASSUME NEW n \in Nat, NEW m, m = n \div WordNibbles + 1, NEW j \in 1..m
  PROVE  /\ Cut(n, m, j) \in 0..n /\ (j = 1 <=> Cut(n, m, j) < WordNibbles)
         /\ j = m => Cut(n, m, j) = n
<1> DEFINE W == WordNibbles
           q == n \div W
           r == n % W
           end == n - (q + 1 - j) * W
<1>1. W \in Nat \ {0}
  BY TextsAssumption
<1>2. q \in Int /\ r \in 0..(W - 1) /\ n = W * q + r
  BY <1>1, Divided
<1> HIDE DEF W, q, r
<1>3. q \in Nat /\ j \in 1..(q + 1)
  <2>1. n \div W \in Nat
    BY <1>1
  <2>2. m = q + 1
    BY DEF q, W
  <2> QED BY <2>1, <2>2 DEF q
<1>4. (q + 1 - j) * W = q * W - (j - 1) * W /\ q * W = W * q /\ (j - 1) * W \in Nat /\ q * W \in Int
  BY <1>1, <1>2, <1>3
<1>5. end = r + (j - 1) * W
  BY <1>2, <1>4
<1>6. j = 1 => (j - 1) * W = 0
  BY <1>1
<1>7. j # 1 => (j - 1) * W >= W
  <2> SUFFICES ASSUME j # 1 PROVE (j - 1) * W >= W
    OBVIOUS
  <2>1. j - 1 >= 1 /\ j - 1 \in Nat
    BY <1>3
  <2> DEFINE i == j - 1
  <2>2. i \in Nat /\ i >= 1
    BY <2>1
  <2> HIDE DEF i
  <2>3. i * W >= W
    BY <1>1, <2>2
  <2> QED BY <2>3 DEF i
<1>8. (q + 1 - j) * W \in Nat
  <2>1. q + 1 - j \in Nat
    BY <1>3
  <2> QED BY <1>1, <2>1
<1>9. j = q + 1 => (q + 1 - j) * W = 0
  BY <1>1, <1>3
<1> HIDE DEF end
<1>10. end \in 0..n /\ (j = 1 <=> end < W) /\ (j = q + 1 => end = n)
  <2>1. end = n - (q + 1 - j) * W
    BY DEF end
  <2> QED BY <1>1, <1>2, <1>4, <1>5, <1>6, <1>7, <1>8, <1>9, <2>1
<1>12. m = q + 1 /\ W = WordNibbles
  BY DEF q, W
<1>11. Cut(n, m, j) = end
  <2>1. m - j = q + 1 - j
    BY <1>3, <1>12
  <2> QED BY <1>12, <2>1, Zenon DEF end, Cut
<1> QED BY <1>10, <1>11, <1>12

LEMMA DigitsOfPart ==
  ASSUME NEW S, NEW raw \in Seq(S), Text!AllDigits(raw), NEW a \in 0..Len(raw), NEW b \in a..Len(raw)
  PROVE  LET sub == SubSeq(raw, a + 1, b)
         IN sub \in Seq(S) /\ Len(sub) = b - a /\ Text!AllDigits(sub)
<1> DEFINE sub == SubSeq(raw, a + 1, b)
<1>1. Len(raw) \in Nat /\ DOMAIN raw = 1..Len(raw)
  BY NibblesAre
<1>2. sub \in Seq(S) /\ Len(sub) = b - a /\ \A k \in 1..(b - a) : sub[k] = raw[a + k]
  BY <1>1, SubSeqProperties
<1> HIDE DEF sub
<1>3. DOMAIN sub = 1..(b - a)
  BY <1>2, NibblesAre
<1>4. \A k \in 1..(b - a) : a + k \in 1..Len(raw)
  BY <1>1
<1>5. Text!AllDigits(sub)
  BY <1>1, <1>2, <1>3, <1>4 DEF Text!AllDigits
<1> QED BY <1>2, <1>5 DEF sub

(* Each word has the value of its digits, and they are put together again. *)
LEMMA WordsInFull ==
  ASSUME NEW S, NEW raw \in Seq(S), Text!AllDigits(raw)
  PROVE  Text!SetBits(Text!Words(raw)) = Text!Value(raw)
<1> DEFINE n == Len(raw)
           W == WordNibbles
           m == n \div W + 1
           End(j) == Cut(n, m, j)
           Start(j) == IF End(j) < W THEN 0 ELSE End(j) - W
           words == Text!Words(raw)
           B == 2^(4 * W)
<1>1. n \in Nat /\ W \in Nat \ {0} /\ m \in Nat \ {0}
  BY NibblesAre, TextsAssumption
<1>2. \A j \in 1..m : End(j) \in 0..n /\ (j = 1 <=> End(j) < W) /\ (j = m => End(j) = n)
  <2> HIDE DEF n
  <2>1. m = n \div WordNibbles + 1 /\ n \in Nat
    BY <1>1
  <2> HIDE DEF m
  <2> QED BY <2>1, Cuts
<1>3. \A j \in 1..m : j # 1 => Start(j) = End(j - 1)
  <2> SUFFICES ASSUME NEW j \in 1..m, j # 1 PROVE Start(j) = End(j - 1)
    OBVIOUS
  <2>1. j \in Int /\ m \in Int /\ W \in Int /\ n \in Int
    BY <1>1
  <2>2. Start(j) = End(j) - W
    BY <1>2
  <2> HIDE DEF m, W, n
  <2>3. (m - (j - 1)) * W = (m - j) * W + W
    BY <2>1
  <2>4. (m - j) * W \in Int
    BY <2>1
  <2> QED BY <2>1, <2>2, <2>3, <2>4 DEF Cut, W
<1>4. words = [i \in 1..m |-> Text!Accumulate(SubSeq(raw, Start((m - i) + 1) + 1, End((m - i) + 1)), W)]
  <2> DEFINE F(i) == LET end == n - (i - 1) * W
                         start == IF end < W THEN 0 ELSE end - W
                     IN Text!Accumulate(SubSeq(raw, start + 1, end), W)
  <2>1. words = [i \in 1..m |-> F(i)]
    BY DEF Text!Words
  <2>2. ASSUME NEW i \in 1..m PROVE F(i) = Text!Accumulate(SubSeq(raw, Start((m - i) + 1) + 1, End((m - i) + 1)), W)
    <3>1. m - ((m - i) + 1) = i - 1
      BY <1>1
    <3>2. End((m - i) + 1) = n - (i - 1) * W
      BY <3>1, Zenon DEF Cut
    <3> QED BY <3>2, Zenon
  <2> HIDE DEF F, words
  <2> QED BY <2>1, <2>2
<1> HIDE DEF words, B
<1>5. \A j \in 1..m : Start(j) \in 0..n /\ End(j) \in Start(j)..n /\ End(j) - Start(j) <= W
  <2> SUFFICES ASSUME NEW j \in 1..m PROVE Start(j) \in 0..n /\ End(j) \in Start(j)..n /\ End(j) - Start(j) <= W
    OBVIOUS
  <2>1. End(j) \in 0..n
    BY <1>2
  <2> HIDE DEF End
  <2> QED BY <1>1, <2>1
<1> HIDE DEF End, Start
<1>6. \A j \in 1..m : Text!Accumulate(SubSeq(raw, Start(j) + 1, End(j)), W) = Text!Value(SubSeq(raw, Start(j) + 1, End(j)))
  <2> SUFFICES ASSUME NEW j \in 1..m PROVE Text!Accumulate(SubSeq(raw, Start(j) + 1, End(j)), W) = Text!Value(SubSeq(raw, Start(j) + 1, End(j)))
    OBVIOUS
  <2> DEFINE a == Start(j)
             b == End(j)
  <2>1. a \in 0..n /\ b \in a..n /\ b - a <= W
    BY <1>5
  <2> HIDE DEF a, b
  <2>2. SubSeq(raw, a + 1, b) \in Seq(S) /\ Len(SubSeq(raw, a + 1, b)) = b - a /\ Text!AllDigits(SubSeq(raw, a + 1, b))
    BY <2>1, DigitsOfPart
  <2>3. Text!Accumulate(SubSeq(raw, a + 1, b), W) = Text!Value(SubSeq(raw, a + 1, b))
    BY <1>1, <2>1, <2>2, AccumulatedInFull
  <2> QED BY <2>3 DEF a, b
<1> DEFINE V(j) == Text!Value(SubSeq(raw, Start(j) + 1, End(j)))
<1>7. \A j \in 1..m : V(j) \in Int
  <2> SUFFICES ASSUME NEW j \in 1..m PROVE V(j) \in Int
    OBVIOUS
  <2>1. Start(j) \in 0..n /\ End(j) \in Start(j)..n
    BY <1>5
  <2>2. SubSeq(raw, Start(j) + 1, End(j)) \in Seq(S) /\ Text!AllDigits(SubSeq(raw, Start(j) + 1, End(j)))
    BY <2>1, DigitsOfPart
  <2>3. V(j) \in 0..(2^(4 * Len(SubSeq(raw, Start(j) + 1, End(j)))) - 1)
    BY <2>2, ValueBounded
  <2> QED BY <2>3
<1>8. PICK h : Way(h, n, 16, 0, Nibbles(raw))
  BY TextWay
<1>9. h \in [0..n -> Int] /\ h[0] = 0
  BY <1>8 DEF Way
<1>10. \A j \in 1..m : h[End(j)] = h[Start(j)] * 2^(4 * (End(j) - Start(j))) + V(j)
  <2> SUFFICES ASSUME NEW j \in 1..m PROVE h[End(j)] = h[Start(j)] * 2^(4 * (End(j) - Start(j))) + V(j)
    OBVIOUS
  <2>1. Start(j) \in 0..n /\ End(j) \in Start(j)..n
    BY <1>5
  <2> QED BY <1>8, <2>1, ValueCut
<1>11. words \in Seq(Int) /\ Len(words) = m /\ \A i \in 1..m : words[i] = V((m - i) + 1)
  <2>1. \A i \in 1..m : (m - i) + 1 \in 1..m
    BY <1>1
  <2>2. \A i \in 1..m : words[i] = V((m - i) + 1)
    BY <1>4, <1>6, <2>1
  <2>3. words \in [1..m -> Int]
    <3>1. words = [i \in 1..m |-> words[i]]
      BY <1>4
    <3> HIDE DEF V
    <3> QED BY <1>7, <2>1, <2>2, <3>1
  <2> HIDE DEF m
  <2> QED BY <1>1, <2>2, <2>3, IsASeq
<1> HIDE DEF V
<1>12. \A j \in 1..m : Reverse(words)[j] = V(j)
  <2> SUFFICES ASSUME NEW j \in 1..m PROVE Reverse(words)[j] = V(j)
    OBVIOUS
  <2>1. (m - j) + 1 \in 1..m /\ (m - ((m - j) + 1)) + 1 = j
    BY <1>1
  <2>2. Reverse(words)[j] = words[(m - j) + 1]
    BY <1>11 DEF Reverse
  <2> QED BY <1>11, <2>1, <2>2
<1> DEFINE g == [j \in 0..m |-> IF j = 0 THEN 0 ELSE h[End(j)]]
<1>13. Way(g, m, B, 0, Reverse(words))
  <2>1. g \in [0..m -> Int]
    <3>1. \A j \in 1..m : h[End(j)] \in Int
      BY <1>2, <1>9
    <3>2. \A j \in 0..m : j # 0 => j \in 1..m
      BY <1>1
    <3> QED BY <3>1, <3>2
  <2>2. g[0] = 0
    BY <1>1
  <2>3. ASSUME NEW j \in 1..m PROVE g[j] = NextNumber(g[j - 1], B, 0, Reverse(words)[j])
    <3>1. g[j] = h[End(j)] /\ j - 1 \in 0..m /\ B \in Int /\ h[End(j)] \in Int
      BY <1>1, <1>2, <1>9, SixteenIs DEF B
    <3>2. CASE j = 1
      <4>1. g[j - 1] = 0
        BY <1>1, <3>2
      <4>2. Start(j) = 0
        BY <1>2, <3>2 DEF Start
      <4>3. End(j) - Start(j) \in Nat
        BY <1>5
      <4>4. h[End(j)] = V(j)
        <5>1. 2^(4 * (End(j) - Start(j))) \in Int
          BY <4>3, SixteenIs
        <5>2. h[End(j)] = h[Start(j)] * 2^(4 * (End(j) - Start(j))) + V(j)
          BY <1>10
        <5>3. h[Start(j)] = 0 /\ V(j) \in Int
          BY <1>7, <1>9, <4>2
        <5> DEFINE p == 2^(4 * (End(j) - Start(j)))
        <5> HIDE DEF p
        <5> QED BY <5>1, <5>2, <5>3 DEF p
      <4> HIDE DEF g
      <4> QED BY <1>7, <1>12, <3>1, <4>1, <4>4 DEF NextNumber
    <3>3. CASE j # 1
      <4>1. g[j - 1] = h[End(j - 1)] /\ h[End(j - 1)] \in Int
        <5>1. j - 1 \in 1..m
          <6> HIDE DEF m
          <6> QED BY <1>1, <3>3
        <5>2. End(j - 1) \in 0..n
          BY <1>2, <5>1
        <5> QED BY <1>9, <3>1, <3>3, <5>2
      <4>2. Start(j) = End(j - 1) /\ End(j) - Start(j) = W
        <5>1. End(j) >= W /\ End(j) \in 0..n
          BY <1>1, <1>2, <3>3
        <5> QED BY <1>1, <1>3, <3>3, <5>1 DEF Start
      <4> HIDE DEF g, W, m
      <4>3. h[End(j)] = h[End(j - 1)] * B + V(j)
        BY <1>10, <4>2 DEF B
      <4> QED BY <1>12, <3>1, <4>1, <4>3 DEF NextNumber
    <3> QED BY <3>2, <3>3
  <2> HIDE DEF g, m
  <2> QED BY <2>1, <2>2, <2>3 DEF Way
<1>14. Text!SetBits(words) = g[m]
  <2> HIDE DEF g, m
  <2> QED BY <1>11, <1>13, SetBitsIs DEF B
<1>15. g[m] = h[n]
  <2>1. m \in 0..m /\ m # 0 /\ m \in 1..m
    BY <1>1
  <2>2. End(m) = n
    BY <1>2, <2>1
  <2> QED BY <2>1, <2>2
<1>16. Text!Value(raw) = h[n]
  BY <1>8, ValueIs
<1> QED BY <1>14, <1>15, <1>16 DEF words

-----------------------------------------------------------------------------
(* The five decoders of numbers.                                           *)

LEMMA Dropped ==
  ASSUME NEW S, NEW s \in Seq(S), NEW n \in Nat, n <= Len(s)
  PROVE  /\ Text!Drop(s, n) \in Seq(S) /\ Len(Text!Drop(s, n)) = Len(s) - n
         /\ \A k \in 1..(Len(s) - n) : Text!Drop(s, n)[k] = s[n + k]
<1>1. Len(s) \in Nat
  BY LenProperties
<1>2. Text!Drop(s, n) = SubSeq(s, n + 1, Len(s))
  BY DEF Text!Drop
<1> QED BY <1>1, <1>2, SubSeqProperties

LEMMA EmptyValue ==
  Text!AllDigits(<<>>) /\ Text!Value(<<>>) = 0
<1>1. <<>> \in Seq(Int) /\ Len(<<>>) = 0
  OBVIOUS
<1>2. PICK h : Way(h, Len(<<>>), 16, 0, Nibbles(<<>>))
  BY <1>1, TextWay
<1>3. h[0] = 0
  BY <1>2 DEF Way
<1>4. Text!Value(<<>>) = h[Len(<<>>)]
  BY <1>1, <1>2, ValueIs
<1> QED BY <1>1, <1>3, <1>4 DEF Text!AllDigits

(* What the two checks before the digits let pass.                         *)
Headed(s) == Text!has0xPrefix(s) /\ Len(s) > 2 /\ (s[3] = "0" => Len(s) = 3)

LEMMA Checked ==
  ASSUME NEW S, NEW s \in Seq(S), s # <<>>
  PROVE  /\ Headed(s) => Text!checkNumber(s) = Text!Ok(Text!Drop(s, 2))
         /\ ~Headed(s) => Text!checkNumber(s).err # "none"
         /\ Text!checkNumberText(s) = Text!checkNumber(s)
<1>1. Len(s) \in Nat
  BY LenProperties
<1>2. CASE ~Text!has0xPrefix(s)
  BY <1>2 DEF Headed, Text!checkNumber, Text!checkNumberText, Text!Err
<1>3. CASE Text!has0xPrefix(s)
  <2> DEFINE raw == Text!Drop(s, 2)
  <2>1. Len(s) >= 2
    BY <1>3 DEF Text!has0xPrefix
  <2>2. raw \in Seq(S) /\ Len(raw) = Len(s) - 2 /\ (Len(raw) >= 1 => raw[1] = s[3])
    <3>1. \A k \in 1..(Len(s) - 2) : raw[k] = s[2 + k]
      BY <2>1, Dropped
    <3>2. Len(s) - 2 >= 1 => 1 \in 1..(Len(s) - 2)
      BY <1>1
    <3> QED BY <2>1, <3>1, <3>2, Dropped
  <2> HIDE DEF raw
  <2>3. raw = <<>> <=> Len(s) = 2
    BY <1>1, <2>2, EmptySeq
  <2>4. Text!checkNumber(s) = Text!CheckDigits(raw) /\ Text!checkNumberText(s) = Text!CheckDigits(raw)
    BY <1>3 DEF Text!checkNumber, Text!checkNumberText, raw
  <2>5. Headed(s) <=> raw # <<>> /\ ~(Len(raw) > 1 /\ raw[1] = "0")
    <3> DEFINE n == Len(s)
               k == Len(raw)
    <3>0. n \in Nat /\ n >= 2 /\ k = n - 2 /\ (raw = <<>> <=> n = 2) /\ (k >= 1 => raw[1] = s[3])
      BY <1>1, <2>1, <2>2, <2>3
    <3> HIDE DEF n, k
    <3>1. raw # <<>> <=> n > 2
      BY <3>0
    <3>2. n > 2 => raw[1] = s[3] /\ (k > 1 <=> n # 3)
      BY <3>0
    <3> USE DEF n, k
    <3> QED BY <1>3, <3>1, <3>2 DEF Headed
  <2>6. Headed(s) => Text!CheckDigits(raw) = Text!Ok(raw)
    BY <2>5 DEF Text!CheckDigits
  <2>7. ~Headed(s) => Text!CheckDigits(raw).err # "none"
    BY <2>5 DEF Text!CheckDigits, Text!Err
  <2> QED BY <2>4, <2>6, <2>7 DEF raw
<1> QED BY <1>2, <1>3

Got(r) == IF r.err = "none" THEN {r.value} ELSE {}

LEMMA GotIs ==
  /\ \A v : Got(Text!Ok(v)) = {v}
  /\ \A e : e # "none" => Got(Text!Err(e)) = {}
BY DEF Got, Text!Ok, Text!Err

(* The three ways to read digits that have passed: all of them, or not.    *)
LEMMA DigitsRead ==
  ASSUME NEW S, NEW raw \in Seq(S)
  PROVE  /\ Got(Text!ParseUint(raw)) =
              IF Text!AllDigits(raw) /\ Len(raw) <= UintDigits THEN {Text!Value(raw)} ELSE {}
         /\ Text!AllDigits(raw) /\ Len(raw) <= UintDigits =>
              Text!Accumulate(raw, UintDigits) = Text!Value(raw)
         /\ Got(Text!BigOf(Text!Ok(raw))) =
              IF Text!AllDigits(raw) /\ Len(raw) <= BigDigits THEN {Text!Value(raw)} ELSE {}
         /\ Text!AllDigits(raw) /\ Len(raw) <= BigDigits =>
              Text!BigOf(Text!Ok(raw)) = Text!Ok(Text!Value(raw))
         /\ Text!AllDigits(raw) /\ Len(raw) <= UintDigits =>
              Text!ParseUint(raw) = Text!Ok(Text!Value(raw))
<1>1. Len(raw) \in Nat /\ UintDigits \in Nat /\ BigDigits \in Nat
  BY TextsAssumption, LenProperties
<1>2. Text!AllDigits(raw) /\ Len(raw) <= UintDigits => Text!Accumulate(raw, UintDigits) = Text!Value(raw)
  BY <1>1, AccumulatedInFull
<1>3. /\ Got(Text!ParseUint(raw)) = IF Text!AllDigits(raw) /\ Len(raw) <= UintDigits THEN {Text!Value(raw)} ELSE {}
      /\ Text!AllDigits(raw) /\ Len(raw) <= UintDigits => Text!ParseUint(raw) = Text!Ok(Text!Value(raw))
  <2>1. CASE Len(raw) <= UintDigits
    <3> DEFINE read == SubSeq(raw, 1, IF Len(raw) <= UintDigits THEN Len(raw) ELSE UintDigits + 1)
    <3>1. read = raw
      <4>1. SubSeq(raw, 1, Len(raw)) = raw
        BY SubSeqFull
      <4> QED BY <2>1, <4>1
    <3>2. Text!ParseUint(raw) =
            IF ~Text!AllDigits(read) THEN Text!Err("syntax")
            ELSE IF Len(raw) > UintDigits THEN Text!Err("uint range")
            ELSE Text!Ok(Text!Accumulate(raw, UintDigits))
      BY DEF Text!ParseUint
    <3> HIDE DEF read
    <3>3. ~(Len(raw) > UintDigits)
      BY <1>1, <2>1
    <3>4. CASE Text!AllDigits(raw)
      <4>1. Text!ParseUint(raw) = Text!Ok(Text!Value(raw))
        BY <1>2, <2>1, <3>1, <3>2, <3>3, <3>4
      <4> QED BY <2>1, <3>4, <4>1, GotIs
    <3>5. CASE ~Text!AllDigits(raw)
      <4>1. Text!ParseUint(raw) = Text!Err("syntax")
        BY <3>1, <3>2, <3>5
      <4>2. Got(Text!Err("syntax")) = {}
        BY GotIs
      <4> QED BY <3>5, <4>1, <4>2
    <3> QED BY <3>4, <3>5
  <2>2. CASE ~(Len(raw) <= UintDigits)
    <3>1. Len(raw) > UintDigits
      BY <1>1, <2>2
    <3>2. Text!ParseUint(raw) \in {Text!Err("syntax"), Text!Err("uint range")}
      BY <2>2, <3>1 DEF Text!ParseUint
    <3>3. Got(Text!Err("syntax")) = {} /\ Got(Text!Err("uint range")) = {}
      BY GotIs
    <3>4. Got(Text!ParseUint(raw)) = {}
      BY <3>2, <3>3
    <3> QED BY <2>2, <3>4
  <2> QED BY <2>1, <2>2
<1>4. Text!BigOf(Text!Ok(raw)) =
        IF Len(raw) > BigDigits THEN Text!Err("big256 range")
        ELSE IF ~Text!AllDigits(raw) THEN Text!Err("syntax")
        ELSE Text!Ok(Text!SetBits(Text!Words(raw)))
  BY DEF Text!BigOf, Text!Ok
<1>5. /\ Got(Text!BigOf(Text!Ok(raw))) = IF Text!AllDigits(raw) /\ Len(raw) <= BigDigits THEN {Text!Value(raw)} ELSE {}
      /\ Text!AllDigits(raw) /\ Len(raw) <= BigDigits => Text!BigOf(Text!Ok(raw)) = Text!Ok(Text!Value(raw))
  <2>1. Got(Text!Err("syntax")) = {} /\ Got(Text!Err("big256 range")) = {}
    BY GotIs
  <2>2. Len(raw) > BigDigits <=> ~(Len(raw) <= BigDigits)
    BY <1>1
  <2>3. CASE Text!AllDigits(raw) /\ Len(raw) <= BigDigits
    <3>1. Text!BigOf(Text!Ok(raw)) = Text!Ok(Text!Value(raw))
      BY <1>4, <2>2, <2>3, WordsInFull
    <3> QED BY <2>3, <3>1, GotIs
  <2>4. CASE ~(Text!AllDigits(raw) /\ Len(raw) <= BigDigits)
    BY <1>4, <2>1, <2>2, <2>4
  <2> QED BY <2>3, <2>4
<1> QED BY <1>2, <1>3, <1>5

(* What each decoder yields: the value of a quantity that fits, or an      *)
(* error.                                                                  *)
LEMMA FiveDecoders ==
  ASSUME NEW S, NEW s \in Seq(S)
  PROVE  LET Expected(digits) == IF Text!Quantity(s) /\ Len(Text!Drop(s, 2)) <= digits THEN {Text!Value(Text!Drop(s, 2))} ELSE {}
             TextOf(digits) == IF s = <<>> THEN {0} ELSE Expected(digits)
         IN /\ Got(Text!DecodeUint64(s)) = Expected(UintDigits)
            /\ Got(Text!UnmarshalUint64(s)) = TextOf(UintDigits)
            /\ Got(Text!UnmarshalUint(s)) = TextOf(UintDigits)
            /\ Got(Text!DecodeBig(s)) = Expected(BigDigits)
            /\ Got(Text!UnmarshalBig(s)) = TextOf(BigDigits)
<1> DEFINE raw == Text!Drop(s, 2)
           Expected(digits) == IF Text!Quantity(s) /\ Len(raw) <= digits THEN {Text!Value(raw)} ELSE {}
<1>1. Len(s) \in Nat /\ UintDigits \in Nat /\ BigDigits \in Nat
  BY TextsAssumption, LenProperties
<1>2. Got(Text!UnmarshalUint(s)) = Got(Text!UnmarshalUint64(s))
  BY DEF Text!UnmarshalUint, Got, Text!Err
<1>3. CASE s = <<>>
  <2>1. ~Text!has0xPrefix(s)
    BY <1>3 DEF Text!has0xPrefix
  <2>2. ~Text!Quantity(s)
    BY <2>1 DEF Text!Quantity
  <2>3. Text!checkNumber(s) = Text!Err("empty number") /\ Text!checkNumberText(s) = Text!Ok(<<>>)
    BY <1>3 DEF Text!checkNumber, Text!checkNumberText
  <2>4. Text!DecodeUint64(s) = Text!Err("empty number") /\ Text!DecodeBig(s) = Text!Err("empty number")
    <3>1. Text!Err("empty number").err # "none"
      BY DEF Text!Err
    <3> QED BY <2>3, <3>1 DEF Text!DecodeUint64, Text!DecodeBig, Text!BigOf
  <2>5. <<>> \in Seq(S) /\ Len(<<>>) = 0
    OBVIOUS
  <2>6. Text!UnmarshalUint64(s) = Text!Ok(Text!Accumulate(<<>>, UintDigits))
    <3>1. Text!UnmarshalUint64(s) =
            LET r == Text!Ok(<<>>)
            IN IF r.err # "none" THEN r
               ELSE IF Len(r.value) > UintDigits THEN Text!Err("uint64 range")
               ELSE IF ~Text!AllDigits(r.value) THEN Text!Err("syntax")
               ELSE Text!Ok(Text!Accumulate(r.value, UintDigits))
      BY <2>3, Zenon DEF Text!UnmarshalUint64
    <3>2. Text!Ok(<<>>).err = "none" /\ Text!Ok(<<>>).value = <<>>
      BY DEF Text!Ok
    <3>3. ~(Len(<<>>) > UintDigits)
      BY <1>1, <2>5
    <3> QED BY <3>1, <3>2, <3>3, EmptyValue, Zenon
  <2>7. Got(Text!UnmarshalUint64(s)) = {0}
    <3>1. Len(<<>>) <= UintDigits
      BY <1>1, <2>5
    <3>2. Text!Accumulate(<<>>, UintDigits) = 0
      BY <1>1, <2>5, <3>1, EmptyValue, AccumulatedInFull
    <3> QED BY <2>6, <3>2, GotIs
  <2>8. Got(Text!UnmarshalBig(s)) = {0}
    <3>1. Len(<<>>) <= BigDigits
      BY <1>1, <2>5
    <3>2. Got(Text!BigOf(Text!Ok(<<>>))) = {Text!Value(<<>>)}
      BY <2>5, <3>1, EmptyValue, DigitsRead
    <3> QED BY <2>3, <3>2, EmptyValue DEF Text!UnmarshalBig
  <2>9. Got(Text!Err("empty number")) = {}
    BY GotIs
  <2> QED BY <1>2, <1>3, <2>2, <2>4, <2>7, <2>8, <2>9
<1>4. CASE s # <<>> /\ ~Headed(s)
  <2>1. ~Text!Quantity(s)
    BY <1>4 DEF Text!Quantity, Headed
  <2>2. Text!checkNumber(s).err # "none" /\ Text!checkNumberText(s) = Text!checkNumber(s)
    BY <1>4, Checked
  <2>3. /\ Text!DecodeUint64(s) = Text!checkNumber(s) /\ Text!DecodeBig(s) = Text!checkNumber(s)
        /\ Text!UnmarshalUint64(s) = Text!checkNumber(s) /\ Text!UnmarshalBig(s) = Text!checkNumber(s)
    BY <2>2 DEF Text!DecodeUint64, Text!DecodeBig, Text!BigOf, Text!UnmarshalUint64, Text!UnmarshalBig
  <2> QED BY <1>2, <1>4, <2>1, <2>2, <2>3 DEF Got
<1>5. CASE s # <<>> /\ Headed(s)
  <2>1. raw \in Seq(S)
    <3>1. 2 <= Len(s)
      BY <1>1, <1>5 DEF Headed
    <3> QED BY <3>1, Dropped
  <2>2. Text!checkNumber(s) = Text!Ok(raw) /\ Text!checkNumberText(s) = Text!Ok(raw)
    BY <1>5, Checked
  <2>3. Text!Quantity(s) <=> Text!AllDigits(raw)
    BY <1>5 DEF Headed, Text!Quantity
  <2>9. Len(raw) \in Nat
    BY <2>1, LenProperties
  <2> HIDE DEF raw
  <2>4. Text!DecodeUint64(s) = Text!ParseUint(raw)
    BY <2>2 DEF Text!DecodeUint64, Text!Ok
  <2>5. Text!UnmarshalUint64(s) =
          IF Len(raw) > UintDigits THEN Text!Err("uint64 range")
          ELSE IF ~Text!AllDigits(raw) THEN Text!Err("syntax")
          ELSE Text!Ok(Text!Accumulate(raw, UintDigits))
    BY <2>2 DEF Text!UnmarshalUint64, Text!Ok
  <2>6. Got(Text!UnmarshalUint64(s)) = Expected(UintDigits)
    <3>1. Got(Text!Err("uint64 range")) = {} /\ Got(Text!Err("syntax")) = {}
      BY GotIs
    <3>2. Len(raw) > UintDigits <=> ~(Len(raw) <= UintDigits)
      BY <1>1, <2>9
    <3>3. CASE Text!AllDigits(raw) /\ Len(raw) <= UintDigits
      <4>1. Text!UnmarshalUint64(s) = Text!Ok(Text!Value(raw))
        BY <2>1, <2>5, <3>2, <3>3, DigitsRead
      <4> QED BY <2>3, <3>3, <4>1, GotIs
    <3>4. CASE ~(Text!AllDigits(raw) /\ Len(raw) <= UintDigits)
      BY <2>3, <2>5, <3>1, <3>2, <3>4
    <3> QED BY <3>3, <3>4
  <2>7. Text!DecodeBig(s) = Text!BigOf(Text!Ok(raw)) /\ Text!UnmarshalBig(s) = Text!BigOf(Text!Ok(raw))
    BY <2>2 DEF Text!DecodeBig, Text!UnmarshalBig
  <2>8. Got(Text!DecodeUint64(s)) = Expected(UintDigits) /\ Got(Text!DecodeBig(s)) = Expected(BigDigits)
    BY <2>1, <2>3, <2>4, <2>7, DigitsRead
  <2> QED BY <1>2, <1>5, <2>6, <2>7, <2>8 DEF raw
<1> QED BY <1>3, <1>4, <1>5

(* The decoders accept the same texts and read the same numbers.           *)
LEMMA NumbersAreAgreed ==
  ASSUME NEW S, NEW s \in Seq(S)
  PROVE  Text!NumbersAgree(s)
BY FiveDecoders DEF Text!NumbersAgree, Got

-----------------------------------------------------------------------------
(* Numbers that are written and read back, with and without the quotes of  *)
(* JSON.                                                                   *)

(* How long the text of a number is.                                       *)
LEMMA HexLength ==
  ASSUME NEW n \in Nat
  PROVE  \E k \in 1..(n + 1) : n < 2^(4 * k) /\ (k > 1 => n >= 2^(4 * (k - 1)))
<1> DEFINE Fits == {k \in Nat \ {0} : n < 2^(4 * k)}
<1>1. n + 1 \in Fits
  <2> DEFINE p == 2^(4 * (n + 1))
  <2>1. 4 * (n + 1) \in Nat
    OBVIOUS
  <2>2. 4 * (n + 1) < p
    BY <2>1, PowersGrow
  <2>3. p \in Nat
    BY <2>1, PowersDouble
  <2> HIDE DEF p
  <2>4. n < p
    BY <2>2, <2>3
  <2> QED BY <2>4 DEF p
<1>2. PICK k \in Fits : \A j \in Fits : k <= j
  <2>1. Fits \in SUBSET Nat /\ Fits # {}
    BY <1>1
  <2> HIDE DEF Fits
  <2> QED BY <2>1, LeastExists
<1>3. k \in Nat \ {0} /\ n < 2^(4 * k) /\ k <= n + 1
  BY <1>1, <1>2
<1>4. k > 1 => n >= 2^(4 * (k - 1))
  <2> SUFFICES ASSUME k > 1 PROVE n >= 2^(4 * (k - 1))
    OBVIOUS
  <2> DEFINE j == k - 1
             p == 2^(4 * j)
  <2>1. j \in Nat \ {0} /\ j < k
    BY <1>3
  <2>2. p \in Nat
    BY <2>1, SixteenIs
  <2>3. j \notin Fits
    <3> HIDE DEF j, Fits
    <3>1. Fits \subseteq Nat
      BY DEF Fits
    <3> QED BY <1>2, <1>3, <2>1, <3>1
  <2>4. ~(n < p)
    BY <2>1, <2>3
  <2> HIDE DEF p
  <2> QED BY <2>2, <2>4 DEF p
<1>5. k \in 1..(n + 1)
  BY <1>3
<1> QED BY <1>3, <1>4, <1>5

LEMMA HexLetters == Hex \subseteq Chars /\ {"0", "x", "-", Quote} \subseteq Chars /\ \A i \in 1..16 : Text!LowerHex[i] \in Hex
BY DEF Hex, Chars

(* The text of a number has no leading zero, and its value is the number.  *)
LEMMA HexTextIs ==
  ASSUME NEW n \in Nat
  PROVE  \E k \in Nat \ {0} :
           LET t == Text!HexText(n)
           IN /\ n < 2^(4 * k) /\ (k > 1 => n >= 2^(4 * (k - 1)))
              /\ t \in Seq(Chars) /\ Len(t) = k /\ Text!AllDigits(t) /\ Text!Value(t) = n
              /\ t[1] = "0" => k = 1
<1> DEFINE t == Text!HexText(n)
           P(k) == n < 2^(4 * k) /\ (k > 1 => n >= 2^(4 * (k - 1)))
           kk == CHOOSE k \in 1..(n + 1) : P(k)
           Digit(i) == (n \div 2^(4 * (kk - i))) % 16
<1>1. kk \in 1..(n + 1) /\ P(kk)
  <2>1. \E k \in 1..(n + 1) : P(k)
    BY HexLength
  <2> HIDE DEF P
  <2> QED BY <2>1
<1>2. t = [i \in 1..kk |-> Text!LowerHex[Digit(i) + 1]]
  BY DEF Text!HexText
<1> HIDE DEF kk
<1>3. kk \in Nat \ {0}
  BY <1>1
<1>4. \A j \in 0..kk : 2^(4 * (kk - j)) \in Nat \ {0} /\ (n \div 2^(4 * (kk - j))) \in Int
  <2> SUFFICES ASSUME NEW j \in 0..kk PROVE 2^(4 * (kk - j)) \in Nat \ {0} /\ (n \div 2^(4 * (kk - j))) \in Int
    OBVIOUS
  <2> DEFINE p == 2^(4 * (kk - j))
  <2>1. kk - j \in Nat
    BY <1>3
  <2>2. p \in Nat \ {0}
    BY <2>1, SixteenIs
  <2> HIDE DEF p
  <2>3. n \div p \in Int
    BY <2>2, Divided
  <2> QED BY <2>2, <2>3 DEF p
<1>5. \A i \in 1..kk : Digit(i) \in 0..15
  <2> SUFFICES ASSUME NEW i \in 1..kk PROVE Digit(i) \in 0..15
    OBVIOUS
  <2> DEFINE x == n \div 2^(4 * (kk - i))
  <2>1. i \in 0..kk
    BY <1>3
  <2>2. x \in Int
    BY <1>4, <2>1
  <2> HIDE DEF x
  <2>3. x % 16 \in 0..15
    BY <2>2
  <2> QED BY <2>3 DEF x
<1> DEFINE h == [j \in 0..kk |-> n \div 2^(4 * (kk - j))]
<1>6. \A i \in 1..kk : h[i] = h[i - 1] * 16 + Digit(i)
  <2> SUFFICES ASSUME NEW i \in 1..kk PROVE h[i] = h[i - 1] * 16 + Digit(i)
    OBVIOUS
  <2> DEFINE p == 2^(4 * (kk - i))
             q == 2^(4 * (kk - (i - 1)))
  <2>1. i \in 0..kk /\ i - 1 \in 0..kk /\ kk - i \in Nat
    BY <1>3
  <2>2. p \in Nat \ {0}
    BY <1>4, <2>1
  <2>3. q = 16 * p
    <3>1. (kk - i) + 1 = kk - (i - 1)
      BY <1>3
    <3> QED BY <2>1, <3>1, SixteenIs
  <2>4. h[i] = n \div p /\ h[i - 1] = n \div q /\ Digit(i) = (n \div p) % 16
    BY <2>1
  <2> HIDE DEF p, q, Digit, h
  <2>5. n \div p \in Int
    BY <2>2, Divided
  <2>6. (n \div p) \div 16 = n \div (p * 16)
    <3> DEFINE b == 16
    <3>1. b \in Nat \ {0} /\ n \in Int
      OBVIOUS
    <3> HIDE DEF b
    <3>2. (n \div p) \div b = n \div (p * b)
      BY <2>2, <3>1, TwoDigits
    <3> QED BY <3>2 DEF b
  <2>7. p * 16 = 16 * p
    BY <2>2
  <2>8. h[i - 1] = (n \div p) \div 16
    BY <2>3, <2>4, <2>6, <2>7
  <2>9. n \div p = 16 * ((n \div p) \div 16) + ((n \div p) % 16)
    <3> DEFINE y == n \div p
    <3>1. y \in Int
      BY <2>5
    <3> HIDE DEF y
    <3>2. y = 16 * (y \div 16) + (y % 16)
      BY <3>1
    <3> QED BY <3>2 DEF y
  <2>10. h[i - 1] \in Int
    <3> DEFINE y == n \div p
    <3> HIDE DEF y
    <3>1. y \div 16 \in Int
      BY <2>5 DEF y
    <3> QED BY <2>8, <3>1 DEF y
  <2> QED BY <2>4, <2>8, <2>9, <2>10
<1>7. h \in [0..kk -> Int]
  BY <1>4
<1>8. h[0] = 0
  <2> DEFINE p == 2^(4 * kk)
  <2>1. kk - 0 = kk /\ 0 \in 0..kk
    BY <1>3
  <2>2. h[0] = n \div p
    BY <2>1
  <2>3. p \in Nat \ {0} /\ n < p
    BY <1>1, <1>3, SixteenIs
  <2> HIDE DEF p, h
  <2>4. n \div p = 0
    <3>1. n = p * 0 + n /\ n \in 0..(p - 1)
      BY <2>3
    <3>2. (p * 0 + n) \div p = 0
      BY <2>3, <3>1, Divides
    <3> QED BY <3>1, <3>2
  <2> QED BY <2>2, <2>4
<1>9. h[kk] = n
  <2>1. kk - kk = 0 /\ 4 * (kk - kk) = 0 /\ kk \in 0..kk
    BY <1>3
  <2>2. 2^0 = 1
    BY PowersDouble
  <2>3. h[kk] = n \div 1
    BY <2>1, <2>2
  <2>4. n \div 1 = n
    OBVIOUS
  <2> QED BY <2>3, <2>4
<1> HIDE DEF h, t
<1>10. \A i \in 1..kk : t[i] = Text!LowerHex[Digit(i) + 1] /\ Digit(i) + 1 \in 1..16
  <2> HIDE DEF Digit
  <2> QED BY <1>2, <1>5
<1> HIDE DEF Digit
<1>11. t \in Seq(Chars) /\ Len(t) = kk /\ DOMAIN t = 1..kk
  <2>1. \A i \in 1..kk : t[i] \in Chars
    BY <1>10, HexLetters
  <2>2. t = [i \in 1..kk |-> t[i]]
    BY <1>2
  <2>3. t \in [1..kk -> Chars]
    BY <2>1, <2>2
  <2> QED BY <1>3, <2>3, IsASeq
<1>12. \A i \in 1..kk : Text!decodeNibble(t[i]) = Digit(i)
  BY <1>5, <1>10, NibbleOf
<1>13. Text!AllDigits(t)
  BY <1>5, <1>11, <1>12 DEF Text!AllDigits, Text!badNibble
<1>14. Way(h, Len(t), 16, 0, Nibbles(t))
  <2>1. \A i \in 1..kk : Nibbles(t)[i] = Digit(i)
    BY <1>11, <1>12 DEF Nibbles
  <2> QED BY <1>6, <1>7, <1>8, <1>11, <2>1 DEF Way, NextNumber
<1>15. Text!Value(t) = n
  BY <1>9, <1>11, <1>14, ValueIs
<1>16. t[1] = "0" => kk = 1
  <2> SUFFICES ASSUME kk > 1 PROVE t[1] # "0"
    BY <1>3
  <2> DEFINE p == 2^(4 * (kk - 1))
             q == 2^(4 * kk)
  <2>1. p \in Nat \ {0} /\ q = 16 * p
    <3>1. kk - 1 \in Nat /\ (kk - 1) + 1 = kk
      BY <1>3
    <3> QED BY <3>1, SixteenIs
  <2>2. p <= n /\ n < q
    <3>1. n >= p /\ n < q
      BY <1>1
    <3> HIDE DEF p, q
    <3> QED BY <2>1, <3>1
  <2>3. 1 \in 1..kk /\ Digit(1) = (n \div p) % 16
    BY <1>3 DEF Digit
  <2> HIDE DEF p, q
  <2>4. n \div p \in 1..15
    <3> DEFINE y == n \div p
               r == n % p
    <3>1. y \in Int /\ r \in 0..(p - 1) /\ n = p * y + r
      BY <2>1, Divided
    <3> HIDE DEF y, r
    <3>2. y >= 1
      <4>1. CASE y <= 0
        <5>1. p * y <= 0
          BY <2>1, <3>1, <4>1
        <5> QED BY <2>1, <2>2, <3>1, <5>1
      <4> QED BY <3>1, <4>1
    <3>3. y <= 15
      <4>1. CASE y >= 16
        <5>1. p * y >= p * 16
          BY <2>1, <3>1, <4>1
        <5>2. p * y \in Int
          BY <2>1, <3>1
        <5> QED BY <2>1, <2>2, <3>1, <5>1, <5>2
      <4> QED BY <3>1, <4>1
    <3> QED BY <3>1, <3>2, <3>3 DEF y
  <2>5. Digit(1) \in 1..15
    BY <2>3, <2>4
  <2>6. Digit(1) + 1 \in 2..16 /\ t[1] = Text!LowerHex[Digit(1) + 1]
    BY <1>10, <2>3, <2>5
  <2> QED BY <2>6, Letters
<1> QED BY <1>1, <1>3, <1>11, <1>13, <1>15, <1>16 DEF t

LEMMA Joined ==
  ASSUME NEW S, NEW r \in Seq(S), NEW t \in Seq(S)
  PROVE  /\ Len(r) \in Nat /\ Len(t) \in Nat /\ r \o t \in Seq(S) /\ Len(r \o t) = Len(r) + Len(t)
         /\ \A i \in 1..Len(r) : (r \o t)[i] = r[i]
         /\ \A i \in 1..Len(t) : (r \o t)[Len(r) + i] = t[i]
<1> DEFINE m == Len(r)
           n == Len(t)
           u == r \o t
<1>1. m \in Nat /\ n \in Nat
  BY LenProperties
<1>2. u \in Seq(S) /\ Len(u) = m + n /\ \A i \in 1..(m + n) : u[i] = IF i <= m THEN r[i] ELSE t[i - m]
  BY ConcatProperties
<1> HIDE DEF u, m, n
<1>3. \A i \in 1..m : u[i] = r[i]
  BY <1>1, <1>2
<1>4. ASSUME NEW i \in 1..n PROVE u[m + i] = t[i]
  <2>1. m + i \in 1..(m + n) /\ ~(m + i <= m) /\ (m + i) - m = i
    BY <1>1
  <2> QED BY <1>2, <2>1
<1> QED BY <1>1, <1>2, <1>3, <1>4 DEF u, m, n

(* What the prefix does to a text.                                         *)
LEMMA Prefixed ==
  ASSUME NEW t \in Seq(Chars)
  PROVE  LET s == <<"0", "x">> \o t
         IN /\ s \in Seq(Chars) /\ s # <<>> /\ Len(s) = Len(t) + 2 /\ s[1] = "0" /\ s[2] = "x"
            /\ \A k \in 1..Len(t) : s[k + 2] = t[k]
            /\ Text!has0xPrefix(s) /\ Text!Drop(s, 2) = t
<1> DEFINE x == <<"0", "x">>
           s == x \o t
           n == Len(t)
<1>1. x \in Seq(Chars) /\ Len(x) = 2 /\ x[1] = "0" /\ x[2] = "x" /\ n \in Nat
  BY HexLetters, LenProperties
<1> HIDE DEF x
<1>2. s \in Seq(Chars) /\ Len(s) = 2 + n /\ (\A i \in 1..2 : s[i] = x[i]) /\ \A i \in 1..n : s[2 + i] = t[i]
  <2> DEFINE c == 2
  <2>1. Len(x) = c /\ Len(t) = n
    BY <1>1
  <2> HIDE DEF c, n
  <2>2. s \in Seq(Chars) /\ Len(s) = c + n /\ (\A i \in 1..c : s[i] = x[i]) /\ \A i \in 1..n : s[c + i] = t[i]
    <3>0. x \in Seq(Chars)
      BY <1>1
    <3>1. x \o t \in Seq(Chars) /\ Len(x \o t) = Len(x) + Len(t)
      BY <1>1, Joined
    <3>2. \A i \in 1..Len(x) : (x \o t)[i] = x[i]
      BY <1>1, Joined
    <3>3. \A i \in 1..Len(t) : (x \o t)[Len(x) + i] = t[i]
      BY <3>0, Joined
    <3> QED BY <2>1, <3>1, <3>2, <3>3
  <2> QED BY <2>2 DEF c
<1> HIDE DEF s
<1>3. s[1] = "0" /\ s[2] = "x"
  BY <1>1, <1>2
<1>4. ASSUME NEW k \in 1..n PROVE s[k + 2] = t[k]
  <2>1. k + 2 = 2 + k
    BY <1>1
  <2> QED BY <1>2, <2>1
<1>5. Text!Drop(s, 2) = t
  <2>1. 2 <= Len(s)
    BY <1>1, <1>2
  <2>2. Text!Drop(s, 2) \in Seq(Chars) /\ Len(Text!Drop(s, 2)) = n
    BY <1>1, <1>2, <2>1, Dropped
  <2>3. ASSUME NEW k \in 1..n PROVE Text!Drop(s, 2)[k] = t[k]
    <3>1. k \in 1..(Len(s) - 2)
      BY <1>1, <1>2
    <3>2. \A i \in 1..(Len(s) - 2) : Text!Drop(s, 2)[i] = s[2 + i]
      <4> DEFINE c == 2
      <4>1. c \in Nat /\ c <= Len(s)
        BY <2>1
      <4>2. s \in Seq(Chars)
        BY <1>2
      <4> HIDE DEF c
      <4>3. \A i \in 1..(Len(s) - c) : Text!Drop(s, c)[i] = s[c + i]
        BY <4>1, <4>2, Dropped
      <4> QED BY <4>3 DEF c
    <3> QED BY <1>2, <3>1, <3>2
  <2> QED BY <2>2, <2>3, SeqEqual
<1>6. Text!has0xPrefix(s)
  BY <1>1, <1>2, <1>3 DEF Text!has0xPrefix
<1>7. s # <<>>
  BY <1>1, <1>2, EmptySeq
<1> QED BY <1>2, <1>3, <1>4, <1>5, <1>6, <1>7 DEF s, x

LEMMA StringIs ==
  ASSUME NEW s
  PROVE  Text!isString(s) <=> Len(s) >= 2 /\ s[1] = Quote /\ s[Len(s)] = Quote
BY Zenon DEF Text!isString, Quote

LEMMA QuotedIs ==
  ASSUME NEW s \in Seq(Chars)
  PROVE  LET q == <<Quote>> \o s \o <<Quote>>
         IN Text!isString(q) /\ SubSeq(q, 2, Len(q) - 1) = s
<1> DEFINE x == <<Quote>>
           n == Len(s)
           q == x \o s \o x
<1>1. x \in Seq(Chars) /\ Len(x) = 1 /\ x[1] = Quote /\ n \in Nat
  BY HexLetters, LenProperties
<1> HIDE DEF x, q
<1>2. x \o s \in Seq(Chars) /\ Len(x \o s) = 1 + n /\ (\A i \in 1..1 : (x \o s)[i] = x[i]) /\ \A i \in 1..n : (x \o s)[1 + i] = s[i]
  <2> DEFINE c == 1
  <2>1. Len(x) = c /\ Len(s) = n
    BY <1>1
  <2> HIDE DEF c, n
  <2>2. x \o s \in Seq(Chars) /\ Len(x \o s) = c + n /\ (\A i \in 1..c : (x \o s)[i] = x[i]) /\ \A i \in 1..n : (x \o s)[c + i] = s[i]
    BY <1>1, <2>1, Joined
  <2> QED BY <2>2 DEF c
<1>3. q \in Seq(Chars) /\ Len(q) = (1 + n) + 1 /\ (\A i \in 1..(1 + n) : q[i] = (x \o s)[i]) /\ \A i \in 1..1 : q[(1 + n) + i] = x[i]
  BY <1>1, <1>2, Joined DEF q
<1>4. q[1] = Quote
  <2>1. 1 \in 1..(1 + n) /\ 1 \in 1..1
    BY <1>1
  <2> QED BY <1>1, <1>2, <1>3, <2>1
<1>5. q[n + 2] = Quote /\ Len(q) = n + 2
  <2>1. n + 2 = (1 + n) + 1 /\ 1 \in 1..1
    BY <1>1
  <2> QED BY <1>1, <1>3, <2>1
<1>6. Text!isString(q)
  BY <1>1, <1>3, <1>4, <1>5, StringIs
<1>7. SubSeq(q, 2, Len(q) - 1) = s
  <2> DEFINE u == SubSeq(q, 2, n + 1)
  <2>1. \A i \in 2..(n + 1) : q[i] \in Chars
    <3>1. \A i \in 2..(n + 1) : i \in 1..Len(q)
      BY <1>1, <1>3
    <3> QED BY <1>3, <3>1, ElementOfSeq
  <2>2. 2 \in Int /\ n + 1 \in Int /\ (n + 1) - 2 + 1 = n
    BY <1>1
  <2>3. u \in Seq(Chars) /\ Len(u) = (IF 2 <= n + 1 THEN (n + 1) - 2 + 1 ELSE 0) /\ \A i \in 1..((n + 1) - 2 + 1) : u[i] = q[2 + i - 1]
    BY <2>1, <2>2, SubSeqProperties
  <2>4. Len(u) = n
    BY <1>1, <2>2, <2>3
  <2>5. ASSUME NEW i \in 1..n PROVE u[i] = s[i]
    <3>1. i \in 1..((n + 1) - 2 + 1) /\ 2 + i - 1 = 1 + i /\ 1 + i \in 1..(1 + n)
      BY <1>1
    <3> HIDE DEF u
    <3>2. u[i] = q[1 + i]
      BY <2>3, <3>1
    <3> QED BY <1>2, <1>3, <3>1, <3>2
  <2>6. u = s
    <3> HIDE DEF u
    <3> QED BY <2>3, <2>4, <2>5, SeqEqual
  <2>7. Len(q) - 1 = n + 1
    BY <1>1, <1>3
  <2> QED BY <2>6, <2>7
<1> QED BY <1>6, <1>7 DEF q, x

(* An encoder's text is read back if its digits are few enough.            *)
LEMMA EncodedRead ==
  ASSUME NEW n \in Nat, NEW digits \in Nat \ {0}, n <= 2^(4 * digits) - 1
  PROVE  LET s == <<"0", "x">> \o Text!HexText(n)
         IN /\ s \in Seq(Chars) /\ s # <<>> /\ s[1] = "0"
            /\ Text!checkNumber(s) = Text!Ok(Text!HexText(n)) /\ Text!checkNumberText(s) = Text!Ok(Text!HexText(n))
            /\ Text!HexText(n) \in Seq(Chars) /\ Text!AllDigits(Text!HexText(n)) /\ Text!Value(Text!HexText(n)) = n
            /\ Len(Text!HexText(n)) <= digits
<1> DEFINE t == Text!HexText(n)
           s == <<"0", "x">> \o t
<1>1. PICK k \in Nat \ {0} :
        /\ n < 2^(4 * k) /\ (k > 1 => n >= 2^(4 * (k - 1)))
        /\ t \in Seq(Chars) /\ Len(t) = k /\ Text!AllDigits(t) /\ Text!Value(t) = n
        /\ t[1] = "0" => k = 1
  BY HexTextIs
<1> HIDE DEF t
<1>2. /\ s \in Seq(Chars) /\ s # <<>> /\ Len(s) = k + 2 /\ s[1] = "0"
      /\ \A j \in 1..k : s[j + 2] = t[j]
      /\ Text!has0xPrefix(s) /\ Text!Drop(s, 2) = t
  BY <1>1, Prefixed
<1> HIDE DEF s
<1>3. s[3] = t[1]
  BY <1>2
<1>4. Headed(s)
  BY <1>1, <1>2, <1>3 DEF Headed
<1>5. Text!checkNumber(s) = Text!Ok(t) /\ Text!checkNumberText(s) = Text!Ok(t)
  BY <1>2, <1>4, Checked
<1>6. k <= digits
  <2> SUFFICES ASSUME k > digits PROVE FALSE
    BY <1>1
  <2> DEFINE p == 2^(4 * (k - 1))
             q == 2^(4 * digits)
  <2>1. k > 1 /\ k - 1 \in Nat /\ digits <= k - 1 /\ 4 * digits \in Nat /\ 4 * (k - 1) \in Nat /\ 4 * digits <= 4 * (k - 1)
    BY <1>1
  <2>2. q <= p /\ p \in Nat /\ q \in Nat
    BY <2>1, PowersRise, PowersDouble
  <2>3. n >= p /\ n <= q - 1
    BY <1>1, <2>1
  <2> HIDE DEF p, q
  <2> QED BY <2>2, <2>3
<1> QED BY <1>1, <1>2, <1>5, <1>6 DEF s, t

LEMMA UnquotedIs ==
  ASSUME NEW s
  PROVE  Text!UnmarshalJSON(s, Text!UnmarshalUint64) =
           IF ~Text!isString(s) THEN Text!Err("non-string") ELSE Text!UnmarshalUint64(SubSeq(s, 2, Len(s) - 1))
BY DEF Text!UnmarshalJSON

(* An unsigned number, with and without the quotes.                        *)
LEMMA UintKept ==
  ASSUME NEW n \in Nat, n <= 2^(4 * UintDigits) - 1
  PROVE  LET Quoted(s) == <<Quote>> \o s \o <<Quote>>
         IN /\ Text!DecodeUint64(Text!EncodeUint64(n)) = Text!Ok(n)
            /\ Text!UnmarshalJSON(Quoted(Text!EncodeUint64(n)), Text!UnmarshalUint64) = Text!Ok(n)
            /\ Text!UnmarshalJSON(Text!EncodeUint64(n), Text!UnmarshalUint64).err = "non-string"
            /\ Text!DecodeUint64(Text!EncodeUint64(n)) = Text!UnmarshalGraphQLUint64(n)
<1> DEFINE t == Text!HexText(n)
           s == Text!EncodeUint64(n)
           q == <<Quote>> \o s \o <<Quote>>
<1>1. UintDigits \in Nat \ {0}
  BY TextsAssumption
<1>2. s = <<"0", "x">> \o t
  BY DEF Text!EncodeUint64
<1> HIDE DEF t, s
<1>3. /\ s \in Seq(Chars) /\ s # <<>> /\ s[1] = "0"
      /\ Text!checkNumber(s) = Text!Ok(t) /\ Text!checkNumberText(s) = Text!Ok(t)
      /\ t \in Seq(Chars) /\ Text!AllDigits(t) /\ Text!Value(t) = n /\ Len(t) <= UintDigits
  BY <1>1, <1>2, EncodedRead DEF t
<1>4. Text!ParseUint(t) = Text!Ok(n) /\ Text!Accumulate(t, UintDigits) = n
  BY <1>3, DigitsRead
<1>5. Text!Ok(t).err = "none" /\ Text!Ok(t).value = t
  BY DEF Text!Ok
<1>6. Text!DecodeUint64(s) = Text!Ok(n)
  BY <1>3, <1>4, <1>5 DEF Text!DecodeUint64
<1>7. Text!UnmarshalUint64(s) = Text!Ok(n)
  <2>1. ~(Len(t) > UintDigits)
    BY <1>1, <1>3, LenProperties
  <2> QED BY <1>3, <1>4, <1>5, <2>1 DEF Text!UnmarshalUint64
<1>8. Text!isString(q) /\ SubSeq(q, 2, Len(q) - 1) = s
  BY <1>3, QuotedIs
<1> HIDE DEF q
<1>9. Text!UnmarshalJSON(q, Text!UnmarshalUint64) = Text!Ok(n)
  BY <1>7, <1>8, UnquotedIs
<1>10. ~Text!isString(s)
  <2>1. Quote # "0"
    BY Zenon DEF Quote
  <2> QED BY <1>3, <2>1, StringIs
<1>11. Text!UnmarshalJSON(s, Text!UnmarshalUint64).err = "non-string"
  <2>1. Text!UnmarshalJSON(s, Text!UnmarshalUint64) = Text!Err("non-string")
    BY <1>10, UnquotedIs
  <2> QED BY <2>1 DEF Text!Err
<1>12. Text!UnmarshalGraphQLUint64(n) = Text!Ok(n)
  <2> DEFINE p == 2^(4 * UintDigits)
  <2>1. p \in Nat \ {0} /\ n <= p - 1
    BY <1>1, SixteenIs
  <2>2. Text!UnmarshalGraphQLUint64(n) = Text!Ok(n % p)
    BY DEF Text!UnmarshalGraphQLUint64
  <2> HIDE DEF p
  <2>3. n % p = n
    BY <2>1
  <2> QED BY <2>2, <2>3
<1> QED BY <1>6, <1>9, <1>11, <1>12 DEF q, s

(* Every number its type can hold is read as it was written.               *)
LEMMA NumbersAreKept ==
  ASSUME NEW n \in Int
  PROVE  Text!NumberKept(n)
<1>1. n \in 0..(2^(4 * UintDigits) - 1) => n \in Nat /\ n <= 2^(4 * UintDigits) - 1
  BY SixteenIs, TextsAssumption
<1>2. n \in 0..(2^(4 * BigDigits) - 1) => Text!DecodeBig(Text!EncodeBig(n)) = Text!Ok(n)
  <2> SUFFICES ASSUME n \in 0..(2^(4 * BigDigits) - 1) PROVE Text!DecodeBig(Text!EncodeBig(n)) = Text!Ok(n)
    OBVIOUS
  <2> DEFINE t == Text!HexText(n)
             s == <<"0", "x">> \o t
  <2>1. BigDigits \in Nat \ {0}
    BY TextsAssumption
  <2>2. n \in Nat /\ n <= 2^(4 * BigDigits) - 1
    BY <2>1, SixteenIs
  <2>3. Text!EncodeBig(n) = s
    BY <2>2 DEF Text!EncodeBig
  <2>4. /\ Text!checkNumber(s) = Text!Ok(t)
        /\ t \in Seq(Chars) /\ Text!AllDigits(t) /\ Text!Value(t) = n /\ Len(t) <= BigDigits
    BY <2>1, <2>2, EncodedRead
  <2> HIDE DEF s, t
  <2> QED BY <2>3, <2>4, DigitsRead DEF Text!DecodeBig
<1>3. n >= 2^(4 * BigDigits) => Text!DecodeBig(Text!MarshalBig(n).value).err = "big256 range"
  <2> SUFFICES ASSUME n >= 2^(4 * BigDigits) PROVE Text!DecodeBig(Text!MarshalBig(n).value).err = "big256 range"
    OBVIOUS
  <2> DEFINE t == Text!HexText(n)
             s == <<"0", "x">> \o t
  <2>1. BigDigits \in Nat \ {0}
    BY TextsAssumption
  <2>2. 2^(4 * BigDigits) \in Nat \ {0}
    BY <2>1, SixteenIs
  <2>3. n \in Nat
    BY <2>2
  <2>4. PICK k \in Nat \ {0} : n < 2^(4 * k) /\ Len(t) = k
    BY <2>3, HexTextIs
  <2>5. Text!MarshalBig(n).value = s
    BY <2>3 DEF Text!MarshalBig, Text!Ok, Text!EncodeBig
  <2>6. 2^(4 * k) \in Nat
    BY <2>4, SixteenIs
  <2>7. n <= 2^(4 * k) - 1
    BY <2>3, <2>4, <2>6
  <2>8. Text!checkNumber(s) = Text!Ok(t)
    BY <2>3, <2>4, <2>7, EncodedRead
  <2>9. ~(k <= BigDigits)
    <3>1. k <= BigDigits => 2^(4 * k) <= 2^(4 * BigDigits)
      <4>1. 4 * k \in Nat /\ 4 * BigDigits \in Nat /\ (k <= BigDigits => 4 * k <= 4 * BigDigits)
        BY <2>1, <2>4
      <4> QED BY <4>1, PowersRise
    <3> DEFINE x == 2^(4 * k)
               y == 2^(4 * BigDigits)
    <3>2. x \in Nat /\ y \in Nat /\ n < x /\ y <= n /\ (k <= BigDigits => x <= y)
      BY <2>2, <2>4, <2>6, <3>1
    <3> HIDE DEF x, y
    <3> QED BY <2>3, <3>2
  <2> HIDE DEF s, t
  <2>10. Len(t) > BigDigits
    BY <2>1, <2>4, <2>9
  <2>11. Text!Ok(t).err = "none" /\ Text!Ok(t).value = t /\ Text!Err("big256 range").err = "big256 range"
    BY DEF Text!Ok, Text!Err
  <2> QED BY <2>5, <2>8, <2>10, <2>11 DEF Text!DecodeBig, Text!BigOf
<1> DEFINE Quoted(s) == <<Quote>> \o s \o <<Quote>>
<1>4. n \in 0..(2^(4 * UintDigits) - 1) =>
         /\ Text!DecodeUint64(Text!EncodeUint64(n)) = Text!Ok(n)
         /\ Text!UnmarshalJSON(Quoted(Text!EncodeUint64(n)), Text!UnmarshalUint64) = Text!Ok(n)
         /\ Text!UnmarshalJSON(Text!EncodeUint64(n), Text!UnmarshalUint64).err = "non-string"
         /\ Text!DecodeUint64(Text!EncodeUint64(n)) = Text!UnmarshalGraphQLUint64(n)
  BY <1>1, UintKept
<1> QED BY <1>2, <1>3, <1>4, Zenon DEF Text!NumberKept, Quote

-----------------------------------------------------------------------------
(* Bytes: pairs of digits, one pair for each.                              *)

Byte == 0..255

(* Two digits are a byte, and a byte is two digits.                        *)
LEMMA BytesOfDigits ==
  ASSUME NEW S, NEW raw \in Seq(S), Text!AllDigits(raw)
  PROVE  /\ Text!HexBytes(raw) \in Seq(Byte) /\ Len(Text!HexBytes(raw)) = Len(raw) \div 2
         /\ \A i \in 1..(Len(raw) \div 2) :
              /\ 2 * i - 1 \in 1..Len(raw) /\ 2 * i \in 1..Len(raw)
              /\ Text!HexBytes(raw)[i] = 16 * Text!decodeNibble(raw[2 * i - 1]) + Text!decodeNibble(raw[2 * i])
<1> DEFINE n == Len(raw)
           m == n \div 2
           b == Text!HexBytes(raw)
<1>1. n \in Nat /\ DOMAIN raw = 1..n
  BY NibblesAre
<1>2. \A k \in 1..n : Text!decodeNibble(raw[k]) \in 0..15
  BY <1>1, NibbleRange DEF Text!AllDigits, Text!badNibble
<1>3. b = [i \in 1..m |-> 16 * Text!decodeNibble(raw[2 * i - 1]) + Text!decodeNibble(raw[2 * i])]
  BY DEF Text!HexBytes
<1> HIDE DEF n, b
<1>4. m \in Nat /\ 2 * m <= n
  BY <1>1
<1> HIDE DEF m
<1>5. \A i \in 1..m : 2 * i - 1 \in 1..n /\ 2 * i \in 1..n
  BY <1>1, <1>4
<1>6. \A i \in 1..m : b[i] = 16 * Text!decodeNibble(raw[2 * i - 1]) + Text!decodeNibble(raw[2 * i])
  BY <1>3
<1>7. ASSUME NEW i \in 1..m PROVE b[i] \in Byte
  <2> DEFINE x == Text!decodeNibble(raw[2 * i - 1])
             y == Text!decodeNibble(raw[2 * i])
  <2>1. x \in 0..15 /\ y \in 0..15 /\ b[i] = 16 * x + y
    BY <1>2, <1>5, <1>6
  <2> HIDE DEF x, y
  <2> QED BY <2>1 DEF Byte
<1>8. b \in Seq(Byte) /\ Len(b) = m
  <2>1. b \in [1..m -> Byte]
    <3>1. b = [i \in 1..m |-> b[i]]
      BY <1>3
    <3> QED BY <1>7, <3>1
  <2> QED BY <1>4, <2>1, IsASeq
<1> QED BY <1>5, <1>6, <1>8 DEF n, m, b

Paired(b) == [i \in 1..(2 * Len(b)) |-> Text!LowerHex[Text!Nibble(b, i) + 1]]

LEMMA Halves ==
  ASSUME NEW b \in Seq(Byte)
  PROVE  /\ \A i \in 1..(2 * Len(b)) : Text!Nibble(b, i) \in 0..15
         /\ \A i \in 1..Len(b) :
              /\ 2 * i - 1 \in 1..(2 * Len(b)) /\ 2 * i \in 1..(2 * Len(b))
              /\ b[i] = 16 * Text!Nibble(b, 2 * i - 1) + Text!Nibble(b, 2 * i)
<1> DEFINE n == Len(b)
<1>1. n \in Nat /\ \A i \in 1..n : b[i] \in 0..255
  BY LenProperties, ElementOfSeq DEF Byte
<1> HIDE DEF n
<1>2. ASSUME NEW i \in 1..n
      PROVE  /\ 2 * i - 1 \in 1..(2 * n) /\ 2 * i \in 1..(2 * n)
             /\ Text!Nibble(b, 2 * i - 1) = b[i] \div 16 /\ Text!Nibble(b, 2 * i) = b[i] % 16
  <2>1. 2 * i - 1 \in 1..(2 * n) /\ 2 * i \in 1..(2 * n)
    BY <1>1
  <2>2. (2 * i - 1) % 2 = 1 /\ ((2 * i - 1) + 1) \div 2 = i
    BY <1>1
  <2>3. (2 * i) % 2 # 1 /\ (2 * i) \div 2 = i
    BY <1>1
  <2> QED BY <2>1, <2>2, <2>3 DEF Text!Nibble
<1>3. \A x \in 0..255 : x \div 16 \in 0..15 /\ x % 16 \in 0..15 /\ x = 16 * (x \div 16) + (x % 16)
  <2> SUFFICES ASSUME NEW x \in 0..255 PROVE x \div 16 \in 0..15 /\ x % 16 \in 0..15 /\ x = 16 * (x \div 16) + (x % 16)
    OBVIOUS
  <2>1. x \in Int /\ x \div 16 \in Int /\ x % 16 \in 0..15
    OBVIOUS
  <2>2. x = 16 * (x \div 16) + (x % 16)
    OBVIOUS
  <2> QED BY <2>1, <2>2
<1>4. ASSUME NEW i \in 1..(2 * n) PROVE Text!Nibble(b, i) \in 0..15
  <2>1. CASE i % 2 = 1
    <3>1. (i + 1) \div 2 \in 1..n
      BY <1>1, <2>1
    <3>2. Text!Nibble(b, i) = b[(i + 1) \div 2] \div 16
      BY <2>1 DEF Text!Nibble
    <3> QED BY <1>1, <1>3, <3>1, <3>2
  <2>2. CASE i % 2 # 1
    <3>1. i \div 2 \in 1..n
      BY <1>1, <2>2
    <3>2. Text!Nibble(b, i) = b[i \div 2] % 16
      BY <2>2 DEF Text!Nibble
    <3> QED BY <1>1, <1>3, <3>1, <3>2
  <2> QED BY <2>1, <2>2
<1>5. ASSUME NEW i \in 1..n PROVE b[i] = 16 * Text!Nibble(b, 2 * i - 1) + Text!Nibble(b, 2 * i)
  <2>1. b[i] \in 0..255
    BY <1>1
  <2> QED BY <1>2, <1>3, <2>1
<1> QED BY <1>2, <1>4, <1>5 DEF n

LEMMA PairedIs ==
  ASSUME NEW b \in Seq(Byte)
  PROVE  LET u == Paired(b)
         IN /\ u \in Seq(Chars) /\ Len(u) = 2 * Len(b) /\ Text!AllDigits(u) /\ Text!HexBytes(u) = b
            /\ \A i \in 1..(2 * Len(b)) : u[i] = Text!LowerHex[Text!Nibble(b, i) + 1] /\ Text!decodeNibble(u[i]) = Text!Nibble(b, i)
<1> DEFINE n == Len(b)
           u == Paired(b)
<1>1. n \in Nat
  BY LenProperties
<1>2. \A i \in 1..(2 * n) : Text!Nibble(b, i) \in 0..15
  BY Halves
<1>3. \A i \in 1..n : 2 * i - 1 \in 1..(2 * n) /\ 2 * i \in 1..(2 * n) /\ b[i] = 16 * Text!Nibble(b, 2 * i - 1) + Text!Nibble(b, 2 * i)
  BY Halves
<1>4. u = [i \in 1..(2 * n) |-> Text!LowerHex[Text!Nibble(b, i) + 1]]
  BY DEF Paired
<1> HIDE DEF n, u
<1>5. \A i \in 1..(2 * n) : u[i] = Text!LowerHex[Text!Nibble(b, i) + 1] /\ u[i] \in Chars /\ Text!decodeNibble(u[i]) = Text!Nibble(b, i)
  <2> SUFFICES ASSUME NEW i \in 1..(2 * n)
               PROVE  u[i] = Text!LowerHex[Text!Nibble(b, i) + 1] /\ u[i] \in Chars /\ Text!decodeNibble(u[i]) = Text!Nibble(b, i)
    OBVIOUS
  <2> DEFINE k == Text!Nibble(b, i) + 1
  <2>1. k \in 1..16 /\ k - 1 = Text!Nibble(b, i)
    BY <1>2
  <2>2. u[i] = Text!LowerHex[k]
    BY <1>4
  <2> HIDE DEF k
  <2>3. u[i] \in Chars /\ Text!decodeNibble(u[i]) = k - 1
    BY <2>1, <2>2, HexLetters, NibbleOf
  <2> QED BY <2>1, <2>2, <2>3 DEF k
<1>6. u \in Seq(Chars) /\ Len(u) = 2 * n
  <2>1. u \in [1..(2 * n) -> Chars]
    <3>1. u = [i \in 1..(2 * n) |-> u[i]]
      BY <1>4
    <3> QED BY <1>5, <3>1
  <2>2. 2 * n \in Nat
    BY <1>1
  <2> QED BY <2>1, <2>2, IsASeq
<1>7. Text!AllDigits(u)
  <2>1. DOMAIN u = 1..(2 * n)
    BY <1>4
  <2> QED BY <1>2, <1>5, <2>1 DEF Text!AllDigits, Text!badNibble
<1>8. Text!HexBytes(u) = b
  <2> DEFINE c == Text!HexBytes(u)
  <2>1. Len(u) \div 2 = n
    BY <1>1, <1>6
  <2>2. c \in Seq(Byte) /\ Len(c) = n /\ \A i \in 1..n : c[i] = 16 * Text!decodeNibble(u[2 * i - 1]) + Text!decodeNibble(u[2 * i])
    BY <1>6, <1>7, <2>1, BytesOfDigits
  <2> HIDE DEF c
  <2>3. \A i \in 1..n : c[i] = b[i]
    BY <1>3, <1>5, <2>2
  <2>4. c = b
    BY <2>2, <2>3, SeqEqual DEF n
  <2> QED BY <2>4 DEF c
<1> QED BY <1>5, <1>6, <1>7, <1>8 DEF u, n

(* What is written of bytes is read as them.                               *)
LEMMA EncodeIs ==
  ASSUME NEW b \in Seq(Byte)
  PROVE  LET s == Text!Encode(b)
         IN /\ s \in Seq(Chars) /\ s # <<>> /\ Len(s) = 2 * Len(b) + 2 /\ s[1] = "0" /\ s[2] = "x"
            /\ \A k \in 1..(2 * Len(b)) : s[k + 2] = Paired(b)[k]
            /\ Text!has0xPrefix(s) /\ Text!Drop(s, 2) = Paired(b)
            /\ Text!Decode(s) = Text!Ok(b)
<1> DEFINE s == Text!Encode(b)
           u == Paired(b)
<1>1. s = <<"0", "x">> \o u
  BY DEF Text!Encode, Paired
<1>2. u \in Seq(Chars) /\ Len(u) = 2 * Len(b) /\ Text!AllDigits(u) /\ Text!HexBytes(u) = b
  BY PairedIs
<1> HIDE DEF s, u
<1>3. /\ s \in Seq(Chars) /\ s # <<>> /\ Len(s) = Len(u) + 2 /\ s[1] = "0" /\ s[2] = "x"
      /\ \A k \in 1..Len(u) : s[k + 2] = u[k]
      /\ Text!has0xPrefix(s) /\ Text!Drop(s, 2) = u
  BY <1>1, <1>2, Prefixed
<1>4. Len(u) % 2 # 1
  <2>1. Len(b) \in Nat
    BY LenProperties
  <2> QED BY <1>2, <2>1
<1>5. Text!Decode(s) = Text!Ok(b)
  BY <1>2, <1>3, <1>4 DEF Text!Decode, Text!HexDecode
<1> QED BY <1>2, <1>3, <1>5 DEF s, u

Raw(s) == IF Text!has0xPrefix(s) THEN Text!Drop(s, 2) ELSE s
Pairs(s) == Text!AllDigits(Raw(s)) /\ Len(Raw(s)) % 2 = 0

LEMMA RawIs ==
  ASSUME NEW S, NEW s \in Seq(S)
  PROVE  /\ Raw(s) \in Seq(S) /\ Len(Raw(s)) \in Nat
         /\ Text!has0xPrefix(s) => s # <<>> /\ 2 <= Len(s) /\ Raw(s) = Text!Drop(s, 2)
         /\ ~Text!has0xPrefix(s) => Raw(s) = s
<1>1. Text!has0xPrefix(s) => 2 <= Len(s) /\ s # <<>>
  <2>1. Len(s) \in Nat /\ (s = <<>> => Len(s) = 0)
    BY LenProperties, EmptySeq
  <2> QED BY <2>1 DEF Text!has0xPrefix
<1>2. Raw(s) \in Seq(S)
  BY <1>1, Dropped DEF Raw
<1> QED BY <1>1, <1>2, LenProperties DEF Raw

LEMMA HexDecoded ==
  ASSUME NEW S, NEW raw \in Seq(S)
  PROVE  LET pairs == Text!AllDigits(raw) /\ Len(raw) % 2 = 0
         IN /\ pairs => Text!HexDecode(raw) = Text!Ok(Text!HexBytes(raw)) /\ Text!HexDecode(raw).err = "none"
            /\ ~pairs => Text!HexDecode(raw).err # "none"
            /\ Text!AllDigits(raw) => (Len(raw) % 2 = 1 <=> ~pairs)
<1>1. Len(raw) % 2 = 1 <=> Len(raw) % 2 # 0
  BY LenProperties
<1>2. CASE ~Text!AllDigits(raw)
  BY <1>2 DEF Text!HexDecode, Text!Err
<1>3. CASE Text!AllDigits(raw) /\ Len(raw) % 2 = 1
  BY <1>1, <1>3 DEF Text!HexDecode, Text!Err
<1>4. CASE Text!AllDigits(raw) /\ Len(raw) % 2 # 1
  BY <1>1, <1>4 DEF Text!HexDecode, Text!Ok
<1> QED BY <1>2, <1>3, <1>4

LEMMA DecodeIs ==
  ASSUME NEW S, NEW s \in Seq(S)
  PROVE  /\ Text!Decode(s).err = "none" <=> Text!has0xPrefix(s) /\ Pairs(s)
         /\ Text!Decode(s).err = "none" => Text!Decode(s) = Text!Ok(Text!HexBytes(Raw(s))) /\ Text!HexBytes(Raw(s)) \in Seq(Byte)
<1>1. CASE ~Text!has0xPrefix(s)
  BY <1>1 DEF Text!Decode, Text!Err
<1>2. CASE Text!has0xPrefix(s)
  <2>1. Text!Decode(s) = Text!HexDecode(Raw(s)) /\ Raw(s) \in Seq(S)
    BY <1>2, RawIs DEF Text!Decode
  <2>2. /\ Pairs(s) => Text!HexDecode(Raw(s)) = Text!Ok(Text!HexBytes(Raw(s))) /\ Text!HexDecode(Raw(s)).err = "none"
        /\ ~Pairs(s) => Text!HexDecode(Raw(s)).err # "none"
    BY <2>1, HexDecoded DEF Pairs
  <2>3. Pairs(s) => Text!HexBytes(Raw(s)) \in Seq(Byte)
    BY <2>1, BytesOfDigits DEF Pairs
  <2> QED BY <1>2, <2>1, <2>2, <2>3
<1> QED BY <1>1, <1>2

LEMMA CheckedText ==
  ASSUME NEW S, NEW s \in Seq(S), NEW wantPrefix \in BOOLEAN
  PROVE  LET c == Text!checkText(s, wantPrefix)
             good == (s = <<>> \/ Text!has0xPrefix(s) \/ ~wantPrefix) /\ Len(Raw(s)) % 2 = 0
         IN /\ good => c = Text!Ok(Raw(s)) /\ c.err = "none" /\ c.value = Raw(s)
            /\ ~good => c.err # "none"
<1>1. Raw(s) \in Seq(S) /\ Len(Raw(s)) \in Nat /\ (Text!has0xPrefix(s) => s # <<>>)
  BY RawIs
<1>2. Len(Raw(s)) % 2 = 1 <=> Len(Raw(s)) % 2 # 0
  BY <1>1
<1>3. CASE s = <<>>
  <2>1. Raw(s) = <<>> /\ Len(Raw(s)) = 0
    BY <1>1, <1>3 DEF Raw
  <2>2. Text!checkText(s, wantPrefix) = Text!Ok(<<>>)
    BY <1>3 DEF Text!checkText
  <2>3. Len(Raw(s)) % 2 = 0
    BY <2>1
  <2> QED BY <1>3, <2>1, <2>2, <2>3 DEF Text!Ok
<1>4. CASE s # <<>>
  <2>1. Text!checkText(s, wantPrefix) =
          IF ~Text!has0xPrefix(s) /\ wantPrefix THEN Text!Err("missing prefix")
          ELSE IF Len(Raw(s)) % 2 = 1 THEN Text!Err("odd length")
          ELSE Text!Ok(Raw(s))
    BY <1>4 DEF Text!checkText, Raw
  <2>2. Text!Err("missing prefix").err # "none" /\ Text!Err("odd length").err # "none"
    BY DEF Text!Err
  <2>3. Text!Ok(Raw(s)).err = "none" /\ Text!Ok(Raw(s)).value = Raw(s)
    BY DEF Text!Ok
  <2> QED BY <1>2, <1>4, <2>1, <2>2, <2>3
<1> QED BY <1>3, <1>4

(* A text for an array is taken when it has the length.                    *)
LEMMA FixedIs ==
  ASSUME NEW S, NEW s \in Seq(S), NEW size \in Nat, NEW wantPrefix \in BOOLEAN
  PROVE  LET f == Text!UnmarshalFixed(s, size, wantPrefix)
             good == (s = <<>> \/ Text!has0xPrefix(s) \/ ~wantPrefix) /\ Pairs(s) /\ Len(Raw(s)) \div 2 = size
         IN /\ good => f = Text!Ok(Text!HexBytes(Raw(s))) /\ f.err = "none" /\ Text!HexBytes(Raw(s)) \in Seq(Byte)
                       /\ Len(Text!HexBytes(Raw(s))) = size
            /\ ~good => f.err # "none"
<1> DEFINE f == Text!UnmarshalFixed(s, size, wantPrefix)
           c == Text!checkText(s, wantPrefix)
           even == (s = <<>> \/ Text!has0xPrefix(s) \/ ~wantPrefix) /\ Len(Raw(s)) % 2 = 0
<1>1. Raw(s) \in Seq(S)
  BY RawIs
<1>2. f = IF c.err # "none" THEN c
          ELSE IF Len(c.value) \div 2 # size THEN Text!Err("length")
          ELSE Text!HexDecode(c.value)
  BY DEF Text!UnmarshalFixed
<1>3. (even => c.err = "none" /\ c.value = Raw(s)) /\ (~even => c.err # "none")
  BY CheckedText
<1>4. /\ Pairs(s) => Text!HexDecode(Raw(s)) = Text!Ok(Text!HexBytes(Raw(s))) /\ Text!HexDecode(Raw(s)).err = "none"
      /\ ~Pairs(s) => Text!HexDecode(Raw(s)).err # "none"
  BY <1>1, HexDecoded DEF Pairs
<1>5. Text!Err("length").err # "none"
  BY DEF Text!Err
<1>6. Pairs(s) => Text!HexBytes(Raw(s)) \in Seq(Byte) /\ Len(Text!HexBytes(Raw(s))) = Len(Raw(s)) \div 2
  BY <1>1, BytesOfDigits DEF Pairs
<1> HIDE DEF f, c
<1>7. CASE ~even
  BY <1>2, <1>3, <1>7 DEF Pairs, f
<1>8. CASE even /\ Len(Raw(s)) \div 2 # size
  BY <1>2, <1>3, <1>5, <1>8 DEF f
<1>9. CASE even /\ Len(Raw(s)) \div 2 = size
  <2>1. f = Text!HexDecode(Raw(s))
    BY <1>2, <1>3, <1>9
  <2> QED BY <1>4, <1>6, <1>9, <2>1 DEF f
<1> QED BY <1>7, <1>8, <1>9

LEMMA UnmarshalBytesIs ==
  ASSUME NEW S, NEW s \in Seq(S)
  PROVE  /\ Text!UnmarshalBytes(s).err = "none" <=> s = <<>> \/ Text!Decode(s).err = "none"
         /\ Text!Decode(s).err = "none" => Text!UnmarshalBytes(s) = Text!Decode(s)
         /\ Text!UnmarshalFixed(s, Len(Raw(s)) \div 2, TRUE) = Text!UnmarshalBytes(s)
<1> DEFINE c == Text!checkText(s, TRUE)
           even == (s = <<>> \/ Text!has0xPrefix(s)) /\ Len(Raw(s)) % 2 = 0
<1>1. Raw(s) \in Seq(S) /\ (Text!has0xPrefix(s) => s # <<>> /\ Raw(s) = Text!Drop(s, 2))
  BY RawIs
<1>2. Text!UnmarshalBytes(s) = IF c.err # "none" THEN c ELSE Text!HexDecode(c.value)
  BY DEF Text!UnmarshalBytes
<1>3. (even => c.err = "none" /\ c.value = Raw(s)) /\ (~even => c.err # "none")
  BY CheckedText
<1>4. Text!UnmarshalFixed(s, Len(Raw(s)) \div 2, TRUE) =
        IF c.err # "none" THEN c
        ELSE IF Len(c.value) \div 2 # Len(Raw(s)) \div 2 THEN Text!Err("length")
        ELSE Text!HexDecode(c.value)
  BY DEF Text!UnmarshalFixed
<1>5. Text!UnmarshalFixed(s, Len(Raw(s)) \div 2, TRUE) = Text!UnmarshalBytes(s)
  BY <1>2, <1>3, <1>4
<1>6. /\ Pairs(s) => Text!HexDecode(Raw(s)) = Text!Ok(Text!HexBytes(Raw(s))) /\ Text!HexDecode(Raw(s)).err = "none"
      /\ ~Pairs(s) => Text!HexDecode(Raw(s)).err # "none"
  BY <1>1, HexDecoded DEF Pairs
<1>7. s = <<>> => Pairs(s)
  <2> SUFFICES ASSUME s = <<>> PROVE Pairs(s)
    OBVIOUS
  <2>1. Raw(s) = <<>> /\ Len(Raw(s)) = 0
    BY <1>1 DEF Raw
  <2>2. Len(Raw(s)) % 2 = 0
    BY <2>1
  <2> QED BY <2>1, <2>2, EmptyValue DEF Pairs
<1>8. Text!UnmarshalBytes(s).err = "none" <=> (s = <<>> \/ Text!has0xPrefix(s)) /\ Pairs(s)
  BY <1>2, <1>3, <1>6 DEF Pairs
<1>9. Text!Decode(s).err = "none" <=> Text!has0xPrefix(s) /\ Pairs(s)
  BY DecodeIs
<1>10. Text!Decode(s).err = "none" => Text!UnmarshalBytes(s) = Text!Decode(s)
  <2> SUFFICES ASSUME Text!Decode(s).err = "none" PROVE Text!UnmarshalBytes(s) = Text!Decode(s)
    OBVIOUS
  <2>1. Text!UnmarshalBytes(s) = Text!HexDecode(Raw(s))
    BY <1>2, <1>3, <1>9 DEF Pairs
  <2>2. Text!Decode(s) = Text!Ok(Text!HexBytes(Raw(s)))
    BY DecodeIs
  <2> QED BY <1>6, <1>9, <2>1, <2>2
<1> QED BY <1>5, <1>7, <1>8, <1>9, <1>10

(* The decoders of bytes accept the same texts, and what they read is      *)
(* written as a text that they read as the same.                           *)
LEMMA BytesAreAgreed ==
  ASSUME NEW S, NEW s \in Seq(S)
  PROVE  Text!BytesAgree(s)
<1> DEFINE F(wantPrefix) == Text!UnmarshalFixed(s, Len(Raw(s)) \div 2, wantPrefix)
<1>1. Text!Decode(s).err = "none" <=> Text!has0xPrefix(s) /\ Pairs(s)
  BY DecodeIs
<1>2. Text!UnmarshalBytes(s).err = "none" <=> s = <<>> \/ Text!Decode(s).err = "none"
  BY UnmarshalBytesIs
<1>3. Text!Decode(s).err = "none" => Text!UnmarshalBytes(s) = Text!Decode(s)
  BY UnmarshalBytesIs
<1>4. ASSUME NEW b \in Seq(Byte) PROVE Text!Decode(Text!Encode(Text!Ok(b).value)) = Text!Ok(b)
  <2>1. Text!Ok(b).value = b
    BY DEF Text!Ok
  <2>2. Text!Decode(Text!Encode(b)) = Text!Ok(b)
    BY EncodeIs
  <2> QED BY <2>1, <2>2
<1>5. Text!Decode(s).err = "none" => Text!Decode(Text!Encode(Text!Decode(s).value)) = Text!Decode(s)
  <2>1. Text!Decode(s).err = "none" => Text!Decode(s) = Text!Ok(Text!HexBytes(Raw(s))) /\ Text!HexBytes(Raw(s)) \in Seq(Byte)
    BY DecodeIs
  <2> QED BY <1>4, <2>1
<1>6. F(TRUE) = Text!UnmarshalBytes(s)
  BY UnmarshalBytesIs
<1>7. /\ Pairs(s) => F(FALSE) = Text!Ok(Text!HexBytes(Raw(s))) /\ F(FALSE).err = "none" /\ Text!HexBytes(Raw(s)) \in Seq(Byte)
      /\ ~Pairs(s) => F(FALSE).err # "none"
  <2> DEFINE size == Len(Raw(s)) \div 2
  <2>1. size \in Nat
    BY RawIs
  <2> HIDE DEF size
  <2>2. LET f == Text!UnmarshalFixed(s, size, FALSE)
            good == Pairs(s) /\ Len(Raw(s)) \div 2 = size
        IN /\ good => f = Text!Ok(Text!HexBytes(Raw(s))) /\ f.err = "none" /\ Text!HexBytes(Raw(s)) \in Seq(Byte)
           /\ ~good => f.err # "none"
    BY <2>1, FixedIs
  <2> QED BY <2>2 DEF size
<1>8. F(FALSE).err = "none" => Text!Decode(Text!Encode(F(FALSE).value)) = F(FALSE)
  BY <1>4, <1>7
<1> QED BY <1>1, <1>2, <1>3, <1>5, <1>6, <1>7, <1>8 DEF Text!BytesAgree, Raw, Pairs

-----------------------------------------------------------------------------
(* Hashes, and what the lenient readers make of a text.                    *)

LEMMA LengthIs == Length \in Nat /\ Length >= 1
BY TextsAssumption

LEMMA RightmostIs ==
  ASSUME NEW S, NEW b \in Seq(S), NEW n \in Nat, n <= Len(b)
  PROVE  /\ Text!Rightmost(b, n) \in Seq(S) /\ Len(Text!Rightmost(b, n)) = n
         /\ n = Len(b) => Text!Rightmost(b, n) = b
<1> DEFINE l == Len(b)
<1>1. l \in Nat
  BY LenProperties
<1>2. Text!Rightmost(b, n) = SubSeq(b, l - n + 1, l)
  BY DEF Text!Rightmost
<1>3. \A i \in (l - n + 1)..l : b[i] \in S
  <2>1. \A i \in (l - n + 1)..l : i \in 1..l
    BY <1>1
  <2> QED BY <2>1, ElementOfSeq
<1>4. l = n => l - n + 1 = 1
  BY <1>1
<1>5. SubSeq(b, 1, l) = b
  BY SubSeqFull
<1>6. n <= l
  OBVIOUS
<1> HIDE DEF l
<1>7. /\ SubSeq(b, l - n + 1, l) \in Seq(S)
      /\ Len(SubSeq(b, l - n + 1, l)) = IF l - n + 1 <= l THEN l - (l - n + 1) + 1 ELSE 0
  <2> DEFINE m == l - n + 1
  <2>1. m \in Int /\ l \in Int /\ \A i \in m..l : b[i] \in S
    BY <1>1, <1>3
  <2> HIDE DEF m
  <2>2. SubSeq(b, m, l) \in Seq(S) /\ Len(SubSeq(b, m, l)) = IF m <= l THEN l - m + 1 ELSE 0
    BY <2>1, SubSeqProperties
  <2> QED BY <2>2 DEF m
<1>8. (IF l - n + 1 <= l THEN l - (l - n + 1) + 1 ELSE 0) = n
  BY <1>1, <1>6
<1> QED BY <1>2, <1>4, <1>5, <1>7, <1>8 DEF l

LEMMA ZerosAre ==
  ASSUME NEW n \in Nat, NEW S, 0 \in S
  PROVE  Text!Zeros(n) \in Seq(S) /\ Len(Text!Zeros(n)) = n /\ \A i \in 1..n : Text!Zeros(n)[i] = 0
<1>1. Text!Zeros(n) = [i \in 1..n |-> 0]
  BY DEF Text!Zeros
<1> QED BY <1>1, IsASeq

(* What is made into a hash has the length of one.                         *)
LEMMA HashOfBytes ==
  ASSUME NEW S, 0 \in S, NEW b \in Seq(S)
  PROVE  LET h == Text!BytesToHash(b)
         IN h \in Seq(S) /\ Len(h) = Length /\ (Len(b) = Length => h = b)
<1> DEFINE h == Text!BytesToHash(b)
           z == Text!Zeros(Length)
           k == Length - Len(b)
<1>1. z \in Seq(S) /\ Len(z) = Length /\ Length \in Nat /\ Len(b) \in Nat
  BY ZerosAre, LengthIs, LenProperties
<1>2. h = IF Len(b) >= Length THEN Text!Rightmost(b, Length) ELSE SubSeq(z, 1, k) \o b
  BY DEF Text!BytesToHash, Text!SetBytes
<1> HIDE DEF h, z
<1>3. CASE Len(b) >= Length
  <2>1. Length <= Len(b)
    BY <1>1, <1>3
  <2>2. Text!Rightmost(b, Length) \in Seq(S) /\ Len(Text!Rightmost(b, Length)) = Length /\ (Length = Len(b) => Text!Rightmost(b, Length) = b)
    BY <1>1, <2>1, RightmostIs
  <2> QED BY <1>2, <1>3, <2>2 DEF h
<1>4. CASE ~(Len(b) >= Length)
  <2>1. k \in 1..Length
    BY <1>1, <1>4
  <2>2. SubSeq(z, 1, k) \in Seq(S) /\ Len(SubSeq(z, 1, k)) = k
    <3> HIDE DEF k
    <3>1. \A i \in 1..k : z[i] \in S
      <4>1. \A i \in 1..k : i \in 1..Len(z)
        BY <1>1, <2>1
      <4> QED BY <1>1, <4>1, ElementOfSeq
    <3>2. 1 \in Int /\ k \in Int /\ 1 <= k /\ k - 1 + 1 = k
      BY <1>1, <2>1
    <3>3. SubSeq(z, 1, k) \in Seq(S) /\ Len(SubSeq(z, 1, k)) = IF 1 <= k THEN k - 1 + 1 ELSE 0
      BY <3>1, <3>2, SubSeqProperties
    <3> QED BY <3>2, <3>3
  <2>3. SubSeq(z, 1, k) \o b \in Seq(S) /\ Len(SubSeq(z, 1, k) \o b) = k + Len(b)
    <3> HIDE DEF k
    <3> QED BY <2>2, ConcatProperties
  <2>4. k + Len(b) = Length /\ Len(b) # Length
    BY <1>1, <1>4
  <2> QED BY <1>2, <1>4, <2>3, <2>4 DEF h
<1> QED BY <1>3, <1>4

(* The bytes before the first pair that is none; all if there is none.     *)
LEMMA LenientBytes ==
  ASSUME NEW S, NEW raw \in Seq(S)
  PROVE  /\ Text!Hex2Bytes(raw) \in Seq(Byte)
         /\ Text!AllDigits(raw) /\ Len(raw) % 2 = 0 => Text!Hex2Bytes(raw) = Text!HexBytes(raw)
<1> DEFINE n == Len(raw)
           half == n \div 2
           good == {k \in 0..half : Text!AllDigits(SubSeq(raw, 1, 2 * k))}
           Best(k) == \A j \in good : j <= k
           m == CHOOSE k \in good : Best(k)
<1>1. n \in Nat /\ half \in Nat /\ 2 * half <= n /\ (n % 2 = 0 => 2 * half = n)
  <2>1. n \in Nat
    BY LenProperties
  <2> HIDE DEF n
  <2> QED BY <2>1
<1>2. Text!Hex2Bytes(raw) = Text!HexBytes(SubSeq(raw, 1, 2 * m))
  BY DEF Text!Hex2Bytes
<1>3. 0 \in good
  <2>1. SubSeq(raw, 1, 2 * 0) = <<>>
    BY SubSeqEmpty
  <2>2. 0 \in 0..half
    BY <1>1
  <2> QED BY <2>1, <2>2, EmptyValue
<1>4. \E k \in good : Best(k)
  <2> DEFINE G == {half - k : k \in good}
  <2>1. \A k \in good : k \in 0..half
    OBVIOUS
  <2> HIDE DEF good
  <2>2. G \in SUBSET Nat /\ G # {}
    BY <1>1, <1>3, <2>1
  <2>3. PICK x \in G : \A y \in G : x <= y
    <3> HIDE DEF G
    <3> QED BY <2>2, LeastExists
  <2>4. PICK k \in good : x = half - k
    OBVIOUS
  <2>5. \A j \in good : j <= k
    <3> SUFFICES ASSUME NEW j \in good PROVE j <= k
      OBVIOUS
    <3>1. half - j \in G
      OBVIOUS
    <3>2. half - k <= half - j
      BY <2>3, <2>4, <3>1
    <3> QED BY <1>1, <2>1, <3>2
  <2> QED BY <2>5
<1>5. m \in good /\ Best(m)
  <2> HIDE DEF good, Best
  <2> QED BY <1>4
<1> HIDE DEF m
<1>6. m \in 0..half /\ Text!AllDigits(SubSeq(raw, 1, 2 * m))
  BY <1>5
<1>7. SubSeq(raw, 1, 2 * m) \in Seq(S)
  <2>1. \A i \in 1..(2 * m) : raw[i] \in S
    <3>1. \A i \in 1..(2 * m) : i \in 1..n
      BY <1>1, <1>6
    <3> QED BY <3>1, ElementOfSeq
  <2>2. 1 \in Int /\ 2 * m \in Int
    BY <1>1, <1>6
  <2> QED BY <2>1, <2>2, SubSeqProperties
<1>8. Text!Hex2Bytes(raw) \in Seq(Byte)
  BY <1>2, <1>6, <1>7, BytesOfDigits
<1>9. ASSUME Text!AllDigits(raw), n % 2 = 0 PROVE Text!Hex2Bytes(raw) = Text!HexBytes(raw)
  <2>1. SubSeq(raw, 1, n) = raw
    BY SubSeqFull
  <2>2. 2 * half = n /\ half \in 0..half
    BY <1>1, <1>9
  <2>3. half \in good
    BY <1>9, <2>1, <2>2
  <2>4. half <= m
    BY <1>5, <2>3
  <2>5. m = half
    <3> HIDE DEF half, n
    <3> QED BY <1>1, <1>6, <2>4
  <2>6. 2 * m = n
    BY <2>2, <2>5
  <2> HIDE DEF half, n
  <2> QED BY <1>2, <2>1, <2>6
<1> QED BY <1>8, <1>9 DEF n

(* The texts of hashes, and what the readers make of them.                 *)
Full(s) == Pairs(s) /\ Len(Raw(s)) \div 2 = Length

LEMMA FullIs ==
  ASSUME NEW S, NEW s \in Seq(S)
  PROVE  /\ Full(s) <=> Text!IsHexAddress(s)
         /\ Full(s) => s # <<>> /\ Len(Raw(s)) = 2 * Length
<1>1. Length \in Nat /\ Length >= 1 /\ Len(Raw(s)) \in Nat
  BY LengthIs, RawIs
<1>2. Len(Raw(s)) % 2 = 0 /\ Len(Raw(s)) \div 2 = Length <=> Len(Raw(s)) = 2 * Length
  BY <1>1
<1>3. Full(s) <=> Text!IsHexAddress(s)
  BY <1>2 DEF Full, Pairs, Text!IsHexAddress, Raw
<1>4. s = <<>> => Len(Raw(s)) = 0
  <2>1. s = <<>> => ~Text!has0xPrefix(s)
    BY RawIs
  <2> QED BY <2>1, RawIs, EmptySeq
<1> QED BY <1>1, <1>2, <1>3, <1>4 DEF Full, Pairs

(* A full text is read as its bytes, with or without the prefix.           *)
LEMMA FullRead ==
  ASSUME NEW s \in Seq(Chars), Full(s)
  PROVE  LET b == Text!HexBytes(Raw(s))
         IN /\ b \in Seq(Byte) /\ Len(b) = Length
            /\ Text!UnmarshalUnprefixed(s) = Text!Ok(b)
            /\ Text!has0xPrefix(s) => Text!UnmarshalText(s) = Text!Ok(b)
            /\ Text!FromHex(s) = b /\ Text!HexToHash(s) = b
<1> DEFINE b == Text!HexBytes(Raw(s))
<1>1. Raw(s) \in Seq(Chars) /\ Len(Raw(s)) \in Nat /\ Text!AllDigits(Raw(s)) /\ Len(Raw(s)) % 2 = 0
  BY RawIs DEF Full, Pairs
<1>2. b \in Seq(Byte) /\ Len(b) = Length /\ Text!UnmarshalFixed(s, Length, FALSE) = Text!Ok(b)
  BY LengthIs, FixedIs DEF Full
<1>3. Text!has0xPrefix(s) => Text!UnmarshalFixed(s, Length, TRUE) = Text!Ok(b)
  BY LengthIs, FixedIs DEF Full
<1>4. Text!FromHex(s) = b
  <2>1. Len(Raw(s)) % 2 # 1
    BY <1>1
  <2>2. Text!FromHex(s) = Text!Hex2Bytes(Raw(s))
    BY <2>1 DEF Text!FromHex, Raw
  <2> QED BY <1>1, <2>2, LenientBytes
<1>5. Text!HexToHash(s) = b
  <2>1. 0 \in Byte
    BY DEF Byte
  <2> QED BY <1>2, <1>4, <2>1, HashOfBytes DEF Text!HexToHash
<1> QED BY <1>2, <1>3, <1>4, <1>5 DEF Text!UnmarshalUnprefixed, Text!UnmarshalText

(* Any other text is refused.                                              *)
LEMMA NotFull ==
  ASSUME NEW s \in Seq(Chars)
  PROVE  /\ ~Full(s) => Text!UnmarshalUnprefixed(s).err # "none" /\ Text!UnmarshalText(s).err # "none"
         /\ Full(s) => Text!UnmarshalUnprefixed(s).err = "none"
         /\ ~Text!has0xPrefix(s) => Text!UnmarshalText(s).err # "none"
         /\ Full(s) /\ Text!has0xPrefix(s) => Text!UnmarshalText(s).err = "none"
<1>1. Length \in Nat
  BY LengthIs
<1>2. LET f == Text!UnmarshalFixed(s, Length, FALSE)
      IN (Full(s) => f.err = "none") /\ (~Full(s) => f.err # "none")
  BY <1>1, FixedIs DEF Full
<1>3. LET f == Text!UnmarshalFixed(s, Length, TRUE)
          good == (s = <<>> \/ Text!has0xPrefix(s)) /\ Full(s)
      IN (good => f.err = "none") /\ (~good => f.err # "none")
  <2> DEFINE w == TRUE
             f == Text!UnmarshalFixed(s, Length, w)
             good == (s = <<>> \/ Text!has0xPrefix(s) \/ ~w) /\ Full(s)
  <2>1. w \in BOOLEAN /\ (~w <=> FALSE)
    OBVIOUS
  <2> HIDE DEF w
  <2>2. (good => f.err = "none") /\ (~good => f.err # "none")
    BY <1>1, <2>1, FixedIs DEF Full
  <2> QED BY <2>1, <2>2 DEF w
<1>4. Full(s) => s # <<>>
  BY FullIs
<1> QED BY <1>2, <1>3, <1>4 DEF Text!UnmarshalUnprefixed, Text!UnmarshalText

LEMMA HashLength ==
  ASSUME NEW s \in Seq(Chars)
  PROVE  Len(Text!HexToHash(s)) = Length
<1> DEFINE raw == IF Len(Raw(s)) % 2 = 1 THEN <<"0">> \o Raw(s) ELSE Raw(s)
<1>1. Raw(s) \in Seq(Chars)
  BY RawIs
<1>2. <<"0">> \in Seq(Chars)
  BY HexLetters
<1>3. raw \in Seq(Chars)
  BY <1>1, <1>2, ConcatProperties
<1>4. Text!FromHex(s) = Text!Hex2Bytes(raw)
  BY DEF Text!FromHex, Raw
<1> HIDE DEF raw
<1>5. Text!FromHex(s) \in Seq(Byte) /\ 0 \in Byte
  BY <1>3, <1>4, LenientBytes DEF Byte
<1> QED BY <1>5, HashOfBytes DEF Text!HexToHash

(* The lenient readers of hashes agree with the strict one.                *)
LEMMA ReadersAreAgreed ==
  ASSUME NEW s \in Seq(Chars)
  PROVE  Text!ReadersAgree(s)
<1> DEFINE b == Text!HexBytes(Raw(s))
<1>1. ASSUME Text!UnmarshalText(s).err = "none"
      PROVE  /\ Text!HexToHash(s) = Text!UnmarshalText(s).value
             /\ Text!UnmarshalUnprefixed(s) = Text!UnmarshalText(s)
             /\ Text!IsHexAddress(s)
             /\ Text!ParseHexOrString(s) = Text!UnmarshalText(s)
  <2>1. Full(s) /\ Text!has0xPrefix(s)
    BY <1>1, NotFull
  <2>2. Text!UnmarshalText(s) = Text!Ok(b) /\ Text!UnmarshalUnprefixed(s) = Text!Ok(b) /\ Text!HexToHash(s) = b
    BY <2>1, FullRead
  <2>3. Text!Ok(b).value = b
    BY DEF Text!Ok
  <2>4. Text!Decode(s).err = "none" /\ Text!Decode(s) = Text!Ok(b)
    BY <2>1, DecodeIs DEF Full
  <2>5. Text!ParseHexOrString(s) = Text!Ok(b)
    BY <2>4 DEF Text!ParseHexOrString
  <2> QED BY <2>1, <2>2, <2>3, <2>5, FullIs
<1>2. Text!UnmarshalUnprefixed(s).err = "none" <=> Text!IsHexAddress(s)
  BY NotFull, FullIs
<1>3. ASSUME ~Text!has0xPrefix(s), Text!IsHexAddress(s)
      PROVE  Text!Hex2BytesFixed(s, Length) = Text!UnmarshalUnprefixed(s).value
  <2>1. Full(s) /\ Raw(s) = s
    BY <1>3, FullIs, RawIs
  <2>2. b \in Seq(Byte) /\ Len(b) = Length /\ Text!UnmarshalUnprefixed(s) = Text!Ok(b)
    BY <2>1, FullRead
  <2>3. Text!Hex2Bytes(s) = b
    BY <2>1, LenientBytes DEF Full, Pairs
  <2> HIDE DEF b
  <2>4. Length \in Nat /\ Length <= Len(b) /\ Len(b) >= Length
    BY <2>2, LengthIs
  <2>5. Text!Rightmost(b, Length) = b
    BY <2>2, <2>4, RightmostIs
  <2>6. Text!Hex2BytesFixed(s, Length) = b
    BY <2>3, <2>4, <2>5 DEF Text!Hex2BytesFixed
  <2> QED BY <2>2, <2>6 DEF Text!Ok
<1>4. Len(Text!HexToHash(s)) = Length
  BY HashLength
<1> QED BY <1>1, <1>2, <1>3, <1>4 DEF Text!ReadersAgree

-----------------------------------------------------------------------------
(* Addresses in capitals and small letters.                                *)

LEMMA Capitals == \A i \in 1..16 : Text!UpperHex[i] \in Chars
BY DEF Chars

(* Digits that stand for the same half-bytes are the same bytes, whatever  *)
(* the case.                                                               *)
LEMMA SameNibbles ==
  ASSUME NEW b \in Seq(Byte), NEW S, NEW u \in Seq(S), Len(u) = 2 * Len(b),
         \A i \in 1..(2 * Len(b)) : Text!decodeNibble(u[i]) = Text!Nibble(b, i)
  PROVE  Text!AllDigits(u) /\ Text!HexBytes(u) = b
<1> DEFINE n == Len(b)
           c == Text!HexBytes(u)
<1>1. n \in Nat /\ DOMAIN u = 1..(2 * n)
  BY LenProperties, NibblesAre
<1>2. \A i \in 1..(2 * n) : Text!Nibble(b, i) \in 0..15
  BY Halves
<1>3. \A i \in 1..n : 2 * i - 1 \in 1..(2 * n) /\ 2 * i \in 1..(2 * n) /\ b[i] = 16 * Text!Nibble(b, 2 * i - 1) + Text!Nibble(b, 2 * i)
  BY Halves
<1>4. \A i \in 1..(2 * n) : Text!decodeNibble(u[i]) = Text!Nibble(b, i)
  OBVIOUS
<1>5. Len(u) = 2 * n
  OBVIOUS
<1> HIDE DEF n
<1>6. Text!AllDigits(u)
  <2>1. \A i \in DOMAIN u : Text!decodeNibble(u[i]) \in 0..15
    BY <1>1, <1>2, <1>4
  <2>2. \A v \in 0..15 : v # Text!badNibble
    BY DEF Text!badNibble
  <2> QED BY <2>1, <2>2 DEF Text!AllDigits
<1>7. Len(u) \div 2 = n
  BY <1>1, <1>5
<1>8. c \in Seq(Byte) /\ Len(c) = n /\ \A i \in 1..n : c[i] = 16 * Text!decodeNibble(u[2 * i - 1]) + Text!decodeNibble(u[2 * i])
  BY <1>6, <1>7, BytesOfDigits
<1> HIDE DEF c
<1>9. \A i \in 1..n : c[i] = b[i]
  BY <1>3, <1>4, <1>8
<1>10. c = b
  BY <1>8, <1>9, SeqEqual DEF n
<1> QED BY <1>6, <1>10 DEF c

(* An address with its checksum is a full text of the address.             *)
LEMMA ChecksumIs ==
  ASSUME NEW b \in Seq(Byte), Len(b) = Length
  PROVE  LET c == Text!checksumHex(b)
         IN c \in Seq(Chars) /\ Text!has0xPrefix(c) /\ Full(c) /\ Text!HexBytes(Raw(c)) = b
<1> DEFINE hex == Text!Encode(b)
           n == 2 * Len(b)
           nib(i) == Text!decodeNibble(hex[i])
           Up(i) == i > 2 /\ nib(i) > 9 /\ Digest(Text!Drop(hex, 2))[i - 2] > 7
           c == Text!checksumHex(b)
<1>1. /\ hex \in Seq(Chars) /\ Len(hex) = n + 2 /\ hex[1] = "0" /\ hex[2] = "x"
      /\ \A k \in 1..n : hex[k + 2] = Paired(b)[k]
  BY EncodeIs
<1>2. \A k \in 1..n : Paired(b)[k] = Text!LowerHex[Text!Nibble(b, k) + 1] /\ Text!decodeNibble(Paired(b)[k]) = Text!Nibble(b, k)
  BY PairedIs
<1>3. \A k \in 1..n : Text!Nibble(b, k) \in 0..15
  BY Halves
<1>4. c = [i \in DOMAIN hex |-> IF Up(i) THEN Text!UpperHex[nib(i) + 1] ELSE hex[i]]
  BY DEF Text!checksumHex
<1>5. Len(b) \in Nat /\ n \in Nat /\ n = 2 * Len(b)
  BY LenProperties
<1> HIDE DEF hex, n, c
<1>6. DOMAIN hex = 1..(n + 2) /\ \A i \in 1..(n + 2) : hex[i] \in Chars
  <2>1. DOMAIN hex = 1..Len(hex) /\ \A i \in 1..Len(hex) : hex[i] \in Chars
    BY <1>1, LenProperties, ElementOfSeq
  <2> QED BY <1>1, <2>1
<1>7. ASSUME NEW k \in 1..n
      PROVE  c[k + 2] \in Chars /\ Text!decodeNibble(c[k + 2]) = Text!Nibble(b, k)
  <2> DEFINE x == Text!Nibble(b, k) + 1
  <2>1. x \in 1..16 /\ x - 1 = Text!Nibble(b, k)
    BY <1>3
  <2>2. k + 2 \in 1..(n + 2) /\ hex[k + 2] = Text!LowerHex[x] /\ nib(k + 2) + 1 = x
    BY <1>1, <1>2, <1>5
  <2> HIDE DEF x, nib, Up
  <2>3. c[k + 2] = IF Up(k + 2) THEN Text!UpperHex[x] ELSE Text!LowerHex[x]
    BY <1>4, <1>6, <2>2
  <2>4. c[k + 2] \in Chars
    BY <1>6, <2>1, <2>2, <2>3, Capitals
  <2>5. Text!decodeNibble(c[k + 2]) = x - 1
    BY <2>1, <2>3, NibbleOf
  <2> QED BY <2>1, <2>4, <2>5
<1>8. c[1] = "0" /\ c[2] = "x"
  <2>1. 1 \in 1..(n + 2) /\ 2 \in 1..(n + 2) /\ ~(1 > 2) /\ ~(2 > 2)
    BY <1>5
  <2>2. ~Up(1) /\ ~Up(2)
    BY <2>1
  <2> HIDE DEF Up
  <2> QED BY <1>1, <1>4, <1>6, <2>1, <2>2
<1> HIDE DEF Up, nib
<1>9. c \in Seq(Chars) /\ Len(c) = n + 2
  <2>1. \A i \in 1..(n + 2) : c[i] \in Chars
    <3> SUFFICES ASSUME NEW i \in 1..(n + 2) PROVE c[i] \in Chars
      OBVIOUS
    <3>1. CASE i \in {1, 2}
      BY <1>8, <3>1, HexLetters
    <3>2. CASE i \notin {1, 2}
      <4>1. i - 2 \in 1..n /\ (i - 2) + 2 = i
        BY <1>5, <3>2
      <4> QED BY <1>7, <4>1
    <3> QED BY <3>1, <3>2
  <2>2. c \in [1..(n + 2) -> Chars]
    <3>1. c = [i \in 1..(n + 2) |-> c[i]]
      BY <1>4, <1>6
    <3> QED BY <2>1, <3>1
  <2>3. n + 2 \in Nat
    BY <1>5
  <2> QED BY <2>2, <2>3, IsASeq
<1>10. Text!has0xPrefix(c)
  BY <1>5, <1>8, <1>9 DEF Text!has0xPrefix
<1> DEFINE u == Text!Drop(c, 2)
<1>11. u \in Seq(Chars) /\ Len(u) = n /\ Raw(c) = u
  <2> DEFINE d == 2
  <2>1. d \in Nat /\ d <= Len(c) /\ Len(c) - d = n
    BY <1>5, <1>9
  <2> HIDE DEF d
  <2>2. Text!Drop(c, d) \in Seq(Chars) /\ Len(Text!Drop(c, d)) = Len(c) - d
    BY <1>9, <2>1, Dropped
  <2> QED BY <1>10, <2>1, <2>2 DEF d, Raw
<1>12. \A i \in 1..n : u[i] = c[i + 2]
  <2> DEFINE d == 2
  <2>1. d \in Nat /\ d <= Len(c) /\ Len(c) - d = n
    BY <1>5, <1>9
  <2> HIDE DEF d
  <2>2. \A i \in 1..(Len(c) - d) : Text!Drop(c, d)[i] = c[d + i]
    BY <1>9, <2>1, Dropped
  <2>3. \A i \in 1..n : Text!Drop(c, d)[i] = c[d + i]
    BY <2>1, <2>2
  <2>4. \A i \in 1..n : d + i = i + 2
    BY <1>5 DEF d
  <2> QED BY <2>3, <2>4 DEF d
<1> HIDE DEF u
<1>13. Text!AllDigits(u) /\ Text!HexBytes(u) = b
  <2>1. \A i \in 1..n : Text!decodeNibble(u[i]) = Text!Nibble(b, i)
    BY <1>7, <1>12
  <2> QED BY <1>5, <1>11, <2>1, SameNibbles
<1>14. Full(c)
  <2>1. n % 2 = 0 /\ n \div 2 = Length
    BY <1>5
  <2> QED BY <1>11, <1>13, <2>1 DEF Full, Pairs
<1> QED BY <1>9, <1>10, <1>11, <1>13, <1>14 DEF c

LEMMA TwoFirst ==
  ASSUME NEW S, NEW s \in Seq(S), Len(s) >= 2
  PROVE  SubSeq(s, 1, 2) = <<s[1], s[2]>>
<1>1. Len(s) \in Nat
  BY LenProperties
<1>2. \A i \in 1..2 : s[i] \in S
  <2>1. \A i \in 1..2 : i \in 1..Len(s)
    BY <1>1
  <2> QED BY <2>1, ElementOfSeq
<1>3. /\ SubSeq(s, 1, 2) \in Seq(S) /\ Len(SubSeq(s, 1, 2)) = 2
      /\ \A i \in 1..2 : SubSeq(s, 1, 2)[i] = s[i]
  <2> DEFINE m == 1
             n == 2
             t == SubSeq(s, m, n)
  <2>1. m \in Int /\ n \in Int /\ n - m + 1 = 2 /\ m <= n /\ \A i \in 1..2 : m + i - 1 = i
    OBVIOUS
  <2>2. \A i \in m..n : s[i] \in S
    BY <1>2
  <2> HIDE DEF m, n
  <2>3. /\ t \in Seq(S) /\ Len(t) = (IF m <= n THEN n - m + 1 ELSE 0)
        /\ \A i \in 1..(n - m + 1) : t[i] = s[m + i - 1]
    BY <2>1, <2>2, SubSeqProperties
  <2> HIDE DEF t
  <2>4. t \in Seq(S) /\ Len(t) = 2 /\ \A i \in 1..2 : t[i] = s[i]
    BY <2>1, <2>3
  <2> QED BY <2>4 DEF t, m, n
<1> DEFINE v == <<s[1], s[2]>>
<1>4. v \in Seq(S) /\ Len(v) = 2 /\ v[1] = s[1] /\ v[2] = s[2]
  BY <1>2
<1> HIDE DEF v
<1>5. \A i \in 1..2 : i = 1 \/ i = 2
  OBVIOUS
<1>6. SubSeq(s, 1, 2) = v
  <2>1. \A i \in 1..Len(v) : SubSeq(s, 1, 2)[i] = v[i]
    BY <1>3, <1>4, <1>5
  <2> QED BY <1>3, <1>4, <2>1, SeqEqual
<1> QED BY <1>6 DEF v

(* The first two characters, where the tests for the prefix look.          *)
LEMMA HeadOf ==
  ASSUME NEW S, NEW s \in Seq(S), Len(s) >= 2
  PROVE  /\ SubSeq(s, 1, 2) = <<"0", "x">> <=> s[1] = "0" /\ s[2] = "x"
         /\ SubSeq(s, 1, 2) = <<"0", "X">> <=> s[1] = "0" /\ s[2] = "X"
         /\ Text!has0xPrefix(s) <=> SubSeq(s, 1, 2) = <<"0", "x">> \/ SubSeq(s, 1, 2) = <<"0", "X">>
<1>1. SubSeq(s, 1, 2) = <<s[1], s[2]>>
  BY TwoFirst
<1>2. \A a, b, c, d : <<a, b>> = <<c, d>> <=> a = c /\ b = d
  OBVIOUS
<1>3. SubSeq(s, 1, 2) = <<"0", "x">> <=> s[1] = "0" /\ s[2] = "x"
  BY <1>1
<1>4. SubSeq(s, 1, 2) = <<"0", "X">> <=> s[1] = "0" /\ s[2] = "X"
  BY <1>1
<1> QED BY <1>3, <1>4 DEF Text!has0xPrefix

(* A text of the right length with the prefix in front of it.              *)
LEMMA PrefixedIsFull ==
  ASSUME NEW s \in Seq(Chars), Full(s)
  PROVE  LET t == <<"0", "x">> \o s
         IN /\ t \in Seq(Chars) /\ Text!has0xPrefix(t) /\ Raw(t) = s
            /\ ~Text!has0xPrefix(s) => Full(t)
            /\ Text!has0xPrefix(s) => ~Full(t)
<1> DEFINE t == <<"0", "x">> \o s
<1>1. t \in Seq(Chars) /\ Text!has0xPrefix(t) /\ Raw(t) = s
  BY Prefixed DEF Raw
<1> HIDE DEF t
<1>2. ASSUME ~Text!has0xPrefix(s) PROVE Full(t)
  <2>1. Raw(s) = s
    BY <1>2, RawIs
  <2> QED BY <1>1, <2>1 DEF Full, Pairs
<1>3. ASSUME Text!has0xPrefix(s) PROVE ~Full(t)
  <2>1. Len(Raw(s)) = 2 * Length
    BY FullIs
  <2>2. Len(s) >= 2 /\ Len(s) \in Nat /\ Len(Raw(s)) = Len(s) - 2
    <3>1. Len(s) >= 2 /\ Raw(s) = Text!Drop(s, 2) /\ Len(s) \in Nat
      BY <1>3, RawIs, LenProperties
    <3> DEFINE d == 2
    <3>2. d \in Nat /\ d <= Len(s)
      BY <3>1
    <3> HIDE DEF d
    <3>3. Len(Text!Drop(s, d)) = Len(s) - d
      BY <3>2, Dropped
    <3> QED BY <3>1, <3>3 DEF d
  <2>3. Len(Raw(t)) # 2 * Length
    BY <1>1, <2>1, <2>2, LengthIs
  <2> QED BY <1>1, <2>3, FullIs
<1> QED BY <1>1, <1>2, <1>3 DEF t

(* What the reader of addresses makes of a full text with the prefix.      *)
LEMMA MixedcaseRead ==
  ASSUME NEW t \in Seq(Chars)
  PROVE  /\ Full(t) /\ Text!has0xPrefix(t) =>
              Text!UnmarshalMixedcase(t) = Text!Ok([addr |-> Text!HexBytes(Raw(t)), original |-> t])
         /\ ~Full(t) => Text!UnmarshalMixedcase(t).err # "none"
<1>1. ASSUME Full(t), Text!has0xPrefix(t)
      PROVE  Text!UnmarshalMixedcase(t) = Text!Ok([addr |-> Text!HexBytes(Raw(t)), original |-> t])
  <2>1. Text!UnmarshalText(t) = Text!Ok(Text!HexBytes(Raw(t)))
    BY <1>1, FullRead
  <2>2. Text!Ok(Text!HexBytes(Raw(t))).err = "none" /\ Text!Ok(Text!HexBytes(Raw(t))).value = Text!HexBytes(Raw(t))
    BY DEF Text!Ok
  <2> QED BY <2>1, <2>2 DEF Text!UnmarshalMixedcase
<1>2. ASSUME ~Full(t) PROVE Text!UnmarshalMixedcase(t).err # "none"
  <2>1. Text!UnmarshalText(t).err # "none"
    BY <1>2, NotFull
  <2> QED BY <2>1 DEF Text!UnmarshalMixedcase
<1> QED BY <1>1, <1>2

(* An address keeps its bytes and its letters, unless it came with 0X.     *)
LEMMA MixedcaseIsKept ==
  ASSUME NEW s \in Seq(Chars)
  PROVE  Text!MixedcaseKept(s)
<1>1. CASE ~Full(s)
  <2>1. Text!NewMixedcaseFromString(s) = Text!Err("invalid address")
    BY <1>1, FullIs DEF Text!NewMixedcaseFromString
  <2>2. Text!NewMixedcaseFromString(s).err # "none"
    <3>1. Text!Err("invalid address").err # "none"
      BY DEF Text!Err
    <3> QED BY <2>1, <3>1
  <2> QED BY <2>2 DEF Text!MixedcaseKept
<1>2. CASE Full(s)
  <2> DEFINE b == Text!HexBytes(Raw(s))
             ma == [addr |-> b, original |-> s]
             t == <<"0", "x">> \o s
  <2>1. b \in Seq(Byte) /\ Len(b) = Length /\ Text!FromHex(s) = b /\ 0 \in Byte
    BY <1>2, FullRead DEF Byte
  <2>2. Text!BytesToHash(Text!FromHex(s)) = b
    BY <2>1, HashOfBytes
  <2>3. Text!NewMixedcaseFromString(s) = Text!Ok(ma)
    <3>1. Text!IsHexAddress(s)
      BY <1>2, FullIs
    <3> HIDE DEF b
    <3> QED BY <2>2, <3>1 DEF Text!NewMixedcaseFromString
  <2>4. Text!Ok(ma).value = ma
    BY DEF Text!Ok
  <2>5. ma.addr = b /\ ma.original = s
    OBVIOUS
  <2>6. Text!UnmarshalMixedcase(Text!checksumHex(b)) = Text!Ok(Text!NewMixedcaseAddress(b))
    <3> HIDE DEF b
    <3> DEFINE c == Text!checksumHex(b)
    <3>1. c \in Seq(Chars) /\ Text!has0xPrefix(c) /\ Full(c) /\ Text!HexBytes(Raw(c)) = b
      BY <2>1, ChecksumIs
    <3> HIDE DEF c
    <3>2. Text!UnmarshalMixedcase(c) = Text!Ok([addr |-> b, original |-> c])
      BY <3>1, MixedcaseRead
    <3> QED BY <3>2 DEF c, Text!NewMixedcaseAddress
  <2>7. Text!ValidChecksum(Text!NewMixedcaseAddress(b))
    BY DEF Text!ValidChecksum, Text!NewMixedcaseAddress
  <2>8. Len(s) >= 2
    <3>1. Len(Raw(s)) = 2 * Length /\ Length \in Nat /\ Length >= 1
      BY <1>2, FullIs, LengthIs
    <3>2. CASE Text!has0xPrefix(s)
      BY <3>2 DEF Text!has0xPrefix
    <3>3. CASE ~Text!has0xPrefix(s)
      BY <3>1, <3>3, RawIs
    <3> QED BY <3>2, <3>3
  <2>9. Text!MarshalMixedcase(ma) = IF SubSeq(s, 1, 2) = <<"0", "x">> THEN s ELSE t
    BY <2>5 DEF Text!MarshalMixedcase
  <2>10. /\ t \in Seq(Chars) /\ Text!has0xPrefix(t) /\ Raw(t) = s
         /\ ~Text!has0xPrefix(s) => Full(t)
         /\ Text!has0xPrefix(s) => ~Full(t)
    BY <1>2, PrefixedIsFull
  <2> DEFINE back == Text!UnmarshalMixedcase(Text!MarshalMixedcase(ma))
             X == SubSeq(s, 1, 2) = <<"0", "X">>
             x == SubSeq(s, 1, 2) = <<"0", "x">>
  <2>11. Text!has0xPrefix(s) <=> x \/ X
    BY <2>8, HeadOf
  <2>12. ~(x /\ X)
    <3>1. x <=> s[1] = "0" /\ s[2] = "x"
      BY <2>8, HeadOf
    <3>2. X <=> s[1] = "0" /\ s[2] = "X"
      BY <2>8, HeadOf
    <3> HIDE DEF x, X
    <3> QED BY <3>1, <3>2
  <2> HIDE DEF x, X, t, ma
  <2>13. x => back = Text!Ok(ma)
    <3>1. x => Text!MarshalMixedcase(ma) = s
      BY <2>9 DEF x
    <3>2. x => Text!UnmarshalMixedcase(s) = Text!Ok([addr |-> b, original |-> s])
      BY <1>2, <2>11, MixedcaseRead
    <3> QED BY <3>1, <3>2 DEF ma
  <2>14. ~x => Text!MarshalMixedcase(ma) = t
    BY <2>9 DEF x
  <2>15. X => back.err # "none"
    <3>1. X => Text!UnmarshalMixedcase(t).err # "none"
      BY <2>10, <2>11, MixedcaseRead
    <3> QED BY <2>12, <2>14, <3>1
  <2>16. ~X /\ ~x => back = Text!Ok([addr |-> b, original |-> t])
    <3> SUFFICES ASSUME ~X, ~x PROVE back = Text!Ok([addr |-> b, original |-> t])
      OBVIOUS
    <3>1. Raw(s) = s /\ Full(t)
      BY <2>10, <2>11, RawIs
    <3>2. Text!UnmarshalMixedcase(t) = Text!Ok([addr |-> Text!HexBytes(Raw(t)), original |-> t])
      BY <2>10, <3>1, MixedcaseRead
    <3> QED BY <2>10, <2>14, <3>1, <3>2
  <2>17. ~X => back.value.addr = b
    <3>1. x => back.value.addr = b
      BY <2>4, <2>5, <2>13
    <3>2. Text!Ok([addr |-> b, original |-> t]).value = [addr |-> b, original |-> t]
      BY DEF Text!Ok
    <3>3. [addr |-> b, original |-> t].addr = b
      OBVIOUS
    <3>4. ~X /\ ~x => back.value.addr = b
      BY <2>16, <3>2, <3>3
    <3> QED BY <3>1, <3>4
  <2>18. x => back.value = ma
    BY <2>4, <2>13
  <2> HIDE DEF back, b
  <2> QED BY <2>3, <2>4, <2>5, <2>6, <2>7, <2>15, <2>17, <2>18 DEF Text!MixedcaseKept, back, x, X
<1> QED BY <1>1, <1>2

-----------------------------------------------------------------------------
(* Zeros in front of bytes and after them.                                 *)

Least(S) == CHOOSE i \in S : \A j \in S : i <= j
Greatest(S) == CHOOSE i \in S : \A j \in S : j <= i

(* The first and the last of some places.                                  *)
LEMMA EndsOf ==
  ASSUME NEW n \in Nat, NEW S \in SUBSET (1..n), S # {}
  PROVE  /\ Least(S) \in S /\ \A j \in S : Least(S) <= j
         /\ Greatest(S) \in S /\ \A j \in S : j <= Greatest(S)
<1>1. \E i \in S : \A j \in S : i <= j
  BY LeastExists
<1>2. \E i \in S : \A j \in S : j <= i
  BY MaxExists
<1>3. Least(S) \in S /\ \A j \in S : Least(S) <= j
  <2> DEFINE P(i) == \A j \in S : i <= j
  <2>1. \E i \in S : P(i)
    BY <1>1
  <2>2. Least(S) = CHOOSE i \in S : P(i)
    BY DEF Least
  <2> HIDE DEF P
  <2>3. Least(S) \in S /\ P(Least(S))
    BY <2>1, <2>2
  <2> QED BY <2>3 DEF P
<1>4. Greatest(S) \in S /\ \A j \in S : j <= Greatest(S)
  <2> DEFINE P(i) == \A j \in S : j <= i
  <2>1. \E i \in S : P(i)
    BY <1>2
  <2>2. Greatest(S) = CHOOSE i \in S : P(i)
    BY DEF Greatest
  <2> HIDE DEF P
  <2>3. Greatest(S) \in S /\ P(Greatest(S))
    BY <2>1, <2>2
  <2> QED BY <2>3 DEF P
<1> QED BY <1>3, <1>4

LEMMA LeastIs ==
  ASSUME NEW n \in Nat, NEW S \in SUBSET (1..n), NEW i \in S, \A j \in S : i <= j
  PROVE  Least(S) = i
<1> DEFINE m == Least(S)
<1>1. m \in S /\ \A j \in S : m <= j
  BY EndsOf
<1> HIDE DEF m
<1>2. m <= i /\ i <= m /\ m \in 1..n /\ i \in 1..n
  BY <1>1
<1>3. m = i
  BY <1>2
<1> QED BY <1>3 DEF m

LEMMA GreatestIs ==
  ASSUME NEW n \in Nat, NEW S \in SUBSET (1..n), NEW i \in S, \A j \in S : j <= i
  PROVE  Greatest(S) = i
<1> DEFINE m == Greatest(S)
<1>1. m \in S /\ \A j \in S : j <= m
  BY EndsOf
<1> HIDE DEF m
<1>2. i <= m /\ m <= i /\ m \in 1..n /\ i \in 1..n
  BY <1>1
<1>3. m = i
  BY <1>2
<1> QED BY <1>3 DEF m

LEMMA TrimsAre ==
  ASSUME NEW b
  PROVE  /\ Text!NonZero(b) = {} => Text!TrimLeftZeroes(b) = <<>> /\ Text!TrimRightZeroes(b) = <<>>
         /\ Text!NonZero(b) # {} =>
              /\ Text!TrimLeftZeroes(b) = SubSeq(b, Least(Text!NonZero(b)), Len(b))
              /\ Text!TrimRightZeroes(b) = SubSeq(b, 1, Greatest(Text!NonZero(b)))
BY DEF Text!TrimLeftZeroes, Text!TrimRightZeroes, Least, Greatest

LEMMA NonZeroIs ==
  ASSUME NEW b \in Seq(Nat)
  PROVE  /\ Len(b) \in Nat /\ Text!NonZero(b) = {i \in 1..Len(b) : b[i] # 0} /\ Text!NonZero(b) \in SUBSET (1..Len(b))
         /\ \A i \in 1..Len(b) : b[i] \in Nat
BY LenProperties, ElementOfSeq DEF Text!NonZero

(* Zeros in front of b move it to the right, zeros after it do nothing.    *)
LEMMA ZerosInFront ==
  ASSUME NEW b \in Seq(Nat), NEW z \in Nat \ {0}
  PROVE  Text!TrimLeftZeroes(Text!Zeros(z) \o b) = Text!TrimLeftZeroes(b)
<1> DEFINE o == Text!Zeros(z)
           c == o \o b
           n == Len(b)
           B == Text!NonZero(b)
           C == Text!NonZero(c)
<1>1. o \in Seq(Nat) /\ Len(o) = z /\ \A i \in 1..z : o[i] = 0
  BY ZerosAre
<1>2. n \in Nat /\ B = {i \in 1..n : b[i] # 0} /\ B \in SUBSET (1..n)
  BY NonZeroIs
<1> HIDE DEF o
<1>3. c \in Seq(Nat) /\ Len(c) = z + n /\ (\A i \in 1..z : c[i] = o[i]) /\ \A i \in 1..n : c[z + i] = b[i]
  <2>1. o \in Seq(Nat)
    BY <1>1
  <2>2. o \o b \in Seq(Nat) /\ Len(o \o b) = Len(o) + Len(b)
    BY <2>1, Joined
  <2>3. \A i \in 1..Len(o) : (o \o b)[i] = o[i]
    BY <2>1, Joined
  <2>4. \A i \in 1..Len(b) : (o \o b)[Len(o) + i] = b[i]
    BY <2>1, Joined
  <2> QED BY <1>1, <2>2, <2>3, <2>4
<1>4. C = {i \in 1..(z + n) : c[i] # 0} /\ C \in SUBSET (1..(z + n))
  BY <1>3, NonZeroIs
<1> HIDE DEF n, B, C, c
<1>5. \A i \in B : z + i \in C
  BY <1>2, <1>3, <1>4
<1>6. \A k \in C : k - z \in B
  <2> SUFFICES ASSUME NEW k \in C PROVE k - z \in B
    OBVIOUS
  <2>1. k \in 1..(z + n) /\ c[k] # 0
    BY <1>4
  <2>2. k \notin 1..z
    BY <1>1, <1>3, <2>1
  <2>3. k - z \in 1..n /\ z + (k - z) = k
    BY <1>2, <2>1, <2>2
  <2> QED BY <1>2, <1>3, <2>1, <2>3
<1>7. CASE B = {}
  <2>1. C = {}
    BY <1>6, <1>7
  <2>2. Text!TrimLeftZeroes(c) = <<>>
    BY <2>1, TrimsAre DEF C
  <2>3. Text!TrimLeftZeroes(b) = <<>>
    BY <1>7, TrimsAre DEF B
  <2> QED BY <2>2, <2>3 DEF c, o
<1>8. CASE B # {}
  <2> DEFINE m == Least(B)
  <2>1. m \in B /\ \A j \in B : m <= j
    BY <1>2, <1>8, EndsOf
  <2> HIDE DEF m
  <2>2. m \in 1..n
    BY <1>2, <2>1
  <2>3. z + m \in C /\ \A k \in C : z + m <= k
    <3> SUFFICES ASSUME NEW k \in C PROVE z + m <= k
      BY <1>5, <2>1
    <3>1. m <= k - z /\ k \in Int
      BY <1>4, <1>6, <2>1
    <3> QED BY <2>2, <3>1
  <2>4. Least(C) = z + m /\ C # {}
    <3>1. z + n \in Nat
      BY <1>2
    <3> QED BY <1>4, <2>3, <3>1, LeastIs
  <2>5. Text!TrimLeftZeroes(c) = SubSeq(c, z + m, z + n)
    BY <1>3, <2>4, TrimsAre DEF C
  <2>6. Text!TrimLeftZeroes(b) = SubSeq(b, m, n)
    BY <1>8, TrimsAre DEF B, m, n
  <2>7. SubSeq(c, z + m, z + n) = SubSeq(b, m, n)
    <3>1. z + m \in (Len(o) + 1)..(Len(o) + Len(b)) /\ z + n \in (Len(o) + 1)..(Len(o) + Len(b))
      BY <1>1, <1>2, <2>2 DEF n
    <3>2. SubSeq(o \o b, z + m, z + n) = SubSeq(b, (z + m) - Len(o), (z + n) - Len(o))
      BY <1>1, <3>1, SubSeqOfConcat2
    <3>3. (z + m) - Len(o) = m /\ (z + n) - Len(o) = n
      BY <1>1, <1>2, <2>2
    <3> QED BY <3>2, <3>3 DEF c
  <2> QED BY <2>5, <2>6, <2>7 DEF c, o
<1> QED BY <1>7, <1>8

LEMMA ZerosAtEnd ==
  ASSUME NEW b \in Seq(Nat), NEW z \in Nat \ {0}
  PROVE  Text!TrimRightZeroes(b \o Text!Zeros(z)) = Text!TrimRightZeroes(b)
<1> DEFINE o == Text!Zeros(z)
           c == b \o o
           n == Len(b)
           B == Text!NonZero(b)
           C == Text!NonZero(c)
<1>1. o \in Seq(Nat) /\ Len(o) = z /\ \A i \in 1..z : o[i] = 0
  BY ZerosAre
<1>2. n \in Nat /\ B = {i \in 1..n : b[i] # 0} /\ B \in SUBSET (1..n)
  BY NonZeroIs
<1> HIDE DEF o
<1>3. c \in Seq(Nat) /\ Len(c) = n + z /\ (\A i \in 1..n : c[i] = b[i]) /\ \A i \in 1..z : c[n + i] = o[i]
  <2>1. o \in Seq(Nat)
    BY <1>1
  <2>2. b \o o \in Seq(Nat) /\ Len(b \o o) = Len(b) + Len(o)
    BY <2>1, Joined
  <2>3. \A i \in 1..Len(b) : (b \o o)[i] = b[i]
    BY <2>1, Joined
  <2>4. \A i \in 1..Len(o) : (b \o o)[Len(b) + i] = o[i]
    BY <2>1, Joined
  <2> QED BY <1>1, <2>2, <2>3, <2>4
<1>4. C = {i \in 1..(n + z) : c[i] # 0}
  BY <1>3, NonZeroIs
<1> HIDE DEF n, B, C, c
<1>5. C = B
  <2>1. ASSUME NEW k \in C PROVE k \in B
    <3>1. k \in 1..(n + z) /\ c[k] # 0
      BY <1>4
    <3>2. CASE k \in 1..n
      BY <1>2, <1>3, <3>1, <3>2
    <3>3. CASE k \notin 1..n
      <4>1. k - n \in 1..z /\ n + (k - n) = k
        BY <1>2, <3>1, <3>3
      <4>2. c[n + (k - n)] = o[k - n]
        BY <1>3, <4>1
      <4> QED BY <1>1, <3>1, <4>1, <4>2
    <3> QED BY <3>2, <3>3
  <2>2. ASSUME NEW k \in B PROVE k \in C
    BY <1>2, <1>3, <1>4
  <2> QED BY <2>1, <2>2
<1>6. CASE B = {}
  <2>1. Text!TrimRightZeroes(c) = <<>>
    BY <1>5, <1>6, TrimsAre DEF C
  <2>2. Text!TrimRightZeroes(b) = <<>>
    BY <1>6, TrimsAre DEF B
  <2> QED BY <2>1, <2>2 DEF c, o
<1>7. CASE B # {}
  <2> DEFINE m == Greatest(B)
  <2>1. m \in 1..n /\ 1 \in 1..n
    <3>1. m \in B
      BY <1>2, <1>7, EndsOf
    <3> HIDE DEF m
    <3>2. m \in 1..n
      BY <1>2, <3>1
    <3> QED BY <1>2, <3>2
  <2>2. Text!TrimRightZeroes(c) = SubSeq(c, 1, m)
    BY <1>5, <1>7, TrimsAre DEF C
  <2>3. Text!TrimRightZeroes(b) = SubSeq(b, 1, m)
    BY <1>7, TrimsAre DEF B
  <2> HIDE DEF m
  <2>4. SubSeq(b \o o, 1, m) = SubSeq(b, 1, m)
    BY <1>1, <2>1, SubSeqOfConcat1 DEF n
  <2> QED BY <2>2, <2>3, <2>4 DEF c, o
<1> QED BY <1>6, <1>7

(* A sequence is its first k elements and the others.                      *)
LEMMA TwoParts ==
  ASSUME NEW S, NEW b \in Seq(S), NEW k \in 0..Len(b)
  PROVE  LET p == SubSeq(b, 1, k)
             q == SubSeq(b, k + 1, Len(b))
         IN /\ p \in Seq(S) /\ Len(p) = k /\ \A i \in 1..k : p[i] = b[i]
            /\ q \in Seq(S) /\ Len(q) = Len(b) - k /\ \A i \in 1..(Len(b) - k) : q[i] = b[k + i]
            /\ p \o q = b
<1> DEFINE n == Len(b)
           m == k + 1
           p == SubSeq(b, 1, k)
           q == SubSeq(b, m, n)
<1>1. n \in Nat /\ k \in Nat /\ k <= n
  BY LenProperties
<1>2. p \in Seq(S) /\ Len(p) = k /\ \A i \in 1..k : p[i] = b[i]
  <2>1. \A i \in 1..k : b[i] \in S
    <3>1. \A i \in 1..k : i \in 1..n
      BY <1>1
    <3> QED BY <3>1, ElementOfSeq
  <2>2. p \in Seq(S) /\ Len(p) = (IF 1 <= k THEN k - 1 + 1 ELSE 0) /\ \A i \in 1..(k - 1 + 1) : p[i] = b[1 + i - 1]
    <3> DEFINE a == 1
    <3>1. a \in Int /\ k \in Int /\ \A i \in a..k : b[i] \in S
      BY <1>1, <2>1
    <3> HIDE DEF a
    <3>2. SubSeq(b, a, k) \in Seq(S) /\ Len(SubSeq(b, a, k)) = (IF a <= k THEN k - a + 1 ELSE 0)
          /\ \A i \in 1..(k - a + 1) : SubSeq(b, a, k)[i] = b[a + i - 1]
      BY <3>1, SubSeqProperties
    <3> QED BY <3>2 DEF a
  <2> HIDE DEF p
  <2>3. (IF 1 <= k THEN k - 1 + 1 ELSE 0) = k /\ k - 1 + 1 = k
    BY <1>1
  <2>4. \A i \in 1..k : 1 + i - 1 = i
    BY <1>1
  <2> QED BY <2>2, <2>3, <2>4
<1>3. q \in Seq(S) /\ Len(q) = n - k /\ \A i \in 1..(n - k) : q[i] = b[k + i]
  <2>1. m \in Int /\ n \in Int /\ \A i \in m..n : b[i] \in S
    <3>1. \A i \in m..n : i \in 1..n
      BY <1>1
    <3> QED BY <1>1, <3>1, ElementOfSeq
  <2> HIDE DEF m, n
  <2>2. SubSeq(b, m, n) \in Seq(S) /\ Len(SubSeq(b, m, n)) = (IF m <= n THEN n - m + 1 ELSE 0)
        /\ \A i \in 1..(n - m + 1) : SubSeq(b, m, n)[i] = b[m + i - 1]
    BY <2>1, SubSeqProperties
  <2>3. (IF m <= n THEN n - m + 1 ELSE 0) = n - k /\ n - m + 1 = n - k
    BY <1>1 DEF m
  <2>4. \A i \in 1..(n - k) : m + i - 1 = k + i
    BY <1>1 DEF m
  <2> QED BY <2>2, <2>3, <2>4
<1> HIDE DEF p, q
<1>4. p \o q = b
  <2>1. p \o q \in Seq(S) /\ Len(p \o q) = Len(p) + Len(q)
    BY <1>2, <1>3, Joined
  <2>2. \A i \in 1..Len(p) : (p \o q)[i] = p[i]
    BY <1>2, <1>3, Joined
  <2>3. \A i \in 1..Len(q) : (p \o q)[Len(p) + i] = q[i]
    BY <1>2, <1>3, Joined
  <2>4. Len(p \o q) = Len(b)
    BY <1>1, <1>2, <1>3, <2>1 DEF n
  <2>5. ASSUME NEW i \in 1..Len(b) PROVE (p \o q)[i] = b[i]
    <3>1. i \in 1..k \/ (i - k \in 1..(n - k) /\ k + (i - k) = i)
      BY <1>1 DEF n
    <3>2. CASE i \in 1..k
      BY <1>2, <2>2, <3>2
    <3>3. CASE i - k \in 1..(n - k) /\ k + (i - k) = i
      <4> DEFINE j == i - k
      <4>1. j \in 1..(n - k) /\ k + j = i
        BY <3>3
      <4> HIDE DEF j
      <4> QED BY <1>2, <1>3, <2>3, <4>1
    <3> QED BY <3>1, <3>2, <3>3
  <2> DEFINE u == p \o q
  <2>6. u \in Seq(S) /\ Len(u) = Len(b) /\ \A i \in 1..Len(b) : u[i] = b[i]
    BY <2>1, <2>4, <2>5
  <2> HIDE DEF u
  <2>7. u = b
    BY <2>6, SeqEqual
  <2> QED BY <2>7 DEF u
<1> QED BY <1>2, <1>3, <1>4 DEF p, q, m, n

(* Padding gives back the zeros that were cut off.                         *)
LEMMA PaddedLeft ==
  ASSUME NEW b \in Seq(Nat), NEW k \in 0..Len(b), \A i \in 1..k : b[i] = 0
  PROVE  Text!LeftPadBytes(SubSeq(b, k + 1, Len(b)), Len(b)) = b
<1> DEFINE n == Len(b)
           p == SubSeq(b, 1, k)
           q == SubSeq(b, k + 1, n)
           o == Text!Zeros(k)
<1>1. n \in Nat /\ k \in Nat /\ k <= n
  BY LenProperties
<1>2. /\ p \in Seq(Nat) /\ Len(p) = k /\ \A i \in 1..k : p[i] = b[i]
      /\ q \in Seq(Nat) /\ Len(q) = n - k /\ p \o q = b
  BY TwoParts
<1>3. o \in Seq(Nat) /\ Len(o) = k /\ \A i \in 1..k : o[i] = 0
  BY <1>1, ZerosAre
<1> HIDE DEF o, p, q
<1>4. p = o
  BY <1>2, <1>3, SeqEqual
<1>5. n - Len(q) = k
  BY <1>1, <1>2
<1>6. n <= Len(q) <=> k = 0
  BY <1>1, <1>2
<1>7. k = 0 => q = b
  <2> SUFFICES ASSUME k = 0 PROVE q = b
    OBVIOUS
  <2>1. p = <<>>
    BY <1>2, EmptySeq
  <2> QED BY <1>2, <2>1, ConcatEmptySeq
<1>8. Text!LeftPadBytes(q, n) = IF n <= Len(q) THEN q ELSE Text!Zeros(n - Len(q)) \o q
  BY DEF Text!LeftPadBytes
<1>9. Text!LeftPadBytes(q, n) = IF k = 0 THEN q ELSE o \o q
  BY <1>5, <1>6, <1>8 DEF o
<1> QED BY <1>2, <1>4, <1>7, <1>9 DEF q, n

LEMMA PaddedRight ==
  ASSUME NEW b \in Seq(Nat), NEW k \in 0..Len(b), \A i \in 1..(Len(b) - k) : b[k + i] = 0
  PROVE  Text!RightPadBytes(SubSeq(b, 1, k), Len(b)) = b
<1> DEFINE n == Len(b)
           p == SubSeq(b, 1, k)
           q == SubSeq(b, k + 1, n)
           o == Text!Zeros(n - k)
<1>1. n \in Nat /\ k \in Nat /\ k <= n /\ n - k \in Nat
  BY LenProperties
<1>2. /\ p \in Seq(Nat) /\ Len(p) = k
      /\ q \in Seq(Nat) /\ Len(q) = n - k /\ (\A i \in 1..(n - k) : q[i] = b[k + i]) /\ p \o q = b
  BY TwoParts
<1>3. o \in Seq(Nat) /\ Len(o) = n - k /\ \A i \in 1..(n - k) : o[i] = 0
  <2> DEFINE d == n - k
  <2>1. d \in Nat
    BY <1>1
  <2> HIDE DEF d
  <2>2. Text!Zeros(d) \in Seq(Nat) /\ Len(Text!Zeros(d)) = d /\ \A i \in 1..d : Text!Zeros(d)[i] = 0
    BY <2>1, ZerosAre
  <2> QED BY <2>2 DEF d
<1> HIDE DEF o, p, q
<1>4. q = o
  <2>1. \A i \in 1..(n - k) : q[i] = 0
    BY <1>2
  <2> HIDE DEF n
  <2> QED BY <1>2, <1>3, <2>1, SeqEqual
<1>5. n <= Len(p) <=> n - k = 0
  BY <1>1, <1>2
<1>6. n - k = 0 => p = b
  <2> SUFFICES ASSUME n - k = 0 PROVE p = b
    OBVIOUS
  <2>1. q = <<>>
    BY <1>2, EmptySeq
  <2> QED BY <1>2, <2>1, ConcatEmptySeq
<1>7. Text!RightPadBytes(p, n) = IF n <= Len(p) THEN p ELSE p \o Text!Zeros(n - Len(p))
  BY DEF Text!RightPadBytes
<1>8. Text!RightPadBytes(p, n) = IF n - k = 0 THEN p ELSE p \o o
  BY <1>2, <1>5, <1>7 DEF o
<1> QED BY <1>2, <1>4, <1>6, <1>8 DEF p, n

(* Trimming undoes padding, and padding trimming.                          *)
LEMMA PaddingIsUndone ==
  ASSUME NEW b \in Seq(Nat), NEW l \in Nat
  PROVE  Text!PaddingUndone(b, l)
<1> DEFINE n == Len(b)
           B == Text!NonZero(b)
<1>1. /\ n \in Nat /\ B = {i \in 1..n : b[i] # 0} /\ B \in SUBSET (1..n) /\ \A i \in 1..n : b[i] \in Nat
  BY NonZeroIs
<1>2. Text!Scan(Text!Zeros(Length), b) = IF Text!BytesToHash(b) = b THEN Text!Ok(b) ELSE Text!Err("length")
  <2>1. Text!BytesToHash(b) = b <=> Len(b) = Length
    BY HashOfBytes
  <2> QED BY <2>1 DEF Text!Scan
<1>3. Text!TrimLeftZeroes(Text!LeftPadBytes(b, l)) = Text!TrimLeftZeroes(b)
  <2>1. CASE l <= n
    BY <2>1 DEF Text!LeftPadBytes
  <2>2. CASE ~(l <= n)
    <3>1. l - n \in Nat \ {0}
      BY <1>1, <2>2
    <3>2. Text!LeftPadBytes(b, l) = Text!Zeros(l - n) \o b
      BY <2>2 DEF Text!LeftPadBytes
    <3> QED BY <3>1, <3>2, ZerosInFront
  <2> QED BY <2>1, <2>2
<1>4. Text!TrimRightZeroes(Text!RightPadBytes(b, l)) = Text!TrimRightZeroes(b)
  <2>1. CASE l <= n
    BY <2>1 DEF Text!RightPadBytes
  <2>2. CASE ~(l <= n)
    <3>1. l - n \in Nat \ {0}
      BY <1>1, <2>2
    <3>2. Text!RightPadBytes(b, l) = b \o Text!Zeros(l - n)
      BY <2>2 DEF Text!RightPadBytes
    <3> QED BY <3>1, <3>2, ZerosAtEnd
  <2> QED BY <2>1, <2>2
<1> HIDE DEF n, B
<1>5. PICK k \in 0..n : (\A i \in 1..k : b[i] = 0) /\ Text!TrimLeftZeroes(b) = SubSeq(b, k + 1, n)
  <2>1. CASE B = {}
    <3>1. \A i \in 1..n : b[i] = 0
      BY <1>1, <2>1
    <3>2. SubSeq(b, n + 1, n) = <<>>
      BY <1>1, SubSeqEmpty
    <3>3. Text!TrimLeftZeroes(b) = <<>>
      BY <2>1, TrimsAre DEF B
    <3>4. n \in 0..n
      BY <1>1
    <3> QED BY <3>1, <3>2, <3>3, <3>4
  <2>2. CASE B # {}
    <3> DEFINE m == Least(B)
    <3>1. m \in B /\ \A j \in B : m <= j
      BY <1>1, <2>2, EndsOf
    <3>2. Text!TrimLeftZeroes(b) = SubSeq(b, m, n)
      BY <2>2, TrimsAre DEF B, n
    <3> HIDE DEF m
    <3>3. m \in 1..n
      BY <1>1, <3>1
    <3>4. m - 1 \in 0..n /\ (m - 1) + 1 = m
      BY <1>1, <3>3
    <3>5. \A i \in 1..(m - 1) : b[i] = 0
      <4>1. \A i \in 1..(m - 1) : i \in 1..n /\ ~(m <= i)
        BY <1>1, <3>3
      <4> QED BY <1>1, <3>1, <4>1
    <3> QED BY <3>2, <3>4, <3>5
  <2> QED BY <2>1, <2>2
<1>6. Text!LeftPadBytes(Text!TrimLeftZeroes(b), Len(b)) = b
  BY <1>5, PaddedLeft DEF n
<1>7. PICK e \in 0..n : (\A i \in 1..(n - e) : b[e + i] = 0) /\ Text!TrimRightZeroes(b) = SubSeq(b, 1, e)
  <2>1. CASE B = {}
    <3>1. \A i \in 1..(n - 0) : b[0 + i] = 0
      <4>1. \A i \in 1..(n - 0) : i \in 1..n /\ 0 + i = i
        BY <1>1
      <4> QED BY <1>1, <2>1, <4>1
    <3>2. SubSeq(b, 1, 0) = <<>>
      BY SubSeqEmpty
    <3>3. Text!TrimRightZeroes(b) = <<>>
      BY <2>1, TrimsAre DEF B
    <3>4. 0 \in 0..n
      BY <1>1
    <3> QED BY <3>1, <3>2, <3>3, <3>4
  <2>2. CASE B # {}
    <3> DEFINE m == Greatest(B)
    <3>1. m \in B /\ \A j \in B : j <= m
      BY <1>1, <2>2, EndsOf
    <3>2. Text!TrimRightZeroes(b) = SubSeq(b, 1, m)
      BY <2>2, TrimsAre DEF B
    <3> HIDE DEF m
    <3>3. m \in 1..n /\ m \in 0..n
      BY <1>1, <3>1
    <3>4. \A i \in 1..(n - m) : b[m + i] = 0
      <4>1. \A i \in 1..(n - m) : m + i \in 1..n /\ ~(m + i <= m)
        BY <1>1, <3>3
      <4> QED BY <1>1, <3>1, <4>1
    <3> QED BY <3>2, <3>3, <3>4
  <2> QED BY <2>1, <2>2
<1>8. Text!RightPadBytes(Text!TrimRightZeroes(b), Len(b)) = b
  BY <1>7, PaddedRight DEF n
<1> QED BY <1>2, <1>3, <1>4, <1>6, <1>8 DEF Text!PaddingUndone

-----------------------------------------------------------------------------
(* Ages.                                                                   *)

(* What a part of an age stands for, and what is left of it on the way:    *)
(* nothing is lost, and what is left is less than the last unit.           *)
PartOf(parts, i) == IF i \in DOMAIN parts THEN parts[i][1] * parts[i][2] ELSE 0
Told(parts) == PartOf(parts, 1) + PartOf(parts, 2) + PartOf(parts, 3)
Aged == [rest : Int, parts : Seq(Int \X Int)]
Aging(st, diff) ==
  /\ st \in Aged /\ Len(st.parts) <= 3
  /\ diff = Told(st.parts) + st.rest
  /\ IF st.parts = <<>> THEN st.rest = diff ELSE st.rest >= 0
  /\ Len(st.parts) = 3 => st.rest <= st.parts[3][1] - 1

LEMMA UnitsAre ==
  /\ Len(Text!ageUnits) = 7 /\ DOMAIN Text!ageUnits = 1..7 /\ Text!ageUnits[7] = 1
  /\ \A k \in 1..7 : Text!ageUnits[k] \in Nat \ {0}
<1>1. /\ Text!ageUnits[1] = 31104000 /\ Text!ageUnits[2] = 2592000 /\ Text!ageUnits[3] = 604800
      /\ Text!ageUnits[4] = 86400 /\ Text!ageUnits[5] = 3600 /\ Text!ageUnits[6] = 60 /\ Text!ageUnits[7] = 1
  BY DEF Text!ageUnits
<1>2. Len(Text!ageUnits) = 7 /\ DOMAIN Text!ageUnits = 1..7
  BY DEF Text!ageUnits
<1>3. ASSUME NEW k \in 1..7 PROVE Text!ageUnits[k] \in Nat \ {0}
  <2>1. k = 1 \/ k = 2 \/ k = 3 \/ k = 4 \/ k = 5 \/ k = 6 \/ k = 7
    OBVIOUS
  <2> QED BY <1>1, <2>1
<1> QED BY <1>1, <1>2, <1>3

LEMMA AgeStepTyped ==
  ASSUME NEW st \in Aged, NEW u \in Nat \ {0}
  PROVE  Text!AgeStep(st, u) \in Aged
<1> DEFINE p == st.parts
           q == st.rest \div u
           r == st.rest % u
           e == <<u, q>>
           a == Append(p, e)
<1>1. p \in Seq(Int \X Int) /\ st.rest \in Int
  BY DEF Aged
<1>2. q \in Int /\ r \in Int /\ u \in Int
  BY <1>1, Divided
<1> HIDE DEF q, r
<1>3. e \in Int \X Int
  BY <1>2
<1> HIDE DEF e
<1>4. a \in Seq(Int \X Int)
  BY <1>1, <1>3, AppendProperties
<1> HIDE DEF a
<1>5. [rest |-> r, parts |-> a] \in Aged
  BY <1>2, <1>4 DEF Aged
<1>6. Text!AgeStep(st, u) = IF st.rest > u /\ Len(st.parts) < 3 THEN [rest |-> r, parts |-> a] ELSE st
  BY DEF Text!AgeStep, q, r, e, a
<1> QED BY <1>5, <1>6

(* One more part is told.                                                  *)
LEMMA ToldMore ==
  ASSUME NEW p \in Seq(Int \X Int), Len(p) < 3, NEW u \in Int, NEW q \in Int
  PROVE  LET a == Append(p, <<u, q>>)
         IN /\ a \in Seq(Int \X Int) /\ Len(a) = Len(p) + 1 /\ a # <<>> /\ a[Len(a)] = <<u, q>>
            /\ Told(p) \in Int /\ Told(a) = Told(p) + u * q
<1> DEFINE e == <<u, q>>
           a == Append(p, e)
           n == Len(p)
<1>1. e \in Int \X Int /\ e[1] = u /\ e[2] = q
  OBVIOUS
<1>2. n \in Nat /\ DOMAIN p = 1..n /\ \A i \in 1..n : p[i] \in Int \X Int
  BY LenProperties, ElementOfSeq
<1> HIDE DEF e
<1>3. a \in Seq(Int \X Int) /\ a # <<>> /\ Len(a) = n + 1 /\ (\A i \in 1..n : a[i] = p[i]) /\ a[n + 1] = e
  BY <1>1, AppendProperties
<1>4. DOMAIN a = 1..(n + 1)
  BY <1>3, LenProperties
<1> HIDE DEF a
<1>5. \A i \in 1..n : PartOf(a, i) = PartOf(p, i) /\ PartOf(p, i) \in Int
  <2> SUFFICES ASSUME NEW i \in 1..n PROVE PartOf(a, i) = PartOf(p, i) /\ PartOf(p, i) \in Int
    OBVIOUS
  <2>1. i \in DOMAIN p /\ i \in DOMAIN a /\ a[i] = p[i]
    BY <1>2, <1>3, <1>4
  <2>2. PartOf(p, i) = p[i][1] * p[i][2] /\ PartOf(a, i) = a[i][1] * a[i][2]
    BY <2>1 DEF PartOf
  <2>3. p[i][1] \in Int /\ p[i][2] \in Int
    BY <1>2
  <2>4. p[i][1] * p[i][2] \in Int
    BY <2>3
  <2> QED BY <2>1, <2>2, <2>4
<1>6. PartOf(a, n + 1) = u * q /\ u * q \in Int
  <2>1. n + 1 \in DOMAIN a
    BY <1>2, <1>4
  <2>2. PartOf(a, n + 1) = a[n + 1][1] * a[n + 1][2]
    BY <2>1 DEF PartOf
  <2> QED BY <1>1, <1>3, <2>2
<1>7. \A i \in Nat : i > n => PartOf(p, i) = 0
  BY <1>2 DEF PartOf
<1>8. \A i \in Nat : i > n + 1 => PartOf(a, i) = 0
  BY <1>2, <1>4 DEF PartOf
<1>9. n = 0 \/ n = 1 \/ n = 2
  BY <1>2
<1> HIDE DEF n
<1> DEFINE w == u * q
<1>10. PartOf(a, n + 1) = w /\ w \in Int
  BY <1>6
<1> HIDE DEF w
<1>11. Told(p) \in Int /\ Told(a) = Told(p) + w
  <2>1. CASE n = 0
    <3>1. PartOf(p, 1) = 0 /\ PartOf(p, 2) = 0 /\ PartOf(p, 3) = 0 /\ PartOf(a, 1) = w /\ PartOf(a, 2) = 0 /\ PartOf(a, 3) = 0
      BY <1>7, <1>8, <1>10, <2>1
    <3> QED BY <1>10, <3>1 DEF Told
  <2>2. CASE n = 1
    <3>1. PartOf(a, 1) = PartOf(p, 1) /\ PartOf(p, 1) \in Int /\ PartOf(p, 2) = 0 /\ PartOf(p, 3) = 0 /\ PartOf(a, 2) = w /\ PartOf(a, 3) = 0
      BY <1>5, <1>7, <1>8, <1>10, <2>2
    <3> QED BY <1>10, <3>1 DEF Told
  <2>3. CASE n = 2
    <3>1. PartOf(a, 1) = PartOf(p, 1) /\ PartOf(p, 1) \in Int /\ PartOf(a, 2) = PartOf(p, 2) /\ PartOf(p, 2) \in Int
          /\ PartOf(p, 3) = 0 /\ PartOf(a, 3) = w
      BY <1>5, <1>7, <1>8, <1>10, <2>3
    <3> QED BY <1>10, <3>1 DEF Told
  <2> QED BY <1>9, <2>1, <2>2, <2>3
<1> QED BY <1>3, <1>11 DEF w, a, e, n

(* No unit loses anything of the age.                                      *)
LEMMA AgingStep ==
  ASSUME NEW diff \in Int, NEW st, Aging(st, diff), NEW u \in Nat \ {0}
  PROVE  LET st2 == Text!AgeStep(st, u)
         IN Aging(st2, diff) /\ (Len(st2.parts) < 3 => st2.rest <= u)
<1> DEFINE p == st.parts
           x == st.rest
           q == x \div u
           r == x % u
           a == Append(p, <<u, q>>)
           st2 == Text!AgeStep(st, u)
<1>1. p \in Seq(Int \X Int) /\ x \in Int /\ Len(p) \in Nat /\ Len(p) <= 3
  <2>1. st \in Aged /\ Len(p) <= 3
    BY DEF Aging
  <2>2. p \in Seq(Int \X Int) /\ x \in Int
    BY <2>1 DEF Aged
  <2> QED BY <2>1, <2>2, LenProperties
<1>2. CASE x > u /\ Len(p) < 3
  <2>1. q \in Int /\ r \in 0..(u - 1) /\ x = u * q + r
    BY <1>1, Divided
  <2>2. st2 = [rest |-> r, parts |-> a]
    BY <1>2 DEF Text!AgeStep
  <2> HIDE DEF q, r
  <2>3. a \in Seq(Int \X Int) /\ Len(a) = Len(p) + 1 /\ a # <<>> /\ a[Len(a)] = <<u, q>>
        /\ Told(p) \in Int /\ Told(a) = Told(p) + u * q
    <3>1. p \in Seq(Int \X Int) /\ Len(p) < 3 /\ u \in Int /\ q \in Int
      BY <1>1, <1>2, <2>1
    <3> HIDE DEF p
    <3> QED BY <3>1, ToldMore
  <2>4. diff = Told(p) + x
    BY DEF Aging
  <2> HIDE DEF a, p, x, st2
  <2>5. u * q \in Int
    BY <2>1
  <2>6. diff = Told(a) + r
    BY <2>1, <2>3, <2>4, <2>5
  <2>7. st2 \in Aged
    BY <2>1, <2>2, <2>3 DEF Aged
  <2>8. Len(a) <= 3 /\ r >= 0 /\ r <= u
    BY <1>1, <1>2, <2>1, <2>3
  <2>9. Len(a) = 3 => r <= a[3][1] - 1
    <3> SUFFICES ASSUME Len(a) = 3 PROVE r <= a[3][1] - 1
      OBVIOUS
    <3>1. a[3] = <<u, q>>
      BY <2>3
    <3>2. a[3][1] = u
      BY <3>1
    <3> QED BY <2>1, <3>2
  <2>10. st2.rest = r /\ st2.parts = a
    BY <2>2
  <2>11. Aging(st2, diff)
    BY <2>3, <2>6, <2>7, <2>8, <2>9, <2>10 DEF Aging
  <2> QED BY <2>8, <2>10, <2>11 DEF st2
<1>3. CASE ~(x > u /\ Len(p) < 3)
  <2>1. st2 = st
    BY <1>3 DEF Text!AgeStep
  <2>2. Len(p) < 3 => x <= u
    BY <1>1, <1>3
  <2> QED BY <2>1, <2>2
<1> QED BY <1>2, <1>3

(* The states on the way through the units.                                *)
LEMMA AgeWay ==
  ASSUME NEW diff \in Int
  PROVE  \E c : /\ c[{}] = [rest |-> diff, parts |-> <<>>]
                /\ \A k \in 1..7 : c[1..k] = Text!AgeStep(c[1..(k - 1)], Text!ageUnits[k])
                /\ Text!PrettyAge(diff) = c[1..7].parts
<1> DEFINE n == 7
           base == [rest |-> diff, parts |-> <<>>]
           u == Text!ageUnits
           Body(f, t) == Text!AgeStep(f[t \ {Max(t)}], u[Max(t)])
           P(f) == f = [t \in SUBSET (1..n) |-> IF t = {} THEN base ELSE Body(f, t)]
           c == CHOOSE f : P(f)
           G == [k \in 1..n |-> [v \in Aged |-> Text!AgeStep(v, u[k])]]
<1>1. n \in Nat /\ DOMAIN u = 1..n /\ \A k \in 1..n : u[k] \in Nat \ {0}
  BY UnitsAre
<1>2. base \in Aged
  <2>1. <<>> \in Seq(Int \X Int)
    BY EmptySeq
  <2> QED BY <2>1 DEF Aged
<1>3. Text!PrettyAge(diff) = c[1..n].parts
  BY <1>1 DEF Text!PrettyAge, Text!FoldLeft, Text!MapThenFoldSet, Text!Max, Max, c
<1> HIDE DEF n, base, u
<1>4. G \in [1..n -> [Aged -> Aged]]
  BY <1>1, AgeStepTyped
<1>5. PICK f \in [SUBSET (1..n) -> Aged] : Iterates(f, n, base, G)
  <2> HIDE DEF G
  <2> QED BY <1>1, <1>2, <1>4, FoldExists
<1>6. \A t \in SUBSET (1..n) : t # {} => G[Max(t)][f[t \ {Max(t)}]] = Body(f, t)
  <2> SUFFICES ASSUME NEW t \in SUBSET (1..n), t # {} PROVE G[Max(t)][f[t \ {Max(t)}]] = Body(f, t)
    OBVIOUS
  <2>1. Max(t) \in 1..n /\ f[t \ {Max(t)}] \in Aged
    BY <1>1, MaxExists
  <2> QED BY <2>1
<1>7. P(f)
  <2>1. f = [t \in SUBSET (1..n) |-> IF t = {} THEN base ELSE G[Max(t)][f[t \ {Max(t)}]]]
    BY <1>5 DEF Iterates
  <2>2. \A t \in SUBSET (1..n) :
          (IF t = {} THEN base ELSE G[Max(t)][f[t \ {Max(t)}]]) = IF t = {} THEN base ELSE Body(f, t)
    BY <1>6
  <2> HIDE DEF G, Body
  <2> QED BY <2>1, <2>2, Zenon
<1>8. P(c)
  BY <1>7, Zenon
<1> HIDE DEF c
<1>9. \A t \in SUBSET (1..n) : c[t] = IF t = {} THEN base ELSE Body(c, t)
  <2> HIDE DEF Body
  <2> QED BY <1>8
<1>10. c[{}] = base
  BY <1>9
<1>11. ASSUME NEW k \in 1..n PROVE c[1..k] = Text!AgeStep(c[1..(k - 1)], u[k])
  <2>1. 1..k \in SUBSET (1..n) /\ 1..k # {} /\ Max(1..k) = k /\ (1..k) \ {k} = 1..(k - 1)
    BY <1>1, Turns
  <2> QED BY <1>9, <2>1
<1> QED BY <1>3, <1>10, <1>11 DEF n, base, u

(* An age falls short of the real one by less than its last unit.          *)
LEMMA AgesArePrecise ==
  ASSUME NEW diff \in Int
  PROVE  Text!AgePrecise(diff)
<1>1. PICK c : /\ c[{}] = [rest |-> diff, parts |-> <<>>]
               /\ \A k \in 1..7 : c[1..k] = Text!AgeStep(c[1..(k - 1)], Text!ageUnits[k])
               /\ Text!PrettyAge(diff) = c[1..7].parts
  BY AgeWay
<1> DEFINE T == {k \in Nat : k <= 6 => Aging(c[1..k], diff)}
<1>2. 0 \in T
  <2>1. 1..0 = {}
    OBVIOUS
  <2> DEFINE st == [rest |-> diff, parts |-> <<>>]
  <2>2. st.rest = diff /\ st.parts = <<>>
    OBVIOUS
  <2>3. <<>> \in Seq(Int \X Int) /\ Len(<<>>) = 0
    BY EmptySeq
  <2>4. st \in Aged
    BY <2>3 DEF Aged
  <2>5. Told(<<>>) = 0
    BY DEF Told, PartOf
  <2> HIDE DEF st
  <2>6. Aging(st, diff)
    BY <2>2, <2>3, <2>4, <2>5 DEF Aging
  <2> QED BY <1>1, <2>1, <2>6 DEF st
<1>3. ASSUME NEW k \in Nat, k \in T PROVE k + 1 \in T
  <2> SUFFICES ASSUME k + 1 <= 6 PROVE Aging(c[1..(k + 1)], diff)
    OBVIOUS
  <2> DEFINE j == k + 1
  <2>1. j \in 1..7 /\ j - 1 = k /\ Aging(c[1..k], diff)
    BY <1>3
  <2> HIDE DEF j
  <2>2. c[1..j] = Text!AgeStep(c[1..k], Text!ageUnits[j]) /\ Text!ageUnits[j] \in Nat \ {0}
    BY <1>1, <2>1, UnitsAre
  <2>3. Aging(c[1..j], diff)
    BY <2>1, <2>2, AgingStep
  <2> QED BY <2>3 DEF j
<1> HIDE DEF T
<1>4. Aging(c[1..6], diff)
  <2>1. 6 \in T
    BY <1>2, <1>3, NatSetInduction
  <2> QED BY <2>1 DEF T
<1> DEFINE st == c[1..7]
           p == st.parts
           x == st.rest
<1>5. Aging(st, diff) /\ (Len(p) < 3 => x <= 1)
  <2> DEFINE j == 7
  <2>1. j \in 1..7 /\ j - 1 = 6
    OBVIOUS
  <2>2. c[1..j] = Text!AgeStep(c[1..(j - 1)], Text!ageUnits[j])
    BY <1>1, <2>1
  <2>3. st = Text!AgeStep(c[1..6], 1) /\ 1 \in Nat \ {0}
    BY <2>1, <2>2, UnitsAre
  <2> QED BY <1>4, <2>3, AgingStep
<1>6. Text!PrettyAge(diff) = p
  BY <1>1
<1> HIDE DEF st
<1>7. p \in Seq(Int \X Int) /\ x \in Int
  <2>1. st \in Aged
    BY <1>5 DEF Aging
  <2> QED BY <2>1 DEF Aged
<1>8. Len(p) \in Nat /\ Len(p) <= 3 /\ DOMAIN p = 1..Len(p)
  BY <1>5, <1>7, LenProperties DEF Aging
<1>9. DOMAIN p \subseteq 1..3
  BY <1>8
<1>10. diff > 1 => p # <<>>
  <2> SUFFICES ASSUME p = <<>> PROVE diff <= 1
    OBVIOUS
  <2>1. Len(p) = 0
    BY EmptySeq
  <2>2. x = diff
    BY <1>5 DEF Aging
  <2> QED BY <1>5, <2>1, <2>2
<1>11. ASSUME p # <<>>
       PROVE  x \in 0..(IF Len(p) = 3 THEN p[3][1] - 1 ELSE 1)
  <2>1. x >= 0
    BY <1>5, <1>11 DEF Aging
  <2>2. CASE Len(p) = 3
    <3>1. x <= p[3][1] - 1
      BY <1>5, <2>2 DEF Aging
    <3>2. p[3] \in Int \X Int
      BY <1>7, <2>2, ElementOfSeq
    <3>3. p[3][1] - 1 \in Int
      BY <3>2
    <3> QED BY <1>7, <2>1, <2>2, <3>1, <3>3
  <2>3. CASE Len(p) # 3
    <3>1. Len(p) < 3
      <4> DEFINE n == Len(p)
      <4>1. n \in Nat /\ n <= 3 /\ n # 3
        BY <1>8, <2>3
      <4> HIDE DEF n
      <4>2. n < 3
        BY <4>1
      <4> QED BY <4>2 DEF n
    <3>2. x <= 1
      BY <1>5, <3>1
    <3> QED BY <1>7, <2>1, <2>3, <3>2
  <2> QED BY <2>2, <2>3
<1>12. diff - Told(p) = x
  <2>1. diff = Told(p) + x
    BY <1>5 DEF Aging
  <2>2. Told(p) \in Int
    <3> DEFINE Short(i) == PartOf(p, i) \in Int
    <3>1. \A i \in 1..3 : Short(i)
      <4> SUFFICES ASSUME NEW i \in 1..3 PROVE PartOf(p, i) \in Int
        OBVIOUS
      <4>1. CASE i \in DOMAIN p
        <5>1. p[i] \in Int \X Int
          BY <1>7, <1>8, <4>1, ElementOfSeq
        <5>2. p[i][1] \in Int /\ p[i][2] \in Int
          BY <5>1
        <5>3. p[i][1] * p[i][2] \in Int
          BY <5>2
        <5> QED BY <4>1, <5>3 DEF PartOf
      <4>2. CASE i \notin DOMAIN p
        BY <4>2 DEF PartOf
      <4> QED BY <4>1, <4>2
    <3>2. PartOf(p, 1) \in Int /\ PartOf(p, 2) \in Int /\ PartOf(p, 3) \in Int
      BY <3>1
    <3> QED BY <3>2 DEF Told
  <2> QED BY <1>7, <2>1, <2>2
<1> HIDE DEF p, x
<1>13. /\ DOMAIN p \subseteq 1..3
       /\ diff > 1 => p # <<>>
       /\ p = <<>> \/ diff - Told(p) \in 0..(IF Len(p) = 3 THEN p[3][1] - 1 ELSE 1)
  BY <1>9, <1>10, <1>11, <1>12
<1> QED BY <1>6, <1>13 DEF Text!AgePrecise, Told, PartOf

-----------------------------------------------------------------------------
(* Messages.  What arrives is one of four kinds, told apart by its fields. *)
Arrived ==
  \/ \E m \in Msg!Messages : input = [message |-> m]
  \/ \E t \in Msg!Inputs : input = [text |-> t]
  \/ \E i \in Msg!BlockNumbers : input = [number |-> i]
  \/ \E t \in Msg!Inputs \cup {Msg!Absent}, h \in BOOLEAN : input = [object |-> t, hasHash |-> h]

(* What has become of it, once that is not an answer.                      *)
Read ==
  \/ output = Msg!Unread
  \/ "message" \in DOMAIN input /\ output = Msg!Handled(Msg!handlerImmediate(input.message))
  \/ "text" \in DOMAIN input /\ output = Msg!UnmarshalNumberOrHash(input.text)
  \/ "object" \in DOMAIN input /\ output = Msg!UnmarshalObject(input.object, input.hasHash)
  \/ "number" \in DOMAIN input /\ output = Msg!UnmarshalBlockNumber(Msg!MarshalBlockNumber(input.number))
Answered ==
  /\ "message" \in DOMAIN input /\ Msg!isCall(input.message)
  /\ \E outcome \in Msg!Outcomes : output = Msg!runMethod(input.message, outcome)

MsgInv == Arrived /\ (Read \/ Answered)

(* A result of reading has two fields, and no code.                        *)
LEMMA ReadIsPair ==
  ASSUME NEW t, NEW h, NEW m
  PROVE  /\ DOMAIN Msg!UnmarshalBlockNumber(t) = {"kind", "n"}
         /\ DOMAIN Msg!UnmarshalNumberOrHash(t) = {"kind", "n"}
         /\ DOMAIN Msg!UnmarshalObject(t, h) = {"kind", "n"}
         /\ DOMAIN Msg!Handled(m) = {"kind", "n"}
         /\ DOMAIN Msg!Unread = {"kind", "n"}
BY DEF Msg!UnmarshalBlockNumber, Msg!UnmarshalNumberOrHash, Msg!UnmarshalObject, Msg!Handled, Msg!Unread, Msg!Invalid

LEMMA ReadKinds ==
  ASSUME NEW t, NEW h
  PROVE  /\ Msg!UnmarshalBlockNumber(t).kind # "later"
         /\ Msg!UnmarshalNumberOrHash(t).kind # "later"
         /\ Msg!UnmarshalObject(t, h).kind # "later"
         /\ Msg!Unread.kind # "later"
BY DEF Msg!UnmarshalBlockNumber, Msg!UnmarshalNumberOrHash, Msg!UnmarshalObject, Msg!Unread, Msg!Invalid

LEMMA KindsDiffer ==
  ASSUME Arrived
  PROVE  /\ "message" \in DOMAIN input => input.message \in Msg!Messages
         /\ "message" \in DOMAIN input => {"text", "number", "object"} \cap DOMAIN input = {}
         /\ "text" \in DOMAIN input => {"message", "number", "object"} \cap DOMAIN input = {}
         /\ "number" \in DOMAIN input => {"message", "text", "object"} \cap DOMAIN input = {}
         /\ "object" \in DOMAIN input => {"message", "text", "number"} \cap DOMAIN input = {}
         /\ "number" \in DOMAIN input => input.number \in Msg!BlockNumbers
         /\ "text" \in DOMAIN input => input.text \in Msg!Inputs
         /\ "object" \in DOMAIN input => input.object \in Msg!Inputs \cup {Msg!Absent} /\ input.hasHash \in BOOLEAN
BY DEF Arrived

(* The texts of a request, and what is read of each.                       *)
LEMMA BlockNumberKept ==
  ASSUME NEW i \in Msg!BlockNumbers
  PROVE  Msg!UnmarshalBlockNumber(Msg!MarshalBlockNumber(i)) =
           IF i >= Msg!Tag.safe THEN [kind |-> "number", n |-> i] ELSE Msg!Invalid
<1> DEFINE tag == Msg!Tag
<1>1. /\ DOMAIN tag = {"safe", "finalized", "pending", "latest", "earliest"}
      /\ tag["safe"] = -4 /\ tag["finalized"] = -3 /\ tag["pending"] = -2 /\ tag["latest"] = -1 /\ tag["earliest"] = 0
  BY DEF Msg!Tag
<1>2. i \in Int /\ -(MaxInt64 + 1) <= i /\ i <= MaxInt64 /\ MaxInt64 \in Nat /\ MaxUint64 + 1 = 2 * (MaxInt64 + 1)
  BY NumbersAssumption DEF Msg!BlockNumbers
<1> HIDE DEF tag
<1>3. CASE \E s \in DOMAIN tag : tag[s] = i
  <2> DEFINE s == CHOOSE s \in DOMAIN tag : tag[s] = i
  <2>1. s \in DOMAIN tag /\ tag[s] = i
    BY <1>3
  <2>2. Msg!MarshalBlockNumber(i) = [kind |-> "tag", tag |-> s]
    BY <1>3 DEF Msg!MarshalBlockNumber, tag
  <2> HIDE DEF s
  <2>3. Msg!UnmarshalBlockNumber([kind |-> "tag", tag |-> s]) = [kind |-> "number", n |-> tag[s]]
    BY DEF Msg!UnmarshalBlockNumber, tag
  <2>4. i >= -4
    BY <1>1, <2>1
  <2> QED BY <1>1, <2>1, <2>2, <2>3, <2>4 DEF tag
<1>4. CASE ~\E s \in DOMAIN tag : tag[s] = i
  <2> DEFINE k == i % (MaxUint64 + 1)
  <2>1. Msg!MarshalBlockNumber(i) = [kind |-> "hex", n |-> k]
    BY <1>4 DEF Msg!MarshalBlockNumber, tag
  <2>2. i # 0 /\ i # -1 /\ i # -2 /\ i # -3 /\ i # -4
    BY <1>1, <1>4
  <2>3. k = IF i > 0 THEN i ELSE i + 2 * (MaxInt64 + 1)
    BY <1>2, <2>2
  <2> HIDE DEF k
  <2>4. Msg!UnmarshalBlockNumber([kind |-> "hex", n |-> k]) =
          IF k <= MaxInt64 THEN [kind |-> "number", n |-> k] ELSE Msg!Invalid
    BY DEF Msg!UnmarshalBlockNumber
  <2>5. i > 0 <=> i >= -4
    BY <1>2, <2>2
  <2>6. k <= MaxInt64 <=> i > 0
    BY <1>2, <2>2, <2>3
  <2> QED BY <1>1, <2>1, <2>3, <2>4, <2>5, <2>6 DEF tag
<1> QED BY <1>3, <1>4

LEMMA TextRead ==
  ASSUME NEW t \in Msg!Inputs
  PROVE  Msg!UnmarshalBlockNumber(t) # Msg!Invalid => Msg!UnmarshalNumberOrHash(t) = Msg!UnmarshalBlockNumber(t)
BY DEF Msg!UnmarshalBlockNumber, Msg!UnmarshalNumberOrHash

LEMMA ObjectRead ==
  ASSUME NEW t, t # Msg!Absent, NEW h \in BOOLEAN
  PROVE  Msg!UnmarshalObject(t, h) = IF h THEN Msg!Invalid ELSE Msg!UnmarshalBlockNumber(t)
BY DEF Msg!UnmarshalObject

(* An answer is a response to the call, and an error or a result.          *)
LEMMA AnswerIs ==
  ASSUME NEW m \in Msg!Messages, Msg!isCall(m), NEW outcome \in Msg!Outcomes
  PROVE  LET r == Msg!runMethod(m, outcome)
         IN /\ DOMAIN r = {"version", "id", "method", "params", "error", "result", "code"}
            /\ Msg!isResponse(r) /\ r.id = m.id /\ r.error # r.result /\ Msg!handlerImmediate(r) = "response"
<1> DEFINE r == Msg!runMethod(m, outcome)
<1>1. \A kind, e : LET q == [Msg!errorMessage(kind) EXCEPT !.id = e] IN
        /\ DOMAIN q = {"version", "id", "method", "params", "error", "result", "code"}
        /\ q.version = TRUE /\ q.id = e /\ q.method = "" /\ q.params = FALSE /\ q.error = TRUE /\ q.result = FALSE
  BY DEF Msg!errorMessage
<1>2. LET q == Msg!response(m, TRUE) IN
        /\ DOMAIN q = {"version", "id", "method", "params", "error", "result", "code"}
        /\ q.version = TRUE /\ q.id = m.id /\ q.method = "" /\ q.params = FALSE /\ q.error = FALSE /\ q.result = TRUE
  BY DEF Msg!response, Msg!errorMessage
<1>3. r = Msg!response(m, TRUE) \/ \E kind : r = [Msg!errorMessage(kind) EXCEPT !.id = m.id]
  BY DEF Msg!runMethod, Msg!response, Msg!errResponse
<1> HIDE DEF r
<1>4. /\ DOMAIN r = {"version", "id", "method", "params", "error", "result", "code"}
      /\ r.version = TRUE /\ r.id = m.id /\ r.method = "" /\ r.params = FALSE
      /\ (r.error = TRUE /\ r.result = FALSE) \/ (r.error = FALSE /\ r.result = TRUE)
  <2>1. CASE r = Msg!response(m, TRUE)
    BY <1>2, <2>1
  <2>2. CASE \E kind : r = [Msg!errorMessage(kind) EXCEPT !.id = m.id]
    <3>1. PICK kind : r = [Msg!errorMessage(kind) EXCEPT !.id = m.id]
      BY <2>2
    <3> QED BY <1>1, <3>1
  <2> QED BY <1>3, <2>1, <2>2
<1>5. m.id \notin {"absent", "object", "array"}
  BY DEF Msg!isCall, Msg!hasValidID
<1>6. Msg!isResponse(r)
  BY <1>4, <1>5 DEF Msg!isResponse, Msg!hasValidID
<1>7. Msg!handlerImmediate(r) = "response"
  BY <1>4, <1>6 DEF Msg!handlerImmediate, Msg!isNotification
<1> QED BY <1>4, <1>6, <1>7 DEF r

LEMMA MsgStep ==
  ASSUME MsgInv, [Msg!Next]_msgVars
  PROVE  MsgInv'
<1>1. CASE UNCHANGED msgVars
  BY <1>1 DEF MsgInv, Arrived, Read, Answered, msgVars
<1>2. CASE Msg!Next
  <2>1. input' = input
    BY <1>2 DEF Msg!Next
  <2>2. Arrived'
    BY <2>1 DEF MsgInv, Arrived
  <2>3. CASE Msg!Handle \/ Msg!ReadText \/ Msg!ReadObject \/ Msg!ReadNumber
    BY <2>1, <2>2, <2>3 DEF MsgInv, Read, Msg!Handle, Msg!ReadText, Msg!ReadObject, Msg!ReadNumber
  <2>4. CASE Msg!Run
    <3>1. output = Msg!Handled("later") /\ Msg!isCall(input.message)
      BY <2>4 DEF Msg!Run
    <3>2. "message" \in DOMAIN input
      <4>1. output.kind = "later" /\ DOMAIN output = {"kind", "n"}
        BY <3>1 DEF Msg!Handled
      <4>2. CASE Read
        BY <4>1, <4>2, ReadKinds DEF Read
      <4>3. CASE Answered
        BY <4>3 DEF Answered
      <4> QED BY <4>2, <4>3 DEF MsgInv
    <3> QED BY <2>1, <2>2, <2>4, <3>1, <3>2 DEF MsgInv, Answered, Msg!Run
  <2> QED BY <1>2, <2>3, <2>4 DEF Msg!Next
<1> QED BY <1>1, <1>2

(* rpc/types.go, rpc/json.go, rpc/handler.go: for a signed type of any     *)
(* width a block number is read as it was written or refused, whatever of  *)
(* the three forms it has, and the answer to any call, whatever its        *)
(* callback ended in, is a response to that call and to no other.          *)
THEOREM MessagesAreSound == MsgSpec => []MessagesSound
<1>1. Msg!Init => MsgInv
  BY DEF Msg!Init, MsgInv, Arrived, Read
<1>2. MsgInv /\ [Msg!Next]_msgVars => MsgInv'
  BY MsgStep
<1>3. MsgInv => MessagesSound
  <2> SUFFICES ASSUME MsgInv PROVE MessagesSound
    OBVIOUS
  <2>1. Msg!BlockNumbersKept
    <3> SUFFICES ASSUME output # Msg!Unread
                 PROVE  /\ "number" \in DOMAIN input =>
                             output = IF input.number >= Msg!Tag.safe THEN [kind |-> "number", n |-> input.number] ELSE Msg!Invalid
                        /\ "text" \in DOMAIN input /\ Msg!UnmarshalBlockNumber(input.text) # Msg!Invalid =>
                             output = Msg!UnmarshalBlockNumber(input.text)
                        /\ "object" \in DOMAIN input /\ input.object # Msg!Absent =>
                             output = IF input.hasHash THEN Msg!Invalid ELSE Msg!UnmarshalBlockNumber(input.object)
      BY DEF Msg!BlockNumbersKept
    <3>1. "number" \in DOMAIN input => output = Msg!UnmarshalBlockNumber(Msg!MarshalBlockNumber(input.number))
      BY KindsDiffer DEF MsgInv, Read, Answered
    <3>2. "text" \in DOMAIN input => output = Msg!UnmarshalNumberOrHash(input.text)
      BY KindsDiffer DEF MsgInv, Read, Answered
    <3>3. "object" \in DOMAIN input => output = Msg!UnmarshalObject(input.object, input.hasHash)
      BY KindsDiffer DEF MsgInv, Read, Answered
    <3>4. Arrived
      BY DEF MsgInv
    <3> QED BY <3>1, <3>2, <3>3, <3>4, KindsDiffer, BlockNumberKept, TextRead, ObjectRead
  <2>2. Msg!AnswersAreResponses
    <3> SUFFICES ASSUME "code" \in DOMAIN output
                 PROVE  Msg!isResponse(output) /\ output.id = input.message.id /\ output.error # output.result
                        /\ Msg!handlerImmediate(output) = "response"
      BY DEF Msg!AnswersAreResponses
    <3>1. ~Read
      BY ReadIsPair DEF Read
    <3>2. Answered
      BY <3>1 DEF MsgInv
    <3> QED BY <3>2, KindsDiffer, AnswerIs DEF MsgInv, Answered
  <2> QED BY <2>1, <2>2 DEF MessagesSound
<1> QED BY <1>1, <1>2, <1>3, PTL DEF MsgSpec

-----------------------------------------------------------------------------
(* What can be given: a text, a number, or bytes to pad.                   *)
TextsInv ==
  \/ given = Nothing
  \/ \E s \in Seq(STRING) : given = [of |-> "text", text |-> s]
  \/ \E n \in Int : given = [of |-> "number", number |-> n]
  \/ \E b \in Seq(Nat), l \in Nat : given = [of |-> "padding", bytes |-> b, number |-> l]

(* The readers and writers of texts do what they promise, for all sizes of *)
(* numbers, words and hashes: whatever text, number or bytes they are      *)
(* given (hexutil/json.go, hexutil.go, common/types.go, bytes.go,          *)
(* format.go), and whatever message is answered (rpc/json.go).             *)
THEOREM TextsAreSound == TextsSpec /\ MsgSpec => []TextsSound
<1>1. given = Nothing => TextsInv
  BY DEF TextsInv
<1>2. TextsInv /\ [given = Nothing /\ (GiveText(Seq(STRING)) \/ GiveNumber(Int) \/ GivePadding(Seq(Nat), Nat))]_given
        => TextsInv'
  BY DEF TextsInv, GiveText, GiveNumber, GivePadding
<1>3. TextsInv /\ MessagesSound => TextsSound
  <2> SUFFICES ASSUME TextsInv, MessagesSound PROVE TextsSound
    OBVIOUS
  <2>1. CASE given = Nothing
    BY <2>1 DEF TextsSound, Nothing
  <2>2. ASSUME NEW s \in Seq(STRING), given = [of |-> "text", text |-> s] PROVE TextsSound
    <3>1. given.of = "text" /\ given.text = s
      BY <2>2
    <3>2. STRING \subseteq Chars
      BY DEF Chars
    <3>3. s \in Seq(Chars)
      BY <3>2, SeqMonotonic
    <3> HIDE DEF Chars
    <3>4. Text!NumbersAgree(s) /\ Text!BytesAgree(s) /\ Text!ReadersAgree(s) /\ Text!MixedcaseKept(s)
      BY <3>3, NumbersAreAgreed, BytesAreAgreed, ReadersAreAgreed, MixedcaseIsKept
    <3> QED BY <3>1, <3>4 DEF TextsSound
  <2>3. ASSUME NEW n \in Int, given = [of |-> "number", number |-> n] PROVE TextsSound
    <3>1. given.of = "number" /\ given.number = n
      BY <2>3
    <3> QED BY <3>1, NumbersAreKept, AgesArePrecise DEF TextsSound
  <2>4. ASSUME NEW b \in Seq(Nat), NEW l \in Nat, given = [of |-> "padding", bytes |-> b, number |-> l]
        PROVE  TextsSound
    <3>1. given.of = "padding" /\ given.bytes = b /\ given.number = l
      BY <2>4
    <3> QED BY <3>1, PaddingIsUndone DEF TextsSound
  <2> QED BY <2>1, <2>2, <2>3, <2>4 DEF TextsInv
<1>4. MsgSpec => []MessagesSound
  BY MessagesAreSound
<1> QED BY <1>1, <1>2, <1>3, <1>4, PTL DEF TextsSpec

=============================================================================
