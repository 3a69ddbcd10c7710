---------------------------- MODULE CodecProofs ----------------------------
(***************************************************************************)
(* Proofs about Codecs, for all values of its constants: the blocks of a   *)
(* digest, the rounds of keccakF1600, and what the functions on numbers    *)
(* make of any input.                                                      *)
(***************************************************************************)
EXTENDS TextProofs

-----------------------------------------------------------------------------
(* The digest.  Of the sizes the package has only 28 leaves a positive     *)
(* rate, of one lane; a digest whose calls all went well is determined by  *)
(* the number w + t of bytes it has absorbed, t of them in this Write.     *)
Absorbed(w, t) ==
  [absorbed |-> w + t, block |-> Hash!LastBlock(w + t), blocks |-> Hash!FullBlocks(w + t), taken |-> t, fate |-> "ok"]
Panicked(m) == [Absorbed(m, 0) EXCEPT !.fate = "panics"]

SumRight ==
  sum # Hash!NoSum =>
    /\ sum.blocks = Append(Hash!FullBlocks(sum.of),
         Hash!LastBlock(sum.of) \cup {<<sum.of % Hash!rate, "open">>, <<Hash!rate - 1, "close">>})
    /\ \A j \in 0..(outputSize - 1) : sum.bytes[j] = <<j \div Hash!rate, j % Hash!rate>>

HashInv ==
  /\ outputSize \in OutputSizes /\ absorbed \in Nat
  /\ IF Hash!rate = 8 THEN (fate = "ok" => digest = Absorbed(absorbed, 0)) /\ SumRight
     ELSE sum = Hash!NoSum

LEMMA Rates ==
  ASSUME outputSize \in OutputSizes
  PROVE  Hash!rate = 8 \/ Hash!rate <= 0
BY SizesAssumption DEF Hash!rate, Hash!stateSize, Hash!laneSize

(* A whole lane more is a block more.                                      *)
LEMMA BlockMore ==
  ASSUME Hash!rate = 8, NEW m \in Nat, NEW k \in 1..8, (m + k) % 8 = 0, k = 8 - (m % 8)
  PROVE  /\ Hash!FullBlocks(m + k) = Append(Hash!FullBlocks(m), {<<i, m - (m % 8) + i>> : i \in 0..7})
         /\ Hash!LastBlock(m + k) = {}
<1> DEFINE q == m \div 8
           B(b) == {<<i, (b - 1) * 8 + i>> : i \in 0..7}
           full == [b \in 1..q |-> B(b)]
           more == [b \in 1..(q + 1) |-> B(b)]
<1>1. q \in Nat /\ m = 8 * q + (m % 8) /\ (m + k) \div 8 = q + 1 /\ m % 8 \in 0..7
  <2>1. q \in Nat /\ m = 8 * q + (m % 8) /\ m % 8 \in 0..7
    OBVIOUS
  <2>2. m + k = 8 * (q + 1)
    BY <2>1
  <2> HIDE DEF q
  <2> QED BY <2>1, <2>2
<1>2. Hash!FullBlocks(m) = full /\ Hash!FullBlocks(m + k) = more
  BY <1>1 DEF Hash!FullBlocks
<1> HIDE DEF q
<1>3. \A b \in 1..(q + 1) : B(b) \in SUBSET (Int \X Int)
  BY <1>1
<1>4. {<<i, m - (m % 8) + i>> : i \in 0..7} = B(q + 1)
  BY <1>1
<1> HIDE DEF B
<1>5. full \in Seq(SUBSET (Int \X Int)) /\ more \in Seq(SUBSET (Int \X Int)) /\ B(q + 1) \in SUBSET (Int \X Int)
  BY <1>1, <1>3
<1>6. Len(full) = q /\ Len(more) = q + 1
  BY <1>1, <1>5
<1> DEFINE app == Append(full, B(q + 1))
<1>7. /\ app \in Seq(SUBSET (Int \X Int)) /\ Len(app) = q + 1
      /\ \A b \in 1..q : app[b] = full[b]
      /\ app[q + 1] = B(q + 1)
  <2> HIDE DEF full, more
  <2> QED BY <1>5, <1>6, AppendProperties
<1>8. \A b \in 1..Len(app) : app[b] = more[b]
  <2>1. \A b \in 1..q : full[b] = B(b) /\ b \in 1..(q + 1)
    BY <1>1
  <2>2. \A b \in 1..(q + 1) : b \in 1..q \/ b = q + 1
    BY <1>1
  <2>3. \A b \in 1..(q + 1) : more[b] = B(b)
    OBVIOUS
  <2> HIDE DEF app, more, full
  <2> QED BY <1>7, <2>1, <2>2, <2>3
<1>9. app = more
  <2> HIDE DEF app, more, full
  <2> QED BY <1>5, <1>6, <1>7, <1>8, SeqEqual
<1>10. Hash!LastBlock(m + k) = {}
  BY DEF Hash!LastBlock
<1> QED BY <1>2, <1>4, <1>9, <1>10

(* What AbsorbFirst leaves to do: nothing, whole lanes from the start of   *)
(* one, or a panic.                                                        *)
Aligned(m, len, t) == t \in 0..len /\ ((m + t) % 8 = 0 \/ len = 0)

LEMMA FirstLane ==
  ASSUME Hash!rate = 8, absorbed \in Nat, NEW len \in Nat
  PROVE  LET d == Hash!AbsorbFirst(Absorbed(absorbed, 0), len) IN
           \/ d = Panicked(absorbed) /\ len # 0 /\ (absorbed % 8) + len < 8
           \/ \E t \in 0..len : Aligned(absorbed, len, t) /\ d = Absorbed(absorbed, t)
<1> DEFINE w == absorbed
           d0 == Absorbed(w, 0)
           off == w % 8
           k == 8 - off
           d == Hash!AbsorbFirst(d0, len)
<1>1. Hash!InRate(w) = off /\ off \in 0..7 /\ off % 8 = off /\ k \in 1..8
  BY DEF Hash!InRate
<1>0. d0 = [absorbed |-> w, block |-> Hash!LastBlock(w), blocks |-> Hash!FullBlocks(w), taken |-> 0, fate |-> "ok"]
  <2>1. w + 0 = w
    OBVIOUS
  <2> QED BY <2>1 DEF Absorbed
<1>2. d = IF len = 0 \/ (off = 0 /\ len >= 8) THEN d0
          ELSE IF k > len THEN [d0 EXCEPT !.fate = "panics"]
          ELSE Hash!PermuteIfFull(Hash!unalignedAbsorb(d0, k))
  BY <1>1 DEF Hash!AbsorbFirst, Hash!minInt, Hash!laneSize, Absorbed
<1>3. CASE len = 0 \/ (off = 0 /\ len >= 8)
  <2>1. d = d0
    BY <1>2, <1>3
  <2>2. 0 \in 0..len /\ Aligned(w, len, 0)
    BY <1>3 DEF Aligned
  <2> QED BY <2>1, <2>2
<1>4. CASE ~(len = 0 \/ (off = 0 /\ len >= 8)) /\ k > len
  <2>1. d = Panicked(w)
    BY <1>2, <1>4 DEF Panicked
  <2>2. len # 0 /\ off + len < 8
    BY <1>1, <1>4
  <2> QED BY <2>1, <2>2
<1>5. CASE ~(len = 0 \/ (off = 0 /\ len >= 8)) /\ ~(k > len)
  <2>0. off \in 1..7 /\ k \in 1..7 /\ k <= len
    BY <1>1, <1>5
  <2>1. (w + k) % 8 = 0 /\ w + k \in Nat /\ (w + k) % 8 = 0
    <3>1. w = 8 * (w \div 8) + off /\ w \div 8 \in Nat
      OBVIOUS
    <3>2. w + k = 8 * ((w \div 8) + 1)
      BY <3>1
    <3> QED BY <3>1, <3>2, <2>0
  <2> DEFINE e == Hash!unalignedAbsorb(d0, k)
             B == {<<i, w - (w % 8) + i>> : i \in 0..7}
  <2>2. e = [absorbed |-> w + k, taken |-> k, fate |-> "ok", blocks |-> Hash!FullBlocks(w), block |-> B]
    <3> DEFINE C == {<<off + i, w + 0 + i>> : i \in {i \in 0..(k - 1) : off + i < 8}}
    <3>1. e = [absorbed |-> w + k, taken |-> k, fate |-> "ok", blocks |-> Hash!FullBlocks(w),
               block |-> Hash!LastBlock(w) \cup C]
      <4>1. d0.absorbed = w /\ d0.taken = 0 /\ d0.block = Hash!LastBlock(w) /\ 0 + k = k
        BY <1>0
      <4>2. e = [d0 EXCEPT !.absorbed = w + k, !.taken = 0 + k, !.block = Hash!LastBlock(w) \cup C]
        <5> DEFINE Shifted(o, m) == {<<o + i, m + i>> : i \in {i \in 0..(k - 1) : (o % 8) + i < 8}}
        <5>1. e = [d0 EXCEPT !.absorbed = @ + k, !.taken = @ + k,
                             !.block = @ \cup Shifted(Hash!InRate(d0.absorbed), w + d0.taken)]
          <6> HIDE DEF d0, k
          <6> QED BY DEF Hash!unalignedAbsorb, Hash!laneSize
        <5>2. Hash!InRate(d0.absorbed) = off /\ d0.taken = 0
          BY <1>1, <4>1
        <5>3. Shifted(off, w + 0) = C
          BY <1>1
        <5> HIDE DEF d0, k, off, Shifted, C, e
        <5> QED BY <4>1, <5>1, <5>2, <5>3
      <4> HIDE DEF C, d0, e, k
      <4> QED BY <1>0, <4>1, <4>2
    <3>2. Hash!LastBlock(w) = {<<i, w - off + i>> : i \in 0..(off - 1)}
      BY DEF Hash!LastBlock
    <3>3. ASSUME NEW i \in 0..7
          PROVE  <<i, w - off + i>> \in Hash!LastBlock(w) \cup C
      <4>1. CASE i <= off - 1
        BY <3>2, <4>1, <2>0
      <4>2. CASE i > off - 1
        <5> DEFINE j == i - off
        <5>1. j \in 0..(k - 1) /\ off + j < 8 /\ off + j = i /\ w + 0 + j = w - off + i
          BY <4>2, <2>0
        <5>2. <<off + j, w + 0 + j>> \in C
          BY <5>1
        <5> QED BY <5>1, <5>2
      <4> QED BY <4>1, <4>2, <2>0
    <3>4. ASSUME NEW x \in Hash!LastBlock(w) \cup C PROVE x \in B
      <4>1. CASE x \in Hash!LastBlock(w)
        BY <3>2, <4>1, <2>0
      <4>2. CASE x \in C
        <5>1. PICK j \in 0..(k - 1) : off + j < 8 /\ x = <<off + j, w + 0 + j>>
          BY <4>2
        <5>2. off + j \in 0..7 /\ w + 0 + j = w - off + (off + j)
          BY <5>1, <2>0
        <5> QED BY <5>1, <5>2
      <4> QED BY <4>1, <4>2
    <3>5. Hash!LastBlock(w) \cup C = B
      BY <3>3, <3>4
    <3> HIDE DEF C, B
    <3> QED BY <3>1, <3>5
  <2>3. Hash!InRate(w + k) = 0
    BY <2>1 DEF Hash!InRate
  <2> HIDE DEF e
  <2>4. Hash!PermuteIfFull(e) =
          [absorbed |-> w + k, taken |-> k, fate |-> "ok", blocks |-> Append(Hash!FullBlocks(w), B), block |-> {}]
    <3> HIDE DEF B
    <3> QED BY <2>2, <2>3 DEF Hash!PermuteIfFull, Hash!keccakF1600
  <2>5. Hash!FullBlocks(w + k) = Append(Hash!FullBlocks(w), B) /\ Hash!LastBlock(w + k) = {}
    <3>1. w \in Nat /\ k = 8 - (w % 8) /\ k \in 1..8 /\ (w + k) % 8 = 0
      BY <1>1, <2>1
    <3> HIDE DEF k, B
    <3>2. /\ Hash!FullBlocks(w + k) = Append(Hash!FullBlocks(w), {<<i, w - (w % 8) + i>> : i \in 0..7})
          /\ Hash!LastBlock(w + k) = {}
      BY <3>1, BlockMore
    <3> QED BY <3>2 DEF B
  <2>6. d = Absorbed(w, k)
    BY <1>2, <1>5, <2>4, <2>5 DEF e, Absorbed
  <2> QED BY <2>0, <2>1, <2>6 DEF Aligned
<1> QED BY <1>3, <1>4, <1>5

(* A turn of AbsorbLanes takes one lane, which is a block, if there is one.*)
LEMMA OneLane ==
  ASSUME Hash!rate = 8, absorbed \in Nat, NEW len \in Nat, NEW t \in 0..len, Aligned(absorbed, len, t)
  PROVE  Hash!AbsorbLanes(Absorbed(absorbed, t), len) =
           IF len - t < 8 THEN Absorbed(absorbed, t) ELSE Absorbed(absorbed, t + 8)
<1> DEFINE w == absorbed
           d == Absorbed(w, t)
<1>1. CASE len - t < 8
  <2>1. len - d.taken < Hash!laneSize
    BY <1>1 DEF Absorbed, Hash!laneSize
  <2> HIDE DEF d
  <2>2. Hash!AbsorbLanes(d, len) = d
    BY <2>1, Zenon DEF Hash!AbsorbLanes
  <2> QED BY <1>1, <2>2 DEF d
<1>2. CASE ~(len - t < 8)
  <2> DEFINE B == {<<i, w + t + i>> : i \in 0..7}
  <2>1. (w + t) % 8 = 0 /\ w + t \in Nat /\ (w + t + 8) % 8 = 0 /\ 8 <= len - t
    BY <1>2 DEF Aligned
  <2>2. /\ d = [absorbed |-> w + t, block |-> {}, blocks |-> Hash!FullBlocks(w + t), taken |-> t, fate |-> "ok"]
        /\ d.absorbed = w + t /\ d.fate = "ok" /\ d.taken = t
    <3>1. Hash!LastBlock(w + t) = {}
      BY <2>1 DEF Hash!LastBlock
    <3> QED BY <3>1 DEF Absorbed
  <2>3. Hash!InRate(d.absorbed) = 0
    BY <2>1, <2>2 DEF Hash!InRate
  <2> DEFINE Lane(o, m) == {<<o * 8 + i, m + i>> : i \in 0..(8 - 1)}
             e == [d EXCEPT !.absorbed = @ + 8, !.taken = @ + 8, !.block = @ \cup Lane(0, w + d.taken)]
  <2>4. Hash!AbsorbLanes(d, len) = Hash!PermuteIfFull(e)
    <3> DEFINE first == Hash!InRate(d.absorbed) \div Hash!laneSize
               last == Hash!rate \div Hash!laneSize
               bytes == (last - first) * Hash!laneSize
    <3>1. first = 0 /\ bytes = 8
      BY <2>3 DEF Hash!laneSize
    <3>2. ~(d.fate # "ok" \/ len - d.taken < Hash!laneSize) /\ ~(bytes <= 0) /\ ~(bytes > len - d.taken)
      BY <2>1, <2>2, <3>1 DEF Hash!laneSize
    <3> HIDE DEF d
    <3>3. Hash!AbsorbLanes(d, len) =
            Hash!PermuteIfFull([d EXCEPT !.absorbed = @ + bytes, !.taken = @ + bytes,
               !.block = @ \cup {<<first * Hash!laneSize + i, absorbed + d.taken + i>> : i \in 0..(bytes - 1)}])
      BY <3>2, Zenon DEF Hash!AbsorbLanes, Hash!minInt
    <3>4. {<<first * Hash!laneSize + i, absorbed + d.taken + i>> : i \in 0..(bytes - 1)} = Lane(0, w + d.taken)
      BY <3>1 DEF Hash!laneSize
    <3> HIDE DEF bytes, first, Lane
    <3> QED BY <3>1, <3>3, <3>4
  <2>5. Lane(0, w + d.taken) = B
    BY <2>2
  <2>6. e = [absorbed |-> w + t + 8, block |-> B, blocks |-> Hash!FullBlocks(w + t), taken |-> t + 8, fate |-> "ok"]
    <3>1. {} \cup B = B
      OBVIOUS
    <3>2. w + t + 8 = (w + t) + 8
      OBVIOUS
    <3> HIDE DEF B, d, Lane
    <3>3. /\ d = [absorbed |-> w + t, block |-> {}, blocks |-> Hash!FullBlocks(w + t), taken |-> t, fate |-> "ok"]
          /\ e = [d EXCEPT !.absorbed = @ + 8, !.taken = @ + 8, !.block = @ \cup B]
      BY <2>2, <2>5
    <3> HIDE DEF e
    <3> QED BY <3>1, <3>2, <3>3
  <2>7. Hash!InRate(w + t + 8) = 0
    BY <2>1 DEF Hash!InRate
  <2> HIDE DEF e
  <2>8. Hash!PermuteIfFull(e) = [absorbed |-> w + t + 8, block |-> {}, taken |-> t + 8, fate |-> "ok",
                                 blocks |-> Append(Hash!FullBlocks(w + t), B)]
    <3> HIDE DEF B
    <3> QED BY <2>6, <2>7 DEF Hash!PermuteIfFull, Hash!keccakF1600
  <2>9. Hash!FullBlocks(w + t + 8) = Append(Hash!FullBlocks(w + t), B) /\ Hash!LastBlock(w + t + 8) = {}
    <3> DEFINE m == w + t
    <3>1. m \in Nat /\ 8 \in 1..8 /\ (m + 8) % 8 = 0 /\ 8 = 8 - (m % 8) /\ m - (m % 8) = m
      BY <2>1
    <3>2. B = {<<i, m - (m % 8) + i>> : i \in 0..7}
      BY <3>1
    <3> HIDE DEF m, B
    <3>3. Hash!FullBlocks(m + 8) = Append(Hash!FullBlocks(m), B) /\ Hash!LastBlock(m + 8) = {}
      BY <3>1, <3>2, BlockMore
    <3> QED BY <3>3 DEF m
  <2>10. w + (t + 8) = w + t + 8
    BY <2>1
  <2> QED BY <1>2, <2>4, <2>8, <2>9, <2>10 DEF Absorbed
<1> QED BY <1>1, <1>2

(* All turns together: a panic, or less than a lane is left.               *)
LEMMA AllLanes ==
  ASSUME Hash!rate = 8, absorbed \in Nat, NEW len \in Nat, NEW d0,
         d0 = Panicked(absorbed) \/ \E t \in 0..len : Aligned(absorbed, len, t) /\ d0 = Absorbed(absorbed, t)
  PROVE  LET d == Hash!FoldLeft(LAMBDA d, i : Hash!AbsorbLanes(d, len), d0, [i \in 1..(len \div 8) |-> i]) IN
           \/ d = Panicked(absorbed) /\ d0 = Panicked(absorbed)
           \/ \E t \in 0..len : Aligned(absorbed, len, t) /\ len - t < 8 /\ d = Absorbed(absorbed, t)
<1> DEFINE w == absorbed
           n == len \div 8
           A == {t \in 0..len : Aligned(w, len, t)}
           R == {Panicked(w)} \cup {Absorbed(w, t) : t \in A}
           Turn(d) == Hash!AbsorbLanes(d, len)
           G == [i \in 1..n |-> [d \in R |-> Turn(d)]]
           P(f) == f = [s \in SUBSET (1..n) |-> IF s = {} THEN d0 ELSE Turn(f[s \ {Max(s)}])]
           c == CHOOSE f : P(f)
<1>0. n \in Nat /\ len - 8 * n < 8
  OBVIOUS
<1> HIDE DEF n
<1>1. d0 \in R /\ Turn(Panicked(w)) = Panicked(w)
      /\ \A t \in A : Turn(Absorbed(w, t)) = IF len - t < 8 THEN Absorbed(w, t) ELSE Absorbed(w, t + 8)
  <2>1. Panicked(w).fate # "ok"
    BY DEF Panicked, Absorbed
  <2>2. Turn(Panicked(w)) = Panicked(w)
    <3> DEFINE q == Panicked(w)
    <3>1. q.fate # "ok" \/ len - q.taken < Hash!laneSize
      BY <2>1
    <3> HIDE DEF q
    <3>2. Turn(q) = q
      BY <3>1, Zenon DEF Hash!AbsorbLanes
    <3> QED BY <3>2 DEF q
  <2> QED BY <2>2, OneLane
<1>2. ASSUME NEW t \in A, ~(len - t < 8) PROVE t + 8 \in A
  <2>1. (w + t) % 8 = 0 /\ w + t \in Nat /\ t + 8 \in 0..len
    BY <1>2 DEF Aligned
  <2>2. (w + (t + 8)) % 8 = 0
    BY <2>1
  <2> QED BY <2>1, <2>2 DEF Aligned
<1> HIDE DEF A, Turn
<1>3. ASSUME NEW d \in R PROVE Turn(d) \in R
  BY <1>1, <1>2
<1>4. PICK iter \in [SUBSET (1..n) -> R] : Iterates(iter, n, d0, G)
  <2>1. G \in [1..n -> [R -> R]]
    BY <1>3
  <2> HIDE DEF G, R
  <2> QED BY <1>0, <1>1, <2>1, FoldExists
<1> HIDE DEF R
<1>5. P(iter)
  <2> DEFINE Here(s) == IF s = {} THEN d0 ELSE G[Max(s)][iter[s \ {Max(s)}]]
             There(s) == IF s = {} THEN d0 ELSE Turn(iter[s \ {Max(s)}])
  <2>1. iter = [s \in SUBSET (1..n) |-> Here(s)]
    BY <1>4 DEF Iterates
  <2>2. ASSUME NEW s \in SUBSET (1..n) PROVE Here(s) = There(s)
    <3>1. CASE s # {}
      <4>1. Max(s) \in 1..n
        BY <1>0, <3>1, MaxExists
      <4>2. iter[s \ {Max(s)}] \in R
        BY <1>4
      <4> QED BY <4>1, <4>2
    <3> QED BY <3>1
  <2> HIDE DEF Here, There
  <2>3. iter = [s \in SUBSET (1..n) |-> There(s)]
    BY <2>1, <2>2
  <2> QED BY <2>3 DEF There
<1>6. P(c)
  BY <1>5, Zenon
<1>7. c[{}] = d0 /\ \A k \in 1..n : c[1..k] = Turn(c[1..(k - 1)])
  <2>1. \A s \in SUBSET (1..n) : c[s] = IF s = {} THEN d0 ELSE Turn(c[s \ {Max(s)}])
    <3> HIDE DEF c
    <3> QED BY <1>6
  <2> HIDE DEF c
  <2>2. ASSUME NEW k \in 1..n PROVE c[1..k] = Turn(c[1..(k - 1)])
    <3>1. 1..k \in SUBSET (1..n) /\ 1..k # {} /\ Max(1..k) = k /\ (1..k) \ {k} = 1..(k - 1)
      BY <1>0, Turns
    <3> QED BY <2>1, <3>1
  <2>3. {} \in SUBSET (1..n)
    OBVIOUS
  <2> QED BY <2>1, <2>2, <2>3
<1>8. Hash!FoldLeft(LAMBDA d, i : Hash!AbsorbLanes(d, len), d0, [i \in 1..n |-> i]) = c[1..n]
  <2>1. DOMAIN [i \in 1..n |-> i] = 1..n
    OBVIOUS
  <2> QED BY <2>1 DEF Hash!FoldLeft, Hash!MapThenFoldSet, Hash!Max, Max, Turn
<1> HIDE DEF c
<1> DEFINE Q(k) == \/ c[1..k] = Panicked(w) /\ d0 = Panicked(w)
                   \/ \E t \in A : c[1..k] = Absorbed(w, t) /\ (len - t < 8 \/ t >= 8 * k)
           T == {k \in Nat : k <= n => Q(k)}
<1>9. 0 \in T
  <2>1. 1..0 = {}
    OBVIOUS
  <2> QED BY <1>1, <1>7, <2>1 DEF R, A
<1>10. ASSUME NEW k \in Nat, k \in T PROVE k + 1 \in T
  <2> SUFFICES ASSUME k + 1 <= n PROVE Q(k + 1)
    OBVIOUS
  <2>1. c[1..(k + 1)] = Turn(c[1..k])
    <3>1. k + 1 \in 1..n /\ (k + 1) - 1 = k
      BY <1>0
    <3> QED BY <1>7, <3>1
  <2>2. CASE c[1..k] = Panicked(w) /\ d0 = Panicked(w)
    BY <1>1, <2>1, <2>2
  <2>3. CASE \E t \in A : c[1..k] = Absorbed(w, t) /\ (len - t < 8 \/ t >= 8 * k)
    <3>1. PICK t \in A : c[1..k] = Absorbed(w, t) /\ (len - t < 8 \/ t >= 8 * k)
      BY <2>3
    <3>2. t \in Nat
      BY DEF A
    <3>3. CASE len - t < 8
      BY <1>1, <2>1, <3>1, <3>3
    <3>4. CASE ~(len - t < 8)
      <4>1. c[1..(k + 1)] = Absorbed(w, t + 8) /\ t + 8 \in A
        BY <1>1, <1>2, <2>1, <3>1, <3>4
      <4>2. t + 8 >= 8 * (k + 1)
        BY <3>1, <3>2, <3>4
      <4> QED BY <4>1, <4>2
    <3> QED BY <3>3, <3>4
  <2>4. Q(k)
    <3>1. k <= n
      BY <1>0
    <3> HIDE DEF Q
    <3> QED BY <1>10, <3>1
  <2> QED BY <2>2, <2>3, <2>4
<1>11. Q(n)
  <2> HIDE DEF T, Q
  <2>1. \A k \in Nat : k \in T
    BY <1>9, <1>10, NatSetInduction
  <2> QED BY <1>0, <2>1 DEF T
<1>12. \A t \in A : t \in 0..len /\ Aligned(w, len, t) /\ (t >= 8 * n => len - t < 8)
  BY <1>0 DEF A
<1> QED BY <1>8, <1>11, <1>12 DEF n

(* What is left of a Write after the lanes is less than one of them.       *)
LEMMA LastBytes ==
  ASSUME Hash!rate = 8, absorbed \in Nat, NEW len \in Nat, NEW t \in 0..len,
         Aligned(absorbed, len, t), len - t < 8, t < len
  PROVE  Hash!unalignedAbsorb(Absorbed(absorbed, t), len - t) = Absorbed(absorbed, len)
<1> DEFINE w == absorbed
           d == Absorbed(w, t)
           r == len - t
           Shifted(o, m) == {<<o + i, m + i>> : i \in {i \in 0..(r - 1) : (o % 8) + i < 8}}
           B == {<<i, w + t + i>> : i \in 0..(r - 1)}
<1>1. (w + t) % 8 = 0 /\ w + t \in Nat /\ r \in 1..7 /\ w + len = w + t + r
  BY DEF Aligned
<1>2. /\ d = [absorbed |-> w + t, block |-> {}, blocks |-> Hash!FullBlocks(w + t), taken |-> t, fate |-> "ok"]
      /\ d.absorbed = w + t /\ d.taken = t
  <2>1. Hash!LastBlock(w + t) = {}
    BY <1>1 DEF Hash!LastBlock
  <2> QED BY <2>1 DEF Absorbed
<1>3. Hash!unalignedAbsorb(d, r) = [d EXCEPT !.absorbed = @ + r, !.taken = @ + r,
                                             !.block = @ \cup Shifted(Hash!InRate(d.absorbed), w + d.taken)]
  <2> HIDE DEF d, r
  <2> QED BY DEF Hash!unalignedAbsorb, Hash!laneSize
<1>4. Hash!InRate(d.absorbed) = 0 /\ Shifted(0, w + d.taken) = B
  <2>1. Hash!InRate(d.absorbed) = 0
    BY <1>1, <1>2 DEF Hash!InRate
  <2>2. 0 % 8 = 0 /\ \A i \in 0..(r - 1) : 0 + i = i /\ i < 8 /\ w + t + i = (w + t) + i
    BY <1>1
  <2> HIDE DEF d, r
  <2> QED BY <1>2, <2>1, <2>2
<1>5. Hash!FullBlocks(w + len) = Hash!FullBlocks(w + t) /\ Hash!LastBlock(w + len) = B
  <2> DEFINE m == w + t
  <2>1. (m + r) \div 8 = m \div 8 /\ (m + r) % 8 = r /\ (m + r) - r = m
    BY <1>1
  <2>2. w + len = m + r
    BY <1>1
  <2>3. m \in Nat /\ r \in Nat
    BY <1>1
  <2> HIDE DEF m, r
  <2>4. Hash!FullBlocks(m + r) = Hash!FullBlocks(m)
    BY <2>1 DEF Hash!FullBlocks
  <2>5. Hash!LastBlock(m + r) = {<<i, (m + r) - r + i>> : i \in 0..(r - 1)}
    BY <2>1 DEF Hash!LastBlock
  <2>6. Hash!LastBlock(m + r) = B
    BY <2>1, <2>5 DEF m
  <2> QED BY <2>2, <2>4, <2>6 DEF m
<1>6. w + t + r = w + len /\ t + r = len
  BY <1>1
<1>7. {} \cup B = B
  OBVIOUS
<1> HIDE DEF d, r, B, Shifted
<1>8. Hash!unalignedAbsorb(d, r) =
        [absorbed |-> w + len, block |-> B, blocks |-> Hash!FullBlocks(w + t), taken |-> len, fate |-> "ok"]
  BY <1>2, <1>3, <1>4, <1>6, <1>7
<1> QED BY <1>5, <1>8 DEF d, r, Absorbed

(* A Write fails, or leaves the digest of all that was written; it does    *)
(* not fail if it reaches the end of a lane.                               *)
LEMMA WholeWrite ==
  ASSUME Hash!rate = 8, absorbed \in Nat, NEW len \in Nat, digest = Absorbed(absorbed, 0)
  PROVE  /\ Hash!Absorbing(len).fate # "ok" \/ Hash!Absorbing(len) = Absorbed(absorbed, len)
         /\ len = 0 \/ (absorbed % 8) + len >= 8 => Hash!Absorbing(len) = Absorbed(absorbed, len)
<1> DEFINE w == absorbed
           d0 == Hash!AbsorbFirst(digest, len)
           turned == Hash!FoldLeft(LAMBDA d, i : Hash!AbsorbLanes(d, len), d0, [i \in 1..(len \div 8) |-> i])
           all == IF turned.fate = "ok" /\ turned.taken < len
                    THEN Hash!unalignedAbsorb(turned, len - turned.taken) ELSE turned
           Reaches == len = 0 \/ (w % 8) + len >= 8
<1>1. Hash!Absorbing(len) = all
  <2> DEFINE f == Hash!FoldLeft(LAMBDA d, i : Hash!AbsorbLanes(d, len), d0, [i \in 1..(len \div Hash!laneSize) |-> i])
             rest == IF f.fate = "ok" /\ f.taken < len
                       THEN Hash!unalignedAbsorb(f, len - f.taken) ELSE f
             whole == IF Hash!rate = 0 THEN [digest EXCEPT !.fate = "panics"] ELSE rest
  <2>1. Hash!Absorbing(len) = whole
    BY DEF Hash!Absorbing
  <2>2. whole = rest
    OBVIOUS
  <2>3. f = turned
    BY DEF Hash!laneSize
  <2> HIDE DEF f, turned, whole
  <2> QED BY <2>1, <2>2, <2>3
<1>2. \/ d0 = Panicked(w) /\ ~Reaches
      \/ \E t \in 0..len : Aligned(w, len, t) /\ d0 = Absorbed(w, t)
  <2>1. \/ d0 = Panicked(w) /\ len # 0 /\ (w % 8) + len < 8
        \/ \E t \in 0..len : Aligned(w, len, t) /\ d0 = Absorbed(w, t)
    BY FirstLane
  <2> HIDE DEF d0
  <2> QED BY <2>1
<1>3. Panicked(w).fate = "panics" /\ \A t \in 0..len : Absorbed(w, t).fate = "ok" /\ Absorbed(w, t).taken = t
  BY DEF Panicked, Absorbed
<1>4. \/ turned = Panicked(w) /\ ~Reaches
      \/ \E t \in 0..len : Aligned(w, len, t) /\ len - t < 8 /\ turned = Absorbed(w, t)
  <2>1. \/ turned = Panicked(w) /\ d0 = Panicked(w)
        \/ \E t \in 0..len : Aligned(w, len, t) /\ len - t < 8 /\ turned = Absorbed(w, t)
    <3> HIDE DEF d0
    <3> QED BY <1>2, AllLanes
  <2> HIDE DEF turned, d0, Reaches
  <2>2. d0 = Panicked(w) => ~Reaches
    BY <1>2, <1>3
  <2> QED BY <2>1, <2>2
<1> HIDE DEF turned, Reaches
<1>5. \/ all = Panicked(w) /\ ~Reaches
      \/ all = Absorbed(w, len)
  <2>1. CASE turned = Panicked(w) /\ ~Reaches
    BY <1>3, <2>1
  <2>2. CASE \E t \in 0..len : Aligned(w, len, t) /\ len - t < 8 /\ turned = Absorbed(w, t)
    <3>1. PICK t \in 0..len : Aligned(w, len, t) /\ len - t < 8 /\ turned = Absorbed(w, t)
      BY <2>2
    <3>2. turned.fate = "ok" /\ turned.taken = t
      BY <1>3, <3>1
    <3>3. CASE t < len
      BY <3>1, <3>2, <3>3, LastBytes
    <3>4. CASE t = len
      BY <3>1, <3>2, <3>4
    <3> QED BY <3>3, <3>4
  <2> QED BY <1>4, <2>1, <2>2
<1> HIDE DEF all
<1> QED BY <1>1, <1>3, <1>5 DEF Reaches

LEMMA WriteStep ==
  ASSUME HashInv, NEW len \in Lengths, Hash!Write(len)
  PROVE  HashInv'
<1>1. len \in Nat /\ absorbed \in Nat /\ absorbed' = absorbed + len /\ absorbed' \in Nat
      /\ outputSize' = outputSize /\ sum' = sum /\ fate = "ok" /\ Hash!rate' = Hash!rate
  <2>1. absorbed' = absorbed + len /\ UNCHANGED <<outputSize, sum>> /\ fate = "ok"
    BY DEF Hash!Write
  <2> QED BY <2>1, SizesAssumption DEF HashInv, Hash!rate, Hash!stateSize, Hash!laneSize
<1>2. CASE Hash!rate # 8
  BY <1>1, <1>2 DEF HashInv, Hash!NoSum
<1>3. CASE Hash!rate = 8
  <2> DEFINE w == absorbed
             all == Hash!Absorbing(len)
  <2>1. digest' = [all EXCEPT !.taken = 0, !.fate = "ok"] /\ fate' = all.fate
    BY DEF Hash!Write
  <2>2. digest = Absorbed(w, 0)
    BY <1>1, <1>3 DEF HashInv
  <2>3. all.fate # "ok" \/ all = Absorbed(w, len)
    BY <1>1, <1>3, <2>2, WholeWrite
  <2> HIDE DEF all
  <2>4. fate' = "ok" => digest' = Absorbed(w + len, 0)
    <3>1. CASE all = Absorbed(w, len)
      <4>1. digest' = [absorbed |-> w + len, block |-> Hash!LastBlock(w + len),
                       blocks |-> Hash!FullBlocks(w + len), taken |-> 0, fate |-> "ok"]
        BY <2>1, <3>1 DEF Absorbed
      <4>2. (w + len) + 0 = w + len
        BY <1>1
      <4> QED BY <4>1, <4>2 DEF Absorbed
    <3> QED BY <2>1, <2>3, <3>1
  <2>5. (digest = Absorbed(absorbed, 0))' <=> digest' = Absorbed(w + len, 0)
    BY <1>1 DEF Absorbed, Hash!LastBlock, Hash!FullBlocks
  <2>6. SumRight' <=> SumRight
    BY <1>1 DEF SumRight, Hash!NoSum, Hash!FullBlocks, Hash!LastBlock
  <2> QED BY <1>1, <1>3, <2>4, <2>5, <2>6 DEF HashInv
<1> QED BY <1>2, <1>3

(* Sum pads a copy and squeezes it.                                        *)
LEMMA SumStep ==
  ASSUME HashInv, Hash!Sum
  PROVE  HashInv'
<1>1. /\ absorbed' = absorbed /\ outputSize' = outputSize /\ digest' = digest /\ fate = "ok"
      /\ Hash!rate' = Hash!rate
  BY DEF Hash!Sum, Hash!rate, Hash!stateSize, Hash!laneSize
<1>2. CASE Hash!rate # 8
  <2>1. Hash!rate < Hash!laneSize
    BY <1>2, SizesAssumption DEF HashInv, Hash!rate, Hash!stateSize, Hash!laneSize
  <2> QED BY <1>1, <1>2, <2>1 DEF HashInv, Hash!Sum, Hash!NoSum
<1>3. CASE Hash!rate = 8
  <2> DEFINE m == absorbed
             pad == {<<m % 8, "open">>, <<8 - 1, "close">>}
  <2>1. /\ outputSize = 28 /\ m \in Nat
        /\ digest.absorbed = m /\ digest.block = Hash!LastBlock(m) /\ digest.blocks = Hash!FullBlocks(m)
    <3>1. outputSize = 28 /\ m \in Nat /\ m + 0 = m
      BY <1>3, SizesAssumption DEF HashInv, Hash!rate, Hash!stateSize, Hash!laneSize
    <3>2. digest = Absorbed(m, 0)
      BY <1>1, <1>3 DEF HashInv
    <3> QED BY <3>1, <3>2 DEF Absorbed
  <2>2. /\ fate' = "ok"
        /\ sum' = [of |-> m, bytes |-> Hash!Squeezed,
                   blocks |-> Append(digest.blocks, digest.block \cup Hash!Padding(digest))]
    BY <1>3 DEF Hash!Sum, Hash!laneSize
  <2>3. Hash!Padding(digest) = pad
    <3>1. Hash!InRate(digest.absorbed) = m % 8
      BY <1>3, <2>1 DEF Hash!InRate
    <3>2. 8 * ((m % 8) \div 8) + ((m % 8) % 8) = m % 8 /\ 8 * ((8 \div 8) - 1) + 7 = 8 - 1
      BY <2>1
    <3> HIDE DEF m
    <3> QED BY <1>3, <3>1, <3>2 DEF Hash!Padding, Hash!laneSize
  <2>4. ASSUME NEW j \in 0..27 PROVE Hash!Squeezed[j] = <<j \div 8, j % 8>>
    <3> DEFINE lns == (outputSize + Hash!laneSize - 1) \div Hash!laneSize
               Lane(k) == <<k \div (Hash!rate \div Hash!laneSize), k % (Hash!rate \div Hash!laneSize)>>
               bytes == [i \in 0..(lns * Hash!laneSize - 1) |->
                           <<Lane(i \div Hash!laneSize)[1],
                             Hash!laneSize * Lane(i \div Hash!laneSize)[2] + (i % Hash!laneSize)>>]
    <3>1. Hash!Squeezed = [i \in 0..(outputSize - 1) |-> bytes[i]]
      BY DEF Hash!Squeezed
    <3>2. lns * Hash!laneSize - 1 = 31 /\ outputSize - 1 = 27
      BY <2>1 DEF Hash!laneSize
    <3>3. Hash!laneSize = 8 /\ Hash!rate \div Hash!laneSize = 1
      BY <1>3 DEF Hash!laneSize
    <3>4. j \in 0..31 /\ j \div 8 \in Nat /\ (j \div 8) \div 1 = j \div 8 /\ (j \div 8) % 1 = 0
      OBVIOUS
    <3>5. bytes[j] = <<(j \div 8) \div 1, 8 * ((j \div 8) % 1) + (j % 8)>>
      BY <3>2, <3>3, <3>4
    <3> HIDE DEF bytes
    <3> QED BY <3>1, <3>2, <3>4, <3>5
  <2> HIDE DEF pad
  <2>5. /\ sum'.of = m /\ sum'.bytes = Hash!Squeezed
        /\ sum'.blocks = Append(Hash!FullBlocks(m), Hash!LastBlock(m) \cup pad)
    BY <2>1, <2>2, <2>3
  <2>6. SumRight'
    <3>1. sum'.blocks = Append(Hash!FullBlocks(sum'.of), Hash!LastBlock(sum'.of) \cup
                                 {<<sum'.of % Hash!rate, "open">>, <<Hash!rate - 1, "close">>})
      BY <1>3, <2>5 DEF pad
    <3>2. \A j \in 0..(outputSize - 1) : sum'.bytes[j] = <<j \div Hash!rate, j % Hash!rate>>
      <4>1. \A j \in 0..27 : Hash!Squeezed[j] = <<j \div Hash!rate, j % Hash!rate>>
        BY <1>3, <2>4
      <4>2. outputSize - 1 = 27
        BY <2>1
      <4> QED BY <2>5, <4>1, <4>2
    <3> QED BY <1>1, <3>1, <3>2 DEF SumRight, Hash!FullBlocks, Hash!LastBlock
  <2>7. (digest = Absorbed(absorbed, 0))' <=> digest = Absorbed(absorbed, 0)
    BY <1>1 DEF Absorbed, Hash!LastBlock, Hash!FullBlocks
  <2> QED BY <1>1, <1>3, <2>6, <2>7 DEF HashInv
<1> QED BY <1>2, <1>3

LEMMA NothingAbsorbed ==
  ASSUME Hash!rate = 8
  PROVE  Hash!Empty = Absorbed(0, 0)
<1>1. Hash!FullBlocks(0) = <<>> /\ Hash!LastBlock(0) = {} /\ 0 + 0 = 0
  BY DEF Hash!FullBlocks, Hash!LastBlock
<1> QED BY <1>1 DEF Absorbed, Hash!Empty

LEMMA HashStep ==
  ASSUME HashInv, [Hash!Next]_hashVars
  PROVE  HashInv'
<1>1. CASE Hash!Reset
  <2>1. absorbed' = 0 /\ digest' = Hash!Empty /\ UNCHANGED <<outputSize, fate, sum>> /\ Hash!rate' = Hash!rate
    BY <1>1 DEF Hash!Reset, Hash!rate, Hash!stateSize, Hash!laneSize
  <2>2. SumRight' <=> SumRight
    BY <2>1 DEF SumRight, Hash!NoSum, Hash!FullBlocks, Hash!LastBlock
  <2>3. Hash!rate = 8 => (digest = Absorbed(absorbed, 0))'
    BY <2>1, NothingAbsorbed DEF Absorbed, Hash!LastBlock, Hash!FullBlocks
  <2> QED BY <2>1, <2>2, <2>3 DEF HashInv, Hash!NoSum
<1>2. CASE UNCHANGED hashVars
  <2>1. UNCHANGED <<outputSize, digest, absorbed, fate, sum>> /\ Hash!rate' = Hash!rate
    BY <1>2 DEF hashVars, Hash!rate, Hash!stateSize, Hash!laneSize
  <2>2. SumRight' <=> SumRight
    BY <2>1 DEF SumRight, Hash!NoSum, Hash!FullBlocks, Hash!LastBlock
  <2>3. (digest = Absorbed(absorbed, 0))' <=> digest = Absorbed(absorbed, 0)
    BY <2>1 DEF Absorbed, Hash!LastBlock, Hash!FullBlocks
  <2> QED BY <2>1, <2>2, <2>3 DEF HashInv, Hash!NoSum
<1> QED BY <1>1, <1>2, WriteStep, SumStep DEF Hash!Next

LEMMA HashSound == HashInv => ChunkingInvisible
<1> SUFFICES ASSUME HashInv PROVE ChunkingInvisible
  OBVIOUS
<1>1. CASE Hash!rate # 8
  <2>1. Hash!rate <= 0 /\ ~(Hash!rate > 0)
    <3>1. Hash!rate \in Int
      BY SizesAssumption DEF HashInv, Hash!rate, Hash!stateSize, Hash!laneSize
    <3> QED BY <1>1, <3>1, Rates DEF HashInv
  <2> QED BY <2>1 DEF ChunkingInvisible, Hash!ChunkingInvisible
<1>2. CASE Hash!rate = 8
  <2>1. absorbed + 0 = absorbed
    BY DEF HashInv
  <2>2. fate = "ok" => digest.blocks = Hash!FullBlocks(absorbed) /\ digest.block = Hash!LastBlock(absorbed)
    BY <1>2, <2>1 DEF HashInv, Absorbed
  <2>3. ASSUME fate = "ok", NEW len \in Lengths, len = 0 \/ (absorbed % 8) + len >= 8
        PROVE  Hash!Absorbing(len).fate = "ok"
    <3>1. Hash!Absorbing(len) = Absorbed(absorbed, len)
      BY <1>2, <2>3, SizesAssumption, WholeWrite DEF HashInv
    <3>2. Absorbed(absorbed, len).fate = "ok"
      BY DEF Absorbed
    <3> QED BY <3>1, <3>2
  <2> QED BY <1>2, <2>2, <2>3 DEF HashInv, SumRight, ChunkingInvisible, Hash!ChunkingInvisible, Hash!laneSize
<1> QED BY <1>1, <1>2

(* The digest of 28 bytes, the only one with a positive rate: however a    *)
(* message of any length is cut into Writes that do not panic, which those *)
(* never do that reach the end of a lane, and whatever is summed in        *)
(* between, the same blocks are permuted in the same order.                *)
THEOREM ChunkingIsInvisible == HashSpec => []ChunkingInvisible
<1>1. Hash!Init => HashInv
  <2> SUFFICES ASSUME Hash!Init PROVE HashInv
    OBVIOUS
  <2>1. outputSize \in OutputSizes /\ digest = Hash!Empty /\ absorbed = 0 /\ sum = Hash!NoSum
    BY DEF Hash!Init
  <2> QED BY <2>1, NothingAbsorbed DEF HashInv, SumRight
<1>2. HashInv /\ [Hash!Next]_hashVars => HashInv'
  BY HashStep
<1> QED BY <1>1, <1>2, HashSound, PTL DEF HashSpec

-----------------------------------------------------------------------------
(* The permutation, with the lanes of Keccak-f as the rounds find them.    *)
Before(u, v) == lanes[Kec!PlaceOf(rounds, u, v)]
ColumnOf(u) == Kec!FoldLeft(LAMBDA t, v : Kec!Xor(t, Before(u, v)), {}, <<0, 1, 2, 3, 4>>)

(* The five lanes of a column are summed in some order.                    *)
Sum5(p, q, r, s, t) == Kec!Xor(Kec!Xor(Kec!Xor(Kec!Xor(Kec!Xor({}, p), q), r), s), t)
Sums(iter, e) ==
  iter = [s \in SUBSET (1..5) |-> IF s = {} THEN {} ELSE Kec!Xor(iter[s \ {Max(s)}], e[Max(s)])]

LEMMA SumExists ==
  ASSUME NEW e
  PROVE  \E iter : Sums(iter, e)
<1> DEFINE R == SUBSET UNION {e[k] : k \in 1..5}
           G == [k \in 1..5 |-> [t \in R |-> Kec!Xor(t, e[k])]]
<1>1. G \in [1..5 -> [R -> R]]
  BY DEF Kec!Xor
<1>2. {} \in R
  OBVIOUS
<1> HIDE DEF R
<1>3. PICK iter \in [SUBSET (1..5) -> R] : Iterates(iter, 5, {}, G)
  <2> HIDE DEF G
  <2> QED BY <1>1, <1>2, FoldExists
<1> DEFINE Here(s) == IF s = {} THEN {} ELSE G[Max(s)][iter[s \ {Max(s)}]]
           There(s) == IF s = {} THEN {} ELSE Kec!Xor(iter[s \ {Max(s)}], e[Max(s)])
<1>4. iter = [s \in SUBSET (1..5) |-> Here(s)]
  BY <1>3 DEF Iterates
<1>5. ASSUME NEW s \in SUBSET (1..5) PROVE Here(s) = There(s)
  <2>1. CASE s # {}
    <3>1. Max(s) \in 1..5
      BY <2>1, MaxExists
    <3>2. iter[s \ {Max(s)}] \in R
      BY <1>3
    <3> QED BY <3>1, <3>2
  <2> QED BY <2>1
<1> HIDE DEF Here, There
<1>6. iter = [s \in SUBSET (1..5) |-> There(s)]
  BY <1>4, <1>5
<1> QED BY <1>6 DEF Sums, There

LEMMA SumIs ==
  ASSUME NEW e, NEW c, Sums(c, e)
  PROVE  c[1..5] = Sum5(e[1], e[2], e[3], e[4], e[5])
<1>1. \A s \in SUBSET (1..5) : c[s] = IF s = {} THEN {} ELSE Kec!Xor(c[s \ {Max(s)}], e[Max(s)])
  BY DEF Sums
<1>2. ASSUME NEW k \in 1..5 PROVE c[1..k] = Kec!Xor(c[1..(k - 1)], e[k])
  <2>1. 1..k \in SUBSET (1..5) /\ 1..k # {} /\ Max(1..k) = k /\ (1..k) \ {k} = 1..(k - 1)
    BY Turns
  <2> QED BY <1>1, <2>1
<1>3. c[1..0] = {}
  <2>1. 1..0 = {} /\ {} \in SUBSET (1..5)
    OBVIOUS
  <2> QED BY <1>1, <2>1
<1>4. /\ c[1..1] = Kec!Xor(c[1..0], e[1]) /\ c[1..2] = Kec!Xor(c[1..1], e[2])
      /\ c[1..3] = Kec!Xor(c[1..2], e[3]) /\ c[1..4] = Kec!Xor(c[1..3], e[4])
      /\ c[1..5] = Kec!Xor(c[1..4], e[5])
  <2>1. 1 - 1 = 0 /\ 2 - 1 = 1 /\ 3 - 1 = 2 /\ 4 - 1 = 3 /\ 5 - 1 = 4
    OBVIOUS
  <2> QED BY <1>2, <2>1
<1> QED BY <1>3, <1>4, Zenon DEF Sum5

LEMMA ColumnIs ==
  ASSUME NEW x \in 0..4
  PROVE  Kec!Column(x) = Sum5(lanes[x], lanes[x + 5], lanes[x + 10], lanes[x + 15], lanes[x + 20])
<1> DEFINE seq == <<0, 1, 2, 3, 4>>
           e == [k \in 1..5 |-> lanes[x + 5 * (k - 1)]]
           Here(f, s) == IF s = {} THEN {} ELSE Kec!Xor(f[s \ {Max(s)}], lanes[x + 5 * seq[Max(s)]])
           There(f, s) == IF s = {} THEN {} ELSE Kec!Xor(f[s \ {Max(s)}], e[Max(s)])
           P(f) == f = [s \in SUBSET (1..5) |-> Here(f, s)]
           c == CHOOSE f : P(f)
<1>1. ASSUME NEW s \in SUBSET (1..5), NEW f PROVE Here(f, s) = There(f, s)
  <2>1. CASE s # {}
    <3>1. Max(s) \in 1..5
      BY <2>1, MaxExists
    <3>2. seq[Max(s)] = Max(s) - 1
      BY <3>1
    <3> QED BY <3>1, <3>2
  <2> QED BY <2>1
<1>2. Kec!Column(x) = c[1..5]
  BY DEF Kec!Column, Kec!FoldLeft, Kec!MapThenFoldSet, Kec!Max, Max
<1> HIDE DEF Here, There, e
<1>3. ASSUME NEW f PROVE P(f) <=> Sums(f, e)
  <2>1. [s \in SUBSET (1..5) |-> Here(f, s)] = [s \in SUBSET (1..5) |-> There(f, s)]
    BY <1>1
  <2> QED BY <2>1, Zenon DEF Sums, There
<1>4. P(c)
  BY <1>3, SumExists, Zenon
<1> HIDE DEF P, c
<1>5. c[1..5] = Sum5(e[1], e[2], e[3], e[4], e[5])
  BY <1>3, <1>4, SumIs
<1>6. e[1] = lanes[x] /\ e[2] = lanes[x + 5] /\ e[3] = lanes[x + 10] /\ e[4] = lanes[x + 15] /\ e[5] = lanes[x + 20]
  BY DEF e
<1> QED BY <1>2, <1>5, <1>6

LEMMA ColumnOfIs ==
  ASSUME NEW u \in 0..4
  PROVE  ColumnOf(u) = Sum5(Before(u, 0), Before(u, 1), Before(u, 2), Before(u, 3), Before(u, 4))
<1> DEFINE seq == <<0, 1, 2, 3, 4>>
           e == [k \in 1..5 |-> Before(u, k - 1)]
           Here(f, s) == IF s = {} THEN {} ELSE Kec!Xor(f[s \ {Max(s)}], Before(u, seq[Max(s)]))
           There(f, s) == IF s = {} THEN {} ELSE Kec!Xor(f[s \ {Max(s)}], e[Max(s)])
           P(f) == f = [s \in SUBSET (1..5) |-> Here(f, s)]
           c == CHOOSE f : P(f)
<1>1. ASSUME NEW s \in SUBSET (1..5), NEW f PROVE Here(f, s) = There(f, s)
  <2>1. CASE s # {}
    <3>1. Max(s) \in 1..5
      BY <2>1, MaxExists
    <3>2. seq[Max(s)] = Max(s) - 1
      BY <3>1
    <3> QED BY <3>1, <3>2
  <2> QED BY <2>1
<1>2. ColumnOf(u) = c[1..5]
  BY DEF ColumnOf, Kec!FoldLeft, Kec!MapThenFoldSet, Kec!Max, Max
<1> HIDE DEF Here, There, e
<1>3. ASSUME NEW f PROVE P(f) <=> Sums(f, e)
  <2>1. [s \in SUBSET (1..5) |-> Here(f, s)] = [s \in SUBSET (1..5) |-> There(f, s)]
    BY <1>1
  <2> QED BY <2>1, Zenon DEF Sums, There
<1>4. P(c)
  BY <1>3, SumExists, Zenon
<1> HIDE DEF P, c
<1>5. c[1..5] = Sum5(e[1], e[2], e[3], e[4], e[5])
  BY <1>3, <1>4, SumIs
<1>6. e[1] = Before(u, 0) /\ e[2] = Before(u, 1) /\ e[3] = Before(u, 2) /\ e[4] = Before(u, 3) /\ e[5] = Before(u, 4)
  BY DEF e
<1> QED BY <1>2, <1>5, <1>6

(* Where the lane <<x, y>> is after a number of rounds that is c modulo 4, *)
(* as the tables of the code say it: in its column, at a row.              *)
Row(c, x, y) ==
  (IF c = 0 THEN y ELSE IF c = 1 THEN x + 2 * y ELSE IF c = 2 THEN 3 * x + 4 * y ELSE 2 * x + 3 * y) % 5
Place(c, x, y) == x + 5 * Row(c, x, y)

(* The lane that a round r takes for bc[k] of its row w, as <<x, y>> before*)
(* the round; in round 1 the last row begins with its second.              *)
Aside(r, w) == IF r = 1 /\ w = 5 THEN 1 ELSE 0
Across(r, w, k) == (k - 1 + Aside(r, w)) % 5
Down(r, w, k) == (Across(r, w, k) + 3 * (w - 1)) % 5

LEMMA RowsAre ==
  \A r \in 1..4, w, k \in 1..5 :
    /\ Kec!Rows[r][w][k] = Place(r - 1, Down(r, w, k), Across(r, w, k))
    /\ Kec!Rows[r][w][k] = Place(r % 4, Down(r, w, k), w - 1)
<1> USE DEF Kec!Rows, Place, Row, Down, Across, Aside
<1>1. \A w, k \in 1..5 :
        /\ Kec!Rows[1][w][k] = Place(0, Down(1, w, k), Across(1, w, k))
        /\ Kec!Rows[1][w][k] = Place(1, Down(1, w, k), w - 1)
  BY DEF Kec!Rows1
<1>2. \A w, k \in 1..5 :
        /\ Kec!Rows[2][w][k] = Place(1, Down(2, w, k), Across(2, w, k))
        /\ Kec!Rows[2][w][k] = Place(2, Down(2, w, k), w - 1)
  BY DEF Kec!Rows2
<1>3. \A w, k \in 1..5 :
        /\ Kec!Rows[3][w][k] = Place(2, Down(3, w, k), Across(3, w, k))
        /\ Kec!Rows[3][w][k] = Place(3, Down(3, w, k), w - 1)
  BY DEF Kec!Rows3
<1>4. \A w, k \in 1..5 :
        /\ Kec!Rows[4][w][k] = Place(3, Down(4, w, k), Across(4, w, k))
        /\ Kec!Rows[4][w][k] = Place(0, Down(4, w, k), w - 1)
  BY DEF Kec!Rows4
<1>5. 1 - 1 = 0 /\ 2 - 1 = 1 /\ 3 - 1 = 2 /\ 4 - 1 = 3 /\ 1 % 4 = 1 /\ 2 % 4 = 2 /\ 3 % 4 = 3 /\ 4 % 4 = 0
  OBVIOUS
<1>6. \A r \in 1..4 : r = 1 \/ r = 2 \/ r = 3 \/ r = 4
  OBVIOUS
<1> USE DEF Place, Row
<1> HIDE DEF Kec!Rows, Place, Row, Down, Across, Aside
<1> SUFFICES ASSUME NEW r \in 1..4, NEW w \in 1..5, NEW k \in 1..5
             PROVE  /\ Kec!Rows[r][w][k] = Place(r - 1, Down(r, w, k), Across(r, w, k))
                    /\ Kec!Rows[r][w][k] = Place(r % 4, Down(r, w, k), w - 1)
  OBVIOUS
<1> QED BY <1>1, <1>2, <1>3, <1>4, <1>5, <1>6

(* A row's lanes are one of each column.                                   *)
LEMMA DownsDiffer ==
  ASSUME NEW r \in 1..4, NEW w \in 1..5
  PROVE  /\ \A k \in 1..5 : Down(r, w, k) \in 0..4 /\ Across(r, w, k) \in 0..4
         /\ \A x \in 0..4 : \E k \in 1..5 : Down(r, w, k) = x
         /\ \A j, k \in 1..5 : Down(r, w, j) = Down(r, w, k) => j = k
BY DEF Down, Across, Aside

LEMMA RowsDiffer ==
  ASSUME NEW c \in 0..3, NEW x \in 0..4
  PROVE  /\ \A y \in 0..4 : Row(c, x, y) \in 0..4 /\ Place(c, x, y) \in 0..24 /\ Place(c, x, y) % 5 = x
         /\ \A y, z \in 0..4 : Row(c, x, y) = Row(c, x, z) => y = z
BY DEF Row, Place

LEMMA PlaceIs ==
  ASSUME NEW m \in Nat, NEW x \in 0..4, NEW y \in 0..4
  PROVE  Kec!PlaceOf(m, x, y) = Place(m % 4, x, y)
<1>1. CASE m = 0
  BY <1>1 DEF Kec!PlaceOf, Place, Row
<1>2. CASE m # 0
  <2> DEFINE r == ((m - 1) % 4) + 1
             w == y + 1
             row == Kec!Rows[r][w]
  <2>1. r \in 1..4 /\ w \in 1..5 /\ r % 4 = m % 4 /\ w - 1 = y /\ m % 4 \in 0..3
    BY <1>2
  <2> HIDE DEF r, w
  <2>2. \A k \in 1..5 : row[k] = Place(m % 4, Down(r, w, k), y) /\ row[k] % 5 = Down(r, w, k)
    <3> SUFFICES ASSUME NEW k \in 1..5
                 PROVE  row[k] = Place(m % 4, Down(r, w, k), y) /\ row[k] % 5 = Down(r, w, k)
      OBVIOUS
    <3>1. row[k] = Place(m % 4, Down(r, w, k), y)
      BY <2>1, RowsAre
    <3>2. Down(r, w, k) \in 0..4
      BY <2>1, DownsDiffer
    <3> QED BY <2>1, <3>1, <3>2, RowsDiffer
  <2>3. PICK k \in 1..5 : Down(r, w, k) = x
    BY <2>1, DownsDiffer
  <2>4. \A j \in 1..5 : row[j] % 5 = x => j = k
    BY <2>1, <2>2, <2>3, DownsDiffer
  <2>5. (CHOOSE j \in 1..5 : row[j] % 5 = x) = k
    BY <2>2, <2>3, <2>4
  <2>6. Kec!PlaceOf(m, x, y) = row[CHOOSE j \in 1..5 : row[j] % 5 = x]
    BY <1>2 DEF Kec!PlaceOf, r, w
  <2> QED BY <2>2, <2>3, <2>5, <2>6
<1> QED BY <1>1, <1>2

(* The order of the summands does not matter: a column is the same however *)
(* its lanes have moved within it.                                         *)
LEMMA SumTurns ==
  ASSUME NEW p, NEW q, NEW r, NEW s, NEW t
  PROVE  /\ Sum5(p, q, r, s, t) = Sum5(q, r, s, t, p)
         /\ Sum5(p, q, r, s, t) = Sum5(p, r, t, q, s)
BY DEF Sum5, Kec!Xor

LEMMA SumRows ==
  ASSUME NEW f, NEW c \in 0..3, NEW x \in 0..4
  PROVE  Sum5(f[Row(c, x, 0)], f[Row(c, x, 1)], f[Row(c, x, 2)], f[Row(c, x, 3)], f[Row(c, x, 4)]) =
         Sum5(f[0], f[1], f[2], f[3], f[4])
<1> DEFINE S(s, b) == Sum5(f[s % 5], f[(s + b) % 5], f[(s + 2 * b) % 5], f[(s + 3 * b) % 5], f[(s + 4 * b) % 5])
<1>1. \A s \in 0..4 : S(s, 1) = Sum5(f[0], f[1], f[2], f[3], f[4])
  BY SumTurns
<1>2. \A s \in 0..4 : S(s, 2) = S(s, 1) /\ S(s, 4) = S(s, 2) /\ S(s, 3) = S(s, 4)
  BY SumTurns
<1> QED BY <1>1, <1>2 DEF Row

(* The walk through the 24 lanes other than <<0, 0>>.                      *)
LEMMA WalkSteps ==
  /\ Kec!Walk[0] = <<1, 0>>
  /\ \A t \in 1..23 : Kec!Walk[t] = <<Kec!Walk[t - 1][2], (2 * Kec!Walk[t - 1][1] + 3 * Kec!Walk[t - 1][2]) % 5>>
<1> DEFINE R == (0..4) \X (0..4)
           Turn(w) == <<w[2], (2 * w[1] + 3 * w[2]) % 5>>
           G == [t \in 1..23 |-> [w \in R |-> Turn(w)]]
           P(f) == f = [t \in 0..23 |-> IF t = 0 THEN <<1, 0>> ELSE LET w == f[t - 1] IN Turn(w)]
           c == CHOOSE f : P(f)
<1>1. \A w \in R : Turn(w) \in R
  OBVIOUS
<1>2. <<1, 0>> \in R /\ 23 \in Nat
  OBVIOUS
<1> HIDE DEF R, Turn
<1>3. G \in [1..23 -> [R -> R]]
  BY <1>1
<1>4. PICK f : f = [n \in 0..23 |-> IF n = 0 THEN <<1, 0>> ELSE G[n][f[n - 1]]] /\ \A n \in 0..23 : f[n] \in R
  <2> HIDE DEF G, P, c
  <2> DEFINE N == 23
             b == <<1, 0>>
  <2>1. N \in Nat /\ b \in R /\ G \in [1..N -> [R -> R]]
    BY <1>2, <1>3
  <2> HIDE DEF N, b
  <2>2. \E f : f = [n \in 0..N |-> IF n = 0 THEN b ELSE G[n][f[n - 1]]] /\ \A n \in 0..N : f[n] \in R
    BY <2>1, StepsExist
  <2> QED BY <2>2 DEF N, b
<1>5. P(f)
  <2>1. ASSUME NEW n \in 0..23, n # 0 PROVE G[n][f[n - 1]] = Turn(f[n - 1])
    <3>1. n \in 1..23 /\ n - 1 \in 0..23
      BY <2>1
    <3> QED BY <1>4, <3>1
  <2> HIDE DEF G
  <2> QED BY <1>4, <2>1
<1>6. P(c)
  BY <1>5, Zenon
<1>7. Kec!Walk = c
  BY DEF Kec!Walk, Turn
<1> HIDE DEF c
<1>8. \A t \in 0..23 : c[t] = IF t = 0 THEN <<1, 0>> ELSE Turn(c[t - 1])
  BY <1>6
<1> HIDE DEF P
<1>9. c[0] = <<1, 0>>
  BY <1>8
<1>10. \A t \in 1..23 : c[t] = Turn(c[t - 1])
  <2>1. \A t \in 1..23 : t \in 0..23 /\ t # 0
    OBVIOUS
  <2> QED BY <1>8, <2>1
<1> QED BY <1>7, <1>9, <1>10, Zenon DEF Turn

LEMMA WalkIs ==
  /\ Kec!Walk[0] = <<1, 0>> /\ Kec!Walk[1] = <<0, 2>> /\ Kec!Walk[2] = <<2, 1>> /\ Kec!Walk[3] = <<1, 2>>
  /\ Kec!Walk[4] = <<2, 3>> /\ Kec!Walk[5] = <<3, 3>> /\ Kec!Walk[6] = <<3, 0>> /\ Kec!Walk[7] = <<0, 1>>
  /\ Kec!Walk[8] = <<1, 3>> /\ Kec!Walk[9] = <<3, 1>> /\ Kec!Walk[10] = <<1, 4>> /\ Kec!Walk[11] = <<4, 4>>
  /\ Kec!Walk[12] = <<4, 0>> /\ Kec!Walk[13] = <<0, 3>> /\ Kec!Walk[14] = <<3, 4>> /\ Kec!Walk[15] = <<4, 3>>
  /\ Kec!Walk[16] = <<3, 2>> /\ Kec!Walk[17] = <<2, 2>> /\ Kec!Walk[18] = <<2, 0>> /\ Kec!Walk[19] = <<0, 4>>
  /\ Kec!Walk[20] = <<4, 2>> /\ Kec!Walk[21] = <<2, 4>> /\ Kec!Walk[22] = <<4, 1>> /\ Kec!Walk[23] = <<1, 1>>
<1>1. Kec!Walk[0] = <<1, 0>> /\ Kec!Walk[1] = <<0, 2>> /\ Kec!Walk[2] = <<2, 1>> /\ Kec!Walk[3] = <<1, 2>>
  BY WalkSteps
<1>2. Kec!Walk[4] = <<2, 3>> /\ Kec!Walk[5] = <<3, 3>> /\ Kec!Walk[6] = <<3, 0>> /\ Kec!Walk[7] = <<0, 1>>
  BY <1>1, WalkSteps
<1>3. Kec!Walk[8] = <<1, 3>> /\ Kec!Walk[9] = <<3, 1>> /\ Kec!Walk[10] = <<1, 4>> /\ Kec!Walk[11] = <<4, 4>>
  BY <1>2, WalkSteps
<1>4. Kec!Walk[12] = <<4, 0>> /\ Kec!Walk[13] = <<0, 3>> /\ Kec!Walk[14] = <<3, 4>> /\ Kec!Walk[15] = <<4, 3>>
  BY <1>3, WalkSteps
<1>5. Kec!Walk[16] = <<3, 2>> /\ Kec!Walk[17] = <<2, 2>> /\ Kec!Walk[18] = <<2, 0>> /\ Kec!Walk[19] = <<0, 4>>
  BY <1>4, WalkSteps
<1>6. Kec!Walk[20] = <<4, 2>> /\ Kec!Walk[21] = <<2, 4>> /\ Kec!Walk[22] = <<4, 1>> /\ Kec!Walk[23] = <<1, 1>>
  BY <1>5, WalkSteps
<1> QED BY <1>1, <1>2, <1>3, <1>4, <1>5, <1>6

(* The step of the walk at which it comes to the lane <<x, y>>.            *)
StepTo == <<<<99, 7, 1, 13, 19>>, <<0, 23, 3, 8, 10>>, <<18, 2, 17, 4, 21>>,
            <<6, 9, 16, 5, 14>>, <<12, 22, 20, 15, 11>>>>

LEMMA RhoIs ==
  ASSUME NEW x \in 0..4, NEW y \in 0..4
  PROVE  Kec!Rho(x, y) = IF x = 0 /\ y = 0 THEN 0
                         ELSE LET t == StepTo[x + 1][y + 1] IN (((t + 1) * (t + 2)) \div 2) % 64
<1> DEFINE t == StepTo[x + 1][y + 1]
<1>1. ASSUME ~(x = 0 /\ y = 0) PROVE t \in 0..23 /\ Kec!Walk[t] = <<x, y>>
  BY <1>1, WalkIs DEF StepTo
<1>2. \A s \in 0..23 : Kec!Walk[s] = <<x, y>> => s = t
  BY WalkIs DEF StepTo
<1> HIDE DEF t
<1>3. ~(x = 0 /\ y = 0) => (CHOOSE s \in 0..23 : Kec!Walk[s] = <<x, y>>) = t
  BY <1>1, <1>2
<1>4. CASE x = 0 /\ y = 0
  BY <1>4 DEF Kec!Rho
<1>5. CASE ~(x = 0 /\ y = 0)
  <2>1. Kec!Rho(x, y) = LET s == CHOOSE s \in 0..23 : Kec!Walk[s] = <<x, y>> IN (((s + 1) * (s + 2)) \div 2) % 64
    BY <1>5, Zenon DEF Kec!Rho
  <2>2. Kec!Rho(x, y) = (((t + 1) * (t + 2)) \div 2) % 64
    BY <1>3, <1>5, <2>1, Zenon
  <2> QED BY <1>5, <2>2 DEF t
<1> QED BY <1>4, <1>5

LEMMA RotationsAre ==
  ASSUME NEW r \in 1..4, NEW w \in 1..5, NEW k \in 1..5
  PROVE  Kec!Rotations(r, w)[k] = Kec!Rho(Down(r, w, k), Across(r, w, k))
<1> DEFINE Turn(x, y) == IF x = 0 /\ y = 0 THEN 0
                         ELSE LET t == StepTo[x + 1][y + 1] IN (((t + 1) * (t + 2)) \div 2) % 64
<1>1. Kec!Rho(Down(r, w, k), Across(r, w, k)) = Turn(Down(r, w, k), Across(r, w, k))
  <2>1. Down(r, w, k) \in 0..4 /\ Across(r, w, k) \in 0..4
    BY DEF Down, Across, Aside
  <2> QED BY <2>1, RhoIs
<1>2. CASE r = 1
  <2>1. Kec!Rotations(1, w)[k] = Turn(Down(1, w, k), Across(1, w, k))
    BY DEF Kec!Rotations, Down, Across, Aside, StepTo
  <2> QED BY <1>1, <1>2, <2>1
<1>3. CASE r # 1
  BY <1>1, <1>3 DEF Kec!Rotations, Down, Across, Aside, StepTo
<1> QED BY <1>2, <1>3

(* The shift register, bit by bit.                                         *)
Shifted(s, z) ==
  /\ 0 \in z <=> 7 \in s
  /\ 1 \in z <=> 0 \in s
  /\ 2 \in z <=> 1 \in s
  /\ 3 \in z <=> 2 \in s
  /\ 4 \in z <=> ~(3 \in s <=> 7 \in s)
  /\ 5 \in z <=> ~(4 \in s <=> 7 \in s)
  /\ 6 \in z <=> ~(5 \in s <=> 7 \in s)
  /\ 7 \in z <=> 6 \in s

LEMMA RegisterSteps ==
  /\ Kec!Register[0] = {0}
  /\ \A t \in 1..167 : Shifted(Kec!Register[t - 1], Kec!Register[t])
<1> DEFINE R == SUBSET (0..7)
           Up(s) == {b + 1 : b \in s}
           Turn(s) == IF 8 \in Up(s) THEN Kec!Xor(Up(s) \ {8}, {0, 4, 5, 6}) ELSE Up(s)
           G == [t \in 1..167 |-> [s \in R |-> Turn(s)]]
           P(f) == f = [t \in 0..167 |-> IF t = 0 THEN {0} ELSE Turn(f[t - 1])]
           c == CHOOSE f : P(f)
<1>1. ASSUME NEW s \in R PROVE Turn(s) \in R /\ Shifted(s, Turn(s))
  <2> DEFINE u == Up(s)
  <2>1. /\ u \in SUBSET (1..8)
        /\ \A b \in 1..8 : b \in u <=> b - 1 \in s
    OBVIOUS
  <2> HIDE DEF u
  <2>2. /\ 1 \in u <=> 0 \in s
        /\ 2 \in u <=> 1 \in s
        /\ 3 \in u <=> 2 \in s
        /\ 4 \in u <=> 3 \in s
        /\ 5 \in u <=> 4 \in s
        /\ 6 \in u <=> 5 \in s
        /\ 7 \in u <=> 6 \in s
        /\ 8 \in u <=> 7 \in s
        /\ 0 \notin u
    BY <2>1
  <2>3. Turn(s) = IF 8 \in u THEN Kec!Xor(u \ {8}, {0, 4, 5, 6}) ELSE u
    BY DEF u
  <2> HIDE DEF Turn
  <2>4. CASE 8 \in u
    <3> DEFINE w == u \ {8}
               m == {0, 4, 5, 6}
    <3>1. \A b \in 0..7 : b \in w <=> b \in u
      OBVIOUS
    <3>2. /\ 0 \in m /\ 4 \in m /\ 5 \in m /\ 6 \in m
          /\ 1 \notin m /\ 2 \notin m /\ 3 \notin m /\ 7 \notin m
          /\ m \in R
      OBVIOUS
    <3>3. w \in R
      BY <2>1
    <3>4. Turn(s) = Kec!Xor(w, m)
      BY <2>3, <2>4
    <3> HIDE DEF w, m
    <3>5. \A b : b \in Turn(s) <=> ~(b \in w <=> b \in m)
      BY <3>4 DEF Kec!Xor
    <3>6. Turn(s) \in R
      BY <3>2, <3>3, <3>4 DEF Kec!Xor
    <3> HIDE DEF R
    <3> QED BY <2>2, <2>4, <3>1, <3>2, <3>5, <3>6 DEF Shifted
  <2>5. CASE 8 \notin u
    BY <2>1, <2>2, <2>3, <2>5 DEF Shifted
  <2> QED BY <2>4, <2>5
<1>2. {0} \in R /\ 167 \in Nat
  OBVIOUS
<1> HIDE DEF R, Turn
<1>3. G \in [1..167 -> [R -> R]]
  BY <1>1
<1>4. PICK f : f = [n \in 0..167 |-> IF n = 0 THEN {0} ELSE G[n][f[n - 1]]] /\ \A n \in 0..167 : f[n] \in R
  <2> HIDE DEF G, P, c
  <2> DEFINE N == 167
             b == {0}
  <2>1. N \in Nat /\ b \in R /\ G \in [1..N -> [R -> R]]
    BY <1>2, <1>3
  <2> HIDE DEF N, b
  <2>2. \E f : f = [n \in 0..N |-> IF n = 0 THEN b ELSE G[n][f[n - 1]]] /\ \A n \in 0..N : f[n] \in R
    BY <2>1, StepsExist
  <2> QED BY <2>2 DEF N, b
<1>5. P(f)
  <2>1. ASSUME NEW n \in 0..167, n # 0 PROVE G[n][f[n - 1]] = Turn(f[n - 1])
    <3>1. n \in 1..167 /\ n - 1 \in 0..167
      BY <2>1
    <3> QED BY <1>4, <3>1
  <2> HIDE DEF G
  <2> QED BY <1>4, <2>1
<1>6. P(c)
  BY <1>5, Zenon
<1>7. Kec!Register = c
  BY DEF Kec!Register, Turn
<1> HIDE DEF c
<1>8. \A t \in 0..167 : c[t] = IF t = 0 THEN {0} ELSE Turn(c[t - 1])
  BY <1>6
<1> HIDE DEF P
<1>9. c[0] = {0}
  BY <1>8
<1>10. \A t \in 1..167 : c[t] = Turn(c[t - 1])
  <2>1. \A t \in 1..167 : t \in 0..167 /\ t # 0
    OBVIOUS
  <2> QED BY <1>8, <2>1
<1>11. \A t \in 0..167 : c[t] \in R
  <2> DEFINE T == {t \in Nat : t <= 167 => c[t] \in R}
  <2>1. 0 \in T
    BY <1>2, <1>9
  <2>2. ASSUME NEW t \in Nat, t \in T PROVE t + 1 \in T
    <3> SUFFICES ASSUME t + 1 <= 167 PROVE c[t + 1] \in R
      OBVIOUS
    <3>1. t + 1 \in 1..167 /\ (t + 1) - 1 = t /\ c[t] \in R
      BY <2>2
    <3> QED BY <1>1, <1>10, <3>1
  <2> HIDE DEF T
  <2>3. \A t \in Nat : t \in T
    BY <2>1, <2>2, NatSetInduction
  <2> QED BY <2>3 DEF T
<1>12. ASSUME NEW t \in 1..167 PROVE Shifted(c[t - 1], c[t])
  <2>1. t - 1 \in 0..167
    OBVIOUS
  <2> QED BY <1>1, <1>10, <1>11, <2>1
<1> QED BY <1>7, <1>9, <1>12, Zenon

(* The bits of a round's constant that can be one.                         *)
LEMMA IotaBits ==
  ASSUME NEW i \in 1..24
  PROVE  /\ Kec!Iota(i) \in SUBSET {0, 1, 3, 7, 15, 31, 63}
         /\ 0 \in Kec!Iota(i) <=> 0 \in Kec!Register[7 * (i - 1)]
         /\ 1 \in Kec!Iota(i) <=> 0 \in Kec!Register[7 * (i - 1) + 1]
         /\ 3 \in Kec!Iota(i) <=> 0 \in Kec!Register[7 * (i - 1) + 2]
         /\ 7 \in Kec!Iota(i) <=> 0 \in Kec!Register[7 * (i - 1) + 3]
         /\ 15 \in Kec!Iota(i) <=> 0 \in Kec!Register[7 * (i - 1) + 4]
         /\ 31 \in Kec!Iota(i) <=> 0 \in Kec!Register[7 * (i - 1) + 5]
         /\ 63 \in Kec!Iota(i) <=> 0 \in Kec!Register[7 * (i - 1) + 6]
<1> DEFINE B == {j \in 0..6 : 0 \in Kec!Register[j + 7 * (i - 1)]}
<1>1. 2^0 = 1 /\ 2^1 = 2 /\ 2^2 = 4 /\ 2^3 = 8 /\ 2^4 = 16 /\ 2^5 = 32 /\ 2^6 = 64
  OBVIOUS
<1>2. \A j \in 0..6 : j \in B <=> 0 \in Kec!Register[7 * (i - 1) + j]
  <2>1. \A j \in 0..6 : j + 7 * (i - 1) = 7 * (i - 1) + j
    OBVIOUS
  <2> QED BY <2>1
<1>3. Kec!Iota(i) = {2^j - 1 : j \in B}
  BY DEF Kec!Iota
<1>4. B \subseteq 0..6
  OBVIOUS
<1> HIDE DEF B
<1>5. \A x : x \in Kec!Iota(i) <=>
        \/ (x = 0 /\ 0 \in B) \/ (x = 1 /\ 1 \in B) \/ (x = 3 /\ 2 \in B) \/ (x = 7 /\ 3 \in B)
        \/ (x = 15 /\ 4 \in B) \/ (x = 31 /\ 5 \in B) \/ (x = 63 /\ 6 \in B)
  <2> DEFINE e == <<0, 1, 3, 7, 15, 31, 63>>
  <2>1. \A j \in 0..6 : 2^j - 1 = e[j + 1]
    <3>1. e[0 + 1] = 2^0 - 1 /\ e[1 + 1] = 2^1 - 1 /\ e[2 + 1] = 2^2 - 1 /\ e[3 + 1] = 2^3 - 1
          /\ e[4 + 1] = 2^4 - 1 /\ e[5 + 1] = 2^5 - 1 /\ e[6 + 1] = 2^6 - 1
      BY <1>1
    <3>2. \A j \in 0..6 : j = 0 \/ j = 1 \/ j = 2 \/ j = 3 \/ j = 4 \/ j = 5 \/ j = 6
      OBVIOUS
    <3> HIDE DEF e
    <3> QED BY <3>1, <3>2, Zenon
  <2>2. Kec!Iota(i) = {e[j + 1] : j \in B}
    BY <1>3, <1>4, <2>1
  <2>3. e[1] = 0 /\ e[2] = 1 /\ e[3] = 3 /\ e[4] = 7 /\ e[5] = 15 /\ e[6] = 31 /\ e[7] = 63
    OBVIOUS
  <2> HIDE DEF e
  <2>4. \A x : x \in Kec!Iota(i) <=> \E j \in 0..6 : j \in B /\ x = e[j + 1]
    BY <1>4, <2>2
  <2> QED BY <2>3, <2>4
<1>6. 7 * (i - 1) + 0 = 7 * (i - 1)
  OBVIOUS
<1> QED BY <1>2, <1>5, <1>6

(* The register after every seven steps, and the constant that the seven   *)
(* give: those of the code.                                                *)
Register7(t, s) == \A b \in 0..7 : b \in Kec!Register[t] <=> b \in s

LEMMA IotaIs ==
  \A i \in 1..24 : Kec!Iota(i) = Kec!rc[i]
<1>0. Register7(0, {0})
  BY RegisterSteps DEF Register7
<1>1. Kec!Iota(1) = Kec!rc[1] /\ Register7(7, {7})
  BY <1>0, RegisterSteps, IotaBits DEF Shifted, Register7, Kec!rc
<1>2. Kec!Iota(2) = Kec!rc[2] /\ Register7(14, {3, 4, 6, 7})
  BY <1>1, RegisterSteps, IotaBits DEF Shifted, Register7, Kec!rc
<1>3. Kec!Iota(3) = Kec!rc[3] /\ Register7(21, {1, 3, 4})
  BY <1>2, RegisterSteps, IotaBits DEF Shifted, Register7, Kec!rc
<1>4. Kec!Iota(4) = Kec!rc[4] /\ Register7(28, {0, 1, 2, 3, 4, 6, 7})
  BY <1>3, RegisterSteps, IotaBits DEF Shifted, Register7, Kec!rc
<1>5. Kec!Iota(5) = Kec!rc[5] /\ Register7(35, {0, 3})
  BY <1>4, RegisterSteps, IotaBits DEF Shifted, Register7, Kec!rc
<1>6. Kec!Iota(6) = Kec!rc[6] /\ Register7(42, {0, 2, 4, 5})
  BY <1>5, RegisterSteps, IotaBits DEF Shifted, Register7, Kec!rc
<1>7. Kec!Iota(7) = Kec!rc[7] /\ Register7(49, {0, 1, 2, 3, 6})
  BY <1>6, RegisterSteps, IotaBits DEF Shifted, Register7, Kec!rc
<1>8. Kec!Iota(8) = Kec!rc[8] /\ Register7(56, {1, 3, 6, 7})
  BY <1>7, RegisterSteps, IotaBits DEF Shifted, Register7, Kec!rc
<1>9. Kec!Iota(9) = Kec!rc[9] /\ Register7(63, {4, 5, 6})
  BY <1>8, RegisterSteps, IotaBits DEF Shifted, Register7, Kec!rc
<1>10. Kec!Iota(10) = Kec!rc[10] /\ Register7(70, {0, 6})
  BY <1>9, RegisterSteps, IotaBits DEF Shifted, Register7, Kec!rc
<1>11. Kec!Iota(11) = Kec!rc[11] /\ Register7(77, {2, 3, 5, 6, 7})
  BY <1>10, RegisterSteps, IotaBits DEF Shifted, Register7, Kec!rc
<1>12. Kec!Iota(12) = Kec!rc[12] /\ Register7(84, {0, 2, 4, 6, 7})
  BY <1>11, RegisterSteps, IotaBits DEF Shifted, Register7, Kec!rc
<1>13. Kec!Iota(13) = Kec!rc[13] /\ Register7(91, {0, 2, 3, 6, 7})
  BY <1>12, RegisterSteps, IotaBits DEF Shifted, Register7, Kec!rc
<1>14. Kec!Iota(14) = Kec!rc[14] /\ Register7(98, {0, 1, 5, 6})
  BY <1>13, RegisterSteps, IotaBits DEF Shifted, Register7, Kec!rc
<1>15. Kec!Iota(15) = Kec!rc[15] /\ Register7(105, {0, 1, 3, 5, 7})
  BY <1>14, RegisterSteps, IotaBits DEF Shifted, Register7, Kec!rc
<1>16. Kec!Iota(16) = Kec!rc[16] /\ Register7(112, {1, 3, 5, 7})
  BY <1>15, RegisterSteps, IotaBits DEF Shifted, Register7, Kec!rc
<1>17. Kec!Iota(17) = Kec!rc[17] /\ Register7(119, {1, 3, 5})
  BY <1>16, RegisterSteps, IotaBits DEF Shifted, Register7, Kec!rc
<1>18. Kec!Iota(18) = Kec!rc[18] /\ Register7(126, {1, 4, 5, 6, 7})
  BY <1>17, RegisterSteps, IotaBits DEF Shifted, Register7, Kec!rc
<1>19. Kec!Iota(19) = Kec!rc[19] /\ Register7(133, {3, 5, 6, 7})
  BY <1>18, RegisterSteps, IotaBits DEF Shifted, Register7, Kec!rc
<1>20. Kec!Iota(20) = Kec!rc[20] /\ Register7(140, {0, 1, 2, 4, 5})
  BY <1>19, RegisterSteps, IotaBits DEF Shifted, Register7, Kec!rc
<1>21. Kec!Iota(21) = Kec!rc[21] /\ Register7(147, {1, 2, 3, 4, 5})
  BY <1>20, RegisterSteps, IotaBits DEF Shifted, Register7, Kec!rc
<1>22. Kec!Iota(22) = Kec!rc[22] /\ Register7(154, {0, 1, 3})
  BY <1>21, RegisterSteps, IotaBits DEF Shifted, Register7, Kec!rc
<1>23. Kec!Iota(23) = Kec!rc[23] /\ Register7(161, {2, 6})
  BY <1>22, RegisterSteps, IotaBits DEF Shifted, Register7, Kec!rc
<1>24. Kec!Iota(24) = Kec!rc[24]
  BY <1>23, RegisterSteps, IotaBits DEF Shifted, Register7, Kec!rc
<1>25. \A i \in 1..24 : \/ i = 1 \/ i = 2 \/ i = 3 \/ i = 4 \/ i = 5 \/ i = 6 \/ i = 7 \/ i = 8
                         \/ i = 9 \/ i = 10 \/ i = 11 \/ i = 12 \/ i = 13 \/ i = 14 \/ i = 15 \/ i = 16
                         \/ i = 17 \/ i = 18 \/ i = 19 \/ i = 20 \/ i = 21 \/ i = 22 \/ i = 23 \/ i = 24
  OBVIOUS
<1> QED
  BY <1>1, <1>2, <1>3, <1>4, <1>5, <1>6, <1>7, <1>8, <1>9, <1>10, <1>11, <1>12, <1>13, <1>14, <1>15, <1>16, <1>17,
     <1>18, <1>19, <1>20, <1>21, <1>22, <1>23, <1>24, <1>25

(* Keccak-f on those lanes, one step of a round after the other.           *)
Theta(u) ==
  LET c == <<ColumnOf(0), ColumnOf(1), ColumnOf(2), ColumnOf(3), ColumnOf(4)>>
  IN Kec!Xor(c[((u + 4) % 5) + 1], Kec!Rotl(c[((u + 1) % 5) + 1], 1))
AfterPi(x, y) ==
  LET w == (x + 3 * y) % 5 IN Kec!Rotl(Kec!Xor(Before(w, x), Theta(w)), Kec!Rho(w, x))
AfterChi(x, y) == Kec!Xor(AfterPi(x, y), AfterPi((x + 2) % 5, y) \ AfterPi((x + 1) % 5, y))
AfterRound(i, x, y) ==
  IF x = 0 /\ y = 0 THEN Kec!Xor(AfterChi(x, y), Kec!Iota(i)) ELSE AfterChi(x, y)
Shift(y, i) == IF y = 4 /\ i % 4 = 1 THEN 1 ELSE 0

RoundFollows ==
  /\ rounds' = rounds + 1
  /\ \A x, y \in 0..4 :
       lanes'[Kec!PlaceOf(rounds', x, y)] = AfterRound(rounds', (x + Shift(y, rounds')) % 5, y)

(* The columns are those of the code, and so is what theta adds.           *)
LEMMA ColumnsAre ==
  ASSUME rounds \in Nat, NEW x \in 0..4
  PROVE  Kec!Column(x) = ColumnOf(x)
<1> DEFINE c == rounds % 4
           f == [y \in 0..4 |-> lanes[x + 5 * y]]
<1>1. c \in 0..3
  OBVIOUS
<1> HIDE DEF c
<1>2. \A y \in 0..4 : Row(c, x, y) \in 0..4
  BY <1>1, RowsDiffer
<1>3. ASSUME NEW y \in 0..4 PROVE Before(x, y) = f[Row(c, x, y)]
  BY <1>2, <1>3, PlaceIs DEF Before, Place, c
<1>4. f[0] = lanes[x] /\ f[1] = lanes[x + 5] /\ f[2] = lanes[x + 10] /\ f[3] = lanes[x + 15] /\ f[4] = lanes[x + 20]
  OBVIOUS
<1> HIDE DEF f
<1>5. ColumnOf(x) = Sum5(f[Row(c, x, 0)], f[Row(c, x, 1)], f[Row(c, x, 2)], f[Row(c, x, 3)], f[Row(c, x, 4)])
  BY <1>3, ColumnOfIs
<1>6. ColumnOf(x) = Sum5(f[0], f[1], f[2], f[3], f[4])
  BY <1>1, <1>5, SumRows
<1> QED BY <1>4, <1>6, ColumnIs

LEMMA ThetaIs ==
  ASSUME rounds \in Nat, NEW u \in 0..4
  PROVE  Kec!Theta[u + 1] = Theta(u)
<1> DEFINE b == <<Kec!Column(0), Kec!Column(1), Kec!Column(2), Kec!Column(3), Kec!Column(4)>>
           c == <<ColumnOf(0), ColumnOf(1), ColumnOf(2), ColumnOf(3), ColumnOf(4)>>
           D(x) == Kec!Xor(b[((x + 4) % 5) + 1], Kec!Rotl(b[((x + 1) % 5) + 1], 1))
<1>1. b = c
  BY ColumnsAre
<1>2. Kec!Theta = <<D(0), D(1), D(2), D(3), D(4)>>
  BY DEF Kec!Theta
<1>3. Theta(u) = D(u)
  BY <1>1 DEF Theta
<1> HIDE DEF D
<1> QED BY <1>2, <1>3

(* The lanes of a row, between pi and chi.                                 *)
LEMMA RowIs ==
  ASSUME rounds \in Nat, NEW w \in 1..5, NEW l \in 0..4
  PROVE  LET r == (rounds % 4) + 1
             x == (l + Aside(r, w)) % 5
         IN \A p : p % 5 = l => Kec!RowOut(r, w, Kec!Theta, p) = AfterChi(x, w - 1)
<1> DEFINE r == (rounds % 4) + 1
           y == w - 1
           places == Kec!Rows[r][w]
           d == Kec!Theta
           BC(k) == Kec!Rotl(Kec!Xor(lanes[places[k]], d[(places[k] % 5) + 1]), Kec!Rotations(r, w)[k])
           bc == <<BC(1), BC(2), BC(3), BC(4), BC(5)>>
<1>1. r \in 1..4 /\ r - 1 = rounds % 4 /\ r - 1 \in 0..3 /\ y \in 0..4
  OBVIOUS
<1> HIDE DEF r
<1>2. ASSUME NEW k \in 1..5 PROVE BC(k) = AfterPi(Across(r, w, k), y)
  <2> DEFINE u == Down(r, w, k)
             v == Across(r, w, k)
  <2>1. u \in 0..4 /\ v \in 0..4
    BY <1>1, DownsDiffer
  <2>2. u = (v + 3 * y) % 5
    BY DEF Down
  <2> HIDE DEF u, v
  <2>3. places[k] = Place(r - 1, u, v)
    BY <1>1, RowsAre DEF u, v
  <2>4. lanes[places[k]] = Before(u, v) /\ places[k] % 5 = u
    BY <1>1, <2>1, <2>3, PlaceIs, RowsDiffer DEF Before
  <2>5. Kec!Rotations(r, w)[k] = Kec!Rho(u, v)
    BY <1>1, RotationsAre DEF u, v
  <2>6. d[(places[k] % 5) + 1] = Theta(u)
    BY <2>1, <2>4, ThetaIs
  <2> QED BY <2>2, <2>4, <2>5, <2>6 DEF AfterPi, v
<1> HIDE DEF BC
<1>3. \A k \in 1..5 : bc[k] = BC(k)
  OBVIOUS
<1> DEFINE a == Aside(r, w)
           x == (l + a) % 5
<1>4. a \in 0..1
  BY DEF Aside
<1>5. \A k \in 1..5 : Across(r, w, k) = (k - 1 + a) % 5
  BY DEF Across
<1> HIDE DEF bc, a
<1>6. bc[l + 1] = AfterPi(x, y)
  <2>1. l + 1 \in 1..5 /\ (l + 1) - 1 = l
    OBVIOUS
  <2> QED BY <1>2, <1>3, <1>5, <2>1
<1>7. bc[((l + 2) % 5) + 1] = AfterPi((x + 2) % 5, y) /\ bc[((l + 1) % 5) + 1] = AfterPi((x + 1) % 5, y)
  <2>1. /\ ((l + 2) % 5) + 1 \in 1..5 /\ ((((l + 2) % 5) + 1) - 1 + a) % 5 = (x + 2) % 5
        /\ ((l + 1) % 5) + 1 \in 1..5 /\ ((((l + 1) % 5) + 1) - 1 + a) % 5 = (x + 1) % 5
    BY <1>4
  <2> QED BY <1>2, <1>3, <1>5, <2>1
<1>8. Kec!Chi(bc, l) = AfterChi(x, y)
  BY <1>6, <1>7, Zenon DEF Kec!Chi, AfterChi
<1>9. ASSUME NEW p, p % 5 = l PROVE Kec!RowOut(r, w, d, p) = Kec!Chi(bc, l)
  BY <1>9 DEF Kec!RowOut, bc, BC
<1> QED BY <1>8, <1>9 DEF r, a

(* The places of the five rows are all there are, each of one row.         *)
LEMMA RowOfPlace ==
  ASSUME NEW r \in 1..4, NEW x \in 0..4, NEW y \in 0..4
  PROVE  (CHOOSE w \in 1..5 : \E k \in 1..5 : Kec!Rows[r][w][k] = Place(r % 4, x, y)) = y + 1
<1> DEFINE c == r % 4
           p == Place(c, x, y)
           In(w) == \E k \in 1..5 : Kec!Rows[r][w][k] = p
<1>1. c \in 0..3 /\ y + 1 \in 1..5 /\ (y + 1) - 1 = y
  OBVIOUS
<1>2. \A w, k \in 1..5 : Kec!Rows[r][w][k] = Place(c, Down(r, w, k), w - 1)
  BY RowsAre
<1> HIDE DEF c
<1>3. In(y + 1)
  <2>1. PICK k \in 1..5 : Down(r, y + 1, k) = x
    BY <1>1, DownsDiffer
  <2> QED BY <1>1, <1>2, <2>1
<1>4. ASSUME NEW w \in 1..5, In(w) PROVE w = y + 1
  <2>1. PICK k \in 1..5 : Kec!Rows[r][w][k] = p
    BY <1>4
  <2> DEFINE u == Down(r, w, k)
             z == w - 1
  <2>2. u \in 0..4 /\ z \in 0..4
    BY DownsDiffer
  <2>3. Place(c, u, z) = p
    BY <1>2, <2>1
  <2> HIDE DEF u, z
  <2>4. u = x
    BY <1>1, <2>2, <2>3, RowsDiffer
  <2>5. Row(c, x, z) = Row(c, x, y)
    <3>1. Row(c, x, z) \in 0..4 /\ Row(c, x, y) \in 0..4
      BY <1>1, <2>2, RowsDiffer
    <3> QED BY <2>3, <2>4, <3>1 DEF Place
  <2>6. z = y
    BY <1>1, <2>2, <2>5, RowsDiffer
  <2> QED BY <2>6 DEF z
<1> HIDE DEF In
<1>5. (CHOOSE w \in 1..5 : In(w)) = y + 1
  BY <1>1, <1>3, <1>4
<1> QED BY <1>5 DEF In, c

(* A round of the code is one of Keccak-f but for the shift.               *)
LEMMA RoundIs ==
  ASSUME rounds \in Nat, Kec!Round
  PROVE  RoundFollows
<1> DEFINE r == (rounds % 4) + 1
           d == Kec!Theta
           RowOf(l) == CHOOSE w \in 1..5 : \E k \in 1..5 : Kec!Rows[r][w][k] = l
           out == [l \in 0..24 |-> Kec!RowOut(r, RowOf(l), d, l)]
<1>0. rounds < 24 /\ rounds' = rounds + 1
  BY DEF Kec!Round
<1>1. lanes' = [out EXCEPT ![0] = Kec!Xor(@, Kec!rc[rounds'])]
  BY DEF Kec!Round
<1>2. /\ r \in 1..4 /\ r % 4 = rounds' % 4 /\ rounds' \in 1..24 /\ rounds' % 4 \in 0..3
      /\ r = 1 <=> rounds' % 4 = 1
  <2> DEFINE c == rounds % 4
  <2>1. c \in 0..3 /\ (rounds + 1) % 4 = IF c = 3 THEN 0 ELSE c + 1
    OBVIOUS
  <2>2. rounds + 1 \in 1..24
    BY <1>0
  <2> HIDE DEF c
  <2>3. rounds' % 4 = IF c = 3 THEN 0 ELSE c + 1
    BY <1>0, <2>1
  <2>4. (c + 1) % 4 = IF c = 3 THEN 0 ELSE c + 1
    BY <2>1
  <2>5. c + 1 \in 1..4 /\ (IF c = 3 THEN 0 ELSE c + 1) \in 0..3 /\ (c + 1 = 1 <=> (IF c = 3 THEN 0 ELSE c + 1) = 1)
    BY <2>1
  <2> QED BY <1>0, <2>2, <2>3, <2>4, <2>5 DEF c
<1> SUFFICES ASSUME NEW x \in 0..4, NEW y \in 0..4
             PROVE  lanes'[Kec!PlaceOf(rounds', x, y)] = AfterRound(rounds', (x + Shift(y, rounds')) % 5, y)
  BY <1>0 DEF RoundFollows
<1> DEFINE p == Kec!PlaceOf(rounds', x, y)
           s == (x + Shift(y, rounds')) % 5
<1>3. p = Place(r % 4, x, y) /\ p \in 0..24 /\ p % 5 = x
  BY <1>2, PlaceIs, RowsDiffer
<1>4. RowOf(p) = y + 1
  <2>1. (CHOOSE w \in 1..5 : \E k \in 1..5 : Kec!Rows[r][w][k] = Place(r % 4, x, y)) = y + 1
    BY <1>2, RowOfPlace
  <2> HIDE DEF p, r
  <2> QED BY <1>3, <2>1, Zenon
<1>5. s = (x + Aside(r, y + 1)) % 5
  <2>1. y = 4 <=> y + 1 = 5
    OBVIOUS
  <2>2. Shift(y, rounds') = Aside(r, y + 1)
    <3> HIDE DEF r
    <3> QED BY <1>2, <2>1 DEF Aside, Shift
  <2> QED BY <2>2
<1>6. out[p] = AfterChi(s, y)
  <2>1. y + 1 \in 1..5 /\ (y + 1) - 1 = y
    OBVIOUS
  <2>2. out[p] = Kec!RowOut(r, y + 1, d, p)
    BY <1>3, <1>4
  <2> HIDE DEF out, p, s, d
  <2>3. Kec!RowOut(r, y + 1, Kec!Theta, p) = AfterChi((x + Aside(r, y + 1)) % 5, (y + 1) - 1)
    BY <1>3, <2>1, RowIs
  <2> QED BY <1>5, <2>1, <2>2, <2>3 DEF d
<1>7. p = 0 <=> s = 0 /\ y = 0
  <2>1. CASE y = 0
    <3>1. s = x
      BY <2>1 DEF Shift
    <3>2. p = x + 5 * Row(r % 4, x, 0)
      BY <1>3, <2>1 DEF Place
    <3>3. Row(r % 4, x, 0) \in 0..4 /\ (x = 0 => Row(r % 4, x, 0) = 0)
      BY <1>2 DEF Row
    <3> QED BY <2>1, <3>1, <3>2, <3>3
  <2>2. CASE y # 0
    <3>1. Row(r % 4, x, y) \in 0..4 /\ (x = 0 => Row(r % 4, x, y) # 0)
      BY <1>2, <2>2 DEF Row
    <3> QED BY <1>3, <2>2, <3>1 DEF Place
  <2> QED BY <2>1, <2>2
<1>8. lanes'[p] = IF p = 0 THEN Kec!Xor(out[p], Kec!rc[rounds']) ELSE out[p]
  <2>1. DOMAIN out = 0..24 /\ 0 \in 0..24
    OBVIOUS
  <2> HIDE DEF out, p
  <2> QED BY <1>1, <1>3, <2>1
<1>9. Kec!rc[rounds'] = Kec!Iota(rounds')
  BY <1>2, IotaIs
<1> HIDE DEF out, p, s
<1>10. lanes'[p] = AfterRound(rounds', s, y)
  BY <1>6, <1>7, <1>8, <1>9 DEF AfterRound
<1> QED BY <1>10 DEF p, s

(* keccakF1600 (keccakf.go): whatever state it is given, each of its       *)
(* unrolled rounds is one of Keccak-f on lanes that lie where the round    *)
(* before has left them, and the last row of every fourth, from the first  *)
(* one on, comes out one place to the side.                                *)
THEOREM RoundsAreKeccaks == KecSpec => RoundsFollowKeccak
<1>1. Kec!Init => rounds \in Nat
  BY DEF Kec!Init
<1>2. rounds \in Nat /\ [Kec!Next]_kecVars => (rounds \in Nat)'
  <2>1. Kec!Round => rounds' = rounds + 1
    BY DEF Kec!Round
  <2> QED BY <2>1 DEF Kec!Next, kecVars
<1>3. rounds \in Nat /\ [Kec!Next]_kecVars =>
        [Kec!FollowsKeccak(LAMBDA y, i : IF y = 4 /\ i % 4 = 1 THEN 1 ELSE 0)]_<<lanes, rounds>>
  <2> SUFFICES ASSUME rounds \in Nat, Kec!Round
               PROVE  Kec!FollowsKeccak(LAMBDA y, i : IF y = 4 /\ i % 4 = 1 THEN 1 ELSE 0)
    BY DEF Kec!Next, kecVars
  <2>1. RoundFollows
    BY RoundIs
  <2> QED BY <2>1 DEF Kec!FollowsKeccak, Kec!Specified, RoundFollows, AfterRound, AfterChi, AfterPi, Theta, ColumnOf, Before, Shift
<1> QED BY <1>1, <1>2, <1>3, PTL DEF KecSpec, RoundsFollowKeccak, Kec!RoundsFollowKeccak

-----------------------------------------------------------------------------
(* common/math/big.go: for any width, S256 of U256 is the only number in   *)
(* the range of the signed numbers that U256 takes back, at both ends of   *)
(* the range too.                                                          *)
THEOREM SignedIsTwosComplement == \A x \in Int : Math!TwosComplement(x)
<1> DEFINE h == Math!tt255
<1>1. h \in Nat \ {0} /\ Math!tt256 = 2 * h
  <2>1. Width - 1 \in Nat /\ (Width - 1) + 1 = Width
    BY NumbersAssumption
  <2> QED BY <2>1, PowersDouble DEF Math!tt255, Math!tt256
<1> SUFFICES ASSUME NEW x \in Int PROVE Math!TwosComplement(x)
  OBVIOUS
<1> DEFINE u == x % (2 * h)
           s == IF u < h THEN u ELSE u - 2 * h
<1> HIDE DEF h
<1>2. u \in 0..(2 * h - 1)
  BY <1>1
<1>3. Math!U256(x) = u /\ Math!S256(u) = s /\ Math!U256(s) = s % (2 * h)
  BY <1>1 DEF Math!U256, Math!S256, h
<1> HIDE DEF u
<1>4. s \in (-h)..(h - 1)
  BY <1>1, <1>2
<1>5. s % (2 * h) = u
  BY <1>1, <1>2
<1>6. x \in (-h)..(h - 1) => s = x
  BY <1>1 DEF u
<1> QED BY <1>1, <1>3, <1>4, <1>5, <1>6 DEF Math!TwosComplement, h

-----------------------------------------------------------------------------
(* The digits of x from a on, below a * b * c, are those of x.             *)
LEMMA DigitOfWord ==
  ASSUME NEW a \in Nat \ {0}, NEW b \in Nat \ {0}, NEW c \in Nat \ {0}, NEW x \in Int
  PROVE  ((x % (a * (b * c))) \div a) % b = (x \div a) % b
<1> DEFINE y == x \div a
           z == y % (b * c)
           s == x % a
<1>1. y \in Int /\ s \in 0..(a - 1)
  BY Divided
<1>2. b * c \in Nat \ {0}
  BY Products
<1>3. x % (a * (b * c)) = a * z + s
  BY <1>2, TwoDigits
<1>4. z = b * ((y \div b) % c) + (y % b) /\ z \in Int
  <2>1. z \in Int
    <3> DEFINE m == b * c
    <3> HIDE DEF m
    <3> QED BY <1>1, <1>2, Divided DEF m
  <2> HIDE DEF y
  <2> QED BY <1>1, <2>1, TwoDigits
<1>5. (y \div b) % c \in Int /\ y % b \in 0..(b - 1)
  BY <1>1, Divided
<1> HIDE DEF y, z, s
<1>6. (a * z + s) \div a = z
  BY <1>1, <1>4, Divides
<1>7. z % b = y % b
  <2> DEFINE u == (y \div b) % c
             v == y % b
  <2>1. u \in Int /\ v \in 0..(b - 1) /\ z = b * u + v
    BY <1>4, <1>5
  <2> HIDE DEF u, v
  <2>2. z % b = v
    BY <2>1, Divides
  <2> QED BY <2>2 DEF v
<1> QED BY <1>3, <1>6, <1>7 DEF y

(* Remainders of products.                                                 *)
LEMMA ModProduct ==
  ASSUME NEW m \in Nat \ {0}, NEW x \in Int, NEW y \in Int
  PROVE  (x * y) % m = ((x % m) * (y % m)) % m /\ (x * y) % m = ((x % m) * y) % m
<1>1. \A u, v \in Int : (u * v) % m = ((u % m) * v) % m
  <2> SUFFICES ASSUME NEW u \in Int, NEW v \in Int PROVE (u * v) % m = ((u % m) * v) % m
    OBVIOUS
  <2> DEFINE q == u \div m
             r == u % m
             p == (r * v) \div m
             t == (r * v) % m
  <2>1. q \in Int /\ r \in Int /\ u = m * q + r
    BY Divided
  <2> HIDE DEF q, r
  <2>2. r * v \in Int
    BY <2>1
  <2>3. p \in Int /\ t \in 0..(m - 1) /\ r * v = m * p + t
    BY <2>2, Divided
  <2> HIDE DEF p, t
  <2>4. u * v = m * (q * v + p) + t
    <3>1. u * v = (m * q) * v + r * v
      BY <2>1
    <3>2. (m * q) * v = m * (q * v) /\ q * v \in Int
      BY <2>1
    <3>3. m * (q * v + p) = m * (q * v) + m * p
      BY <2>3, <3>2
    <3>4. m * (q * v) \in Int /\ m * p \in Int
      BY <2>3, <3>2
    <3> QED BY <2>3, <3>1, <3>2, <3>3, <3>4
  <2>5. q * v + p \in Int
    BY <2>1, <2>3
  <2>6. (u * v) % m = t
    BY <2>3, <2>4, <2>5, Divides
  <2> QED BY <2>6 DEF t, r
<1>2. x % m \in Int
  BY Divided
<1>3. (x * y) % m = ((x % m) * y) % m
  BY <1>1
<1>4. (x % m) * y = y * (x % m) /\ (y % m) * (x % m) = (x % m) * (y % m)
  <2>1. y % m \in Int
    BY Divided
  <2> QED BY <1>2, <2>1
<1>5. (y * (x % m)) % m = ((y % m) * (x % m)) % m
  BY <1>1, <1>2
<1> QED BY <1>3, <1>4, <1>5

(* The bits of a number: as many as it takes.                              *)
LEMMA BitLenIs ==
  ASSUME NEW x \in Int
  PROVE  LET n == Math!BitLen(x) IN
           n \in Nat /\ Math!Abs(x) \in Nat /\ Math!Abs(x) < 2^n /\ (n > 0 => Math!Abs(x) >= 2^(n - 1))
<1> DEFINE a == Math!Abs(x)
<1>1. a \in Nat
  BY DEF Math!Abs
<1> HIDE DEF a
<1>2. \E n \in 0..a : a < 2^n /\ (n > 0 => a >= 2^(n - 1))
  <2> DEFINE S == {n \in Nat : a < 2^n}
  <2>1. a \in S
    BY <1>1, PowersGrow
  <2>2. PICK n \in S : \A k \in S : n <= k
    <3>1. S \in SUBSET Nat /\ S # {}
      BY <2>1
    <3> HIDE DEF S
    <3> QED BY <3>1, LeastExists
  <2>3. n <= a /\ n \in Nat
    BY <2>1, <2>2
  <2>4. n > 0 => a >= 2^(n - 1)
    <3> SUFFICES ASSUME n > 0, ~(a >= 2^(n - 1)) PROVE FALSE
      OBVIOUS
    <3>1. n - 1 \in Nat /\ 2^(n - 1) \in Nat
      BY PowersDouble
    <3>2. n - 1 \in S
      BY <1>1, <3>1
    <3> QED BY <2>2, <3>1, <3>2
  <2> QED BY <1>1, <2>2, <2>3, <2>4
<1>3. Math!BitLen(x) = CHOOSE n \in 0..a : a < 2^n /\ (n > 0 => a >= 2^(n - 1))
  BY DEF Math!BitLen, a
<1> DEFINE c == CHOOSE n \in 0..a : a < 2^n /\ (n > 0 => a >= 2^(n - 1))
<1>4. c \in 0..a /\ a < 2^c /\ (c > 0 => a >= 2^(c - 1))
  BY <1>2
<1> HIDE DEF c
<1>5. Math!BitLen(x) = c
  BY <1>3 DEF c
<1> QED BY <1>1, <1>4, <1>5 DEF a

-----------------------------------------------------------------------------
(* Bytes read out of the words of a number.                                *)
LEMMA BytesValueIs ==
  ASSUME NEW n \in Nat, NEW s \in [1..n -> Int], NEW h \in [0..n -> Int], h[0] = 0,
         \A k \in 1..n : h[k] = h[k - 1] * 2^ByteBits + s[k]
  PROVE  Math!BytesValue(s) = h[n]
<1> DEFINE B == 2^ByteBits
           Turn(k, v) == v * B + s[k]
           G == [k \in 1..n |-> [v \in Int |-> Turn(k, v)]]
           P(f) == f = [t \in SUBSET (1..n) |-> IF t = {} THEN 0 ELSE Turn(Max(t), f[t \ {Max(t)}])]
           c == CHOOSE f : P(f)
<1>1. B \in Int
  BY NumbersAssumption, PowersDouble
<1> HIDE DEF B
<1>2. G \in [1..n -> [Int -> Int]]
  BY <1>1
<1>3. PICK f \in [SUBSET (1..n) -> Int] : Iterates(f, n, 0, G)
  <2> DEFINE R == Int
  <2>1. 0 \in R
    OBVIOUS
  <2> HIDE DEF G, R
  <2>2. \E f \in [SUBSET (1..n) -> R] : Iterates(f, n, 0, G)
    BY <1>2, <2>1, FoldExists DEF R
  <2> QED BY <2>2 DEF R
<1>4. P(f)
  <2>1. \A t \in SUBSET (1..n) : t # {} => G[Max(t)][f[t \ {Max(t)}]] = Turn(Max(t), f[t \ {Max(t)}])
    <3> SUFFICES ASSUME NEW t \in SUBSET (1..n), t # {}
                 PROVE  G[Max(t)][f[t \ {Max(t)}]] = Turn(Max(t), f[t \ {Max(t)}])
      OBVIOUS
    <3>1. Max(t) \in t
      BY MaxExists
    <3>2. f[t \ {Max(t)}] \in Int
      OBVIOUS
    <3> QED BY <3>1, <3>2
  <2>2. f = [t \in SUBSET (1..n) |-> IF t = {} THEN 0 ELSE G[Max(t)][f[t \ {Max(t)}]]]
    BY <1>3 DEF Iterates
  <2> HIDE DEF G
  <2>3. \A t \in SUBSET (1..n) :
          (IF t = {} THEN 0 ELSE G[Max(t)][f[t \ {Max(t)}]]) = IF t = {} THEN 0 ELSE Turn(Max(t), f[t \ {Max(t)}])
    BY <2>1
  <2> QED BY <2>2, <2>3, Zenon
<1>5. P(c)
  BY <1>4
<1> HIDE DEF c
<1>6. Math!BytesValue(s) = c[1..n]
  BY DEF Math!BytesValue, Math!FoldLeft, Math!MapThenFoldSet, Math!Max, Max, c, B
<1>7. \A t \in SUBSET (1..n) : c[t] = IF t = {} THEN 0 ELSE Turn(Max(t), c[t \ {Max(t)}])
  BY <1>5
<1> DEFINE T == {k \in Nat : k <= n => c[1..k] = h[k]}
<1>8. 0 \in T
  <2>1. 1..0 = {} /\ 1..0 \in SUBSET (1..n)
    OBVIOUS
  <2> QED BY <1>7, <2>1
<1>9. ASSUME NEW k \in Nat, k \in T PROVE k + 1 \in T
  <2> SUFFICES ASSUME k + 1 <= n PROVE c[1..(k + 1)] = h[k + 1]
    OBVIOUS
  <2>1. k + 1 \in 1..n /\ (k + 1) - 1 = k
    OBVIOUS
  <2>2. c[1..(k + 1)] = Turn(k + 1, c[1..k])
    <3> DEFINE j == k + 1
    <3>1. 1..j \in SUBSET (1..n) /\ 1..j # {} /\ Max(1..j) = j /\ (1..j) \ {j} = 1..(j - 1)
      BY <2>1, Turns
    <3>2. 1..(j - 1) = 1..k
      BY <2>1
    <3> HIDE DEF Turn, j
    <3>3. c[1..j] = Turn(j, c[1..(j - 1)])
      BY <1>7, <3>1
    <3> QED BY <3>2, <3>3 DEF j
  <2>3. c[1..k] = h[k]
    BY <1>9
  <2>4. h[k + 1] = h[k] * B + s[k + 1]
    BY <2>1 DEF B
  <2> QED BY <2>2, <2>3, <2>4
<1> HIDE DEF T
<1>10. n \in T
  BY <1>8, <1>9, NatSetInduction
<1> QED BY <1>6, <1>10 DEF T

(* The number of words or bytes that it takes to hold so many bits.        *)
LEMMA Groups ==
  ASSUME NEW m \in Nat \ {0}, NEW n \in Nat
  PROVE  LET g == (n + m - 1) \div m IN
           g \in Nat /\ m * g >= n /\ m * g < n + m
<1> DEFINE y == n + m - 1
           g == y \div m
           r == y % m
<1>1. y \in Nat
  OBVIOUS
<1>2. g \in Int /\ r \in 0..(m - 1) /\ y = m * g + r
  BY <1>1, Divided
<1>3. g \in Nat
  BY <1>1
<1>4. m * g \in Int
  BY <1>2
<1> QED BY <1>2, <1>3, <1>4

LEMMA Small ==
  ASSUME NEW m \in Nat \ {0}, NEW x \in 0..(m - 1)
  PROVE  x \div m = 0 /\ x % m = x
OBVIOUS

(* How many words there are, and what is in them.                          *)
LEMMA BitsAre ==
  ASSUME NEW x \in Int
  PROVE  /\ Len(Math!Bits(x)) \in Nat /\ DOMAIN Math!Bits(x) = 1..Len(Math!Bits(x))
         /\ WordBits * Len(Math!Bits(x)) >= Math!BitLen(x)
         /\ x # 0 => Len(Math!Bits(x)) >= 1
         /\ \A i \in 1..Len(Math!Bits(x)) : Math!Bits(x)[i] = (Math!Abs(x) \div 2^(WordBits * (i - 1))) % 2^WordBits
<1> DEFINE n == (Math!BitLen(x) + WordBits - 1) \div WordBits
           b == Math!BitLen(x)
<1>1. b \in Nat /\ WordBits \in Nat \ {0}
  BY BitLenIs, NumbersAssumption
<1>2. n \in Nat /\ WordBits * n >= b /\ WordBits * n < b + WordBits
  BY <1>1, Groups
<1>3. x # 0 => b > 0
  <2>1. Math!Abs(x) \in Nat /\ Math!Abs(x) < 2^b
    BY BitLenIs
  <2>2. b = 0 => 2^b = 1
    OBVIOUS
  <2>3. x # 0 => Math!Abs(x) # 0
    BY DEF Math!Abs
  <2> HIDE DEF b
  <2> QED BY <1>1, <2>1, <2>2, <2>3
<1>4. Math!Bits(x) = [i \in 1..n |-> (Math!Abs(x) \div 2^(WordBits * (i - 1))) % 2^WordBits]
  BY DEF Math!Bits
<1> HIDE DEF n, b
<1>5. Len(Math!Bits(x)) = n
  BY <1>2, <1>4
<1>6. x # 0 => n >= 1
  BY <1>1, <1>2, <1>3
<1> QED BY <1>2, <1>4, <1>5, <1>6 DEF b

(* Powers of the base of the bytes and of the words.                       *)
LEMMA BasePowers ==
  /\ Math!WordBytes \in Nat \ {0} /\ WordBits = ByteBits * Math!WordBytes
  /\ ByteBits \in Nat \ {0} /\ WordBits \in Nat \ {0}
  /\ 2^ByteBits \in Nat \ {0} /\ 2^WordBits \in Nat \ {0}
  /\ \A j \in Nat : 2^(ByteBits * j) \in Nat \ {0} /\ 2^(ByteBits * (j + 1)) = 2^ByteBits * 2^(ByteBits * j)
<1>1. Math!WordBytes \in Nat \ {0} /\ WordBits = ByteBits * Math!WordBytes
  <2> DEFINE m == ByteBits
             w == WordBits
             q == w \div m
  <2>1. m \in Nat \ {0} /\ w \in Nat \ {0} /\ w % m = 0
    BY NumbersAssumption
  <2> HIDE DEF m, w
  <2>2. q \in Int /\ w = m * q
    BY <2>1, Divided
  <2> HIDE DEF q
  <2>3. q > 0
    BY <2>1, <2>2
  <2> QED BY <2>2, <2>3 DEF Math!WordBytes, m, w, q
<1>2. ByteBits \in Nat \ {0} /\ WordBits \in Nat \ {0}
  BY NumbersAssumption
<1>3. 2^ByteBits \in Nat \ {0} /\ 2^WordBits \in Nat \ {0}
  BY <1>2, PowersDouble
<1>4. ASSUME NEW j \in Nat PROVE 2^(ByteBits * j) \in Nat \ {0} /\ 2^(ByteBits * (j + 1)) = 2^ByteBits * 2^(ByteBits * j)
  <2>1. ByteBits * j \in Nat /\ ByteBits * (j + 1) = ByteBits + ByteBits * j
    BY <1>2
  <2> DEFINE p == ByteBits * j
  <2> HIDE DEF p
  <2>2. 2^p \in Nat \ {0} /\ 2^(ByteBits + p) = 2^ByteBits * 2^p
    BY <1>2, <2>1, PowersDouble, PowersAdd DEF p
  <2> QED BY <2>1, <2>2 DEF p
<1> QED BY <1>1, <1>2, <1>3, <1>4

(* Byte j of a number, wherever it is found.                               *)
Digit(x, j) == (Math!Abs(x) \div 2^(ByteBits * j)) % 2^ByteBits

(* In its word: in word q there are bytes WordBytes * q to the next.       *)
LEMMA DigitInWord ==
  ASSUME NEW x \in Int, NEW q \in Nat, NEW r \in 0..(Math!WordBytes - 1)
  PROVE  (((Math!Abs(x) \div 2^(WordBits * q)) % 2^WordBits) \div 2^(ByteBits * r)) % 2^ByteBits
           = Digit(x, Math!WordBytes * q + r)
<1> DEFINE W == Math!WordBytes
           a == Math!Abs(x)
           A == 2^(WordBits * q)
           b == 2^(ByteBits * r)
           B == 2^ByteBits
           C == 2^(ByteBits * (W - 1 - r))
<1>1. W \in Nat \ {0} /\ WordBits = ByteBits * W /\ ByteBits \in Nat \ {0} /\ WordBits \in Nat \ {0}
  BY BasePowers
<1>2. a \in Int
  BY DEF Math!Abs
<1>3. r \in Nat /\ W - 1 - r \in Nat
  BY <1>1
<1>4. A \in Nat \ {0} /\ b \in Nat \ {0} /\ B \in Nat \ {0} /\ C \in Nat \ {0}
  <2>1. WordBits * q \in Nat
    BY <1>1
  <2> QED BY <1>3, <2>1, PowersDouble, BasePowers
<1>5. 2^WordBits = b * (B * C)
  <2> DEFINE k == W - 1 - r
  <2>1. k \in Nat
    BY <1>3
  <2> HIDE DEF k
  <2>2. 2^(ByteBits * (k + 1)) = B * C
    BY <2>1, BasePowers DEF k
  <2>3. ByteBits * r \in Nat /\ ByteBits * (k + 1) \in Nat
    BY <1>1, <1>3, <2>1
  <2>4. WordBits = ByteBits * r + ByteBits * (k + 1)
    <3>1. ByteBits * r + ByteBits * (k + 1) = ByteBits * (r + (k + 1))
      BY <1>1, <1>3, <2>1
    <3>2. r + (k + 1) = W
      BY <1>1, <1>3 DEF k
    <3> QED BY <1>1, <3>1, <3>2
  <2>5. 2^(ByteBits * r + ByteBits * (k + 1)) = 2^(ByteBits * r) * 2^(ByteBits * (k + 1))
    BY <2>3, PowersAdd
  <2> QED BY <2>2, <2>4, <2>5
<1>6. 2^(ByteBits * (W * q + r)) = A * b
  <2>1. ByteBits * (W * q + r) = WordBits * q + ByteBits * r
    <3>1. ByteBits * (W * q + r) = ByteBits * (W * q) + ByteBits * r
      BY <1>1, <1>3
    <3>2. ByteBits * (W * q) = (ByteBits * W) * q
      BY <1>1
    <3> QED BY <1>1, <3>1, <3>2
  <2>2. WordBits * q \in Nat /\ ByteBits * r \in Nat
    BY <1>1, <1>3
  <2> QED BY <2>1, <2>2, PowersAdd
<1> HIDE DEF A, b, B, C, a
<1>7. a \div A \in Int
  BY <1>2, <1>4
<1>8. (((a \div A) % (b * (B * C))) \div b) % B = ((a \div A) \div b) % B
  <2> DEFINE y == a \div A
  <2>1. y \in Int
    BY <1>7
  <2> HIDE DEF y
  <2>2. ((y % (b * (B * C))) \div b) % B = (y \div b) % B
    <3>1. b \in Nat \ {0} /\ B \in Nat \ {0} /\ C \in Nat \ {0}
      BY <1>4
    <3>2. \A t \in Int : ((t % (b * (B * C))) \div b) % B = (t \div b) % B
      BY <3>1, DigitOfWord
    <3> QED BY <2>1, <3>2
  <2> QED BY <2>2 DEF y
<1>9. (a \div A) \div b = a \div (A * b)
  BY <1>2, <1>4, TwoDigits
<1> QED BY <1>5, <1>6, <1>8, <1>9 DEF Digit, A, b, B, C, a

(* Above the last word every byte is 0.                                    *)
LEMMA DigitAbove ==
  ASSUME NEW x \in Int, NEW j \in Nat, ByteBits * j >= Math!BitLen(x)
  PROVE  Digit(x, j) = 0
<1> DEFINE a == Math!Abs(x)
           n == Math!BitLen(x)
           p == 2^(ByteBits * j)
<1>1. n \in Nat /\ a \in Nat /\ a < 2^n
  BY BitLenIs
<1>2. ByteBits * j \in Nat /\ 2^n <= p /\ p \in Nat \ {0} /\ 2^n \in Nat
  <2>1. ByteBits * j \in Nat
    BY BasePowers
  <2> QED BY <1>1, <2>1, PowersRise, PowersDouble
<1> HIDE DEF a, p
<1>3. a \in 0..(p - 1)
  BY <1>1, <1>2
<1>4. a \div p = 0
  BY <1>2, <1>3, Small
<1>5. 0 % 2^ByteBits = 0
  <2> DEFINE B == 2^ByteBits
  <2>1. B \in Nat \ {0} /\ 0 \in 0..(B - 1)
    BY BasePowers
  <2> HIDE DEF B
  <2> QED BY <2>1, Small DEF B
<1> QED BY <1>4, <1>5 DEF Digit, a, p

LEMMA DigitRead ==
  ASSUME NEW x \in Int, NEW j \in Nat
  PROVE  LET w == j \div Math!WordBytes + 1
             word == (Math!Bits(x)[w] \div 2^(ByteBits * (j % Math!WordBytes))) % 2^ByteBits
         IN /\ (IF w \notin DOMAIN Math!Bits(x) THEN 0 ELSE word) = Digit(x, j)
            /\ (IF w > Len(Math!Bits(x)) THEN 0 ELSE word) = Digit(x, j)
<1> DEFINE W == Math!WordBytes
           q == j \div W
           r == j % W
           n == Len(Math!Bits(x))
           word == (Math!Bits(x)[q + 1] \div 2^(ByteBits * r)) % 2^ByteBits
<1>1. W \in Nat \ {0} /\ WordBits = ByteBits * W /\ ByteBits \in Nat \ {0}
  BY BasePowers
<1>2. q \in Int /\ r \in 0..(W - 1) /\ j = W * q + r
  BY <1>1, Divided
<1>3. q \in Nat
  BY <1>1
<1>4. n \in Nat /\ DOMAIN Math!Bits(x) = 1..n /\ WordBits * n >= Math!BitLen(x)
  BY BitsAre
<1> HIDE DEF W, q, r
<1>5. CASE q + 1 \in 1..n
  <2>1. Math!Bits(x)[q + 1] = (Math!Abs(x) \div 2^(WordBits * q)) % 2^WordBits
    <3>1. (q + 1) - 1 = q
      BY <1>3
    <3> QED BY <1>5, <3>1, BitsAre
  <2>2. word = Digit(x, j)
    BY <1>2, <1>3, <2>1, DigitInWord DEF W
  <2>3. ~(q + 1 > n)
    BY <1>3, <1>4, <1>5
  <2> QED BY <1>4, <1>5, <2>2, <2>3 DEF W, q, r
<1>6. CASE q + 1 \notin 1..n
  <2>1. q >= n
    BY <1>3, <1>4, <1>6
  <2>2. ByteBits * j >= Math!BitLen(x)
    <3>1. j >= W * n
      <4>1. W * q >= W * n /\ W * q \in Int /\ W * n \in Int
        BY <1>1, <1>3, <1>4, <2>1
      <4> QED BY <1>2, <4>1
    <3>2. ByteBits * j >= ByteBits * (W * n)
      <4> DEFINE u == W * n
      <4>1. u \in Int
        BY <1>1, <1>4
      <4> HIDE DEF u
      <4>2. j >= u
        BY <3>1 DEF u
      <4> QED BY <1>1, <4>1, <4>2 DEF u
    <3>3. ByteBits * (W * n) = WordBits * n
      BY <1>1, <1>4
    <3>4. ByteBits * j \in Int /\ WordBits * n \in Int /\ Math!BitLen(x) \in Int
      BY <1>1, <1>4, BitLenIs, BasePowers
    <3> QED BY <1>4, <3>2, <3>3, <3>4
  <2>3. Digit(x, j) = 0
    BY <2>2, DigitAbove
  <2>4. q + 1 > n
    BY <1>3, <1>4, <2>1
  <2> QED BY <1>4, <1>6, <2>3, <2>4 DEF W, q, r
<1> QED BY <1>5, <1>6

LEMMA ReadBitsAre ==
  ASSUME NEW x \in Int, NEW n \in Nat
  PROVE  Math!ReadBits(x, n) = [k \in 1..n |-> Digit(x, n - k)]
<1> DEFINE Here(k) == LET j == n - k
                          w == j \div Math!WordBytes + 1
                      IN IF w \notin DOMAIN Math!Bits(x) THEN 0
                         ELSE (Math!Bits(x)[w] \div 2^(ByteBits * (j % Math!WordBytes))) % 2^ByteBits
<1>1. Math!ReadBits(x, n) = [k \in 1..n |-> Here(k)]
  BY DEF Math!ReadBits
<1>2. \A k \in 1..n : Here(k) = Digit(x, n - k)
  <2> SUFFICES ASSUME NEW k \in 1..n PROVE Here(k) = Digit(x, n - k)
    OBVIOUS
  <2>1. n - k \in Nat
    OBVIOUS
  <2> QED BY <2>1, DigitRead
<1> HIDE DEF Here
<1> QED BY <1>1, <1>2

(* The bytes from place n on, as a number: what is below is left out.      *)
LEMMA BytesRead ==
  ASSUME NEW x \in Int, NEW n \in Nat
  PROVE  Math!BytesValue(Math!ReadBits(x, n)) = Math!Abs(x) % 2^(ByteBits * n)
<1> DEFINE a == Math!Abs(x)
           B == 2^ByteBits
           p(j) == 2^(ByteBits * j)
           h == [k \in 0..n |-> (a \div p(n - k)) % p(k)]
           s == [k \in 1..n |-> Digit(x, n - k)]
<1>1. a \in Int /\ B \in Nat \ {0}
  BY BasePowers DEF Math!Abs
<1>2. \A j \in Nat : p(j) \in Nat \ {0} /\ p(j + 1) = B * p(j)
  BY BasePowers
<1>3. \A j \in Nat : a \div p(j) \in Int
  BY <1>1, <1>2
<1>4. s \in [1..n -> Int]
  <2>1. \A k \in 1..n : Digit(x, n - k) = (a \div p(n - k)) % B /\ n - k \in Nat
    BY DEF Digit
  <2>2. \A y \in Int : y % B \in Int
    BY <1>1
  <2> HIDE DEF a, B, p
  <2>3. \A k \in 1..n : Digit(x, n - k) \in Int
    BY <1>3, <2>1, <2>2
  <2> QED BY <2>3
<1>5. h \in [0..n -> Int]
  <2> HIDE DEF a, p
  <2>1. \A k \in 0..n : n - k \in Nat /\ k \in Nat
    OBVIOUS
  <2>2. \A y \in Int, m \in Nat \ {0} : y % m \in Int
    OBVIOUS
  <2>3. \A k \in 0..n : (a \div p(n - k)) % p(k) \in Int
    BY <1>2, <1>3, <2>1, <2>2
  <2> QED BY <2>3
<1>6. h[0] = 0
  <2>1. p(0) = 1
    <3>1. ByteBits * 0 = 0
      BY NumbersAssumption
    <3>2. \A e : e = 0 => 2^e = 1
      OBVIOUS
    <3> QED BY <3>1, <3>2
  <2>2. h[0] = (a \div p(n)) % p(0)
    OBVIOUS
  <2>3. a \div p(n) \in Int
    BY <1>3
  <2> HIDE DEF h, a, p
  <2> QED BY <2>1, <2>2, <2>3
<1>7. \A k \in 1..n : h[k] = h[k - 1] * B + s[k]
  <2> SUFFICES ASSUME NEW k \in 1..n PROVE h[k] = h[k - 1] * B + s[k]
    OBVIOUS
  <2> DEFINE j == n - k
             y == a \div p(j)
             q == p(k - 1)
  <2>1. j \in Nat /\ k - 1 \in Nat /\ (k - 1) + 1 = k /\ n - (k - 1) = j + 1 /\ k - 1 \in 0..n /\ k \in 0..n
    OBVIOUS
  <2>2. h[k] = y % p(k) /\ h[k - 1] = (a \div p(n - (k - 1))) % q /\ s[k] = y % B
    BY <2>1 DEF Digit
  <2>3. p(k) = B * q /\ p(n - (k - 1)) = p(j) * B /\ q \in Nat \ {0} /\ p(j) \in Nat \ {0}
    <3>1. p(k) = B * q
      <4> HIDE DEF p
      <4>1. p((k - 1) + 1) = B * p(k - 1)
        BY <1>2, <2>1
      <4> QED BY <2>1, <4>1
    <3>2. p(j + 1) = B * p(j) /\ p(j) \in Nat \ {0} /\ q \in Nat \ {0}
      BY <1>2, <2>1
    <3>3. p(n - (k - 1)) = p(j + 1)
      BY <2>1
    <3> HIDE DEF p
    <3>4. B * p(j) = p(j) * B
      BY <1>1, <3>2
    <3> QED BY <3>1, <3>2, <3>3, <3>4
  <2>4. y \in Int
    BY <1>3, <2>1
  <2>5. a \div p(n - (k - 1)) = y \div B
    <3> DEFINE m == p(j)
    <3>1. m \in Nat \ {0} /\ p(n - (k - 1)) = m * B
      BY <2>3
    <3> HIDE DEF m, a, B
    <3>2. (a \div m) \div B = a \div (m * B)
      BY <1>1, <3>1, TwoDigits
    <3> QED BY <3>1, <3>2 DEF m
  <2> HIDE DEF h, s, B, q, p, y, a
  <2>6. y % (B * q) = B * ((y \div B) % q) + (y % B)
    BY <1>1, <2>3, <2>4, TwoDigits
  <2>7. (y \div B) % q \in Int
    BY <1>1, <2>3, <2>4
  <2>8. B * ((y \div B) % q) = ((y \div B) % q) * B
    BY <1>1, <2>7
  <2> QED BY <2>2, <2>3, <2>5, <2>6, <2>8
<1>8. h[n] = a % p(n)
  <2>1. p(n - n) = 1
    <3>1. ByteBits * (n - n) = 0
      BY NumbersAssumption
    <3>2. \A e : e = 0 => 2^e = 1
      OBVIOUS
    <3> QED BY <3>1, <3>2
  <2>2. h[n] = (a \div p(n - n)) % p(n)
    OBVIOUS
  <2>3. a \div 1 = a
    BY <1>1
  <2> QED BY <2>1, <2>2, <2>3
<1>9. Math!ReadBits(x, n) = s
  BY ReadBitsAre
<1> HIDE DEF h, s
<1>10. Math!BytesValue(s) = h[n]
  BY <1>4, <1>5, <1>6, <1>7, BytesValueIs DEF B
<1> QED BY <1>8, <1>9, <1>10

(* As many bytes as hold a number read back as that number.                *)
LEMMA BytesSuffice ==
  ASSUME NEW x \in Int, NEW n \in Nat, ByteBits * n >= Math!BitLen(x)
  PROVE  Math!BytesValue(Math!ReadBits(x, n)) = Math!Abs(x)
<1> DEFINE a == Math!Abs(x)
           b == Math!BitLen(x)
           p == 2^(ByteBits * n)
<1>1. b \in Nat /\ a \in Nat /\ a < 2^b /\ ByteBits * n \in Nat
  BY BitLenIs, BasePowers
<1>2. 2^b <= p /\ p \in Nat \ {0} /\ 2^b \in Nat
  BY <1>1, PowersRise, PowersDouble
<1>3. Math!BytesValue(Math!ReadBits(x, n)) = a % p
  BY BytesRead
<1> HIDE DEF a, p
<1>4. a \in 0..(p - 1)
  BY <1>1, <1>2
<1> QED BY <1>2, <1>3, <1>4, Small DEF a

LEMMA PaddedBytes ==
  ASSUME NEW x \in Int, NEW n \in Nat
  PROVE  /\ Math!BytesValue(Math!PaddedBigBytes(x, n)) = Math!Abs(x)
         /\ Len(Math!PaddedBigBytes(x, n)) = Math!BigMax(PadLen, Len(Math!Bytes(x)))
<1> DEFINE b == Math!BitLen(x)
           m == ByteBits
           g == (b + m - 1) \div m
           q == b \div m
<1>1. b \in Nat /\ m \in Nat \ {0} /\ PadLen \in Nat
  BY BitLenIs, NumbersAssumption
<1>2. g \in Nat /\ m * g >= b /\ m * g < b + m
  BY <1>1, Groups
<1>3. Math!Bytes(x) = Math!ReadBits(x, g)
  BY DEF Math!Bytes
<1>4. \A k \in Nat : Len(Math!ReadBits(x, k)) = k
  BY ReadBitsAre
<1>5. Len(Math!Bytes(x)) = g
  BY <1>2, <1>3, <1>4
<1>6. q \in Int /\ m * q <= b /\ b < m * q + m
  <2>1. q \in Int /\ b % m \in 0..(m - 1) /\ b = m * q + (b % m)
    <3> HIDE DEF b, m
    <3> QED BY <1>1, Divided
  <2>2. m * q \in Int
    BY <1>1, <2>1
  <2> HIDE DEF q
  <2> QED BY <1>1, <2>1, <2>2
<1> HIDE DEF g, b, m, q
<1>7. \A u, v \in Int : m * u < m * v + m => u <= v
  <2> SUFFICES ASSUME NEW u \in Int, NEW v \in Int, m * u < m * v + m, u > v PROVE FALSE
    OBVIOUS
  <2>1. m * u >= m * (v + 1)
    BY <1>1
  <2>2. m * (v + 1) = m * v + m /\ m * u \in Int /\ m * v \in Int
    BY <1>1
  <2> QED BY <2>1, <2>2, <1>1
<1>8. CASE q >= PadLen
  <2>1. Math!PaddedBigBytes(x, n) = Math!Bytes(x)
    BY <1>8 DEF Math!PaddedBigBytes, q, b, m
  <2>2. q <= g
    <3>1. m * q < m * g + m
      <4>1. m * q \in Int /\ m * g \in Int
        BY <1>1, <1>2, <1>6
      <4> QED BY <1>1, <1>2, <1>6, <4>1
    <3> QED BY <1>2, <1>6, <1>7, <3>1
  <2>3. Math!BytesValue(Math!Bytes(x)) = Math!Abs(x)
    BY <1>2, <1>3, BytesSuffice DEF b, m
  <2> QED BY <1>1, <1>2, <1>5, <1>6, <1>8, <2>1, <2>2, <2>3 DEF Math!BigMax
<1>9. CASE ~(q >= PadLen)
  <2>1. Math!PaddedBigBytes(x, n) = Math!ReadBits(x, PadLen)
    BY <1>9 DEF Math!PaddedBigBytes, q, b, m
  <2>2. m * PadLen >= b
    <3>1. m * PadLen >= m * (q + 1)
      BY <1>1, <1>6, <1>9
    <3>2. m * (q + 1) = m * q + m /\ m * q \in Int /\ m * PadLen \in Int
      BY <1>1, <1>6
    <3> QED BY <1>1, <1>6, <3>1, <3>2
  <2>3. g <= PadLen
    <3>1. m * g < m * PadLen + m
      <4>1. m * PadLen \in Int /\ m * g \in Int
        BY <1>1, <1>2
      <4> QED BY <1>1, <1>2, <2>2, <4>1
    <3> QED BY <1>1, <1>2, <1>7, <3>1
  <2>4. Math!BytesValue(Math!ReadBits(x, PadLen)) = Math!Abs(x)
    BY <1>1, <2>2, BytesSuffice DEF b, m
  <2>5. Len(Math!ReadBits(x, PadLen)) = PadLen
    BY <1>1, <1>4
  <2> QED BY <1>1, <1>2, <1>5, <2>1, <2>3, <2>4, <2>5 DEF Math!BigMax
<1> QED BY <1>8, <1>9

LEMMA FirstBit ==
  ASSUME NEW x \in Int, x # 0
  PROVE  LET f == Math!FirstBitSet(x) IN Math!Bit(x, f) = 1 /\ Math!Abs(x) % 2^f = 0
<1> DEFINE a == Math!Abs(x)
           n == Math!BitLen(x)
           S == {i \in 0..(n - 1) : Math!Bit(x, i) = 1}
           f == Math!Least(S)
<1>1. n \in Nat /\ a \in Nat /\ a < 2^n /\ (n > 0 => a >= 2^(n - 1))
  BY BitLenIs
<1>2. a # 0
  BY DEF Math!Abs
<1>3. n > 0
  <2>1. n = 0 => 2^n = 1
    OBVIOUS
  <2> HIDE DEF n, a
  <2> QED BY <1>1, <1>2, <2>1
<1>4. S \in SUBSET Nat /\ S # {}
  <2> DEFINE p == 2^(n - 1)
  <2>1. n - 1 \in Nat /\ (n - 1) + 1 = n
    BY <1>1, <1>3
  <2>2. p \in Nat \ {0} /\ 2^n = 2 * p
    BY <2>1, PowersDouble
  <2>3. a >= p /\ a < 2 * p
    BY <1>1, <1>3, <2>2
  <2> HIDE DEF p, a
  <2>4. a \div p = 1
    <3> DEFINE r == a - p
               q == 1
    <3>1. r \in 0..(p - 1) /\ a = p * q + r /\ q \in Int
      BY <1>1, <2>2, <2>3
    <3> HIDE DEF r, q
    <3>2. (p * q + r) \div p = q
      BY <2>2, <3>1, Divides
    <3> QED BY <3>1, <3>2 DEF q
  <2>5. Math!Bit(x, n - 1) = 1
    BY <2>4 DEF Math!Bit, a, p
  <2> HIDE DEF n
  <2> QED BY <1>1, <1>3, <2>1, <2>5
<1> HIDE DEF S
<1>5. f \in S /\ \A k \in S : f <= k
  BY <1>4, LeastExists DEF Math!Least
<1>6. Math!FirstBitSet(x) = f
  BY <1>4 DEF Math!FirstBitSet, S
<1> HIDE DEF f
<1>7. f \in 0..(n - 1) /\ Math!Bit(x, f) = 1 /\ \A i \in 0..(n - 1) : i < f => Math!Bit(x, i) # 1
  <2> HIDE DEF n
  <2>1. f \in 0..(n - 1) /\ Math!Bit(x, f) = 1 /\ \A i \in 0..(n - 1) : Math!Bit(x, i) = 1 => f <= i
    BY <1>5 DEF S
  <2> QED BY <1>1, <2>1
<1> DEFINE T == {k \in Nat : k <= f => a % 2^k = 0}
<1>8. 0 \in T
  <2>1. a % 1 = 0
    BY <1>1
  <2> QED BY <2>1
<1>9. ASSUME NEW k \in Nat, k \in T PROVE k + 1 \in T
  <2> SUFFICES ASSUME k + 1 <= f PROVE a % 2^(k + 1) = 0
    OBVIOUS
  <2> DEFINE p == 2^k
  <2>1. p \in Nat \ {0} /\ 2^(k + 1) = p * 2
    BY PowersDouble
  <2>2. f \in Int /\ k <= f
    BY <1>1, <1>7
  <2>3. a % p = 0
    BY <1>9, <2>2
  <2>4. Math!Bit(x, k) = (a \div p) % 2 /\ Math!Bit(x, k) # 1
    <3>1. k \in 0..(n - 1) /\ k < f
      BY <1>1, <1>7
    <3> QED BY <1>7, <3>1 DEF Math!Bit
  <2> HIDE DEF p, a
  <2>5. a \div p \in Int
    BY <1>1, <2>1
  <2>6. (a \div p) % 2 = 0
    BY <2>4, <2>5
  <2>7. a % (p * 2) = p * ((a \div p) % 2) + (a % p)
    <3> DEFINE m == 2
    <3>1. m \in Nat \ {0} /\ a \in Int
      BY <1>1
    <3> HIDE DEF m
    <3>2. a % (p * m) = p * ((a \div p) % m) + (a % p)
      BY <2>1, <3>1, TwoDigits
    <3> QED BY <3>2 DEF m
  <2> QED BY <2>1, <2>3, <2>6, <2>7
<1> HIDE DEF T
<1>10. f \in T
  BY <1>7, <1>8, <1>9, NatSetInduction
<1>11. f \in Int
  BY <1>7
<1> QED BY <1>6, <1>7, <1>10, <1>11 DEF T

(* common/math/big.go: however many bits a word has, the bytes read out of *)
(* the words of a number give it back, one by one, padded and cut, and the *)
(* first bit that is set is.                                               *)
THEOREM BytesComeFromWords == \A x \in Int, n \in Nat : Math!BytesOfWords(x, n)
<1> SUFFICES ASSUME NEW x \in Int, NEW n \in Nat PROVE Math!BytesOfWords(x, n)
  OBVIOUS
<1>1. \A i \in 0..(n - 1) : Math!Byte(x, n, i) = Math!ReadBits(x, n)[i + 1]
  <2> SUFFICES ASSUME NEW i \in 0..(n - 1) PROVE Math!Byte(x, n, i) = Math!ReadBits(x, n)[i + 1]
    OBVIOUS
  <2>1. n - 1 - i \in Nat /\ ~(i >= n) /\ n - (i + 1) = n - 1 - i /\ i + 1 \in 1..n
    OBVIOUS
  <2>2. Math!Byte(x, n, i) = Math!bigEndianByteAt(x, n - 1 - i)
    BY <2>1 DEF Math!Byte
  <2>3. Math!bigEndianByteAt(x, n - 1 - i) = Digit(x, n - 1 - i)
    BY <2>1, DigitRead DEF Math!bigEndianByteAt
  <2>4. Math!ReadBits(x, n)[i + 1] = Digit(x, n - (i + 1))
    BY <2>1, ReadBitsAre
  <2> QED BY <2>1, <2>2, <2>3, <2>4
<1>2. Math!Byte(x, n, n) = 0
  BY DEF Math!Byte
<1>3. Math!BytesValue(Math!U256Bytes(x)) = Math!U256(x)
  <2> DEFINE m == Math!tt256
             u == x % m
             k == Width \div ByteBits
  <2>1. m \in Nat \ {0}
    BY NumbersAssumption, PowersDouble DEF Math!tt256
  <2> HIDE DEF m
  <2>2. u \in Nat
    BY <2>1
  <2>3. k \in Nat
    <3>1. Width \in Nat /\ ByteBits \in Nat \ {0}
      BY NumbersAssumption
    <3> QED BY <3>1
  <2> HIDE DEF u, k
  <2>4. Math!BytesValue(Math!PaddedBigBytes(u, k)) = Math!Abs(u)
    BY <2>2, <2>3, PaddedBytes
  <2>5. Math!Abs(u) = u
    BY <2>2 DEF Math!Abs
  <2> QED BY <2>4, <2>5 DEF Math!U256Bytes, Math!U256, u, k, m
<1>4. Math!BigMin(x, n) + Math!BigMax(x, n) = x + n
  BY DEF Math!BigMin, Math!BigMax
<1>5. x # 0 => Math!Bit(x, Math!FirstBitSet(x)) = 1 /\ Math!Abs(x) % 2^Math!FirstBitSet(x) = 0
  BY FirstBit
<1> QED BY <1>1, <1>2, <1>3, <1>4, <1>5, BytesRead, PaddedBytes DEF Math!BytesOfWords

(* common/math/big.go: of the texts a number is written as the decimal one *)
(* is read back, and the hexadecimal one when it is not negative, both in  *)
(* the range of the width and never beyond it.                             *)
THEOREM NumbersAreReadBack == \A n \in Int : Math!TextsKept(n)
<1> SUFFICES ASSUME NEW n \in Int PROVE Math!TextsKept(n)
  OBVIOUS
<1>1. (IF n < 0 THEN -Math!Abs(n) ELSE Math!Abs(n)) = n
  BY DEF Math!Abs
<1>2. Math!BitLen(n) \in Int /\ Width \in Int
  BY BitLenIs, NumbersAssumption
<1>3. Math!ParseBig256(Math!DecimalMarshal(n)) = IF Math!BitLen(n) <= Width THEN <<n>> ELSE Math!Failed
  <2> DEFINE t == Math!DecimalMarshal(n)
             m == IF t.sign \in {"-", "0x-"} THEN -t.n ELSE t.n
  <2>1. t.digits = "some" /\ t.sign # "-0x" /\ m = n
    BY <1>1 DEF Math!DecimalMarshal
  <2> HIDE DEF t
  <2>2. Math!ParseBig256(t) = IF Math!BitLen(m) > Width THEN Math!Failed ELSE <<m>>
    BY <2>1 DEF Math!ParseBig256
  <2> QED BY <1>2, <2>1, <2>2 DEF t
<1>4. Math!ParseBig256(Math!HexMarshal(n)) = IF Math!BitLen(n) <= Width /\ n >= 0 THEN <<n>> ELSE Math!Failed
  <2> DEFINE t == Math!HexMarshal(n)
             m == IF t.sign \in {"-", "0x-"} THEN -t.n ELSE t.n
  <2>1. CASE n >= 0
    <3>1. t.digits = "some" /\ t.sign # "-0x" /\ m = n
      BY <1>1, <2>1 DEF Math!HexMarshal
    <3> HIDE DEF t
    <3>2. Math!ParseBig256(t) = IF Math!BitLen(m) > Width THEN Math!Failed ELSE <<m>>
      BY <3>1 DEF Math!ParseBig256
    <3> QED BY <1>2, <2>1, <3>1, <3>2 DEF t
  <2>2. CASE ~(n >= 0)
    <3>1. t.digits = "some" /\ t.sign = "-0x"
      BY <2>2 DEF Math!HexMarshal
    <3> HIDE DEF t
    <3> QED BY <2>2, <3>1 DEF Math!ParseBig256, t
  <2> QED BY <2>1, <2>2
<1> QED BY <1>3, <1>4 DEF Math!TextsKept

-----------------------------------------------------------------------------
(* Exp.  Multiplied and Exp as stages: functions that have at each place   *)
(* the value of the fold after so many turns.                              *)
LEMMA MultipliedIs ==
  ASSUME NEW x \in Int, NEW n \in Nat, NEW h \in [0..n -> Int], h[0] = Math!U256(1),
         \A k \in 1..n : h[k] = Math!U256(h[k - 1] * x)
  PROVE  Math!Multiplied(x, n) = h[n]
<1> DEFINE one == Math!U256(1)
           Turn(v) == Math!U256(v * x)
           R == Int
           G == [k \in 1..n |-> [v \in R |-> Turn(v)]]
           P(f) == f = [t \in SUBSET (1..n) |-> IF t = {} THEN one ELSE Turn(f[t \ {Max(t)}])]
           c == CHOOSE f : P(f)
<1>1. \A v \in Int : Math!U256(v) \in Int
  <2> DEFINE m == Math!tt256
  <2>1. m \in Nat \ {0}
    BY NumbersAssumption, PowersDouble DEF Math!tt256
  <2> HIDE DEF m
  <2> QED BY <2>1, Divided DEF Math!U256, m
<1>2. G \in [1..n -> [R -> R]] /\ one \in R
  BY <1>1
<1> HIDE DEF R
<1>3. PICK f \in [SUBSET (1..n) -> R] : Iterates(f, n, one, G)
  <2> HIDE DEF G, one
  <2> QED BY <1>2, FoldExists
<1>4. P(f)
  <2>1. \A t \in SUBSET (1..n) : t # {} => G[Max(t)][f[t \ {Max(t)}]] = Turn(f[t \ {Max(t)}])
    <3> SUFFICES ASSUME NEW t \in SUBSET (1..n), t # {}
                 PROVE  G[Max(t)][f[t \ {Max(t)}]] = Turn(f[t \ {Max(t)}])
      OBVIOUS
    <3>1. Max(t) \in t
      BY MaxExists
    <3>2. f[t \ {Max(t)}] \in R
      OBVIOUS
    <3> QED BY <3>1, <3>2
  <2>2. f = [t \in SUBSET (1..n) |-> IF t = {} THEN one ELSE G[Max(t)][f[t \ {Max(t)}]]]
    BY <1>3 DEF Iterates
  <2> HIDE DEF G, Turn
  <2>3. \A t \in SUBSET (1..n) :
          (IF t = {} THEN one ELSE G[Max(t)][f[t \ {Max(t)}]]) = IF t = {} THEN one ELSE Turn(f[t \ {Max(t)}])
    BY <2>1
  <2> QED BY <2>2, <2>3, Zenon
<1>5. P(c)
  BY <1>4
<1> HIDE DEF c
<1>6. Math!Multiplied(x, n) = c[1..n]
  BY DEF Math!Multiplied, Math!FoldLeft, Math!MapThenFoldSet, Math!Max, Max, c
<1>7. \A t \in SUBSET (1..n) : c[t] = IF t = {} THEN one ELSE Turn(c[t \ {Max(t)}])
  BY <1>5
<1> DEFINE T == {k \in Nat : k <= n => c[1..k] = h[k]}
<1>8. 0 \in T
  <2>1. 1..0 = {} /\ 1..0 \in SUBSET (1..n)
    OBVIOUS
  <2> HIDE DEF Turn
  <2> QED BY <1>7, <2>1
<1>9. ASSUME NEW k \in Nat, k \in T PROVE k + 1 \in T
  <2> SUFFICES ASSUME k + 1 <= n PROVE c[1..(k + 1)] = h[k + 1]
    OBVIOUS
  <2>1. k + 1 \in 1..n /\ (k + 1) - 1 = k
    OBVIOUS
  <2>2. c[1..(k + 1)] = Turn(c[1..k])
    <3> DEFINE j == k + 1
    <3>1. 1..j \in SUBSET (1..n) /\ 1..j # {} /\ Max(1..j) = j /\ (1..j) \ {j} = 1..(j - 1)
      BY <2>1, Turns
    <3>2. 1..(j - 1) = 1..k
      BY <2>1
    <3> HIDE DEF Turn, j
    <3>3. c[1..j] = Turn(c[1..(j - 1)])
      BY <1>7, <3>1
    <3> QED BY <3>2, <3>3 DEF j
  <2>3. c[1..k] = h[k]
    BY <1>9
  <2>4. h[k + 1] = Turn(h[k])
    BY <2>1
  <2> QED BY <2>2, <2>3, <2>4
<1> HIDE DEF T
<1>10. n \in T
  BY <1>8, <1>9, NatSetInduction
<1> QED BY <1>6, <1>10 DEF T

(* The bits Exp goes through: those of the words of the exponent.          *)
Turned(e) == WordBits * Len(Math!Bits(e))

AreStages(x, e, n, h) ==
  /\ h \in [0..n -> [result : Int, base : Int]] /\ h[0] = [result |-> 1, base |-> x]
  /\ \A k \in 1..n : h[k] = Math!ExpStep(h[k - 1], Math!Bit(e, k - 1))

LEMMA ExpIs ==
  ASSUME NEW x \in Int, NEW e \in Int, NEW n \in Nat, n = Turned(e), NEW h, AreStages(x, e, n, h)
  PROVE  Math!Exp(x, e) = h[n]
<1>0. /\ h \in [0..n -> [result : Int, base : Int]] /\ h[0] = [result |-> 1, base |-> x]
      /\ \A k \in 1..n : h[k] = Math!ExpStep(h[k - 1], Math!Bit(e, k - 1))
  BY DEF AreStages
<1> DEFINE base == [result |-> 1, base |-> x]
           Turn(k, v) == Math!ExpStep(v, Math!Bit(e, k - 1))
           R == [result : Int, base : Int]
           G == [k \in 1..n |-> [v \in R |-> Turn(k, v)]]
           P(f) == f = [t \in SUBSET (1..n) |-> IF t = {} THEN base ELSE Turn(Max(t), f[t \ {Max(t)}])]
           c == CHOOSE f : P(f)
<1>1. \A v \in Int : Math!U256(v) \in Int
  <2> DEFINE m == Math!tt256
  <2>1. m \in Nat \ {0}
    BY NumbersAssumption, PowersDouble DEF Math!tt256
  <2> HIDE DEF m
  <2> QED BY <2>1, Divided DEF Math!U256, m
<1>2. G \in [1..n -> [R -> R]] /\ base \in R
  <2>1. ASSUME NEW k \in 1..n, NEW v \in R PROVE Turn(k, v) \in R
    <3>1. v.result \in Int /\ v.base \in Int
      OBVIOUS
    <3>2. v.result * v.base \in Int /\ v.base * v.base \in Int
      BY <3>1
    <3> QED BY <1>1, <3>1, <3>2 DEF Math!ExpStep
  <2>2. base \in R
    OBVIOUS
  <2> HIDE DEF Turn, R, base
  <2> QED BY <2>1, <2>2
<1> HIDE DEF R, base
<1>3. PICK f \in [SUBSET (1..n) -> R] : Iterates(f, n, base, G)
  <2> HIDE DEF G
  <2> QED BY <1>2, FoldExists
<1>4. P(f)
  <2>1. \A t \in SUBSET (1..n) : t # {} => G[Max(t)][f[t \ {Max(t)}]] = Turn(Max(t), f[t \ {Max(t)}])
    <3> SUFFICES ASSUME NEW t \in SUBSET (1..n), t # {}
                 PROVE  G[Max(t)][f[t \ {Max(t)}]] = Turn(Max(t), f[t \ {Max(t)}])
      OBVIOUS
    <3>1. Max(t) \in t
      BY MaxExists
    <3>2. f[t \ {Max(t)}] \in R
      OBVIOUS
    <3> HIDE DEF Turn
    <3> QED BY <3>1, <3>2
  <2>2. f = [t \in SUBSET (1..n) |-> IF t = {} THEN base ELSE G[Max(t)][f[t \ {Max(t)}]]]
    BY <1>3 DEF Iterates
  <2> HIDE DEF G, Turn
  <2>3. \A t \in SUBSET (1..n) :
          (IF t = {} THEN base ELSE G[Max(t)][f[t \ {Max(t)}]]) = IF t = {} THEN base ELSE Turn(Max(t), f[t \ {Max(t)}])
    BY <2>1
  <2> QED BY <2>2, <2>3, Zenon
<1>5. P(c)
  BY <1>4
<1>6. Math!Exp(x, e) = c[1..n]
  <2> DEFINE bits == [i \in 1..n |-> Math!Bit(e, i - 1)]
             d == CHOOSE g : g = [t \in SUBSET (1..n) |->
                                    IF t = {} THEN base ELSE Math!ExpStep(g[t \ {Max(t)}], bits[Max(t)])]
             Q(g) == g = [t \in SUBSET (1..n) |-> IF t = {} THEN base ELSE Math!ExpStep(g[t \ {Max(t)}], bits[Max(t)])]
  <2>1. Math!Exp(x, e) = d[1..n]
    BY DEF Math!Exp, Math!FoldLeft, Math!MapThenFoldSet, Math!Max, Max, base, Turned
  <2>2. \A g : P(g) <=> Q(g)
    <3> SUFFICES ASSUME NEW g PROVE P(g) <=> Q(g)
      OBVIOUS
    <3>1. \A t \in SUBSET (1..n) :
            (IF t = {} THEN base ELSE Turn(Max(t), g[t \ {Max(t)}]))
              = IF t = {} THEN base ELSE Math!ExpStep(g[t \ {Max(t)}], bits[Max(t)])
      <4> SUFFICES ASSUME NEW t \in SUBSET (1..n), t # {}
                   PROVE  Turn(Max(t), g[t \ {Max(t)}]) = Math!ExpStep(g[t \ {Max(t)}], bits[Max(t)])
        OBVIOUS
      <4>1. Max(t) \in 1..n
        BY MaxExists
      <4>2. bits[Max(t)] = Math!Bit(e, Max(t) - 1)
        BY <4>1
      <4> QED BY <4>2
    <3> HIDE DEF bits, Turn
    <3> QED BY <3>1, Zenon
  <2>3. d = CHOOSE g : Q(g)
    OBVIOUS
  <2> HIDE DEF P, Q, d
  <2> QED BY <2>1, <2>2, <2>3 DEF c
<1> HIDE DEF c
<1>7. \A t \in SUBSET (1..n) : c[t] = IF t = {} THEN base ELSE Turn(Max(t), c[t \ {Max(t)}])
  <2> HIDE DEF Turn
  <2> QED BY <1>5
<1> DEFINE T == {k \in Nat : k <= n => c[1..k] = h[k]}
<1>8. 0 \in T
  <2>1. 1..0 = {} /\ 1..0 \in SUBSET (1..n)
    OBVIOUS
  <2> HIDE DEF Turn
  <2>2. c[1..0] = base
    BY <1>7, <2>1
  <2> QED BY <1>0, <2>2 DEF base
<1>9. ASSUME NEW k \in Nat, k \in T PROVE k + 1 \in T
  <2> SUFFICES ASSUME k + 1 <= n PROVE c[1..(k + 1)] = h[k + 1]
    OBVIOUS
  <2>1. k + 1 \in 1..n /\ (k + 1) - 1 = k
    OBVIOUS
  <2>2. c[1..(k + 1)] = Turn(k + 1, c[1..k])
    <3> DEFINE j == k + 1
    <3>1. 1..j \in SUBSET (1..n) /\ 1..j # {} /\ Max(1..j) = j /\ (1..j) \ {j} = 1..(j - 1)
      BY <2>1, Turns
    <3>2. 1..(j - 1) = 1..k
      BY <2>1
    <3> HIDE DEF Turn, j
    <3>3. c[1..j] = Turn(j, c[1..(j - 1)])
      BY <1>7, <3>1
    <3> QED BY <3>2, <3>3 DEF j
  <2>3. c[1..k] = h[k]
    BY <1>9
  <2>4. h[k + 1] = Turn(k + 1, h[k])
    BY <1>0, <2>1
  <2> QED BY <2>2, <2>3, <2>4
<1> HIDE DEF T
<1>10. n \in T
  BY <1>8, <1>9, NatSetInduction
<1> QED BY <1>6, <1>10 DEF T

(* Arithmetic modulo tt256.                                                *)
LEMMA Modulo ==
  /\ Math!tt256 \in Nat /\ Math!tt256 > 1
  /\ \A v \in Int : Math!U256(v) \in 0..(Math!tt256 - 1)
  /\ \A v \in 0..(Math!tt256 - 1) : Math!U256(v) = v
  /\ \A u, v \in Int : Math!U256(u * v) = Math!U256(Math!U256(u) * v) /\ Math!U256(u * v) = Math!U256(Math!U256(u) * Math!U256(v))
<1> DEFINE m == Math!tt256
<1>1. m \in Nat /\ m > 1
  <2>1. Width - 1 \in Nat /\ (Width - 1) + 1 = Width
    BY NumbersAssumption
  <2>2. 2^(Width - 1) \in Nat \ {0} /\ 2^((Width - 1) + 1) = 2 * 2^(Width - 1)
    BY <2>1, PowersDouble
  <2> DEFINE p == 2^(Width - 1)
  <2>3. p \in Nat \ {0} /\ m = 2 * p
    BY <2>1, <2>2 DEF Math!tt256
  <2> HIDE DEF p, m
  <2> QED BY <2>3
<1> HIDE DEF m
<1>2. \A v \in Int : v % m \in 0..(m - 1)
  BY <1>1
<1>3. \A v \in 0..(m - 1) : v % m = v
  BY <1>1
<1>4. \A u, v \in Int : (u * v) % m = ((u % m) * (v % m)) % m /\ (u * v) % m = ((u % m) * v) % m
  <2> SUFFICES ASSUME NEW u \in Int, NEW v \in Int
               PROVE  (u * v) % m = ((u % m) * (v % m)) % m /\ (u * v) % m = ((u % m) * v) % m
    OBVIOUS
  <2>1. m \in Nat \ {0}
    BY <1>1
  <2> QED BY <2>1, ModProduct
<1> QED BY <1>1, <1>2, <1>3, <1>4 DEF Math!U256, m

LEMMA OwnRemainder == \A v \in 0..(Math!tt256 - 1) : v \in Int /\ Math!U256(v) = v
<1>1. Math!tt256 \in Nat /\ \A v \in 0..(Math!tt256 - 1) : Math!U256(v) = v
  BY Modulo
<1> DEFINE m == Math!tt256
<1> HIDE DEF m
<1>2. m \in Nat => \A v \in 0..(m - 1) : v \in Int
  OBVIOUS
<1> QED BY <1>1, <1>2 DEF m

LEMMA MultipliedSteps ==
  ASSUME NEW x \in Int
  PROVE  /\ Math!Multiplied(x, 0) = Math!U256(1)
         /\ \A e \in Nat : /\ Math!Multiplied(x, e) \in 0..(Math!tt256 - 1)
                           /\ Math!Multiplied(x, e + 1) = Math!U256(Math!Multiplied(x, e) * x)
<1> DEFINE M == Math!tt256
           R == 0..(M - 1)
           one == Math!U256(1)
<1>1. one \in R /\ (\A v \in R : Math!U256(v * x) \in R) /\ \A v \in R : v \in Int
  <2>1. \A v \in R : v * x \in Int
    BY Modulo
  <2> QED BY <2>1, Modulo
<1> HIDE DEF R, one
<1>2. ASSUME NEW e \in Nat
      PROVE  \E f \in [0..e -> R] : f[0] = one /\ \A k \in 1..e : f[k] = Math!U256(f[k - 1] * x)
  <2> DEFINE G == [k \in 1..e |-> [v \in R |-> Math!U256(v * x)]]
  <2>1. G \in [1..e -> [R -> R]]
    BY <1>1
  <2>2. PICK f : f = [n \in 0..e |-> IF n = 0 THEN one ELSE G[n][f[n - 1]]] /\ \A n \in 0..e : f[n] \in R
    <3> HIDE DEF G
    <3> QED BY <1>1, <2>1, StepsExist
  <2>3. f \in [0..e -> R]
    <3> HIDE DEF G
    <3> QED BY <2>2
  <2>4. f[0] = one
    <3> HIDE DEF G
    <3> QED BY <2>2
  <2>5. \A k \in 1..e : f[k] = G[k][f[k - 1]] /\ f[k - 1] \in R
    <3> HIDE DEF G
    <3>1. \A k \in 1..e : k \in 0..e /\ k - 1 \in 0..e /\ k # 0
      OBVIOUS
    <3> QED BY <2>2, <3>1
  <2>6. \A k \in 1..e : f[k] = Math!U256(f[k - 1] * x)
    BY <2>5
  <2> QED BY <2>3, <2>4, <2>6
<1>3. ASSUME NEW n \in Nat, NEW f \in [0..n -> R], f[0] = one, \A k \in 1..n : f[k] = Math!U256(f[k - 1] * x),
             NEW e \in 0..n
      PROVE  Math!Multiplied(x, e) = f[e]
  <2> DEFINE h == [k \in 0..e |-> f[k]]
  <2>1. h \in [0..e -> Int]
    BY <1>1, <1>3
  <2>2. h[0] = Math!U256(1)
    BY <1>3 DEF one
  <2>3. \A k \in 1..e : h[k] = Math!U256(h[k - 1] * x)
    <3>1. \A k \in 1..e : k \in 1..n /\ k \in 0..e /\ k - 1 \in 0..e
      OBVIOUS
    <3> QED BY <1>3, <3>1
  <2>4. e \in Nat /\ h[e] = f[e]
    OBVIOUS
  <2> HIDE DEF h
  <2> QED BY <2>1, <2>2, <2>3, <2>4, MultipliedIs
<1>4. ASSUME NEW e \in Nat
      PROVE  /\ Math!Multiplied(x, 0) = one /\ Math!Multiplied(x, e) \in R
             /\ Math!Multiplied(x, e + 1) = Math!U256(Math!Multiplied(x, e) * x)
  <2> DEFINE n == e + 1
  <2>1. n \in Nat /\ 0 \in 0..n /\ e \in 0..n /\ n \in 0..n /\ n \in 1..n /\ n - 1 = e
    OBVIOUS
  <2>2. PICK f \in [0..n -> R] : f[0] = one /\ \A k \in 1..n : f[k] = Math!U256(f[k - 1] * x)
    <3> HIDE DEF n
    <3> QED BY <1>2, <2>1
  <2>3. \A k \in 0..n : Math!Multiplied(x, k) = f[k]
    <3> HIDE DEF n
    <3> QED BY <1>3, <2>1, <2>2
  <2>4. f[n] = Math!U256(f[e] * x) /\ f[e] \in R
    BY <2>1, <2>2
  <2>5. Math!Multiplied(x, 0) = f[0] /\ Math!Multiplied(x, e) = f[e] /\ Math!Multiplied(x, n) = f[n]
    <3> HIDE DEF n
    <3> QED BY <2>1, <2>3
  <2> QED BY <2>2, <2>4, <2>5
<1> QED BY <1>4 DEF R, one

(* Powers add and multiply.                                                *)
LEMMA PowersOf ==
  ASSUME NEW x \in Int
  PROVE  /\ Math!Multiplied(x, 1) = Math!U256(x)
         /\ \A a, b \in Nat : Math!Multiplied(x, a + b) = Math!U256(Math!Multiplied(x, a) * Math!Multiplied(x, b))
<1> DEFINE m(e) == Math!Multiplied(x, e)
           R == 0..(Math!tt256 - 1)
<1>1. m(0) = 1
  <2>1. 1 \in R
    BY Modulo
  <2> QED BY <2>1, Modulo, MultipliedSteps
<1>2. \A e \in Nat : m(e) \in R /\ m(e) \in Int /\ m(e + 1) = Math!U256(m(e) * x)
  BY MultipliedSteps
<1> HIDE DEF m
<1>3. m(1) = Math!U256(x)
  <2>1. m(0 + 1) = Math!U256(m(0) * x)
    BY <1>2
  <2>2. 0 + 1 = 1 /\ 1 * x = x
    OBVIOUS
  <2> QED BY <1>1, <2>1, <2>2
<1>4. ASSUME NEW a \in Nat PROVE \A b \in Nat : m(a + b) = Math!U256(m(a) * m(b))
  <2> DEFINE T == {b \in Nat : m(a + b) = Math!U256(m(a) * m(b))}
  <2>1. 0 \in T
    <3> DEFINE p == m(a)
    <3>1. p \in Int /\ Math!U256(p) = p
      BY <1>2, OwnRemainder
    <3> HIDE DEF p
    <3>2. p * 1 = p /\ a + 0 = a
      BY <3>1
    <3>3. m(a) * 1 = m(a) /\ Math!U256(m(a)) = m(a)
      BY <3>1, <3>2, Zenon DEF p
    <3> QED BY <1>1, <3>2, <3>3
  <2>2. ASSUME NEW b \in Nat, b \in T PROVE b + 1 \in T
    <3> DEFINE p == m(a)
               q == m(b)
    <3>1. p \in Int /\ q \in Int /\ m(a + b) = Math!U256(p * q) /\ m(b + 1) = Math!U256(q * x)
      BY <1>2, <2>2
    <3>2. m((a + b) + 1) = Math!U256(m(a + b) * x)
      BY <1>2
    <3> HIDE DEF p, q
    <3>3. m((a + b) + 1) = Math!U256((p * q) * x)
      <4>1. p * q \in Int
        BY <3>1
      <4> QED BY <3>1, <3>2, <4>1, Modulo
    <3>4. Math!U256(p * m(b + 1)) = Math!U256(p * (q * x))
      <4>1. q * x \in Int
        BY <3>1
      <4> DEFINE r == q * x
      <4> HIDE DEF r
      <4>2. Math!U256(p * r) = Math!U256(Math!U256(p) * Math!U256(r))
        BY <3>1, <4>1, Modulo DEF r
      <4>3. Math!U256(p) = p
        <5>1. p \in R
          BY <1>2 DEF p
        <5>2. \A v \in R : Math!U256(v) = v
          BY Modulo
        <5> HIDE DEF R
        <5> QED BY <5>1, <5>2
      <4> QED BY <3>1, <4>2, <4>3 DEF r
    <3>5. p * (q * x) = (p * q) * x /\ a + (b + 1) = (a + b) + 1
      BY <3>1
    <3>6. m(a + (b + 1)) = Math!U256(p * m(b + 1))
      BY <3>3, <3>4, <3>5
    <3> QED BY <3>6 DEF p
  <2> HIDE DEF T
  <2>3. \A b \in Nat : b \in T
    BY <2>1, <2>2, NatSetInduction
  <2> QED BY <2>3 DEF T
<1> QED BY <1>3, <1>4 DEF m

LEMMA PowerIs ==
  ASSUME NEW x \in Int, NEW e \in Nat
  PROVE  Math!Power(x, e) = Math!Multiplied(x, e)
<1> DEFINE m(k) == Math!Multiplied(x, k)
           q == e \div 16
           r == e % 16
<1>1. q \in Nat /\ r \in Nat /\ e = 16 * q + r
  OBVIOUS
<1> HIDE DEF q, r
<1>2. \A k \in Nat : m(k) \in 0..(Math!tt256 - 1) /\ m(k) \in Int
  BY MultipliedSteps, Modulo
<1>3. \A a, b \in Nat : m(a + b) = Math!U256(m(a) * m(b))
  BY PowersOf
<1>4. m(0) = Math!U256(1)
  BY MultipliedSteps
<1> HIDE DEF m
<1> DEFINE y == m(q)
           T == {n \in Nat : Math!Multiplied(y, n) = m(q * n)}
<1>5. y \in Int
  BY <1>1, <1>2
<1>6. 0 \in T
  <2>1. q * 0 = 0
    BY <1>1
  <2> HIDE DEF y
  <2> QED BY <1>4, <1>5, <2>1, MultipliedSteps
<1>7. ASSUME NEW n \in Nat, n \in T PROVE n + 1 \in T
  <2>1. Math!Multiplied(y, n + 1) = Math!U256(Math!Multiplied(y, n) * y)
    <3> HIDE DEF y
    <3> QED BY <1>5, MultipliedSteps
  <2>2. q * n \in Nat /\ q * (n + 1) = q * n + q
    BY <1>1
  <2> DEFINE u == q * n
  <2> HIDE DEF u
  <2>3. m(u + q) = Math!U256(m(u) * m(q))
    BY <1>1, <1>3, <2>2 DEF u
  <2>4. Math!Multiplied(y, n) = m(u)
    BY <1>7 DEF u
  <2>5. Math!Multiplied(y, n + 1) = m(q * (n + 1))
    BY <2>1, <2>2, <2>3, <2>4 DEF u
  <2> QED BY <2>5
<1> HIDE DEF T
<1>8. 16 \in T
  BY <1>6, <1>7, NatSetInduction
<1>9. Math!Multiplied(y, 16) = m(16 * q)
  <2>1. q * 16 = 16 * q
    BY <1>1
  <2> QED BY <1>8, <2>1 DEF T
<1>10. 16 * q \in Nat
  BY <1>1
<1> DEFINE s == 16 * q
<1> HIDE DEF s
<1>11. m(s + r) = Math!U256(m(s) * m(r))
  BY <1>1, <1>3, <1>10 DEF s
<1>12. Math!Power(x, e) = Math!U256(Math!Multiplied(y, 16) * m(r))
  BY DEF Math!Power, y, m, q, r
<1> QED BY <1>1, <1>9, <1>11, <1>12 DEF s, m

(* The stages of Exp: after k bits the result is the power to the number   *)
(* that these k bits are, and the base the power to 2^k.                   *)
ExpStages(x, e, n) ==
  [k \in 0..n |-> [result |-> Math!Multiplied(x, Math!Abs(e) % 2^k),
                   base |-> IF k = 0 THEN x ELSE Math!Multiplied(x, 2^k)]]

LEMMA ExpReached ==
  ASSUME NEW x \in Int, NEW e \in Int, NEW n \in Nat, n = Turned(e)
  PROVE  Math!Exp(x, e) = ExpStages(x, e, n)[n]
<1> DEFINE a == Math!Abs(e)
           m(k) == Math!Multiplied(x, k)
           h == ExpStages(x, e, n)
<1>1. a \in Nat
  BY DEF Math!Abs
<1>2. \A k \in Nat : 2^k \in Nat \ {0} /\ 2^(k + 1) = 2 * 2^k
  BY PowersDouble
<1>3. \A k \in Nat : m(k) \in 0..(Math!tt256 - 1) /\ m(k) \in Int
  <2>1. \A k \in Nat : m(k) \in 0..(Math!tt256 - 1)
    BY MultipliedSteps
  <2>2. Math!tt256 \in Nat
    BY Modulo
  <2> HIDE DEF m
  <2> QED BY <2>1, <2>2
<1>4. \A i, j \in Nat : m(i + j) = Math!U256(m(i) * m(j))
  BY PowersOf
<1>5. m(1) = Math!U256(x)
  BY PowersOf
<1>6. m(0) = 1
  <2>1. 1 \in 0..(Math!tt256 - 1)
    BY Modulo
  <2> QED BY <2>1, Modulo, MultipliedSteps
<1>7. h = [k \in 0..n |-> [result |-> m(a % 2^k), base |-> IF k = 0 THEN x ELSE m(2^k)]]
  BY DEF ExpStages
<1> HIDE DEF m, h, a
<1>8. h \in [0..n -> [result : Int, base : Int]]
  <2>1. \A k \in Nat : a % 2^k \in Nat
    BY <1>1, <1>2
  <2>2. \A k \in 0..n : [result |-> m(a % 2^k), base |-> IF k = 0 THEN x ELSE m(2^k)] \in [result : Int, base : Int]
    <3> SUFFICES ASSUME NEW k \in 0..n
                 PROVE  m(a % 2^k) \in Int /\ (IF k = 0 THEN x ELSE m(2^k)) \in Int
      OBVIOUS
    <3>1. 2^k \in Nat /\ a % 2^k \in Nat
      BY <1>2, <2>1
    <3> QED BY <1>3, <3>1
  <2> QED BY <1>7, <2>2
<1>9. h[0] = [result |-> 1, base |-> x]
  <2>1. a % 1 = 0 /\ 2^0 = 1 /\ 0 \in 0..n
    BY <1>1
  <2>2. h[0] = [result |-> m(a % 2^0), base |-> x]
    BY <1>7, <2>1
  <2> QED BY <1>6, <2>1, <2>2
<1>10. ASSUME NEW k \in 1..n PROVE h[k] = Math!ExpStep(h[k - 1], Math!Bit(e, k - 1))
  <2> DEFINE j == k - 1
             p == 2^j
             r == a % p
             b == Math!Bit(e, j)
             old == h[j].base
  <2>1. j \in Nat /\ j + 1 = k /\ j \in 0..n /\ k \in 0..n /\ k # 0
    OBVIOUS
  <2>2. p \in Nat \ {0} /\ 2^k = 2 * p
    <3> HIDE DEF j
    <3> QED BY <1>2, <2>1
  <2>3. r \in Nat
    BY <1>1, <2>2
  <2>4. h[k] = [result |-> m(a % (2 * p)), base |-> m(2 * p)]
    BY <1>7, <2>1, <2>2
  <2>5. h[j].result = m(r) /\ old = IF j = 0 THEN x ELSE m(p)
    <3> HIDE DEF j
    <3> QED BY <1>7, <2>1
  <2>6. old \in Int /\ Math!U256(old) = m(p)
    <3>1. CASE j = 0
      <4>1. p = 1
        <5>1. \A i : i = 0 => 2^i = 1
          OBVIOUS
        <5> HIDE DEF j
        <5> QED BY <3>1, <5>1
      <4> HIDE DEF j, old
      <4> QED BY <1>5, <2>5, <3>1, <4>1
    <3>2. CASE j # 0
      <4> HIDE DEF j, p, old
      <4>1. old = m(p) /\ p \in Nat
        BY <2>2, <2>5, <3>2
      <4> QED BY <1>3, <4>1, Modulo
    <3> QED BY <3>1, <3>2
  <2>7. b = (a \div p) % 2
    BY DEF Math!Bit, a
  <2>8. a % (2 * p) = p * b + r /\ b \in {0, 1}
    <3> DEFINE two == 2
    <3>1. two \in Nat \ {0} /\ a \in Int
      BY <1>1
    <3> HIDE DEF two, p
    <3>2. a % (p * two) = p * ((a \div p) % two) + (a % p)
      BY <2>2, <3>1, TwoDigits
    <3>3. p * 2 = 2 * p
      BY <2>2
    <3>4. a \div p \in Int
      BY <1>1, <2>2
    <3>5. (a \div p) % 2 \in {0, 1}
      BY <3>4
    <3> QED BY <2>7, <3>2, <3>3, <3>5 DEF two
  <2> HIDE DEF p, r, b, old, j
  <2>9. Math!U256(old * old) = m(2 * p)
    <3>1. Math!U256(old * old) = Math!U256(m(p) * m(p))
      BY <2>6, Modulo
    <3>2. m(p + p) = Math!U256(m(p) * m(p)) /\ p + p = 2 * p
      BY <1>4, <2>2
    <3> QED BY <3>1, <3>2
  <2>10. (IF b = 1 THEN Math!U256(h[j].result * old) ELSE h[j].result) = m(a % (2 * p))
    <3>1. CASE b = 1
      <4>1. a % (2 * p) = p + r
        BY <2>2, <2>3, <2>8, <3>1
      <4>2. m(p + r) = Math!U256(m(p) * m(r))
        BY <1>4, <2>2, <2>3
      <4>3. Math!U256(m(r) * old) = Math!U256(Math!U256(m(r)) * Math!U256(old))
        BY <1>3, <2>3, <2>6, Modulo
      <4>4. Math!U256(m(r)) = m(r)
        BY <1>3, <2>3, Modulo
      <4>5. m(p) * m(r) = m(r) * m(p)
        BY <1>3, <2>2, <2>3
      <4> QED BY <2>5, <2>6, <3>1, <4>1, <4>2, <4>3, <4>4, <4>5
    <3>2. CASE b = 0
      <4>1. a % (2 * p) = r
        BY <2>2, <2>3, <2>8, <3>2
      <4> QED BY <2>5, <3>2, <4>1
    <3> QED BY <2>8, <3>1, <3>2
  <2>11. Math!ExpStep(h[j], b) =
           [result |-> IF b = 1 THEN Math!U256(h[j].result * old) ELSE h[j].result, base |-> Math!U256(old * old)]
    BY DEF Math!ExpStep, old
  <2>12. Math!ExpStep(h[j], b) = h[k]
    BY <2>4, <2>9, <2>10, <2>11
  <2> QED BY <2>12 DEF j, b
<1>11. Math!Exp(x, e) = h[n]
  <2>1. \A k \in 1..n : h[k] = Math!ExpStep(h[k - 1], Math!Bit(e, k - 1))
    BY <1>10
  <2>2. AreStages(x, e, n, h)
    BY <1>8, <1>9, <2>1 DEF AreStages
  <2> QED BY <2>2, ExpIs
<1> QED BY <1>11 DEF h

(* common/math/big.go: for any width and any size of a word Exp, with its  *)
(* step for each bit of each word and its squarings in place, is the power *)
(* to the absolute value of the exponent.                                  *)
THEOREM ExpRaises == \A x, e \in Int : Math!ExpIsPower(x, e)
<1> SUFFICES ASSUME NEW x \in Int, NEW e \in Int PROVE Math!ExpIsPower(x, e)
  OBVIOUS
<1> DEFINE n == Turned(e)
           a == Math!Abs(e)
           p == 2^n
<1>1. Len(Math!Bits(e)) \in Nat /\ n >= Math!BitLen(e) /\ (e # 0 => Len(Math!Bits(e)) >= 1)
  BY BitsAre DEF Turned
<1>2. WordBits \in Nat \ {0}
  BY NumbersAssumption
<1>3. n \in Nat /\ (e # 0 => n # 0)
  <2> DEFINE l == Len(Math!Bits(e))
  <2>1. l \in Nat /\ (e # 0 => l >= 1)
    BY <1>1
  <2> HIDE DEF l
  <2>2. WordBits * l \in Nat /\ (e # 0 => WordBits * l # 0)
    BY <1>2, <2>1
  <2> QED BY <2>2 DEF l, Turned
<1>4. a \in Nat /\ p \in Nat \ {0} /\ a < p
  <2>1. Math!BitLen(e) \in Nat /\ a \in Nat /\ a < 2^Math!BitLen(e)
    BY BitLenIs
  <2>2. 2^Math!BitLen(e) <= p /\ p \in Nat \ {0} /\ 2^Math!BitLen(e) \in Nat
    <3> HIDE DEF n
    <3> QED BY <1>1, <1>3, <2>1, PowersRise, PowersDouble
  <2> HIDE DEF a, p
  <2> QED BY <2>1, <2>2
<1>5. Math!Exp(x, e) = ExpStages(x, e, n)[n]
  BY <1>3, ExpReached
<1>6. ExpStages(x, e, n)[n] = [result |-> Math!Multiplied(x, a % p), base |-> IF n = 0 THEN x ELSE Math!Multiplied(x, p)]
  <2>1. n \in 0..n
    BY <1>3
  <2> HIDE DEF n
  <2> QED BY <2>1 DEF ExpStages
<1>7. a % p = a
  <2> HIDE DEF a, p
  <2> QED BY <1>4
<1>8. Math!Power(x, a) = Math!Multiplied(x, a) /\ Math!Power(x, p) = Math!Multiplied(x, p)
  BY <1>4, PowerIs
<1>9. Math!Exp(x, e).result = Math!Power(x, Math!Abs(e))
  <2> HIDE DEF n, p
  <2> QED BY <1>5, <1>6, <1>7, <1>8
<1> QED BY <1>9 DEF Math!ExpIsPower

-----------------------------------------------------------------------------
NumbersInv ==
  \/ given = Nothing
  \/ \E x \in Int, n \in Nat : given = [of |-> "bytes", x |-> x, n |-> n]
  \/ \E x, n \in Int : given = [of |-> "power", x |-> x, n |-> n]

(* common/math/big.go: for any width and any size of bytes and words, and  *)
(* for every number, two's complement, bytes read out of the words, texts  *)
(* and Exp with its squarings in place are what arithmetic says.           *)
THEOREM NumbersAreSound == NumbersSpec => []NumbersSound
<1>1. given = Nothing => NumbersInv
  BY DEF NumbersInv
<1>2. NumbersInv /\ [given = Nothing /\ (GiveBytes(Int, Nat) \/ GivePower(Int, Int))]_given => NumbersInv'
  BY DEF NumbersInv, GiveBytes, GivePower
<1>3. NumbersInv => NumbersSound
  <2> SUFFICES ASSUME NumbersInv PROVE NumbersSound
    OBVIOUS
  <2>1. CASE given = Nothing
    BY <2>1 DEF NumbersSound, Nothing
  <2>2. ASSUME NEW x \in Int, NEW n \in Nat, given = [of |-> "bytes", x |-> x, n |-> n] PROVE NumbersSound
    <3>1. given.of = "bytes" /\ given.x = x /\ given.n = n
      BY <2>2
    <3> QED BY <3>1, SignedIsTwosComplement, BytesComeFromWords, NumbersAreReadBack DEF NumbersSound
  <2>3. ASSUME NEW x \in Int, NEW n \in Int, given = [of |-> "power", x |-> x, n |-> n] PROVE NumbersSound
    <3>1. given.of = "power" /\ given.x = x /\ given.n = n
      BY <2>3
    <3> QED BY <3>1, ExpRaises DEF NumbersSound
  <2> QED BY <2>1, <2>2, <2>3 DEF NumbersInv
<1> QED BY <1>1, <1>2, <1>3, PTL DEF NumbersSpec

=============================================================================
