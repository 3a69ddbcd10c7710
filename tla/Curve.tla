------------------------------- MODULE Curve -------------------------------
(***************************************************************************)
(* The curves y^2 = x^3 + B over the integers modulo a prime of            *)
(* crypto/curve.go.  A point is a pair <<x, y>>; None is Go's nil and      *)
(* Panics what a nil operand of big.Int does.  Numbers are not bounded;    *)
(* bytes have ByteBits bits, so that small curves have keys of two bytes.  *)
(***************************************************************************)
EXTENDS Integers, Sequences, SequencesExt

CONSTANTS
  P, N, B, Gx, Gy, BitSize,   \* the curve's parameters: prime, order, base point
  ByteBits,                   \* 8
  Flip                        \* bits of a key's second byte that are flipped: 0x42

None == <<"nil">>
Panics == <<"panic">>
Field == 0..(P - 1)

IsOnCurve(x, y) == (y * y) % P = (x * x * x + B) % P

(* ModInverse has no result for zero.                                      *)
ModInverse(z) == CHOOSE i \in 1..(P - 1) : (z * i) % P = 1
affineFromJacobian(q) ==
  IF q[3] = 0 THEN Panics
  ELSE LET zinv == ModInverse(q[3])
           zinvsq == (zinv * zinv) % P
       IN <<(q[1] * zinvsq) % P, (q[2] * ((zinvsq * zinv) % P)) % P>>

addJacobian(p, q) ==
  LET z1z1 == (p[3] * p[3]) % P
      z2z2 == (q[3] * q[3]) % P
      u1 == (p[1] * z2z2) % P
      h == ((q[1] * z1z1) - u1) % P
      i == (2 * h) * (2 * h)
      j == h * i
      s1 == (p[2] * q[3] * z2z2) % P
      r == 2 * (((q[2] * p[3] * z1z1) - s1) % P)
      v == u1 * i
      x3 == ((r * r) - j - (2 * v)) % P
  IN <<x3,
       ((r * ((v - x3) % P)) - (2 * s1 * (j % P))) % P,
       (((((p[3] + q[3]) * (p[3] + q[3])) - z1z1 - z2z2) % P) * h) % P>>

doubleJacobian(p) ==
  LET a == p[1] * p[1]
      b == p[2] * p[2]
      c == b * b
      d == 2 * (((p[1] + b) * (p[1] + b)) - a - c)
      e == 3 * a
      x3 == ((e * e) - (2 * d)) % P
  IN <<x3, ((e * ((d - x3) % P)) - (8 * (c % P))) % P, (2 * p[2] * p[3]) % P>>

Add(p, q) == affineFromJacobian(addJacobian(Append(p, 1), Append(q, 1)))
Double(p) == affineFromJacobian(doubleJacobian(Append(p, 1)))

(* The bits of a key k of so many bits, the highest first.                 *)
Bits(k, len) == [i \in 1..len |-> (k \div 2^(len - i)) % 2]

(* Mutant: a bit that is one does not double first.                        *)
ScalarStepLate(base, acc, bit) ==
  LET doubled == IF acc = None THEN None ELSE doubleJacobian(acc) IN
    IF bit = 0 THEN doubled ELSE IF acc = None THEN base ELSE addJacobian(base, acc)

ScalarStep(base, acc, bit) ==
  LET doubled == IF acc = None THEN None ELSE doubleJacobian(acc) IN
    IF bit = 0 THEN doubled ELSE IF acc = None THEN base ELSE addJacobian(base, doubled)

ScalarMult(p, bits) ==
  LET base == Append(p, 1)
      last == FoldLeft(LAMBDA acc, bit : ScalarStep(base, acc, bit), None, bits)
  IN IF last = None THEN None ELSE affineFromJacobian(last)

ScalarBaseMult(bits) == ScalarMult(<<Gx, Gy>>, bits)

-----------------------------------------------------------------------------
byteLen == (BitSize + ByteBits - 1) \div ByteBits
mask == IF BitSize % ByteBits = 0 THEN 2^ByteBits ELSE 2^(BitSize % ByteBits)

BytesOf(x) == [i \in 1..byteLen |-> (x \div 2^(ByteBits * (byteLen - i))) % 2^ByteBits]
NumberOf(bytes) == FoldLeft(LAMBDA v, byte : v * 2^ByteBits + byte, 0, bytes)

FlipBits(byte) ==
  LET bit(v, i) == (v \div 2^i) % 2 IN
    FoldLeft(LAMBDA v, i : v + (2^i) * ((bit(byte, i) + bit(Flip, i)) % 2), 0, [i \in 1..ByteBits |-> i - 1])

(* What one turn of GenerateKey's loop makes of the bytes it has read; it  *)
(* goes round again while there is no point.                               *)
GenerateKey(bytes) ==
  LET priv == [i \in 1..byteLen |->
                 IF i = 1 THEN bytes[i] % mask ELSE IF i = 2 THEN FlipBits(bytes[i]) ELSE bytes[i]]
  IN [priv |-> priv, point |-> ScalarBaseMult(Bits(NumberOf(priv), byteLen * ByteBits))]

Marshal(p) == <<4>> \o BytesOf(p[1]) \o BytesOf(p[2])

(* There is no test that the point is on the curve.                        *)
Unmarshal(data) ==
  IF Len(data) # 1 + 2 * byteLen THEN None
  ELSE IF data[1] # 4 THEN None
  ELSE <<NumberOf(SubSeq(data, 2, 1 + byteLen)), NumberOf(SubSeq(data, 2 + byteLen, 1 + 2 * byteLen))>>

-----------------------------------------------------------------------------
(* The group of the curve's points and Zero by chords and tangents.        *)
Zero == <<"zero">>
Points == {p \in Field \X Field : IsOnCurve(p[1], p[2])}

Plus(p, q) ==
  IF p = Zero THEN q
  ELSE IF q = Zero THEN p
  ELSE IF p[1] = q[1] /\ (p[2] + q[2]) % P = 0 THEN Zero
  ELSE LET slope == IF p = q THEN (3 * p[1] * p[1] * ModInverse((2 * p[2]) % P)) % P
                    ELSE (((q[2] - p[2]) % P) * ModInverse((q[1] - p[1]) % P)) % P
           x == ((slope * slope) - p[1] - q[1]) % P
       IN <<x, ((slope * ((p[1] - x) % P)) - p[2]) % P>>

Times(k, p) == FoldLeft(LAMBDA acc, bit : IF bit = 1 THEN Plus(p, Plus(acc, acc)) ELSE Plus(acc, acc),
                        Zero, Bits(k, BitSize + ByteBits))

(* The formulas in projective coordinates give the sum and the double of   *)
(* points on the curve, and panic rather than give a wrong point where     *)
(* they do not apply: when a point is added to itself or to its negative.  *)
AddSound(p, q) ==
  /\ Double(p) = Plus(p, p)
  /\ Add(p, q) = IF p[1] = q[1] THEN Panics ELSE Plus(p, q)

(* k times a point is right for every k below the order; for a larger one, *)
(* which GenerateKey does not exclude, the answer is right or a panic, and *)
(* never another point.                                                    *)
ScalarSound(p, k) ==
  LET got == ScalarMult(p, Bits(k, BitSize + ByteBits)) IN
    /\ k = 0 => got = None
    /\ k \in 1..(N - 1) => got = Times(k, p)
    /\ k >= N => got \in {Panics, Times(k, p)}

(* A generated pair belongs together, its point survives being written and *)
(* read, and nothing but a multiple of the order's first bits panics.      *)
KeysSound(bytes) ==
  LET key == GenerateKey(bytes)
      k == NumberOf(key.priv)
  IN /\ k < 2^BitSize
     /\ k \in 1..(N - 1) => key.point \in Points
     /\ key.point \in Points =>
          /\ key.point = Times(k, <<Gx, Gy>>)
          /\ Unmarshal(Marshal(key.point)) = key.point
          /\ Unmarshal(Tail(Marshal(key.point))) = None
          /\ Unmarshal(<<2>> \o Tail(Marshal(key.point))) = None

=============================================================================
