------------------------------ MODULE BigMath ------------------------------
(***************************************************************************)
(* common/math/big.go over small widths.  A big.Int is an integer; its     *)
(* words hold its absolute value.  Byte slices are sequences of digits to  *)
(* the base 2^ByteBits.                                                    *)
(***************************************************************************)
EXTENDS Integers, Sequences, SequencesExt

CONSTANTS
  Width,      \* bits of an EVM number: 256
  WordBits,   \* bits of a big.Word
  ByteBits,   \* bits of a byte: 8
  PadLen      \* the 8 PaddedBigBytes compares and pads with, whatever it is asked for

WordBytes == WordBits \div ByteBits
Abs(x) == IF x < 0 THEN -x ELSE x

tt255 == 2^(Width - 1)
tt256 == 2^Width

(* x.And(x, tt256m1), two's complement for a negative x.                   *)
U256(x) == x % tt256

S256(x) == IF x < tt255 THEN x ELSE x - tt256

Bit(x, i) == (Abs(x) \div 2^i) % 2
BitLen(x) == CHOOSE n \in 0..Abs(x) : Abs(x) < 2^n /\ (n > 0 => Abs(x) >= 2^(n - 1))
Least(S) == CHOOSE i \in S : \A j \in S : i <= j

FirstBitSet(x) ==
  LET set == {i \in 0..(BitLen(x) - 1) : Bit(x, i) = 1} IN
    IF set = {} THEN BitLen(x) ELSE Least(set)

BigMax(x, y) == IF x < y THEN y ELSE x
BigMin(x, y) == IF x > y THEN y ELSE x

(* bigint.Bits(): as many words as it takes, least significant first.      *)
Bits(x) ==
  LET n == (BitLen(x) + WordBits - 1) \div WordBits IN
    [i \in 1..n |-> (Abs(x) \div 2^(WordBits * (i - 1))) % 2^WordBits]

-----------------------------------------------------------------------------
(* Mutant: the words are read from the most significant one.               *)
ReadBitsBackwards(x, len) ==
  [k \in 1..len |->
     LET j == len - k
         w == Len(Bits(x)) - j \div WordBytes
     IN IF w \notin DOMAIN Bits(x) THEN 0
        ELSE (Bits(x)[w] \div 2^(ByteBits * (j % WordBytes))) % 2^ByteBits]

(* The bytes from the end of the buffer; what does not fit is left out.    *)
ReadBits(x, len) ==
  [k \in 1..len |->
     LET j == len - k
         w == j \div WordBytes + 1
     IN IF w \notin DOMAIN Bits(x) THEN 0
        ELSE (Bits(x)[w] \div 2^(ByteBits * (j % WordBytes))) % 2^ByteBits]

(* big.Int.Bytes: no leading zeros.                                        *)
Bytes(x) == ReadBits(x, (BitLen(x) + ByteBits - 1) \div ByteBits)

PaddedBigBytes(x, n) ==
  IF BitLen(x) \div ByteBits >= PadLen THEN Bytes(x) ELSE ReadBits(x, PadLen)

U256Bytes(x) == PaddedBigBytes(U256(x), Width \div ByteBits)

bigEndianByteAt(x, n) ==
  LET i == n \div WordBytes + 1 IN
    IF i > Len(Bits(x)) THEN 0
    ELSE (Bits(x)[i] \div 2^(ByteBits * (n % WordBytes))) % 2^ByteBits

Byte(x, padlength, n) == IF n >= padlength THEN 0 ELSE bigEndianByteAt(x, padlength - 1 - n)

-----------------------------------------------------------------------------
(* Exp: a step for each bit of each word of the exponent; the base is      *)
(* squared in place.                                                       *)
ExpStep(st, bit) ==
  [result |-> IF bit = 1 THEN U256(st.result * st.base) ELSE st.result,
   base |-> U256(st.base * st.base)]

Exp(base, exponent) ==
  LET bits == [i \in 1..(WordBits * Len(Bits(exponent))) |-> Bit(exponent, i - 1)]
  IN FoldLeft(ExpStep, [result |-> 1, base |-> base], bits)

-----------------------------------------------------------------------------
(* A text has a sign, a number n, and digits: some, none or bad ones.      *)
(* A sign may stand after the prefix of a hexadecimal number, and not      *)
(* before it: there the text is read as a decimal.                         *)
Failed == <<"failed">>

ParseBig256(t) ==
  LET n == IF t.sign \in {"-", "0x-"} THEN -t.n ELSE t.n IN
    IF t.digits = "none" /\ t.sign = "" THEN <<0>>
    ELSE IF t.digits # "some" \/ t.sign = "-0x" THEN Failed
    ELSE IF BitLen(n) > Width THEN Failed ELSE <<n>>

(* MarshalText of HexOrDecimal256 (%#x) and of Decimal256 (%#d).           *)
HexMarshal(n) == [sign |-> IF n < 0 THEN "-0x" ELSE "0x", n |-> Abs(n), digits |-> "some"]
DecimalMarshal(n) == [sign |-> IF n < 0 THEN "-" ELSE "", n |-> Abs(n), digits |-> "some"]

-----------------------------------------------------------------------------
BytesValue(s) == FoldLeft(LAMBDA v, b : v * 2^ByteBits + b, 0, s)

(* S256 is the one number of Width signed bits that U256 takes back: at    *)
(* both ends of its range too.                                             *)
TwosComplement(x) ==
  LET s == S256(U256(x)) IN
    /\ -tt255 <= s /\ s < tt255 /\ U256(s) = U256(x)
    /\ (-tt255 <= x /\ x < tt255) => s = x

(* However a number falls into words, its bytes give it back: in a buffer  *)
(* that is long enough, one by one by Byte, and padded to whatever length. *)
BytesOfWords(x, len) ==
  /\ BytesValue(ReadBits(x, len)) = Abs(x) % 2^(ByteBits * len)
  /\ \A n \in 0..(len - 1) : Byte(x, len, n) = ReadBits(x, len)[n + 1]
  /\ Byte(x, len, len) = 0
  /\ BytesValue(PaddedBigBytes(x, len)) = Abs(x)
  /\ BytesValue(U256Bytes(x)) = U256(x)
  /\ BigMin(x, len) + BigMax(x, len) = x + len
  /\ x # 0 => Bit(x, FirstBitSet(x)) = 1 /\ Abs(x) % 2^FirstBitSet(x) = 0

(* What the comment of PaddedBigBytes says: at least n bytes are returned. *)
PaddedLongEnough(x, n) == Len(PaddedBigBytes(x, n)) >= n

(* Power by repeated multiplication, sixteen times the sixteenth part.     *)
Multiplied(x, e) == FoldLeft(LAMBDA v, i : U256(v * x), U256(1), [i \in 1..e |-> i])
Power(x, e) == U256(Multiplied(Multiplied(x, e \div 16), 16) * Multiplied(x, e % 16))

(* Exp is the power to the absolute value of the exponent, whatever number *)
(* of words that has and although it squares the base in place.            *)
ExpIsPower(x, e) == Exp(x, e).result = Power(x, Abs(e))

(* What the comment of Exp says: that the base is not changed.             *)
BaseKept(x, e) == Exp(x, e).base = x

(* A decimal text is read back as the number it was written for; of the    *)
(* hexadecimal ones those of negative numbers are refused.                 *)
TextsKept(n) ==
  LET fits == BitLen(n) <= Width IN
    /\ ParseBig256(DecimalMarshal(n)) = IF fits THEN <<n>> ELSE Failed
    /\ ParseBig256(HexMarshal(n)) = IF fits /\ n >= 0 THEN <<n>> ELSE Failed

=============================================================================
