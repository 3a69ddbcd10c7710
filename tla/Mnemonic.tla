------------------------------ MODULE Mnemonic ------------------------------
(***************************************************************************)
(* Words for hexadecimal text (crypto/mnemonic.go): three words for eight  *)
(* characters.  A word is its place in the table, -1 one that is not       *)
(* there; a character is a digit's value, Minus, or another number.        *)
(***************************************************************************)
EXTENDS Integers, Sequences, SequencesExt

CONSTANTS
  WordCount,   \* of the table: 1626
  Group,       \* characters that three words stand for: 8
  Base         \* 16

Panics == <<"panic">>
Minus == Base

(* Go's / and %, which round towards zero.                                 *)
Quo(x, m) == IF x >= 0 THEN x \div m ELSE -((-x) \div m)
Rem(x, m) == IF x >= 0 THEN x % m ELSE -((-x) % m)

IndexOf(word) == IF word \in 0..(WordCount - 1) THEN word ELSE -1
Number(digits) == FoldLeft(LAMBDA v, d : v * Base + d, 0, digits)
Digits(s) == \A i \in DOMAIN s : s[i] < Base

(* strconv.ParseInt, whose error is dropped: what does not parse is zero.  *)
ParseInt(s) ==
  IF Digits(s) THEN Number(s)
  ELSE IF s[1] = Minus /\ Len(s) > 1 /\ Digits(Tail(s)) THEN -Number(Tail(s))
  ELSE 0

ThreeWords(s) ==
  LET bit == ParseInt(s)
      w1 == Rem(bit, WordCount)
      w2 == Rem(Quo(bit, WordCount) + w1, WordCount)
  IN <<w1, w2, Rem(Quo(Quo(bit, WordCount), WordCount) + w2, WordCount)>>

(* The step is an eighth of the message, and not eight characters.         *)
MnemonicEncode(message) ==
  LET step == Len(message) \div Group
      starts == [k \in 1..(IF step = 0 THEN 1 ELSE (Len(message) + step - 1) \div step) |-> (k - 1) * step]
      Words(i) == ThreeWords(SubSeq(message, i + 1, i + Group))
  IN IF message = <<>> THEN <<>>
     ELSE IF \E k \in DOMAIN starts : starts[k] + Group > Len(message)
               \/ \E j \in 1..3 : Words(starts[k])[j] < 0
       THEN Panics
     ELSE FoldLeft(LAMBDA out, i : out \o Words(i), <<>>, starts)

(* "%08x": at least eight characters, the sign among them.                 *)
HexOf[x \in Nat] == IF x < Base THEN <<x>> ELSE Append(HexOf[x \div Base], x % Base)
Padded(x) ==
  LET text == HexOf[IF x < 0 THEN -x ELSE x]
      sign == IF x < 0 THEN <<Minus>> ELSE <<>>
      zeros == Group - Len(text) - Len(sign)
  IN sign \o [i \in 1..(IF zeros > 0 THEN zeros ELSE 0) |-> 0] \o text

ValueOf(w1, w2, w3) ==
  LET Mod(x) == IF Rem(x, WordCount) < 0 THEN Rem(x, WordCount) + WordCount ELSE Rem(x, WordCount) IN
    w1 + WordCount * Mod(w2 - w1) + WordCount * WordCount * Mod(w3 - w2)

MnemonicDecode(words) ==
  LET At(i) == IndexOf(words[i]) IN
    IF Len(words) % 3 # 0 THEN Panics
    ELSE FoldLeft(LAMBDA out, k : out \o Padded(ValueOf(At(3 * k + 1), At(3 * k + 2), At(3 * k + 3))),
                  <<>>, [k \in 1..(Len(words) \div 3) |-> k - 1])

-----------------------------------------------------------------------------
(* A message of eight groups of eight digits comes back from its words as  *)
(* it was.  One of another length does not: it panics, or digits are left  *)
(* out without an error.  Text that is no number is read as zero.          *)
MessageKept(message) ==
  LET words == MnemonicEncode(message) IN
    /\ Len(message) = Group * Group /\ Digits(message) => MnemonicDecode(words) = message
    /\ Len(message) \notin {0, Group * Group} => words = Panics \/ Len(MnemonicDecode(words)) < Len(message)
    /\ words # Panics /\ MnemonicDecode(words) # Panics => Digits(MnemonicDecode(words))

(* Words that are in the table come back from the digits they stand for,   *)
(* unless they stand for a number of more digits than a group has.         *)
WordsKept(w1, w2, w3) ==
  LET digits == MnemonicDecode(<<w1, w2, w3>>) IN
    {w1, w2, w3} \subseteq 0..(WordCount - 1) =>
      /\ Digits(digits)
      /\ Number(digits) < Base^Group <=> Len(digits) = Group
      /\ Len(digits) = Group => ThreeWords(digits) = <<w1, w2, w3>>

=============================================================================
