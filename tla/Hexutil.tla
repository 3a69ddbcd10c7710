------------------------------ MODULE Hexutil ------------------------------
(***************************************************************************)
(* Hexadecimal text (common/hexutil).  A text is a sequence of characters. *)
(* Go has a pair of decoders for each type, one for strings and one for    *)
(* text within JSON, written separately.  A decoder yields an error and    *)
(* the value it stores; Unset is a target that is left as it was.          *)
(***************************************************************************)
EXTENDS Integers, Sequences, SequencesExt

CONSTANTS
  UintDigits,   \* hexadecimal digits of a uint64: 16
  BigDigits,    \* of the largest number Big holds: 64
  WordNibbles   \* bigWordNibbles: of a big.Word, 8 or 16

Unset == <<"unset">>
Ok(value) == [err |-> "none", value |-> value]
Err(e) == [err |-> e, value |-> Unset]

LowerHex == <<"0", "1", "2", "3", "4", "5", "6", "7", "8", "9", "a", "b", "c", "d", "e", "f">>
UpperHex == [i \in 1..16 |-> IF i <= 10 THEN LowerHex[i] ELSE <<"A", "B", "C", "D", "E", "F">>[i - 10]]

badNibble == -1
decodeNibble(c) ==
  IF \E i \in 1..16 : c \in {LowerHex[i], UpperHex[i]}
    THEN (CHOOSE i \in 1..16 : c \in {LowerHex[i], UpperHex[i]}) - 1
    ELSE badNibble

AllDigits(s) == \A i \in DOMAIN s : decodeNibble(s[i]) # badNibble
has0xPrefix(s) == Len(s) >= 2 /\ s[1] = "0" /\ s[2] \in {"x", "X"}
Drop(s, n) == SubSeq(s, n + 1, Len(s))

(* dec = dec * 16 + nib in an unsigned integer of so many digits.          *)
Accumulate(s, digits) == FoldLeft(LAMBDA v, c : (v * 16 + decodeNibble(c)) % 2^(4 * digits), 0, s)

-----------------------------------------------------------------------------
(* Numbers.  checkNumber and checkNumberText differ on the empty text.     *)

(* Mutant: leading zeros are accepted.                                     *)
CheckDigitsLax(raw) == IF raw = <<>> THEN Err("empty number") ELSE Ok(raw)

CheckDigits(raw) ==
  IF raw = <<>> THEN Err("empty number")
  ELSE IF Len(raw) > 1 /\ raw[1] = "0" THEN Err("leading zero")
  ELSE Ok(raw)

checkNumber(s) ==
  IF s = <<>> THEN Err("empty number")
  ELSE IF ~has0xPrefix(s) THEN Err("missing prefix")
  ELSE CheckDigits(Drop(s, 2))

checkNumberText(s) ==
  IF s = <<>> THEN Ok(<<>>)
  ELSE IF ~has0xPrefix(s) THEN Err("missing prefix")
  ELSE CheckDigits(Drop(s, 2))

(* strconv.ParseUint: digits are read in turn until one is none or the     *)
(* number no longer fits.                                                  *)
ParseUint(raw) ==
  LET read == SubSeq(raw, 1, IF Len(raw) <= UintDigits THEN Len(raw) ELSE UintDigits + 1) IN
    IF ~AllDigits(read) THEN Err("syntax")
    ELSE IF Len(raw) > UintDigits THEN Err("uint range")
    ELSE Ok(Accumulate(raw, UintDigits))

DecodeUint64(s) ==
  LET raw == checkNumber(s) IN IF raw.err # "none" THEN raw ELSE ParseUint(raw.value)

UnmarshalUint64(s) ==
  LET raw == checkNumberText(s) IN
    IF raw.err # "none" THEN raw
    ELSE IF Len(raw.value) > UintDigits THEN Err("uint64 range")
    ELSE IF ~AllDigits(raw.value) THEN Err("syntax")
    ELSE Ok(Accumulate(raw.value, UintDigits))

(* Uint, where uint has 64 bits.                                           *)
UnmarshalUint(s) ==
  LET u64 == UnmarshalUint64(s) IN IF u64.err = "uint64 range" THEN Err("uint range") ELSE u64

-----------------------------------------------------------------------------
(* The words of a big.Int, least significant first: so many digits each,   *)
(* taken from the end of the text; the last has what is left, maybe none.  *)
Words(raw) ==
  [i \in 1..(Len(raw) \div WordNibbles + 1) |->
     LET end == Len(raw) - (i - 1) * WordNibbles
         start == IF end < WordNibbles THEN 0 ELSE end - WordNibbles
     IN Accumulate(SubSeq(raw, start + 1, end), WordNibbles)]

(* big.Int.SetBits.                                                        *)
SetBits(words) == FoldLeft(LAMBDA v, w : v * 2^(4 * WordNibbles) + w, 0, Reverse(words))

BigOf(raw) ==
  IF raw.err # "none" THEN raw
  ELSE IF Len(raw.value) > BigDigits THEN Err("big256 range")
  ELSE IF ~AllDigits(raw.value) THEN Err("syntax")
  ELSE Ok(SetBits(Words(raw.value)))

DecodeBig(s) == BigOf(checkNumber(s))
UnmarshalBig(s) == BigOf(checkNumberText(s))

-----------------------------------------------------------------------------
(* Encoders; strconv.AppendUint and big.Int.Text write no leading zeros.   *)
HexText(n) ==
  LET k == CHOOSE k \in 1..(n + 1) : n < 2^(4 * k) /\ (k > 1 => n >= 2^(4 * (k - 1)))
  IN [i \in 1..k |-> LowerHex[((n \div 2^(4 * (k - i))) % 16) + 1]]

EncodeUint64(n) == <<"0", "x">> \o HexText(n)
EncodeBig(n) == (IF n < 0 THEN <<"-", "0", "x">> ELSE <<"0", "x">>) \o HexText(IF n < 0 THEN -n ELSE n)

(* Big's MarshalText writes every number without an error.                 *)
MarshalBig(n) == Ok(EncodeBig(n))

(* An int32 from GraphQL becomes an unsigned number as it is.              *)
UnmarshalGraphQLUint64(n) == Ok(n % 2^(4 * UintDigits))

-----------------------------------------------------------------------------
(* Bytes: pairs of digits.                                                 *)
HexBytes(raw) == [i \in 1..(Len(raw) \div 2) |-> 16 * decodeNibble(raw[2 * i - 1]) + decodeNibble(raw[2 * i])]

(* hex.Decode: a character that is no digit comes before the odd length.   *)
HexDecode(raw) ==
  IF ~AllDigits(raw) THEN Err("syntax")
  ELSE IF Len(raw) % 2 = 1 THEN Err("odd length")
  ELSE Ok(HexBytes(raw))

Decode(s) ==
  IF s = <<>> THEN Err("empty string")
  ELSE IF ~has0xPrefix(s) THEN Err("missing prefix")
  ELSE HexDecode(Drop(s, 2))

checkText(s, wantPrefix) ==
  LET raw == IF has0xPrefix(s) THEN Drop(s, 2) ELSE s IN
    IF s = <<>> THEN Ok(<<>>)
    ELSE IF ~has0xPrefix(s) /\ wantPrefix THEN Err("missing prefix")
    ELSE IF Len(raw) % 2 = 1 THEN Err("odd length")
    ELSE Ok(raw)

UnmarshalBytes(s) ==
  LET raw == checkText(s, TRUE) IN IF raw.err # "none" THEN raw ELSE HexDecode(raw.value)

(* Into an array of size bytes, which is not touched unless all is right.  *)
UnmarshalFixed(s, size, wantPrefix) ==
  LET raw == checkText(s, wantPrefix) IN
    IF raw.err # "none" THEN raw
    ELSE IF Len(raw.value) \div 2 # size THEN Err("length")
    ELSE HexDecode(raw.value)

Nibble(bytes, i) == IF i % 2 = 1 THEN bytes[(i + 1) \div 2] \div 16 ELSE bytes[i \div 2] % 16
Encode(bytes) == <<"0", "x">> \o [i \in 1..(2 * Len(bytes)) |-> LowerHex[Nibble(bytes, i) + 1]]

(* In JSON: between quotes, or "non-string" whatever the type.             *)
isString(s) == Len(s) >= 2 /\ s[1] = "\"" /\ s[Len(s)] = "\""
UnmarshalJSON(s, Unmarshal(_)) ==
  IF ~isString(s) THEN Err("non-string") ELSE Unmarshal(SubSeq(s, 2, Len(s) - 1))

-----------------------------------------------------------------------------
(* The value of digits by Horner's rule, and the texts that are quantities.*)
Value(raw) == FoldLeft(LAMBDA v, c : v * 16 + decodeNibble(c), 0, raw)
Quantity(s) ==
  /\ has0xPrefix(s) /\ Len(s) > 2 /\ AllDigits(Drop(s, 2))
  /\ s[3] = "0" => Len(s) = 3

(* The five decoders of numbers, written apart from each other, accept the *)
(* same texts, the quantities within their range, and read the same value, *)
(* word by word or digit by digit, cut where the words are cut; only the   *)
(* empty text is a number within JSON and none elsewhere.                  *)
NumbersAgree(s) ==
  LET raw == Drop(s, 2)
      Expected(digits) == IF Quantity(s) /\ Len(raw) <= digits THEN {Value(raw)} ELSE {}
      Got(r) == IF r.err = "none" THEN {r.value} ELSE {}
      Text(digits) == IF s = <<>> THEN {0} ELSE Expected(digits)
  IN /\ Got(DecodeUint64(s)) = Expected(UintDigits)
     /\ Got(UnmarshalUint64(s)) = Text(UintDigits)
     /\ Got(UnmarshalUint(s)) = Text(UintDigits)
     /\ Got(DecodeBig(s)) = Expected(BigDigits)
     /\ Got(UnmarshalBig(s)) = Text(BigDigits)

(* What an encoder writes its decoder reads back, with and without the     *)
(* quotes of JSON, up to the last number of its type; a Big above it is    *)
(* written, and refused for its range when it is read.                     *)
NumberKept(n) ==
  LET Quoted(s) == <<"\"">> \o s \o <<"\"">> IN
    /\ n \in 0..(2^(4 * UintDigits) - 1) =>
         /\ DecodeUint64(EncodeUint64(n)) = Ok(n)
         /\ UnmarshalJSON(Quoted(EncodeUint64(n)), UnmarshalUint64) = Ok(n)
         /\ UnmarshalJSON(EncodeUint64(n), UnmarshalUint64).err = "non-string"
         /\ DecodeUint64(EncodeUint64(n)) = UnmarshalGraphQLUint64(n)
    /\ n \in 0..(2^(4 * BigDigits) - 1) => DecodeBig(EncodeBig(n)) = Ok(n)
    /\ n >= 2^(4 * BigDigits) => DecodeBig(MarshalBig(n).value).err = "big256 range"

(* What the comment of Big says: that to marshal a negative integer is an  *)
(* error.                                                                  *)
NegativeRefused(n) == n < 0 => MarshalBig(n).err # "none"

(* The decoders of bytes accept pairs of digits in either case and give    *)
(* the bytes whose encoding they are; those of arrays want the length, and *)
(* one of them does without the prefix.                                    *)
BytesAgree(s) ==
  LET raw == IF has0xPrefix(s) THEN Drop(s, 2) ELSE s
      pairs == AllDigits(raw) /\ Len(raw) % 2 = 0
      Fixed(wantPrefix) == UnmarshalFixed(s, Len(raw) \div 2, wantPrefix)
  IN /\ Decode(s).err = "none" <=> has0xPrefix(s) /\ pairs
     /\ UnmarshalBytes(s).err = "none" <=> s = <<>> \/ Decode(s).err = "none"
     /\ Decode(s).err = "none" =>
          UnmarshalBytes(s) = Decode(s) /\ Decode(Encode(Decode(s).value)) = Decode(s)
     /\ Fixed(TRUE) = UnmarshalBytes(s)
     /\ Fixed(FALSE).err = "none" <=> pairs
     /\ Fixed(FALSE).err = "none" => Decode(Encode(Fixed(FALSE).value)) = Fixed(FALSE)

=============================================================================
