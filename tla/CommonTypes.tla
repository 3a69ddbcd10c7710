---------------------------- MODULE CommonTypes ----------------------------
(***************************************************************************)
(* Byte slices, hashes and addresses (common/bytes.go, common/types.go)    *)
(* and how long ago something was (common/format.go).  Bytes are numbers,  *)
(* texts are sequences of characters.  The digest of an address's digits   *)
(* is external: one number from 0 to 15 for each digit.                    *)
(***************************************************************************)
EXTENDS Hexutil

CONSTANTS
  Length,     \* bytes of a Hash (32) or an Address (20)
  Digest(_)   \* external: Keccak256 of an address's digits, as half-bytes

Zeros(n) == [i \in 1..n |-> 0]
Rightmost(s, n) == SubSeq(s, Len(s) - n + 1, Len(s))

-----------------------------------------------------------------------------
(* Hex2Bytes: the error is dropped, and what was decoded before it is kept.*)
Hex2Bytes(raw) ==
  LET good == {k \in 0..(Len(raw) \div 2) : AllDigits(SubSeq(raw, 1, 2 * k))} IN
    HexBytes(SubSeq(raw, 1, 2 * (CHOOSE k \in good : \A j \in good : j <= k)))

FromHex(s) ==
  LET raw == IF has0xPrefix(s) THEN Drop(s, 2) ELSE s IN
    Hex2Bytes(IF Len(raw) % 2 = 1 THEN <<"0">> \o raw ELSE raw)

Hex2BytesFixed(s, flen) ==
  LET h == Hex2Bytes(s) IN IF Len(h) >= flen THEN Rightmost(h, flen) ELSE Zeros(flen - Len(h)) \o h

ParseHexOrString(s) == IF Decode(s).err = "missing prefix" THEN Ok(<<"raw", s>>) ELSE Decode(s)

LeftPadBytes(b, l) == IF l <= Len(b) THEN b ELSE Zeros(l - Len(b)) \o b
RightPadBytes(b, l) == IF l <= Len(b) THEN b ELSE b \o Zeros(l - Len(b))

NonZero(b) == {i \in DOMAIN b : b[i] # 0}
TrimLeftZeroes(b) ==
  IF NonZero(b) = {} THEN <<>>
  ELSE SubSeq(b, CHOOSE i \in NonZero(b) : \A j \in NonZero(b) : i <= j, Len(b))
TrimRightZeroes(b) ==
  IF NonZero(b) = {} THEN <<>>
  ELSE SubSeq(b, 1, CHOOSE i \in NonZero(b) : \A j \in NonZero(b) : j <= i)

-----------------------------------------------------------------------------
(* Cropped from the left; a shorter b replaces the end of h only.          *)
SetBytes(h, b) ==
  IF Len(b) >= Length THEN Rightmost(b, Length) ELSE SubSeq(h, 1, Length - Len(b)) \o b

BytesToHash(b) == SetBytes(Zeros(Length), b)
HexToHash(s) == BytesToHash(FromHex(s))
UnmarshalText(s) == UnmarshalFixed(s, Length, TRUE)
UnmarshalUnprefixed(s) == UnmarshalFixed(s, Length, FALSE)
Scan(h, b) == IF Len(b) # Length THEN Err("length") ELSE Ok(b)

IsHexAddress(s) ==
  LET raw == IF has0xPrefix(s) THEN Drop(s, 2) ELSE s IN Len(raw) = 2 * Length /\ AllDigits(raw)

(* Letters whose half-byte of the digest is above 7 are written in capitals.*)
checksumHex(a) ==
  LET hex == Encode(a)
      digest == Digest(Drop(hex, 2))
  IN [i \in DOMAIN hex |->
        IF i > 2 /\ decodeNibble(hex[i]) > 9 /\ digest[i - 2] > 7
          THEN UpperHex[decodeNibble(hex[i]) + 1] ELSE hex[i]]

(* An address with the text it was given as.                               *)
NewMixedcaseAddress(a) == [addr |-> a, original |-> checksumHex(a)]
NewMixedcaseFromString(s) ==
  IF IsHexAddress(s) THEN Ok([addr |-> BytesToHash(FromHex(s)), original |-> s]) ELSE Err("invalid address")
UnmarshalMixedcase(s) ==
  IF UnmarshalText(s).err # "none" THEN UnmarshalText(s)
  ELSE Ok([addr |-> UnmarshalText(s).value, original |-> s])
ValidChecksum(ma) == ma.original = checksumHex(ma.addr)

(* Both tests of MarshalJSON are for "0x"; "0X" stays in the text.         *)
MarshalMixedcase(ma) ==
  IF SubSeq(ma.original, 1, 2) = <<"0", "x">> THEN ma.original ELSE <<"0", "x">> \o ma.original

-----------------------------------------------------------------------------
(* PrettyAge, in seconds: up to three parts <<unit, number>>, from years   *)
(* to seconds; a unit is used when the rest is more than one of it.        *)
ageUnits == <<31104000, 2592000, 604800, 86400, 3600, 60, 1>>

AgeStep(st, unit) ==
  IF st.rest > unit /\ Len(st.parts) < 3
    THEN [rest |-> st.rest % unit, parts |-> Append(st.parts, <<unit, st.rest \div unit>>)]
    ELSE st

PrettyAge(diff) == FoldLeft(AgeStep, [rest |-> diff, parts |-> <<>>], ageUnits).parts

-----------------------------------------------------------------------------
(* Padding and trimming undo each other, and none of them loses a digit    *)
(* that is not a leading or trailing zero; Scan takes the bytes that       *)
(* BytesToHash keeps as they are, and no others.                           *)
PaddingUndone(b, l) ==
  /\ Scan(Zeros(Length), b) = IF BytesToHash(b) = b THEN Ok(b) ELSE Err("length")
  /\ TrimLeftZeroes(LeftPadBytes(b, l)) = TrimLeftZeroes(b)
  /\ TrimRightZeroes(RightPadBytes(b, l)) = TrimRightZeroes(b)
  /\ LeftPadBytes(TrimLeftZeroes(b), Len(b)) = b /\ RightPadBytes(TrimRightZeroes(b), Len(b)) = b

(* The lenient readers of hashes agree with the strict one on every text   *)
(* the strict one accepts, and with the reader that needs no prefix; on    *)
(* others they read what they can: never more bytes than a hash has.       *)
ReadersAgree(s) ==
  /\ UnmarshalText(s).err = "none" =>
       /\ HexToHash(s) = UnmarshalText(s).value
       /\ UnmarshalUnprefixed(s) = UnmarshalText(s)
       /\ IsHexAddress(s)
       /\ ParseHexOrString(s) = UnmarshalText(s)
  /\ UnmarshalUnprefixed(s).err = "none" <=> IsHexAddress(s)
  /\ ~has0xPrefix(s) /\ IsHexAddress(s) => Hex2BytesFixed(s, Length) = UnmarshalUnprefixed(s).value
  /\ Len(HexToHash(s)) = Length

(* An address that is written with its checksum is read back, and has a    *)
(* valid checksum.  One that was given as a text keeps its address and its *)
(* letters through JSON, except that a text with the prefix 0X is written  *)
(* as one nobody can read.                                                 *)
MixedcaseKept(s) ==
  LET made == NewMixedcaseFromString(s) IN
    made.err = "none" =>
      LET ma == made.value
          back == UnmarshalMixedcase(MarshalMixedcase(ma))
      IN /\ UnmarshalMixedcase(checksumHex(ma.addr)) = Ok(NewMixedcaseAddress(ma.addr))
         /\ ValidChecksum(NewMixedcaseAddress(ma.addr))
         /\ SubSeq(s, 1, 2) = <<"0", "X">> => back.err # "none"
         /\ SubSeq(s, 1, 2) # <<"0", "X">> => back.value.addr = ma.addr
         /\ SubSeq(s, 1, 2) = <<"0", "x">> => back.value = ma

(* The age that is printed falls short of the real one by less than its    *)
(* last part's unit; of one second exactly nothing at all is printed.      *)
AgePrecise(diff) ==
  LET parts == PrettyAge(diff)
      Part(i) == IF i \in DOMAIN parts THEN parts[i][1] * parts[i][2] ELSE 0
      rest == diff - (Part(1) + Part(2) + Part(3))
  IN /\ DOMAIN parts \subseteq 1..3
     /\ diff > 1 => parts # <<>>
     /\ parts = <<>> \/ rest \in 0..(IF Len(parts) = 3 THEN parts[3][1] - 1 ELSE 1)

=============================================================================
