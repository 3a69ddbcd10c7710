------------------------------- MODULE Codecs -------------------------------
(***************************************************************************)
(* The functions from data to data that do not recurse over types, for all *)
(* values of their parameters: texts, numbers, tags; and the machines      *)
(* among them, each with its own variables: a message that is read and     *)
(* answered, a digest that is written to, reset and summed, and            *)
(* keccakF1600 with its 24 rounds.                                         *)
(***************************************************************************)
EXTENDS Integers, Sequences, SequencesExt

CONSTANTS
  UintDigits, BigDigits, WordNibbles,   \* Hexutil
  Length, Digest(_),                    \* CommonTypes
  Width, WordBits, ByteBits, PadLen,    \* BigMath
  MaxInt64, MaxUint64,                  \* RpcMessages
  OutputSizes, Lengths, MaxBytes,       \* Sponge
  States                                \* KeccakF

VARIABLES
  given,                                     \* a number and another
  input, output,                             \* RpcMessages
  outputSize, digest, absorbed, fate, sum,   \* Sponge
  lanes, rounds                              \* KeccakF

msgVars == <<input, output>>
hashVars == <<outputSize, digest, absorbed, fate, sum>>
kecVars == <<lanes, rounds>>

(* A number has at least a sign bit, a word a whole number of bytes, a     *)
(* signed type half of the values of the unsigned one; digests have the    *)
(* sizes, in bytes, that the package makes them for.                       *)
ASSUME NumbersAssumption ==
  /\ Width \in Nat \ {0} /\ PadLen \in Nat
  /\ ByteBits \in Nat \ {0} /\ WordBits \in Nat \ {0} /\ WordBits % ByteBits = 0
  /\ MaxInt64 \in Nat /\ MaxUint64 = 2 * MaxInt64 + 1
ASSUME TextsAssumption ==
  UintDigits \in Nat \ {0} /\ BigDigits \in Nat \ {0} /\ WordNibbles \in Nat \ {0} /\ Length \in Nat \ {0}
ASSUME SizesAssumption == OutputSizes \subseteq {28, 32, 48, 64} /\ Lengths \subseteq Nat

Nothing == [of |-> "nothing"]
GiveText(S) == \E s \in S : given' = [of |-> "text", text |-> s]
GiveNumber(N) == \E n \in N : given' = [of |-> "number", number |-> n]
GivePadding(B, N) == \E b \in B, n \in N : given' = [of |-> "padding", bytes |-> b, number |-> n]
GiveBytes(X, N) == \E x \in X, n \in N : given' = [of |-> "bytes", x |-> x, n |-> n]
GivePower(X, N) == \E x \in X, n \in N : given' = [of |-> "power", x |-> x, n |-> n]

Text == INSTANCE CommonTypes
Math == INSTANCE BigMath
Tags == INSTANCE RlpStruct
Msg == INSTANCE RpcMessages
Hash == INSTANCE Sponge WITH written <- absorbed
Kec == INSTANCE KeccakF WITH a <- lanes, n <- rounds

TextsSpec ==
  /\ given = Nothing
  /\ [][given = Nothing /\ (GiveText(Seq(STRING)) \/ GiveNumber(Int) \/ GivePadding(Seq(Nat), Nat))]_given
NumbersSpec == given = Nothing /\ [][given = Nothing /\ (GiveBytes(Int, Nat) \/ GivePower(Int, Int))]_given
MsgSpec == Msg!Init /\ [][Msg!Next]_msgVars
HashSpec == Hash!Init /\ [][Hash!Next]_hashVars
KecSpec == Kec!Init /\ [][Kec!Next]_kecVars

(* common/math/big.go: two's complement, bytes read out of the words, and  *)
(* Exp with its squarings in place are what arithmetic modulo 2^256 says.  *)
NumbersSound ==
  /\ given.of = "bytes" =>
       Math!TwosComplement(given.x) /\ Math!BytesOfWords(given.x, given.n) /\ Math!TextsKept(given.x)
  /\ given.of = "power" => Math!ExpIsPower(given.x, given.n)

(* rpc/types.go, rpc/json.go, rpc/handler.go: a block number keeps its     *)
(* value when it is written and read or is refused, and a client takes the *)
(* answer to a call, whatever that ended in, for its response.             *)
MessagesSound == Msg!BlockNumbersKept /\ Msg!AnswersAreResponses

(* crypto/sha3/sha3.go: however a message is cut into Writes, and whatever *)
(* is summed in between, the same blocks are permuted.                     *)
ChunkingInvisible == Hash!ChunkingInvisible

(* crypto/sha3/keccakf.go: each unrolled round is one of Keccak-f, but for *)
(* the last row of every fourth.                                           *)
RoundsFollowKeccak == Kec!RoundsFollowKeccak

(* hexutil, common/types.go, bytes.go, format.go and rpc/types.go: what    *)
(* one function writes the others read as the same or refuse, they agree   *)
(* on what they accept, a number keeps its value at the boundary of a word *)
(* and of a type, padding is undone, ages are precise to their unit; and a *)
(* client takes the answer to a call for its response.                     *)
TextsSound ==
  /\ given.of = "text" =>
       /\ Text!NumbersAgree(given.text) /\ Text!BytesAgree(given.text)
       /\ Text!ReadersAgree(given.text) /\ Text!MixedcaseKept(given.text)
  /\ given.of = "number" => Text!NumberKept(given.number) /\ Text!AgePrecise(given.number)
  /\ given.of = "padding" => Text!PaddingUndone(given.bytes, given.number)
  /\ MessagesSound

=============================================================================
