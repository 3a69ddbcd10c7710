---------------------------- MODULE RpcMessages ----------------------------
(***************************************************************************)
(* What a JSON-RPC message is (rpc/json.go), how a call is answered        *)
(* (rpc/handler.go, rpc/errors.go), and block numbers in requests          *)
(* (rpc/types.go).                                                         *)
(***************************************************************************)
EXTENDS Integers, Sequences

(* The fields of a message as far as they are asked for.  An absent id is  *)
(* nil; null is an id like any other scalar.                               *)
IdKinds == {"absent", "null", "scalar", "object", "array"}
Methods == {"", "call", "_subscribe", "_unsubscribe", "_subscription"}
Messages == [version : BOOLEAN, id : IdKinds, method : Methods,
             params : BOOLEAN, error : BOOLEAN, result : BOOLEAN]

hasValidID(m) == m.id \notin {"absent", "object", "array"}
isNotification(m) == m.version /\ m.id = "absent" /\ m.method # ""
isCall(m) == m.version /\ hasValidID(m) /\ m.method # ""
isResponse(m) ==
  /\ m.version /\ hasValidID(m) /\ m.method = ""
  /\ ~m.params /\ (m.result \/ m.error)

(* handlerImmediate: what is done with a message at once; "later" is false *)
(* in the code, to be run by a call goroutine or answered as invalid.  A   *)
(* notification other than of a subscription falls out of the switch, and  *)
(* the function has no return there.                                       *)
handlerImmediate(m) ==
  IF isNotification(m)
    THEN IF m.method = "_subscription" THEN "subscription result" ELSE "no return"
  ELSE IF isResponse(m) THEN "response" ELSE "later"

-----------------------------------------------------------------------------
(* The kinds of errors, their codes, and what errorMessage makes of one: a *)
(* message whose id is null.                                               *)
ErrorCode == [methodNotFound |-> -32601, subscriptionNotFound |-> -32601, parse |-> -32700,
              invalidRequest |-> -32600, invalidMessage |-> -32700, invalidParams |-> -32602,
              timeout |-> -32002, panic |-> -32603, marshal |-> -32603,
              notificationsUnsupported |-> -32001]

errorMessage(kind) ==
  [version |-> TRUE, id |-> "null", method |-> "", params |-> FALSE, error |-> TRUE, result |-> FALSE,
   code |-> IF kind \in DOMAIN ErrorCode THEN ErrorCode[kind] ELSE -32000]

errResponse(m, kind) == [errorMessage(kind) EXCEPT !.id = m.id]

(* A value that has no JSON form is an error of its own.                   *)
response(m, marshals) ==
  IF marshals THEN [errorMessage("none") EXCEPT !.id = m.id, !.error = FALSE, !.result = TRUE, !.code = 0]
  ELSE errResponse(m, "marshal")

(* What a callback ends in: a value, or an error of some kind.             *)
Outcomes == {"value", "no json", "other"} \cup DOMAIN ErrorCode

runMethod(m, outcome) ==
  IF outcome \in {"value", "no json"} THEN response(m, outcome = "value") ELSE errResponse(m, outcome)

-----------------------------------------------------------------------------
(* Block numbers.  Inputs are the tags, hexadecimal quantities standing    *)
(* for their values, hashes, and what is none of these.                    *)
CONSTANTS MaxInt64, MaxUint64

Tag == [safe |-> -4, finalized |-> -3, pending |-> -2, latest |-> -1, earliest |-> 0]
Invalid == [kind |-> "error", n |-> 0]

(* The texts a request may hold: t.kind is "tag", "hex", "hash" or "none". *)
Inputs == [kind : {"tag"}, tag : DOMAIN Tag] \cup [kind : {"hex"}, n : 0..MaxUint64]
            \cup [kind : {"hash", "none"}]
Absent == [kind |-> "absent"]

UnmarshalBlockNumber(t) ==
  IF t.kind = "tag" THEN [kind |-> "number", n |-> Tag[t.tag]]
  ELSE IF t.kind = "hex" /\ t.n <= MaxInt64 THEN [kind |-> "number", n |-> t.n]
  ELSE Invalid

(* hexutil.Uint64 of a negative number is its two's complement.            *)
MarshalBlockNumber(n) ==
  IF \E s \in DOMAIN Tag : Tag[s] = n
    THEN [kind |-> "tag", tag |-> CHOOSE s \in DOMAIN Tag : Tag[s] = n]
    ELSE [kind |-> "hex", n |-> n % (MaxUint64 + 1)]

(* BlockNumberOrHash: a string is a hash or what a BlockNumber may be; an  *)
(* object names at most one of the two.                                    *)
UnmarshalNumberOrHash(t) ==
  IF t.kind = "hash" THEN [kind |-> "hash", n |-> 0] ELSE UnmarshalBlockNumber(t)

UnmarshalObject(t, hasHash) ==
  IF hasHash /\ t # Absent THEN Invalid
  ELSE IF hasHash THEN [kind |-> "hash", n |-> 0]
  ELSE IF t = Absent THEN [kind |-> "nothing", n |-> 0]
  ELSE UnmarshalBlockNumber(t)

-----------------------------------------------------------------------------
(* What arrives: a message, a text for a block number, an object with a     *)
(* block number or a hash or both, or a block number of another program,   *)
(* as text; and what becomes of it.                                        *)
VARIABLES input, output

messageVars == <<input, output>>

BlockNumbers == -(MaxInt64 + 1)..MaxInt64
Unread == [kind |-> "unread", n |-> 0]
Handled(how) == [kind |-> how, n |-> 0]

Init ==
  /\ input \in [message : Messages] \cup [text : Inputs] \cup [number : BlockNumbers]
                \cup [object : Inputs \cup {Absent}, hasHash : BOOLEAN]
  /\ output = Unread

Handle ==
  /\ "message" \in DOMAIN input
  /\ output' = Handled(handlerImmediate(input.message))

ReadText ==
  /\ "text" \in DOMAIN input
  /\ output' = UnmarshalNumberOrHash(input.text)

ReadObject ==
  /\ "object" \in DOMAIN input
  /\ output' = UnmarshalObject(input.object, input.hasHash)

ReadNumber ==
  /\ "number" \in DOMAIN input
  /\ output' = UnmarshalBlockNumber(MarshalBlockNumber(input.number))

(* A call, once its goroutine has found the callback; that way is not in   *)
(* this commit.                                                            *)
Run ==
  /\ output = Handled("later") /\ isCall(input.message)
  /\ \E outcome \in Outcomes : output' = runMethod(input.message, outcome)

Next ==
  /\ UNCHANGED input
  /\ \/ output = Unread /\ (Handle \/ ReadText \/ ReadObject \/ ReadNumber)
     \/ Run

Spec == Init /\ [][Next]_messageVars

-----------------------------------------------------------------------------
(* A block number that is written and read again is the same, and a number *)
(* below the tags, which is written as its two's complement, is refused    *)
(* and never read as another block; what a BlockNumber accepts, a          *)
(* BlockNumberOrHash reads as the same number, as a string or in an object *)
(* without a hash.                                                         *)
BlockNumbersKept ==
  output # Unread =>
    /\ "number" \in DOMAIN input =>
         output = IF input.number >= Tag.safe THEN [kind |-> "number", n |-> input.number] ELSE Invalid
    /\ "text" \in DOMAIN input /\ UnmarshalBlockNumber(input.text) # Invalid =>
         output = UnmarshalBlockNumber(input.text)
    /\ "object" \in DOMAIN input /\ input.object # Absent =>
         output = IF input.hasHash THEN Invalid ELSE UnmarshalBlockNumber(input.object)

(* Whatever a callback ends in, the client takes the answer for the        *)
(* response to its call: the id is the call's, and there is a result or an *)
(* error, not both.                                                        *)
AnswersAreResponses ==
  "code" \in DOMAIN output =>
    /\ isResponse(output) /\ output.id = input.message.id
    /\ output.error # output.result
    /\ handlerImmediate(output) = "response"

=============================================================================
