------------------------------ MODULE MCCodecs ------------------------------
(***************************************************************************)
(* The functions from data to data, beside the parts of Rpc: one input   *)
(* is chosen and the operators are compared on it; a digest is written to, *)
(* reset and summed; keccakF1600 runs its 24 rounds; a message, a text or  *)
(* a block number is read.                                                 *)
(***************************************************************************)
EXTENDS Rpc, Codecs, TLC

(* The ids of a call, of a batch of two and of a subscription.             *)
MCOpIds == [o \in Ops |-> IF o = "batched" THEN {1, 2} ELSE IF o = "plain" THEN {3} ELSE {4}]

(* Methods get, set and feed; feed is a subscription in one receiver and a *)
(* method in the other, set takes an argument, all and of take any number  *)
(* of them, and get of the service eth_x is read as x_get of eth.          *)
Sig(in, out) == [exported |-> TRUE, in |-> in, variadic |-> FALSE, out |-> out]
Variadic(in, out) == [Sig(in, out) EXCEPT !.variadic = TRUE]
First == (<<"get">> :> Sig(<<>>, <<"other">>)) @@ (<<"feed">> :> Sig(<<"ctx">>, <<"*sub", "err">>))
           @@ (<<"bad">> :> Sig(<<>>, <<"err", "other">>))
           @@ (<<"all">> :> Variadic(<<"ctx", "other">>, <<"other">>))
Second == (<<"get">> :> Sig(<<"ctx">>, <<"other", "err">>)) @@ (<<"set">> :> Sig(<<"other">>, <<"err">>))
            @@ (<<"feed">> :> Sig(<<"*ctx">>, <<>>))
            @@ (<<"x", "_", "get">> :> Sig(<<>>, <<>>))
            @@ (<<"of">> :> Variadic(<<"other", "other">>, <<>>))
            @@ (<<"hidden">> :> [Sig(<<>>, <<>>) EXCEPT !.exported = FALSE])
MCReceivers == {First, Second}
MCNames == {<<>>, <<"eth">>, <<"eth", "_", "x">>}

(* Numbers of two digits in place of 16 and 64, words of a half-byte or a  *)
(* byte, hashes of two bytes; any digest of an address will do.            *)
MCDigest(h) == [i \in DOMAIN h |-> (3 * i + 5 * Len(SelectSeq(h, LAMBDA d : d = h[1]))) % 16]
Words == INSTANCE Mnemonic WITH WordCount <- 3, Group <- 2, Base <- 4

(* Two curves of prime order, one the field of the other.                  *)
C31 == INSTANCE Curve WITH P <- 31, B <- 3, N <- 43, Gx <- 1, Gy <- 2, BitSize <- 6, ByteBits <- 3, Flip <- 5
C43 == INSTANCE Curve WITH P <- 43, B <- 7, N <- 31, Gx <- 2, Gy <- 12, BitSize <- 6, ByteBits <- 4, Flip <- 5

Rlp == INSTANCE RlpGen

(* Four states for the permutation.                                        *)
Scattered(q) ==
  [l \in 0..24 |-> {b \in 0..63 : (l * l * 7 + b * b * 3 + l * b + q * (b + l + 3)) % 11 < 4 + (q % 3)}]
MCStates == {Scattered(q) : q \in 1..4}

-----------------------------------------------------------------------------
(* Inputs.                                                                 *)
SeqsOf(S, most) == UNION {[1..i -> S] : i \in 0..most}

Starts == {<<>>, <<"0">>, <<"0", "x">>, <<"0", "X">>, <<"-", "0", "x">>}
Ages == {3599, 3600, 3601, 86399, 86400, 86401, 90061, 90062, 31104000, 31104001, 33782461}

Basic(k) == [kind |-> k]
Slice(e) == [kind |-> "slice", elem |-> e]
Ptr(e) == [kind |-> "ptr", elem |-> e]
Bytes(len) == [kind |-> "array", elem |-> Basic("uint8"), len |-> len]
Struct(fields) == [kind |-> "struct", fields |-> fields]
Field(type, tag) == [exported |-> TRUE, type |-> type, tag |-> tag]
Opt == <<"optional">>
Aux == Struct(<<Field(Basic("uint"), Opt)>>)

(* Types of every kind of operation, optional or not, nil or not.          *)
RlpTypes == {
  Struct(<<Field(Basic("bool"), Opt), Field(Basic("string"), Opt), Field(Bytes(2), Opt)>>),
  Struct(<<Field(Ptr(Basic("uint")), Opt), Field(Slice(Basic("uint")), <<"">>), Field(Basic("string"), Opt)>>),
  Struct(<<Field(Ptr(Basic("uint")), <<"optional", "nil">>),
           Field(Ptr(Basic("uint")), <<"nilString", "optional">>),
           Field(Ptr(Basic("string")), <<"nilList", "optional">>)>>),
  Struct(<<Field(Ptr(Aux), Opt), Field(Ptr(Bytes(1)), Opt), Field(Ptr(Ptr(Basic("bool"))), Opt)>>),
  Struct(<<Field(Aux, Opt), Field(Slice(Ptr(Basic("uint8"))), Opt), Field(Ptr(Basic("bigint")), Opt)>>),
  Struct(<<Field(Slice(Basic("uint8")), Opt), Field(Ptr(Slice(Basic("uint8"))), <<"optional", "nil">>),
           Field(Basic("uint"), <<"-">>), Field(Ptr([kind |-> "ptrcoder", elem |-> Aux]), Opt)>>),
  Struct(<<Field(Basic("bool"), Opt), Field(Basic("bigint"), <<>>), Field(Basic("raw"), <<>>)>>),
  Struct(<<Field(Ptr(Basic("raw")), Opt), Field(Ptr(Basic("raw")), <<"optional", "nil">>),
           Field(Ptr(Slice(Basic("bigint"))), Opt)>>),
  Struct(<<Field(Basic("uint"), <<>>)>>),
  Basic("int"), Ptr(Basic("encoder")), Basic("coder"), Slice(Struct(<<>>)),
  Ptr(Struct(<<Field(Aux, Opt), Field(Aux, <<>>)>>))}

RECURSIVE Values(_)
Values(o) ==
  CASE o.op = "basic" -> IF o.of = "bool" THEN {0, 1}
                         ELSE IF o.of \in {"string", "bytes"} THEN {<<>>, <<0>>, <<7, 7>>} ELSE {0, 5}
    [] o.op = "bytearray" -> [1..o.len -> {0, 3}]
    [] o.op = "bigint" -> IF o.pointer THEN {Rlp!Nil, <<0>>, <<5>>, <<-1>>} ELSE {-1, 0, 5}
    [] o.op = "raw" -> {Rlp!Str(<<>>), Rlp!List(<<Rlp!Str(<<1>>)>>)}
    [] o.op = "coder" -> {<<>>, <<9>>}
    [] o.op = "ptr" -> {Rlp!Nil} \cup {<<x>> : x \in Values(o.elem)}
    [] o.op = "slice" -> SeqsOf(Values(o.elem), 2)
    [] o.op = "struct" ->
         FoldLeft(LAMBDA some, f : {Append(s, x) : s \in some, x \in Values(f)}, {<<>>}, o.fields \o o.optional)

ValuesOf(op) == IF op.err = "none" THEN Values(op.value) ELSE {}

FieldTypes == {Ptr(Basic("uint")), Slice(Basic("uint")), Basic("raw"), Basic("uint8")}
FieldTags == {<<>>, <<"-">>, Opt, <<"nil">>, <<"tali">>, <<"nilList", "optional">>,
         <<"tali", "optional">>, <<"optional", "tali">>, <<"tail">>}
Fields == [exported : BOOLEAN, type : FieldTypes, tag : FieldTags]

-----------------------------------------------------------------------------
codecVars == <<given, msgVars, hashVars, kecVars>>

PureParts == {"texts", "padding", "numbers", "curves", "words", "rlp"}
CodecParts == PureParts \cup {"messages", "hash", "permutation"}

MCInit ==
  /\ part \in RpcParts \cup CodecParts
  /\ RpcInit /\ (part # "batch" => batch = <<"a", "b", "n">>)
  /\ given = Nothing
  /\ Msg!Init /\ (part # "messages" => input = [number |-> 0])
  /\ Hash!Init /\ (part # "hash" => outputSize = 28)
  /\ Kec!Init /\ (part # "permutation" => lanes = Scattered(1))

Choose ==
  /\ given = Nothing
  /\ \/ /\ part = "texts"
        /\ \/ GiveText({p \o d : p \in Starts, d \in SeqsOf({"0", "1", "a", "F", "g"}, 5)})
           \/ GiveNumber(-3..300 \cup {4095, 4096, 65535, 65536} \cup Ages)
     \/ /\ part = "padding"
        /\ GivePadding(SeqsOf(0..1, 4), 0..6)
     \/ /\ part = "numbers"
        /\ GiveBytes(-140..300, 0..6) \/ GivePower(-6..6, -17..17)
     \/ /\ part = "curves"
        /\ \/ \E p, q \in C31!Points : given' = [of |-> "sum", curve |-> 31, p |-> p, q |-> q]
           \/ \E p \in C31!Points, k \in 0..127 : given' = [of |-> "multiple", curve |-> 31, p |-> p, k |-> k]
           \/ \E b, c \in 0..7 : given' = [of |-> "key", curve |-> 31, bytes |-> <<b, c>>]
           \/ \E p, q \in C43!Points : given' = [of |-> "sum", curve |-> 43, p |-> p, q |-> q]
           \/ \E p \in C43!Points, k \in 0..127 : given' = [of |-> "multiple", curve |-> 43, p |-> p, k |-> k]
           \/ \E b, c \in 0..15 : given' = [of |-> "key", curve |-> 43, bytes |-> <<b, c>>]
     \/ /\ part = "words"
        /\ \/ \E m \in SeqsOf(0..5, 6) : given' = [of |-> "message", message |-> m]
           \/ \E v, w, x \in -1..3 : given' = [of |-> "words", words |-> <<v, w, x>>]
     \/ /\ part = "rlp"
        /\ \/ \E f \in SeqsOf(Fields, 2) : given' = [of |-> "struct", fields |-> f]
           \/ \E t \in RlpTypes : \E x \in ValuesOf(Rlp!makeOp(t, Rlp!NoTags)) :
               given' = [of |-> "value", type |-> t, value |-> x]
  /\ UNCHANGED <<part, rpcVars, msgVars, hashVars, kecVars>>

CodecNext ==
  \/ part \in PureParts /\ Choose
  \/ part = "messages" /\ Msg!Next /\ UNCHANGED <<part, rpcVars, given, hashVars, kecVars>>
  \/ part = "hash" /\ Hash!Next /\ UNCHANGED <<part, rpcVars, given, msgVars, kecVars>>
  \/ part = "permutation" /\ Kec!Next /\ UNCHANGED <<part, rpcVars, given, msgVars, hashVars>>

MCNext == CodecNext \/ (RpcNext /\ UNCHANGED codecVars)

MCSpec == MCInit /\ [][MCNext]_<<part, rpcVars, codecVars>> /\ RpcFairness

-----------------------------------------------------------------------------
(* crypto: the curve's addition, doubling and multiplication are those of  *)
(* a group, keys lie on the curve and survive being written; a message     *)
(* that is written as words comes back from them, if its length does.      *)
KeysSound ==
  /\ given.of = "sum" =>
       IF given.curve = 31 THEN C31!AddSound(given.p, given.q) ELSE C43!AddSound(given.p, given.q)
  /\ given.of = "multiple" =>
       IF given.curve = 31 THEN C31!ScalarSound(given.p, given.k) ELSE C43!ScalarSound(given.p, given.k)
  /\ given.of = "key" => IF given.curve = 31 THEN C31!KeysSound(given.bytes) ELSE C43!KeysSound(given.bytes)
  /\ given.of = "message" => Words!MessageKept(given.message)
  /\ given.of = "words" => Words!WordsKept(given.words[1], given.words[2], given.words[3])

(* rlp: the tags of an accepted struct do not contradict each other, and   *)
(* what a generated encoder does not refuse its decoder reads back.        *)
RlpSound ==
  /\ given.of = "struct" => Tags!TagsConsistent(given.fields)
  /\ given.of = "value" => Rlp!WrittenIsRead(given.type, given.value)

=============================================================================
