------------------------------- MODULE RlpGen -------------------------------
(***************************************************************************)
(* What rlpgen generates (rlp/rlpgen/gen.go): an op for a type, the items  *)
(* its encoder writes for a value and the value its decoder reads from     *)
(* them.  An item is a string or a list of items.  The text of the         *)
(* generated program is abstracted to what it does; the encoder buffer and *)
(* the stream it uses, of a package that is not in the repository, are     *)
(* modelled from the calls.                                                *)
(*                                                                         *)
(* A pointer's value is Nil or a sequence of one value; a struct's is the  *)
(* sequence of the values of the fields that are kept, those that are not  *)
(* optional first.                                                         *)
(***************************************************************************)
EXTENDS RlpStruct

Nil == <<>>
Str(content) == [list |-> FALSE, of |-> content]
List(items) == [list |-> TRUE, of |-> items]
Empty(nilKind) == IF nilKind = NilKindList THEN List(<<>>) ELSE Str(<<>>)

isByte(t) == t.kind = "uint8"

SliceOp(elem) == IF elem.err # "none" THEN elem ELSE Good([op |-> "slice", elem |-> elem.value])
PtrOp(elem, t, tags) ==
  IF elem.err # "none" THEN elem
  ELSE Good([op |-> "ptr", elem |-> elem.value, nilOK |-> tags.NilOK,
             nilValue |-> IF tags.NilOK THEN tags.NilKind ELSE DefaultNilValue(t.elem)])

(* makeOp.  A big.Int, a RawValue and types that encode themselves are     *)
(* named types, told apart before their underlying type is looked at: a    *)
(* coder has its methods, a ptrcoder its pointer; elem is what underlies.  *)
RECURSIVE makeOp(_, _), FieldOps(_), makeStructOp(_)
makeOp(t, tags) ==
  CASE t.kind \in {"bool", "uint8", "uint", "string"} -> Good([op |-> "basic", of |-> t.kind])
    [] t.kind = "bigint" -> Good([op |-> "bigint", pointer |-> FALSE])
    [] t.kind = "raw" -> Good([op |-> "raw"])
    [] t.kind = "struct" -> makeStructOp(t)
    [] t.kind = "coder" -> Bad("decoder with non-pointer receiver")
    [] t.kind = "ptrcoder" -> makeOp(t.elem, tags)
    [] t.kind = "slice" ->
         IF isByte(t.elem) THEN Good([op |-> "basic", of |-> "bytes"])
         ELSE SliceOp(makeOp(t.elem, NoTags))
    [] t.kind = "array" ->
         IF isByte(t.elem) THEN Good([op |-> "bytearray", len |-> t.len]) ELSE Bad("unhandled array type")
    [] t.kind = "ptr" ->
         IF t.elem.kind = "bigint" THEN Good([op |-> "bigint", pointer |-> TRUE])
         ELSE IF t.elem.kind \in {"coder", "ptrcoder"} THEN Good([op |-> "coder"])
         ELSE IF t.elem.kind \in {"encoder", "decoder"} THEN Bad("only one of the two")
         ELSE PtrOp(makeOp(t.elem, NoTags), t, tags)
    [] OTHER -> Bad("unhandled type")

StructOp(fields, ops) ==
  LET Members(optional) ==
        LET ks == SelectSeq([k \in DOMAIN fields |-> k], LAMBDA k : fields[k].tags.Optional = optional)
        IN [i \in DOMAIN ks |-> ops[ks[i]].value]
  IN IF \E k \in DOMAIN fields : fields[k].tags.Tail \/ ops[k].err # "none" THEN Bad("field")
     ELSE Good([op |-> "struct", fields |-> Members(FALSE), optional |-> Members(TRUE)])

FieldOps(kept) ==
  IF kept.err # "none" THEN kept
  ELSE StructOp(kept.value,
                [k \in DOMAIN kept.value |-> makeOp(kept.value[k].field.type, kept.value[k].tags)])

makeStructOp(t) == FieldOps(ProcessFields(t.fields))

-----------------------------------------------------------------------------
(* The generated encoder.  A Boolean is 0 or 1; zero is the empty string.  *)
(* It returns at the first negative big.Int, with nothing flushed.         *)
AllGood(got) ==
  LET bad == {i \in DOMAIN got : got[i].err # "none"} IN
    IF bad # {} THEN got[CHOOSE i \in bad : \A j \in bad : i <= j] ELSE Good([i \in DOMAIN got |-> got[i].value])
ListOf(got) == LET all == AllGood(got) IN IF all.err = "none" THEN Good(List(all.value)) ELSE all
NumberItem(v) == Str(IF v = 0 THEN <<>> ELSE <<v>>)

(* nonZeroCheck: a pointer is not zero when it is not nil, a struct when   *)
(* one of its fields is not.                                               *)
RECURSIVE NonZero(_, _)
NonZero(o, v) ==
  CASE o.op \in {"ptr", "slice", "coder"} -> v # Nil
    [] o.op = "bigint" -> v # Nil
    [] o.op = "basic" -> IF o.of \in {"string", "bytes"} THEN v # <<>> ELSE v # 0
    [] o.op = "bytearray" -> \E i \in DOMAIN v : v[i] # 0
    [] o.op = "struct" -> \E i \in DOMAIN v : NonZero((o.fields \o o.optional)[i], v[i])

(* Mutant: an optional field is written if it is not zero itself.          *)
OptionalAlone(o, v) ==
  {i \in DOMAIN o.optional : NonZero(o.optional[i], v[Len(o.fields) + i])}

(* The optional fields up to the last that is not zero.                    *)
OptionalWritten(o, v) ==
  {i \in DOMAIN o.optional : \E j \in DOMAIN o.optional :
     i <= j /\ NonZero(o.optional[j], v[Len(o.fields) + j])}

BigIntItem(v) == IF v < 0 THEN Bad("negative big.Int") ELSE Good(NumberItem(v))

RECURSIVE Encode(_, _)
Encode(o, v) ==
  CASE o.op = "basic" -> Good(IF o.of \in {"string", "bytes"} THEN Str(v) ELSE NumberItem(v))
    [] o.op \in {"bytearray", "coder"} -> Good(Str(v))
    [] o.op = "raw" -> Good(v)
    [] o.op = "bigint" ->
         IF ~o.pointer THEN BigIntItem(v) ELSE IF v = Nil THEN Good(Str(<<>>)) ELSE BigIntItem(v[1])
    [] o.op = "ptr" -> IF v = Nil THEN Good(Empty(o.nilValue)) ELSE Encode(o.elem, v[1])
    [] o.op = "slice" -> ListOf([i \in DOMAIN v |-> Encode(o.elem, v[i])])
    [] o.op = "struct" ->
         LET n == Len(o.fields)
             optional == SetToSortSeq(OptionalWritten(o, v), <)
         IN ListOf([i \in 1..n |-> Encode(o.fields[i], v[i])]
                     \o [k \in DOMAIN optional |-> Encode(o.optional[optional[k]], v[n + optional[k]])])

-----------------------------------------------------------------------------
(* The generated decoder: from the items that are left in the list, a      *)
(* value and what is left then.                                            *)
RECURSIVE Zero(_)
Zero(o) ==
  CASE o.op = "basic" -> IF o.of \in {"string", "bytes"} THEN <<>> ELSE 0
    [] o.op \in {"ptr", "slice", "coder"} -> Nil
    [] o.op = "bigint" -> IF o.pointer THEN Nil ELSE 0
    [] o.op = "bytearray" -> [i \in 1..o.len |-> 0]
    [] o.op = "struct" -> [i \in 1..(Len(o.fields) + Len(o.optional)) |-> Zero((o.fields \o o.optional)[i])]

(* The stream's methods: a number has no leading zero.                     *)
ReadNumber(s) == IF s = <<>> THEN Good(0) ELSE IF Len(s) > 1 \/ s[1] = 0 THEN Bad("number") ELSE Good(s[1])

Wrap(r) == IF r.err = "none" THEN Good(<<r.value>>) ELSE r

RECURSIVE Read(_, _), ReadFields(_, _)
Read(o, item) ==
  CASE o.op = "raw" -> Good(item)
    [] o.op = "ptr" ->
         IF o.nilOK /\ item = Empty(o.nilValue) THEN Good(Nil) ELSE Wrap(Read(o.elem, item))
    [] o.op \in {"slice", "struct"} /\ ~item.list -> Bad("expected list")
    [] o.op \in {"basic", "bigint", "bytearray", "coder"} /\ item.list -> Bad("expected string")
    [] o.op \in {"basic", "coder"} ->
         IF o.op = "coder" THEN Good(item.of)
         ELSE IF o.of \in {"string", "bytes"} THEN Good(item.of) ELSE ReadNumber(item.of)
    [] o.op = "bigint" -> IF o.pointer THEN Wrap(ReadNumber(item.of)) ELSE ReadNumber(item.of)
    [] o.op = "bytearray" -> IF Len(item.of) # o.len THEN Bad("size") ELSE Good(item.of)
    [] o.op = "slice" ->
         AllGood([i \in DOMAIN item.of |-> Read(o.elem, item.of[i])])
    [] o.op = "struct" -> ReadFields(o, item.of)

(* Optional fields are read while the list has more; what is left after    *)
(* the last field is an error.                                             *)
ReadFields(o, items) ==
  LET all == o.fields \o o.optional IN
    IF Len(items) < Len(o.fields) THEN Bad("too few elements")
    ELSE IF Len(items) > Len(all) THEN Bad("too many elements")
    ELSE AllGood([i \in 1..Len(all) |->
                    IF i <= Len(items) THEN Read(all[i], items[i]) ELSE Good(Zero(all[i]))])

-----------------------------------------------------------------------------
(* Whether a value has a nil pointer that is not allowed to be nil, or a   *)
(* negative number, and whether the type has pointers at all.              *)
RECURSIVE BareNil(_, _), Negative(_, _), Pointers(_)
BareNil(o, v) ==
  CASE o.op = "ptr" -> IF v = Nil THEN ~o.nilOK ELSE BareNil(o.elem, v[1])
    [] o.op = "slice" -> \E i \in DOMAIN v : BareNil(o.elem, v[i])
    [] o.op = "struct" -> \E i \in DOMAIN v : BareNil((o.fields \o o.optional)[i], v[i])
    [] OTHER -> FALSE
Negative(o, v) ==
  CASE o.op = "bigint" -> IF o.pointer THEN v # Nil /\ v[1] < 0 ELSE v < 0
    [] o.op = "ptr" -> v # Nil /\ Negative(o.elem, v[1])
    [] o.op = "slice" -> \E i \in DOMAIN v : Negative(o.elem, v[i])
    [] o.op = "struct" -> \E i \in DOMAIN v : Negative((o.fields \o o.optional)[i], v[i])
    [] OTHER -> FALSE
Pointers(o) ==
  CASE o.op = "ptr" -> TRUE
    [] o.op = "bigint" -> o.pointer
    [] o.op = "slice" -> Pointers(o.elem)
    [] o.op = "struct" -> \E i \in DOMAIN (o.fields \o o.optional) : Pointers((o.fields \o o.optional)[i])
    [] OTHER -> FALSE

(* A generated encoder refuses the values with a negative big.Int, an      *)
(* optional field's too, and no other.  What it writes, the generated      *)
(* decoder reads: the same value without pointers, and otherwise one that  *)
(* no further writing and reading changes: a nil pointer may come back as  *)
(* a pointer to zero, or the other way round.  It fails only over a nil    *)
(* pointer whose field has no nil tag: what is written for it may be no    *)
(* value of its type.                                                      *)
ReadBack(o, v, got) ==
  /\ got.err # "none" => BareNil(o, v)
  /\ got.err = "none" => Read(o, Encode(o, got.value).value) = got
  /\ ~Pointers(o) => got = Good(v)

WrittenIsReadBy(o, v) ==
  LET written == Encode(o, v) IN
    /\ written.err # "none" <=> Negative(o, v)
    /\ written.err = "none" => ReadBack(o, v, Read(o, written.value))

WrittenIsRead(t, v) ==
  LET op == makeOp(t, NoTags) IN op.err = "none" => WrittenIsReadBy(op.value, v)

=============================================================================
