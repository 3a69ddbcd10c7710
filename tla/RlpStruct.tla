----------------------------- MODULE RlpStruct -----------------------------
(***************************************************************************)
(* Which fields of a struct are encoded, and how their tags rule it        *)
(* (rlp/internal/rlpstruct).  A field is its name, its type, whether it is *)
(* exported and its tag, split at the commas; a type is its kind, with the *)
(* element type of pointers, slices and arrays.                            *)
(***************************************************************************)
EXTENDS Integers, Sequences, SequencesExt

NilKindString == 128
NilKindList == 192

NoTags == [NilOK |-> FALSE, NilKind |-> 0, Optional |-> FALSE, Tail |-> FALSE, Ignored |-> FALSE]
Good(value) == [err |-> "none", value |-> value]
Bad(e) == [err |-> e]

(* A RawValue is a slice of bytes with a name.                             *)
Kind(t) == IF t.kind = "raw" THEN "slice" ELSE t.kind
isByteArray(t) == t.kind = "raw" \/ (t.kind \in {"slice", "array"} /\ t.elem.kind = "uint8")
DefaultNilValue(t) ==
  IF t.kind \in {"uint8", "uint", "string", "bool"} \/ isByteArray(t) THEN NilKindString ELSE NilKindList

(* The index of the last exported field, ignored or not; 0 without one.    *)
lastPublicField(fields) ==
  LET public == {i \in DOMAIN fields : fields[i].exported} IN
    IF public = {} THEN 0 ELSE CHOOSE i \in public : \A j \in public : j <= i

TagOptional(r, field, isLast, t) ==
  IF r.Tail THEN Bad("also has tail") ELSE Good([r EXCEPT !.Optional = TRUE])

(* "tali" is how the code spells it; "tail" is an unknown tag.             *)
TagTail(r, field, isLast, t) ==
  IF ~isLast THEN Bad("must be on last field")
  ELSE IF r.Optional THEN Bad("also has optional")
  ELSE IF Kind(field.type) # "slice" THEN Bad("not a slice")
  ELSE Good([r EXCEPT !.Tail = TRUE])

(* "nil" asks the pointer type for its own default, not its element's.     *)
TagNil(r, field, isLast, t) ==
  IF field.type.kind # "ptr" THEN Bad("not a pointer")
  ELSE Good([r EXCEPT !.NilOK = TRUE,
                      !.NilKind = IF t = "nilString" THEN NilKindString
                                  ELSE IF t = "nilList" THEN NilKindList
                                  ELSE DefaultNilValue(field.type)])

ParseTag(r, field, isLast, t) ==
  CASE t = "" -> Good(r)
    [] t = "-" -> Good([r EXCEPT !.Ignored = TRUE])
    [] t \in {"nil", "nilString", "nilList"} -> TagNil(r, field, isLast, t)
    [] t = "optional" -> TagOptional(r, field, isLast, t)
    [] t = "tali" -> TagTail(r, field, isLast, t)
    [] OTHER -> Bad("unknown tag")

parseTag(field, isLast) ==
  FoldLeft(LAMBDA r, t : IF r.err # "none" THEN r ELSE ParseTag(r.value, field, isLast, t),
           Good(NoTags), field.tag)

(* The kept fields, each with its tags.  The test that a field is optional *)
(* after an optional one is negated: what it refuses is a field that is    *)
(* not optional and comes before any that is.                              *)
May(tags) == tags.Optional \/ tags.Tail

InOrder(kept) ==
  IF \E k \in DOMAIN kept : ~May(kept[k].tags) /\ \A j \in 1..(k - 1) : ~May(kept[j].tags)
  THEN Bad("must be optional") ELSE Good(kept)

Kept(fields, tags) ==
  LET bad == {i \in DOMAIN fields : fields[i].exported /\ tags[i].err # "none"}
      kept == FoldLeft(LAMBDA k, i : IF fields[i].exported /\ ~tags[i].value.Ignored THEN Append(k, i) ELSE k,
                       <<>>, [i \in DOMAIN fields |-> i])
  IN IF bad # {} THEN tags[CHOOSE i \in bad : \A j \in bad : i <= j]
     ELSE InOrder([k \in DOMAIN kept |-> [field |-> fields[kept[k]], tags |-> tags[kept[k]].value]])

ProcessFields(fields) ==
  LET last == lastPublicField(fields) IN
    Kept(fields, [i \in DOMAIN fields |-> parseTag(fields[i], i = last)])

-----------------------------------------------------------------------------
(* Whatever order the tags are written in, an accepted struct has no field *)
(* that is both optional and tail, nil only on pointers, tail only on a    *)
(* slice that is the last field, and its exported fields in their order.   *)
FieldsConsistent(kept, fields) ==
  /\ \A k \in DOMAIN kept :
       LET f == kept[k].field
           t == kept[k].tags
       IN /\ f.exported /\ ~t.Ignored /\ ~(t.Optional /\ t.Tail)
          /\ t.NilOK <=> \E i \in DOMAIN f.tag : f.tag[i] \in {"nil", "nilString", "nilList"}
          /\ t.NilOK => f.type.kind = "ptr"
          /\ t.Tail => k = Len(kept) /\ Kind(f.type) = "slice"
  /\ \A j, k \in DOMAIN kept : j < k =>
       \E x, y \in DOMAIN fields : x < y /\ fields[x] = kept[j].field /\ fields[y] = kept[k].field

Consistent(got, fields) == got.err = "none" => FieldsConsistent(got.value, fields)

TagsConsistent(fields) == Consistent(ProcessFields(fields), fields)

(* What the comments of Tags and ProcessFields say: when a field is        *)
(* optional all later ones must be, and that is all that is asked.         *)
OptionalsLast(fields) ==
  ProcessFields(fields).err = "none" <=>
    \A j, k \in DOMAIN fields : j < k /\ fields[j].tag = <<"optional">> => fields[k].tag = <<"optional">>

(* What the comment of Tags says: there is a tag tail, for a slice that is *)
(* the last field.                                                         *)
TailAccepted(field) ==
  Kind(field.type) = "slice" => parseTag([field EXCEPT !.tag = <<"tail">>], TRUE).err = "none"

(* What testdata/nil.out.txt has for a pointer with the tag nil: the empty *)
(* value of the type it points to.                                         *)
NilOfElement(field) ==
  field.type.kind = "ptr" =>
    parseTag([field EXCEPT !.tag = <<"nil">>], TRUE).value.NilKind = DefaultNilValue(field.type.elem)

=============================================================================
