------------------------------- MODULE Decoder -------------------------------
(***************************************************************************)
(* Reflective decoding (lib.rs): a program holds a RootSchema and a reader *)
(* over the input, and calls Decoder::fields, EnumDecoder::decode_variant, *)
(* VariantDecoder::fields, Fields::next and FieldDef::parse in any order,  *)
(* dropping decoders and iterators where it likes.                         *)
(*                                                                         *)
(* A decoder or iterator owns its reader.  The program gives it either     *)
(* &mut reader (byRef), which moves the program's own reader, or, when the *)
(* reader is a slice, a copy, which leaves it where it is.                 *)
(***************************************************************************)
EXTENDS Ty

CONSTANTS
  Roots,   \* the schemas the program may hold
  Inputs   \* the byte sequences it may be given

OptionUsize == {<<>>} \cup {<<n>> : n \in Usize}

\* The sizes are for the program to read; decoding never consults them.
FieldDef   == [ty : DynTy, size : OptionUsize]
Schema     == [fields : Seq(FieldDef), size : OptionUsize]
RootSchema ==
       [k : {"Struct"}, variants : Seq(Schema)]
  \cup [k : {"Enum"}, variants : Seq(Schema), size : OptionUsize, tag : PrimitiveTy]

\* A struct root keeps its one Schema where an enum keeps its variants.
ASSUME DecoderAssumption ==
  /\ Roots \subseteq RootSchema
  /\ \A root \in Roots : root.k = "Struct" => Len(root.variants) = 1
  /\ \A root \in Roots : Len(root.variants) \in Usize  \* as of every Vec
  /\ Inputs \subseteq Seq(Byte)
  /\ \A input \in Inputs : Len(input) \in Usize  \* as of every slice

VARIABLES
  root,   \* the RootSchema
  reader, \* the program's reader
  handle, \* the VariantDecoder or Fields that is alive, if any
  items   \* what the latest iterator has yielded, oldest first

vars == <<root, reader, handle, items>>

NoHandle == [k |-> "None"]

(***************************************************************************)
(* variant: index of the Schema, from 1.  next: index of the field that    *)
(* Fields::next takes next.  own: the position of a reader held by value.  *)
(* start, first: where the tag and the fields begin (history).             *)
(***************************************************************************)
Handle ==
  [k : {"Variant", "Fields"}, variant : Nat, next : Nat, byRef : BOOLEAN,
   own : Nat, start : Nat, first : Nat]

Live == handle.k # "None"

\* The reader a live handle reads from.
HandleReader == IF handle.byRef THEN reader ELSE At(reader, handle.own)

Defs == root.variants[handle.variant].fields

\* Fields::len.
Remaining == Len(Defs) + 1 - handle.next

(***************************************************************************)
(* Opening.  The Schema a reader is positioned at: for a struct, without   *)
(* reading; for an enum, the variant its tag names.                        *)
(***************************************************************************)
\* Mutants: one tag too many is taken; and a tag is consumed only when it is taken.
ReadVariant_OffByOne(r) ==
  LET disc == ParseIntoUsize(root.tag, r)
  IN  IF disc.ok /\ disc.val > Len(root.variants)
      THEN Err("InvalidTagEncoding", r, {disc.pos})
      ELSE disc

ReadVariant_Peeked(r) ==
  LET disc == ParseIntoUsize(root.tag, r)
  IN  IF disc.ok /\ disc.val >= Len(root.variants)
      THEN Err("InvalidTagEncoding", r, {r.pos})
      ELSE disc

ReadVariant(r) ==
  LET disc == ParseIntoUsize(root.tag, r)
  IN  IF disc.ok /\ disc.val >= Len(root.variants)
      THEN Err("InvalidTagEncoding", r, {disc.pos})
      ELSE disc

SelectSchema(r) == IF root.k = "Struct" THEN Ok(0, r.pos) ELSE ReadVariant(r)

\* A failed tag leaves no handle, but a reader lent by reference has moved.
Open(k, byRef) ==
  LET o == SelectSchema(reader)
  IN  /\ ~Live
      /\ byRef \/ reader.borrows
      /\ \E p \in o.left : reader' = IF byRef THEN At(reader, p) ELSE reader
      /\ handle' = IF o.ok
                   THEN [k |-> k, variant |-> o.val + 1, next |-> 1, byRef |-> byRef,
                         own |-> o.pos, start |-> reader.pos, first |-> o.pos]
                   ELSE NoHandle
      /\ items' = <<>>
      /\ UNCHANGED root

\* EnumDecoder::decode_variant.
DecodeVariant(byRef) == root.k = "Enum" /\ Open("Variant", byRef)

\* Decoder::fields, SchemaDecoder::fields.
DecoderFields(byRef) == Open("Fields", byRef)

\* VariantDecoder::fields (and into_iter): Schema::fields on the retained reader.
VariantFields ==
  /\ handle.k = "Variant"
  /\ handle' = [handle EXCEPT !.k = "Fields"]
  /\ UNCHANGED <<root, reader, items>>

(***************************************************************************)
(* Fields::next.  The definition is taken from the slice iterator before   *)
(* its value is parsed, so that a field that fails is passed all the same. *)
(* Once all are taken, next returns None and changes nothing.              *)
(***************************************************************************)
\* Mutants: each field is parsed from a copy of the owned reader (it would have to
\* be Copy) instead of from the reader itself; and a program that means to pass a
\* copy lends its own reader.
MoveHandle_Copied(h, r, p) ==
  IF h.byRef THEN reader' = At(r, p) /\ handle' = h
             ELSE handle' = h /\ UNCHANGED reader

MoveHandle_Shared(h, r, p) == reader' = At(r, p) /\ handle' = [h EXCEPT !.own = p]

MoveHandle(h, r, p) ==
  IF h.byRef THEN reader' = At(r, p) /\ handle' = h
             ELSE handle' = [h EXCEPT !.own = p] /\ UNCHANGED reader

\* Mutant: a field that fails is tried again.
FieldsNext_Retried ==
  LET r   == HandleReader
      def == Defs[handle.next]
      o   == Parse(def.ty, r)
  IN  /\ handle.k = "Fields"
      /\ Remaining > 0
      /\ \E p \in o.left :
           /\ MoveHandle([handle EXCEPT !.next = IF o.ok THEN @ + 1 ELSE @], reader, p)
           /\ items' = IF o.ok THEN Append(items, [def |-> def, ok |-> o.ok, val |-> o.val,
                                                   from |-> r.pos, to |-> p])
                      ELSE items
      /\ UNCHANGED root

FieldsNext ==
  LET r   == HandleReader
      def == Defs[handle.next]
      o   == Parse(def.ty, r)
  IN  /\ handle.k = "Fields"
      /\ Remaining > 0
      /\ \E p \in o.left :
           /\ MoveHandle([handle EXCEPT !.next = @ + 1], reader, p)
           /\ items' = Append(items, [def |-> def, ok |-> o.ok, val |-> o.val,
                                      from |-> r.pos, to |-> p])
      /\ UNCHANGED root

\* The decoder or iterator is dropped; the values it has yielded live on.
Drop ==
  /\ Live
  /\ handle' = NoHandle
  /\ UNCHANGED <<root, reader, items>>

\* FieldDef::parse (and Ty::parse) on the program's own reader, which it can
\* use unless it is lent to a handle.
ParseField(def) ==
  /\ Live => ~handle.byRef
  /\ \E p \in Parse(def.ty, reader).left : reader' = At(reader, p)
  /\ UNCHANGED <<root, handle, items>>

(***************************************************************************)
(* The specification.                                                      *)
(***************************************************************************)
Init ==
  /\ root \in Roots
  /\ reader \in [buf : Inputs, pos : {0}, borrows : BOOLEAN]
  /\ handle = NoHandle
  /\ items = <<>>

Next ==
  \/ \E byRef \in BOOLEAN : DecodeVariant(byRef)
  \/ \E byRef \in BOOLEAN : DecoderFields(byRef)
  \/ VariantFields
  \/ FieldsNext
  \/ Drop
  \/ \E v \in DOMAIN root.variants : \E i \in DOMAIN root.variants[v].fields :
       ParseField(root.variants[v].fields[i])

Spec == Init /\ [][Next]_vars

\* A program that iterates (for field in fields) calls next until it gets None
\* or leaves the loop.
FairSpec == Spec /\ WF_vars(FieldsNext)

-----------------------------------------------------------------------------
(***************************************************************************)
(* Properties.                                                             *)
(***************************************************************************)
Item ==
       [def : FieldDef, ok : {TRUE}, val : Value, from : Nat, to : Nat]
  \cup [def : FieldDef, ok : {FALSE}, val : ReadError, from : Nat, to : Nat]

\* The type invariant: positions stay inside the input, and a handle names a
\* schema of the root and a field of it or the place after its last one.
TypeOK ==
  /\ root \in Roots
  /\ reader \in [buf : Inputs, pos : Nat, borrows : BOOLEAN]
  /\ reader.pos <= Len(reader.buf)
  /\ Live => /\ handle \in Handle
             /\ handle.variant \in DOMAIN root.variants
             /\ handle.next \in 1 .. Len(Defs) + 1
             /\ handle.first <= handle.own /\ handle.own <= Len(reader.buf)
             /\ ~handle.byRef => reader.borrows
  /\ items \in Seq(Item)
  /\ \A i \in DOMAIN items : items[i].to \in items[i].from .. Len(reader.buf)

\* The items the live iterator has yielded are those of the first fields of its
\* schema, and they tile the input: the first begins right after the tag, each
\* where its predecessor ended, failed or not, and the reader is where the
\* last one ended (Fields::next hands the one reader on, lib.rs:72).
Contiguous ==
  handle.k = "Fields" =>
    LET end(i) == IF i = 0 THEN handle.first ELSE items[i].to
    IN  /\ Len(items) = handle.next - 1
        /\ \A i \in DOMAIN items : items[i].from = end(i - 1) /\ items[i].def = Defs[i]
        /\ HandleReader.pos = end(Len(items))

\* What is decoded is what was encoded: a decoded value is one its type can
\* have, serializing it gives back the bytes that decoding it consumed, and a
\* selected variant serializes to the tag bytes that selected it.
Reencodes ==
  /\ \A i \in DOMAIN items :
       LET it == items[i]
       IN  it.ok => /\ it.val.k = "Primitive" => InRange(it.val.ty, it.val.n)
                    /\ Encode(it.def.ty, it.val) = SubSeq(reader.buf, it.from + 1, it.to)
  /\ Live =>
       SubSeq(reader.buf, handle.start + 1, handle.first) =
         IF root.k = "Enum" THEN LittleEndian(handle.variant - 1, PrimitiveSize(root.tag)) ELSE <<>>

\* A field fails only on input that does not begin with an encoding of its type,
\* or, read from a reader that has to copy, with one above the allocation
\* limit: no well-formed field is ever refused.
RejectsOnlyMalformed ==
  \A i \in DOMAIN items :
    LET it       == items[i]
        bytes(n) == SubSeq(reader.buf, it.from + 1, it.from + n)
        prefix   == IF it.def.ty.k \in {"String", "Vec"} THEN LenWidth ELSE 0
    IN  ~it.ok => \A n \in 0 .. Len(reader.buf) - it.from :
                    IsEncoding(it.def.ty, bytes(n)) =>
                      ~reader.borrows /\ n - prefix > PreallocLimit

\* A field whose encoding is cut short, anywhere, is refused (the test
\* arbitrary_truncated_struct_is_rejected, lib.rs:1728, for every type and cut).
TruncationRejected ==
  \A i \in DOMAIN items :
    LET it == items[i]
    IN  it.ok => \A n \in it.from .. it.to - 1 :
                   ~Parse(it.def.ty, [buf |-> SubSeq(reader.buf, 1, n), pos |-> it.from,
                                      borrows |-> reader.borrows]).ok

\* Whether the reader can lend its bytes decides who owns the payload and
\* nothing else, except that a payload above the limit is not copied: the
\* limit never applies to borrowed data (ty.rs:18).
BorrowTransparent ==
  \A i \in DOMAIN items :
    LET it     == items[i]
        lent   == Parse(it.def.ty, [buf |-> reader.buf, pos |-> it.from, borrows |-> TRUE])
        copied == Parse(it.def.ty, [buf |-> reader.buf, pos |-> it.from, borrows |-> FALSE])
    IN  /\ lent.ok /\ copied.ok => Plain(copied.val) = lent.val /\ copied.pos = lent.pos
        /\ ~lent.ok => lent.val # "PreallocationSizeLimit"
        /\ lent.ok /\ ~copied.ok => /\ copied.val = "PreallocationSizeLimit"
                                    /\ ValueSize(lent.val) > PreallocLimit
        /\ copied.ok => lent.ok

\* Input never makes the decoder allocate more than the preallocation limit.
OwnedBounded ==
  \A i \in DOMAIN items :
    LET it == items[i]
    IN  it.ok /\ it.val.k # "Primitive" /\ it.val.owned => Len(it.val.raw) <= PreallocLimit

\* The invariant LazyVec's unsafe iterators rest on, value.rs:147: its payload
\* has exactly len elements, also when len times the width overflows a usize.
LazyPayload ==
  \A i \in DOMAIN items :
    LET it == items[i]
    IN  it.ok /\ it.val.k = "Vec" =>
          Len(it.val.raw) = it.val.len * PrimitiveSize(it.val.ty)

\* The three sizes agree with what is consumed: a fixed Ty::size is the whole
\* encoding, and Value::size is the encoding without the length prefix that a
\* type without a fixed size has.
StaticWidth ==
  \A i \in DOMAIN items :
    LET it   == items[i]
        size == TySize(it.def.ty)
    IN  it.ok => /\ size # <<>> => ValueSize(it.val) = size[1]
                 /\ it.to - it.from =
                      ValueSize(it.val) + IF size = <<>> THEN LenWidth ELSE 0

\* A type that says how wide its encoding is can be parsed from that many
\* bytes: nothing but their content, or the limit on copies, can be wrong (ty.rs:193,
\* "the complete serialized size of this type when it is fixed").
SizeIsComplete ==
  \A i \in DOMAIN items :
    LET it   == items[i]
        size == TySize(it.def.ty)
    IN  size # <<>> /\ ~it.ok /\ it.from + size[1] <= Len(reader.buf) =>
          it.val \in {"InvalidBoolEncoding", "PreallocationSizeLimit"}

\* An enum is opened exactly if the input goes on with the index of one of its
\* variants, as wincode writes it in the tag's type, and then as that variant: no other
\* number, negative, too wide or past the last, is taken for an index, and none is
\* refused.  A tag that is refused has been passed, as a field that fails is
\* (decode_variant, lib.rs:551): a reader that was lent is right behind it.
TagStep ==
  [][root.k = "Enum" /\ root.tag \notin {"F32", "F64", "Bool"} =>
       LET end   == reader.pos + PrimitiveSize(root.tag)
           whole == end <= Len(reader.buf)
           named == {v \in DOMAIN root.variants :
                       /\ whole /\ InRange(root.tag, v - 1)
                       /\ SubSeq(reader.buf, reader.pos + 1, end) =
                            LittleEndian(v - 1, PrimitiveSize(root.tag))}
       IN  \A byRef \in BOOLEAN : DecodeVariant(byRef) \/ DecoderFields(byRef) =>
             /\ named = IF Live' THEN {handle'.variant} ELSE {}
             /\ byRef /\ whole => reader' = At(reader, end)]_vars

\* Iterating over the fields ends, however many of them fail: a loop over the
\* iterator is left or gets to the None after the last field.
FieldsEnd == handle.k = "Fields" ~> (~Live \/ Remaining = 0)
=============================================================================
