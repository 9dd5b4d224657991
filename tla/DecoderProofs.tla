---------------------------- MODULE DecoderProofs ----------------------------
(***************************************************************************)
(* Type correctness and safety of Decoder, for every set of schemas and    *)
(* inputs.  The inductive invariant adds to TypeOK that what was decoded   *)
(* is Readable, which ParseResult gives for each new item, and where the   *)
(* reader of a decoder is, which Contiguous needs.                         *)
(***************************************************************************)
EXTENDS Decoder, TyProofs

ItemsReadable == \A i \in DOMAIN items : items[i].ok => items[i].val \in Readable

\* A decoder that has read its tag still has its reader right after it: without
\* this Contiguous is not inductive.
AtFields ==
  handle.k = "Variant" => items = <<>> /\ handle.next = 1 /\ HandleReader.pos = handle.first

Inv == TypeOK /\ ItemsReadable /\ AtFields /\ Contiguous

-----------------------------------------------------------------------------
LEMMA RootParts ==
  ASSUME root \in RootSchema
  PROVE  /\ root.variants \in Seq(Schema) /\ root.k \in {"Struct", "Enum"}
         /\ root.k = "Enum" => root.tag \in PrimitiveTy
BY DEF RootSchema

LEMMA RootType ==
  ASSUME TypeOK
  PROVE  /\ root \in RootSchema
         /\ root.variants \in Seq(Schema)
         /\ root.k \in {"Struct", "Enum"}
         /\ root.k = "Struct" => Len(root.variants) = 1
         /\ root.k = "Enum" => root.tag \in PrimitiveTy
<1>1. root \in Roots
  BY DEF TypeOK
<1> QED
  BY <1>1, DecoderAssumption, RootParts

LEMMA DefsType ==
  ASSUME TypeOK, Live
  PROVE  Defs \in Seq(FieldDef)
<1>1. root.variants[handle.variant] \in Schema
  BY RootType, ElementOfSeq DEF TypeOK
<1> QED
  BY <1>1 DEF Defs, Schema

\* The readers that a step reads from are inside the input.
LEMMA ReadersPlaced ==
  ASSUME TypeOK
  PROVE  /\ Placed(reader)
         /\ reader.pos \in Nat /\ Len(reader.buf) \in Nat
         /\ Live => /\ Placed(HandleReader)
                    /\ HandleReader.buf = reader.buf
                    /\ HandleReader.borrows = reader.borrows
                    /\ HandleReader.pos = IF handle.byRef THEN reader.pos ELSE handle.own
<1>1. Placed(reader) /\ reader.pos \in Nat /\ Len(reader.buf) \in Nat
  BY DecoderAssumption DEF TypeOK, Placed, Reader
<1>2. ASSUME Live PROVE /\ Placed(HandleReader)
                        /\ HandleReader.buf = reader.buf
                        /\ HandleReader.borrows = reader.borrows
                        /\ HandleReader.pos = IF handle.byRef THEN reader.pos ELSE handle.own
  BY <1>1, <1>2 DEF TypeOK, Handle, HandleReader, At, Placed, Reader
<1> QED
  BY <1>1, <1>2

LEMMA SelectResult ==
  ASSUME root \in RootSchema, root.k = "Struct" => Len(root.variants) = 1, Placed(reader)
  PROVE  Outcome(SelectSchema(reader), reader, 0 .. Len(root.variants) - 1)
<1> DEFINE S == 0 .. Len(root.variants) - 1
<1>1. Placed(reader) /\ reader.pos \in Nat /\ Len(reader.buf) \in Nat /\ reader.pos <= Len(reader.buf)
  BY DEF Placed, Reader
<1>2. Len(root.variants) \in Nat
  BY RootParts
<1>3. CASE root.k = "Struct"
  <2>1. Len(root.variants) = 1
    BY <1>3
  <2>2. SelectSchema(reader) = Ok(0, reader.pos)
    BY <1>3 DEF SelectSchema
  <2>3. 0 \in S
    BY <2>1
  <2> QED
    BY <1>1, <2>2, <2>3, OkResult
<1>4. CASE root.k = "Enum"
  <2> DEFINE d == ParseIntoUsize(root.tag, reader)
             e == Err("InvalidTagEncoding", reader, {d.pos})
  <2>1. Outcome(d, reader, Usize)
    BY <1>1, <1>4, RootParts, ParseIntoUsizeResult
  <2>2. SelectSchema(reader) = IF d.ok /\ d.val >= Len(root.variants) THEN e ELSE d
    BY <1>4 DEF SelectSchema, ReadVariant
  <2> HIDE DEF d
  <2>3. CASE d.ok /\ d.val >= Len(root.variants)
    BY <1>1, <2>1, <2>2, <2>3 DEF Outcome, Err, ReadError
  <2>4. CASE d.ok /\ ~(d.val >= Len(root.variants))
    <3>1. d.val \in S
      BY <1>2, <2>1, <2>4, WincodeAssumption DEF Outcome, Usize
    <3> QED
      BY <2>1, <2>2, <2>4, <3>1 DEF Outcome
  <2>5. CASE ~d.ok
    BY <2>1, <2>2, <2>5, FailedResult
  <2> QED
    BY <2>3, <2>4, <2>5
<1> QED
  BY <1>3, <1>4, RootParts

\* What an At keeps and changes.
LEMMA ReaderAt ==
  ASSUME TypeOK, NEW p \in reader.pos .. Len(reader.buf)
  PROVE  /\ At(reader, p) \in [buf : Inputs, pos : Nat, borrows : BOOLEAN]
         /\ At(reader, p).pos = p
         /\ At(reader, p).buf = reader.buf
         /\ At(reader, p).borrows = reader.borrows
BY ReadersPlaced DEF TypeOK, At

-----------------------------------------------------------------------------
(***************************************************************************)
(* The invariant.                                                          *)
(***************************************************************************)
LEMMA InitInv == Init => Inv
<1> SUFFICES ASSUME Init PROVE Inv
  OBVIOUS
<1>1. root \in Roots /\ handle = NoHandle /\ ~Live /\ items = <<>>
  BY DEF Init, Live, NoHandle
<1>2. reader \in [buf : Inputs, pos : Nat, borrows : BOOLEAN] /\ reader.pos = 0
  BY DEF Init
<1>3. Len(reader.buf) \in Nat
  BY <1>2, DecoderAssumption
<1>4. items \in Seq(Item) /\ DOMAIN items = {}
  BY <1>1
<1>5. TypeOK
  BY <1>1, <1>2, <1>3, <1>4 DEF TypeOK
<1> QED
  BY <1>1, <1>4, <1>5 DEF Inv, ItemsReadable, AtFields, Contiguous, NoHandle

\* Opening a decoder or an iterator.
LEMMA OpenInv ==
  ASSUME Inv, NEW k \in {"Variant", "Fields"}, NEW byRef \in BOOLEAN, Open(k, byRef)
  PROVE  Inv'
<1> DEFINE o == SelectSchema(reader)
           h == [k |-> k, variant |-> o.val + 1, next |-> 1, byRef |-> byRef,
                 own |-> o.pos, start |-> reader.pos, first |-> o.pos]
<1>1. TypeOK
  BY DEF Inv
<1>2. Outcome(o, reader, 0 .. Len(root.variants) - 1)
  BY <1>1, RootType, ReadersPlaced, SelectResult
<1>3. PICK p \in o.left : reader' = IF byRef THEN At(reader, p) ELSE reader
  BY DEF Open
<1>4. /\ byRef \/ reader.borrows
      /\ handle' = IF o.ok THEN h ELSE NoHandle
      /\ items' = <<>>
      /\ root' = root
  BY DEF Open
<1>5. p \in reader.pos .. Len(reader.buf)
  BY <1>2, <1>3 DEF Outcome
<1>6. /\ reader' \in [buf : Inputs, pos : Nat, borrows : BOOLEAN]
      /\ reader'.buf = reader.buf /\ reader'.borrows = reader.borrows
      /\ reader'.pos <= Len(reader.buf)
      /\ byRef => reader'.pos = p
  BY <1>1, <1>3, <1>5, ReaderAt, ReadersPlaced DEF TypeOK
<1>7. items' \in Seq(Item) /\ DOMAIN items' = {} /\ Len(items') = 0
  BY <1>4
<1>8. CASE o.ok
  <2>1. o.val \in 0 .. Len(root.variants) - 1 /\ o.pos \in reader.pos .. Len(reader.buf)
    BY <1>2, <1>8 DEF Outcome
  <2>2. Len(root.variants) \in Nat /\ reader.pos \in Nat /\ Len(reader.buf) \in Nat
    BY <1>1, RootType, ReadersPlaced
  <2>3. o.left = {o.pos}
    BY <1>2, <1>8 DEF Outcome
  <2> HIDE DEF o
  <2>4. handle' = h
    BY <1>4, <1>8
  <2>5. h \in Handle /\ h.variant \in DOMAIN root.variants
    BY <2>1, <2>2, RootType, <1>1 DEF Handle
  <2>6. Defs' \in Seq(FieldDef)
    <3>1. root.variants[h.variant] \in Schema
      BY <1>1, <2>5, RootType, ElementOfSeq
    <3> QED
      BY <1>4, <2>4, <3>1 DEF Defs, Schema
  <2>7. TypeOK'
    BY <1>1, <1>4, <1>6, <1>7, <2>1, <2>2, <2>4, <2>5, <2>6 DEF TypeOK
  <2>8. HandleReader'.pos = o.pos
    BY <1>3, <1>6, <2>3, <2>4 DEF HandleReader, At
  <2> QED
    BY <1>7, <2>4, <2>7, <2>8 DEF Inv, ItemsReadable, AtFields, Contiguous
<1>9. CASE ~o.ok
  <2>1. handle' = NoHandle
    BY <1>4, <1>9
  <2>2. TypeOK'
    BY <1>1, <1>4, <1>6, <1>7, <2>1 DEF TypeOK, Live, NoHandle
  <2> QED
    BY <1>7, <2>1, <2>2 DEF Inv, ItemsReadable, AtFields, Contiguous, NoHandle
<1> QED
  BY <1>8, <1>9

LEMMA VariantFieldsInv ==
  ASSUME Inv, VariantFields
  PROVE  Inv'
<1>1. /\ handle.k = "Variant" /\ handle' = [handle EXCEPT !.k = "Fields"]
      /\ root' = root /\ reader' = reader /\ items' = items
  BY DEF VariantFields
<1>2. TypeOK /\ ItemsReadable /\ Live /\ handle \in Handle
  BY <1>1 DEF Inv, TypeOK, Live
<1>3. /\ handle' \in Handle
      /\ handle'.variant = handle.variant /\ handle'.next = handle.next
      /\ handle'.own = handle.own /\ handle'.first = handle.first
      /\ handle'.byRef = handle.byRef
  BY <1>1, <1>2 DEF Handle
<1>4. Defs' = Defs
  BY <1>1, <1>3 DEF Defs
<1>5. TypeOK'
  BY <1>1, <1>2, <1>3, <1>4 DEF TypeOK
<1>6. HandleReader' = HandleReader
  BY <1>1, <1>3 DEF HandleReader
<1>7. handle.next = 1 /\ items = <<>> /\ HandleReader.pos = handle.first
  BY <1>1 DEF Inv, AtFields
<1>8. handle'.k = "Fields"
  BY <1>1, <1>2 DEF Handle
<1>9. Contiguous'
  BY <1>1, <1>3, <1>6, <1>7 DEF Contiguous
<1> QED
  BY <1>1, <1>2, <1>5, <1>8, <1>9 DEF Inv, ItemsReadable, AtFields

\* Advancing an iterator: the new item begins where the reader is.
LEMMA FieldsNextInv ==
  ASSUME Inv, FieldsNext
  PROVE  Inv'
<1> DEFINE r   == HandleReader
           def == Defs[handle.next]
           o   == Parse(def.ty, r)
           h   == [handle EXCEPT !.next = @ + 1]
           it(p) == [def |-> def, ok |-> o.ok, val |-> o.val, from |-> r.pos, to |-> p]
<1>1. TypeOK /\ ItemsReadable /\ Contiguous
  BY DEF Inv
<1>2. handle.k = "Fields" /\ Live /\ handle \in Handle /\ Remaining > 0 /\ root' = root
  BY <1>1 DEF FieldsNext, TypeOK, Live
<1>3. PICK p \in o.left : MoveHandle(h, reader, p) /\ items' = Append(items, it(p))
  BY DEF FieldsNext
<1>4. Placed(r) /\ r.buf = reader.buf
        /\ r.pos = IF handle.byRef THEN reader.pos ELSE handle.own
  BY <1>1, <1>2, ReadersPlaced
<1>5. Defs \in Seq(FieldDef) /\ handle.next \in 1 .. Len(Defs) /\ Len(Defs) \in Nat
  <2>1. Defs \in Seq(FieldDef)
    BY <1>1, <1>2, DefsType
  <2>2. handle.next \in 1 .. Len(Defs) + 1 /\ Len(Defs) \in Nat
    BY <1>1, <1>2, <2>1 DEF TypeOK
  <2> QED
    BY <1>2, <2>1, <2>2 DEF Remaining
<1>6. def \in FieldDef /\ def.ty \in DynTy
  <2>1. Defs[handle.next] \in FieldDef
    BY <1>5, ElementOfSeq
  <2> QED
    BY <2>1 DEF FieldDef
<1>7. Outcome(o, r, Readable)
  BY <1>4, <1>6, ParseResult
<1>8. p \in r.pos .. Len(reader.buf) /\ r.pos \in Nat /\ Len(reader.buf) \in Nat /\ p \in Nat
  <2>1. r.pos \in Nat /\ Len(reader.buf) \in Nat
    BY <1>1, <1>4, ReadersPlaced DEF Placed, Reader
  <2> QED
    BY <1>3, <1>4, <1>7, <2>1 DEF Outcome
<1>9. /\ it(p).def = def /\ it(p).from = r.pos /\ it(p).to = p /\ it(p).ok = o.ok
      /\ it(p).val = o.val
  OBVIOUS
<1> HIDE DEF r, def, o
<1>10. it(p) \in Item
  BY <1>6, <1>7, <1>8 DEF Item, Outcome, Readable
<1>11. it(p).ok => it(p).val \in Readable
  BY <1>7 DEF Outcome
<1> HIDE DEF it
<1>12. items \in Seq(Item)
  BY <1>1 DEF TypeOK
<1>13. /\ items' \in Seq(Item)
       /\ Len(items') = Len(items) + 1
       /\ \A i \in 1 .. Len(items) : items'[i] = items[i]
       /\ items'[Len(items) + 1] = it(p)
  BY <1>3, <1>10, <1>12, AppendProperties
<1>14. /\ DOMAIN items = 1 .. Len(items) /\ DOMAIN items' = 1 .. Len(items) + 1
       /\ Len(items) \in Nat
  BY <1>12, <1>13
<1>15. /\ h \in Handle /\ h.k = "Fields" /\ h.next = handle.next + 1
       /\ h.variant = handle.variant /\ h.byRef = handle.byRef
       /\ h.own = handle.own /\ h.first = handle.first /\ h.start = handle.start
  BY <1>2 DEF Handle
<1> HIDE DEF h
<1>16. /\ handle' \in Handle /\ handle'.k = "Fields" /\ handle'.next = handle.next + 1
       /\ handle'.variant = handle.variant /\ handle'.byRef = handle.byRef
       /\ handle'.first = handle.first
       /\ handle.byRef => handle'.own = handle.own /\ reader' = At(reader, p)
       /\ ~handle.byRef => handle'.own = p /\ reader' = reader
  <2>1. CASE handle.byRef
    BY <1>3, <1>15, <2>1 DEF MoveHandle
  <2>2. CASE ~handle.byRef
    BY <1>3, <1>8, <1>15, <2>2 DEF MoveHandle, Handle
  <2> QED
    BY <2>1, <2>2
<1>17. /\ reader' \in [buf : Inputs, pos : Nat, borrows : BOOLEAN]
       /\ reader'.buf = reader.buf /\ reader'.borrows = reader.borrows
       /\ reader'.pos <= Len(reader.buf)
  BY <1>1, <1>4, <1>8, <1>16, ReaderAt DEF TypeOK
<1>18. Defs' = Defs
  BY <1>2, <1>16 DEF Defs
<1>19. HandleReader'.pos = p
  BY <1>1, <1>4, <1>8, <1>16, ReaderAt DEF HandleReader, At, TypeOK
<1>20. TypeOK'
  <2>1. handle'.first <= handle'.own /\ handle'.own <= Len(reader'.buf)
    <3>1. handle.first <= handle.own /\ handle.own <= Len(reader.buf) /\ handle.first \in Nat
            /\ handle.own \in Nat
      BY <1>1, <1>2 DEF TypeOK, Handle
    <3> QED
      BY <1>4, <1>8, <1>16, <1>17, <3>1
  <2>2. handle'.next \in 1 .. Len(Defs) + 1
    BY <1>5, <1>16
  <2>3. \A i \in DOMAIN items' : items'[i].to \in items'[i].from .. Len(reader'.buf)
    BY <1>1, <1>8, <1>9, <1>13, <1>14, <1>17 DEF TypeOK
  <2> QED
    BY <1>1, <1>2, <1>13, <1>16, <1>17, <1>18, <2>1, <2>2, <2>3 DEF TypeOK
<1>21. ItemsReadable'
  BY <1>1, <1>11, <1>13, <1>14 DEF ItemsReadable
<1>22. Contiguous'
  <2>1. /\ Len(items) = handle.next - 1
        /\ \A i \in DOMAIN items :
             /\ items[i].from = IF i - 1 = 0 THEN handle.first ELSE items[i - 1].to
             /\ items[i].def = Defs[i]
        /\ r.pos = IF Len(items) = 0 THEN handle.first ELSE items[Len(items)].to
    BY <1>1, <1>2 DEF Contiguous, r
  <2>2. Len(items') = handle'.next - 1
    BY <1>5, <1>13, <1>16, <2>1
  <2>3. ASSUME NEW i \in DOMAIN items'
        PROVE  /\ items'[i].from = IF i - 1 = 0 THEN handle'.first ELSE items'[i - 1].to
               /\ items'[i].def = Defs'[i]
    <3>1. CASE i \in 1 .. Len(items)
      BY <1>13, <1>14, <1>16, <1>18, <2>1, <3>1
    <3>2. CASE i = Len(items) + 1
      <4>1. i = handle.next /\ items'[i] = it(p)
        BY <1>5, <1>13, <2>1, <3>2
      <4>2. items'[i].def = Defs'[i]
        BY <1>9, <1>18, <4>1 DEF def
      <4>3. items'[i].from = r.pos
        BY <1>9, <4>1
      <4>4. i - 1 = Len(items) /\ i - 1 \in Nat
        BY <1>14, <3>2
      <4>5. i - 1 # 0 => items'[i - 1] = items[Len(items)]
        BY <1>13, <1>14, <4>4
      <4>6. items'[i].from = IF i - 1 = 0 THEN handle'.first ELSE items'[i - 1].to
        BY <1>16, <2>1, <4>3, <4>4, <4>5
      <4> QED
        BY <4>2, <4>6
    <3> QED
      BY <1>14, <3>1, <3>2
  <2>4. HandleReader'.pos = IF Len(items') = 0 THEN handle'.first ELSE items'[Len(items')].to
    BY <1>9, <1>13, <1>14, <1>19
  <2> QED
    BY <2>2, <2>3, <2>4 DEF Contiguous
<1> QED
  BY <1>16, <1>20, <1>21, <1>22 DEF Inv, AtFields

LEMMA DropInv ==
  ASSUME Inv, Drop
  PROVE  Inv'
<1>1. handle' = NoHandle /\ root' = root /\ reader' = reader /\ items' = items
  BY DEF Drop
<1>2. TypeOK' /\ ItemsReadable'
  BY <1>1 DEF Inv, TypeOK, ItemsReadable, Live, NoHandle
<1> QED
  BY <1>1, <1>2 DEF Inv, AtFields, Contiguous, NoHandle

\* Parsing on the program's own reader, which no live iterator reads from.
LEMMA ParseFieldInv ==
  ASSUME Inv, NEW def \in FieldDef, ParseField(def)
  PROVE  Inv'
<1>1. TypeOK /\ ItemsReadable /\ AtFields /\ Contiguous
  BY DEF Inv
<1>2. root' = root /\ handle' = handle /\ items' = items /\ (Live => ~handle.byRef)
  BY DEF ParseField
<1>3. PICK p \in Parse(def.ty, reader).left : reader' = At(reader, p)
  BY DEF ParseField
<1>4. Placed(reader) /\ reader.pos \in Nat /\ Len(reader.buf) \in Nat
  BY <1>1, ReadersPlaced
<1>5. p \in reader.pos .. Len(reader.buf)
  <2>1. def.ty \in DynTy
    BY DEF FieldDef
  <2>2. Outcome(Parse(def.ty, reader), reader, Readable)
    BY <1>4, <2>1, ParseResult
  <2> QED
    BY <1>3, <2>2 DEF Outcome
<1>6. /\ reader' \in [buf : Inputs, pos : Nat, borrows : BOOLEAN]
      /\ reader'.buf = reader.buf /\ reader'.borrows = reader.borrows
      /\ reader'.pos <= Len(reader.buf)
  BY <1>1, <1>3, <1>4, <1>5, ReaderAt
<1>7. Live' = Live /\ Defs' = Defs
  BY <1>2 DEF Live, Defs
<1>8. TypeOK'
  BY <1>1, <1>2, <1>6, <1>7 DEF TypeOK
<1>9. Live => HandleReader'.pos = HandleReader.pos
  BY <1>1, <1>2, <1>6, ReadersPlaced DEF HandleReader, At, TypeOK
<1> QED
  BY <1>1, <1>2, <1>7, <1>8, <1>9 DEF Inv, ItemsReadable, AtFields, Contiguous, Live

-----------------------------------------------------------------------------
LEMMA InvStep ==
  ASSUME Inv, [Next]_vars
  PROVE  Inv'
<1>1. ASSUME NEW byRef \in BOOLEAN, DecodeVariant(byRef) PROVE Inv'
  BY <1>1, OpenInv DEF DecodeVariant
<1>2. ASSUME NEW byRef \in BOOLEAN, DecoderFields(byRef) PROVE Inv'
  BY <1>2, OpenInv DEF DecoderFields
<1>3. CASE VariantFields
  BY <1>3, VariantFieldsInv
<1>4. CASE FieldsNext
  BY <1>4, FieldsNextInv
<1>5. CASE Drop
  BY <1>5, DropInv
<1>6. ASSUME NEW v \in DOMAIN root.variants, NEW i \in DOMAIN root.variants[v].fields,
             ParseField(root.variants[v].fields[i])
      PROVE  Inv'
  <2>1. root.variants[v] \in Schema
    BY RootType, ElementOfSeq DEF Inv
  <2>2. root.variants[v].fields \in Seq(FieldDef)
    BY <2>1 DEF Schema
  <2>3. root.variants[v].fields[i] \in FieldDef
    BY <2>2, ElementOfSeq
  <2> QED
    BY <1>6, <2>3, ParseFieldInv
<1>7. CASE UNCHANGED vars
  BY <1>7 DEF vars, Inv, TypeOK, ItemsReadable, AtFields, Contiguous, Live, Defs, HandleReader
<1> QED
  BY <1>1, <1>2, <1>3, <1>4, <1>5, <1>6, <1>7 DEF Next

\* However a program opens, advances, drops and reopens decoders, the inductive
\* invariant holds.
THEOREM Invariance == Spec => []Inv
<1>1. Init => Inv
  BY InitInv
<1>2. Inv /\ [Next]_vars => Inv'
  BY InvStep
<1> QED
  BY <1>1, <1>2, PTL DEF Spec

\* Positions stay inside the input, and a live decoder or iterator names a
\* schema of the root and a field of it, or the place after the last one.
THEOREM TypeCorrect == Spec => []TypeOK
<1>1. Inv => TypeOK
  BY DEF Inv
<1> QED
  BY <1>1, Invariance, PTL

\* The items an iterator yields are its schema's fields in order and tile the
\* input, failed fields included, whichever reader it was given (Fields::next).
THEOREM ContiguousFields == Spec => []Contiguous
<1>1. Inv => Contiguous
  BY DEF Inv
<1> QED
  BY <1>1, Invariance, PTL

\* Every LazyVec that decoding makes has exactly len elements in its payload, so
\* the unsafe iterators over it stay inside it (value.rs:147), also when len
\* times the width overflows a usize.
THEOREM LazyVecsAreExact == Spec => []LazyPayload
<1>1. Inv => LazyPayload
  <2> SUFFICES ASSUME Inv, NEW i \in DOMAIN items, items[i].ok, items[i].val.k = "Vec"
               PROVE  Len(items[i].val.raw) = items[i].val.len * PrimitiveSize(items[i].val.ty)
    BY DEF LazyPayload
  <2> QED
    BY DEF Inv, ItemsReadable, Readable, Exact
<1> QED
  BY <1>1, Invariance, PTL

\* No input makes decoding copy more than the preallocation limit (ty.rs).
THEOREM AllocationBounded == Spec => []OwnedBounded
<1>1. Inv => OwnedBounded
  <2> SUFFICES ASSUME Inv, NEW i \in DOMAIN items, items[i].ok,
                      items[i].val.k # "Primitive", items[i].val.owned
               PROVE  Len(items[i].val.raw) <= PreallocLimit
    BY DEF OwnedBounded
  <2> QED
    BY DEF Inv, ItemsReadable, Readable, Within
<1> QED
  BY <1>1, Invariance, PTL
-----------------------------------------------------------------------------
(***************************************************************************)
(* What an item is, after any number of steps: the result of parsing its   *)
(* field at the place where it begins.  With it a property of the items    *)
(* follows from a property of Parse.                                       *)
(***************************************************************************)
Parsed(it, buf, borrows) ==
  LET o == Parse(it.def.ty, [buf |-> buf, pos |-> it.from, borrows |-> borrows])
  IN  /\ it.ok = o.ok /\ it.val = o.val
      /\ it.ok => it.to = o.pos

ItemsParsed == \A i \in DOMAIN items : Parsed(items[i], reader.buf, reader.borrows)

LEMMA ReaderFields ==
  ASSUME NEW r \in Reader
  PROVE  r = [buf |-> r.buf, pos |-> r.pos, borrows |-> r.borrows]
BY DEF Reader

\* The input and the kind of reader never change.
LEMMA InputKept ==
  ASSUME Inv, [Next]_vars
  PROVE  reader'.buf = reader.buf /\ reader'.borrows = reader.borrows
<1>1. ASSUME NEW p PROVE /\ At(reader, p).buf = reader.buf
                         /\ At(reader, p).borrows = reader.borrows
  BY DEF Inv, TypeOK, At
<1>2. ASSUME NEW k, NEW byRef, Open(k, byRef)
      PROVE  reader' = reader \/ \E p : reader' = At(reader, p)
  BY <1>2 DEF Open
<1>3. CASE FieldsNext
  <2>1. PICK p : MoveHandle([handle EXCEPT !.next = @ + 1], reader, p)
    BY <1>3 DEF FieldsNext
  <2> QED
    BY <1>1, <2>1 DEF MoveHandle
<1>4. ASSUME NEW def, ParseField(def)
      PROVE  \E p : reader' = At(reader, p)
  BY <1>4 DEF ParseField
<1>5. CASE VariantFields \/ Drop \/ UNCHANGED vars
  BY <1>5 DEF VariantFields, Drop, vars
<1> QED
  BY <1>1, <1>2, <1>3, <1>4, <1>5 DEF Next, DecodeVariant, DecoderFields

LEMMA ItemsParsedStep ==
  ASSUME Inv, ItemsParsed, [Next]_vars
  PROVE  ItemsParsed'
<1>1. reader'.buf = reader.buf /\ reader'.borrows = reader.borrows
  BY InputKept
<1>2. CASE items' = items
  BY <1>1, <1>2 DEF ItemsParsed
<1>3. CASE items' = <<>>
  BY <1>3 DEF ItemsParsed
<1>4. CASE FieldsNext
  <2> DEFINE r   == HandleReader
             def == Defs[handle.next]
             o   == Parse(def.ty, r)
             it(p) == [def |-> def, ok |-> o.ok, val |-> o.val, from |-> r.pos, to |-> p]
  <2>1. PICK p \in o.left : items' = Append(items, it(p))
    BY <1>4 DEF FieldsNext
  <2>2. TypeOK /\ Live /\ handle \in Handle /\ Remaining > 0
    BY <1>4 DEF Inv, TypeOK, Live, FieldsNext
  <2>3. Placed(r) /\ r.buf = reader.buf /\ r.borrows = reader.borrows
    BY <2>2, ReadersPlaced
  <2>4. r = [buf |-> reader.buf, pos |-> r.pos, borrows |-> reader.borrows]
    BY <2>3, ReaderFields DEF Placed
  <2>5. def.ty \in DynTy
    <3>1. Defs \in Seq(FieldDef) /\ handle.next \in 1 .. Len(Defs) + 1
      BY <2>2, DefsType DEF TypeOK
    <3>2. handle.next \in 1 .. Len(Defs)
      BY <2>2, <3>1 DEF Remaining
    <3>3. Defs[handle.next] \in FieldDef
      BY <3>1, <3>2, ElementOfSeq
    <3> QED
      BY <3>3 DEF FieldDef
  <2>6. o.ok => p = o.pos
    BY <2>1, <2>3, <2>5, ParseResult DEF Outcome
  <2>7. Parsed(it(p), reader.buf, reader.borrows)
    <3>1. /\ it(p).def.ty = def.ty /\ it(p).from = r.pos /\ it(p).to = p
          /\ it(p).ok = o.ok /\ it(p).val = o.val
      OBVIOUS
    <3>2. o = Parse(it(p).def.ty, [buf |-> reader.buf, pos |-> it(p).from, borrows |-> reader.borrows])
      BY <2>4, <3>1
    <3> HIDE DEF it, o
    <3> QED
      BY <2>6, <3>1, <3>2 DEF Parsed
  <2>8. items \in Seq(Item) /\ Len(items) \in Nat /\ DOMAIN items = 1 .. Len(items)
    BY <2>2 DEF TypeOK
  <2> HIDE DEF it, o
  <2>9. /\ DOMAIN items' = 1 .. Len(items) + 1
        /\ \A i \in 1 .. Len(items) : items'[i] = items[i]
        /\ items'[Len(items) + 1] = it(p)
    BY <2>1, <2>8
  <2>10. ASSUME NEW i \in DOMAIN items' PROVE Parsed(items'[i], reader.buf, reader.borrows)
    <3>1. CASE i \in 1 .. Len(items)
      BY <2>8, <2>9, <3>1 DEF ItemsParsed
    <3>2. CASE i = Len(items) + 1
      BY <2>7, <2>9, <3>2
    <3> QED
      BY <2>8, <2>9, <3>1, <3>2
  <2> QED
    BY <1>1, <2>10 DEF ItemsParsed
<1> QED
  <2>1. ASSUME NEW k, NEW byRef, Open(k, byRef) PROVE items' = <<>>
    BY <2>1 DEF Open
  <2>2. ASSUME NEW def, ParseField(def) PROVE items' = items
    BY <2>2 DEF ParseField
  <2>3. CASE VariantFields \/ Drop \/ UNCHANGED vars
    BY <1>2, <2>3 DEF VariantFields, Drop, vars
  <2> QED
    BY <1>2, <1>3, <1>4, <2>1, <2>2, <2>3 DEF Next, DecodeVariant, DecoderFields

LEMMA AlwaysParsed == Spec => [](Inv /\ ItemsParsed)
<1>1. Init => ItemsParsed
  BY DEF Init, ItemsParsed
<1>2. Inv /\ ItemsParsed /\ [Next]_vars => ItemsParsed'
  BY ItemsParsedStep
<1> QED
  BY <1>1, <1>2, Invariance, PTL DEF Spec

\* Where an item was parsed.
LEMMA ItemPlace ==
  ASSUME Inv, ItemsParsed, NEW i \in DOMAIN items
  PROVE  LET it == items[i]
             r  == [buf |-> reader.buf, pos |-> it.from, borrows |-> reader.borrows]
         IN  /\ it.def.ty \in DynTy
             /\ it.from \in Nat /\ it.to \in it.from .. Len(reader.buf)
             /\ reader.buf \in Seq(Byte)
             /\ Placed(r)
             /\ it.ok = Parse(it.def.ty, r).ok /\ it.val = Parse(it.def.ty, r).val
             /\ it.ok => it.to = Parse(it.def.ty, r).pos
<1> DEFINE it == items[i]
           r  == [buf |-> reader.buf, pos |-> it.from, borrows |-> reader.borrows]
<1>1. TypeOK
  BY DEF Inv
<1>2. it \in Item /\ it.to \in it.from .. Len(reader.buf)
  BY <1>1, ElementOfSeq DEF TypeOK
<1>3. it.def \in FieldDef /\ it.from \in Nat /\ it.to \in Nat
  BY <1>2 DEF Item
<1>4. reader.buf \in Seq(Byte) /\ reader.borrows \in BOOLEAN /\ Len(reader.buf) \in Nat
  BY <1>1, ReadersPlaced DEF Placed, Reader
<1>5. Placed(r)
  <2>1. it.from <= Len(reader.buf)
    BY <1>2, <1>3, <1>4
  <2> HIDE DEF it
  <2> QED
    BY <1>3, <1>4, <2>1 DEF Placed, Reader
<1> QED
  BY <1>2, <1>3, <1>4, <1>5 DEF ItemsParsed, Parsed, FieldDef

\* The three sizes agree with what is consumed: Ty::size, where it is fixed, with
\* Value::size, and both with the bytes between two fields (ty.rs, value.rs).
THEOREM SizesAgree == Spec => []StaticWidth
<1>1. Inv /\ ItemsParsed => StaticWidth
  <2> SUFFICES ASSUME Inv, ItemsParsed, NEW i \in DOMAIN items, items[i].ok
               PROVE  LET it   == items[i]
                          size == TySize(it.def.ty)
                      IN  /\ size # <<>> => ValueSize(it.val) = size[1]
                          /\ it.to - it.from =
                               ValueSize(it.val) + IF size = <<>> THEN LenWidth ELSE 0
    BY DEF StaticWidth
  <2> DEFINE it == items[i]
             t  == it.def.ty
             r  == [buf |-> reader.buf, pos |-> it.from, borrows |-> reader.borrows]
             o  == Parse(t, r)
  <2>1. /\ t \in DynTy /\ Placed(r) /\ o.ok /\ it.val = o.val /\ it.to = o.pos
        /\ it.from \in Nat /\ r.pos = it.from
    BY ItemPlace
  <2> HIDE DEF it, t, r
  <2>2. IF TySize(t) # <<>>
        THEN ValueSize(it.val) = TySize(t)[1] /\ it.to = it.from + ValueSize(it.val)
        ELSE it.to = it.from + LenWidth + ValueSize(it.val)
    BY <2>1, ParseWidth
  <2>3. ValueSize(it.val) \in Nat
    <3>1. it.val \in Value
      BY <2>1, ParseResult DEF Outcome, Readable
    <3> HIDE DEF o
    <3> QED
      BY <3>1, PrimitiveSizeType DEF Value, ValueSize
  <2>4. /\ TySize(t) # <<>> => ValueSize(it.val) = TySize(t)[1]
        /\ it.to - it.from = ValueSize(it.val) + IF TySize(t) = <<>> THEN LenWidth ELSE 0
    BY <2>1, <2>2, <2>3, WincodeAssumption
  <2> QED
    BY <2>4 DEF it, t
<1> QED
  BY <1>1, AlwaysParsed, PTL

\* An item that was decoded could not have been decoded from less input, wherever it
\* is cut (the test arbitrary_truncated_struct_is_rejected, lib.rs:1728).
THEOREM NoneFromLess == Spec => []TruncationRejected
<1>1. Inv /\ ItemsParsed => TruncationRejected
  <2> SUFFICES ASSUME Inv, ItemsParsed, NEW i \in DOMAIN items, items[i].ok,
                      NEW n \in items[i].from .. items[i].to - 1
               PROVE  ~Parse(items[i].def.ty,
                             [buf |-> SubSeq(reader.buf, 1, n), pos |-> items[i].from,
                              borrows |-> reader.borrows]).ok
    BY DEF TruncationRejected
  <2> DEFINE it == items[i]
             r  == [buf |-> reader.buf, pos |-> it.from, borrows |-> reader.borrows]
  <2>1. /\ it.def.ty \in DynTy /\ Placed(r) /\ Parse(it.def.ty, r).ok
        /\ n \in r.pos .. Parse(it.def.ty, r).pos - 1
    BY ItemPlace
  <2>2. r.buf = reader.buf /\ r.pos = it.from /\ r.borrows = reader.borrows
    OBVIOUS
  <2> HIDE DEF it, r
  <2> QED
    BY <2>1, <2>2, ParseNeedsAll DEF it
<1> QED
  BY <1>1, AlwaysParsed, PTL

\* Lending decides who owns a payload, and the limit never applies to lent bytes
\* (ty.rs:18).
THEOREM LendingOnlyOwns == Spec => []BorrowTransparent
<1>1. Inv /\ ItemsParsed => BorrowTransparent
  <2> SUFFICES ASSUME Inv, ItemsParsed, NEW i \in DOMAIN items
               PROVE  Transparent(Parse(items[i].def.ty, Lending(reader.buf, items[i].from)),
                                  Parse(items[i].def.ty, Copying(reader.buf, items[i].from)))
    BY DEF BorrowTransparent, Transparent, Plain, Lending, Copying
  <2> DEFINE it == items[i]
             r  == [buf |-> reader.buf, pos |-> it.from, borrows |-> reader.borrows]
  <2>1. it.def.ty \in DynTy /\ Placed(r) /\ r.buf = reader.buf /\ r.pos = it.from
    BY ItemPlace
  <2> HIDE DEF r, it
  <2>2. Placed(Lending(reader.buf, it.from))
    BY <2>1 DEF Placed, Reader, Lending
  <2> QED
    BY <2>1, <2>2, ParseTransparent DEF it
<1> QED
  BY <1>1, AlwaysParsed, PTL

-----------------------------------------------------------------------------
(***************************************************************************)
(* Decoding against the wire format.  That a tag re-encodes is not said of *)
(* a state after the step that reads it, so it is an invariant of its own. *)
(***************************************************************************)
TagRead ==
  Live => SubSeq(reader.buf, handle.start + 1, handle.first) =
            IF root.k = "Enum" THEN LittleEndian(handle.variant - 1, PrimitiveSize(root.tag)) ELSE <<>>

LEMMA ParseIntoUsizeReencodes ==
  ASSUME NEW p \in PrimitiveTy, NEW r, Placed(r), ParseIntoUsize(p, r).ok
  PROVE  LET o == ParseIntoUsize(p, r)
         IN  LittleEndian(o.val, PrimitiveSize(p)) = Bytes(r, o.pos)
<1> DEFINE o == ReadPrimitive(p, r)
<1>1. ParseIntoUsize(p, r) =
        IF p \in {"F32", "F64", "Bool"} THEN Err("CannotCastToUsize", r, {r.pos})
        ELSE IF ~o.ok THEN o
        ELSE IF o.val.n \in Usize THEN Ok(o.val.n, o.pos)
        ELSE Err("CannotCastToUsize", r, {o.pos})
  BY DEF ParseIntoUsize
<1>2. \A S : ~Err("CannotCastToUsize", r, S).ok
  BY DEF Err
<1>3. o.ok => LittleEndian(o.val.n, PrimitiveSize(p)) = Bytes(r, o.pos)
  BY ReadPrimitiveReencodes
<1> HIDE DEF o
<1>4. o.ok /\ ParseIntoUsize(p, r) = Ok(o.val.n, o.pos)
  BY <1>1, <1>2
<1>5. ParseIntoUsize(p, r).val = o.val.n /\ ParseIntoUsize(p, r).pos = o.pos
  BY <1>4 DEF Ok
<1> QED
  BY <1>3, <1>4, <1>5

\* What selects a schema is the tag of that schema.
LEMMA SelectReencodes ==
  ASSUME TypeOK, SelectSchema(reader).ok
  PROVE  LET o == SelectSchema(reader)
         IN  SubSeq(reader.buf, reader.pos + 1, o.pos) =
               IF root.k = "Enum" THEN LittleEndian(o.val, PrimitiveSize(root.tag)) ELSE <<>>
<1>1. Placed(reader) /\ reader.pos \in Nat
  BY ReadersPlaced
<1>2. CASE root.k = "Struct"
  <2>1. SelectSchema(reader).pos = reader.pos
    BY <1>2 DEF SelectSchema, Ok
  <2>2. SubSeq(reader.buf, reader.pos + 1, reader.pos) = <<>>
    BY <1>1, SubSeqEmpty
  <2> QED
    BY <1>2, <2>1, <2>2
<1>3. CASE root.k = "Enum"
  <2> DEFINE d == ParseIntoUsize(root.tag, reader)
             e == Err("InvalidTagEncoding", reader, {d.pos})
  <2>1. SelectSchema(reader) = IF d.ok /\ d.val >= Len(root.variants) THEN e ELSE d
    BY <1>3 DEF SelectSchema, ReadVariant
  <2>2. ~e.ok
    BY DEF Err
  <2>3. d.ok => LittleEndian(d.val, PrimitiveSize(root.tag)) = Bytes(reader, d.pos)
    BY <1>1, <1>3, RootType, ParseIntoUsizeReencodes
  <2> HIDE DEF d, e
  <2>4. SelectSchema(reader) = d /\ d.ok
    BY <2>1, <2>2
  <2> QED
    BY <1>3, <2>3, <2>4 DEF Bytes
<1> QED
  BY <1>2, <1>3, RootType

\* A tag is read exactly if it is whole, and then passed, whatever becomes of it.
LEMMA ParseIntoUsizeWhole ==
  ASSUME NEW p \in PrimitiveTy \ {"F32", "F64", "Bool"}, NEW r, Placed(r)
  PROVE  LET o   == ParseIntoUsize(p, r)
             end == r.pos + PrimitiveSize(p)
         IN  /\ end <= Len(r.buf) => o.left = {end}
             /\ o.ok => end <= Len(r.buf) /\ o.pos = end /\ o.left = {end}
<1> DEFINE o   == ReadPrimitive(p, r)
           d   == ParseIntoUsize(p, r)
           end == r.pos + PrimitiveSize(p)
           e   == Err("CannotCastToUsize", r, {o.pos})
<1>1. d = IF ~o.ok THEN o ELSE IF o.val.n \in Usize THEN Ok(o.val.n, o.pos) ELSE e
  BY DEF ParseIntoUsize
<1>2. Outcome(o, r, Scalar)
  BY ReadPrimitiveResult
<1>3. end <= Len(r.buf) => o.ok
  BY ReadPrimitiveAccepts
<1>4. o.ok => o.pos = end
  BY ReadPrimitiveWidth
<1>5. o.ok => o.pos <= Len(r.buf)
  BY <1>2 DEF Outcome
<1>6. ~e.ok /\ e.left = {o.pos}
  BY DEF Err
<1>7. \A n : Ok(n, o.pos).ok /\ Ok(n, o.pos).pos = o.pos /\ Ok(n, o.pos).left = {o.pos}
  BY DEF Ok
<1> HIDE DEF o, e
<1>8. CASE ~o.ok
  BY <1>1, <1>3, <1>8
<1>9. CASE o.ok /\ o.val.n \in Usize
  BY <1>1, <1>4, <1>5, <1>7, <1>9
<1>10. CASE o.ok /\ o.val.n \notin Usize
  BY <1>1, <1>4, <1>6, <1>10
<1> QED
  BY <1>8, <1>9, <1>10

\* The end of the tag at the reader, and the variants that are written with it.
TagEnd == reader.pos + PrimitiveSize(root.tag)

Named ==
  {v \in DOMAIN root.variants :
     /\ TagEnd <= Len(reader.buf) /\ InRange(root.tag, v - 1)
     /\ SubSeq(reader.buf, reader.pos + 1, TagEnd) = LittleEndian(v - 1, PrimitiveSize(root.tag))}

\* The tag of a variant selects that variant.
LEMMA NamedIsSelected ==
  ASSUME TypeOK, root.k = "Enum", root.tag \notin {"F32", "F64", "Bool"}, NEW v \in Named
  PROVE  SelectSchema(reader).ok /\ SelectSchema(reader).val = v - 1
<1> DEFINE w == PrimitiveSize(root.tag)
           d == ParseIntoUsize(root.tag, reader)
           bs == LittleEndian(v - 1, w)
<1>1. /\ root.tag \in PrimitiveTy /\ root.variants \in Seq(Schema)
      /\ Placed(reader) /\ reader.pos \in Nat /\ Len(reader.buf) \in Nat
  BY RootType, ReadersPlaced
<1>2. v \in 1 .. Len(root.variants) /\ Len(root.variants) \in Usize
  BY <1>1, DecoderAssumption DEF Named, TypeOK
<1>3. v - 1 \in Usize /\ v - 1 \in Int /\ v - 1 < Len(root.variants)
  BY <1>1, <1>2, WincodeAssumption DEF Usize
<1>4. w \in Nat /\ bs \in Seq(Byte) /\ Len(bs) = w
  <2>1. w \in Nat
    BY <1>1, PrimitiveSizeType
  <2> HIDE DEF w
  <2> QED
    BY <1>3, <2>1, LittleEndianType
<1>5. /\ InRange(root.tag, v - 1) /\ reader.pos + w <= Len(reader.buf)
      /\ SubSeq(reader.buf, reader.pos + 1, reader.pos + w) = bs
  BY DEF Named, TagEnd
<1>6. Begins(reader, bs)
  <2>1. reader.pos + w \in Nat /\ reader.pos <= reader.pos + w /\ (reader.pos + w) - reader.pos = w
    BY <1>1, <1>4
  <2>2. \A k \in 1 .. w : Bytes(reader, reader.pos + w)[k] = reader.buf[reader.pos + k]
    BY <1>1, <1>5, <2>1, PlacedBytes
  <2> HIDE DEF bs, w
  <2> QED
    BY <1>4, <1>5, <2>2 DEF Begins, Bytes
<1>7. d = Ok(v - 1, reader.pos + w)
  BY <1>1, <1>3, <1>5, <1>6, ParseIntoUsizeWritten
<1>8. d.ok /\ d.val = v - 1
  BY <1>7 DEF Ok
<1> HIDE DEF d
<1>9. ~(d.val >= Len(root.variants))
  BY <1>1, <1>3, <1>8
<1>10. SelectSchema(reader) = d
  <2>1. SelectSchema(reader) = IF d.ok /\ d.val >= Len(root.variants)
                               THEN Err("InvalidTagEncoding", reader, {d.pos}) ELSE d
    BY DEF SelectSchema, ReadVariant, d
  <2> QED
    BY <1>9, <2>1
<1> QED
  BY <1>8, <1>10

\* What has been selected is the variant of the tag that was read.
LEMMA SelectedIsNamed ==
  ASSUME TypeOK, root.k = "Enum", root.tag \notin {"F32", "F64", "Bool"}, SelectSchema(reader).ok
  PROVE  SelectSchema(reader).val + 1 \in Named
<1> DEFINE d == ParseIntoUsize(root.tag, reader)
           e == Err("InvalidTagEncoding", reader, {d.pos})
           o == ReadPrimitive(root.tag, reader)
<1>1. root.tag \in PrimitiveTy \ {"F32", "F64", "Bool"} /\ Placed(reader)
  BY RootType, ReadersPlaced
<1>2. SelectSchema(reader) = IF d.ok /\ d.val >= Len(root.variants) THEN e ELSE d
  BY DEF SelectSchema, ReadVariant
<1>3. ~e.ok
  BY DEF Err
<1>4. Outcome(SelectSchema(reader), reader, 0 .. Len(root.variants) - 1)
  BY RootType, ReadersPlaced, SelectResult
<1>5. SubSeq(reader.buf, reader.pos + 1, SelectSchema(reader).pos) =
        LittleEndian(SelectSchema(reader).val, PrimitiveSize(root.tag))
  BY SelectReencodes
<1>6. d.ok => TagEnd <= Len(reader.buf) /\ d.pos = TagEnd
  BY <1>1, ParseIntoUsizeWhole DEF TagEnd
<1>7. d.ok => InRange(root.tag, d.val)
  <2>1. d = IF ~o.ok THEN o ELSE IF o.val.n \in Usize THEN Ok(o.val.n, o.pos)
            ELSE Err("CannotCastToUsize", reader, {o.pos})
    BY <1>1 DEF ParseIntoUsize
  <2>2. o.ok => InRange(root.tag, o.val.n)
    BY <1>1, ReadPrimitiveReencodes
  <2>3. \A S : ~Err("CannotCastToUsize", reader, S).ok
    BY DEF Err
  <2>4. \A n : Ok(n, o.pos).val = n
    BY DEF Ok
  <2> HIDE DEF o, d
  <2> QED
    BY <2>1, <2>2, <2>3, <2>4
<1> HIDE DEF d, e, o
<1>8. SelectSchema(reader) = d /\ d.ok
  BY <1>2, <1>3
<1>9. d.val \in 0 .. Len(root.variants) - 1 /\ root.variants \in Seq(Schema)
  BY <1>4, <1>8, RootType DEF Outcome
<1>10. d.val + 1 \in DOMAIN root.variants /\ (d.val + 1) - 1 = d.val
  BY <1>9
<1> QED
  BY <1>5, <1>6, <1>7, <1>8, <1>10 DEF Named

\* At most one variant is written with the tag at hand.
LEMMA OneNamed ==
  ASSUME TypeOK, root.k = "Enum", root.tag \notin {"F32", "F64", "Bool"}
  PROVE  Named = IF SelectSchema(reader).ok THEN {SelectSchema(reader).val + 1} ELSE {}
<1>1. \A v \in Named : v \in Int /\ SelectSchema(reader).ok /\ SelectSchema(reader).val = v - 1
  <2>1. \A v \in Named : v \in Int
    BY RootType DEF Named
  <2> QED
    BY <2>1, NamedIsSelected
<1>2. \A v \in Int : (v - 1) + 1 = v
  OBVIOUS
<1> QED
  BY <1>1, <1>2, SelectedIsNamed

\* A lent reader is behind a tag that is whole.
LEMMA TagPassed ==
  ASSUME TypeOK, root.k = "Enum", root.tag \notin {"F32", "F64", "Bool"}, TagEnd <= Len(reader.buf)
  PROVE  SelectSchema(reader).left = {TagEnd}
<1> DEFINE d == ParseIntoUsize(root.tag, reader)
<1>1. root.tag \in PrimitiveTy \ {"F32", "F64", "Bool"} /\ Placed(reader)
  BY RootType, ReadersPlaced
<1>2. d.left = {TagEnd} /\ (d.ok => d.pos = TagEnd)
  BY <1>1, ParseIntoUsizeWhole DEF TagEnd
<1>3. SelectSchema(reader) = IF d.ok /\ d.val >= Len(root.variants)
                             THEN Err("InvalidTagEncoding", reader, {d.pos}) ELSE d
  BY DEF SelectSchema, ReadVariant
<1>4. Err("InvalidTagEncoding", reader, {d.pos}).left = {d.pos}
  BY DEF Err
<1> HIDE DEF d
<1> QED
  BY <1>2, <1>3, <1>4

TagDecides ==
  root.k = "Enum" /\ root.tag \notin {"F32", "F64", "Bool"} =>
    \A byRef \in BOOLEAN : DecodeVariant(byRef) \/ DecoderFields(byRef) =>
      /\ Named = IF Live' THEN {handle'.variant} ELSE {}
      /\ byRef /\ TagEnd <= Len(reader.buf) => reader' = At(reader, TagEnd)

\* An enum is opened exactly if the input goes on with a variant's index as wincode
\* writes it, as that variant, and a refused tag has been passed (decode_variant, lib.rs:551).
THEOREM TagsDecide == Spec => TagStep
<1>1. ASSUME Inv PROVE TagDecides
  <2> SUFFICES ASSUME root.k = "Enum", root.tag \notin {"F32", "F64", "Bool"}, NEW byRef \in BOOLEAN,
                      DecodeVariant(byRef) \/ DecoderFields(byRef)
               PROVE  /\ Named = IF Live' THEN {handle'.variant} ELSE {}
                      /\ byRef /\ TagEnd <= Len(reader.buf) => reader' = At(reader, TagEnd)
    BY DEF TagDecides
  <2> DEFINE o == SelectSchema(reader)
  <2>1. TypeOK
    BY <1>1 DEF Inv
  <2>2. PICK k \in {"Variant", "Fields"} : Open(k, byRef)
    BY DEF DecodeVariant, DecoderFields
  <2> DEFINE h == [k |-> k, variant |-> o.val + 1, next |-> 1, byRef |-> byRef,
                   own |-> o.pos, start |-> reader.pos, first |-> o.pos]
  <2>3. /\ handle' = (IF o.ok THEN h ELSE NoHandle)
        /\ \E p \in o.left : reader' = IF byRef THEN At(reader, p) ELSE reader
    BY <2>2 DEF Open
  <2>4. h.k # "None" /\ h.variant = o.val + 1 /\ NoHandle.k = "None"
    BY DEF NoHandle
  <2> HIDE DEF h
  <2>5. (Live' <=> o.ok) /\ (o.ok => handle'.variant = o.val + 1)
    BY <2>3, <2>4 DEF Live
  <2>6. Named = IF o.ok THEN {o.val + 1} ELSE {}
    BY <2>1, OneNamed
  <2>7. TagEnd <= Len(reader.buf) => o.left = {TagEnd}
    BY <2>1, TagPassed
  <2> HIDE DEF o
  <2> QED
    BY <2>3, <2>5, <2>6, <2>7
<1>2. Inv /\ [Next]_vars => [TagDecides]_vars
  BY <1>1
<1> QED
  BY <1>2, Invariance, PTL DEF Spec, TagStep, TagDecides, Named, TagEnd

LEMMA TagReadStep ==
  ASSUME Inv, TagRead, [Next]_vars
  PROVE  TagRead'
<1>1. reader'.buf = reader.buf
  BY InputKept
<1>2. TypeOK
  BY DEF Inv
<1>3. ASSUME NEW k, NEW byRef, Open(k, byRef) PROVE TagRead'
  <2> DEFINE o == SelectSchema(reader)
             h == [k |-> k, variant |-> o.val + 1, next |-> 1, byRef |-> byRef,
                   own |-> o.pos, start |-> reader.pos, first |-> o.pos]
  <2>1. handle' = (IF o.ok THEN h ELSE NoHandle) /\ root' = root
    BY <1>3 DEF Open
  <2>2. CASE ~o.ok
    BY <2>1, <2>2 DEF TagRead, Live, NoHandle
  <2>3. CASE o.ok
    <3>1. SubSeq(reader.buf, reader.pos + 1, o.pos) =
            IF root.k = "Enum" THEN LittleEndian(o.val, PrimitiveSize(root.tag)) ELSE <<>>
      BY <1>2, <2>3, SelectReencodes
    <3>2. o.val \in Int
      <4>1. Outcome(o, reader, 0 .. Len(root.variants) - 1)
        BY <1>2, RootType, ReadersPlaced, SelectResult
      <4> QED
        BY <2>3, <4>1 DEF Outcome
    <3>3. handle' = h
      BY <2>1, <2>3
    <3> HIDE DEF o
    <3>4. handle'.start = reader.pos /\ handle'.first = o.pos /\ handle'.variant = o.val + 1
      BY <3>3
    <3>5. handle'.variant - 1 = o.val
      BY <3>2, <3>4
    <3> QED
      BY <1>1, <2>1, <3>1, <3>4, <3>5 DEF TagRead
  <2> QED
    BY <2>2, <2>3
<1>4. ASSUME root' = root, handle'.start = handle.start, handle'.first = handle.first,
             handle'.variant = handle.variant, Live
      PROVE  TagRead'
  BY <1>1, <1>4 DEF TagRead
<1>5. CASE VariantFields
  <2>1. Live /\ handle \in Handle
    BY <1>2, <1>5 DEF VariantFields, TypeOK, Live
  <2>2. root' = root /\ handle' = [handle EXCEPT !.k = "Fields"]
    BY <1>5 DEF VariantFields
  <2> QED
    BY <1>4, <2>1, <2>2 DEF Handle
<1>6. CASE FieldsNext
  <2>1. Live /\ handle \in Handle /\ root' = root
    BY <1>2, <1>6 DEF FieldsNext, TypeOK, Live
  <2> DEFINE h == [handle EXCEPT !.next = @ + 1]
  <2>2. PICK p : MoveHandle(h, reader, p)
    BY <1>6 DEF FieldsNext
  <2>3. h \in Handle /\ h.start = handle.start /\ h.first = handle.first /\ h.variant = handle.variant
    BY <2>1 DEF Handle
  <2> HIDE DEF h
  <2>4. /\ handle'.start = handle.start /\ handle'.first = handle.first
        /\ handle'.variant = handle.variant
    BY <2>2, <2>3 DEF MoveHandle, Handle
  <2> QED
    BY <1>4, <2>1, <2>4
<1>7. CASE Drop
  BY <1>7 DEF Drop, TagRead, Live, NoHandle
<1>8. ASSUME NEW def, ParseField(def) PROVE TagRead'
  BY <1>1, <1>8 DEF ParseField, TagRead, Live
<1>9. CASE UNCHANGED vars
  BY <1>9 DEF vars, TagRead, Live
<1> QED
  BY <1>3, <1>5, <1>6, <1>7, <1>8, <1>9 DEF Next, DecodeVariant, DecoderFields

LEMMA AlwaysTagRead == Spec => [](Inv /\ ItemsParsed /\ TagRead)
<1>1. Init => TagRead
  BY DEF Init, TagRead, Live, NoHandle
<1>2. Inv /\ ItemsParsed /\ TagRead /\ [Next]_vars => TagRead'
  BY TagReadStep
<1> QED
  BY <1>1, <1>2, AlwaysParsed, PTL DEF Spec

\* What is decoded is what was encoded: a decoded value serializes to the bytes it
\* was decoded from, and a selected variant to the tag that selected it, however
\* many decoders and iterators came before (lib.rs, FieldDef::parse and
\* EnumSchema::read_variant).
THEOREM DecodedIsEncoded == Spec => []Reencodes
<1>1. Inv /\ ItemsParsed /\ TagRead => Reencodes
  <2> SUFFICES ASSUME Inv, ItemsParsed, TagRead PROVE Reencodes
    OBVIOUS
  <2>1. ASSUME NEW i \in DOMAIN items, items[i].ok
        PROVE  LET it == items[i]
               IN  /\ it.val.k = "Primitive" => InRange(it.val.ty, it.val.n)
                   /\ Encode(it.def.ty, it.val) = SubSeq(reader.buf, it.from + 1, it.to)
    <3> DEFINE it == items[i]
               t  == it.def.ty
               r  == [buf |-> reader.buf, pos |-> it.from, borrows |-> reader.borrows]
               o  == Parse(t, r)
    <3>1. /\ t \in DynTy /\ Placed(r) /\ o.ok /\ it.val = o.val /\ it.to = o.pos
          /\ r.pos = it.from /\ r.buf = reader.buf
      BY <2>1, ItemPlace
    <3> HIDE DEF r, t
    <3>2. /\ o.val.k = "Primitive" => InRange(o.val.ty, o.val.n)
          /\ Encode(t, o.val) = Bytes(r, o.pos)
      BY <3>1, ParseReencodes
    <3> HIDE DEF it, o
    <3>3. /\ it.val.k = "Primitive" => InRange(it.val.ty, it.val.n)
          /\ Encode(t, it.val) = SubSeq(reader.buf, it.from + 1, it.to)
      BY <3>1, <3>2 DEF Bytes
    <3> QED
      BY <3>3 DEF it, t
  <2> QED
    BY <2>1 DEF Reencodes, TagRead
<1> QED
  BY <1>1, AlwaysTagRead, PTL

\* Only malformed input is rejected: a field that fails is not at the beginning of
\* an encoding of its type, or is to be copied and above the limit (ty.rs,
\* Ty::parse).
THEOREM OnlyMalformedRejected == Spec => []RejectsOnlyMalformed
<1>1. Inv /\ ItemsParsed => RejectsOnlyMalformed
  <2> SUFFICES ASSUME Inv, ItemsParsed, NEW i \in DOMAIN items, ~items[i].ok,
                      NEW n \in 0 .. Len(reader.buf) - items[i].from,
                      IsEncoding(items[i].def.ty,
                                 SubSeq(reader.buf, items[i].from + 1, items[i].from + n))
               PROVE  ~reader.borrows /\ n - Prefix(items[i].def.ty) > PreallocLimit
    BY DEF RejectsOnlyMalformed, Prefix
  <2> DEFINE it == items[i]
             t  == it.def.ty
             r  == [buf |-> reader.buf, pos |-> it.from, borrows |-> reader.borrows]
  <2>1. /\ t \in DynTy /\ Placed(r) /\ ~Parse(t, r).ok
        /\ r.pos = it.from /\ r.buf = reader.buf /\ r.borrows = reader.borrows
    BY ItemPlace
  <2>2. Len(reader.buf) \in Usize
    BY DecoderAssumption DEF Inv, TypeOK
  <2> HIDE DEF r
  <2>3. IsEncoding(t, Bytes(r, r.pos + n)) /\ n \in 0 .. Len(r.buf) - r.pos
    BY <2>1 DEF Bytes
  <2> HIDE DEF it, t
  <2>4. TooLong(r, n - Prefix(t))
    BY <2>1, <2>2, <2>3, ParseAccepts
  <2> QED
    BY <2>1, <2>4 DEF TooLong, t, it
<1> QED
  BY <1>1, AlwaysParsed, PTL
=============================================================================
