------------------------------ MODULE RustTypes ------------------------------
(***************************************************************************)
(* The Rust types a field of a derived container may have, their runtime   *)
(* types (DynTy and DynPrimitiveTy), and what wincode writes for them.     *)
(* wincode knows nothing of Ty: it goes by the Rust type.                  *)
(***************************************************************************)
EXTENDS Ty

RustPrimitive == {"u8", "u16", "u32", "u64", "i8", "i16", "i32", "i64",
                  "f32", "f64", "bool"}

RustTy ==
       [k : {"primitive"}, ty : RustPrimitive]
  \cup [k : {"String"}]
  \cup [k : {"Vec"}, ty : RustPrimitive]
  \cup [k : {"Array"}, ty : RustPrimitive, len : Usize]

\* Any type that does not implement DynTy.
Other == [k |-> "Other"]

\* The implementations of DynPrimitiveTy.
DynPrimitiveTy ==
  [u8 |-> "U8", u16 |-> "U16", u32 |-> "U32", u64 |-> "U64",
   i8 |-> "I8", i16 |-> "I16", i32 |-> "I32", i64 |-> "I64",
   f32 |-> "F32", f64 |-> "F64", bool |-> "Bool"]

\* Mutant: i8 is taken for a u8.
TYPE_Unsigned(t) ==
  LET prim == [DynPrimitiveTy EXCEPT !["i8"] = "U8"]
  IN  CASE t.k = "primitive" -> [k |-> "PrimitiveTy", ty |-> prim[t.ty]]
        [] t.k = "String"    -> [k |-> "String"]
        [] t.k = "Vec"       -> [k |-> "Vec", ty |-> prim[t.ty]]
        [] t.k = "Array"     -> [k |-> "Array", ty |-> prim[t.ty], len |-> t.len]

\* <T as DynTy>::TYPE.
TYPE(t) ==
  CASE t.k = "primitive" -> [k |-> "PrimitiveTy", ty |-> DynPrimitiveTy[t.ty]]
    [] t.k = "String"    -> [k |-> "String"]
    [] t.k = "Vec"       -> [k |-> "Vec", ty |-> DynPrimitiveTy[t.ty]]
    [] t.k = "Array"     -> [k |-> "Array", ty |-> DynPrimitiveTy[t.ty], len |-> t.len]

(***************************************************************************)
(* wincode.  A TypeMeta is <<n>> for Static { size: n } and <<>> for       *)
(* Dynamic.  A value stands for the Rust value it is the dynamic form of.  *)
(***************************************************************************)
SizeOf(p) ==
  CASE p \in {"u8", "i8", "bool"}   -> 1
    [] p \in {"u16", "i16"}         -> 2
    [] p \in {"u32", "i32", "f32"}  -> 4
    [] p \in {"u64", "i64", "f64"}  -> 8

\* TYPE_META, a compile-time constant: it cannot wrap.
TypeMeta(t) ==
  CASE t.k = "primitive"       -> <<SizeOf(t.ty)>>
    [] t.k \in {"String", "Vec"} -> <<>>
    [] t.k = "Array"           -> <<SizeOf(t.ty) * t.len>>

\* v is the dynamic form, its payload lent, of a value of type t that wincode can
\* serialize: one whose length its prefix can hold.
Holds(t, v) ==
  LET payload(k) == [k : {k}, raw : Seq(Byte), owned : {FALSE}]
      vector     == [k : {"Vec"}, ty : {DynPrimitiveTy[t.ty]}, len : Usize, raw : Seq(Byte), owned : {FALSE}]
      count      == IF v.k = "Vec" THEN v.len ELSE Len(v.raw)
  IN  IF t.k = "primitive"
      THEN v \in [k : {"Primitive"}, ty : {DynPrimitiveTy[t.ty]}, n : Int] /\ InRange(v.ty, v.n)
      ELSE /\ IF t.k = "String" THEN v \in payload("String") /\ ValidUtf8(v.raw)
              ELSE IF t.ty = "u8" THEN v \in payload("Bytes")
              ELSE v \in vector /\ Len(v.raw) = v.len * SizeOf(t.ty)
           /\ Len(v.raw) \in Usize
           /\ IF t.k = "Array" THEN count = t.len ELSE count < Span(LenWidth)

\* What SchemaWrite writes for a value of type t, with numbers and length
\* prefixes scale times as wide as they are under DefaultConfig.
Write(t, v, scale) ==
  CASE t.k = "primitive" -> LittleEndian(v.n, scale * SizeOf(t.ty))
    [] t.k \in {"String", "Vec"} ->
         LittleEndian(IF v.k = "Vec" THEN v.len ELSE Len(v.raw), scale * LenWidth) \o v.raw
    [] t.k = "Array" -> v.raw
=============================================================================
