---------------------------------- MODULE Ty ----------------------------------
(***************************************************************************)
(* Types, values, and how a value of a type is read (ty.rs and the scalar  *)
(* reads of value.rs).  A value keeps what the Rust value keeps: a scalar  *)
(* its number (a float its bits, a bool 0 or 1), a string, byte payload or *)
(* lazy vector its payload bytes and whether the Cow that holds them is    *)
(* Owned.  Option<usize> is <<>> for None and <<n>> for Some(n).           *)
(***************************************************************************)
EXTENDS Wincode

PrimitiveTy == {"U8", "U16", "U32", "U64", "I8", "I16", "I32", "I64",
                "F32", "F64", "Bool"}

PrimitiveSize(p) ==
  CASE p \in {"U8", "I8", "Bool"}   -> 1
    [] p \in {"U16", "I16"}         -> 2
    [] p \in {"U32", "I32", "F32"}  -> 4
    [] p \in {"U64", "I64", "F64"}  -> 8

Usize == 0 .. UsizeMax

DynTy ==
       [k : {"PrimitiveTy"}, ty : PrimitiveTy]
  \cup [k : {"String"}]
  \cup [k : {"Vec"}, ty : PrimitiveTy]
  \cup [k : {"Array"}, ty : PrimitiveTy, len : Usize]

Value ==
       [k : {"Primitive"}, ty : PrimitiveTy, n : Int]
  \cup [k : {"String", "Bytes"}, raw : Seq(Byte), owned : BOOLEAN]
  \cup [k : {"Vec"}, ty : PrimitiveTy, len : Usize, raw : Seq(Byte), owned : BOOLEAN]

\* A value, whoever owns its payload.
Plain(v) == IF v.k = "Primitive" THEN v ELSE [v EXCEPT !.owned = FALSE]

\* Value::size.
ValueSize(v) == IF v.k = "Primitive" THEN PrimitiveSize(v.ty) ELSE Len(v.raw)

\* Mutant: the width of an element is forgotten.
TySize_Elements(t) ==
  CASE t.k = "PrimitiveTy"       -> <<PrimitiveSize(t.ty)>>
    [] t.k \in {"String", "Vec"} -> <<>>
    [] t.k = "Array"             -> <<t.len>>

\* Ty::size.  The product is a plain usize multiplication, which wraps in a
\* release build.
TySize(t) ==
  CASE t.k = "PrimitiveTy"       -> <<PrimitiveSize(t.ty)>>
    [] t.k \in {"String", "Vec"} -> <<>>
    [] t.k = "Array"             -> <<(PrimitiveSize(t.ty) * t.len) % (UsizeMax + 1)>>

(***************************************************************************)
(* Scalars.                                                                *)
(***************************************************************************)
SignedTy == {"I8", "I16", "I32", "I64"}

\* Mutant: a signed integer is read as an unsigned one.
ReadPrimitive_Unsigned(p, r) ==
  LET o == Take(r, PrimitiveSize(p))
      n == Unsigned(o.val)
  IN  IF ~o.ok THEN o
      ELSE IF p = "Bool" /\ n \notin {0, 1}
           THEN Err("InvalidBoolEncoding", r, Somewhere(r))
      ELSE Ok([k |-> "Primitive", ty |-> p, n |-> n], o.pos)

\* A scalar as wincode reads it: any bytes are an integer or a float, a bool
\* is 0 or 1.
ReadPrimitive(p, r) ==
  LET o == Take(r, PrimitiveSize(p))
      n == IF p \in SignedTy THEN Signed(o.val) ELSE Unsigned(o.val)
  IN  IF ~o.ok THEN o
      ELSE IF p = "Bool" /\ n \notin {0, 1}
           THEN Err("InvalidBoolEncoding", r, Somewhere(r))
      ELSE Ok([k |-> "Primitive", ty |-> p, n |-> n], o.pos)

\* PrimitiveTy::parse_into_usize: reads a variant tag of any integer type.  Other
\* types are refused before anything is read, other numbers after it.
ParseIntoUsize(p, r) ==
  LET o == ReadPrimitive(p, r)
  IN  IF p \in {"F32", "F64", "Bool"} THEN Err("CannotCastToUsize", r, {r.pos})
      ELSE IF ~o.ok THEN o
      ELSE IF o.val.n \in Usize THEN Ok(o.val.n, o.pos)
      ELSE Err("CannotCastToUsize", r, {o.pos})

(***************************************************************************)
(* Payloads.                                                               *)
(***************************************************************************)
\* Mutants: the limit holds for lent bytes too, for no bytes, or is exclusive;
\* or what is left of the input is enough.
ReadBytePayload_AlwaysChecked(n, r) ==
  IF ~PreallocCheck(n, 1) THEN Err("PreallocationSizeLimit", r, {r.pos}) ELSE Take(r, n)

ReadBytePayload_Unchecked(n, r) == Take(r, n)

ReadBytePayload_Exclusive(n, r) ==
  IF ~r.borrows /\ ~PreallocCheck(n + 1, 1)
  THEN Err("PreallocationSizeLimit", r, {r.pos})
  ELSE Take(r, n)

ReadBytePayload_Short(n, r) ==
  Take(r, IF n <= Len(r.buf) - r.pos THEN n ELSE Len(r.buf) - r.pos)

ReadBytePayload(n, r) ==
  IF ~r.borrows /\ ~PreallocCheck(n, 1)
  THEN Err("PreallocationSizeLimit", r, {r.pos})
  ELSE Take(r, n)

\* Mutant: the plain product of a release build.
CheckedMul_Wrapping(a, b) == <<(a * b) % (UsizeMax + 1)>>

\* usize::checked_mul: None on overflow.
CheckedMul(a, b) == IF a * b \in Usize THEN <<a * b>> ELSE <<>>

ReadPrimitivePayload(p, len, r) ==
  LET byteLen == CheckedMul(len, PrimitiveSize(p))
      o       == ReadBytePayload(byteLen[1], r)
  IN  IF byteLen = <<>> THEN Err("LengthEncodingOverflow", r, {r.pos})
      ELSE IF ~o.ok THEN o
      ELSE Ok([k |-> "Vec", ty |-> p, len |-> len, raw |-> o.val, owned |-> ~r.borrows],
              o.pos)

\* .map(Value::String) and .map(Value::Bytes) on what a read returned.
InCow(k, o, r) ==
  IF o.ok THEN Ok([k |-> k, raw |-> o.val, owned |-> ~r.borrows], o.pos) ELSE o

(***************************************************************************)
(* Ty::parse.                                                              *)
(***************************************************************************)
ParseVec(p, r) ==
  LET len == ReadLen(r)
  IN  IF len.ok THEN ReadPrimitivePayload(p, len.val, At(r, len.pos)) ELSE len

Parse(t, r) ==
  CASE t.k = "PrimitiveTy"              -> ReadPrimitive(t.ty, r)
    [] t.k = "String"                   -> InCow("String", ReadCowStr(r), r)
    [] t.k = "Vec" /\ t.ty = "U8"       -> InCow("Bytes", ReadCowBytes(r), r)
    [] t.k = "Vec" /\ t.ty # "U8"       -> ParseVec(t.ty, r)
    [] t.k = "Array" /\ t.ty = "U8"     -> InCow("Bytes", ReadBytePayload(t.len, r), r)
    [] t.k = "Array" /\ t.ty # "U8"     -> ReadPrimitivePayload(t.ty, t.len, r)

(***************************************************************************)
(* The wire format, for the properties: the numbers of a scalar type, what *)
(* wincode's serializer writes for a value of a type, and which byte       *)
(* sequences it can have written.                                          *)
(***************************************************************************)
InRange(p, n) ==
  LET span == Span(PrimitiveSize(p))
  IN  CASE p = "Bool"       -> n \in {0, 1}
        [] p \in SignedTy   -> -(span \div 2) <= n /\ n < span \div 2
        [] OTHER            -> 0 <= n /\ n < span

Encode(t, v) ==
  LET prefix == IF t.k \notin {"String", "Vec"} THEN <<>>
                ELSE LittleEndian(IF v.k = "Vec" THEN v.len ELSE Len(v.raw), LenWidth)
  IN  IF v.k = "Primitive" THEN LittleEndian(v.n, PrimitiveSize(v.ty))
                           ELSE prefix \o v.raw

IsEncoding(t, bs) ==
  LET n          == Len(bs)
      prefixed(c) == n >= LenWidth /\ c < Span(LenWidth) /\ SubSeq(bs, 1, LenWidth) = LittleEndian(c, LenWidth)
  IN  CASE t.k = "PrimitiveTy" -> n = PrimitiveSize(t.ty) /\ (t.ty = "Bool" => bs[1] \in {0, 1})
        [] t.k = "String"      -> prefixed(n - LenWidth) /\ ValidUtf8(SubSeq(bs, LenWidth + 1, n))
        [] t.k = "Vec"         -> \E c \in 0 .. n : n = LenWidth + c * PrimitiveSize(t.ty) /\ prefixed(c)
        [] t.k = "Array"       -> n = t.len * PrimitiveSize(t.ty)
=============================================================================
