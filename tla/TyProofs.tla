------------------------------- MODULE TyProofs -------------------------------
(***************************************************************************)
(* What reading a value returns, for every type and every input, and that  *)
(* decoding is the inverse of encoding.                                    *)
(***************************************************************************)
EXTENDS Ty, IntegerProofs

\* A reader inside its input.
Placed(r) == r \in Reader /\ r.pos <= Len(r.buf)

\* o is what a read of a value in S from r may return.
Outcome(o, r, S) ==
  /\ o.ok \in BOOLEAN
  /\ IF o.ok THEN o.val \in S ELSE o.val \in ReadError
  /\ o.pos \in r.pos .. Len(r.buf)
  /\ o.left \subseteq r.pos .. Len(r.buf)
  /\ o.ok => o.left = {o.pos}

\* A lazy vector's payload is len elements wide.
Exact(v) == v.k = "Vec" => Len(v.raw) = v.len * PrimitiveSize(v.ty) /\ Len(v.raw) \in Usize

\* A payload that was copied is within the limit.
Within(v) == v.k # "Primitive" /\ v.owned => Len(v.raw) <= PreallocLimit

Readable == {v \in Value : Exact(v) /\ Within(v)}

-----------------------------------------------------------------------------
LEMMA PrimitiveSizeType ==
  ASSUME NEW p \in PrimitiveTy
  PROVE  PrimitiveSize(p) \in {1, 2, 4, 8}
BY DEF PrimitiveTy, PrimitiveSize

\* A slice of a byte sequence.
LEMMA SliceBytes ==
  ASSUME NEW s \in Seq(Byte), NEW m \in Nat, NEW n \in Nat, m <= n, n <= Len(s)
  PROVE  /\ SubSeq(s, m + 1, n) \in Seq(Byte) /\ Len(SubSeq(s, m + 1, n)) = n - m
         /\ \A k \in 1 .. n - m : SubSeq(s, m + 1, n)[k] = s[m + k]
<1>1. \A j \in m + 1 .. n : s[j] \in Byte
  BY ElementOfSeq
<1>2. /\ SubSeq(s, m + 1, n) \in Seq(Byte)
      /\ Len(SubSeq(s, m + 1, n)) = IF m + 1 <= n THEN n - (m + 1) + 1 ELSE 0
      /\ \A k \in 1 .. n - (m + 1) + 1 : SubSeq(s, m + 1, n)[k] = s[m + 1 + k - 1]
  BY <1>1, SubSeqProperties
<1>3. \A k \in 1 .. n - m : k \in 1 .. n - (m + 1) + 1 /\ m + 1 + k - 1 = m + k
  OBVIOUS
<1> QED
  BY <1>2, <1>3

\* Taking n bytes returns n bytes.
LEMMA TakeResult ==
  ASSUME NEW r, Placed(r), NEW n \in Nat
  PROVE  /\ Outcome(Take(r, n), r, Seq(Byte))
         /\ Take(r, n).ok => Len(Take(r, n).val) = n
<1>1. r.buf \in Seq(Byte) /\ r.pos \in Nat /\ r.pos <= Len(r.buf)
  BY DEF Placed, Reader
<1>2. CASE n <= Len(r.buf) - r.pos
  <2> DEFINE bs == SubSeq(r.buf, r.pos + 1, r.pos + n)
  <2>1. bs \in Seq(Byte) /\ Len(bs) = n
    <3>1. r.pos + n \in Nat /\ r.pos <= r.pos + n /\ r.pos + n <= Len(r.buf) /\ (r.pos + n) - r.pos = n
      BY <1>1, <1>2
    <3> QED
      BY <1>1, <3>1, SliceBytes
  <2>2. Take(r, n) = Ok(bs, r.pos + n)
    BY <1>2 DEF Take
  <2> HIDE DEF bs
  <2> QED
    BY <1>1, <1>2, <2>1, <2>2 DEF Ok, Outcome
<1>3. CASE ~(n <= Len(r.buf) - r.pos)
  BY <1>1, <1>3 DEF Take, Err, Somewhere, Outcome, ReadError
<1> QED
  BY <1>2, <1>3

\* Moving a reader forward inside its input.
LEMMA AtResult ==
  ASSUME NEW r, Placed(r), NEW p \in r.pos .. Len(r.buf)
  PROVE  /\ Placed(At(r, p))
         /\ At(r, p).pos = p /\ At(r, p).buf = r.buf /\ At(r, p).borrows = r.borrows
         /\ \A o, S : Outcome(o, At(r, p), S) => Outcome(o, r, S)
<1>1. r.buf \in Seq(Byte) /\ r.pos \in Nat /\ r.pos <= Len(r.buf) /\ Len(r.buf) \in Nat
  BY DEF Placed, Reader
<1>2. At(r, p) \in Reader /\ At(r, p).pos = p /\ At(r, p).buf = r.buf
        /\ At(r, p).borrows = r.borrows
  BY <1>1 DEF Placed, Reader, At
<1>3. ASSUME NEW o, NEW S, Outcome(o, At(r, p), S) PROVE Outcome(o, r, S)
  BY <1>1, <1>2, <1>3 DEF Outcome
<1> QED
  BY <1>1, <1>2, <1>3 DEF Placed

\* A failed read may leave the reader anywhere in the rest of the input.
LEMMA ErrResult ==
  ASSUME NEW r, Placed(r), NEW e \in ReadError, NEW S
  PROVE  Outcome(Err(e, r, Somewhere(r)), r, S) /\ Outcome(Err(e, r, {r.pos}), r, S)
<1>1. r.pos \in Nat /\ r.pos <= Len(r.buf) /\ Len(r.buf) \in Nat
  BY DEF Placed, Reader
<1> QED
  BY <1>1 DEF Err, Somewhere, Outcome

\* A read that fails, fails for whatever it was to return.
LEMMA FailedResult ==
  ASSUME NEW o, NEW r, NEW S, NEW T, Outcome(o, r, S), ~o.ok
  PROVE  Outcome(o, r, T)
BY DEF Outcome

LEMMA OkResult ==
  ASSUME NEW r, Placed(r), NEW p \in r.pos .. Len(r.buf), NEW S, NEW v \in S
  PROVE  Outcome(Ok(v, p), r, S) /\ Ok(v, p).ok /\ Ok(v, p).val = v
BY DEF Outcome, Ok

-----------------------------------------------------------------------------
(***************************************************************************)
(* The reads that parse is made of.                                        *)
(***************************************************************************)
Scalar == [k : {"Primitive"}, ty : PrimitiveTy, n : Int]

LEMMA ReadPrimitiveResult ==
  ASSUME NEW p \in PrimitiveTy, NEW r, Placed(r)
  PROVE  Outcome(ReadPrimitive(p, r), r, Scalar)
<1> DEFINE o == Take(r, PrimitiveSize(p))
           n == IF p \in SignedTy THEN Signed(o.val) ELSE Unsigned(o.val)
           v == [k |-> "Primitive", ty |-> p, n |-> n]
<1>1. Outcome(o, r, Seq(Byte)) /\ (o.ok => Len(o.val) = PrimitiveSize(p))
  BY PrimitiveSizeType, TakeResult
<1>2. ReadPrimitive(p, r) = IF ~o.ok THEN o
                            ELSE IF p = "Bool" /\ n \notin {0, 1}
                                 THEN Err("InvalidBoolEncoding", r, Somewhere(r))
                            ELSE Ok(v, o.pos)
  BY DEF ReadPrimitive
<1>3. CASE ~o.ok
  <2> HIDE DEF o
  <2> QED
    BY <1>1, <1>2, <1>3, FailedResult
<1>4. CASE o.ok /\ p = "Bool" /\ n \notin {0, 1}
  <2> HIDE DEF o, n
  <2>1. "InvalidBoolEncoding" \in ReadError
    BY DEF ReadError
  <2> QED
    BY <1>2, <1>4, <2>1, ErrResult
<1>5. CASE o.ok /\ ~(p = "Bool" /\ n \notin {0, 1})
  <2>1. o.val \in Seq(Byte) /\ Len(o.val) \in {1, 2, 4, 8} /\ o.pos \in r.pos .. Len(r.buf)
    BY <1>1, <1>5, PrimitiveSizeType DEF Outcome
  <2>2. o.val \in Seq(Int)
    BY <2>1, BaseType DEF Byte
  <2>3. n \in Int
    BY <2>1, <2>2, SignedType, UnsignedType
  <2> HIDE DEF o, n
  <2>4. v \in Scalar
    BY <2>3 DEF Scalar
  <2> HIDE DEF v
  <2> QED
    BY <1>2, <1>5, <2>1, <2>4, OkResult
<1> QED
  BY <1>3, <1>4, <1>5

LEMMA ParseIntoUsizeResult ==
  ASSUME NEW p \in PrimitiveTy, NEW r, Placed(r)
  PROVE  Outcome(ParseIntoUsize(p, r), r, Usize)
<1> DEFINE o == ReadPrimitive(p, r)
<1>1. Outcome(o, r, Scalar)
  BY ReadPrimitiveResult
<1>2. "CannotCastToUsize" \in ReadError
  BY DEF ReadError
<1>3. ParseIntoUsize(p, r) =
        IF p \in {"F32", "F64", "Bool"} THEN Err("CannotCastToUsize", r, {r.pos})
        ELSE IF ~o.ok THEN o
        ELSE IF o.val.n \in Usize THEN Ok(o.val.n, o.pos)
        ELSE Err("CannotCastToUsize", r, {o.pos})
  BY DEF ParseIntoUsize
<1> HIDE DEF o
<1>4. CASE p \in {"F32", "F64", "Bool"}
  BY <1>2, <1>3, <1>4, ErrResult
<1>5. CASE p \notin {"F32", "F64", "Bool"} /\ ~o.ok
  BY <1>1, <1>3, <1>5, FailedResult
<1>6. CASE p \notin {"F32", "F64", "Bool"} /\ o.ok
  <2>1. o.pos \in r.pos .. Len(r.buf)
    BY <1>1 DEF Outcome
  <2>2. r.pos \in Nat /\ r.pos <= Len(r.buf) /\ Len(r.buf) \in Nat
    BY DEF Placed, Reader
  <2> QED
    BY <1>2, <1>3, <1>6, <2>1, <2>2 DEF Outcome, Ok, Err
<1> QED
  BY <1>4, <1>5, <1>6

LEMMA ReadLenResult ==
  ASSUME NEW r, Placed(r)
  PROVE  Outcome(ReadLen(r), r, Usize)
<1> DEFINE o == Take(r, LenWidth)
<1>1. Outcome(o, r, Seq(Byte))
  BY WincodeAssumption, TakeResult
<1>2. "LengthEncodingOverflow" \in ReadError
  BY DEF ReadError
<1>3. ReadLen(r) = IF ~o.ok THEN o
                   ELSE IF Unsigned(o.val) \in 0 .. UsizeMax THEN Ok(Unsigned(o.val), o.pos)
                   ELSE Err("LengthEncodingOverflow", r, Somewhere(r))
  BY DEF ReadLen
<1> HIDE DEF o
<1>4. o.pos \in r.pos .. Len(r.buf)
  BY <1>1 DEF Outcome
<1>5. CASE ~o.ok
  BY <1>1, <1>3, <1>5, FailedResult
<1>6. CASE o.ok /\ Unsigned(o.val) \in 0 .. UsizeMax
  <2>1. Unsigned(o.val) \in Usize
    BY <1>6 DEF Usize
  <2> QED
    BY <1>3, <1>4, <1>6, <2>1, OkResult
<1>7. CASE o.ok /\ Unsigned(o.val) \notin 0 .. UsizeMax
  BY <1>2, <1>3, <1>7, ErrResult
<1> QED
  BY <1>5, <1>6, <1>7

\* The payload a read of bytes returns, which is copied if the reader cannot lend it.
Bounded(o, r) == o.ok /\ ~r.borrows => Len(o.val) <= PreallocLimit

LEMMA ReadBytePayloadResult ==
  ASSUME NEW r, Placed(r), NEW n \in Nat
  PROVE  LET o == ReadBytePayload(n, r)
         IN  Outcome(o, r, Seq(Byte)) /\ Bounded(o, r) /\ (o.ok => Len(o.val) = n)
<1> DEFINE o == Take(r, n)
<1>1. Outcome(o, r, Seq(Byte)) /\ (o.ok => Len(o.val) = n)
  BY TakeResult
<1>2. CASE ~r.borrows /\ ~PreallocCheck(n, 1)
  <2> DEFINE e == Err("PreallocationSizeLimit", r, {r.pos})
  <2>1. ReadBytePayload(n, r) = e
    BY <1>2 DEF ReadBytePayload
  <2>2. Outcome(e, r, Seq(Byte)) /\ ~e.ok
    BY ErrResult DEF ReadError, Err
  <2> QED
    BY <2>1, <2>2 DEF Bounded
<1>3. CASE r.borrows \/ PreallocCheck(n, 1)
  <2>1. ReadBytePayload(n, r) = o
    BY <1>3 DEF ReadBytePayload
  <2>2. PreallocCheck(n, 1) => n <= PreallocLimit
    BY DEF PreallocCheck
  <2> HIDE DEF o
  <2> QED
    BY <1>1, <1>3, <2>1, <2>2 DEF Bounded
<1> QED
  BY <1>2, <1>3

LEMMA ReadCowBytesResult ==
  ASSUME NEW r, Placed(r)
  PROVE  Outcome(ReadCowBytes(r), r, Seq(Byte)) /\ Bounded(ReadCowBytes(r), r)
<1> DEFINE n == ReadLen(r)
           o == Take(At(r, n.pos), n.val)
           e == Err("PreallocationSizeLimit", r, Somewhere(r))
<1>1. Outcome(n, r, Usize)
  BY ReadLenResult
<1>2. ReadCowBytes(r) = IF ~n.ok THEN n
                        ELSE IF ~r.borrows /\ ~PreallocCheck(n.val, 1) THEN e ELSE o
  BY DEF ReadCowBytes
<1>3. Outcome(e, r, Seq(Byte)) /\ ~e.ok
  BY ErrResult DEF ReadError, Err
<1>4. CASE ~n.ok
  <2> HIDE DEF n
  <2> QED
    BY <1>1, <1>2, <1>4, FailedResult DEF Bounded
<1>5. CASE n.ok /\ ~r.borrows /\ ~PreallocCheck(n.val, 1)
  BY <1>2, <1>3, <1>5 DEF Bounded
<1>6. CASE n.ok /\ (r.borrows \/ PreallocCheck(n.val, 1))
  <2>1. n.val \in Nat /\ n.pos \in r.pos .. Len(r.buf)
    BY <1>1, <1>6 DEF Outcome, Usize
  <2> HIDE DEF n
  <2>2. Placed(At(r, n.pos))
    BY <2>1, AtResult
  <2>3. Outcome(o, At(r, n.pos), Seq(Byte)) /\ (o.ok => Len(o.val) = n.val)
    BY <2>1, <2>2, TakeResult
  <2>4. Outcome(o, r, Seq(Byte))
    BY <2>1, <2>3, AtResult
  <2>5. PreallocCheck(n.val, 1) => n.val <= PreallocLimit
    BY <2>1 DEF PreallocCheck
  <2> HIDE DEF o
  <2> QED
    BY <1>2, <1>6, <2>3, <2>4, <2>5 DEF Bounded
<1> QED
  BY <1>4, <1>5, <1>6

LEMMA ReadCowStrResult ==
  ASSUME NEW r, Placed(r)
  PROVE  Outcome(ReadCowStr(r), r, Seq(Byte)) /\ Bounded(ReadCowStr(r), r)
<1> DEFINE o == ReadCowBytes(r)
           e == Err("InvalidUtf8Encoding", r, Somewhere(r))
<1>1. Outcome(o, r, Seq(Byte)) /\ Bounded(o, r)
  BY ReadCowBytesResult
<1>2. ReadCowStr(r) = e \/ ReadCowStr(r) = o
  BY DEF ReadCowStr
<1>3. Outcome(e, r, Seq(Byte)) /\ ~e.ok
  BY ErrResult DEF ReadError, Err
<1> QED
  BY <1>1, <1>2, <1>3 DEF Bounded

\* A string or byte value.
LEMMA InCowResult ==
  ASSUME NEW r, Placed(r), NEW o, Outcome(o, r, Seq(Byte)), Bounded(o, r),
         NEW k \in {"String", "Bytes"}
  PROVE  Outcome(InCow(k, o, r), r, Readable)
<1> DEFINE v == [k |-> k, raw |-> o.val, owned |-> ~r.borrows]
<1>1. CASE o.ok
  <2>1. v \in Value /\ Exact(v)
    BY <1>1 DEF Outcome, Value, Exact
  <2>2. Within(v)
    BY <1>1 DEF Within, Bounded
  <2>3. v \in Readable
    BY <2>1, <2>2 DEF Readable
  <2>4. InCow(k, o, r) = Ok(v, o.pos) /\ o.pos \in r.pos .. Len(r.buf)
    BY <1>1 DEF InCow, Outcome
  <2> HIDE DEF v
  <2> QED
    BY <2>3, <2>4, OkResult
<1>2. CASE ~o.ok
  BY <1>2, FailedResult DEF InCow
<1> QED
  BY <1>1, <1>2

\* A lazy vector: this is where the checked product makes its payload exact.
LEMMA ReadPrimitivePayloadResult ==
  ASSUME NEW p \in PrimitiveTy, NEW len \in Usize, NEW r, Placed(r)
  PROVE  Outcome(ReadPrimitivePayload(p, len, r), r, Readable)
<1> DEFINE n  == len * PrimitiveSize(p)
           o  == ReadBytePayload(n, r)
           v  == [k |-> "Vec", ty |-> p, len |-> len, raw |-> o.val, owned |-> ~r.borrows]
<1>1. n \in Nat /\ len \in Nat
  BY PrimitiveSizeType, WincodeAssumption DEF Usize
<1>2. CASE n \notin Usize
  <2>1. CheckedMul(len, PrimitiveSize(p)) = <<>>
    BY <1>2 DEF CheckedMul
  <2>2. ReadPrimitivePayload(p, len, r) = Err("LengthEncodingOverflow", r, {r.pos})
    BY <2>1 DEF ReadPrimitivePayload
  <2> QED
    BY <2>2, ErrResult DEF ReadError
<1>3. CASE n \in Usize
  <2>1. CheckedMul(len, PrimitiveSize(p)) = <<n>>
    BY <1>3 DEF CheckedMul
  <2>2. ReadPrimitivePayload(p, len, r) = IF ~o.ok THEN o ELSE Ok(v, o.pos)
    BY <2>1 DEF ReadPrimitivePayload
  <2>3. Outcome(o, r, Seq(Byte)) /\ Bounded(o, r) /\ (o.ok => Len(o.val) = n)
    BY <1>1, ReadBytePayloadResult
  <2> HIDE DEF o
  <2>4. CASE ~o.ok
    BY <2>2, <2>3, <2>4, FailedResult
  <2>5. CASE o.ok
    <3>1. v \in Value
      BY <2>3, <2>5 DEF Outcome, Value
    <3>2. Exact(v) /\ Within(v)
      BY <1>3, <2>3, <2>5 DEF Exact, Within, Bounded
    <3>3. v \in Readable /\ o.pos \in r.pos .. Len(r.buf)
      BY <2>3, <3>1, <3>2 DEF Readable, Outcome
    <3> HIDE DEF v
    <3> QED
      BY <2>2, <2>5, <3>3, OkResult
  <2> QED
    BY <2>4, <2>5
<1> QED
  BY <1>2, <1>3

LEMMA ParseVecResult ==
  ASSUME NEW p \in PrimitiveTy, NEW r, Placed(r)
  PROVE  Outcome(ParseVec(p, r), r, Readable)
<1> DEFINE len == ReadLen(r)
           o   == ReadPrimitivePayload(p, len.val, At(r, len.pos))
<1>1. Outcome(len, r, Usize)
  BY ReadLenResult
<1>2. ParseVec(p, r) = IF len.ok THEN o ELSE len
  BY DEF ParseVec
<1> HIDE DEF len
<1>3. CASE ~len.ok
  BY <1>1, <1>2, <1>3, FailedResult
<1>4. CASE len.ok
  <2>1. len.val \in Usize /\ len.pos \in r.pos .. Len(r.buf)
    BY <1>1, <1>4 DEF Outcome
  <2>2. Outcome(o, At(r, len.pos), Readable)
    BY <2>1, AtResult, ReadPrimitivePayloadResult
  <2> QED
    BY <1>2, <1>4, <2>1, <2>2, AtResult
<1> QED
  BY <1>3, <1>4

-----------------------------------------------------------------------------
\* Parsing returns a value of the Value type whose payload is exact if it is a lazy
\* vector (value.rs:147) and within the limit if it was copied (ty.rs:18), or an
\* error, and leaves the reader where it was or further on in its input.
THEOREM ParseResult ==
  ASSUME NEW t \in DynTy, NEW r, Placed(r)
  PROVE  Outcome(Parse(t, r), r, Readable)
<1>1. CASE t.k = "PrimitiveTy"
  <2>1. t.ty \in PrimitiveTy /\ Parse(t, r) = ReadPrimitive(t.ty, r)
    BY <1>1 DEF DynTy, Parse
  <2>2. Outcome(ReadPrimitive(t.ty, r), r, Scalar)
    BY <2>1, ReadPrimitiveResult
  <2>3. Scalar \subseteq Readable
    BY DEF Scalar, Readable, Value, Exact, Within
  <2> QED
    BY <2>1, <2>2, <2>3 DEF Outcome
<1>2. CASE t.k = "String"
  <2>1. Parse(t, r) = InCow("String", ReadCowStr(r), r)
    BY <1>2 DEF Parse
  <2> QED
    BY <2>1, ReadCowStrResult, InCowResult
<1>3. CASE t.k = "Vec"
  <2>1. t.ty \in PrimitiveTy
    BY <1>3 DEF DynTy
  <2>2. CASE t.ty = "U8"
    <3>1. Parse(t, r) = InCow("Bytes", ReadCowBytes(r), r)
      BY <1>3, <2>2 DEF Parse
    <3> QED
      BY <3>1, ReadCowBytesResult, InCowResult
  <2>3. CASE t.ty # "U8"
    <3>1. Parse(t, r) = ParseVec(t.ty, r)
      BY <1>3, <2>3 DEF Parse
    <3> QED
      BY <2>1, <3>1, ParseVecResult
  <2> QED
    BY <2>2, <2>3
<1>4. CASE t.k = "Array"
  <2>1. t.ty \in PrimitiveTy /\ t.len \in Usize /\ t.len \in Nat
    BY <1>4, WincodeAssumption DEF DynTy, Usize
  <2>2. CASE t.ty = "U8"
    <3>1. Parse(t, r) = InCow("Bytes", ReadBytePayload(t.len, r), r)
      BY <1>4, <2>2 DEF Parse
    <3>2. Outcome(ReadBytePayload(t.len, r), r, Seq(Byte)) /\ Bounded(ReadBytePayload(t.len, r), r)
      BY <2>1, ReadBytePayloadResult
    <3> QED
      BY <3>1, <3>2, InCowResult
  <2>3. CASE t.ty # "U8"
    <3>1. Parse(t, r) = ReadPrimitivePayload(t.ty, t.len, r)
      BY <1>4, <2>3 DEF Parse
    <3> QED
      BY <2>1, <3>1, ReadPrimitivePayloadResult
  <2> QED
    BY <2>2, <2>3
<1> QED
  BY <1>1, <1>2, <1>3, <1>4 DEF DynTy

-----------------------------------------------------------------------------
(***************************************************************************)
(* How much a read that succeeds consumes.                                 *)
(***************************************************************************)
LEMMA TakeWidth ==
  ASSUME NEW r, Placed(r), NEW n \in Nat, Take(r, n).ok
  PROVE  /\ Take(r, n).pos = r.pos + n /\ r.pos + n <= Len(r.buf)
         /\ Take(r, n).val = SubSeq(r.buf, r.pos + 1, r.pos + n)
<1>1. r.pos \in Nat /\ Len(r.buf) \in Nat
  BY DEF Placed, Reader
<1>2. CASE n <= Len(r.buf) - r.pos
  <2> DEFINE bs == SubSeq(r.buf, r.pos + 1, r.pos + n)
  <2>1. Take(r, n) = Ok(bs, r.pos + n)
    BY <1>2 DEF Take
  <2> HIDE DEF bs
  <2>2. Take(r, n).val = bs /\ Take(r, n).pos = r.pos + n
    BY <2>1 DEF Ok
  <2>3. r.pos + n <= Len(r.buf)
    BY <1>1, <1>2
  <2> QED
    BY <2>2, <2>3 DEF bs
<1>3. CASE ~(n <= Len(r.buf) - r.pos)
  <2>1. Take(r, n) = Err("ReadSizeLimit", r, Somewhere(r))
    BY <1>3 DEF Take
  <2> QED
    BY <2>1 DEF Err
<1> QED
  BY <1>2, <1>3

LEMMA ReadBytePayloadWidth ==
  ASSUME NEW r, Placed(r), NEW n \in Nat, ReadBytePayload(n, r).ok
  PROVE  /\ ReadBytePayload(n, r).pos = r.pos + n
         /\ Len(ReadBytePayload(n, r).val) = n
<1>1. ReadBytePayload(n, r) = Take(r, n)
  BY DEF ReadBytePayload, Err
<1> QED
  BY <1>1, TakeWidth, ReadBytePayloadResult

LEMMA ReadPrimitiveWidth ==
  ASSUME NEW p \in PrimitiveTy, NEW r, Placed(r), ReadPrimitive(p, r).ok
  PROVE  /\ ReadPrimitive(p, r).pos = r.pos + PrimitiveSize(p)
         /\ ReadPrimitive(p, r).val.k = "Primitive" /\ ReadPrimitive(p, r).val.ty = p
<1> DEFINE o == Take(r, PrimitiveSize(p))
           n == IF p \in SignedTy THEN Signed(o.val) ELSE Unsigned(o.val)
           v == [k |-> "Primitive", ty |-> p, n |-> n]
<1>1. ReadPrimitive(p, r) = IF ~o.ok THEN o
                            ELSE IF p = "Bool" /\ n \notin {0, 1}
                                 THEN Err("InvalidBoolEncoding", r, Somewhere(r))
                            ELSE Ok(v, o.pos)
  BY DEF ReadPrimitive
<1>2. v.k = "Primitive" /\ v.ty = p
  OBVIOUS
<1>3. PrimitiveSize(p) \in Nat
  BY PrimitiveSizeType
<1>4. o.ok => o.pos = r.pos + PrimitiveSize(p)
  BY <1>3, TakeWidth
<1> HIDE DEF o, n, v
<1>5. o.ok /\ ReadPrimitive(p, r) = Ok(v, o.pos)
  <2>1. ~Err("InvalidBoolEncoding", r, Somewhere(r)).ok
    BY DEF Err
  <2> QED
    BY <1>1, <2>1
<1> QED
  BY <1>2, <1>4, <1>5 DEF Ok

\* The length that ReadLen returns is that of the bytes before it ends.
LEMMA ReadLenWidth ==
  ASSUME NEW r, Placed(r), ReadLen(r).ok
  PROVE  /\ ReadLen(r).pos = r.pos + LenWidth /\ r.pos + LenWidth <= Len(r.buf)
         /\ ReadLen(r).val = Unsigned(SubSeq(r.buf, r.pos + 1, r.pos + LenWidth))
         /\ ReadLen(r).val \in Usize
<1> DEFINE o == Take(r, LenWidth)
           bs == SubSeq(r.buf, r.pos + 1, r.pos + LenWidth)
<1>1. ReadLen(r) = IF ~o.ok THEN o
                   ELSE IF Unsigned(o.val) \in 0 .. UsizeMax THEN Ok(Unsigned(o.val), o.pos)
                   ELSE Err("LengthEncodingOverflow", r, Somewhere(r))
  BY DEF ReadLen
<1>2. o.ok => o.pos = r.pos + LenWidth /\ r.pos + LenWidth <= Len(r.buf) /\ o.val = bs
  BY WincodeAssumption, TakeWidth
<1> HIDE DEF o, bs
<1>3. o.ok /\ Unsigned(o.val) \in 0 .. UsizeMax /\ ReadLen(r) = Ok(Unsigned(o.val), o.pos)
  <2>1. ~Err("LengthEncodingOverflow", r, Somewhere(r)).ok
    BY DEF Err
  <2> QED
    BY <1>1, <2>1
<1>4. ReadLen(r).pos = o.pos /\ ReadLen(r).val = Unsigned(o.val)
  BY <1>3 DEF Ok
<1>5. Unsigned(o.val) \in Usize
  BY <1>3 DEF Usize
<1> QED
  BY <1>2, <1>3, <1>4, <1>5 DEF bs

LEMMA ReadCowBytesWidth ==
  ASSUME NEW r, Placed(r), ReadCowBytes(r).ok
  PROVE  /\ ReadLen(r).ok
         /\ ReadCowBytes(r).pos = r.pos + LenWidth + ReadLen(r).val
         /\ Len(ReadCowBytes(r).val) = ReadLen(r).val
<1> DEFINE n == ReadLen(r)
           o == Take(At(r, n.pos), n.val)
<1>1. ReadCowBytes(r) = IF ~n.ok THEN n
                        ELSE IF ~r.borrows /\ ~PreallocCheck(n.val, 1)
                             THEN Err("PreallocationSizeLimit", r, Somewhere(r)) ELSE o
  BY DEF ReadCowBytes
<1>2. n.ok /\ ReadCowBytes(r) = o
  <2>1. ~Err("PreallocationSizeLimit", r, Somewhere(r)).ok
    BY DEF Err
  <2> HIDE DEF n, o
  <2> QED
    BY <1>1, <2>1
<1>3. n.val \in Nat /\ n.pos = r.pos + LenWidth /\ n.pos \in r.pos .. Len(r.buf)
  <2>1. Outcome(n, r, Usize)
    BY ReadLenResult
  <2> QED
    BY <1>2, <2>1, ReadLenWidth DEF Outcome, Usize
<1>4. Placed(At(r, n.pos)) /\ At(r, n.pos).pos = n.pos
  BY <1>3, AtResult
<1>5. o.pos = n.pos + n.val /\ Len(o.val) = n.val
  <2> HIDE DEF n
  <2>1. o.ok
    BY <1>2
  <2> QED
    BY <1>3, <1>4, <2>1, TakeWidth, TakeResult
<1> QED
  BY <1>2, <1>3, <1>5

LEMMA ReadPrimitivePayloadWidth ==
  ASSUME NEW p \in PrimitiveTy, NEW len \in Usize, NEW r, Placed(r),
         ReadPrimitivePayload(p, len, r).ok
  PROVE  LET o == ReadPrimitivePayload(p, len, r)
         IN  /\ o.pos = r.pos + len * PrimitiveSize(p)
             /\ len * PrimitiveSize(p) \in Usize
             /\ o.val.k = "Vec" /\ Len(o.val.raw) = len * PrimitiveSize(p)
<1> DEFINE n == len * PrimitiveSize(p)
           o == ReadBytePayload(n, r)
           v == [k |-> "Vec", ty |-> p, len |-> len, raw |-> o.val, owned |-> ~r.borrows]
<1>1. n \in Nat
  BY PrimitiveSizeType, WincodeAssumption DEF Usize
<1>2. n \in Usize
  <2> SUFFICES ASSUME n \notin Usize PROVE FALSE
    OBVIOUS
  <2>1. CheckedMul(len, PrimitiveSize(p)) = <<>>
    BY DEF CheckedMul
  <2>2. ReadPrimitivePayload(p, len, r) = Err("LengthEncodingOverflow", r, {r.pos})
    BY <2>1 DEF ReadPrimitivePayload
  <2> QED
    BY <2>2 DEF Err
<1>3. ReadPrimitivePayload(p, len, r) = IF ~o.ok THEN o ELSE Ok(v, o.pos)
  <2>1. CheckedMul(len, PrimitiveSize(p)) = <<n>>
    BY <1>2 DEF CheckedMul
  <2> QED
    BY <2>1 DEF ReadPrimitivePayload
<1>4. o.ok => o.pos = r.pos + n /\ Len(o.val) = n
  BY <1>1, ReadBytePayloadWidth
<1>5. v.k = "Vec" /\ v.raw = o.val
  OBVIOUS
<1> HIDE DEF o, v
<1>6. o.ok /\ ReadPrimitivePayload(p, len, r) = Ok(v, o.pos)
  BY <1>3
<1> QED
  BY <1>2, <1>4, <1>5, <1>6 DEF Ok

LEMMA ParseVecWidth ==
  ASSUME NEW p \in PrimitiveTy, NEW r, Placed(r), ParseVec(p, r).ok
  PROVE  LET o == ParseVec(p, r)
         IN  /\ ReadLen(r).ok
             /\ o.pos = r.pos + LenWidth + ReadLen(r).val * PrimitiveSize(p)
             /\ o.val.k = "Vec" /\ Len(o.val.raw) = ReadLen(r).val * PrimitiveSize(p)
<1> DEFINE len == ReadLen(r)
           o   == ReadPrimitivePayload(p, len.val, At(r, len.pos))
<1>1. len.ok /\ ParseVec(p, r) = o
  <2>1. ParseVec(p, r) = IF len.ok THEN o ELSE len
    BY DEF ParseVec
  <2> HIDE DEF len, o
  <2> QED
    BY <2>1
<1>2. len.val \in Usize /\ len.pos = r.pos + LenWidth /\ len.pos \in r.pos .. Len(r.buf)
  BY <1>1, ReadLenWidth, ReadLenResult DEF Outcome
<1>3. Placed(At(r, len.pos)) /\ At(r, len.pos).pos = len.pos
  BY <1>2, AtResult
<1>4. /\ o.pos = len.pos + len.val * PrimitiveSize(p)
      /\ o.val.k = "Vec" /\ Len(o.val.raw) = len.val * PrimitiveSize(p)
  <2>1. o.ok
    BY <1>1
  <2> HIDE DEF len
  <2> QED
    BY <1>2, <1>3, <2>1, ReadPrimitivePayloadWidth
<1> QED
  BY <1>1, <1>2, <1>4

\* The width of an element after a length prefix.
ElementWidth(t) == IF t.k = "Vec" THEN PrimitiveSize(t.ty) ELSE 1

\* A type with a fixed size is that wide, and any other is a length prefix and as
\* many elements as it says.
LEMMA ParseWidth ==
  ASSUME NEW t \in DynTy, NEW r, Placed(r), Parse(t, r).ok
  PROVE  LET o == Parse(t, r)
         IN  IF TySize(t) # <<>>
             THEN ValueSize(o.val) = TySize(t)[1] /\ o.pos = r.pos + ValueSize(o.val)
             ELSE /\ ReadLen(r).ok
                  /\ ValueSize(o.val) = ReadLen(r).val * ElementWidth(t)
                  /\ o.pos = r.pos + LenWidth + ValueSize(o.val)
<1>1. CASE t.k = "PrimitiveTy"
  <2>1. t.ty \in PrimitiveTy /\ Parse(t, r) = ReadPrimitive(t.ty, r)
    BY <1>1 DEF DynTy, Parse
  <2>2. TySize(t) = <<PrimitiveSize(t.ty)>>
    BY <1>1 DEF TySize
  <2> QED
    BY <2>1, <2>2, ReadPrimitiveWidth DEF ValueSize
<1>2. CASE t.k = "String"
  <2> DEFINE o == ReadCowBytes(r)
  <2>1. TySize(t) = <<>> /\ ElementWidth(t) = 1
    BY <1>2 DEF TySize, ElementWidth
  <2>2. Parse(t, r) = InCow("String", ReadCowStr(r), r)
    BY <1>2 DEF Parse
  <2>3. ReadCowStr(r) = o /\ o.ok
    <3>1. ~Err("InvalidUtf8Encoding", r, Somewhere(r)).ok
      BY DEF Err
    <3>2. ReadCowStr(r).ok
      BY <2>2 DEF InCow
    <3> HIDE DEF o
    <3> QED
      BY <3>1, <3>2 DEF ReadCowStr, o
  <2>4. Parse(t, r).pos = o.pos /\ Parse(t, r).val.k = "String" /\ Parse(t, r).val.raw = o.val
    <3> HIDE DEF o
    <3> QED
      BY <2>2, <2>3 DEF InCow, Ok
  <2>5. ReadLen(r).val \in Nat
    BY <2>3, ReadCowBytesWidth, ReadLenWidth, WincodeAssumption DEF Usize
  <2> QED
    BY <2>1, <2>3, <2>4, <2>5, ReadCowBytesWidth DEF ValueSize
<1>3. CASE t.k = "Vec"
  <2>1. t.ty \in PrimitiveTy
    BY <1>3 DEF DynTy
  <2>2. TySize(t) = <<>> /\ ElementWidth(t) = PrimitiveSize(t.ty)
    BY <1>3 DEF TySize, ElementWidth
  <2>3. CASE t.ty = "U8"
    <3> DEFINE o == ReadCowBytes(r)
    <3>1. Parse(t, r) = InCow("Bytes", o, r) /\ PrimitiveSize(t.ty) = 1
      BY <1>3, <2>3 DEF Parse, PrimitiveSize
    <3> HIDE DEF o
    <3>2. o.ok /\ Parse(t, r).pos = o.pos /\ Parse(t, r).val.k = "Bytes" /\ Parse(t, r).val.raw = o.val
      BY <3>1 DEF InCow, Ok
    <3>3. ReadLen(r).val \in Nat
      BY <3>2, ReadCowBytesWidth, ReadLenWidth, WincodeAssumption DEF Usize, o
    <3> QED
      BY <2>2, <3>1, <3>2, <3>3, ReadCowBytesWidth DEF ValueSize, o
  <2>4. CASE t.ty # "U8"
    <3>1. Parse(t, r) = ParseVec(t.ty, r)
      BY <1>3, <2>4 DEF Parse
    <3> QED
      BY <2>1, <2>2, <3>1, ParseVecWidth DEF ValueSize
  <2> QED
    BY <2>3, <2>4
<1>4. CASE t.k = "Array"
  <2>1. t.ty \in PrimitiveTy /\ t.len \in Usize /\ t.len \in Nat /\ UsizeMax \in Nat
    BY <1>4, WincodeAssumption DEF DynTy, Usize
  <2> DEFINE n == PrimitiveSize(t.ty) * t.len
  <2>2. TySize(t) = <<n % (UsizeMax + 1)>>
    BY <1>4 DEF TySize
  <2>3. n \in Nat /\ n = t.len * PrimitiveSize(t.ty)
    BY <2>1, PrimitiveSizeType
  <2>4. /\ n \in 0 .. UsizeMax
        /\ Parse(t, r).pos = r.pos + n /\ Parse(t, r).val.k # "Primitive"
        /\ Len(Parse(t, r).val.raw) = n
    <3>1. CASE t.ty = "U8"
      <4> DEFINE o == ReadBytePayload(t.len, r)
      <4>1. Parse(t, r) = InCow("Bytes", o, r) /\ PrimitiveSize(t.ty) = 1
        BY <1>4, <3>1 DEF Parse, PrimitiveSize
      <4> HIDE DEF o
      <4>2. o.ok /\ Parse(t, r).pos = o.pos /\ Parse(t, r).val.k = "Bytes" /\ Parse(t, r).val.raw = o.val
        BY <4>1 DEF InCow, Ok
      <4>3. n = t.len
        BY <2>1, <4>1
      <4> QED
        BY <2>1, <4>2, <4>3, ReadBytePayloadWidth DEF o, Usize
    <3>2. CASE t.ty # "U8"
      <4>1. Parse(t, r) = ReadPrimitivePayload(t.ty, t.len, r)
        BY <1>4, <3>2 DEF Parse
      <4> QED
        BY <2>1, <2>3, <4>1, ReadPrimitivePayloadWidth DEF Usize
    <3> QED
      BY <3>1, <3>2
  <2> HIDE DEF n
  <2>5. n % (UsizeMax + 1) = n
    BY <2>1, <2>4
  <2> QED
    BY <2>2, <2>4, <2>5 DEF ValueSize
<1> QED
  BY <1>1, <1>2, <1>3, <1>4 DEF DynTy

\* An encoding that is cut short anywhere is refused: a length prefix still says the
\* same number, and every other type is as wide as before (ty.rs, Ty::parse).
THEOREM ParseNeedsAll ==
  ASSUME NEW t \in DynTy, NEW r, Placed(r), Parse(t, r).ok,
         NEW n \in r.pos .. Parse(t, r).pos - 1
  PROVE  ~Parse(t, [buf |-> SubSeq(r.buf, 1, n), pos |-> r.pos, borrows |-> r.borrows]).ok
<1> DEFINE s == [buf |-> SubSeq(r.buf, 1, n), pos |-> r.pos, borrows |-> r.borrows]
           o == Parse(t, r)
           c == Parse(t, s)
<1> SUFFICES ASSUME c.ok PROVE FALSE
  OBVIOUS
<1>1. r.buf \in Seq(Byte) /\ r.pos \in Nat /\ Len(r.buf) \in Nat /\ r.borrows \in BOOLEAN
  BY DEF Placed, Reader
<1>2. o.pos \in r.pos .. Len(r.buf)
  BY ParseResult DEF Outcome
<1>3. n \in Nat /\ r.pos <= n /\ n < o.pos /\ n <= Len(r.buf)
  <2> HIDE DEF o
  <2>1. n \in r.pos .. o.pos - 1
    BY DEF o
  <2> QED
    BY <1>1, <1>2, <2>1
<1>4. s.pos = r.pos /\ s.buf = SubSeq(r.buf, 0 + 1, n) /\ s.borrows = r.borrows
  OBVIOUS
<1>5. /\ s.buf \in Seq(Byte) /\ Len(s.buf) = n
      /\ \A k \in 1 .. n : s.buf[k] = r.buf[k]
  BY <1>1, <1>3, <1>4, SliceBytes
<1>6. Placed(s)
  <2>1. s \in Reader
    BY <1>1, <1>4, <1>5 DEF Reader
  <2> HIDE DEF s
  <2> QED
    BY <1>3, <1>4, <1>5, <2>1 DEF Placed
<1> HIDE DEF s
<1>7. c.pos <= n /\ c.pos \in Nat
  BY <1>1, <1>4, <1>5, <1>6, ParseResult DEF Outcome
<1>8. CASE TySize(t) # <<>>
  BY <1>1, <1>3, <1>4, <1>6, <1>7, <1>8, ParseWidth
<1>9. CASE TySize(t) = <<>>
  <2>1. ReadLen(r).ok /\ ReadLen(s).ok
    BY <1>6, <1>9, ParseWidth
  <2> DEFINE e == r.pos + LenWidth
  <2>2. /\ ReadLen(r).val = Unsigned(SubSeq(r.buf, r.pos + 1, e))
        /\ ReadLen(s).val = Unsigned(SubSeq(s.buf, r.pos + 1, e))
        /\ e <= n /\ e <= Len(r.buf) /\ e \in Nat /\ r.pos <= e
    <3>1. e \in Nat /\ r.pos <= e
      BY <1>1, WincodeAssumption
    <3>2. ReadLen(r).val = Unsigned(SubSeq(r.buf, r.pos + 1, e))
      BY <2>1, ReadLenWidth
    <3>3. /\ ReadLen(s).val = Unsigned(SubSeq(s.buf, s.pos + 1, s.pos + LenWidth))
          /\ s.pos + LenWidth <= Len(s.buf)
      BY <1>6, <2>1, ReadLenWidth
    <3>4. e <= n
      BY <1>4, <1>5, <3>3
    <3> QED
      BY <1>1, <1>3, <1>4, <3>1, <3>2, <3>3, <3>4
  <2> HIDE DEF e
  <2> DEFINE a == SubSeq(r.buf, r.pos + 1, e)
             b == SubSeq(s.buf, r.pos + 1, e)
  <2>3. /\ a \in Seq(Byte) /\ Len(a) = e - r.pos
        /\ \A k \in 1 .. e - r.pos : a[k] = r.buf[r.pos + k]
    BY <1>1, <1>3, <2>2, SliceBytes
  <2>4. /\ b \in Seq(Byte) /\ Len(b) = e - r.pos
        /\ \A k \in 1 .. e - r.pos : b[k] = s.buf[r.pos + k]
    BY <1>1, <1>3, <1>5, <2>2, SliceBytes
  <2> HIDE DEF a, b
  <2>5. a = b
    <3>1. ASSUME NEW k \in 1 .. e - r.pos PROVE a[k] = b[k]
      <4>1. r.pos + k \in 1 .. n
        BY <1>1, <1>3, <2>2
      <4> QED
        BY <1>5, <2>3, <2>4, <4>1
    <3> QED
      BY <2>3, <2>4, <3>1, SeqEqual
  <2>6. ReadLen(r).val = ReadLen(s).val
    BY <2>2, <2>5 DEF a, b
  <2>7. /\ o.pos = r.pos + LenWidth + ReadLen(r).val * ElementWidth(t)
        /\ c.pos = r.pos + LenWidth + ReadLen(s).val * ElementWidth(t)
    BY <1>4, <1>6, <1>9, ParseWidth
  <2>8. o.pos = c.pos
    <3> HIDE DEF o, c
    <3> QED
      BY <2>6, <2>7
  <2> QED
    BY <1>3, <1>7, <2>8
<1> QED
  BY <1>8, <1>9

-----------------------------------------------------------------------------
(***************************************************************************)
(* What borrowing changes.  lent and copied are the same read from a       *)
(* reader that can lend its bytes and from one that has to copy them.      *)
(***************************************************************************)
Lending(buf, pos) == [buf |-> buf, pos |-> pos, borrows |-> TRUE]
Copying(buf, pos) == [buf |-> buf, pos |-> pos, borrows |-> FALSE]

\* A read of bytes differs only in that too many are not copied.
OnlyLimits(lent, copied) ==
  /\ lent.ok /\ copied.ok => copied.val = lent.val /\ copied.pos = lent.pos
  /\ copied.ok => lent.ok
  /\ ~lent.ok => lent.val # "PreallocationSizeLimit"
  /\ lent.ok /\ ~copied.ok => /\ copied.val = "PreallocationSizeLimit"
                              /\ Len(lent.val) > PreallocLimit

\* A read that allocates nothing does not differ.
LEMMA TakeSame ==
  ASSUME NEW buf, NEW pos, NEW n
  PROVE  /\ Take(Lending(buf, pos), n) = Take(Copying(buf, pos), n)
         /\ Take(Lending(buf, pos), n).ok \/ Take(Lending(buf, pos), n).val = "ReadSizeLimit"
<1> DEFINE l == Lending(buf, pos)
           c == Copying(buf, pos)
<1>1. l.buf = buf /\ l.pos = pos /\ c.buf = buf /\ c.pos = pos
  BY DEF Lending, Copying
<1> HIDE DEF l, c
<1>2. Err("ReadSizeLimit", l, Somewhere(l)) = Err("ReadSizeLimit", c, Somewhere(c))
  BY <1>1 DEF Err, Somewhere
<1>3. Take(l, n) = Take(c, n)
  BY <1>1, <1>2 DEF Take
<1>4. Take(l, n).ok \/ Take(l, n).val = "ReadSizeLimit"
  <2> DEFINE bs == SubSeq(l.buf, l.pos + 1, l.pos + n)
             p  == l.pos + n
  <2>1. Take(l, n) = Ok(bs, p) \/ Take(l, n) = Err("ReadSizeLimit", l, Somewhere(l))
    BY DEF Take
  <2> HIDE DEF bs, p
  <2> QED
    BY <2>1 DEF Ok, Err
<1> QED
  BY <1>3, <1>4 DEF l, c

LEMMA ReadLenSame ==
  ASSUME NEW buf, NEW pos
  PROVE  /\ ReadLen(Lending(buf, pos)) = ReadLen(Copying(buf, pos))
         /\ ~ReadLen(Lending(buf, pos)).ok =>
              ReadLen(Lending(buf, pos)).val # "PreallocationSizeLimit"
<1> DEFINE l == Lending(buf, pos)
           c == Copying(buf, pos)
           o == Take(l, LenWidth)
           e == Err("LengthEncodingOverflow", l, Somewhere(l))
<1>1. o = Take(c, LenWidth) /\ (o.ok \/ o.val = "ReadSizeLimit")
  BY TakeSame
<1>2. e = Err("LengthEncodingOverflow", c, Somewhere(c))
  BY DEF Err, Somewhere, Lending, Copying
<1> HIDE DEF l, c
<1>3. ReadLen(l) = ReadLen(c)
  BY <1>1, <1>2 DEF ReadLen
<1>4. ReadLen(l) = IF ~o.ok THEN o
                   ELSE IF Unsigned(o.val) \in 0 .. UsizeMax THEN Ok(Unsigned(o.val), o.pos)
                   ELSE e
  BY DEF ReadLen
<1>5. e.val = "LengthEncodingOverflow" /\ \A v, p : Ok(v, p).ok
  BY DEF Err, Ok
<1> HIDE DEF o, e
<1>6. ~ReadLen(l).ok => ReadLen(l).val # "PreallocationSizeLimit"
  BY <1>1, <1>4, <1>5
<1> QED
  BY <1>3, <1>6 DEF l, c

LEMMA ReadPrimitiveSame ==
  ASSUME NEW p, NEW buf, NEW pos
  PROVE  /\ ReadPrimitive(p, Lending(buf, pos)) = ReadPrimitive(p, Copying(buf, pos))
         /\ ~ReadPrimitive(p, Lending(buf, pos)).ok =>
              ReadPrimitive(p, Lending(buf, pos)).val # "PreallocationSizeLimit"
<1> DEFINE l == Lending(buf, pos)
           c == Copying(buf, pos)
           o == Take(l, PrimitiveSize(p))
           n == IF p \in SignedTy THEN Signed(o.val) ELSE Unsigned(o.val)
           e == Err("InvalidBoolEncoding", l, Somewhere(l))
           v == [k |-> "Primitive", ty |-> p, n |-> n]
<1>1. o = Take(c, PrimitiveSize(p)) /\ (o.ok \/ o.val = "ReadSizeLimit")
  BY TakeSame
<1>2. e = Err("InvalidBoolEncoding", c, Somewhere(c))
  BY DEF Err, Somewhere, Lending, Copying
<1> HIDE DEF l, c
<1>3. ReadPrimitive(p, l) = ReadPrimitive(p, c)
  BY <1>1, <1>2 DEF ReadPrimitive
<1>4. ReadPrimitive(p, l) = IF ~o.ok THEN o
                            ELSE IF p = "Bool" /\ n \notin {0, 1} THEN e
                            ELSE Ok(v, o.pos)
  BY DEF ReadPrimitive
<1>5. e.val = "InvalidBoolEncoding" /\ \A x, y : Ok(x, y).ok
  BY DEF Err, Ok
<1> HIDE DEF o, e, n, v
<1>6. ~ReadPrimitive(p, l).ok => ReadPrimitive(p, l).val # "PreallocationSizeLimit"
  BY <1>1, <1>4, <1>5
<1> QED
  BY <1>3, <1>6 DEF l, c

LEMMA ReadBytePayloadLimits ==
  ASSUME NEW n \in Nat, NEW buf, NEW pos, Placed(Lending(buf, pos))
  PROVE  OnlyLimits(ReadBytePayload(n, Lending(buf, pos)), ReadBytePayload(n, Copying(buf, pos)))
<1> DEFINE l == Lending(buf, pos)
           c == Copying(buf, pos)
           o == Take(l, n)
           e == Err("PreallocationSizeLimit", c, {c.pos})
<1>1. o = Take(c, n) /\ (o.ok \/ o.val = "ReadSizeLimit")
  BY TakeSame
<1>2. o.ok => Len(o.val) = n
  BY TakeResult
<1>3. l.borrows /\ ~c.borrows
  BY DEF Lending, Copying
<1> HIDE DEF l, c
<1>4. ReadBytePayload(n, l) = o
  BY <1>3 DEF ReadBytePayload
<1>5. CASE PreallocCheck(n, 1)
  <2>1. ReadBytePayload(n, c) = o
    BY <1>1, <1>5 DEF ReadBytePayload
  <2> HIDE DEF o
  <2> QED
    BY <1>1, <1>4, <2>1 DEF OnlyLimits, l, c
<1>6. CASE ~PreallocCheck(n, 1)
  <2>1. ReadBytePayload(n, c) = e
    BY <1>3, <1>6 DEF ReadBytePayload
  <2>2. ~e.ok /\ e.val = "PreallocationSizeLimit"
    BY DEF Err
  <2>3. n > PreallocLimit
    BY <1>6, WincodeAssumption DEF PreallocCheck
  <2> HIDE DEF o, e
  <2> QED
    BY <1>1, <1>2, <1>4, <2>1, <2>2, <2>3 DEF OnlyLimits, l, c
<1> QED
  BY <1>5, <1>6

LEMMA AtSame ==
  ASSUME NEW buf, NEW pos, NEW p
  PROVE  At(Lending(buf, pos), p) = Lending(buf, p) /\ At(Copying(buf, pos), p) = Copying(buf, p)
<1>1. ASSUME NEW b \in BOOLEAN
      PROVE  [[buf |-> buf, pos |-> pos, borrows |-> b] EXCEPT !.pos = p]
               = [buf |-> buf, pos |-> p, borrows |-> b]
  OBVIOUS
<1> QED
  BY <1>1 DEF At, Lending, Copying

LEMMA LendingPlaced ==
  ASSUME NEW buf, NEW pos, Placed(Lending(buf, pos)), NEW p \in pos .. Len(buf)
  PROVE  Placed(Lending(buf, p)) /\ Placed(Copying(buf, p))
<1>1. buf \in Seq(Byte) /\ pos \in Nat /\ Len(buf) \in Nat
  BY DEF Placed, Lending, Reader
<1>2. p \in Nat /\ p <= Len(buf)
  BY <1>1
<1> QED
  BY <1>1, <1>2 DEF Placed, Lending, Copying, Reader

LEMMA ReadCowBytesLimits ==
  ASSUME NEW buf, NEW pos, Placed(Lending(buf, pos))
  PROVE  OnlyLimits(ReadCowBytes(Lending(buf, pos)), ReadCowBytes(Copying(buf, pos)))
<1> DEFINE l == Lending(buf, pos)
           c == Copying(buf, pos)
           n == ReadLen(l)
           o == Take(Lending(buf, n.pos), n.val)
           e == Err("PreallocationSizeLimit", c, Somewhere(c))
<1>1. n = ReadLen(c) /\ (~n.ok => n.val # "PreallocationSizeLimit")
  BY ReadLenSame
<1>2. Take(At(l, n.pos), n.val) = o /\ Take(At(c, n.pos), n.val) = o
        /\ (o.ok \/ o.val = "ReadSizeLimit")
  <2>1. At(l, n.pos) = Lending(buf, n.pos) /\ At(c, n.pos) = Copying(buf, n.pos)
    BY AtSame
  <2> HIDE DEF l, c, n
  <2> QED
    BY <2>1, TakeSame
<1>3. l.borrows /\ ~c.borrows
  BY DEF Lending, Copying
<1>4. ASSUME n.ok PROVE n.val \in Nat /\ (o.ok => Len(o.val) = n.val)
  <2>1. n.val \in Nat /\ n.pos \in pos .. Len(buf)
    <3>1. Outcome(n, l, Usize)
      BY ReadLenResult
    <3>2. l.pos = pos /\ l.buf = buf
      BY DEF Lending
    <3> HIDE DEF n, l
    <3> QED
      BY <1>4, <3>1, <3>2, WincodeAssumption DEF Outcome, Usize
  <2> HIDE DEF n
  <2> QED
    BY <2>1, LendingPlaced, TakeResult
<1> HIDE DEF l, c, n, o
<1>5. ReadCowBytes(l) = IF ~n.ok THEN n ELSE o
  BY <1>2, <1>3 DEF ReadCowBytes, n
<1>6. ReadCowBytes(c) = IF ~n.ok THEN n ELSE IF ~PreallocCheck(n.val, 1) THEN e ELSE o
  BY <1>1, <1>2, <1>3 DEF ReadCowBytes
<1>7. CASE ~n.ok
  BY <1>1, <1>5, <1>6, <1>7 DEF OnlyLimits, l, c
<1>8. CASE n.ok /\ PreallocCheck(n.val, 1)
  BY <1>2, <1>5, <1>6, <1>8 DEF OnlyLimits, l, c
<1>9. CASE n.ok /\ ~PreallocCheck(n.val, 1)
  <2>1. ~e.ok /\ e.val = "PreallocationSizeLimit"
    BY DEF Err
  <2>2. n.val > PreallocLimit
    BY <1>4, <1>9, WincodeAssumption DEF PreallocCheck
  <2> HIDE DEF e
  <2> QED
    BY <1>2, <1>4, <1>5, <1>6, <1>9, <2>1, <2>2 DEF OnlyLimits, l, c
<1> QED
  BY <1>7, <1>8, <1>9

LEMMA ReadCowStrLimits ==
  ASSUME NEW buf, NEW pos, Placed(Lending(buf, pos))
  PROVE  OnlyLimits(ReadCowStr(Lending(buf, pos)), ReadCowStr(Copying(buf, pos)))
<1> DEFINE l  == Lending(buf, pos)
           c  == Copying(buf, pos)
           ol == ReadCowBytes(l)
           oc == ReadCowBytes(c)
           el == Err("InvalidUtf8Encoding", l, Somewhere(l))
           ec == Err("InvalidUtf8Encoding", c, Somewhere(c))
<1>1. OnlyLimits(ol, oc)
  BY ReadCowBytesLimits
<1>2. /\ ReadCowStr(l) = IF ol.ok /\ ~ValidUtf8(ol.val) THEN el ELSE ol
      /\ ReadCowStr(c) = IF oc.ok /\ ~ValidUtf8(oc.val) THEN ec ELSE oc
  BY DEF ReadCowStr
<1>3. ~el.ok /\ el.val = "InvalidUtf8Encoding" /\ ~ec.ok /\ ec.val = "InvalidUtf8Encoding"
  BY DEF Err
<1> HIDE DEF ol, oc, el, ec
<1>4. OnlyLimits(ReadCowStr(l), ReadCowStr(c))
  BY <1>1, <1>2, <1>3 DEF OnlyLimits
<1> QED
  BY <1>4

\* A value differs only in who owns its payload, and in the limit on copies.
Transparent(lent, copied) ==
  /\ lent.ok /\ copied.ok => Plain(copied.val) = lent.val /\ copied.pos = lent.pos
  /\ ~lent.ok => lent.val # "PreallocationSizeLimit"
  /\ lent.ok /\ ~copied.ok => /\ copied.val = "PreallocationSizeLimit"
                              /\ ValueSize(lent.val) > PreallocLimit
  /\ copied.ok => lent.ok

LEMMA InCowLimits ==
  ASSUME NEW k \in {"String", "Bytes"}, NEW buf, NEW pos, NEW lent, NEW copied,
         OnlyLimits(lent, copied)
  PROVE  Transparent(InCow(k, lent, Lending(buf, pos)), InCow(k, copied, Copying(buf, pos)))
<1> DEFINE v(o, b) == [k |-> k, raw |-> o.val, owned |-> b]
           l == Lending(buf, pos)
           c == Copying(buf, pos)
           ol == InCow(k, lent, l)
           oc == InCow(k, copied, c)
<1>1. (~l.borrows) = FALSE /\ (~c.borrows) = TRUE
  BY DEF Lending, Copying
<1> HIDE DEF l, c
<1>2. /\ ol = IF lent.ok THEN Ok(v(lent, FALSE), lent.pos) ELSE lent
      /\ oc = IF copied.ok THEN Ok(v(copied, TRUE), copied.pos) ELSE copied
  BY <1>1 DEF InCow
<1>3. lent.ok /\ copied.ok => Plain(v(copied, TRUE)) = v(lent, FALSE)
  BY DEF OnlyLimits, Plain
<1>4. ValueSize(v(lent, FALSE)) = Len(lent.val)
  BY DEF ValueSize
<1> HIDE DEF v, ol, oc
<1>5. Transparent(ol, oc)
  BY <1>2, <1>3, <1>4 DEF OnlyLimits, Transparent, Ok
<1> QED
  BY <1>5 DEF ol, oc, l, c

LEMMA ReadPrimitivePayloadLimits ==
  ASSUME NEW p \in PrimitiveTy, NEW len \in Usize, NEW buf, NEW pos, Placed(Lending(buf, pos))
  PROVE  Transparent(ReadPrimitivePayload(p, len, Lending(buf, pos)),
                     ReadPrimitivePayload(p, len, Copying(buf, pos)))
<1> DEFINE l == Lending(buf, pos)
           c == Copying(buf, pos)
           n == len * PrimitiveSize(p)
           lent == ReadBytePayload(n, l)
           copied == ReadBytePayload(n, c)
           v(o, b) == [k |-> "Vec", ty |-> p, len |-> len, raw |-> o.val, owned |-> b]
           ol == ReadPrimitivePayload(p, len, l)
           oc == ReadPrimitivePayload(p, len, c)
<1>1. (~l.borrows) = FALSE /\ (~c.borrows) = TRUE
  BY DEF Lending, Copying
<1>2. n \in Nat
  BY PrimitiveSizeType, WincodeAssumption DEF Usize
<1>3. CASE n \notin Usize
  <2>1. CheckedMul(len, PrimitiveSize(p)) = <<>>
    BY <1>3 DEF CheckedMul
  <2>2. /\ ol = Err("LengthEncodingOverflow", l, {l.pos})
        /\ oc = Err("LengthEncodingOverflow", c, {c.pos})
    BY <2>1 DEF ReadPrimitivePayload
  <2>3. ~ol.ok /\ ol.val = "LengthEncodingOverflow" /\ ~oc.ok
    BY <2>2 DEF Err
  <2> HIDE DEF ol, oc
  <2>4. Transparent(ol, oc)
    BY <2>3 DEF Transparent
  <2> QED
    BY <2>4 DEF ol, oc
<1>4. CASE n \in Usize
  <2>1. CheckedMul(len, PrimitiveSize(p)) = <<n>>
    BY <1>4 DEF CheckedMul
  <2>2. OnlyLimits(lent, copied)
    BY <1>2, ReadBytePayloadLimits
  <2> HIDE DEF n, l, c
  <2>3. /\ ol = IF ~lent.ok THEN lent ELSE Ok(v(lent, FALSE), lent.pos)
        /\ oc = IF ~copied.ok THEN copied ELSE Ok(v(copied, TRUE), copied.pos)
    <3>1. /\ ol = IF ~lent.ok THEN lent ELSE Ok(v(lent, ~l.borrows), lent.pos)
          /\ oc = IF ~copied.ok THEN copied ELSE Ok(v(copied, ~c.borrows), copied.pos)
      BY <2>1 DEF ReadPrimitivePayload
    <3> HIDE DEF ol, oc, lent, copied
    <3> QED
      BY <1>1, <3>1
  <2>4. lent.ok /\ copied.ok => Plain(v(copied, TRUE)) = v(lent, FALSE)
    BY <2>2 DEF OnlyLimits, Plain
  <2>5. ValueSize(v(lent, FALSE)) = Len(lent.val)
    BY DEF ValueSize
  <2> HIDE DEF v, lent, copied, ol, oc
  <2>6. Transparent(ol, oc)
    BY <2>2, <2>3, <2>4, <2>5 DEF OnlyLimits, Transparent, Ok
  <2> QED
    BY <2>6 DEF ol, oc, l, c
<1> QED
  BY <1>3, <1>4

LEMMA ParseVecLimits ==
  ASSUME NEW p \in PrimitiveTy, NEW buf, NEW pos, Placed(Lending(buf, pos))
  PROVE  Transparent(ParseVec(p, Lending(buf, pos)), ParseVec(p, Copying(buf, pos)))
<1> DEFINE l == Lending(buf, pos)
           c == Copying(buf, pos)
           n == ReadLen(l)
           ol == ReadPrimitivePayload(p, n.val, Lending(buf, n.pos))
           oc == ReadPrimitivePayload(p, n.val, Copying(buf, n.pos))
<1>1. n = ReadLen(c) /\ (~n.ok => n.val # "PreallocationSizeLimit")
  BY ReadLenSame
<1>2. At(l, n.pos) = Lending(buf, n.pos) /\ At(c, n.pos) = Copying(buf, n.pos)
  BY AtSame
<1>3. ASSUME n.ok PROVE Transparent(ol, oc)
  <2>1. n.val \in Usize /\ n.pos \in pos .. Len(buf)
    <3>1. Outcome(n, l, Usize)
      BY ReadLenResult
    <3>2. l.pos = pos /\ l.buf = buf
      BY DEF Lending
    <3> HIDE DEF n, l
    <3> QED
      BY <1>3, <3>1, <3>2 DEF Outcome
  <2> HIDE DEF n
  <2> QED
    BY <2>1, LendingPlaced, ReadPrimitivePayloadLimits
<1> HIDE DEF l, c, n
<1>4. /\ ParseVec(p, l) = IF n.ok THEN ol ELSE n
      /\ ParseVec(p, c) = IF n.ok THEN oc ELSE n
  BY <1>1, <1>2 DEF ParseVec, n
<1> HIDE DEF ol, oc
<1>5. CASE n.ok
  BY <1>3, <1>4, <1>5 DEF l, c
<1>6. CASE ~n.ok
  <2>1. Transparent(n, n)
    BY <1>1, <1>6 DEF Transparent
  <2> QED
    BY <1>4, <1>6, <2>1 DEF l, c
<1> QED
  BY <1>5, <1>6

\* Whether a reader can lend its bytes decides who owns a payload and whether the
\* limit on copies applies, and nothing else (ty.rs, Ty::parse).
THEOREM ParseTransparent ==
  ASSUME NEW t \in DynTy, NEW buf, NEW pos, Placed(Lending(buf, pos))
  PROVE  Transparent(Parse(t, Lending(buf, pos)), Parse(t, Copying(buf, pos)))
<1> DEFINE l == Lending(buf, pos)
           c == Copying(buf, pos)
<1>1. CASE t.k = "PrimitiveTy"
  <2> DEFINE o == ReadPrimitive(t.ty, l)
  <2>1. t.ty \in PrimitiveTy /\ Parse(t, l) = o /\ Parse(t, c) = o
    BY <1>1, ReadPrimitiveSame DEF DynTy, Parse
  <2>2. o.ok => Plain(o.val) = o.val
    BY <2>1, ReadPrimitiveWidth DEF Plain
  <2>3. ~o.ok => o.val # "PreallocationSizeLimit"
    BY ReadPrimitiveSame
  <2> HIDE DEF o
  <2>4. Transparent(o, o)
    BY <2>2, <2>3 DEF Transparent
  <2> QED
    BY <2>1, <2>4
<1>2. CASE t.k = "String"
  <2>1. /\ Parse(t, l) = InCow("String", ReadCowStr(l), l)
        /\ Parse(t, c) = InCow("String", ReadCowStr(c), c)
    BY <1>2 DEF Parse
  <2> QED
    BY <2>1, ReadCowStrLimits, InCowLimits
<1>3. CASE t.k = "Vec" /\ t.ty = "U8"
  <2>1. /\ Parse(t, l) = InCow("Bytes", ReadCowBytes(l), l)
        /\ Parse(t, c) = InCow("Bytes", ReadCowBytes(c), c)
    BY <1>3 DEF Parse
  <2> QED
    BY <2>1, ReadCowBytesLimits, InCowLimits
<1>4. CASE t.k = "Vec" /\ t.ty # "U8"
  <2>1. t.ty \in PrimitiveTy /\ Parse(t, l) = ParseVec(t.ty, l) /\ Parse(t, c) = ParseVec(t.ty, c)
    BY <1>4 DEF DynTy, Parse
  <2> QED
    BY <2>1, ParseVecLimits
<1>5. CASE t.k = "Array" /\ t.ty = "U8"
  <2>1. t.len \in Nat
    BY <1>5, WincodeAssumption DEF DynTy, Usize
  <2>2. /\ Parse(t, l) = InCow("Bytes", ReadBytePayload(t.len, l), l)
        /\ Parse(t, c) = InCow("Bytes", ReadBytePayload(t.len, c), c)
    BY <1>5 DEF Parse
  <2> QED
    BY <2>1, <2>2, ReadBytePayloadLimits, InCowLimits
<1>6. CASE t.k = "Array" /\ t.ty # "U8"
  <2>1. /\ t.ty \in PrimitiveTy /\ t.len \in Usize
        /\ Parse(t, l) = ReadPrimitivePayload(t.ty, t.len, l)
        /\ Parse(t, c) = ReadPrimitivePayload(t.ty, t.len, c)
    BY <1>6 DEF DynTy, Parse
  <2> QED
    BY <2>1, ReadPrimitivePayloadLimits
<1> QED
  BY <1>1, <1>2, <1>3, <1>4, <1>5, <1>6 DEF DynTy

-----------------------------------------------------------------------------
(***************************************************************************)
(* Decoding against the wire format, for every type and every input: what  *)
(* is decoded serializes to the bytes it was decoded from, and what a      *)
(* serializer can have written is decoded.  Both directions rest on the    *)
(* round trips of integers of any width.                                   *)
(***************************************************************************)
\* The bytes of r's input from where it is up to the position e.
Bytes(r, e) == SubSeq(r.buf, r.pos + 1, e)

LEMMA PlacedBytes ==
  ASSUME NEW r, Placed(r), NEW e \in Nat, r.pos <= e, e <= Len(r.buf)
  PROVE  /\ Bytes(r, e) \in Seq(Byte) /\ Len(Bytes(r, e)) = e - r.pos
         /\ \A k \in 1 .. e - r.pos : Bytes(r, e)[k] = r.buf[r.pos + k]
<1>1. r.buf \in Seq(Byte) /\ r.pos \in Nat /\ Len(r.buf) \in Nat
  BY DEF Placed, Reader
<1> QED
  BY <1>1, SliceBytes DEF Bytes

-----------------------------------------------------------------------------
(***************************************************************************)
(* What is read is what is written.                                        *)
(***************************************************************************)
LEMMA ReadPrimitiveReencodes ==
  ASSUME NEW p \in PrimitiveTy, NEW r, Placed(r), ReadPrimitive(p, r).ok
  PROVE  LET o == ReadPrimitive(p, r)
         IN  InRange(p, o.val.n) /\ LittleEndian(o.val.n, PrimitiveSize(p)) = Bytes(r, o.pos)
<1> DEFINE w == PrimitiveSize(p)
           o == Take(r, w)
           n == IF p \in SignedTy THEN Signed(o.val) ELSE Unsigned(o.val)
           v == [k |-> "Primitive", ty |-> p, n |-> n]
<1>1. ReadPrimitive(p, r) = IF ~o.ok THEN o
                            ELSE IF p = "Bool" /\ n \notin {0, 1}
                                 THEN Err("InvalidBoolEncoding", r, Somewhere(r))
                            ELSE Ok(v, o.pos)
  BY DEF ReadPrimitive
<1>2. w \in Nat \ {0}
  BY PrimitiveSizeType
<1>3. o.ok => o.val = Bytes(r, r.pos + w) /\ o.pos = r.pos + w /\ r.pos + w <= Len(r.buf)
  BY <1>2, TakeWidth DEF Bytes
<1>4. v.n = n
  OBVIOUS
<1> HIDE DEF o, v
<1>5. o.ok /\ (p = "Bool" => n \in {0, 1}) /\ ReadPrimitive(p, r) = Ok(v, o.pos)
  <2>1. ~Err("InvalidBoolEncoding", r, Somewhere(r)).ok
    BY DEF Err
  <2> HIDE DEF n
  <2> QED
    BY <1>1, <2>1
<1>6. ReadPrimitive(p, r).val.n = n /\ ReadPrimitive(p, r).pos = o.pos
  BY <1>4, <1>5 DEF Ok
<1>7. o.val \in Seq(Byte) /\ Len(o.val) = w
  BY <1>2, TakeResult, <1>5 DEF Outcome, o
<1>8. LittleEndian(n, w) = o.val
  <2>1. LittleEndian(Signed(o.val), w) = o.val
    BY <1>2, <1>7, WriteSigned
  <2>2. LittleEndian(Unsigned(o.val), w) = o.val
    BY <1>2, <1>7, WriteUnsigned
  <2> QED
    BY <2>1, <2>2
<1>9. InRange(p, n)
  <2>1. CASE p \in SignedTy
    <3>1. -(Span(w) \div 2) <= Signed(o.val) /\ Signed(o.val) < Span(w) \div 2
      BY <1>2, <1>7, SignedRange
    <3> QED
      BY <2>1, <3>1 DEF InRange, SignedTy
  <2>2. CASE p = "Bool"
    <3> HIDE DEF n
    <3> QED
      BY <1>5, <2>2 DEF InRange, SignedTy
  <2>3. CASE p \notin SignedTy /\ p # "Bool"
    <3>1. Unsigned(o.val) \in 0 .. Span(w) - 1 /\ Span(w) \in Nat
      BY <1>2, <1>7, UnsignedRange, SpanStep
    <3>2. 0 <= n /\ n < Span(w)
      BY <2>3, <3>1
    <3> HIDE DEF n
    <3> QED
      BY <2>3, <3>2 DEF InRange
  <2> QED
    BY <2>1, <2>2, <2>3
<1> QED
  BY <1>3, <1>5, <1>6, <1>8, <1>9

LEMMA ReadLenReencodes ==
  ASSUME NEW r, Placed(r), ReadLen(r).ok
  PROVE  LittleEndian(ReadLen(r).val, LenWidth) = Bytes(r, r.pos + LenWidth)
<1>1. /\ ReadLen(r).val = Unsigned(Bytes(r, r.pos + LenWidth))
      /\ r.pos + LenWidth <= Len(r.buf)
  BY ReadLenWidth DEF Bytes
<1>2. LenWidth \in Nat \ {0} /\ r.pos \in Nat
  BY WincodeAssumption DEF Placed, Reader
<1> DEFINE e  == r.pos + LenWidth
           bs == Bytes(r, e)
<1>3. e \in Nat /\ r.pos <= e /\ e - r.pos = LenWidth
  BY <1>2
<1>4. e <= Len(r.buf)
  BY <1>1
<1> HIDE DEF e
<1>5. bs \in Seq(Byte) /\ Len(bs) = LenWidth
  BY <1>3, <1>4, PlacedBytes
<1> HIDE DEF bs
<1>6. LittleEndian(Unsigned(bs), LenWidth) = bs
  BY <1>2, <1>5, WriteUnsigned
<1> QED
  BY <1>1, <1>6 DEF bs, e

LEMMA ReadBytePayloadReencodes ==
  ASSUME NEW r, Placed(r), NEW n \in Nat, ReadBytePayload(n, r).ok
  PROVE  LET o == ReadBytePayload(n, r)
         IN  o.pos = r.pos + n /\ o.pos <= Len(r.buf) /\ o.val = Bytes(r, o.pos)
<1>1. ReadBytePayload(n, r) = Take(r, n)
  BY DEF ReadBytePayload, Err
<1> QED
  BY <1>1, TakeWidth DEF Bytes

\* A length prefix and the payload that follows it.
LEMMA PrefixThenPayload ==
  ASSUME NEW r, Placed(r), ReadLen(r).ok, NEW n \in Nat,
         r.pos + LenWidth + n <= Len(r.buf)
  PROVE  LittleEndian(ReadLen(r).val, LenWidth)
           \o Bytes(At(r, r.pos + LenWidth), r.pos + LenWidth + n)
             = Bytes(r, r.pos + LenWidth + n)
<1> DEFINE m == r.pos + LenWidth
           e == m + n
<1>1. r.buf \in Seq(Byte) /\ r.pos \in Nat /\ Len(r.buf) \in Nat /\ LenWidth \in Nat
  BY WincodeAssumption DEF Placed, Reader
<1>2. /\ r.pos + 1 \in 1 .. Len(r.buf) + 1
      /\ m \in (r.pos + 1) - 1 .. Len(r.buf)
      /\ e \in m .. Len(r.buf)
  BY <1>1
<1>3. At(r, m).buf = r.buf /\ At(r, m).pos = m
  BY <1>1, <1>2, AtResult
<1> HIDE DEF m, e
<1>4. SubSeq(r.buf, r.pos + 1, m) \o SubSeq(r.buf, m + 1, e) = SubSeq(r.buf, r.pos + 1, e)
  BY <1>1, <1>2, ConcatAdjacentSubSeq
<1>5. LittleEndian(ReadLen(r).val, LenWidth) = Bytes(r, m)
  BY ReadLenReencodes DEF m
<1>6. LittleEndian(ReadLen(r).val, LenWidth) \o Bytes(At(r, m), e) = Bytes(r, e)
  BY <1>3, <1>4, <1>5 DEF Bytes
<1> QED
  BY <1>6 DEF m, e

LEMMA ReadCowBytesReencodes ==
  ASSUME NEW r, Placed(r), ReadCowBytes(r).ok
  PROVE  LET o == ReadCowBytes(r)
         IN  LittleEndian(Len(o.val), LenWidth) \o o.val = Bytes(r, o.pos)
<1> DEFINE n == ReadLen(r)
           o == Take(At(r, n.pos), n.val)
<1>1. ReadCowBytes(r) = IF ~n.ok THEN n
                        ELSE IF ~r.borrows /\ ~PreallocCheck(n.val, 1)
                             THEN Err("PreallocationSizeLimit", r, Somewhere(r)) ELSE o
  BY DEF ReadCowBytes
<1>2. n.ok /\ ReadCowBytes(r) = o /\ o.ok
  <2>1. ~Err("PreallocationSizeLimit", r, Somewhere(r)).ok
    BY DEF Err
  <2> HIDE DEF n, o
  <2> QED
    BY <1>1, <2>1
<1>3. n.val \in Nat /\ n.pos = r.pos + LenWidth /\ n.pos \in r.pos .. Len(r.buf)
  <2>1. Outcome(n, r, Usize)
    BY ReadLenResult
  <2> QED
    BY <1>2, <2>1, ReadLenWidth DEF Outcome, Usize
<1>4. Placed(At(r, n.pos)) /\ At(r, n.pos).pos = n.pos /\ At(r, n.pos).buf = r.buf
  BY <1>3, AtResult
<1>5. /\ o.pos = n.pos + n.val /\ o.val = Bytes(At(r, n.pos), o.pos) /\ Len(o.val) = n.val
      /\ o.pos <= Len(r.buf)
  <2> DEFINE b == At(r, n.pos)
             c == n.val
  <2>1. Placed(b) /\ c \in Nat /\ Take(b, c).ok /\ b.pos = n.pos /\ b.buf = r.buf
    BY <1>2, <1>3, <1>4
  <2> HIDE DEF b, c, n
  <2>2. /\ Take(b, c).pos = b.pos + c /\ b.pos + c <= Len(b.buf)
        /\ Take(b, c).val = SubSeq(b.buf, b.pos + 1, b.pos + c)
        /\ Len(Take(b, c).val) = c
    BY <2>1, TakeWidth, TakeResult
  <2> QED
    BY <2>1, <2>2 DEF Bytes, b, c
<1> HIDE DEF o
<1>6. LittleEndian(n.val, LenWidth) \o Bytes(At(r, n.pos), o.pos) = Bytes(r, o.pos)
  <2>1. o.pos = r.pos + LenWidth + n.val
    BY <1>3, <1>5
  <2> QED
    BY <1>2, <1>3, <1>5, <2>1, PrefixThenPayload
<1> QED
  BY <1>2, <1>5, <1>6

LEMMA ReadPrimitivePayloadReencodes ==
  ASSUME NEW p \in PrimitiveTy, NEW len \in Usize, NEW r, Placed(r),
         ReadPrimitivePayload(p, len, r).ok
  PROVE  LET o == ReadPrimitivePayload(p, len, r)
         IN  /\ o.val.k = "Vec" /\ o.val.len = len /\ o.val.raw = Bytes(r, o.pos)
             /\ o.pos = r.pos + len * PrimitiveSize(p) /\ o.pos <= Len(r.buf)
<1> DEFINE n == len * PrimitiveSize(p)
           o == ReadBytePayload(n, r)
           v == [k |-> "Vec", ty |-> p, len |-> len, raw |-> o.val, owned |-> ~r.borrows]
<1>1. n \in Nat
  BY PrimitiveSizeType, WincodeAssumption DEF Usize
<1>2. n \in Usize
  BY ReadPrimitivePayloadWidth
<1>3. ReadPrimitivePayload(p, len, r) = IF ~o.ok THEN o ELSE Ok(v, o.pos)
  <2>1. CheckedMul(len, PrimitiveSize(p)) = <<n>>
    BY <1>2 DEF CheckedMul
  <2> QED
    BY <2>1 DEF ReadPrimitivePayload
<1>4. o.ok => o.pos = r.pos + n /\ o.pos <= Len(r.buf) /\ o.val = Bytes(r, o.pos)
  BY <1>1, ReadBytePayloadReencodes
<1>5. v.k = "Vec" /\ v.raw = o.val /\ v.len = len
  OBVIOUS
<1> HIDE DEF o, v
<1>6. o.ok /\ ReadPrimitivePayload(p, len, r) = Ok(v, o.pos)
  BY <1>3
<1> QED
  BY <1>4, <1>5, <1>6 DEF Ok

LEMMA ParseVecReencodes ==
  ASSUME NEW p \in PrimitiveTy, NEW r, Placed(r), ParseVec(p, r).ok
  PROVE  LET o == ParseVec(p, r)
         IN  /\ o.val.k = "Vec"
             /\ LittleEndian(o.val.len, LenWidth) \o o.val.raw = Bytes(r, o.pos)
<1> DEFINE len == ReadLen(r)
           o   == ReadPrimitivePayload(p, len.val, At(r, len.pos))
<1>1. len.ok /\ ParseVec(p, r) = o /\ o.ok
  <2>1. ParseVec(p, r) = IF len.ok THEN o ELSE len
    BY DEF ParseVec
  <2> HIDE DEF len, o
  <2> QED
    BY <2>1
<1>2. len.val \in Usize /\ len.pos = r.pos + LenWidth /\ len.pos \in r.pos .. Len(r.buf)
  BY <1>1, ReadLenWidth, ReadLenResult DEF Outcome
<1>3. Placed(At(r, len.pos)) /\ At(r, len.pos).pos = len.pos /\ At(r, len.pos).buf = r.buf
  BY <1>2, AtResult
<1>4. /\ o.val.k = "Vec" /\ o.val.len = len.val /\ o.val.raw = Bytes(At(r, len.pos), o.pos)
      /\ o.pos = len.pos + len.val * PrimitiveSize(p) /\ o.pos <= Len(r.buf)
  <2> HIDE DEF len
  <2> QED
    BY <1>1, <1>2, <1>3, ReadPrimitivePayloadReencodes
<1>5. len.val * PrimitiveSize(p) \in Nat
  BY <1>2, PrimitiveSizeType, WincodeAssumption DEF Usize
<1> HIDE DEF o
<1>6. LittleEndian(len.val, LenWidth) \o Bytes(At(r, len.pos), o.pos) = Bytes(r, o.pos)
  BY <1>1, <1>2, <1>4, <1>5, PrefixThenPayload
<1> QED
  BY <1>1, <1>4, <1>6

\* What parsing returns is a value its type can have, and serializing it gives back
\* the bytes that parsing it consumed (ty.rs, Ty::parse).
THEOREM ParseReencodes ==
  ASSUME NEW t \in DynTy, NEW r, Placed(r), Parse(t, r).ok
  PROVE  LET o == Parse(t, r)
         IN  /\ o.val.k = "Primitive" => InRange(o.val.ty, o.val.n)
             /\ Encode(t, o.val) = Bytes(r, o.pos)
<1> DEFINE v == Parse(t, r).val
           e == Parse(t, r).pos
<1>1. CASE t.k = "PrimitiveTy"
  <2>1. t.ty \in PrimitiveTy /\ Parse(t, r) = ReadPrimitive(t.ty, r)
    BY <1>1 DEF DynTy, Parse
  <2>2. /\ v.k = "Primitive" /\ v.ty = t.ty
        /\ InRange(t.ty, v.n) /\ LittleEndian(v.n, PrimitiveSize(t.ty)) = Bytes(r, e)
    BY <2>1, ReadPrimitiveWidth, ReadPrimitiveReencodes
  <2> HIDE DEF v, e
  <2>3. Encode(t, v) = Bytes(r, e)
    BY <2>2 DEF Encode
  <2> QED
    BY <2>2, <2>3 DEF v, e
<1>2. ASSUME t.k \in {"String", "Vec"}, NEW k \in {"String", "Bytes"},
             ReadCowBytes(r).ok, Parse(t, r) = InCow(k, ReadCowBytes(r), r)
      PROVE  v.k # "Primitive" /\ Encode(t, v) = Bytes(r, e)
  <2> DEFINE o == ReadCowBytes(r)
  <2>1. LittleEndian(Len(o.val), LenWidth) \o o.val = Bytes(r, o.pos)
    BY <1>2, ReadCowBytesReencodes
  <2>2. v.k = k /\ v.raw = o.val /\ e = o.pos
    BY <1>2 DEF InCow, Ok
  <2> HIDE DEF v, e, o
  <2>3. Encode(t, v) = LittleEndian(Len(v.raw), LenWidth) \o v.raw
    BY <1>2, <2>2 DEF Encode
  <2> QED
    BY <2>1, <2>2, <2>3
<1>3. CASE t.k = "String"
  <2>1. Parse(t, r) = InCow("String", ReadCowStr(r), r)
    BY <1>3 DEF Parse
  <2>2. ReadCowStr(r) = ReadCowBytes(r) /\ ReadCowBytes(r).ok
    <3>1. ~Err("InvalidUtf8Encoding", r, Somewhere(r)).ok
      BY DEF Err
    <3>2. ReadCowStr(r).ok
      BY <2>1 DEF InCow
    <3> QED
      BY <3>1, <3>2 DEF ReadCowStr
  <2> QED
    BY <1>2, <1>3, <2>1, <2>2
<1>4. CASE t.k = "Vec"
  <2>1. t.ty \in PrimitiveTy
    BY <1>4 DEF DynTy
  <2>2. CASE t.ty = "U8"
    <3>1. Parse(t, r) = InCow("Bytes", ReadCowBytes(r), r)
      BY <1>4, <2>2 DEF Parse
    <3>2. ReadCowBytes(r).ok
      BY <3>1 DEF InCow
    <3> QED
      BY <1>2, <1>4, <3>1, <3>2
  <2>3. CASE t.ty # "U8"
    <3>1. Parse(t, r) = ParseVec(t.ty, r)
      BY <1>4, <2>3 DEF Parse
    <3>2. v.k = "Vec" /\ LittleEndian(v.len, LenWidth) \o v.raw = Bytes(r, e)
      BY <2>1, <3>1, ParseVecReencodes
    <3> HIDE DEF v, e
    <3>3. Encode(t, v) = Bytes(r, e)
      BY <1>4, <3>2 DEF Encode
    <3> QED
      BY <3>2, <3>3 DEF v, e
  <2> QED
    BY <2>2, <2>3
<1>5. CASE t.k = "Array"
  <2>1. t.ty \in PrimitiveTy /\ t.len \in Usize /\ t.len \in Nat
    BY <1>5, WincodeAssumption DEF DynTy, Usize
  <2>2. v.k # "Primitive" /\ v.raw = Bytes(r, e) /\ e <= Len(r.buf) /\ r.pos <= e /\ e \in Nat
    <3>1. CASE t.ty = "U8"
      <4> DEFINE o == ReadBytePayload(t.len, r)
      <4>1. Parse(t, r) = InCow("Bytes", o, r)
        BY <1>5, <3>1 DEF Parse
      <4>2. o.ok /\ v.k = "Bytes" /\ v.raw = o.val /\ e = o.pos
        BY <4>1 DEF InCow, Ok
      <4> QED
        BY <2>1, <4>2, ReadBytePayloadReencodes DEF Placed, Reader
    <3>2. CASE t.ty # "U8"
      <4>1. Parse(t, r) = ReadPrimitivePayload(t.ty, t.len, r)
        BY <1>5, <3>2 DEF Parse
      <4>2. v.k = "Vec" /\ v.raw = Bytes(r, e) /\ e <= Len(r.buf)
        BY <2>1, <4>1, ReadPrimitivePayloadReencodes
      <4>3. e \in r.pos .. Len(r.buf) /\ r.pos \in Nat
        BY ParseResult DEF Outcome, Placed, Reader
      <4> QED
        BY <4>2, <4>3
    <3> QED
      BY <3>1, <3>2
  <2>3. v.raw \in Seq(Byte)
    <3> HIDE DEF v, e
    <3> QED
      BY <2>2, PlacedBytes
  <2> HIDE DEF v, e
  <2>4. Encode(t, v) = <<>> \o v.raw
    BY <1>5, <2>2 DEF Encode
  <2>5. <<>> \o v.raw = v.raw
    BY <2>3, ConcatEmptySeq
  <2> QED
    BY <2>2, <2>4, <2>5 DEF v, e
<1> QED
  BY <1>1, <1>3, <1>4, <1>5 DEF DynTy

-----------------------------------------------------------------------------
(***************************************************************************)
(* What can have been written is read.  Every length is that of a slice,   *)
(* and so fits a usize.                                                    *)
(***************************************************************************)
\* The prefix that is before the payload of a type without a fixed size.
Prefix(t) == IF t.k \in {"String", "Vec"} THEN LenWidth ELSE 0

\* A read that fails with nothing wrong but n bytes to copy.
TooLong(r, n) == ~r.borrows /\ n > PreallocLimit

LEMMA TakeAccepts ==
  ASSUME NEW r, Placed(r), NEW n \in Nat, r.pos + n <= Len(r.buf)
  PROVE  /\ Take(r, n).ok /\ Take(r, n).pos = r.pos + n
         /\ Take(r, n).val = Bytes(r, r.pos + n)
<1>1. n <= Len(r.buf) - r.pos
  BY DEF Placed, Reader
<1> DEFINE bs == SubSeq(r.buf, r.pos + 1, r.pos + n)
<1>2. Take(r, n) = Ok(bs, r.pos + n)
  BY <1>1 DEF Take
<1> HIDE DEF bs
<1>3. Take(r, n).ok /\ Take(r, n).pos = r.pos + n /\ Take(r, n).val = bs
  BY <1>2 DEF Ok
<1> QED
  BY <1>3 DEF Bytes, bs

\* Parts of what is to be read.
LEMMA PartOfBytes ==
  ASSUME NEW r, Placed(r), NEW m \in Nat, NEW n \in Nat, m <= n, r.pos + n <= Len(r.buf)
  PROVE  /\ SubSeq(Bytes(r, r.pos + n), 1, m) = Bytes(r, r.pos + m)
         /\ SubSeq(Bytes(r, r.pos + n), m + 1, n) = SubSeq(r.buf, r.pos + m + 1, r.pos + n)
<1> DEFINE e  == r.pos + n
           d  == r.pos + m
           bs == Bytes(r, e)
           as == Bytes(r, d)
           cs == SubSeq(r.buf, d + 1, e)
<1>1. /\ r.buf \in Seq(Byte) /\ r.pos \in Nat /\ Len(r.buf) \in Nat
      /\ e \in Nat /\ d \in Nat /\ r.pos <= d /\ d <= e /\ e <= Len(r.buf)
      /\ e - r.pos = n /\ d - r.pos = m /\ e - d = n - m
  BY DEF Placed, Reader
<1> HIDE DEF e
<1>2. bs \in Seq(Byte) /\ Len(bs) = n /\ \A k \in 1 .. n : bs[k] = r.buf[r.pos + k]
  <2>1. /\ bs \in Seq(Byte) /\ Len(bs) = e - r.pos
        /\ \A k \in 1 .. e - r.pos : bs[k] = r.buf[r.pos + k]
    <3>1. e \in Nat /\ r.pos <= e /\ e <= Len(r.buf)
      BY <1>1
    <3> QED
      BY <3>1, PlacedBytes
  <2> HIDE DEF bs
  <2> QED
    BY <1>1, <2>1
<1>3. as \in Seq(Byte) /\ Len(as) = m /\ \A k \in 1 .. m : as[k] = r.buf[r.pos + k]
  <2> HIDE DEF d
  <2>1. d <= Len(r.buf)
    BY <1>1
  <2> QED
    BY <1>1, <2>1, PlacedBytes
<1>4. cs \in Seq(Byte) /\ Len(cs) = n - m /\ \A k \in 1 .. n - m : cs[k] = r.buf[d + k]
  <2> HIDE DEF d
  <2> QED
    BY <1>1, SliceBytes
<1> HIDE DEF bs, as, cs
<1>5. SubSeq(bs, 1, m) = as
  <2> DEFINE q == SubSeq(bs, 0 + 1, m)
  <2>1. q \in Seq(Byte) /\ Len(q) = m - 0 /\ \A k \in 1 .. m - 0 : q[k] = bs[0 + k]
    BY <1>2, SliceBytes
  <2>2. q = SubSeq(bs, 1, m)
    OBVIOUS
  <2> HIDE DEF q, d
  <2>3. Len(q) = m /\ q \in Seq(Byte)
    BY <2>1
  <2>4. ASSUME NEW k \in 1 .. m PROVE q[k] = as[k]
    <3>1. k \in 1 .. n /\ k \in 1 .. m - 0 /\ 0 + k = k
      OBVIOUS
    <3>2. q[k] = bs[k]
      BY <2>1, <3>1
    <3> QED
      BY <1>2, <1>3, <3>1, <3>2
  <2>5. q = as
    BY <1>3, <2>3, <2>4, SeqEqual
  <2> QED
    BY <2>2, <2>5
<1>6. SubSeq(bs, m + 1, n) = cs
  <2> DEFINE q == SubSeq(bs, m + 1, n)
  <2>1. q \in Seq(Byte) /\ Len(q) = n - m /\ \A k \in 1 .. n - m : q[k] = bs[m + k]
    BY <1>2, SliceBytes
  <2> HIDE DEF q
  <2>2. ASSUME NEW k \in 1 .. n - m PROVE q[k] = cs[k]
    <3>1. m + k \in 1 .. n /\ r.pos + (m + k) = d + k
      BY <1>1
    <3> QED
      BY <1>2, <1>4, <2>1, <3>1
  <2>3. q = cs
    BY <1>4, <2>1, <2>2, SeqEqual
  <2> QED
    BY <2>3 DEF q
<1> QED
  BY <1>5, <1>6 DEF bs, as, cs, e, d

LEMMA ReadBoolAccepts ==
  ASSUME NEW bs \in Seq(Byte), Len(bs) = 1
  PROVE  Unsigned(bs) = bs[1]
<1>1. bs \in Seq(Int)
  BY BaseType, SeqMonotonic DEF Byte
<1>2. PICK f \in [0 .. Len(bs) -> Int] :
        /\ f[0] = 0 /\ \A i \in 1 .. Len(bs) : f[i] = bs[Len(bs) - i + 1] + Base * f[i - 1]
        /\ Unsigned(bs) = f[Len(bs)]
  BY <1>1, UnsignedSteps
<1>3. f[1] = bs[1] + Base * f[0]
  <2>1. 1 \in 1 .. Len(bs) /\ Len(bs) - 1 + 1 = 1 /\ 1 - 1 = 0
    OBVIOUS
  <2>2. f[1] = bs[Len(bs) - 1 + 1] + Base * f[1 - 1]
    BY <1>2, <2>1
  <2> QED
    BY <2>1, <2>2
<1>4. bs[1] \in Int
  BY <1>1, ElementOfSeq
<1> QED
  BY <1>2, <1>3, <1>4, BaseType

LEMMA ReadPrimitiveAccepts ==
  ASSUME NEW p \in PrimitiveTy, NEW r, Placed(r), r.pos + PrimitiveSize(p) <= Len(r.buf),
         p = "Bool" => Bytes(r, r.pos + PrimitiveSize(p))[1] \in {0, 1}
  PROVE  ReadPrimitive(p, r).ok
<1> DEFINE w == PrimitiveSize(p)
           o == Take(r, w)
           n == IF p \in SignedTy THEN Signed(o.val) ELSE Unsigned(o.val)
           v == [k |-> "Primitive", ty |-> p, n |-> n]
<1>1. ReadPrimitive(p, r) = IF ~o.ok THEN o
                            ELSE IF p = "Bool" /\ n \notin {0, 1}
                                 THEN Err("InvalidBoolEncoding", r, Somewhere(r))
                            ELSE Ok(v, o.pos)
  BY DEF ReadPrimitive
<1>2. w \in Nat
  BY PrimitiveSizeType
<1>3. o.ok /\ o.val = Bytes(r, r.pos + w) /\ o.val \in Seq(Byte) /\ Len(o.val) = w
  BY <1>2, TakeAccepts, TakeResult DEF Outcome
<1> HIDE DEF o, v
<1>4. p = "Bool" => n \in {0, 1}
  <2> SUFFICES ASSUME p = "Bool" PROVE n \in {0, 1}
    OBVIOUS
  <2>1. w = 1 /\ p \notin SignedTy
    BY DEF PrimitiveSize, SignedTy
  <2>2. Unsigned(o.val) = o.val[1]
    BY <1>3, <2>1, ReadBoolAccepts
  <2> QED
    BY <1>3, <2>1, <2>2
<1> HIDE DEF n
<1>5. ReadPrimitive(p, r) = Ok(v, o.pos)
  BY <1>1, <1>3, <1>4
<1> QED
  BY <1>5 DEF Ok

\* c is the length that the prefix of the n bytes to come says.
Prefixed(r, n, c) ==
  /\ n >= LenWidth /\ c < Span(LenWidth)
  /\ SubSeq(Bytes(r, r.pos + n), 1, LenWidth) = LittleEndian(c, LenWidth)

LEMMA ReadLenAccepts ==
  ASSUME NEW r, Placed(r), NEW n \in Nat, r.pos + n <= Len(r.buf), NEW c \in Usize,
         Prefixed(r, n, c)
  PROVE  /\ ReadLen(r).ok /\ ReadLen(r).val = c /\ ReadLen(r).pos = r.pos + LenWidth
         /\ r.pos + LenWidth \in r.pos .. Len(r.buf)
<1> DEFINE o == Take(r, LenWidth)
<1>1. ReadLen(r) = IF ~o.ok THEN o
                   ELSE IF Unsigned(o.val) \in 0 .. UsizeMax THEN Ok(Unsigned(o.val), o.pos)
                   ELSE Err("LengthEncodingOverflow", r, Somewhere(r))
  BY DEF ReadLen
<1>2. LenWidth \in Nat /\ LenWidth <= n /\ r.pos \in Nat /\ Len(r.buf) \in Nat
        /\ r.pos + LenWidth <= Len(r.buf)
  BY WincodeAssumption DEF Prefixed, Placed, Reader
<1>3. o.ok /\ o.pos = r.pos + LenWidth /\ o.val = LittleEndian(c, LenWidth)
  <2>1. o.ok /\ o.pos = r.pos + LenWidth /\ o.val = Bytes(r, r.pos + LenWidth)
    BY <1>2, TakeAccepts
  <2>2. SubSeq(Bytes(r, r.pos + n), 1, LenWidth) = Bytes(r, r.pos + LenWidth)
    BY <1>2, PartOfBytes
  <2> QED
    BY <2>1, <2>2 DEF Prefixed
<1> HIDE DEF o
<1>4. c \in 0 .. Span(LenWidth) - 1
  BY <1>2, SpanStep, WincodeAssumption DEF Prefixed, Usize
<1>5. Unsigned(o.val) = c
  BY <1>2, <1>3, <1>4, ReadWhatWasWritten
<1>6. ReadLen(r) = Ok(c, o.pos)
  BY <1>1, <1>3, <1>5 DEF Usize
<1> QED
  BY <1>2, <1>3, <1>6 DEF Ok

LEMMA ReadBytePayloadAccepts ==
  ASSUME NEW r, Placed(r), NEW n \in Nat, r.pos + n <= Len(r.buf)
  PROVE  ReadBytePayload(n, r).ok \/ TooLong(r, n)
<1>1. CASE ~r.borrows /\ ~PreallocCheck(n, 1)
  <2>1. n > PreallocLimit
    BY <1>1, WincodeAssumption DEF PreallocCheck
  <2> QED
    BY <1>1, <2>1 DEF TooLong
<1>2. CASE r.borrows \/ PreallocCheck(n, 1)
  BY <1>2, TakeAccepts DEF ReadBytePayload
<1> QED
  BY <1>1, <1>2

LEMMA ReadCowBytesAccepts ==
  ASSUME NEW r, Placed(r), NEW c \in Usize, r.pos + LenWidth + c <= Len(r.buf),
         Prefixed(r, LenWidth + c, c)
  PROVE  \/ TooLong(r, c)
         \/ /\ ReadCowBytes(r).ok
            /\ ReadCowBytes(r).val = SubSeq(r.buf, r.pos + LenWidth + 1, r.pos + (LenWidth + c))
<1> DEFINE n == ReadLen(r)
           b == At(r, n.pos)
           o == Take(b, n.val)
<1>1. ReadCowBytes(r) = IF ~n.ok THEN n
                        ELSE IF ~r.borrows /\ ~PreallocCheck(n.val, 1)
                             THEN Err("PreallocationSizeLimit", r, Somewhere(r)) ELSE o
  BY DEF ReadCowBytes
<1>2. r.pos \in Nat /\ LenWidth \in Nat /\ c \in Nat /\ r.pos + (LenWidth + c) <= Len(r.buf)
        /\ LenWidth + c \in Nat
  BY WincodeAssumption DEF Placed, Reader, Usize
<1>3. /\ n.ok /\ n.val = c /\ n.pos = r.pos + LenWidth
      /\ r.pos + LenWidth \in r.pos .. Len(r.buf)
  BY <1>2, ReadLenAccepts
<1> HIDE DEF n
<1>4. Placed(b) /\ b.pos = r.pos + LenWidth /\ b.buf = r.buf
  BY <1>3, AtResult
<1> HIDE DEF b
<1>5. o.ok /\ o.val = SubSeq(r.buf, r.pos + LenWidth + 1, r.pos + (LenWidth + c))
  <2>1. b.pos + c <= Len(b.buf) /\ b.pos + c = r.pos + (LenWidth + c)
    BY <1>2, <1>4
  <2> QED
    <3>1. Take(b, c).ok /\ Take(b, c).val = SubSeq(b.buf, b.pos + 1, b.pos + c)
      BY <1>2, <1>4, <2>1, TakeAccepts DEF Bytes
    <3> QED
      BY <1>3, <1>4, <2>1, <3>1
<1> HIDE DEF o
<1>6. CASE ~r.borrows /\ ~PreallocCheck(c, 1)
  <2>1. c > PreallocLimit
    BY <1>2, <1>6, WincodeAssumption DEF PreallocCheck
  <2> QED
    BY <1>6, <2>1 DEF TooLong
<1>7. CASE r.borrows \/ PreallocCheck(c, 1)
  BY <1>1, <1>3, <1>5, <1>7
<1> QED
  BY <1>6, <1>7

LEMMA ReadPrimitivePayloadAccepts ==
  ASSUME NEW p \in PrimitiveTy, NEW len \in Usize, NEW r, Placed(r),
         len * PrimitiveSize(p) \in Usize, r.pos + len * PrimitiveSize(p) <= Len(r.buf)
  PROVE  ReadPrimitivePayload(p, len, r).ok \/ TooLong(r, len * PrimitiveSize(p))
<1> DEFINE n == len * PrimitiveSize(p)
           o == ReadBytePayload(n, r)
           v == [k |-> "Vec", ty |-> p, len |-> len, raw |-> o.val, owned |-> ~r.borrows]
<1>1. CheckedMul(len, PrimitiveSize(p)) = <<n>>
  BY DEF CheckedMul
<1>2. ReadPrimitivePayload(p, len, r) = IF ~o.ok THEN o ELSE Ok(v, o.pos)
  BY <1>1 DEF ReadPrimitivePayload
<1>3. n \in Nat
  BY WincodeAssumption DEF Usize
<1>4. o.ok \/ TooLong(r, n)
  BY <1>3, ReadBytePayloadAccepts
<1> HIDE DEF o, v, n
<1>5. o.ok => ReadPrimitivePayload(p, len, r).ok
  BY <1>2 DEF Ok
<1> QED
  BY <1>4, <1>5 DEF n

LEMMA ParseVecAccepts ==
  ASSUME NEW p \in PrimitiveTy, NEW r, Placed(r), NEW c \in Usize,
         c * PrimitiveSize(p) \in Usize,
         r.pos + LenWidth + c * PrimitiveSize(p) <= Len(r.buf),
         Prefixed(r, LenWidth + c * PrimitiveSize(p), c)
  PROVE  ParseVec(p, r).ok \/ TooLong(r, c * PrimitiveSize(p))
<1> DEFINE n == ReadLen(r)
           b == At(r, n.pos)
           m == c * PrimitiveSize(p)
<1>1. ParseVec(p, r) = IF n.ok THEN ReadPrimitivePayload(p, n.val, b) ELSE n
  BY DEF ParseVec
<1>2. m \in Usize /\ r.pos + LenWidth + m <= Len(r.buf) /\ Prefixed(r, LenWidth + m, c)
  OBVIOUS
<1> HIDE DEF m
<1>3. r.pos \in Nat /\ LenWidth \in Nat /\ m \in Nat /\ r.pos + (LenWidth + m) <= Len(r.buf)
        /\ LenWidth + m \in Nat
  BY <1>2, WincodeAssumption DEF Placed, Reader, Usize
<1>4. /\ n.ok /\ n.val = c /\ n.pos = r.pos + LenWidth
      /\ r.pos + LenWidth \in r.pos .. Len(r.buf)
  BY <1>2, <1>3, ReadLenAccepts
<1> HIDE DEF n
<1>5. Placed(b) /\ b.pos = r.pos + LenWidth /\ b.buf = r.buf /\ b.borrows = r.borrows
  BY <1>4, AtResult
<1> HIDE DEF b
<1>6. b.pos + m <= Len(b.buf)
  BY <1>2, <1>5
<1>7. ReadPrimitivePayload(p, c, b).ok \/ TooLong(b, m)
  BY <1>2, <1>5, <1>6, ReadPrimitivePayloadAccepts DEF m
<1>8. TooLong(b, m) => TooLong(r, m)
  BY <1>5 DEF TooLong
<1> QED
  BY <1>1, <1>4, <1>7, <1>8 DEF m

\* Input that begins with an encoding of a type is parsed, unless it is to be copied
\* and its payload is above the allocation limit (ty.rs, Ty::parse).
THEOREM ParseAccepts ==
  ASSUME NEW t \in DynTy, NEW r, Placed(r), Len(r.buf) \in Usize,
         NEW n \in 0 .. Len(r.buf) - r.pos, IsEncoding(t, Bytes(r, r.pos + n))
  PROVE  Parse(t, r).ok \/ TooLong(r, n - Prefix(t))
<1> DEFINE bs == Bytes(r, r.pos + n)
           e  == r.pos + n
<1>1. r.buf \in Seq(Byte) /\ r.pos \in Nat /\ Len(r.buf) \in Nat /\ n \in Nat
        /\ e \in Nat /\ r.pos <= e /\ e <= Len(r.buf) /\ n <= Len(r.buf) /\ e - r.pos = n
        /\ Len(r.buf) <= UsizeMax /\ n \in Usize /\ UsizeMax \in Nat
  BY WincodeAssumption DEF Placed, Reader, Usize
<1>2. Len(bs) = n
  <2>1. Len(Bytes(r, e)) = e - r.pos
    <3> HIDE DEF e
    <3> QED
      BY <1>1, PlacedBytes
  <2> QED
    BY <1>1, <2>1
<1>3. ASSUME NEW k \in {"String", "Bytes"}, NEW o, o.ok PROVE InCow(k, o, r).ok
  BY <1>3 DEF InCow, Ok
<1>4. CASE t.k = "PrimitiveTy"
  <2>1. t.ty \in PrimitiveTy /\ Parse(t, r) = ReadPrimitive(t.ty, r)
    BY <1>4 DEF DynTy, Parse
  <2> HIDE DEF bs
  <2>2. n = PrimitiveSize(t.ty) /\ (t.ty = "Bool" => bs[1] \in {0, 1})
    BY <1>2, <1>4 DEF IsEncoding, bs
  <2> QED
    BY <1>1, <2>1, <2>2, ReadPrimitiveAccepts DEF bs
<1>5. LenWidth \in Nat
  BY WincodeAssumption
<1>6. CASE t.k = "String"
  <2> HIDE DEF bs
  <2> DEFINE c == n - LenWidth
  <2>1. /\ n >= LenWidth /\ c < Span(LenWidth)
        /\ SubSeq(bs, 1, LenWidth) = LittleEndian(c, LenWidth)
        /\ ValidUtf8(SubSeq(bs, LenWidth + 1, n))
    BY <1>2, <1>6 DEF IsEncoding, bs
  <2>2. c \in Usize /\ LenWidth + c = n /\ r.pos + LenWidth + c <= Len(r.buf)
    BY <1>1, <1>5, <2>1 DEF Usize
  <2>3. Prefixed(r, LenWidth + c, c)
    BY <2>1, <2>2 DEF Prefixed, bs
  <2>4. SubSeq(bs, LenWidth + 1, n) = SubSeq(r.buf, r.pos + LenWidth + 1, r.pos + n)
    BY <1>1, <1>5, <2>1, PartOfBytes DEF bs
  <2>5. n - Prefix(t) = c
    BY <1>6 DEF Prefix
  <2> HIDE DEF c
  <2>6. \/ TooLong(r, c)
        \/ ReadCowBytes(r).ok /\ ValidUtf8(ReadCowBytes(r).val)
    BY <2>1, <2>2, <2>3, <2>4, ReadCowBytesAccepts
  <2>7. Parse(t, r) = InCow("String", ReadCowStr(r), r)
    BY <1>6 DEF Parse
  <2>8. ReadCowBytes(r).ok /\ ValidUtf8(ReadCowBytes(r).val) => ReadCowStr(r).ok
    BY DEF ReadCowStr
  <2> QED
    BY <1>3, <2>5, <2>6, <2>7, <2>8
<1>7. CASE t.k = "Vec"
  <2> HIDE DEF bs
  <2>1. t.ty \in PrimitiveTy
    BY <1>7 DEF DynTy
  <2>2. PICK c \in 0 .. n : /\ n = LenWidth + c * PrimitiveSize(t.ty)
                            /\ n >= LenWidth /\ c < Span(LenWidth)
                            /\ SubSeq(bs, 1, LenWidth) = LittleEndian(c, LenWidth)
    BY <1>2, <1>7 DEF IsEncoding, bs
  <2> DEFINE m == c * PrimitiveSize(t.ty)
  <2>3. m \in Nat
    BY <2>1, PrimitiveSizeType
  <2>4. n = LenWidth + m
    BY <2>2
  <2>5. n - Prefix(t) = m
    BY <1>5, <1>7, <2>3, <2>4 DEF Prefix
  <2> HIDE DEF m
  <2>6. c \in Usize /\ m \in Usize /\ r.pos + LenWidth + m <= Len(r.buf)
    BY <1>1, <1>5, <2>3, <2>4 DEF Usize
  <2>7. Prefixed(r, LenWidth + m, c)
    BY <2>2, <2>4 DEF Prefixed, bs
  <2>8. CASE t.ty = "U8"
    <3>1. m = c
      BY <2>8 DEF m, PrimitiveSize
    <3>2. TooLong(r, c) \/ ReadCowBytes(r).ok
      BY <2>6, <2>7, <3>1, ReadCowBytesAccepts
    <3>3. Parse(t, r) = InCow("Bytes", ReadCowBytes(r), r)
      BY <1>7, <2>8 DEF Parse
    <3> QED
      BY <1>3, <2>5, <3>1, <3>2, <3>3
  <2>9. CASE t.ty # "U8"
    <3>1. Parse(t, r) = ParseVec(t.ty, r)
      BY <1>7, <2>9 DEF Parse
    <3>2. ParseVec(t.ty, r).ok \/ TooLong(r, m)
      BY <2>1, <2>6, <2>7, ParseVecAccepts DEF m
    <3> QED
      BY <2>5, <3>1, <3>2
  <2> QED
    BY <2>8, <2>9
<1>8. CASE t.k = "Array"
  <2> HIDE DEF bs
  <2>1. t.ty \in PrimitiveTy /\ t.len \in Usize /\ t.len \in Nat
    BY <1>8, WincodeAssumption DEF DynTy, Usize
  <2>2. n = t.len * PrimitiveSize(t.ty) /\ n - Prefix(t) = n
    BY <1>1, <1>2, <1>8 DEF IsEncoding, Prefix, bs
  <2>3. CASE t.ty = "U8"
    <3>1. Parse(t, r) = InCow("Bytes", ReadBytePayload(t.len, r), r) /\ n = t.len
      BY <1>8, <2>1, <2>2, <2>3 DEF Parse, PrimitiveSize
    <3>2. ReadBytePayload(n, r).ok \/ TooLong(r, n)
      BY <1>1, ReadBytePayloadAccepts
    <3> QED
      BY <1>3, <2>2, <3>1, <3>2
  <2>4. CASE t.ty # "U8"
    <3>1. Parse(t, r) = ReadPrimitivePayload(t.ty, t.len, r)
      BY <1>8, <2>4 DEF Parse
    <3>2. ReadPrimitivePayload(t.ty, t.len, r).ok \/ TooLong(r, n)
      BY <1>1, <2>1, <2>2, ReadPrimitivePayloadAccepts
    <3> QED
      BY <2>2, <3>1, <3>2
  <2> QED
    BY <2>3, <2>4
<1> QED
  BY <1>4, <1>6, <1>7, <1>8 DEF DynTy

-----------------------------------------------------------------------------
(***************************************************************************)
(* What is written is read.                                                *)
(***************************************************************************)
\* The input goes on with w.
Begins(r, w) ==
  r.pos + Len(w) <= Len(r.buf) /\ \A k \in 1 .. Len(w) : r.buf[r.pos + k] = w[k]

LEMMA TakeBegins ==
  ASSUME NEW r, Placed(r), NEW w \in Seq(Byte), Begins(r, w)
  PROVE  Take(r, Len(w)) = Ok(w, r.pos + Len(w))
<1>1. Len(w) \in Nat /\ r.pos \in Nat /\ Len(r.buf) \in Nat /\ r.pos + Len(w) <= Len(r.buf)
  BY DEF Placed, Reader, Begins
<1> DEFINE n == Len(w)
           o == Take(r, n)
           e == r.pos + n
<1>2. o = Ok(SubSeq(r.buf, r.pos + 1, e), e)
  BY <1>1 DEF Take
<1>3. /\ Bytes(r, e) \in Seq(Byte) /\ Len(Bytes(r, e)) = e - r.pos
      /\ \A k \in 1 .. e - r.pos : Bytes(r, e)[k] = r.buf[r.pos + k]
  BY <1>1, PlacedBytes
<1>4. e - r.pos = n
  BY <1>1
<1>5. Bytes(r, e) = w
  BY <1>3, <1>4, SeqEqual DEF Begins
<1> QED
  BY <1>2, <1>5 DEF Bytes

LEMMA BeginsConcat ==
  ASSUME NEW r, Placed(r), NEW a \in Seq(Byte), NEW b \in Seq(Byte), Begins(r, a \o b)
  PROVE  /\ Begins(r, a)
         /\ r.pos + Len(a) \in r.pos .. Len(r.buf)
         /\ Placed(At(r, r.pos + Len(a))) /\ Begins(At(r, r.pos + Len(a)), b)
<1> DEFINE c == a \o b
           p == r.pos + Len(a)
<1>1. /\ Len(a) \in Nat /\ Len(b) \in Nat /\ Len(c) = Len(a) + Len(b)
      /\ \A k \in 1 .. Len(a) + Len(b) : c[k] = IF k <= Len(a) THEN a[k] ELSE b[k - Len(a)]
  BY ConcatProperties
<1>2. /\ r.pos \in Nat /\ Len(r.buf) \in Nat /\ r.pos + Len(c) <= Len(r.buf)
      /\ \A k \in 1 .. Len(c) : r.buf[r.pos + k] = c[k]
  BY DEF Placed, Reader, Begins
<1> HIDE DEF c
<1>3. p \in r.pos .. Len(r.buf)
  BY <1>1, <1>2
<1>4. Begins(r, a)
  BY <1>1, <1>2 DEF Begins
<1>5. Placed(At(r, p)) /\ At(r, p).pos = p /\ At(r, p).buf = r.buf
  BY <1>3, AtResult
<1>6. \A k \in 1 .. Len(b) : r.buf[p + k] = b[k]
  <2> TAKE k \in 1 .. Len(b)
  <2>1. /\ Len(a) + k \in 1 .. Len(a) + Len(b) /\ ~(Len(a) + k <= Len(a))
        /\ (Len(a) + k) - Len(a) = k /\ p + k = r.pos + (Len(a) + k)
    BY <1>1, <1>2
  <2> QED
    BY <1>1, <1>2, <2>1
<1>7. p + Len(b) <= Len(r.buf)
  BY <1>1, <1>2
<1> QED
  BY <1>3, <1>4, <1>5, <1>6, <1>7 DEF Begins

\* The width and the scalar it is for.
LEMMA BoolRange == {0, 1} \subseteq 0 .. Span(1) - 1
<1>1. Span(1) = Base
  <2>1. 0 \in Nat /\ 0 + 1 = 1
    OBVIOUS
  <2> QED
    BY <2>1, SpanStep, BaseType
<1> QED
  BY <1>1, BaseType

LEMMA ReadPrimitiveWritten ==
  ASSUME NEW p \in PrimitiveTy, NEW n \in Int, InRange(p, n), NEW r, Placed(r),
         Begins(r, LittleEndian(n, PrimitiveSize(p)))
  PROVE  ReadPrimitive(p, r) = Ok([k |-> "Primitive", ty |-> p, n |-> n], r.pos + PrimitiveSize(p))
<1> DEFINE w == PrimitiveSize(p)
           bs == LittleEndian(n, w)
           o == Take(r, w)
           m == IF p \in SignedTy THEN Signed(o.val) ELSE Unsigned(o.val)
           v == [k |-> "Primitive", ty |-> p, n |-> m]
<1>1. ReadPrimitive(p, r) = IF ~o.ok THEN o
                            ELSE IF p = "Bool" /\ m \notin {0, 1}
                                 THEN Err("InvalidBoolEncoding", r, Somewhere(r))
                            ELSE Ok(v, o.pos)
  BY DEF ReadPrimitive
<1>2. w \in Nat \ {0} /\ (p = "Bool" => w = 1)
  <2>1. p = "Bool" => w = 1
    BY DEF PrimitiveSize
  <2> QED
    BY <2>1, PrimitiveSizeType
<1>3. bs \in Seq(Byte) /\ Len(bs) = w
  BY <1>2, LittleEndianType
<1>4. o = Ok(bs, r.pos + w)
  BY <1>3, TakeBegins
<1>5. o.ok /\ o.val = bs /\ o.pos = r.pos + w
  BY <1>4 DEF Ok
<1> HIDE DEF o
<1>6. m = n
  <2>1. CASE p \in SignedTy
    <3>1. p # "Bool" /\ -(Span(w) \div 2) <= n /\ n < Span(w) \div 2
      BY <2>1 DEF InRange, SignedTy
    <3>2. Signed(bs) = n
      BY <1>2, <3>1, ReadSigned
    <3> QED
      BY <1>5, <2>1, <3>2
  <2>2. CASE p \notin SignedTy
    <3>1. n \in 0 .. Span(w) - 1
      <4>1. CASE p = "Bool"
        <5>1. n \in {0, 1} /\ w = 1
          BY <1>2, <4>1 DEF InRange, SignedTy
        <5> QED
          BY <5>1, BoolRange
      <4>2. CASE p # "Bool"
        <5>1. 0 <= n /\ n < Span(w)
          BY <2>2, <4>2 DEF InRange
        <5>2. Span(w) \in Nat
          BY <1>2, SpanStep
        <5> QED
          BY <5>1, <5>2
      <4> QED
        BY <4>1, <4>2
    <3>2. Unsigned(bs) = n
      BY <1>2, <3>1, ReadWhatWasWritten
    <3> QED
      BY <1>5, <2>2, <3>2
  <2> QED
    BY <2>1, <2>2
<1>7. p = "Bool" => n \in {0, 1}
  BY DEF InRange, SignedTy
<1> HIDE DEF m
<1> QED
  BY <1>1, <1>5, <1>6, <1>7

LEMMA ParseIntoUsizeWritten ==
  ASSUME NEW p \in PrimitiveTy, p \notin {"F32", "F64", "Bool"}, NEW n \in Usize, InRange(p, n),
         NEW r, Placed(r), Begins(r, LittleEndian(n, PrimitiveSize(p)))
  PROVE  ParseIntoUsize(p, r) = Ok(n, r.pos + PrimitiveSize(p))
<1>1. n \in Int
  BY WincodeAssumption DEF Usize
<1>2. ReadPrimitive(p, r) = Ok([k |-> "Primitive", ty |-> p, n |-> n], r.pos + PrimitiveSize(p))
  BY <1>1, ReadPrimitiveWritten
<1> DEFINE o == ReadPrimitive(p, r)
<1>3. o.ok /\ o.val.n = n /\ o.pos = r.pos + PrimitiveSize(p)
  BY <1>2 DEF Ok
<1>4. ParseIntoUsize(p, r) = IF ~o.ok THEN o
                            ELSE IF o.val.n \in Usize THEN Ok(o.val.n, o.pos)
                            ELSE Err("CannotCastToUsize", r, {o.pos})
  BY DEF ParseIntoUsize
<1> HIDE DEF o
<1> QED
  BY <1>3, <1>4
=============================================================================
