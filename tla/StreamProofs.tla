----------------------------- MODULE StreamProofs -----------------------------
(***************************************************************************)
(* Proofs about Stream and Session, for every container, every value and   *)
(* every number of records: the derived schema decodes what wincode wrote, *)
(* and a broken connection never makes a wrong record.                     *)
(***************************************************************************)
EXTENDS Session, DeriveProofs, DecoderProofs

(***************************************************************************)
(* Records.                                                                *)
(***************************************************************************)
\* f[i] is every choice of values for the first i fields.
Chooses(f, fs, m, V) ==
  /\ f \in [0 .. m -> SUBSET Seq(V)]
  /\ f[0] = {<<>>}
  /\ \A i \in 1 .. m : f[i] = AndOne(f[i - 1], fs[i].ty)
  /\ ValuesOf(fs) = f[m]

LEMMA AndOneMember ==
  ASSUME NEW firsts, NEW t, NEW x \in AndOne(firsts, t)
  PROVE  \E w \in firsts, v \in Samples(t) : x = Append(w, v)
BY DEF AndOne

LEMMA AndOneHas ==
  ASSUME NEW firsts, NEW t, NEW w \in firsts, NEW v \in Samples(t)
  PROVE  Append(w, v) \in AndOne(firsts, t)
BY DEF AndOne

LEMMA ValuesOfSteps ==
  ASSUME NEW fs, NEW m \in Nat, Len(fs) = m, NEW V, \A i \in 1 .. m : Samples(fs[i].ty) \subseteq V
  PROVE  \E f : Chooses(f, fs, m, V)
<1> DEFINE S == SUBSET Seq(V)
           F == [x \in (1 .. m) \X S |-> AndOne(x[2], fs[x[1]].ty)]
           some == CHOOSE f : f = [i \in 0 .. m |->
                     IF i = 0 THEN {<<>>}
                     ELSE AndOne(f[i - 1], fs[i].ty)]
<1>1. ValuesOf(fs) = some[m]
  BY DEF ValuesOf
<1>2. {<<>>} \in S
  BY EmptySeq
<1>3. \A i \in 1 .. m : \A x \in S : AndOne(x, fs[i].ty) \in S
  <2> TAKE i \in 1 .. m
  <2> TAKE x \in S
  <2>1. \A vals \in x : \A v \in Samples(fs[i].ty) : Append(vals, v) \in Seq(V)
    <3> TAKE vals \in x
    <3> TAKE v \in Samples(fs[i].ty)
    <3>1. vals \in Seq(V) /\ v \in V
      OBVIOUS
    <3> QED
      BY <3>1, AppendProperties
  <2> QED
    BY <2>1 DEF AndOne
<1> HIDE DEF S
<1>4. \A x \in (1 .. m) \X S : x[1] \in 1 .. m /\ x[2] \in S
  OBVIOUS
<1>5. F \in [(1 .. m) \X S -> S]
  BY <1>3, <1>4
<1>6. PICK g : Computes(g, m, S, {<<>>}, F)
  <2> HIDE DEF F
  <2> QED
    BY <1>2, <1>5, RecursionExists, Zenon
<1>7. g \in [0 .. m -> S] /\ \A i \in 0 .. m : g[i] = IF i = 0 THEN {<<>>} ELSE F[<<i, g[i - 1]>>]
  BY <1>6 DEF Computes
<1>8. \A i \in 0 .. m : g[i] = IF i = 0 THEN {<<>>} ELSE AndOne(g[i - 1], fs[i].ty)
  <2> TAKE i \in 0 .. m
  <2>1. CASE i # 0
    <3>1. i \in 1 .. m /\ i - 1 \in 0 .. m
      BY <2>1
    <3>2. g[i - 1] \in S /\ g[i] = F[<<i, g[i - 1]>>]
      BY <1>7, <2>1, <3>1
    <3>3. \A x \in S : F[<<i, x>>] = AndOne(x, fs[i].ty)
      <4> TAKE x \in S
      <4>1. <<i, x>> \in (1 .. m) \X S /\ <<i, x>>[1] = i /\ <<i, x>>[2] = x
        BY <3>1
      <4>2. \A p \in (1 .. m) \X S : F[p] = AndOne(p[2], fs[p[1]].ty)
        OBVIOUS
      <4> HIDE DEF F
      <4> QED
        BY <4>1, <4>2
    <3> HIDE DEF F
    <3> QED
      BY <2>1, <3>2, <3>3
  <2> QED
    BY <1>7, <2>1
<1>9. g = [i \in 0 .. m |-> IF i = 0 THEN {<<>>} ELSE AndOne(g[i - 1], fs[i].ty)]
  BY <1>7, <1>8
<1>12. some = [i \in 0 .. m |-> IF i = 0 THEN {<<>>} ELSE AndOne(some[i - 1], fs[i].ty)]
  BY <1>9
<1> HIDE DEF some
<1>13. some[0] = {<<>>} /\ \A i \in 1 .. m : some[i] = AndOne(some[i - 1], fs[i].ty)
  <2>1. 0 \in 0 .. m /\ \A i \in 1 .. m : i \in 0 .. m /\ i # 0
    OBVIOUS
  <2> QED
    BY <1>12, <2>1
<1>14. \A i \in 0 .. m : some[i] \in S
  <2> DEFINE Z == {i \in 0 .. m : some[i] \in S}
  <2>0. some[0] \in S
    BY <1>2, <1>13, Zenon
  <2>1. 0 \in Z
    BY <2>0
  <2>2. ASSUME NEW i \in 0 .. m - 1, i \in Z PROVE i + 1 \in Z
    <3>1. i + 1 \in 1 .. m /\ (i + 1) - 1 = i /\ some[i] \in S
      BY <2>2
    <3> QED
      BY <1>3, <1>13, <3>1
  <2> HIDE DEF Z
  <2>3. 0 .. m \subseteq Z
    BY <2>1, <2>2, UpTo
  <2> QED
    BY <2>3 DEF Z
<1>15. some \in [0 .. m -> S]
  BY <1>12, <1>14
<1> QED
  BY <1>1, <1>13, <1>15 DEF Chooses, S

\* A value for every field, of the field's samples.
LEMMA ValuesOfResult ==
  ASSUME NEW fs, NEW m \in Nat, Len(fs) = m, NEW V, \A i \in 1 .. m : Samples(fs[i].ty) \subseteq V,
         NEW vals \in ValuesOf(fs)
  PROVE  vals \in Seq(V) /\ Len(vals) = m /\ \A i \in 1 .. m : vals[i] \in Samples(fs[i].ty)
<1>1. PICK f : Chooses(f, fs, m, V)
  BY ValuesOfSteps
<1> DEFINE Fit(w, i) == w \in Seq(V) /\ Len(w) = i /\ \A j \in 1 .. i : w[j] \in Samples(fs[j].ty)
           Z == {i \in 0 .. m : \A w \in f[i] : Fit(w, i)}
<1>2. 0 \in Z
  BY <1>1, EmptySeq DEF Chooses
<1>3. ASSUME NEW i \in 0 .. m - 1, i \in Z PROVE i + 1 \in Z
  <2>1. i + 1 \in 1 .. m /\ (i + 1) - 1 = i /\ i + 1 \in 0 .. m /\ \A w \in f[i] : Fit(w, i)
    BY <1>3
  <2>2. f[i + 1] = AndOne(f[i], fs[i + 1].ty)
    BY <1>1, <2>1 DEF Chooses
  <2>3. ASSUME NEW w \in f[i], NEW v \in Samples(fs[i + 1].ty) PROVE Fit(Append(w, v), i + 1)
    <3>1. v \in V /\ w \in Seq(V) /\ Len(w) = i /\ \A j \in 1 .. i : w[j] \in Samples(fs[j].ty)
      BY <2>1
    <3> DEFINE x == Append(w, v)
    <3>2. x \in Seq(V) /\ Len(x) = i + 1 /\ (\A j \in 1 .. i : x[j] = w[j]) /\ x[i + 1] = v
      BY <3>1, AppendProperties
    <3> HIDE DEF x
    <3>3. \A j \in 1 .. i + 1 : x[j] \in Samples(fs[j].ty)
      <4> TAKE j \in 1 .. i + 1
      <4>1. j = i + 1 \/ j \in 1 .. i
        OBVIOUS
      <4> QED
        BY <3>1, <3>2, <4>1
    <3>4. Fit(x, i + 1)
      BY <3>2, <3>3
    <3> QED
      BY <3>4 DEF x
  <2> HIDE DEF Fit, Z
  <2>4. \A x \in f[i + 1] : Fit(x, i + 1)
    <3> TAKE x \in f[i + 1]
    <3>1. x \in AndOne(f[i], fs[i + 1].ty)
      BY <2>2
    <3>2. PICK w \in f[i], v \in Samples(fs[i + 1].ty) : x = Append(w, v)
      BY <3>1, AndOneMember
    <3> QED
      BY <2>3, <3>2
  <2> QED
    BY <2>1, <2>4 DEF Z
<1> HIDE DEF Z
<1>4. 0 .. m \subseteq Z
  BY <1>2, <1>3, UpTo
<1>5. m \in 0 .. m
  OBVIOUS
<1>6. m \in Z
  BY <1>4, <1>5
<1>7. vals \in f[m]
  BY <1>1 DEF Chooses
<1> QED
  BY <1>6, <1>7 DEF Z

\* If every type has a value, every variant has a record.
LEMMA ValuesExist ==
  ASSUME NEW fs, NEW m \in Nat, Len(fs) = m, \A i \in 1 .. m : Samples(fs[i].ty) # {}
  PROVE  ValuesOf(fs) # {}
<1> DEFINE V == UNION {Samples(fs[i].ty) : i \in 1 .. m}
<1>1. \A i \in 1 .. m : Samples(fs[i].ty) \subseteq V
  OBVIOUS
<1> HIDE DEF V
<1>2. PICK f : Chooses(f, fs, m, V)
  BY <1>1, ValuesOfSteps
<1> DEFINE Z == {i \in 0 .. m : f[i] # {}}
<1>3. 0 \in Z
  <2>1. <<>> \in {<<>>}
    OBVIOUS
  <2>2. <<>> \in f[0]
    BY <1>2, <2>1, Zenon DEF Chooses
  <2> QED
    BY <2>2
<1>4. ASSUME NEW i \in 0 .. m - 1, i \in Z PROVE i + 1 \in Z
  <2>1. i + 1 \in 1 .. m /\ (i + 1) - 1 = i /\ i + 1 \in 0 .. m /\ f[i] # {}
    BY <1>4
  <2>2. f[i + 1] = AndOne(f[i], fs[i + 1].ty) /\ Samples(fs[i + 1].ty) # {}
    BY <1>2, <2>1 DEF Chooses
  <2>3. PICK w \in f[i], v \in Samples(fs[i + 1].ty) : TRUE
    BY <2>1, <2>2
  <2>4. Append(w, v) \in f[i + 1]
    <3>1. Append(w, v) \in AndOne(f[i], fs[i + 1].ty)
      BY AndOneHas
    <3> QED
      BY <2>2, <3>1
  <2> QED
    BY <2>1, <2>4
<1> HIDE DEF Z
<1>5. m \in Z
  <2>1. m \in 0 .. m
    OBVIOUS
  <2> QED
    BY <1>3, <1>4, <2>1, UpTo
<1> QED
  BY <1>2, <1>5 DEF Chooses, Z

\* What a field holds is a Value.
LEMMA HoldsValue ==
  ASSUME NEW t \in RustTy, NEW v, Holds(t, v)
  PROVE  v \in Value
<1>1. CASE t.k = "primitive"
  <2>1. t.ty \in RustPrimitive
    BY <1>1 DEF RustTy
  <2>2. DynPrimitiveTy[t.ty] \in PrimitiveTy
    BY <2>1, DynPrimitiveTyType
  <2>3. v \in [k : {"Primitive"}, ty : {DynPrimitiveTy[t.ty]}, n : Int]
    BY <1>1 DEF Holds
  <2> QED
    BY <2>2, <2>3 DEF Value
<1>2. CASE t.k = "String"
  <2>1. v \in [k : {"String"}, raw : Seq(Byte), owned : {FALSE}]
    BY <1>2 DEF Holds
  <2> QED
    BY <2>1 DEF Value
<1>3. CASE t.k \in {"Vec", "Array"} /\ t.ty = "u8"
  <2>1. v \in [k : {"Bytes"}, raw : Seq(Byte), owned : {FALSE}]
    BY <1>3 DEF Holds
  <2> QED
    BY <2>1 DEF Value
<1>4. CASE t.k \in {"Vec", "Array"} /\ t.ty # "u8"
  <2>1. t.ty \in RustPrimitive
    BY <1>4 DEF RustTy
  <2>2. DynPrimitiveTy[t.ty] \in PrimitiveTy
    BY <2>1, DynPrimitiveTyType
  <2>3. v \in [k : {"Vec"}, ty : {DynPrimitiveTy[t.ty]}, len : Usize, raw : Seq(Byte), owned : {FALSE}]
    BY <1>4 DEF Holds
  <2> QED
    BY <2>2, <2>3 DEF Value
<1> QED
  BY <1>1, <1>2, <1>3, <1>4 DEF RustTy

LEMMA ContainersType ==
  ASSUME NEW c \in Containers
  PROVE  c \in Container /\ (c.k = "Struct" => Len(c.variants) = 1) /\ (c.k = "Enum" => TagsFit(c))
<1>1. c \in Container
  BY StreamAssumption
<1>2. IF c.k = "Struct" THEN Len(c.variants) = 1 ELSE TagsFit(c)
  BY StreamAssumption
<1> QED
  BY <1>1, <1>2

\* The records the producer sends are values of their container.
LEMMA RecordsHold ==
  ASSUME NEW c \in Containers, Compiles(c), NEW rec \in Records(c)
  PROVE  /\ RecordHolds(c, rec) /\ rec = [variant |-> rec.variant, vals |-> rec.vals]
         /\ DOMAIN rec.vals = DOMAIN c.variants[rec.variant]
<1>0. PICK v \in DOMAIN c.variants : \E vals \in ValuesOf(c.variants[v]) : rec = [variant |-> v, vals |-> vals]
  BY DEF Records
<1>1. PICK vals \in ValuesOf(c.variants[v]) : rec = [variant |-> v, vals |-> vals]
  BY <1>0
<1> DEFINE fs == c.variants[v]
           m == Len(fs)
           V == UNION {Samples(fs[i].ty) : i \in 1 .. m}
<1>2. c \in Container
  BY ContainersType
<1>3. fs \in Seq(ContainerField) /\ fs \in Range(c.variants)
  BY <1>2, ContainerParts DEF Range
<1>4. m \in Nat /\ DOMAIN fs = 1 .. m
  BY <1>3
<1>5. \A i \in 1 .. m : Samples(fs[i].ty) \subseteq V
  OBVIOUS
<1>6. \A i \in DOMAIN fs : FieldCompiles(fs[i])
  BY <1>2, FieldsCompile
<1> HIDE DEF V, fs
<1>7. vals \in Seq(V) /\ Len(vals) = m /\ \A i \in 1 .. m : vals[i] \in Samples(fs[i].ty)
  BY <1>4, <1>5, ValuesOfResult DEF fs
<1>8. \A i \in DOMAIN fs : FieldHolds(fs[i], vals[i])
  <2> TAKE i \in DOMAIN fs
  <2> DEFINE f == fs[i]
  <2>1. FieldCompiles(f) /\ f \in Range(fs) /\ vals[i] \in Samples(f.ty)
    BY <1>4, <1>6, <1>7 DEF Range
  <2> HIDE DEF f
  <2>2. f \in ContainerField /\ (~f.skip => f.ty \in RustTy)
    BY <2>1 DEF FieldCompiles
  <2>3. ~f.skip => Holds(f.ty, vals[i])
    BY <1>3, <2>1, <2>2, StreamAssumption DEF FieldBounds
  <2> QED
    BY <2>2, <2>3 DEF FieldHolds, f
<1>9. rec.variant = v /\ rec.vals = vals
  BY <1>1
<1> QED
  BY <1>1, <1>4, <1>7, <1>8, <1>9 DEF RecordHolds, fs

-----------------------------------------------------------------------------
(***************************************************************************)
(* Where the records and their fields are.                                 *)
(***************************************************************************)
RecordCodes(c, recs) == [i \in DOMAIN recs |-> EncodeRecord(c, recs[i])]

\* Where record n begins in the stream, and where the i-th field that the schema shows
\* ends in its record.
Start(c, recs, n) == Offset(RecordCodes(c, recs), n - 1)

FieldEnd(c, rec, i) == TagSize(c) + Offset(KeptCodes(c, rec), i)

LEMMA RecordCodesType ==
  ASSUME NEW c \in Containers, Compiles(c), NEW recs \in Seq(Records(c))
  PROVE  /\ RecordCodes(c, recs) \in Seq(Seq(Byte)) /\ Len(RecordCodes(c, recs)) = Len(recs)
         /\ \A n \in 1 .. Len(recs) : RecordCodes(c, recs)[n] = EncodeRecord(c, recs[n])
         /\ Encoded(c, recs) = FlattenSeq(RecordCodes(c, recs)) /\ Encoded(c, recs) \in Seq(Byte)
<1> DEFINE s == RecordCodes(c, recs)
           m == Len(recs)
<1>1. m \in Nat /\ DOMAIN recs = 1 .. m /\ \A n \in 1 .. m : recs[n] \in Records(c)
  BY ElementOfSeq
<1>2. \A n \in 1 .. m : EncodeRecord(c, recs[n]) \in Seq(Byte)
  BY <1>1, ContainersType, RecordsHold, FieldCodesType
<1>3. s \in Seq(Seq(Byte)) /\ Len(s) = m /\ \A n \in 1 .. m : s[n] = EncodeRecord(c, recs[n])
  BY <1>1, <1>2 DEF RecordCodes
<1>4. Encoded(c, recs) = FlattenSeq(s)
  BY DEF Encoded, RecordCodes
<1> HIDE DEF s
<1>5. FlattenSeq(s) \in Seq(Byte)
  BY <1>3, FlattenType
<1> QED
  BY <1>3, <1>4, <1>5 DEF s

LEMMA RecordStarts ==
  ASSUME NEW c \in Containers, Compiles(c), NEW recs \in Seq(Records(c))
  PROVE  /\ Start(c, recs, 1) = 0 /\ Start(c, recs, Len(recs) + 1) = Len(Encoded(c, recs))
         /\ \A n \in 1 .. Len(recs) + 1 : Start(c, recs, n) \in 0 .. Len(Encoded(c, recs))
         /\ \A n \in 1 .. Len(recs) :
              Start(c, recs, n + 1) = Start(c, recs, n) + Len(EncodeRecord(c, recs[n]))
<1> DEFINE s == RecordCodes(c, recs)
           m == Len(recs)
<1>1. /\ s \in Seq(Seq(Byte)) /\ Len(s) = m /\ m \in Nat
      /\ \A n \in 1 .. m : s[n] = EncodeRecord(c, recs[n])
      /\ Encoded(c, recs) = FlattenSeq(s)
  BY RecordCodesType
<1> HIDE DEF s
<1>2. /\ Offset(s, 0) = 0 /\ Offset(s, m) = Len(FlattenSeq(s))
      /\ \A n \in 0 .. m : Offset(s, n) \in 0 .. Len(FlattenSeq(s))
      /\ \A n \in 1 .. m : Offset(s, n) = Offset(s, n - 1) + Len(s[n])
  BY <1>1, FlattenPlaces
<1>3. \A n \in 1 .. m + 1 : Start(c, recs, n) = Offset(s, n - 1) /\ n - 1 \in 0 .. m
  BY <1>1 DEF Start, s
<1>4. 1 - 1 = 0 /\ (m + 1) - 1 = m /\ 1 \in 1 .. m + 1 /\ m + 1 \in 1 .. m + 1
      /\ \A n \in 1 .. m : n \in 1 .. m + 1 /\ n + 1 \in 1 .. m + 1 /\ (n + 1) - 1 = n
  BY <1>1
<1>5. ASSUME NEW n \in 1 .. m
      PROVE  Start(c, recs, n + 1) = Start(c, recs, n) + Len(EncodeRecord(c, recs[n]))
  <2>1. Start(c, recs, n + 1) = Offset(s, n) /\ Start(c, recs, n) = Offset(s, n - 1)
    BY <1>3, <1>4
  <2> QED
    BY <1>1, <1>2, <2>1
<1>6. Start(c, recs, 1) = 0 /\ Start(c, recs, m + 1) = Len(FlattenSeq(s))
  BY <1>2, <1>3, <1>4
<1>7. \A n \in 1 .. m + 1 : Start(c, recs, n) \in 0 .. Len(FlattenSeq(s))
  BY <1>2, <1>3
<1> QED
  BY <1>1, <1>5, <1>6, <1>7

LEMMA EncodedPrefix ==
  ASSUME NEW c \in Containers, Compiles(c), NEW recs \in Seq(Records(c)), NEW m \in 0 .. Len(recs)
  PROVE  Len(Encoded(c, SubSeq(recs, 1, m))) = Start(c, recs, m + 1)
<1> DEFINE s == RecordCodes(c, recs)
           first == SubSeq(recs, 1, m)
           t == RecordCodes(c, first)
           u == SubSeq(s, 1, m)
<1>1. /\ s \in Seq(Seq(Byte)) /\ Len(s) = Len(recs) /\ \A n \in 1 .. Len(recs) : s[n] = EncodeRecord(c, recs[n])
  BY RecordCodesType
<1>2. m \in Nat /\ m <= Len(recs) /\ m - 1 + 1 = m /\ (m + 1) - 1 = m /\ \A n \in 1 .. m : n \in 1 .. Len(recs) /\ 1 + n - 1 = n
  OBVIOUS
<1>3. first \in Seq(Records(c)) /\ Len(first) = m /\ \A n \in 1 .. m : first[n] = recs[n]
  <2>1. \A n \in 1 .. m : recs[n] \in Records(c)
    BY <1>2, ElementOfSeq
  <2>2. /\ first \in Seq(Records(c)) /\ Len(first) = (IF 1 <= m THEN m - 1 + 1 ELSE 0)
        /\ \A n \in 1 .. m - 1 + 1 : first[n] = recs[1 + n - 1]
    BY <2>1, SubSeqProperties
  <2> QED
    BY <1>2, <2>2
<1>4. u \in Seq(Seq(Byte)) /\ Len(u) = m /\ \A n \in 1 .. m : u[n] = s[n]
  <2> DEFINE T == Seq(Byte)
  <2>1. \A n \in 1 .. m : s[n] \in T
    BY <1>1, <1>2, ElementOfSeq
  <2>3. s \in Seq(T) /\ 1 \in Int /\ m \in Int
    BY <1>1
  <2> HIDE DEF s, T
  <2>2. /\ u \in Seq(T) /\ Len(u) = (IF 1 <= m THEN m - 1 + 1 ELSE 0)
        /\ \A n \in 1 .. m - 1 + 1 : u[n] = s[1 + n - 1]
    BY <2>1, <2>3, SubSeqProperties
  <2> QED
    BY <1>2, <2>2 DEF T
<1> HIDE DEF first, s, u
<1>5. /\ t \in Seq(Seq(Byte)) /\ Len(t) = m /\ Encoded(c, first) = FlattenSeq(t)
      /\ \A n \in 1 .. m : t[n] = EncodeRecord(c, first[n])
  BY <1>3, RecordCodesType
<1> HIDE DEF t
<1>6. t = u
  <2>1. \A n \in 1 .. m : t[n] = u[n]
    BY <1>1, <1>2, <1>3, <1>4, <1>5
  <2> QED
    BY <1>4, <1>5, <2>1, SeqEqual
<1>7. Start(c, recs, m + 1) = Len(FlattenSeq(u))
  BY <1>2 DEF Start, Offset, Joined, s, u
<1> QED
  BY <1>5, <1>6, <1>7 DEF first

LEMMA FieldEnds ==
  ASSUME NEW c \in Container, NEW rec, RecordHolds(c, rec)
  PROVE  LET n == Len(Kept(c.variants[rec.variant]))
             s == KeptCodes(c, rec)
         IN  /\ FieldEnd(c, rec, 0) = TagSize(c) /\ FieldEnd(c, rec, n) = Len(EncodeRecord(c, rec))
             /\ \A i \in 0 .. n : FieldEnd(c, rec, i) \in TagSize(c) .. Len(EncodeRecord(c, rec))
             /\ \A i \in 1 .. n : FieldEnd(c, rec, i) = FieldEnd(c, rec, i - 1) + Len(s[i])
             /\ TagSize(c) \in Nat /\ Len(EncodeRecord(c, rec)) \in Nat /\ n \in Nat
             /\ \A i \in 1 .. n : s[i] \in Seq(Byte)
<1> DEFINE n == Len(Kept(c.variants[rec.variant]))
           s == KeptCodes(c, rec)
<1>1. /\ s \in Seq(Seq(Byte)) /\ Len(s) = n /\ FlattenSeq(s) \in Seq(Byte)
      /\ Len(EncodeRecord(c, rec)) = TagSize(c) + Len(FlattenSeq(s))
  BY KeptCodesType
<1>2. TagSize(c) \in Nat
  BY ContainerParts
<1>3. \A i : FieldEnd(c, rec, i) = TagSize(c) + Offset(s, i)
  BY DEF FieldEnd
<1> HIDE DEF s, n
<1>4. /\ Offset(s, 0) = 0 /\ Offset(s, n) = Len(FlattenSeq(s))
      /\ \A i \in 0 .. n : Offset(s, i) \in 0 .. Len(FlattenSeq(s))
      /\ \A i \in 1 .. n : Offset(s, i) = Offset(s, i - 1) + Len(s[i])
  BY <1>1, FlattenPlaces
<1>5. n \in Nat /\ Len(FlattenSeq(s)) \in Nat
  BY <1>1
<1>6. \A i \in 1 .. n : s[i] \in Seq(Byte)
  BY <1>1, ElementOfSeq
<1>7. FieldEnd(c, rec, 0) = TagSize(c) /\ FieldEnd(c, rec, n) = Len(EncodeRecord(c, rec))
  BY <1>1, <1>2, <1>3, <1>4
<1>8. \A i \in 0 .. n : FieldEnd(c, rec, i) \in TagSize(c) .. Len(EncodeRecord(c, rec))
  BY <1>1, <1>2, <1>3, <1>4, <1>5
<1>9. ASSUME NEW i \in 1 .. n PROVE FieldEnd(c, rec, i) = FieldEnd(c, rec, i - 1) + Len(s[i])
  <2>1. i - 1 \in 0 .. n /\ Len(s[i]) \in Nat
    BY <1>5, <1>6
  <2>2. Offset(s, i - 1) \in Nat /\ Offset(s, i) = Offset(s, i - 1) + Len(s[i])
    BY <1>4, <1>5, <2>1
  <2> QED
    BY <1>2, <1>3, <2>1, <2>2
<1>10. Len(EncodeRecord(c, rec)) \in Nat
  BY <1>1, <1>2, <1>5
<1> QED
  BY <1>2, <1>5, <1>6, <1>7, <1>8, <1>9, <1>10 DEF s, n

\* A stream that begins at off has the tag and the fields of record n where they belong.
LEMMA RecordPlaces ==
  ASSUME NEW c \in Containers, Compiles(c), NEW recs \in Seq(Records(c)), NEW n \in 1 .. Len(recs),
         NEW buf \in Seq(Byte), NEW off \in Nat, Agrees(buf, off, Encoded(c, recs))
  PROVE  LET rec == recs[n]
             start == off + Start(c, recs, n)
         IN  /\ Agrees(buf, start, EncodeTag(c, rec.variant))
             /\ \A i \in 1 .. Len(Kept(c.variants[rec.variant])) :
                  Agrees(buf, start + FieldEnd(c, rec, i - 1), KeptCodes(c, rec)[i])
<1> DEFINE rec == recs[n]
           s == RecordCodes(c, recs)
           k == KeptCodes(c, rec)
           tag == EncodeTag(c, rec.variant)
           start == off + Start(c, recs, n)
           m == Len(Kept(c.variants[rec.variant]))
<1>1. c \in Container /\ rec \in Records(c)
  BY ContainersType, ElementOfSeq
<1>2. RecordHolds(c, rec)
  BY <1>1, RecordsHold
<1>3. s \in Seq(Seq(Byte)) /\ Len(s) = Len(recs) /\ s[n] = EncodeRecord(c, rec) /\ Encoded(c, recs) = FlattenSeq(s)
  BY RecordCodesType
<1>4. n - 1 \in 0 .. Len(recs) /\ Start(c, recs, n) = Offset(s, n - 1) /\ Offset(s, n - 1) \in Nat
  <2>1. n - 1 \in 0 .. Len(s)
    BY <1>3
  <2>2. Offset(s, n - 1) \in 0 .. Len(FlattenSeq(s)) /\ Len(FlattenSeq(s)) \in Nat
    BY <1>3, <2>1, FlattenPlaces, FlattenType
  <2> QED
    BY <1>3, <2>1, <2>2 DEF Start
<1>5. /\ k \in Seq(Seq(Byte)) /\ Len(k) = m /\ FlattenSeq(k) \in Seq(Byte)
      /\ EncodeRecord(c, rec) = tag \o FlattenSeq(k)
  BY <1>1, <1>2, KeptCodesType
<1>6. tag \in Seq(Byte) /\ Len(tag) = TagSize(c) /\ TagSize(c) \in Nat
  <2>1. rec.variant \in Nat
    BY <1>1, <1>2, ContainerParts DEF RecordHolds
  <2> QED
    BY <1>1, <2>1, EncodeTagType, ContainerParts
<1> HIDE DEF rec, s, k, tag, m
<1>7. Agrees(buf, start, tag \o FlattenSeq(k))
  <2>1. Agrees(buf, off, FlattenSeq(s)) /\ n \in 1 .. Len(s)
    BY <1>3
  <2>2. Agrees(buf, off + Offset(s, n - 1), s[n])
    BY <1>3, <2>1, AgreesPiece
  <2> QED
    BY <1>3, <1>4, <1>5, <2>2
<1>8. start \in Nat
  BY <1>4
<1> HIDE DEF start
<1>9. Agrees(buf, start, tag) /\ Agrees(buf, start + TagSize(c), FlattenSeq(k))
  BY <1>5, <1>6, <1>7, <1>8, AgreesConcat
<1>10. ASSUME NEW i \in 1 .. m PROVE Agrees(buf, start + FieldEnd(c, rec, i - 1), k[i])
  <2>1. start + TagSize(c) \in Nat /\ i \in 1 .. Len(k)
    <3>1. start + TagSize(c) \in Nat
      BY <1>6, <1>8
    <3> QED
      BY <1>5, <3>1
  <2>2. Agrees(buf, (start + TagSize(c)) + Offset(k, i - 1), k[i])
    BY <1>5, <1>9, <2>1, AgreesPiece
  <2>3. Offset(k, i - 1) \in Nat
    <3>1. Len(k) \in Nat /\ Len(FlattenSeq(k)) \in Nat
      BY <1>5
    <3>2. i - 1 \in 0 .. Len(k)
      BY <2>1, <3>1
    <3>3. Offset(k, i - 1) \in 0 .. Len(FlattenSeq(k))
      BY <1>5, <3>2, FlattenPlaces
    <3> QED
      BY <3>1, <3>3
  <2>4. start + FieldEnd(c, rec, i - 1) = (start + TagSize(c)) + Offset(k, i - 1)
    BY <1>6, <1>8, <2>3 DEF FieldEnd, k
  <2> QED
    BY <2>2, <2>4
<1> QED
  BY <1>9, <1>10 DEF rec, k, tag, m, start

-----------------------------------------------------------------------------
(***************************************************************************)
(* The invariant of producer and consumer, for a stream that begins at     *)
(* off, 0 in both specifications.  A step may at any time find             *)
(* that its bytes have not arrived; what it then leaves behind is its own  *)
(* specification's business.                                               *)
(***************************************************************************)
Sending == container \in Containers /\ Compiles(container) /\ sent \in Seq(Records(container))

\* The buffer has what was sent, or the beginning of it.
Receiving(off) ==
  /\ Placed(reader) /\ Agrees(reader.buf, off, Encoded(container, sent))
  /\ reader.borrows \/ \A i \in DOMAIN sent : Fits(sent[i])

Shaped == [variant : Nat, vals : Seq(Value)]

Delivering ==
  /\ delivered \in Seq(Shaped) /\ Len(delivered) <= Len(sent)
  /\ \A n \in DOMAIN delivered : Intact(n + 1) => delivered[n] = Shown(sent[n])

\* What every decoder keeps to, whatever it reads.
Decoding ==
  /\ root = SchemaOf(container) /\ items \in Seq(Item)
  /\ Live => /\ More /\ handle \in Handle /\ handle.variant \in DOMAIN root.variants
             /\ handle.next \in 1 .. Len(Defs) + 1 /\ handle.own <= Len(reader.buf)
             /\ Len(items) = handle.next - 1
             /\ handle.k = "Variant" => handle.next = 1
             /\ \A i \in DOMAIN items : items[i].def = Defs[i]

Index == Len(delivered) + 1

Here(off) == off + Start(container, sent, Index)

\* The value of the i-th field that the schema shows of a record.
ValueOf(c, rec, i) == rec.vals[Shows(c.variants[rec.variant])[i]]

\* it is that field of a record that begins at start.
Right(it, c, rec, start, i) ==
  /\ it.ok /\ Plain(it.val) = ValueOf(c, rec, i)
  /\ it.from = start + FieldEnd(c, rec, i - 1) /\ it.to = start + FieldEnd(c, rec, i)

\* As long as no adapter is in the way, the reader is at the next record, and a decoder in
\* it behind the fields it has read.
InPlace(off) ==
  Intact(Index) =>
    /\ ~(Live /\ handle.byRef) => reader.pos = Here(off)
    /\ Live =>
         LET rec == sent[Index]
         IN  /\ handle.start = Here(off) /\ handle.variant = rec.variant
             /\ handle.first = Here(off) + FieldEnd(container, rec, 0)
             /\ \A i \in DOMAIN items \cap IntactFields(Index) :
                  Right(items[i], container, rec, Here(off), i)
             /\ Len(items) = 0 \/ Len(items) \in IntactFields(Index) =>
                  HandleReader.pos = Here(off) + FieldEnd(container, rec, Len(items))

\* The record at hand has not arrived in full.
Missing(off) == More /\ Len(reader.buf) < off + Start(container, sent, Index + 1)

\* What the schema says about the container.
LEMMA Derived ==
  ASSUME Sending, root = SchemaOf(container)
  PROVE  /\ container \in Container /\ root \in RootSchema /\ root.k = container.k
         /\ root.k = "Struct" => Len(root.variants) = 1
         /\ root.k = "Enum" => /\ root.tag = DynPrimitiveTy[TagEncoding(container)]
                               /\ root.size = ContainerMeta(container)
         /\ Len(root.variants) = Len(container.variants) /\ root.variants \in Seq(Schema)
         /\ DOMAIN root.variants = DOMAIN container.variants
<1>1. container \in Container /\ (container.k = "Struct" => Len(container.variants) = 1)
  BY ContainersType DEF Sending
<1>2. /\ SchemaOf(container) \in RootSchema /\ SchemaOf(container).k = container.k
      /\ Len(SchemaOf(container).variants) = Len(container.variants)
      /\ container.k = "Enum" => /\ SchemaOf(container).size = ContainerMeta(container)
                                 /\ SchemaOf(container).tag = DynPrimitiveTy[TagEncoding(container)]
  BY <1>1, SchemaType DEF Sending
<1>3. root.variants \in Seq(Schema)
  BY <1>2, RootParts
<1>4. DOMAIN container.variants = 1 .. Len(container.variants)
  BY <1>1, ContainerParts
<1>5. DOMAIN root.variants = 1 .. Len(root.variants)
  BY <1>3
<1> QED
  BY <1>1, <1>2, <1>3, <1>4, <1>5

LEMMA DerivedVariant ==
  ASSUME Sending, root = SchemaOf(container), NEW v \in DOMAIN container.variants
  PROVE  LET fs   == container.variants[v]
             defs == root.variants[v].fields
         IN  /\ defs \in Seq(FieldDef) /\ Len(defs) = Len(Kept(fs)) /\ Len(defs) \in Nat
             /\ fs \in Seq(ContainerField) /\ root.variants[v].size = SchemaSize(container, v)
             /\ \A i \in 1 .. Len(defs) :
                  /\ defs[i] = [ty |-> TYPE(Kept(fs)[i].ty), size |-> TypeMeta(Kept(fs)[i].ty)]
                  /\ defs[i] \in FieldDef /\ defs[i].ty \in DynTy
<1> DEFINE fs == container.variants[v]
           defs == root.variants[v].fields
<1>1. container \in Container /\ (container.k = "Struct" => Len(container.variants) = 1)
  BY ContainersType DEF Sending
<1>2. SchemaOf(container).variants[v] = [fields |-> FieldDefs(fs), size |-> SchemaSize(container, v)]
  BY <1>1, SchemaType DEF Sending
<1>3. defs = FieldDefs(fs) /\ root.variants[v].size = SchemaSize(container, v)
  BY <1>2
<1>4. fs \in Seq(ContainerField) /\ \A i \in DOMAIN fs : FieldCompiles(fs[i])
  BY <1>1, ContainerParts, FieldsCompile DEF Sending
<1> HIDE DEF fs, defs
<1>5. /\ defs \in Seq(FieldDef) /\ Len(defs) = Len(Kept(fs))
      /\ \A i \in 1 .. Len(Kept(fs)) : defs[i] = FieldToTokens(Kept(fs)[i])
  BY <1>3, <1>4, FieldDefsType
<1>6. \A i \in 1 .. Len(defs) : defs[i] \in FieldDef /\ defs[i].ty \in DynTy
  <2> TAKE i \in 1 .. Len(defs)
  <2>1. defs[i] \in FieldDef
    BY <1>5, ElementOfSeq
  <2> QED
    BY <2>1 DEF FieldDef
<1> QED
  BY <1>3, <1>4, <1>5, <1>6 DEF FieldToTokens, fs, defs

\* The record at hand.
LEMMA AtHand ==
  ASSUME Sending, Delivering, More, NEW off \in Nat
  PROVE  LET rec == sent[Index]
         IN  /\ Index \in 1 .. Len(sent) /\ rec \in Records(container) /\ RecordHolds(container, rec)
             /\ rec.variant \in DOMAIN container.variants /\ Here(off) \in Nat
             /\ DOMAIN rec.vals = DOMAIN container.variants[rec.variant]
             /\ off + Start(container, sent, Index + 1) = Here(off) + Len(EncodeRecord(container, rec))
<1>1. Len(delivered) \in Nat /\ Len(sent) \in Nat
  BY DEF Sending, Delivering
<1>2. Index \in 1 .. Len(sent) /\ Index \in 1 .. Len(sent) + 1 /\ Index + 1 \in 1 .. Len(sent) + 1
  BY <1>1 DEF More, Index
<1>3. sent[Index] \in Records(container)
  BY <1>2, ElementOfSeq DEF Sending
<1>4. /\ RecordHolds(container, sent[Index])
      /\ DOMAIN sent[Index].vals = DOMAIN container.variants[sent[Index].variant]
  BY <1>3, RecordsHold DEF Sending
<1>5. /\ Start(container, sent, Index) \in 0 .. Len(Encoded(container, sent))
      /\ Start(container, sent, Index + 1) =
           Start(container, sent, Index) + Len(EncodeRecord(container, sent[Index]))
  BY <1>2, RecordStarts DEF Sending
<1>6. Here(off) \in Nat
  BY <1>5 DEF Here
<1>7. container \in Container /\ Len(EncodeRecord(container, sent[Index])) \in Nat
  BY <1>4, ContainersType, FieldEnds DEF Sending
<1> QED
  BY <1>2, <1>3, <1>4, <1>5, <1>6, <1>7 DEF Here, RecordHolds

\* A decoder that is opened where the next record begins finds its variant.
LEMMA OpensRecord ==
  ASSUME NEW off \in Nat, Sending, Receiving(off), Delivering, More, root = SchemaOf(container),
         reader.pos = Here(off)
  PROVE  LET rec == sent[Index]
             o   == SelectSchema(reader)
             end == Here(off) + TagSize(container)
         IN  IF end <= Len(reader.buf) THEN o = Ok(rec.variant - 1, end) ELSE ~o.ok
<1> DEFINE rec == sent[Index]
           o == SelectSchema(reader)
           size == TagSize(container)
<1>1. /\ container \in Container /\ root \in RootSchema /\ root.k = container.k
      /\ root.k = "Struct" => Len(root.variants) = 1
      /\ root.k = "Enum" => root.tag = DynPrimitiveTy[TagEncoding(container)]
      /\ Len(root.variants) = Len(container.variants)
  BY Derived
<1>2. /\ Index \in 1 .. Len(sent) /\ RecordHolds(container, rec) /\ rec.variant \in DOMAIN container.variants
      /\ Here(off) \in Nat
  BY AtHand
<1>3. /\ DOMAIN container.variants = 1 .. Len(container.variants) /\ Len(container.variants) \in Nat
      /\ size \in Nat /\ container.k \in {"Struct", "Enum"}
  BY <1>1, ContainerParts
<1>4. Placed(reader) /\ reader.pos <= Len(reader.buf) /\ Len(reader.buf) \in Nat /\ reader.buf \in Seq(Byte)
  BY DEF Receiving, Placed, Reader
<1> HIDE DEF rec
<1>5. CASE container.k = "Struct"
  <2>1. o = Ok(0, reader.pos) /\ size = 0
    BY <1>1, <1>5 DEF SelectSchema, TagSize
  <2>2. Len(container.variants) = 1
    BY <1>1, <1>5
  <2>3. rec.variant \in 1 .. 1
    BY <1>2, <1>3, <2>2
  <2>4. rec.variant - 1 = 0 /\ Here(off) + size = reader.pos
    BY <1>2, <2>1, <2>3
  <2> QED
    BY <1>4, <2>1, <2>4 DEF rec
<1>6. CASE container.k = "Enum"
  <2> DEFINE t == TagEncoding(container)
             p == DynPrimitiveTy[t]
             n == rec.variant - 1
             d == ParseIntoUsize(p, reader)
  <2>1. t \in RustPrimitive /\ t \notin {"f32", "f64", "bool"} /\ n \in Usize /\ InRange(p, n)
    <3>1. TagsFit(container) /\ t \in RustPrimitive
      BY <1>1, <1>6, ContainersType, ContainerParts DEF Sending
    <3> QED
      BY <1>2, <3>1 DEF TagsFit
  <2>2. p \in PrimitiveTy /\ p \notin {"F32", "F64", "Bool"} /\ SizeOf(t) = PrimitiveSize(p)
    BY <2>1, DynPrimitiveTyType DEF RustPrimitive, DynPrimitiveTy
  <2>3. size = PrimitiveSize(p) /\ EncodeTag(container, rec.variant) = LittleEndian(n, PrimitiveSize(p))
    BY <1>6, <2>2 DEF TagSize, EncodeTag
  <2>4. Agrees(reader.buf, Here(off), EncodeTag(container, rec.variant))
    BY <1>2, <1>4, RecordPlaces DEF Sending, Receiving, Here, rec
  <2>5. Goes(reader, LittleEndian(n, PrimitiveSize(p)))
    BY <2>3, <2>4 DEF Goes
  <2>6. o = IF d.ok /\ d.val >= Len(root.variants) THEN Err("InvalidTagEncoding", reader, {d.pos}) ELSE d
    BY <1>1, <1>6 DEF SelectSchema, ReadVariant
  <2>7. n < Len(root.variants)
    BY <1>1, <1>2, <1>3
  <2> HIDE DEF p, n, d, size
  <2>8. IF reader.pos + PrimitiveSize(p) <= Len(reader.buf) THEN d = Ok(n, reader.pos + PrimitiveSize(p))
                                                            ELSE ~d.ok
    BY <1>4, <2>1, <2>2, <2>5, TagArrived DEF d
  <2>9. CASE reader.pos + PrimitiveSize(p) <= Len(reader.buf)
    <3>1. d = Ok(n, reader.pos + PrimitiveSize(p)) /\ d.ok /\ d.val = n
      BY <2>8, <2>9, OkParts
    <3>2. ~(n >= Len(root.variants))
      BY <2>1, <2>7, <1>1, <1>3, WincodeAssumption DEF Usize
    <3>3. o = d
      BY <2>6, <3>1, <3>2
    <3> QED
      BY <2>3, <2>9, <3>1, <3>3 DEF n, rec, size
  <2>10. CASE ~(reader.pos + PrimitiveSize(p) <= Len(reader.buf))
    BY <2>3, <2>6, <2>8, <2>10 DEF size
  <2> QED
    BY <2>9, <2>10
<1> QED
  BY <1>3, <1>5, <1>6

\* An iterator that has read every field before this one reads this one.
LEMMA ReadsField ==
  ASSUME NEW off \in Nat, Sending, Receiving(off), Delivering, Decoding, InPlace(off),
         Live, Remaining > 0, Intact(Index), handle.next \in IntactFields(Index)
  PROVE  LET rec == sent[Index]
             i   == handle.next
             end == Here(off) + FieldEnd(container, rec, i)
             r   == HandleReader
             o   == Parse(Defs[i].ty, r)
         IN  /\ r.pos = Here(off) + FieldEnd(container, rec, i - 1)
             /\ IF end <= Len(reader.buf)
                THEN o.ok /\ o.pos = end /\ o.left = {end} /\ Plain(o.val) = ValueOf(container, rec, i)
                ELSE ~o.ok /\ Missing(off)
<1> DEFINE rec == sent[Index]
           i == handle.next
           r == HandleReader
           fs == container.variants[rec.variant]
           f == Kept(fs)[i]
           v == ValueOf(container, rec, i)
           w == KeptCodes(container, rec)[i]
           o == Parse(Defs[i].ty, r)
           end == Here(off) + FieldEnd(container, rec, i)
           m == Len(Kept(fs))
<1>1. /\ More /\ handle \in Handle /\ handle.variant \in DOMAIN root.variants
      /\ handle.next \in 1 .. Len(Defs) + 1 /\ handle.own <= Len(reader.buf)
      /\ Len(items) = handle.next - 1 /\ root = SchemaOf(container)
  BY DEF Decoding
<1>2. /\ Index \in 1 .. Len(sent) /\ rec \in Records(container) /\ RecordHolds(container, rec)
      /\ rec.variant \in DOMAIN container.variants /\ Here(off) \in Nat
      /\ DOMAIN rec.vals = DOMAIN fs
      /\ off + Start(container, sent, Index + 1) = Here(off) + Len(EncodeRecord(container, rec))
  BY <1>1, AtHand
<1>3. container \in Container
  BY <1>1, Derived
<1>4. handle.variant = rec.variant /\ (Len(items) = 0 \/ Len(items) \in IntactFields(Index) =>
                  r.pos = Here(off) + FieldEnd(container, rec, Len(items)))
  BY DEF InPlace
<1>5. /\ Defs \in Seq(FieldDef) /\ Len(Defs) = m /\ Len(Defs) \in Nat /\ fs \in Seq(ContainerField)
      /\ \A j \in 1 .. Len(Defs) : Defs[j].ty = TYPE(Kept(fs)[j].ty)
  <2> DEFINE defs == root.variants[rec.variant].fields
  <2>1. /\ defs \in Seq(FieldDef) /\ Len(defs) = m /\ Len(defs) \in Nat /\ fs \in Seq(ContainerField)
        /\ \A j \in 1 .. Len(defs) :
              defs[j] = [ty |-> TYPE(Kept(fs)[j].ty), size |-> TypeMeta(Kept(fs)[j].ty)]
    BY <1>1, <1>2, DerivedVariant
  <2>2. Defs = defs
    BY <1>4 DEF Defs
  <2> HIDE DEF defs, fs
  <2>3. ASSUME NEW j \in 1 .. Len(defs) PROVE defs[j].ty = TYPE(Kept(fs)[j].ty)
    <3>1. defs[j] = [ty |-> TYPE(Kept(fs)[j].ty), size |-> TypeMeta(Kept(fs)[j].ty)]
      BY <2>1, Zenon
    <3> QED
      BY <3>1
  <2> QED
    BY <2>1, <2>2, <2>3, Zenon
<1>6. i \in 1 .. m /\ Defs[i].ty = TYPE(f.ty)
  BY <1>1, <1>5 DEF Remaining
<1>7. KeepsFormat(f) /\ \A j \in 1 .. i : KeepsFormat(Kept(fs)[j])
  BY <1>6 DEF IntactFields
<1>8. i - 1 = 0 \/ i - 1 \in IntactFields(Index)
  <2>1. CASE i - 1 # 0
    <3>1. i - 1 \in 1 .. m /\ \A j \in 1 .. i - 1 : j \in 1 .. i
      BY <1>6, <2>1
    <3>2. DOMAIN Kept(fs) = 1 .. m
      BY <1>5, KeptType
    <3> QED
      BY <1>7, <3>1, <3>2 DEF IntactFields
  <2> QED
    BY <2>1
<1>9. r.pos = Here(off) + FieldEnd(container, rec, i - 1)
  BY <1>1, <1>4, <1>8
<1>10. /\ f.ty \in RustTy /\ Holds(f.ty, v) /\ w = Write(f.ty, v, 1)
  <2> HIDE DEF rec, i
  <2>1. RecordHolds(container, rec) /\ i \in 1 .. Len(Kept(container.variants[rec.variant]))
          /\ KeepsFormat(Kept(container.variants[rec.variant])[i])
    BY <1>2, <1>6, <1>7
  <2> QED
    BY <1>3, <2>1, KeptCode DEF ValueOf
<1>11. /\ FieldEnd(container, rec, i) = FieldEnd(container, rec, i - 1) + Len(w)
       /\ FieldEnd(container, rec, i) \in TagSize(container) .. Len(EncodeRecord(container, rec))
       /\ FieldEnd(container, rec, i - 1) \in Nat /\ w \in Seq(Byte) /\ FieldEnd(container, rec, i) \in Nat
       /\ TagSize(container) \in Nat /\ Len(EncodeRecord(container, rec)) \in Nat
  <2>1. i - 1 \in 0 .. m /\ i \in 0 .. m
    BY <1>5, <1>6
  <2>2. /\ \A j \in 0 .. m : FieldEnd(container, rec, j) \in TagSize(container) .. Len(EncodeRecord(container, rec))
        /\ \A j \in 1 .. m : FieldEnd(container, rec, j) = FieldEnd(container, rec, j - 1) + Len(KeptCodes(container, rec)[j])
        /\ TagSize(container) \in Nat /\ Len(EncodeRecord(container, rec)) \in Nat
        /\ \A j \in 1 .. m : KeptCodes(container, rec)[j] \in Seq(Byte)
    BY <1>2, <1>3, FieldEnds
  <2>3. /\ FieldEnd(container, rec, i) \in TagSize(container) .. Len(EncodeRecord(container, rec))
        /\ FieldEnd(container, rec, i - 1) \in TagSize(container) .. Len(EncodeRecord(container, rec))
    BY <2>1, <2>2
  <2> QED
    BY <1>6, <2>2, <2>3
<1>12. Placed(reader) /\ reader \in Reader
  BY DEF Receiving, Placed
<1>13. Placed(r) /\ r.buf = reader.buf /\ r.borrows = reader.borrows /\ Len(reader.buf) \in Nat /\ reader.buf \in Seq(Byte)
  BY <1>1, <1>12 DEF Placed, Reader, HandleReader, At, Handle
<1>14. Goes(r, w)
  <2>1. Agrees(reader.buf, Here(off) + FieldEnd(container, rec, i - 1), w)
    BY <1>2, <1>6, <1>13, RecordPlaces DEF Sending, Receiving, Here
  <2> QED
    BY <1>9, <1>13, <2>1 DEF Goes
<1>15. Copiable(r, v)
  <2>1. Shows(fs)[i] \in 1 .. Len(fs)
    BY <1>5, <1>6, KeptType
  <2>2. Shows(fs)[i] \in DOMAIN rec.vals
    BY <1>2, <1>5, <2>1
  <2>3. reader.borrows \/ Fits(rec)
    BY <1>2 DEF Receiving, Sending
  <2> QED
    BY <1>13, <2>2, <2>3 DEF Copiable, MayRead, Fits, ValueOf
<1> HIDE DEF rec, i, r, fs, f, v, w
<1>16. IF Arrived(r, w) THEN ReadsBack(o, r, v, w) ELSE ~o.ok
  BY <1>6, <1>10, <1>13, <1>14, <1>15, ParseArrived
<1>17. Arrived(r, w) = (end <= Len(reader.buf)) /\ r.pos + Len(w) = end
  <2>1. r.pos + Len(w) = end
    <3>1. Len(w) \in Nat
      BY <1>11
    <3> QED
      BY <1>2, <1>9, <1>11, <3>1
  <2> QED
    BY <1>13, <2>1 DEF Arrived
<1>18. CASE end <= Len(reader.buf)
  BY <1>9, <1>16, <1>17, <1>18 DEF ReadsBack, rec, i, r, v
<1>19. CASE ~(end <= Len(reader.buf))
  <2>1. Len(reader.buf) < Here(off) + Len(EncodeRecord(container, rec))
    BY <1>2, <1>11, <1>13, <1>19
  <2>2. Missing(off)
    BY <1>1, <1>2, <2>1 DEF Missing, rec
  <2> QED
    BY <1>9, <1>16, <1>17, <1>19, <2>2 DEF rec, i, r
<1> QED
  BY <1>18, <1>19

-----------------------------------------------------------------------------
(***************************************************************************)
(* The consumer's steps.                                                   *)
(***************************************************************************)
LEMMA StillSent ==
  ASSUME UNCHANGED <<container, sent, delivered>>, NEW off
  PROVE  /\ Sending => Sending'
         /\ Delivering => Delivering'
         /\ More => More'
         /\ container' = container /\ sent' = sent
         /\ Index' = Index /\ Here(off)' = Here(off)
         /\ \A n : (Intact(n)' => Intact(n)) /\ IntactFields(n)' = IntactFields(n)
<1>1. container' = container /\ sent' = sent /\ delivered' = delivered
  OBVIOUS
<1>2. (Sending => Sending') /\ (More => More') /\ Index' = Index
  BY <1>1 DEF Sending, More, Index
<1>3. Here(off)' = Here(off)
  BY <1>1, <1>2 DEF Here
<1>4. \A n : (Intact(n)' => Intact(n)) /\ IntactFields(n)' = IntactFields(n)
  BY <1>1 DEF Intact, IntactFields
<1>5. Delivering => Delivering'
  <2> SUFFICES ASSUME Delivering PROVE Delivering'
    OBVIOUS
  <2>1. \A n : Shown(sent[n])' = Shown(sent[n])
    BY <1>1 DEF Shown
  <2>2. \A n \in DOMAIN delivered' : Intact(n + 1)' => delivered'[n] = Shown(sent[n])'
    BY <1>1, <1>4, <2>1 DEF Delivering
  <2> QED
    BY <1>1, <2>2 DEF Delivering
<1> QED
  BY <1>1, <1>2, <1>3, <1>4, <1>5

LEMMA StillReceiving ==
  ASSUME NEW off, Receiving(off), UNCHANGED <<container, sent>>,
         NEW p \in reader.pos .. Len(reader.buf), reader' = reader \/ reader' = At(reader, p)
  PROVE  /\ Receiving(off)' /\ reader'.buf = reader.buf /\ reader'.borrows = reader.borrows
         /\ reader' = At(reader, p) => reader'.pos = p
<1>1. /\ reader \in Reader /\ reader.pos <= Len(reader.buf) /\ reader.pos \in Nat
      /\ Len(reader.buf) \in Nat
  BY DEF Receiving, Placed, Reader
<1>2. /\ reader' \in Reader /\ reader'.pos <= Len(reader'.buf)
      /\ reader'.buf = reader.buf /\ reader'.borrows = reader.borrows
      /\ reader' = At(reader, p) => reader'.pos = p
  <2>1. CASE reader' = reader
    BY <1>1, <2>1 DEF At, Reader
  <2>2. CASE reader' = At(reader, p)
    BY <1>1, <2>2 DEF At, Reader
  <2> QED
    BY <2>1, <2>2
<1>3. container' = container /\ sent' = sent
  OBVIOUS
<1>4. Placed(reader)'
  BY <1>2 DEF Placed
<1>5. Agrees(reader.buf, off, Encoded(container, sent))'
  BY <1>2, <1>3 DEF Receiving
<1>6. (reader.borrows \/ \A i \in DOMAIN sent : Fits(sent[i]))'
  BY <1>2, <1>3 DEF Receiving
<1> QED
  BY <1>2, <1>4, <1>5, <1>6 DEF Receiving

\* Opening a decoder or an iterator.
LEMMA OpenTyped ==
  ASSUME NEW off \in Nat, Sending, Receiving(off), Delivering, Decoding, More,
         NEW k \in {"Variant", "Fields"}, NEW byRef \in BOOLEAN, Open(k, byRef),
         UNCHANGED <<container, sent, delivered>>
  PROVE  /\ Sending' /\ Receiving(off)' /\ Delivering' /\ Decoding' /\ reader'.buf = reader.buf
         /\ root' = root /\ items' = <<>> /\ (~byRef => reader' = reader)
         /\ LET o == SelectSchema(reader)
            IN  IF o.ok
                THEN /\ handle' = [k |-> k, variant |-> o.val + 1, next |-> 1, byRef |-> byRef,
                                   own |-> o.pos, start |-> reader.pos, first |-> o.pos]
                     /\ HandleReader'.pos = o.pos
                ELSE handle' = NoHandle
<1> DEFINE o == SelectSchema(reader)
           h == [k |-> k, variant |-> o.val + 1, next |-> 1, byRef |-> byRef,
                 own |-> o.pos, start |-> reader.pos, first |-> o.pos]
<1>1. /\ container \in Container /\ root \in RootSchema /\ (root.k = "Struct" => Len(root.variants) = 1)
      /\ root.variants \in Seq(Schema) /\ root = SchemaOf(container)
  BY Derived DEF Decoding
<1>2. /\ Placed(reader) /\ reader.pos \in Nat /\ Len(reader.buf) \in Nat
  BY DEF Receiving, Placed, Reader
<1>3. Outcome(o, reader, 0 .. Len(root.variants) - 1)
  BY <1>1, <1>2, SelectResult
<1>4. PICK p \in o.left : reader' = IF byRef THEN At(reader, p) ELSE reader
  BY DEF Open
<1>5. /\ handle' = IF o.ok THEN h ELSE NoHandle
      /\ items' = <<>> /\ root' = root
  BY DEF Open
<1>6. p \in reader.pos .. Len(reader.buf)
  BY <1>3, <1>4 DEF Outcome
<1>7. /\ Receiving(off)' /\ reader'.buf = reader.buf /\ reader'.borrows = reader.borrows
      /\ byRef => reader'.pos = p
  BY <1>4, <1>6, StillReceiving
<1>8. Sending' /\ Delivering' /\ More' /\ container' = container
  BY StillSent
<1>9. items' \in Seq(Item) /\ DOMAIN items' = {} /\ Len(items') = 0
  BY <1>5
<1>10. ~byRef => reader' = reader
  BY <1>4
<1>11. CASE o.ok
  <2>1. /\ o.val \in 0 .. Len(root.variants) - 1 /\ o.pos \in reader.pos .. Len(reader.buf)
        /\ o.left = {o.pos}
    BY <1>3, <1>11 DEF Outcome
  <2>2. Len(root.variants) \in Nat
    BY <1>1
  <2> HIDE DEF o
  <2>3. handle' = h
    BY <1>5, <1>11
  <2>4. h \in Handle /\ h.variant \in DOMAIN root.variants
    BY <1>1, <1>2, <2>1, <2>2 DEF Handle
  <2>5. Defs' \in Seq(FieldDef)
    <3>1. root.variants[h.variant] \in Schema
      BY <1>1, <2>4, ElementOfSeq
    <3> QED
      BY <1>5, <2>3, <3>1 DEF Defs, Schema
  <2>6. HandleReader'.pos = o.pos
    <3>1. CASE byRef
      <4>1. HandleReader' = reader'
        BY <2>3, <3>1 DEF HandleReader
      <4> QED
        BY <1>4, <1>7, <2>1, <3>1, <4>1
    <3>2. CASE ~byRef
      <4>1. HandleReader' = At(reader', o.pos) /\ reader' = reader
        BY <1>10, <2>3, <3>2 DEF HandleReader
      <4> QED
        BY <1>2, <4>1 DEF At, Placed, Reader
    <3> QED
      BY <3>1, <3>2
  <2>7. handle'.own <= Len(reader'.buf) /\ handle'.next \in 1 .. Len(Defs') + 1 /\ handle'.next = 1
    <3>1. o.pos <= Len(reader.buf) /\ Len(Defs') \in Nat
      BY <1>2, <2>1, <2>5
    <3> QED
      BY <1>7, <2>3, <3>1
  <2>8. Decoding'
    BY <1>1, <1>5, <1>8, <1>9, <2>3, <2>4, <2>7 DEF Decoding
  <2> QED
    BY <1>5, <1>7, <1>8, <1>10, <1>11, <2>3, <2>6, <2>8 DEF o
<1>12. CASE ~o.ok
  <2>1. handle' = NoHandle
    BY <1>5, <1>12
  <2>2. Decoding'
    BY <1>1, <1>5, <1>8, <1>9, <2>1 DEF Decoding, Live, NoHandle
  <2> QED
    BY <1>5, <1>7, <1>8, <1>10, <1>12, <2>1, <2>2
<1> QED
  BY <1>11, <1>12

\* It is right, or fails because something is missing; with a copy even that does no harm.
LEMMA OpenInPlace ==
  ASSUME NEW off \in Nat, Sending, Receiving(off), Delivering, Decoding, InPlace(off), More,
         NEW k \in {"Variant", "Fields"}, NEW byRef \in BOOLEAN, Open(k, byRef),
         UNCHANGED <<container, sent, delivered>>
  PROVE  /\ InPlace(off)' \/ (handle' = NoHandle /\ byRef /\ Missing(off))
         /\ handle' = NoHandle /\ Intact(Index) => Missing(off)
<1> DEFINE rec == sent[Index]
           o == SelectSchema(reader)
           size == TagSize(container)
<1>1. ~Live /\ root = SchemaOf(container)
  BY DEF Open, Decoding
<1>2. /\ reader'.buf = reader.buf /\ items' = <<>> /\ (~byRef => reader' = reader)
      /\ IF o.ok
         THEN /\ handle' = [k |-> k, variant |-> o.val + 1, next |-> 1, byRef |-> byRef,
                            own |-> o.pos, start |-> reader.pos, first |-> o.pos]
              /\ HandleReader'.pos = o.pos
         ELSE handle' = NoHandle
  BY OpenTyped
<1>3. /\ Index' = Index /\ Here(off)' = Here(off) /\ container' = container /\ sent' = sent
      /\ \A n : (Intact(n)' => Intact(n)) /\ IntactFields(n)' = IntactFields(n)
  BY StillSent
<1>4. CASE ~Intact(Index)
  BY <1>3, <1>4 DEF InPlace
<1>5. CASE Intact(Index)
  <2>1. reader.pos = Here(off)
    BY <1>1, <1>5 DEF InPlace
  <2>2. /\ Index \in 1 .. Len(sent) /\ RecordHolds(container, rec) /\ Here(off) \in Nat
        /\ rec.variant \in DOMAIN container.variants
        /\ off + Start(container, sent, Index + 1) = Here(off) + Len(EncodeRecord(container, rec))
    BY AtHand
  <2>3. container \in Container
    BY <1>1, Derived
  <2>4. rec.variant \in Nat
    BY <2>2, <2>3, ContainerParts
  <2>5. /\ FieldEnd(container, rec, 0) = size /\ size \in Nat /\ Len(EncodeRecord(container, rec)) \in Nat
        /\ size <= Len(EncodeRecord(container, rec))
    <3> DEFINE m == Len(Kept(container.variants[rec.variant]))
    <3>1. /\ FieldEnd(container, rec, 0) = size /\ size \in Nat /\ Len(EncodeRecord(container, rec)) \in Nat
          /\ \A i \in 0 .. m : FieldEnd(container, rec, i) \in size .. Len(EncodeRecord(container, rec))
          /\ m \in Nat
      BY <2>2, <2>3, FieldEnds
    <3>2. 0 \in 0 .. m
      BY <3>1
    <3>3. FieldEnd(container, rec, 0) \in size .. Len(EncodeRecord(container, rec))
      BY <3>1, <3>2
    <3> QED
      BY <3>1, <3>3
  <2>6. IF Here(off) + size <= Len(reader.buf) THEN o = Ok(rec.variant - 1, Here(off) + size) ELSE ~o.ok
    BY <1>1, <2>1, OpensRecord
  <2>7. Len(reader.buf) \in Nat
    BY DEF Receiving, Placed, Reader
  <2> HIDE DEF o, rec, size
  <2>8. CASE Here(off) + size <= Len(reader.buf)
    <3>1. o.ok /\ o.val = rec.variant - 1 /\ o.pos = Here(off) + size
      BY <2>6, <2>8, OkParts
    <3>2. /\ Live' /\ handle'.byRef = byRef /\ handle'.variant = rec.variant
          /\ handle'.start = Here(off) /\ handle'.first = Here(off) + size
          /\ HandleReader'.pos = Here(off) + size
      BY <1>2, <2>1, <2>4, <3>1 DEF Live
    <3>3. DOMAIN items' = {} /\ Len(items') = 0
      BY <1>2
    <3>4. InPlace(off)'
      BY <1>2, <1>3, <2>1, <2>5, <3>2, <3>3 DEF InPlace, rec
    <3>5. handle' # NoHandle
      BY <3>2 DEF Live, NoHandle
    <3> QED
      BY <3>4, <3>5
  <2>9. CASE ~(Here(off) + size <= Len(reader.buf))
    <3>1. ~o.ok
      BY <2>6, <2>9
    <3>2. handle' = NoHandle
      BY <1>2, <3>1
    <3>3. Len(reader.buf) < off + Start(container, sent, Index + 1)
      BY <2>2, <2>5, <2>7, <2>9
    <3>4. Missing(off)
      BY <3>3 DEF Missing
    <3>5. CASE ~byRef
      <4>1. ~Live' /\ reader' = reader
        BY <1>2, <3>2, <3>5 DEF Live, NoHandle
      <4>2. InPlace(off)'
        BY <1>3, <2>1, <4>1 DEF InPlace
      <4> QED
        BY <3>4, <4>2
    <3>6. CASE byRef
      BY <3>2, <3>4, <3>6
    <3> QED
      BY <3>5, <3>6
  <2> QED
    BY <2>8, <2>9
<1> QED
  BY <1>4, <1>5

LEMMA VariantFieldsStep ==
  ASSUME NEW off \in Nat, Sending, Receiving(off), Delivering, Decoding,
         VariantFields, UNCHANGED <<container, sent, delivered>>
  PROVE  /\ Sending' /\ Receiving(off)' /\ Delivering' /\ Decoding' /\ Live' /\ reader' = reader
         /\ root' = root /\ (InPlace(off) => InPlace(off)')
<1>1. /\ handle.k = "Variant" /\ handle' = [handle EXCEPT !.k = "Fields"]
      /\ root' = root /\ reader' = reader /\ items' = items
  BY DEF VariantFields
<1>2. Live /\ handle \in Handle
  BY <1>1 DEF Decoding, Live
<1>3. /\ handle' \in Handle /\ handle'.k = "Fields" /\ handle'.byRef = handle.byRef
      /\ handle'.variant = handle.variant /\ handle'.next = handle.next /\ handle'.own = handle.own
      /\ handle'.start = handle.start /\ handle'.first = handle.first
  BY <1>1, <1>2 DEF Handle
<1>4. Defs' = Defs /\ HandleReader' = HandleReader /\ Live'
  BY <1>1, <1>3 DEF Defs, HandleReader, Live
<1>5. /\ Index' = Index /\ Here(off)' = Here(off) /\ container' = container /\ sent' = sent
      /\ \A n : (Intact(n)' => Intact(n)) /\ IntactFields(n)' = IntactFields(n)
  BY StillSent
<1>6. Sending' /\ Delivering' /\ (More => More')
  BY StillSent
<1>7. Receiving(off)'
  BY <1>1, <1>5 DEF Receiving, Placed
<1>8. Decoding'
  BY <1>1, <1>2, <1>3, <1>4, <1>5, <1>6 DEF Decoding
<1>9. InPlace(off) => InPlace(off)'
  BY <1>1, <1>2, <1>3, <1>4, <1>5 DEF InPlace
<1> QED
  BY <1>1, <1>4, <1>6, <1>7, <1>8, <1>9

\* Looking ahead ends where it began.
LEMMA DropStep ==
  ASSUME NEW off \in Nat, Sending, Receiving(off), Delivering, Decoding,
         Drop, UNCHANGED <<container, sent, delivered>>
  PROVE  /\ Sending' /\ Receiving(off)' /\ Delivering' /\ Decoding' /\ ~Live' /\ reader' = reader
         /\ InPlace(off) /\ ~handle.byRef => InPlace(off)'
<1>1. handle' = NoHandle /\ root' = root /\ reader' = reader /\ items' = items
  BY DEF Drop
<1>2. ~Live'
  BY <1>1 DEF Live, NoHandle
<1>3. /\ Index' = Index /\ Here(off)' = Here(off) /\ container' = container /\ sent' = sent
      /\ \A n : (Intact(n)' => Intact(n)) /\ IntactFields(n)' = IntactFields(n)
      /\ Sending' /\ Delivering'
  BY StillSent
<1>4. Receiving(off)'
  BY <1>1, <1>3 DEF Receiving, Placed
<1>5. Decoding'
  BY <1>1, <1>2, <1>3 DEF Decoding
<1>6. InPlace(off) /\ ~handle.byRef => InPlace(off)'
  BY <1>1, <1>2, <1>3 DEF InPlace
<1> QED
  BY <1>1, <1>2, <1>3, <1>4, <1>5, <1>6

\* The items of an iterator and where it is after a call of next.
LEMMA FieldsNextTyped ==
  ASSUME NEW off \in Nat, Sending, Receiving(off), Delivering, Decoding,
         FieldsNext, UNCHANGED <<container, sent, delivered>>
  PROVE  /\ Sending' /\ Receiving(off)' /\ Delivering' /\ Decoding' /\ Live'
         /\ reader'.buf = reader.buf /\ root' = root
         /\ handle'.byRef = handle.byRef /\ handle'.start = handle.start
         /\ handle'.first = handle.first /\ handle'.variant = handle.variant
         /\ ~handle.byRef => reader' = reader
         /\ Len(items) = handle.next - 1 /\ Len(items') = handle.next /\ handle.next \in Nat
         /\ DOMAIN items = 1 .. handle.next - 1 /\ DOMAIN items' = 1 .. handle.next
         /\ \A i \in 1 .. handle.next - 1 : items'[i] = items[i]
         /\ LET it == items'[handle.next]
                o  == Parse(Defs[handle.next].ty, HandleReader)
            IN  /\ it.ok = o.ok /\ it.val = o.val /\ it.from = HandleReader.pos /\ it.to \in o.left
                /\ HandleReader'.pos = it.to
<1> DEFINE r   == HandleReader
           n   == handle.next
           def == Defs[n]
           o   == Parse(def.ty, r)
           h   == [handle EXCEPT !.next = @ + 1]
           it(p) == [def |-> def, ok |-> o.ok, val |-> o.val, from |-> r.pos, to |-> p]
<1>1. handle.k = "Fields" /\ Live /\ Remaining > 0 /\ root' = root
  BY DEF FieldsNext, Live
<1>2. /\ More /\ handle \in Handle /\ handle.variant \in DOMAIN root.variants
      /\ n \in 1 .. Len(Defs) + 1 /\ handle.own <= Len(reader.buf)
      /\ Len(items) = n - 1 /\ root = SchemaOf(container) /\ items \in Seq(Item)
      /\ \A i \in DOMAIN items : items[i].def = Defs[i]
  BY <1>1 DEF Decoding
<1>3. PICK p \in o.left : MoveHandle(h, reader, p) /\ items' = Append(items, it(p))
  BY DEF FieldsNext
<1>4. /\ Placed(reader) /\ reader \in Reader /\ reader.pos \in Nat /\ Len(reader.buf) \in Nat
  BY DEF Receiving, Placed, Reader
<1>5. Placed(r) /\ r.buf = reader.buf /\ r.pos \in Nat
        /\ r.pos = IF handle.byRef THEN reader.pos ELSE handle.own
  BY <1>2, <1>4 DEF Placed, Reader, HandleReader, At, Handle
<1>6. Defs \in Seq(FieldDef) /\ Len(Defs) \in Nat /\ \A i \in 1 .. Len(Defs) : Defs[i] \in FieldDef /\ Defs[i].ty \in DynTy
  <2>1. handle.variant \in DOMAIN container.variants
    BY <1>2, Derived
  <2> QED
    BY <1>2, <2>1, DerivedVariant DEF Defs
<1>7. n \in 1 .. Len(Defs) /\ def \in FieldDef /\ def.ty \in DynTy
  <2>1. n \in 1 .. Len(Defs)
    BY <1>1, <1>2, <1>6 DEF Remaining
  <2> QED
    BY <1>6, <2>1
<1>8. Outcome(o, r, Readable)
  BY <1>5, <1>7, ParseResult
<1>9. p \in r.pos .. Len(reader.buf) /\ p \in Nat
  <2>1. p \in r.pos .. Len(reader.buf)
    BY <1>3, <1>5, <1>8 DEF Outcome
  <2> QED
    BY <1>5, <2>1
<1>10. /\ it(p).def = def /\ it(p).from = r.pos /\ it(p).to = p /\ it(p).ok = o.ok
       /\ it(p).val = o.val
  OBVIOUS
<1> HIDE DEF r, def, o
<1>11. it(p) \in Item
  BY <1>5, <1>7, <1>8, <1>9 DEF Item, Outcome, Readable
<1> HIDE DEF it, n
<1>12. /\ items' \in Seq(Item) /\ Len(items') = Len(items) + 1
       /\ \A i \in 1 .. Len(items) : items'[i] = items[i]
       /\ items'[Len(items) + 1] = it(p)
  BY <1>2, <1>3, <1>11, AppendProperties
<1>13. /\ DOMAIN items = 1 .. n - 1 /\ DOMAIN items' = 1 .. n /\ Len(items') = n /\ n \in Nat
       /\ (\A i \in 1 .. n - 1 : items'[i] = items[i]) /\ items'[n] = it(p)
  <2>1. n \in Nat /\ (n - 1) + 1 = n
    BY <1>2, <1>6
  <2>2. Len(items') = n /\ items'[n] = it(p) /\ \A i \in 1 .. n - 1 : items'[i] = items[i]
    BY <1>2, <1>12, <2>1
  <2>3. DOMAIN items = 1 .. Len(items) /\ DOMAIN items' = 1 .. Len(items')
    BY <1>2, <1>12
  <2> QED
    BY <1>2, <2>1, <2>2, <2>3
<1>14. /\ h \in Handle /\ h.k = "Fields" /\ h.next = n + 1
       /\ h.variant = handle.variant /\ h.byRef = handle.byRef
       /\ h.own = handle.own /\ h.first = handle.first /\ h.start = handle.start
  BY <1>1, <1>2 DEF Handle, n
<1> HIDE DEF h
<1>15. /\ handle' \in Handle /\ handle'.k = "Fields" /\ handle'.next = n + 1
       /\ handle'.variant = handle.variant /\ handle'.byRef = handle.byRef
       /\ handle'.first = handle.first /\ handle'.start = handle.start
       /\ handle.byRef => handle'.own = handle.own /\ reader' = At(reader, p)
       /\ ~handle.byRef => handle'.own = p /\ reader' = reader
  <2>1. CASE handle.byRef
    BY <1>3, <1>14, <2>1 DEF MoveHandle
  <2>2. CASE ~handle.byRef
    BY <1>3, <1>9, <1>14, <2>2 DEF MoveHandle, Handle
  <2> QED
    BY <2>1, <2>2
<1>16. Live'
  BY <1>15 DEF Live
<1>17. /\ Receiving(off)' /\ reader'.buf = reader.buf
       /\ handle.byRef => reader'.pos = p
  <2>1. CASE handle.byRef
    <3>1. p \in reader.pos .. Len(reader.buf)
      BY <1>5, <1>9, <2>1
    <3> QED
      BY <1>15, <2>1, <3>1, StillReceiving
  <2>2. CASE ~handle.byRef
    <3>1. reader.pos \in reader.pos .. Len(reader.buf)
      BY <1>4 DEF Placed
    <3> QED
      BY <1>15, <2>2, <3>1, StillReceiving
  <2> QED
    BY <2>1, <2>2
<1>18. HandleReader'.pos = p
  <2>1. CASE handle.byRef
    BY <1>15, <1>17, <2>1 DEF HandleReader
  <2>2. CASE ~handle.byRef
    <3>1. HandleReader' = At(reader, p)
      BY <1>15, <2>2 DEF HandleReader
    <3> QED
      BY <1>4, <3>1 DEF At, Reader
  <2> QED
    BY <2>1, <2>2
<1>19. Sending' /\ Delivering' /\ More' /\ container' = container
  BY <1>2, StillSent
<1>20. Defs' = Defs
  BY <1>1, <1>15 DEF Defs
<1>21. Decoding'
  <2>1. handle'.own <= Len(reader'.buf)
    BY <1>2, <1>4, <1>5, <1>9, <1>15, <1>17
  <2>2. handle'.next \in 1 .. Len(Defs') + 1 /\ Len(items') = handle'.next - 1
    BY <1>6, <1>7, <1>13, <1>15, <1>20
  <2>3. \A i \in DOMAIN items' : items'[i].def = Defs'[i]
    <3> TAKE i \in DOMAIN items'
    <3>1. CASE i = n
      <4>1. Defs'[n] = def
        BY <1>20 DEF def
      <4> QED
        BY <1>10, <1>13, <3>1, <4>1
    <3>2. CASE i # n
      <4>1. i \in 1 .. n - 1
        BY <1>13, <3>2
      <4> QED
        BY <1>2, <1>13, <1>20, <4>1
    <3> QED
      BY <3>1, <3>2
  <2> QED
    BY <1>1, <1>2, <1>12, <1>15, <1>19, <2>1, <2>2, <2>3 DEF Decoding
<1> QED
  BY <1>1, <1>2, <1>3, <1>10, <1>13, <1>15, <1>16, <1>17, <1>18, <1>19, <1>21 DEF r, def, o, n

\* The iterator gets the field right, or there is an adapter in the way, or the field fails
\* because something is missing.
LEMMA FieldsNextInPlace ==
  ASSUME NEW off \in Nat, Sending, Receiving(off), Delivering, Decoding, InPlace(off),
         FieldsNext, UNCHANGED <<container, sent, delivered>>
  PROVE  LET ok == items'[Len(items')].ok
         IN  /\ InPlace(off)' \/ (~ok /\ Missing(off))
             /\ ~ok /\ Intact(Index) /\ handle.next \in IntactFields(Index) => Missing(off)
<1> DEFINE rec == sent[Index]
           n == handle.next
           end == Here(off) + FieldEnd(container, rec, n)
           it == items'[n]
           o == Parse(Defs[n].ty, HandleReader)
<1>1. Live /\ Remaining > 0
  BY DEF FieldsNext, Live
<1>2. /\ Live' /\ reader'.buf = reader.buf
      /\ handle'.byRef = handle.byRef /\ handle'.start = handle.start
      /\ handle'.first = handle.first /\ handle'.variant = handle.variant
      /\ ~handle.byRef => reader' = reader
      /\ Len(items) = n - 1 /\ Len(items') = n /\ n \in Nat
      /\ DOMAIN items = 1 .. n - 1 /\ DOMAIN items' = 1 .. n
      /\ \A i \in 1 .. n - 1 : items'[i] = items[i]
  BY FieldsNextTyped
<1>3. /\ it.ok = o.ok /\ it.val = o.val /\ it.from = HandleReader.pos /\ it.to \in o.left
      /\ HandleReader'.pos = it.to
  BY FieldsNextTyped
<1>4. /\ Index' = Index /\ Here(off)' = Here(off) /\ container' = container /\ sent' = sent
      /\ \A j : (Intact(j)' => Intact(j)) /\ IntactFields(j)' = IntactFields(j)
  BY StillSent
<1>5. n # 0
  BY <1>1 DEF Decoding
<1>6. CASE ~Intact(Index)
  BY <1>4, <1>6 DEF InPlace
<1>7. ASSUME Intact(Index) PROVE
        /\ ~(Live /\ handle.byRef) => reader.pos = Here(off)
        /\ handle.start = Here(off) /\ handle.variant = rec.variant
        /\ handle.first = Here(off) + FieldEnd(container, rec, 0)
        /\ \A i \in DOMAIN items \cap IntactFields(Index) : Right(items[i], container, rec, Here(off), i)
  BY <1>1, <1>7 DEF InPlace
<1> HIDE DEF rec
<1>8. ASSUME Intact(Index),
             n \in IntactFields(Index) => /\ Right(it, container, rec, Here(off), n)
                                          /\ HandleReader'.pos = end
      PROVE  InPlace(off)'
  <2>1. \A i \in DOMAIN items' \cap IntactFields(Index)' : Right(items'[i], container, rec, Here(off), i)
    <3> TAKE i \in DOMAIN items' \cap IntactFields(Index)'
    <3>1. i \in IntactFields(Index) /\ i \in 1 .. n
      BY <1>2, <1>4
    <3>2. CASE i = n
      BY <1>8, <3>1, <3>2
    <3>3. CASE i # n
      <4>1. i \in 1 .. n - 1
        BY <1>2, <3>1, <3>3
      <4> QED
        BY <1>2, <1>7, <1>8, <3>1, <4>1
    <3> QED
      BY <3>2, <3>3
  <2>2. ~(Live' /\ handle'.byRef) => reader'.pos = Here(off)
    BY <1>1, <1>2, <1>7, <1>8
  <2>3. Len(items') = 0 \/ Len(items') \in IntactFields(Index)' => HandleReader'.pos = Here(off) + FieldEnd(container, rec, Len(items'))
    BY <1>2, <1>4, <1>5, <1>8
  <2>4. handle'.start = Here(off) /\ handle'.variant = rec.variant /\ handle'.first = Here(off) + FieldEnd(container, rec, 0)
    BY <1>2, <1>7, <1>8
  <2>5. sent'[Index'] = rec /\ IntactFields(Index)' = IntactFields(Index)
    BY <1>4 DEF rec
  <2> QED
    BY <1>4, <2>1, <2>2, <2>3, <2>4, <2>5 DEF InPlace
<1>9. CASE Intact(Index) /\ n \notin IntactFields(Index)
  BY <1>8, <1>9
<1>10. CASE Intact(Index) /\ n \in IntactFields(Index)
  <2>1. /\ HandleReader.pos = Here(off) + FieldEnd(container, rec, n - 1)
        /\ IF end <= Len(reader.buf)
           THEN o.ok /\ o.pos = end /\ o.left = {end} /\ Plain(o.val) = ValueOf(container, rec, n)
           ELSE ~o.ok /\ Missing(off)
    BY <1>1, <1>10, ReadsField DEF rec
  <2>2. CASE end <= Len(reader.buf)
    <3>1. Right(it, container, rec, Here(off), n) /\ HandleReader'.pos = end
      BY <1>3, <2>1, <2>2 DEF Right
    <3> QED
      BY <1>2, <1>8, <1>10, <3>1 DEF Right
  <2>3. CASE ~(end <= Len(reader.buf))
    BY <1>2, <1>3, <2>1, <2>3
  <2> QED
    BY <2>2, <2>3
<1> QED
  BY <1>6, <1>9, <1>10

LEMMA PlainValue ==
  ASSUME NEW v \in Value
  PROVE  Plain(v) \in Value
<1>1. CASE v \in [k : {"Primitive"}, ty : PrimitiveTy, n : Int]
  BY <1>1 DEF Plain
<1>2. CASE v \in [k : {"String", "Bytes"}, raw : Seq(Byte), owned : BOOLEAN]
  <2>1. Plain(v) \in [k : {"String", "Bytes"}, raw : Seq(Byte), owned : BOOLEAN]
    BY <1>2 DEF Plain
  <2> QED
    BY <2>1 DEF Value
<1>3. CASE v \in [k : {"Vec"}, ty : PrimitiveTy, len : Usize, raw : Seq(Byte), owned : BOOLEAN]
  <2>1. Plain(v) \in [k : {"Vec"}, ty : PrimitiveTy, len : Usize, raw : Seq(Byte), owned : BOOLEAN]
    BY <1>3 DEF Plain
  <2> QED
    BY <2>1 DEF Value
<1> QED
  BY <1>1, <1>2, <1>3 DEF Value

\* A record whose fields all keep the format shows all of its fields.
LEMMA IntactRecord ==
  ASSUME Sending, Delivering, More, Intact(Index + 1)
  PROVE  /\ Intact(Index) /\ VariantKept(container, sent[Index].variant)
         /\ IntactFields(Index) = 1 .. Len(Kept(container.variants[sent[Index].variant]))
<1> DEFINE rec == sent[Index]
           fs == container.variants[rec.variant]
           m == Len(Kept(fs))
<1>1. /\ Index \in 1 .. Len(sent) /\ RecordHolds(container, rec)
      /\ rec.variant \in DOMAIN container.variants
  BY AtHand, 0 \in Nat
<1>2. container \in Container /\ Index \in Nat
  BY <1>1, ContainersType DEF Sending
<1>3. fs \in Seq(ContainerField) /\ DOMAIN Kept(fs) = 1 .. m /\ DOMAIN fs = 1 .. Len(fs)
  <2>1. fs \in Seq(ContainerField)
    BY <1>1, <1>2, ContainerParts
  <2> HIDE DEF fs
  <2>2. Kept(fs) \in Seq(ContainerField)
    BY <2>1, KeptType
  <2> QED
    BY <2>1, <2>2
<1>4. \A j \in 1 .. Index : \A f \in Range(container.variants[sent[j].variant]) : KeepsFormat(f)
  <2>1. (Index + 1) - 1 = Index
    BY <1>2
  <2> QED
    BY <2>1 DEF Intact
<1>5. Intact(Index)
  <2>1. \A j \in 1 .. Index - 1 : j \in 1 .. Index
    BY <1>2
  <2> QED
    BY <1>4, <2>1 DEF Intact
<1>6. VariantKept(container, rec.variant)
  <2>1. Index \in 1 .. Index
    BY <1>1
  <2>2. \A f \in Range(fs) : KeepsFormat(f)
    BY <1>4, <2>1
  <2> QED
    BY <2>2 DEF VariantKept, Range
<1>7. \A i \in 1 .. m : KeepsFormat(Kept(fs)[i])
  BY <1>1, <1>2, <1>6, KeptFieldsKeep
<1>8. IntactFields(Index) = 1 .. m
  <2>1. IntactFields(Index) = {i \in DOMAIN Kept(fs) : \A j \in 1 .. i : KeepsFormat(Kept(fs)[j])}
    BY DEF IntactFields
  <2>2. \A i \in 1 .. m : \A j \in 1 .. i : j \in 1 .. m
    BY <1>3
  <2> HIDE DEF fs, m
  <2> QED
    BY <1>3, <1>7, <2>1, <2>2
<1> QED
  BY <1>5, <1>6, <1>8

\* What an iterator that has read all of its fields has read.
LEMMA WholeRecord ==
  ASSUME NEW off \in Nat, Sending, Receiving(off), Delivering, Decoding, InPlace(off),
         Live, Remaining = 0, Intact(Index + 1)
  PROVE  LET rec == sent[Index]
             m   == Len(Kept(container.variants[rec.variant]))
         IN  /\ handle.variant = rec.variant /\ DOMAIN items = 1 .. m /\ m \in Nat
             /\ handle.start = Here(off) /\ handle.first = Here(off) + TagSize(container)
             /\ \A i \in 1 .. m : Right(items[i], container, rec, Here(off), i)
             /\ HandleReader.pos = Here(off) + Len(EncodeRecord(container, rec))
<1> DEFINE rec == sent[Index]
           fs == container.variants[rec.variant]
           m == Len(Kept(fs))
<1>1. /\ More /\ handle.next \in 1 .. Len(Defs) + 1 /\ Len(items) = handle.next - 1
      /\ root = SchemaOf(container) /\ items \in Seq(Item)
  BY DEF Decoding
<1>2. Intact(Index) /\ IntactFields(Index) = 1 .. m
  BY <1>1, IntactRecord
<1>3. RecordHolds(container, rec) /\ rec.variant \in DOMAIN container.variants
  BY <1>1, AtHand
<1>4. container \in Container
  BY <1>1, Derived
<1>5. /\ handle.start = Here(off) /\ handle.variant = rec.variant
      /\ handle.first = Here(off) + FieldEnd(container, rec, 0)
      /\ \A i \in DOMAIN items \cap IntactFields(Index) : Right(items[i], container, rec, Here(off), i)
      /\ Len(items) = 0 \/ Len(items) \in IntactFields(Index) =>
           HandleReader.pos = Here(off) + FieldEnd(container, rec, Len(items))
  BY <1>2 DEF InPlace
<1>6. Len(Defs) = m /\ m \in Nat
  <2>1. LET defs == root.variants[rec.variant].fields IN Len(defs) = m /\ Len(defs) \in Nat
    BY <1>1, <1>3, DerivedVariant
  <2> QED
    BY <1>5, <2>1 DEF Defs
<1>7. Len(items) = m /\ DOMAIN items = 1 .. m
  BY <1>1, <1>6 DEF Remaining
<1>8. FieldEnd(container, rec, 0) = TagSize(container) /\ FieldEnd(container, rec, m) = Len(EncodeRecord(container, rec))
  BY <1>3, <1>4, FieldEnds
<1>9. m = 0 \/ m \in 1 .. m
  BY <1>6
<1> HIDE DEF m, rec, fs
<1>10. \A i \in 1 .. m : Right(items[i], container, rec, Here(off), i)
  BY <1>2, <1>5, <1>7
<1>11. HandleReader.pos = Here(off) + FieldEnd(container, rec, m)
  BY <1>2, <1>5, <1>7, <1>9
<1> QED
  BY <1>5, <1>6, <1>7, <1>8, <1>10, <1>11 DEF rec, m, fs

\* The items of a finished iterator are the record.
LEMMA DeliverStep ==
  ASSUME NEW off \in Nat, Sending, Receiving(off), Delivering, Decoding, InPlace(off), Deliver
  PROVE  /\ Sending' /\ Receiving(off)' /\ Delivering' /\ Decoding' /\ InPlace(off)'
         /\ ~Live' /\ reader' = reader /\ root' = root
<1> DEFINE rec == sent[Index]
           fs == container.variants[rec.variant]
           m == Len(Kept(fs))
           y == Yielded
<1>1. /\ handle.k = "Fields" /\ handle.byRef /\ Remaining = 0 /\ Live
      /\ \A i \in DOMAIN items : items[i].ok
      /\ delivered' = Append(delivered, y) /\ container' = container /\ sent' = sent
      /\ handle' = NoHandle /\ root' = root /\ reader' = reader /\ items' = items
  BY DEF Deliver, Drop, Live
<1>2. /\ More /\ handle \in Handle /\ root = SchemaOf(container) /\ items \in Seq(Item)
  BY <1>1 DEF Decoding
<1>3. ~Live' /\ Sending'
  BY <1>1 DEF Live, NoHandle, Sending
<1>4. Receiving(off)'
  BY <1>1 DEF Receiving, Placed
<1>5. Decoding'
  BY <1>1, <1>2, <1>3 DEF Decoding
<1>6. y \in Shaped
  <2>1. \A i \in DOMAIN items : Plain(items[i].val) \in Value
    <3> TAKE i \in DOMAIN items
    <3>1. items[i] \in Item
      BY <1>2, ElementOfSeq
    <3>2. items[i].val \in Value
      BY <1>1, <3>1 DEF Item
    <3> QED
      BY <3>2, PlainValue
  <2>2. DOMAIN items = 1 .. Len(items) /\ Len(items) \in Nat
    BY <1>2
  <2>3. [i \in DOMAIN items |-> Plain(items[i].val)] \in Seq(Value)
    BY <2>1, <2>2
  <2>4. handle.variant \in Nat
    BY <1>2 DEF Handle
  <2> QED
    BY <2>3, <2>4 DEF Shaped, Yielded
<1> HIDE DEF y
<1>7. /\ delivered' \in Seq(Shaped) /\ Len(delivered') = Len(delivered) + 1
      /\ \A n \in 1 .. Len(delivered) : delivered'[n] = delivered[n]
      /\ delivered'[Len(delivered) + 1] = y /\ Len(delivered) \in Nat /\ Len(sent) \in Nat
  BY <1>1, <1>6, AppendProperties DEF Delivering, Sending
<1>8. /\ Index \in 1 .. Len(sent) /\ RecordHolds(container, rec) /\ Here(off) \in Nat
      /\ rec.variant \in DOMAIN container.variants
      /\ off + Start(container, sent, Index + 1) = Here(off) + Len(EncodeRecord(container, rec))
  BY <1>2, AtHand
<1>9. Index' = Index + 1 /\ Index = Len(delivered) + 1
  BY <1>7 DEF Index
<1>10. \A n : Intact(n)' = Intact(n)
  BY <1>1 DEF Intact
<1>11. ASSUME Intact(Index + 1)
       PROVE  /\ handle.variant = rec.variant /\ DOMAIN items = 1 .. m /\ m \in Nat
              /\ \A i \in 1 .. m : Right(items[i], container, rec, Here(off), i)
              /\ HandleReader.pos = Here(off) + Len(EncodeRecord(container, rec))
  BY <1>1, <1>11, WholeRecord
<1>12. ASSUME Intact(Index + 1) PROVE y = Shown(rec)
  <2> DEFINE shows == Shows(fs)
             a == [i \in DOMAIN items |-> Plain(items[i].val)]
             b == [i \in DOMAIN shows |-> rec.vals[shows[i]]]
  <2>1. DOMAIN shows = 1 .. m
    <3>1. fs \in Seq(ContainerField)
      BY <1>2, <1>8, DerivedVariant
    <3> HIDE DEF fs
    <3>2. shows \in Seq(1 .. Len(fs)) /\ m = Len(shows)
      BY <3>1, KeptType
    <3> QED
      BY <3>2
  <2>2. y = [variant |-> handle.variant, vals |-> a] /\ Shown(rec) = [variant |-> rec.variant, vals |-> b]
    BY DEF Shown, Yielded, y
  <2>3. \A i \in 1 .. m : Plain(items[i].val) = rec.vals[shows[i]]
    BY <1>11, <1>12 DEF Right, ValueOf
  <2>4. DOMAIN items = DOMAIN shows
    BY <1>11, <1>12, <2>1
  <2> HIDE DEF shows, m
  <2>5. a = b
    BY <2>1, <2>3, <2>4
  <2> HIDE DEF a, b
  <2> QED
    BY <1>11, <1>12, <2>2, <2>5
<1>13. Delivering'
  <2>1. Len(delivered') <= Len(sent')
    BY <1>1, <1>2, <1>7 DEF More
  <2>2. ASSUME NEW n \in DOMAIN delivered', Intact(n + 1) PROVE delivered'[n] = Shown(sent[n])
    <3>1. n \in 1 .. Len(delivered) + 1
      BY <1>7
    <3>2. CASE n = Len(delivered) + 1
      BY <1>7, <1>9, <1>12, <2>2, <3>2
    <3>3. CASE n # Len(delivered) + 1
      <4>1. n \in 1 .. Len(delivered) /\ n \in DOMAIN delivered
        BY <1>7, <3>1, <3>3 DEF Delivering
      <4> QED
        BY <1>7, <2>2, <4>1 DEF Delivering
    <3> QED
      BY <3>2, <3>3
  <2>3. \A n : Shown(sent[n])' = Shown(sent[n])
    BY <1>1 DEF Shown
  <2>4. \A n \in DOMAIN delivered' : Intact(n + 1)' => delivered'[n] = Shown(sent[n])'
    BY <1>10, <2>2, <2>3
  <2> QED
    BY <1>7, <2>1, <2>4 DEF Delivering
<1>14. InPlace(off)'
  <2>1. ASSUME Intact(Index + 1) PROVE reader'.pos = Here(off)'
    <3>1. Here(off)' = off + Start(container, sent, Index + 1)
      BY <1>1, <1>9 DEF Here
    <3>2. HandleReader = reader
      BY <1>1 DEF HandleReader
    <3> QED
      BY <1>1, <1>8, <1>11, <2>1, <3>1, <3>2
  <2>2. Intact(Index)' => Intact(Index + 1)
    BY <1>9, <1>10, <1>1 DEF Intact
  <2> QED
    BY <1>3, <2>1, <2>2 DEF InPlace
<1> QED
  BY <1>1, <1>3, <1>4, <1>5, <1>13, <1>14

-----------------------------------------------------------------------------
(***************************************************************************)
(* Streams: all of what was sent is there, so nothing is ever missing.     *)
(***************************************************************************)
StreamInv ==
  /\ Sending /\ Receiving(0) /\ Delivering /\ Decoding /\ InPlace(0)
  /\ reader.buf = Encoded(container, sent) /\ peeked \in BOOLEAN

LEMMA NothingMissing ==
  ASSUME Sending, Delivering, reader.buf = Encoded(container, sent)
  PROVE  ~Missing(0)
<1> SUFFICES ASSUME More, Len(reader.buf) < 0 + Start(container, sent, Index + 1) PROVE FALSE
  BY DEF Missing
<1>1. Index \in 1 .. Len(sent) /\ Len(sent) \in Nat
  BY AtHand, 0 \in Nat DEF Sending
<1>2. Index + 1 \in 1 .. Len(sent) + 1
  BY <1>1
<1>3. Start(container, sent, Index + 1) \in 0 .. Len(Encoded(container, sent))
  BY <1>2, RecordStarts DEF Sending
<1>4. Encoded(container, sent) \in Seq(Byte)
  BY RecordCodesType DEF Sending
<1> QED
  BY <1>3, <1>4

\* What both programs start with.
LEMMA SentType ==
  ASSUME NEW c \in Containers, Compiles(c), NEW s \in BoundedSeq(Records(c), MaxRecords)
  PROVE  s \in Seq(Records(c))
<1>1. PICK m \in 0 .. MaxRecords : s \in [1 .. m -> Records(c)]
  BY DEF BoundedSeq, SeqOf
<1>2. m \in Nat
  BY StreamAssumption
<1> QED
  BY <1>1, <1>2

LEMMA NothingDelivered ==
  ASSUME Sending, delivered = <<>>
  PROVE  Delivering /\ Index = 1 /\ (\A off \in Nat : Here(off) = off)
<1>1. delivered \in Seq(Shaped) /\ Len(delivered) = 0 /\ DOMAIN delivered = {} /\ Len(sent) \in Nat
  BY DEF Sending
<1>2. Index = 1
  BY <1>1 DEF Index
<1>3. Start(container, sent, 1) = 0
  BY RecordStarts DEF Sending
<1>4. \A off \in Nat : Here(off) = off
  BY <1>2, <1>3 DEF Here
<1> QED
  BY <1>1, <1>2, <1>4 DEF Delivering

LEMMA StreamInitInv == StreamInit => StreamInv
<1> SUFFICES ASSUME StreamInit PROVE StreamInv
  OBVIOUS
<1>1. /\ container \in Containers /\ Compiles(container)
      /\ sent \in BoundedSeq(Records(container), MaxRecords)
      /\ root = SchemaOf(container) /\ handle = NoHandle /\ items = <<>>
      /\ delivered = <<>> /\ peeked = FALSE
      /\ reader \in [buf : {Encoded(container, sent)}, pos : {0}, borrows : BOOLEAN]
      /\ reader.borrows \/ \A i \in DOMAIN sent : Fits(sent[i])
  BY DEF StreamInit
<1>2. Sending
  BY <1>1, SentType DEF Sending
<1>3. Encoded(container, sent) \in Seq(Byte)
  BY <1>2, RecordCodesType DEF Sending
<1>4. reader \in Reader /\ reader.pos = 0 /\ reader.buf = Encoded(container, sent) /\ Len(reader.buf) \in Nat
  BY <1>1, <1>3 DEF Reader
<1>5. Agrees(reader.buf, 0, Encoded(container, sent))
  BY <1>4 DEF Agrees
<1>6. Receiving(0)
  BY <1>1, <1>4, <1>5 DEF Receiving, Placed
<1>7. ~Live
  BY <1>1 DEF Live, NoHandle
<1>8. Delivering /\ Here(0) = 0
  BY <1>1, <1>2, NothingDelivered
<1>9. items \in Seq(Item)
  BY <1>1
<1>10. Decoding /\ InPlace(0)
  BY <1>1, <1>4, <1>7, <1>8, <1>9 DEF Decoding, InPlace
<1> QED
  BY <1>1, <1>2, <1>4, <1>6, <1>8, <1>10 DEF StreamInv

\* A step that opens a decoder, with the reader itself or with a copy.
LEMMA StreamOpens ==
  ASSUME StreamInv, More, NEW byRef \in BOOLEAN, DecodeVariant(byRef) \/ DecoderFields(byRef),
         UNCHANGED <<container, sent, delivered>>, peeked' \in BOOLEAN
  PROVE  StreamInv'
<1>1. /\ Sending /\ Receiving(0) /\ Delivering /\ Decoding /\ InPlace(0) /\ 0 \in Nat
      /\ reader.buf = Encoded(container, sent)
  BY DEF StreamInv
<1>2. PICK k \in {"Variant", "Fields"} : Open(k, byRef)
  BY DEF DecodeVariant, DecoderFields
<1>3. Sending' /\ Receiving(0)' /\ Delivering' /\ Decoding' /\ reader'.buf = reader.buf
  BY <1>1, <1>2, OpenTyped
<1>4. InPlace(0)'
  BY <1>1, <1>2, OpenInPlace, NothingMissing
<1> QED
  BY <1>1, <1>3, <1>4 DEF StreamInv

LEMMA StreamStep == StreamInv /\ [StreamNext]_streamVars => StreamInv'
<1> SUFFICES ASSUME StreamInv, [StreamNext]_streamVars PROVE StreamInv'
  OBVIOUS
<1>1. /\ Sending /\ Receiving(0) /\ Delivering /\ Decoding /\ InPlace(0) /\ 0 \in Nat
      /\ reader.buf = Encoded(container, sent) /\ peeked \in BOOLEAN
  BY DEF StreamInv
<1>2. CASE Consume
  BY <1>1, <1>2, StreamOpens DEF Consume, Consumer
<1>3. CASE Peek
  <2>1. peeked' \in BOOLEAN
    BY <1>3 DEF Peek
  <2> QED
    BY <1>3, <2>1, StreamOpens DEF Peek
<1>4. CASE DropPeek
  <2>1. Drop /\ ~handle.byRef /\ container' = container /\ sent' = sent /\ delivered' = delivered /\ peeked' = peeked
    BY <1>4 DEF DropPeek, Consumer
  <2>2. Sending' /\ Receiving(0)' /\ Delivering' /\ Decoding' /\ reader' = reader /\ InPlace(0)'
    BY <1>1, <2>1, DropStep
  <2> QED
    BY <1>1, <2>1, <2>2 DEF StreamInv
<1>5. CASE ReadFields
  <2>1. VariantFields /\ container' = container /\ sent' = sent /\ delivered' = delivered /\ peeked' = peeked
    BY <1>5 DEF ReadFields, Consumer
  <2>2. Sending' /\ Receiving(0)' /\ Delivering' /\ Decoding' /\ reader' = reader /\ InPlace(0)'
    BY <1>1, <2>1, VariantFieldsStep
  <2> QED
    BY <1>1, <2>1, <2>2 DEF StreamInv
<1>6. CASE ReadNext
  <2>1. FieldsNext /\ container' = container /\ sent' = sent /\ delivered' = delivered /\ peeked' = peeked
    BY <1>6 DEF ReadNext, Consumer
  <2>2. Sending' /\ Receiving(0)' /\ Delivering' /\ Decoding' /\ reader'.buf = reader.buf
    BY <1>1, <2>1, FieldsNextTyped
  <2>3. InPlace(0)'
    BY <1>1, <2>1, FieldsNextInPlace, NothingMissing
  <2> QED
    BY <1>1, <2>1, <2>2, <2>3 DEF StreamInv
<1>7. CASE Deliver
  <2>1. container' = container /\ sent' = sent /\ peeked' = FALSE
    BY <1>7 DEF Deliver
  <2>2. Sending' /\ Receiving(0)' /\ Delivering' /\ Decoding' /\ reader' = reader /\ InPlace(0)'
    BY <1>1, <1>7, DeliverStep
  <2> QED
    BY <1>1, <2>1, <2>2 DEF StreamInv
<1>8. CASE UNCHANGED streamVars
  <2>1. /\ container' = container /\ sent' = sent /\ delivered' = delivered /\ peeked' = peeked
        /\ root' = root /\ reader' = reader /\ handle' = handle /\ items' = items
    BY <1>8 DEF streamVars, vars
  <2>2. Receiving(0)'
    BY <1>1, <2>1 DEF Receiving, Placed
  <2>3. Live' = Live /\ Defs' = Defs /\ HandleReader' = HandleReader
    BY <2>1 DEF Live, Defs, HandleReader
  <2>4. /\ Sending' /\ Delivering' /\ (More => More') /\ Index' = Index /\ Here(0)' = Here(0)
        /\ \A n : (Intact(n)' => Intact(n)) /\ IntactFields(n)' = IntactFields(n)
    BY <1>1, <2>1, StillSent
  <2>5. Decoding'
    BY <1>1, <2>1, <2>3, <2>4 DEF Decoding
  <2>6. InPlace(0)'
    BY <1>1, <2>1, <2>3, <2>4 DEF InPlace
  <2> QED
    BY <1>1, <2>1, <2>2, <2>4, <2>5, <2>6 DEF StreamInv
<1> QED
  BY <1>2, <1>3, <1>4, <1>5, <1>6, <1>7, <1>8 DEF StreamNext

\* The inductive invariant of a stream: what was sent, what has arrived of it, where the reader
\* is, and what has been decoded (lib.rs:1261).
THEOREM StreamInvariance == StreamSpec => []StreamInv
BY StreamInitInv, StreamStep, PTL DEF StreamSpec

\* The type invariant of the programs on both ends (lib.rs:1261).
THEOREM StreamTypeCorrect == StreamSpec => []StreamTypeOK
<1>1. StreamInv => StreamTypeOK
  <2> SUFFICES ASSUME StreamInv PROVE StreamTypeOK
    OBVIOUS
  <2>1. Sending /\ Delivering /\ Decoding /\ peeked \in BOOLEAN
    BY DEF StreamInv
  <2>2. root \in RootSchema
    BY <2>1, Derived DEF Decoding
  <2> QED
    BY <2>1, <2>2 DEF StreamTypeOK, Sending, Delivering, Shaped
<1> QED
  BY <1>1, StreamInvariance, PTL

\* What the schema shows of a record, by its fields.
LEMMA ShownType ==
  ASSUME Sending, NEW n \in DOMAIN sent
  PROVE  LET fs == container.variants[sent[n].variant]
         IN  /\ Shown(sent[n]) \in Shaped /\ DOMAIN Shown(sent[n]).vals = 1 .. Len(Kept(fs))
             /\ Shown(sent[n]).variant = sent[n].variant
             /\ \A i \in 1 .. Len(Kept(fs)) : Shown(sent[n]).vals[i] = ValueOf(container, sent[n], i)
             /\ DOMAIN Kept(fs) = 1 .. Len(Kept(fs))
<1> DEFINE rec == sent[n]
           fs == container.variants[rec.variant]
           shows == Shows(fs)
           vals == [i \in DOMAIN shows |-> rec.vals[shows[i]]]
           m == Len(Kept(fs))
<1>1. rec \in Records(container)
  BY ElementOfSeq DEF Sending
<1>2. RecordHolds(container, rec)
  BY <1>1, RecordsHold DEF Sending
<1>3. container \in Container
  BY ContainersType DEF Sending
<1>4. rec.variant \in DOMAIN container.variants /\ rec.variant \in Nat /\ fs \in Seq(ContainerField)
  BY <1>2, <1>3, ContainerParts DEF RecordHolds
<1>5. shows \in Seq(1 .. Len(fs)) /\ m = Len(shows) /\ Kept(fs) \in Seq(ContainerField) /\ \A i \in 1 .. m : ~Kept(fs)[i].skip
  <2> HIDE DEF fs
  <2> QED
    BY <1>4, KeptType
<1>6. \A i \in 1 .. m : FieldHolds(Kept(fs)[i], rec.vals[shows[i]])
  <2> HIDE DEF rec
  <2> QED
    BY <1>2, <1>3, KeptCodesType
<1>7. \A i \in 1 .. m : rec.vals[shows[i]] \in Value
  BY <1>5, <1>6, HoldsValue DEF FieldHolds
<1>8. DOMAIN shows = 1 .. m /\ m \in Nat /\ DOMAIN Kept(fs) = 1 .. m
  BY <1>5
<1>9. Shown(rec) = [variant |-> rec.variant, vals |-> vals]
  BY DEF Shown
<1>10. \A i \in 1 .. m : vals[i] = ValueOf(container, rec, i)
  BY <1>8 DEF ValueOf
<1> HIDE DEF rec, fs, shows, m
<1>11. vals \in Seq(Value) /\ DOMAIN vals = 1 .. m
  BY <1>7, <1>8
<1> HIDE DEF vals
<1>12. Shown(rec) \in Shaped
  BY <1>4, <1>9, <1>11 DEF Shaped
<1> QED
  BY <1>8, <1>9, <1>10, <1>11, <1>12 DEF rec, fs, m

\* An adapter that changes the wire format spoils its field and what is behind it, never
\* what is before it (lib.rs:354), for every container and all values.
THEOREM PrefixIsCorrect == StreamSpec => []PrefixCorrect
<1>1. StreamInv => PrefixCorrect
  <2> SUFFICES ASSUME StreamInv PROVE PrefixCorrect
    OBVIOUS
  <2>1. Sending /\ Delivering /\ InPlace(0)
    BY DEF StreamInv
  <2>2. ASSUME Live, More, Intact(Index)
        PROVE  /\ handle.variant = sent[Index].variant
               /\ \A i \in DOMAIN items \cap IntactFields(Index) :
                    items[i].ok /\ Plain(items[i].val) = Shown(sent[Index]).vals[i]
    <3>1. /\ handle.variant = sent[Index].variant
          /\ \A i \in DOMAIN items \cap IntactFields(Index) : Right(items[i], container, sent[Index], Here(0), i)
      BY <2>1, <2>2 DEF InPlace
    <3>2. Index \in DOMAIN sent
      <4>1. Index \in 1 .. Len(sent)
        BY <2>1, <2>2, AtHand, 0 \in Nat
      <4> QED
        BY <2>1, <4>1 DEF Sending
    <3>3. \A i \in IntactFields(Index) : Shown(sent[Index]).vals[i] = ValueOf(container, sent[Index], i)
      BY <2>1, <3>2, ShownType DEF IntactFields
    <3> QED
      BY <3>1, <3>3 DEF Right
  <2> QED
    BY <2>1, <2>2 DEF PrefixCorrect, Delivering, Index
<1> QED
  BY <1>1, StreamInvariance, PTL

\* The fixed size of a root is the length of each of its records, tag included, whatever the
\* adapters (lib.rs:237).
THEOREM RootSizeIsExact == StreamSpec => []RootSizeExact
<1>1. StreamInv => RootSizeExact
  <2> SUFFICES ASSUME StreamInv PROVE RootSizeExact
    OBVIOUS
  <2>1. Sending /\ root = SchemaOf(container)
    BY DEF StreamInv, Decoding
  <2> DEFINE size == IF root.k = "Struct" THEN root.variants[1].size ELSE root.size
  <2>2. size = ContainerMeta(container)
    <3>1. /\ container \in Container /\ root.k = container.k /\ root.k \in {"Struct", "Enum"}
          /\ root.k = "Struct" => Len(root.variants) = 1
          /\ root.k = "Enum" => root.size = ContainerMeta(container)
          /\ Len(root.variants) = Len(container.variants)
          /\ DOMAIN root.variants = DOMAIN container.variants
      BY <2>1, Derived, RootParts
    <3>2. CASE root.k = "Struct"
      <4>1. DOMAIN container.variants = 1 .. 1
        BY <3>1, <3>2, ContainerParts
      <4>2. 1 \in DOMAIN container.variants
        BY <4>1
      <4>3. root.variants[1].size = SchemaSize(container, 1)
        BY <2>1, <4>2, DerivedVariant
      <4> QED
        BY <3>1, <3>2, <4>3 DEF SchemaSize
    <3> QED
      BY <3>1, <3>2
  <2>3. ASSUME ContainerMeta(container) # <<>>, NEW rec \in Records(container)
        PROVE  ContainerMeta(container) = <<Len(EncodeRecord(container, rec))>>
    BY <2>1, <2>3, ContainersType, RecordsHold, RecordLength DEF Sending
  <2> HIDE DEF size
  <2>4. size # <<>> => \A rec \in Records(container) : Len(EncodeRecord(container, rec)) = size[1]
    BY <2>2, <2>3
  <2> QED
    BY <2>4 DEF RootSizeExact, size
<1> QED
  BY <1>1, StreamInvariance, PTL

\* The type of every field has a value, as that of every field of a value has.
Inhabited == \A c \in Containers : \A fs \in Range(c.variants) : \A f \in Range(fs) : Samples(f.ty) # {}

\* SERIALIZED_SIZE is the length of the longest record if it is Static, and otherwise the most
\* that a record has in its tag and its fields of a known size (lib.rs:337), whatever the
\* adapters.
THEOREM SerializedSizeIsTight ==
  ASSUME Inhabited
  PROVE  StreamSpec => []SerializedSizeTight
<1>1. StreamInv => SerializedSizeTight
  <2> SUFFICES ASSUME StreamInv PROVE SerializedSizeTight
    OBVIOUS
  <2> DEFINE s == SERIALIZED_SIZE(container)
             known(rec) == Len(EncodeTag(container, rec.variant)) + Len(FlattenSeq(KnownCodes(container, rec)))
             length(rec) == IF s.k = "Dynamic" THEN known(rec) ELSE Len(EncodeRecord(container, rec))
  <2>1. /\ container \in Containers /\ Compiles(container) /\ container \in Container
        /\ container.k = "Struct" => Len(container.variants) = 1
    BY ContainersType DEF StreamInv, Sending
  <2>2. /\ \A v \in DOMAIN container.variants : KnownPart(container, v) <= s.n
        /\ s.k # "Dynamic" =>
             \A v \in DOMAIN container.variants : SumMeta(VariantMetas(container.variants[v])) # <<>>
        /\ DOMAIN container.variants # {} => \E v \in DOMAIN container.variants : KnownPart(container, v) = s.n
    BY <2>1, SerializedSizeParts
  <2> HIDE DEF s
  <2>3. ASSUME NEW rec \in Records(container)
        PROVE  rec.variant \in DOMAIN container.variants /\ length(rec) = KnownPart(container, rec.variant)
    <3>1. RecordHolds(container, rec) /\ rec.variant \in DOMAIN container.variants
      BY <2>1, RecordsHold DEF RecordHolds
    <3>2. /\ known(rec) = KnownPart(container, rec.variant)
          /\ SumMeta(VariantMetas(container.variants[rec.variant])) # <<>> =>
               Len(EncodeRecord(container, rec)) = KnownPart(container, rec.variant)
      BY <2>1, <3>1, KnownLength
    <3> QED
      BY <2>2, <3>1, <3>2
  <2>4. ASSUME NEW v \in DOMAIN container.variants
        PROVE  \E rec \in Records(container) : rec.variant = v
    <3> DEFINE fs == container.variants[v]
    <3>1. fs \in Seq(ContainerField) /\ fs \in Range(container.variants)
      BY <2>1, ContainerParts DEF Range
    <3>2. \A i \in 1 .. Len(fs) : fs[i] \in Range(fs)
      BY <3>1 DEF Range
    <3> HIDE DEF fs
    <3>3. Len(fs) \in Nat /\ \A i \in 1 .. Len(fs) : Samples(fs[i].ty) # {}
      BY <2>1, <3>1, <3>2 DEF Inhabited
    <3>4. PICK vals : vals \in ValuesOf(container.variants[v])
      BY <3>3, ValuesExist DEF fs
    <3>5. [variant |-> v, vals |-> vals] \in Records(container)
      <4> DEFINE one(w) == {[variant |-> w, vals |-> x] : x \in ValuesOf(container.variants[w])}
      <4>1. [variant |-> v, vals |-> vals] \in one(v)
        BY <3>4
      <4>2. Records(container) = UNION {one(w) : w \in DOMAIN container.variants}
        BY DEF Records
      <4> HIDE DEF one
      <4> QED
        BY <4>1, <4>2
    <3> QED
      BY <3>5
  <2> HIDE DEF length
  <2>5. \A rec \in Records(container) : length(rec) <= s.n
    BY <2>2, <2>3
  <2>6. Records(container) # {} => \E rec \in Records(container) : length(rec) = s.n
    <3> SUFFICES ASSUME NEW any \in Records(container)
                 PROVE  \E rec \in Records(container) : length(rec) = s.n
      OBVIOUS
    <3>1. PICK v \in DOMAIN container.variants : KnownPart(container, v) = s.n
      BY <2>2, <2>3
    <3>2. PICK rec \in Records(container) : rec.variant = v
      BY <2>4
    <3>3. length(rec) = s.n
      BY <2>3, <3>1, <3>2
    <3> QED
      BY <3>3
  <2> QED
    BY <2>5, <2>6 DEF SerializedSizeTight, KnownCodes, length, s
<1> QED
  BY <1>1, StreamInvariance, PTL

-----------------------------------------------------------------------------
(***************************************************************************)
(* Adapters that keep the wire format, as SchemaDynamic asks for           *)
(* (lib.rs:354).                                                           *)
(***************************************************************************)
FormatKept == \A c \in Containers : \A fs \in Range(c.variants) : \A f \in Range(fs) : KeepsFormat(f)

LEMMA AllIntact ==
  ASSUME FormatKept, Sending, NEW n \in 1 .. Len(sent) + 1
  PROVE  Intact(n)
<1> SUFFICES ASSUME NEW j \in 1 .. n - 1 PROVE \A f \in Range(container.variants[sent[j].variant]) : KeepsFormat(f)
  BY DEF Intact
<1>1. j \in 1 .. Len(sent) /\ container \in Containers
  BY DEF Sending
<1>2. RecordHolds(container, sent[j])
  BY <1>1, ElementOfSeq, RecordsHold DEF Sending
<1>3. container.variants[sent[j].variant] \in Range(container.variants)
  BY <1>2 DEF RecordHolds, Range
<1> QED
  BY <1>1, <1>3 DEF FormatKept

\* Where a consumer that has no decoder open is.
LEMMA BetweenRecords ==
  ASSUME FormatKept, Sending, Delivering, NEW off \in Nat, InPlace(off)
  PROVE  /\ Intact(Index) /\ (More => Intact(Index + 1))
         /\ ~(Live /\ handle.byRef) =>
              reader.pos = off + Len(Encoded(container, SubSeq(sent, 1, Len(delivered))))
<1>1. Len(delivered) \in 0 .. Len(sent) /\ Len(sent) \in Nat
  BY DEF Delivering, Sending
<1>2. Index \in 1 .. Len(sent) + 1 /\ (More => Index + 1 \in 1 .. Len(sent) + 1)
  BY <1>1 DEF Index, More
<1>3. Intact(Index) /\ (More => Intact(Index + 1))
  BY <1>2, AllIntact
<1>4. Len(Encoded(container, SubSeq(sent, 1, Len(delivered)))) = Start(container, sent, Index)
  BY <1>1, EncodedPrefix DEF Sending, Index
<1> QED
  BY <1>3, <1>4 DEF InPlace, Here

\* Between two records the reader is exactly at the next one (lib.rs:1289).
THEOREM AlwaysAtRecord ==
  ASSUME FormatKept
  PROVE  StreamSpec => []AtRecord
<1>1. StreamInv => AtRecord
  <2> SUFFICES ASSUME StreamInv PROVE AtRecord
    OBVIOUS
  <2>1. Sending /\ Delivering /\ InPlace(0) /\ 0 \in Nat
    BY DEF StreamInv
  <2>2. ~(Live /\ handle.byRef) =>
              reader.pos = 0 + Len(Encoded(container, SubSeq(sent, 1, Len(delivered))))
    BY <2>1, BetweenRecords
  <2>3. Len(Encoded(container, SubSeq(sent, 1, Len(delivered)))) \in Nat
    <3>1. Len(delivered) \in 0 .. Len(sent) /\ Len(delivered) + 1 \in 1 .. Len(sent) + 1
      BY <2>1 DEF Delivering, Sending
    <3>2. Start(container, sent, Len(delivered) + 1) \in 0 .. Len(Encoded(container, sent))
      BY <2>1, <3>1, RecordStarts DEF Sending
    <3>3. Start(container, sent, Len(delivered) + 1) \in Nat
      BY <3>2
    <3> QED
      BY <2>1, <3>1, <3>3, EncodedPrefix DEF Sending
  <2> QED
    BY <2>2, <2>3 DEF AtRecord
<1> QED
  BY <1>1, StreamInvariance, PTL

\* A finished iterator has consumed what the derived schema says: for each field, for the
\* fields of the variant or struct, and for the value with its tag (lib.rs:37, 224 and 277).
THEOREM SizesAreExact ==
  ASSUME FormatKept
  PROVE  StreamSpec => []SizesExact
<1>1. StreamInv => SizesExact
  <2> SUFFICES ASSUME StreamInv, handle.k = "Fields", Remaining = 0
               PROVE  LET end    == HandleReader.pos
                          schema == root.variants[handle.variant]
                          whole  == IF root.k = "Struct" THEN schema.size ELSE root.size
                      IN  /\ schema.size # <<>> => end - handle.first = schema.size[1]
                          /\ whole # <<>> => end - handle.start = whole[1]
                          /\ \A i \in DOMAIN items :
                               LET it == items[i]
                               IN  it.def.size # <<>> => it.to - it.from = it.def.size[1]
    BY DEF SizesExact
  <2> DEFINE rec == sent[Index]
             fs == container.variants[rec.variant]
             m == Len(Kept(fs))
             k == KeptCodes(container, rec)
             schema == root.variants[handle.variant]
             whole == IF root.k = "Struct" THEN schema.size ELSE root.size
  <2>1. /\ Sending /\ Receiving(0) /\ Delivering /\ Decoding /\ InPlace(0) /\ 0 \in Nat
        /\ Live /\ More /\ root = SchemaOf(container)
    BY DEF StreamInv, Live, Decoding
  <2>2. Intact(Index + 1)
    BY <2>1, BetweenRecords
  <2>3. /\ RecordHolds(container, rec) /\ rec.variant \in DOMAIN container.variants /\ Here(0) \in Nat
    BY <2>1, AtHand
  <2>4. /\ container \in Container /\ root.k = container.k /\ root.k \in {"Struct", "Enum"}
        /\ root.k = "Enum" => root.size = ContainerMeta(container)
    BY <2>1, Derived, RootParts
  <2>5. /\ handle.variant = rec.variant /\ DOMAIN items = 1 .. m /\ m \in Nat
        /\ handle.start = Here(0) /\ handle.first = Here(0) + TagSize(container)
        /\ \A i \in 1 .. m : Right(items[i], container, rec, Here(0), i)
        /\ HandleReader.pos = Here(0) + Len(EncodeRecord(container, rec))
    BY <2>1, <2>2, WholeRecord
  <2>6. VariantKept(container, rec.variant)
    BY <2>1, <2>2, IntactRecord
  <2>7. /\ k \in Seq(Seq(Byte)) /\ FlattenSeq(k) \in Seq(Byte)
        /\ Len(EncodeRecord(container, rec)) = TagSize(container) + Len(FlattenSeq(k))
        /\ TagSize(container) \in Nat
    <3> HIDE DEF rec
    <3> QED
      BY <2>3, <2>4, KeptCodesType, ContainerParts
  <2>8. schema.size = SchemaSize(container, rec.variant)
    BY <2>1, <2>3, <2>5, DerivedVariant
  <2>9. schema.size # <<>> => HandleReader.pos - handle.first = schema.size[1]
    <3> SUFFICES ASSUME schema.size # <<>> PROVE HandleReader.pos - handle.first = schema.size[1]
      OBVIOUS
    <3>1. schema.size = <<Len(FlattenSeq(k))>>
      <4> HIDE DEF rec
      <4> QED
        BY <2>1, <2>3, <2>4, <2>6, <2>8, SchemaSizeExact DEF Sending
    <3>2. schema.size[1] = Len(FlattenSeq(k)) /\ Len(FlattenSeq(k)) \in Nat
      BY <2>7, <3>1
    <3>3. /\ HandleReader.pos = Here(0) + (TagSize(container) + Len(FlattenSeq(k)))
          /\ handle.first = Here(0) + TagSize(container) /\ Here(0) \in Nat /\ TagSize(container) \in Nat
      BY <2>3, <2>5, <2>7
    <3> HIDE DEF schema, k
    <3>4. HandleReader.pos - handle.first = Len(FlattenSeq(k))
      BY <3>2, <3>3
    <3> QED
      BY <3>2, <3>4
  <2>10. whole # <<>> => HandleReader.pos - handle.start = whole[1]
    <3> SUFFICES ASSUME whole # <<>> PROVE HandleReader.pos - handle.start = whole[1]
      OBVIOUS
    <3>1. whole = ContainerMeta(container)
      BY <2>4, <2>8 DEF SchemaSize
    <3>2. ContainerMeta(container) = <<Len(EncodeRecord(container, rec))>>
      BY <2>3, <2>4, <3>1, RecordLength
    <3>3. whole[1] = Len(EncodeRecord(container, rec)) /\ Len(EncodeRecord(container, rec)) \in Nat
      BY <2>7, <3>1, <3>2
    <3> HIDE DEF whole, rec
    <3> QED
      BY <2>3, <2>5, <3>3
  <2>11. ASSUME NEW i \in DOMAIN items, items[i].def.size # <<>>
         PROVE  items[i].to - items[i].from = items[i].def.size[1]
    <3> DEFINE f == Kept(fs)[i]
    <3>1. i \in 1 .. m /\ Right(items[i], container, rec, Here(0), i)
      BY <2>5
    <3>2. items[i].def = [ty |-> TYPE(f.ty), size |-> TypeMeta(f.ty)]
      <4> DEFINE defs == root.variants[rec.variant].fields
      <4>1. Len(defs) = m /\ \A j \in 1 .. Len(defs) : defs[j] = [ty |-> TYPE(Kept(fs)[j].ty), size |-> TypeMeta(Kept(fs)[j].ty)]
        BY <2>1, <2>3, DerivedVariant
      <4>2. items[i].def = defs[i]
        BY <2>1, <2>5 DEF Decoding, Defs
      <4> HIDE DEF defs, m, fs
      <4>3. i \in 1 .. Len(defs)
        BY <3>1, <4>1
      <4>4. defs[i] = [ty |-> TYPE(f.ty), size |-> TypeMeta(f.ty)]
        BY <4>1, <4>3, Zenon
      <4> QED
        BY <4>2, <4>4
    <3>3. items[i].def.size = TypeMeta(f.ty)
      BY <3>2
    <3>4. KeepsFormat(f)
      BY <2>3, <2>4, <2>6, <3>1, KeptFieldsKeep
    <3>5. f.ty \in RustTy /\ (TypeMeta(f.ty) # <<>> => Len(k[i]) = Known(TypeMeta(f.ty)))
      <4> HIDE DEF rec
      <4>1. i \in 1 .. Len(Kept(container.variants[rec.variant])) /\ KeepsFormat(Kept(container.variants[rec.variant])[i])
        BY <3>1, <3>4
      <4> QED
        BY <2>3, <2>4, <4>1, KeptCode
    <3>6. /\ FieldEnd(container, rec, i) = FieldEnd(container, rec, i - 1) + Len(k[i])
          /\ FieldEnd(container, rec, i - 1) \in Nat /\ Len(k[i]) \in Nat
      <4>1. i - 1 \in 0 .. m
        BY <2>5, <3>1
      <4>2. /\ FieldEnd(container, rec, i - 1) \in TagSize(container) .. Len(EncodeRecord(container, rec))
            /\ FieldEnd(container, rec, i) = FieldEnd(container, rec, i - 1) + Len(k[i])
            /\ k[i] \in Seq(Byte) /\ Len(EncodeRecord(container, rec)) \in Nat
        BY <2>3, <2>4, <3>1, <4>1, FieldEnds
      <4> HIDE DEF k, rec
      <4> QED
        BY <2>7, <4>2
    <3>7. items[i].to - items[i].from = Len(k[i])
      <4> HIDE DEF k, rec
      <4> QED
        BY <2>3, <3>1, <3>6 DEF Right
    <3>8. TypeMeta(f.ty)[1] = Known(TypeMeta(f.ty))
      BY <2>11, <3>3 DEF Known
    <3> QED
      BY <2>11, <3>3, <3>5, <3>7, <3>8
  <2> QED
    BY <2>9, <2>10, <2>11
<1> QED
  BY <1>1, StreamInvariance, PTL

-----------------------------------------------------------------------------
(***************************************************************************)
(* The abstract stream.                                                    *)
(***************************************************************************)
ToShow == [i \in DOMAIN sent |-> Shown(sent[i])]

\* To begin with, nothing is delivered.
LEMMA StartsAbstract ==
  ASSUME Sending, delivered = <<>>
  PROVE  Abstract!Init
<1>1. \A i \in DOMAIN sent : Shown(sent[i]) \in Shaped
  BY ShownType
<1>2. DOMAIN sent = 1 .. Len(sent) /\ Len(sent) \in Nat
  BY DEF Sending
<1>3. ToShow \in Seq(Shaped)
  BY <1>1, <1>2 DEF ToShow
<1> QED
  BY <1>3 DEF Abstract!Init, ToShow, Shaped

LEMMA StillAbstract ==
  ASSUME UNCHANGED <<container, sent>>
  PROVE  ToShow' = ToShow
<1>1. \A i : Shown(sent[i])' = Shown(sent[i])
  BY DEF Shown
<1> QED
  BY <1>1 DEF ToShow

\* The next record is delivered.
LEMMA DeliversAbstract ==
  ASSUME FormatKept, NEW off \in Nat, Sending, Receiving(off), Delivering, Decoding, InPlace(off), Deliver
  PROVE  Abstract!Deliver
<1>1. More
  BY DEF Decoding, Deliver, Live
<1>2. /\ delivered' = Append(delivered, Yielded) /\ container' = container /\ sent' = sent
  BY DEF Deliver
<1>3. Delivering'
  BY DeliverStep
<1>4. Intact(Index + 1) /\ Index = Len(delivered) + 1
  BY <1>1, BetweenRecords DEF Index
<1>5. Index \in 1 .. Len(sent) /\ Index \in DOMAIN sent
  <2>1. Index \in 1 .. Len(sent)
    BY <1>1, AtHand, 0 \in Nat
  <2> QED
    BY <2>1 DEF Sending
<1>6. delivered'[Index] = Yielded /\ Index \in DOMAIN delivered'
  <2> DEFINE S == Shaped \cup {Yielded}
  <2>1. delivered \in Seq(S) /\ Yielded \in S
    BY DEF Delivering
  <2> HIDE DEF S
  <2>2. delivered' \in Seq(S) /\ Len(delivered') = Len(delivered) + 1 /\ delivered'[Len(delivered) + 1] = Yielded
    BY <1>2, <2>1, AppendProperties
  <2> QED
    BY <1>4, <2>1, <2>2
<1>7. Yielded = Shown(sent[Index])
  <2>1. \A n : Intact(n)' = Intact(n) /\ Shown(sent[n])' = Shown(sent[n])
    BY <1>2 DEF Intact, Shown
  <2>2. \A n \in DOMAIN delivered' : Intact(n + 1)' => delivered'[n] = Shown(sent[n])'
    BY <1>3 DEF Delivering
  <2> QED
    BY <1>4, <1>6, <2>1, <2>2
<1>8. ToShow' = ToShow /\ ToShow[Index] = Shown(sent[Index]) /\ Len(ToShow) = Len(sent)
  BY <1>2, <1>5, StillAbstract DEF ToShow, Sending
<1>9. /\ Len(delivered) < Len(ToShow) /\ delivered' = Append(delivered, ToShow[Len(delivered) + 1])
      /\ ToShow' = ToShow
  BY <1>1, <1>2, <1>4, <1>7, <1>8 DEF More
<1> QED
  BY <1>9 DEF Abstract!Deliver, ToShow

\* Every step of a stream is one of the abstract stream, or does nothing there.
LEMMA StreamImplements ==
  ASSUME FormatKept, StreamInv, [StreamNext]_streamVars
  PROVE  [Abstract!Deliver]_<<ToShow, delivered>>
<1>1. CASE Deliver
  <2>1. Abstract!Deliver
    BY <1>1, DeliversAbstract, 0 \in Nat DEF StreamInv
  <2> QED
    BY <2>1
<1>2. CASE UNCHANGED <<container, sent, delivered>>
  BY <1>2, StillAbstract
<1> QED
  BY <1>1, <1>2 DEF StreamNext, Consume, Peek, DropPeek, ReadFields, ReadNext, Consumer, streamVars

\* The consumer decodes the records that were serialized, each once and in order, however it
\* looks ahead (lib.rs:1261): the safety half of Delivery.
THEOREM DeliversRecords ==
  ASSUME FormatKept
  PROVE  StreamSpec => Abstract!Safety
<1>1. StreamInit => Abstract!Init
  BY StreamInitInv, StartsAbstract DEF StreamInit, StreamInv
<1>2. StreamInv /\ [StreamNext]_streamVars => [Abstract!Deliver]_<<[i \in DOMAIN sent |-> Shown(sent[i])], delivered>>
  BY StreamImplements DEF ToShow
<1> QED
  BY <1>1, <1>2, StreamInvariance, PTL DEF StreamSpec, Abstract!Safety

-----------------------------------------------------------------------------
(***************************************************************************)
(* Sessions: the records may be cut short anywhere, and nothing is known   *)
(* of them before the schema is there.                                     *)
(***************************************************************************)
SessionInv ==
  /\ Sending /\ Receiving(0) /\ Delivering /\ phase \in {"schema", "records", "failed"}
  /\ phase = "schema" => /\ root = NoSchema /\ ~Live /\ items = <<>> /\ delivered = <<>>
                         /\ reader.pos = 0
  /\ phase = "records" => Decoding /\ InPlace(0)
  /\ FailsOnlyOnMissing

LEMMA SessionInitInv == SessionInit => SessionInv
<1> SUFFICES ASSUME SessionInit PROVE SessionInv
  OBVIOUS
<1> DEFINE e == Encoded(container, sent)
<1>1. /\ container \in Containers /\ Compiles(container)
      /\ sent \in BoundedSeq(Records(container), MaxRecords)
      /\ root = NoSchema /\ handle = NoHandle /\ items = <<>>
      /\ delivered = <<>> /\ phase = "schema"
      /\ reader.borrows \/ \A i \in DOMAIN sent : Fits(sent[i])
  BY DEF SessionInit
<1>2. PICK cut \in 0 .. Len(e) : reader \in [buf : {SubSeq(e, 1, cut)}, pos : {0}, borrows : BOOLEAN]
  BY DEF SessionInit
<1>3. Sending
  BY <1>1, SentType DEF Sending
<1>4. e \in Seq(Byte)
  BY <1>3, RecordCodesType DEF Sending
<1> HIDE DEF e
<1>5. /\ reader.buf \in Seq(Byte) /\ Len(reader.buf) = cut /\ reader.pos = 0 /\ reader \in Reader
      /\ cut \in Nat /\ \A i \in 1 .. cut : reader.buf[i] = e[i]
  <2> DEFINE s == SubSeq(e, 1, cut)
  <2>1. cut \in Int /\ Len(e) \in Nat /\ cut \in Nat /\ cut - 1 + 1 = cut /\ \A i \in 1 .. cut : i \in 1 .. Len(e) /\ 1 + i - 1 = i
    BY <1>4
  <2>2. \A i \in 1 .. cut : e[i] \in Byte
    BY <1>4, <2>1, ElementOfSeq
  <2>3. /\ s \in Seq(Byte) /\ Len(s) = (IF 1 <= cut THEN cut - 1 + 1 ELSE 0)
        /\ \A i \in 1 .. cut - 1 + 1 : s[i] = e[1 + i - 1]
    BY <2>1, <2>2, SubSeqProperties
  <2>4. s \in Seq(Byte) /\ Len(s) = cut /\ \A i \in 1 .. cut : s[i] = e[i]
    BY <2>1, <2>3
  <2> HIDE DEF s
  <2>5. reader.buf = s /\ reader.pos = 0 /\ reader \in [buf : {s}, pos : {0}, borrows : BOOLEAN]
    BY <1>2 DEF s
  <2> QED
    BY <2>1, <2>4, <2>5 DEF Reader
<1>6. Agrees(reader.buf, 0, e)
  <2> SUFFICES ASSUME NEW i \in 1 .. Len(e), 0 + i <= Len(reader.buf) PROVE reader.buf[0 + i] = e[i]
    BY DEF Agrees
  <2>1. 0 + i = i /\ i \in 1 .. cut
    BY <1>4, <1>5
  <2> QED
    BY <1>5, <2>1
<1>7. Receiving(0)
  <2>1. reader.pos <= Len(reader.buf)
    BY <1>5
  <2> QED
    BY <1>1, <1>5, <1>6, <2>1 DEF Receiving, Placed, e
<1>8. Delivering
  BY <1>1, <1>3, NothingDelivered
<1> QED
  BY <1>1, <1>3, <1>5, <1>7, <1>8 DEF SessionInv, Live, NoHandle, FailsOnlyOnMissing

\* Receiving the schema.
LEMMA ReceiveSchemaInv ==
  ASSUME SessionInv, ReceiveSchema
  PROVE  SessionInv'
<1>1. /\ Sending /\ Receiving(0) /\ Delivering
      /\ root = NoSchema /\ ~Live /\ items = <<>> /\ delivered = <<>> /\ reader.pos = 0
  BY DEF SessionInv, ReceiveSchema
<1>2. /\ root' = (IF announced THEN SchemaOf(container) ELSE root)
      /\ phase' = (IF announced THEN "records" ELSE "failed")
      /\ UNCHANGED <<reader, handle, items, container, sent, delivered, announced>>
  BY DEF ReceiveSchema
<1>3. Receiving(0)'
  <2>1. 0 \in reader.pos .. Len(reader.buf)
    BY <1>1 DEF Receiving, Placed, Reader
  <2> QED
    BY <1>1, <1>2, <2>1, StillReceiving
<1>4. Sending' /\ Delivering'
  BY <1>1, <1>2, StillSent
<1>5. ~Live'
  BY <1>1, <1>2 DEF Live
<1>6. CASE announced
  <2>1. phase' = "records" /\ root' = SchemaOf(container)' /\ reader'.pos = 0
    BY <1>1, <1>2, <1>6
  <2>2. items' \in Seq(Item)
    BY <1>1, <1>2
  <2>3. Decoding'
    BY <1>5, <2>1, <2>2 DEF Decoding
  <2>4. Here(0)' = 0
    <3>1. Here(0) = 0
      BY <1>1, NothingDelivered
    <3> QED
      BY <1>2, <3>1 DEF Here, Index
  <2>5. InPlace(0)'
    BY <1>5, <2>1, <2>4 DEF InPlace
  <2> QED
    BY <1>3, <1>4, <2>1, <2>3, <2>5 DEF SessionInv, FailsOnlyOnMissing
<1>7. CASE ~announced
  <2>1. phase' = "failed" /\ root' = NoSchema /\ ~announced'
    BY <1>1, <1>2, <1>7
  <2> QED
    BY <1>3, <1>4, <2>1 DEF SessionInv, FailsOnlyOnMissing
<1> QED
  BY <1>6, <1>7

\* What is missing, in the words of the property.
LEMMA MissingRecord ==
  ASSUME Sending, Delivering, root = SchemaOf(container), Missing(0)
  PROVE  /\ root # NoSchema /\ More
         /\ Len(reader.buf) < Len(Encoded(container, SubSeq(sent, 1, Len(delivered) + 1)))
<1>1. root.k \in {"Struct", "Enum"}
  BY Derived, RootParts
<1>2. More /\ Len(reader.buf) < 0 + Start(container, sent, Index + 1)
  BY DEF Missing
<1>3. Len(delivered) + 1 \in 0 .. Len(sent)
  BY <1>2 DEF More, Delivering, Sending
<1>4. Len(Encoded(container, SubSeq(sent, 1, Len(delivered) + 1))) = Start(container, sent, Index + 1)
  BY <1>3, EncodedPrefix DEF Sending, Index
<1> QED
  BY <1>1, <1>2, <1>4 DEF NoSchema

LEMMA OpenRecordInv ==
  ASSUME FormatKept, SessionInv, OpenRecord
  PROVE  SessionInv'
<1>1. phase = "records" /\ Sending /\ Receiving(0) /\ Delivering /\ Decoding /\ InPlace(0)
  BY DEF SessionInv, OpenRecord
<1>2. /\ More /\ container' = container /\ sent' = sent /\ delivered' = delivered
      /\ phase' = IF handle'.k = "None" THEN "failed" ELSE phase
  BY DEF OpenRecord, Consume, Consumer
<1>3. PICK k \in {"Variant", "Fields"} : Open(k, TRUE)
  BY DEF OpenRecord, Consume, DecodeVariant, DecoderFields
<1>4. /\ Sending' /\ Receiving(0)' /\ Delivering' /\ Decoding' /\ reader'.buf = reader.buf
      /\ root' = root
      /\ handle' = NoHandle \/ handle'.k = k
  <2>1. LET o == SelectSchema(reader)
        IN  IF o.ok
            THEN handle' = [k |-> k, variant |-> o.val + 1, next |-> 1, byRef |-> TRUE,
                            own |-> o.pos, start |-> reader.pos, first |-> o.pos]
            ELSE handle' = NoHandle
    BY <1>1, <1>2, <1>3, 0 \in Nat, OpenTyped
  <2>2. handle' = NoHandle \/ handle'.k = k
    BY <2>1
  <2>3. Sending' /\ Receiving(0)' /\ Delivering' /\ Decoding' /\ reader'.buf = reader.buf /\ root' = root
    BY <1>1, <1>2, <1>3, 0 \in Nat, OpenTyped
  <2> QED
    BY <2>2, <2>3
<1>5. /\ InPlace(0)' \/ (handle' = NoHandle /\ Missing(0))
      /\ handle' = NoHandle /\ Intact(Index) => Missing(0)
  BY <1>1, <1>2, <1>3, 0 \in Nat, OpenInPlace
<1>6. Intact(Index)
  BY <1>1, 0 \in Nat, BetweenRecords
<1>7. CASE handle' = NoHandle
  <2>1. phase' = "failed" /\ Missing(0)
    BY <1>2, <1>5, <1>6, <1>7 DEF NoHandle
  <2>2. /\ root # NoSchema /\ More
        /\ Len(reader.buf) < Len(Encoded(container, SubSeq(sent, 1, Len(delivered) + 1)))
    BY <1>1, <2>1, MissingRecord DEF Decoding
  <2>3. FailsOnlyOnMissing'
    BY <1>2, <1>4, <2>2 DEF FailsOnlyOnMissing, More
  <2> QED
    BY <1>4, <2>1, <2>3 DEF SessionInv
<1>8. CASE handle' # NoHandle
  <2>1. phase' = "records" /\ InPlace(0)'
    BY <1>1, <1>2, <1>3, <1>4, <1>5, <1>8
  <2> QED
    BY <1>4, <2>1 DEF SessionInv, FailsOnlyOnMissing
<1> QED
  BY <1>7, <1>8

LEMMA ReadFieldInv ==
  ASSUME FormatKept, SessionInv, ReadField
  PROVE  SessionInv'
<1> DEFINE ok == items'[Len(items')].ok
<1>1. phase = "records" /\ Sending /\ Receiving(0) /\ Delivering /\ Decoding /\ InPlace(0)
  BY DEF SessionInv, ReadField
<1>2. /\ FieldsNext /\ container' = container /\ sent' = sent /\ delivered' = delivered
      /\ phase' = IF ok THEN phase ELSE "failed"
  BY DEF ReadField, ReadNext, Consumer, Last
<1>3. More /\ root = SchemaOf(container) /\ Live
  BY <1>1, <1>2 DEF Decoding, FieldsNext, Live
<1>4. Sending' /\ Receiving(0)' /\ Delivering' /\ Decoding' /\ reader'.buf = reader.buf /\ root' = root
  BY <1>1, <1>2, 0 \in Nat, FieldsNextTyped
<1>5. InPlace(0)' \/ (~ok /\ Missing(0))
  BY <1>1, <1>2, 0 \in Nat, FieldsNextInPlace
<1>6. CASE ok
  BY <1>1, <1>2, <1>4, <1>5, <1>6 DEF SessionInv, FailsOnlyOnMissing
<1>7. CASE ~ok
  <2>1. Intact(Index) /\ Intact(Index + 1)
    BY <1>1, <1>3, 0 \in Nat, BetweenRecords
  <2>2. handle.next \in IntactFields(Index)
    <3> DEFINE m == Len(Kept(container.variants[sent[Index].variant]))
    <3>1. IntactFields(Index) = 1 .. m
      BY <1>1, <1>3, <2>1, IntactRecord
    <3>2. handle.variant = sent[Index].variant
      BY <1>1, <1>3, <2>1 DEF InPlace
    <3>3. sent[Index].variant \in DOMAIN container.variants
      BY <1>1, <1>3, 0 \in Nat, AtHand
    <3>4. Len(Defs) = m /\ Len(Defs) \in Nat
      <4>1. LET defs == root.variants[sent[Index].variant].fields IN Len(defs) = m /\ Len(defs) \in Nat
        BY <1>1, <1>3, <3>3, DerivedVariant
      <4> QED
        BY <3>2, <4>1 DEF Defs
    <3>5. handle.next \in 1 .. Len(Defs) + 1 /\ Remaining > 0
      BY <1>1, <1>2, <1>3 DEF Decoding, FieldsNext
    <3>6. handle.next \in 1 .. Len(Defs)
      BY <3>4, <3>5 DEF Remaining
    <3> HIDE DEF m
    <3> QED
      BY <3>1, <3>4, <3>6
  <2>3. Missing(0)
    BY <1>1, <1>2, <1>7, <2>1, <2>2, 0 \in Nat, FieldsNextInPlace
  <2>4. /\ root # NoSchema /\ More
        /\ Len(reader.buf) < Len(Encoded(container, SubSeq(sent, 1, Len(delivered) + 1)))
    BY <1>1, <1>3, <2>3, MissingRecord
  <2>5. phase' = "failed" /\ FailsOnlyOnMissing'
    BY <1>2, <1>4, <1>7, <2>4 DEF FailsOnlyOnMissing, More
  <2> QED
    BY <1>4, <2>5 DEF SessionInv
<1> QED
  BY <1>6, <1>7

LEMMA SessionStep ==
  ASSUME FormatKept
  PROVE  SessionInv /\ [SessionNext]_sessionVars => SessionInv'
<1> SUFFICES ASSUME SessionInv, [SessionNext]_sessionVars PROVE SessionInv'
  OBVIOUS
<1>1. CASE ReceiveSchema
  BY <1>1, ReceiveSchemaInv
<1>2. CASE OpenRecord
  BY <1>2, OpenRecordInv
<1>3. CASE ReadField
  BY <1>3, ReadFieldInv
<1>4. CASE NextRecord
  <2>1. /\ phase = "records" /\ phase' = phase /\ Sending /\ Receiving(0) /\ Delivering
        /\ Decoding /\ InPlace(0) /\ (ReadFields \/ Deliver)
    BY <1>4 DEF SessionInv, NextRecord
  <2>2. CASE ReadFields
    <3>1. Sending' /\ Receiving(0)' /\ Delivering' /\ Decoding' /\ InPlace(0)'
      BY <2>1, <2>2, 0 \in Nat, VariantFieldsStep DEF ReadFields, Consumer
    <3> QED
      BY <2>1, <3>1 DEF SessionInv, FailsOnlyOnMissing
  <2>3. CASE Deliver
    <3>1. Sending' /\ Receiving(0)' /\ Delivering' /\ Decoding' /\ InPlace(0)'
      BY <2>1, <2>3, 0 \in Nat, DeliverStep
    <3> QED
      BY <2>1, <3>1 DEF SessionInv, FailsOnlyOnMissing
  <2> QED
    BY <2>1, <2>2, <2>3
<1>5. CASE UNCHANGED sessionVars
  <2>1. /\ container' = container /\ sent' = sent /\ delivered' = delivered /\ phase' = phase
        /\ root' = root /\ reader' = reader /\ announced' = announced /\ handle' = handle /\ items' = items
    BY <1>5 DEF sessionVars, streamVars, vars
  <2>2. Live' = Live /\ Defs' = Defs /\ HandleReader' = HandleReader
    BY <2>1 DEF Live, Defs, HandleReader
  <2>3. /\ (Sending => Sending') /\ (Delivering => Delivering') /\ (More => More')
        /\ Index' = Index /\ Here(0)' = Here(0)
        /\ \A n : (Intact(n)' => Intact(n)) /\ IntactFields(n)' = IntactFields(n)
    BY <2>1, StillSent
  <2>4. Receiving(0) => Receiving(0)'
    BY <2>1 DEF Receiving, Placed
  <2>5. Decoding => Decoding'
    BY <2>1, <2>2, <2>3 DEF Decoding
  <2>6. InPlace(0) => InPlace(0)'
    BY <2>1, <2>2, <2>3 DEF InPlace
  <2>7. FailsOnlyOnMissing => FailsOnlyOnMissing'
    BY <2>1 DEF FailsOnlyOnMissing, More
  <2> QED
    BY <2>1, <2>2, <2>3, <2>4, <2>5, <2>6, <2>7 DEF SessionInv
<1> QED
  BY <1>1, <1>2, <1>3, <1>4, <1>5 DEF SessionNext

\* That of a session: a stream of which some may be missing (lib.rs:1728).
THEOREM SessionInvariance ==
  ASSUME FormatKept
  PROVE  SessionSpec => []SessionInv
BY SessionInitInv, SessionStep, PTL DEF SessionSpec

\* A consumer fails only where the schema or the next record has not arrived in full
\* (lib.rs:1728): for every container, all records and every cut.
THEOREM FailsOnlyWhereCut ==
  ASSUME FormatKept
  PROVE  SessionSpec => []FailsOnlyOnMissing
<1>1. SessionInv => FailsOnlyOnMissing
  BY DEF SessionInv
<1> QED
  BY <1>1, SessionInvariance, PTL

\* Wherever the records are cut, what the consumer has is a prefix of what was sent, right
\* in every field (lib.rs:1728).
THEOREM PrefixIsDelivered ==
  ASSUME FormatKept
  PROVE  SessionSpec => PrefixDelivered
<1>1. SessionInit => Abstract!Init
  BY SessionInitInv, StartsAbstract DEF SessionInit, SessionInv
<1>2. SessionInv /\ [SessionNext]_sessionVars => [Abstract!Deliver]_<<[i \in DOMAIN sent |-> Shown(sent[i])], delivered>>
  <2> SUFFICES ASSUME SessionInv, [SessionNext]_sessionVars PROVE [Abstract!Deliver]_<<ToShow, delivered>>
    BY DEF ToShow
  <2>1. CASE NextRecord /\ Deliver
    <3>1. Sending /\ Receiving(0) /\ Delivering /\ Decoding /\ InPlace(0)
      BY <2>1 DEF SessionInv, NextRecord
    <3>2. Abstract!Deliver
      BY <2>1, <3>1, 0 \in Nat, DeliversAbstract
    <3> QED
      BY <3>2
  <2>2. CASE UNCHANGED <<container, sent, delivered>>
    BY <2>2, StillAbstract
  <2> QED
    BY <2>1, <2>2 DEF SessionNext, ReceiveSchema, OpenRecord, Consume, ReadField, ReadNext, NextRecord,
                      ReadFields, Consumer, sessionVars, streamVars
<1> QED
  BY <1>1, <1>2, SessionInvariance, PTL DEF SessionSpec, PrefixDelivered, Abstract!Safety
=============================================================================
