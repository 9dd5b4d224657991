----------------------------- MODULE DeriveProofs -----------------------------
(***************************************************************************)
(* What wincode writes for a derived container is what the derived schema  *)
(* reads: the lemmas about Derive that the proofs about Stream and Session *)
(* rest on.                                                                *)
(***************************************************************************)
EXTENDS Derive, TyProofs

(***************************************************************************)
(* Sizes.                                                                  *)
(***************************************************************************)
Meta == {<<>>} \cup {<<n>> : n \in Nat}

Known(meta) == IF meta = <<>> THEN 0 ELSE meta[1]

LEMMA MetaType ==
  ASSUME NEW meta \in Meta
  PROVE  Known(meta) \in Nat /\ (meta # <<>> => meta = <<Known(meta)>>)
BY DEF Meta, Known

\* f[i] is the known size of the first i of metas.
Adds(f, metas, m) ==
  /\ f \in [0 .. m -> Nat]
  /\ f[0] = 0
  /\ \A i \in 1 .. m : f[i] = f[i - 1] + Known(metas[i])
  /\ KnownSize(metas) = f[m]

LEMMA KnownSizeSteps ==
  ASSUME NEW metas \in Seq(Meta)
  PROVE  \E f : Adds(f, metas, Len(metas))
<1> DEFINE m == Len(metas)
           F == [x \in (1 .. m) \X Nat |-> x[2] + Known(metas[x[1]])]
           known == CHOOSE f : f = [i \in 0 .. m |->
                      IF i = 0 THEN 0 ELSE f[i - 1] + IF metas[i] = <<>> THEN 0 ELSE metas[i][1]]
<1>1. m \in Nat /\ \A i \in 1 .. m : metas[i] \in Meta /\ Known(metas[i]) \in Nat
  BY ElementOfSeq, MetaType
<1>2. KnownSize(metas) = known[m]
  BY DEF KnownSize
<1> HIDE DEF m
<1>3. F \in [(1 .. m) \X Nat -> Nat]
  BY <1>1
<1>4. PICK g : Computes(g, m, Nat, 0, F)
  <2>1. 0 \in Nat
    OBVIOUS
  <2> HIDE DEF F
  <2> QED
    BY <1>1, <1>3, <2>1, RecursionExists, Zenon
<1>5. g \in [0 .. m -> Nat] /\ \A i \in 0 .. m : g[i] = IF i = 0 THEN 0 ELSE F[<<i, g[i - 1]>>]
  BY <1>4 DEF Computes
<1>6. \A i \in 0 .. m : g[i] = IF i = 0 THEN 0 ELSE g[i - 1] + Known(metas[i])
  <2> TAKE i \in 0 .. m
  <2>1. CASE i # 0
    <3>1. i \in 1 .. m /\ i - 1 \in 0 .. m
      BY <1>1, <2>1
    <3>2. <<i, g[i - 1]>> \in (1 .. m) \X Nat
      BY <1>5, <3>1
    <3> QED
      BY <1>5, <2>1, <3>2
  <2> QED
    BY <1>5, <2>1
<1>7. g = [i \in 0 .. m |-> IF i = 0 THEN 0 ELSE g[i - 1] + IF metas[i] = <<>> THEN 0 ELSE metas[i][1]]
  BY <1>5, <1>6 DEF Known
<1>8. known = [i \in 0 .. m |->
                 IF i = 0 THEN 0 ELSE known[i - 1] + IF metas[i] = <<>> THEN 0 ELSE metas[i][1]]
  BY <1>7
<1> HIDE DEF known
<1>9. known[0] = 0 /\ \A i \in 1 .. m : known[i] = known[i - 1] + Known(metas[i])
  <2>1. 0 \in 0 .. m /\ \A i \in 1 .. m : i \in 0 .. m /\ i # 0
    BY <1>1
  <2> QED
    BY <1>8, <2>1 DEF Known
<1>10. \A i \in 0 .. m : known[i] \in Nat
  <2> DEFINE Z == {i \in 0 .. m : known[i] \in Nat}
  <2>1. 0 \in Z
    BY <1>1, <1>9
  <2>2. ASSUME NEW i \in 0 .. m - 1, i \in Z PROVE i + 1 \in Z
    <3>1. i + 1 \in 1 .. m /\ (i + 1) - 1 = i /\ known[i] \in Nat
      BY <1>1, <2>2
    <3>2. known[i + 1] = known[i] + Known(metas[i + 1]) /\ Known(metas[i + 1]) \in Nat
      BY <1>1, <1>9, <3>1
    <3> QED
      BY <3>1, <3>2
  <2> HIDE DEF Z
  <2>3. 0 .. m \subseteq Z
    BY <1>1, <2>1, <2>2, UpTo
  <2> QED
    BY <2>3 DEF Z
<1>11. known \in [0 .. m -> Nat]
  BY <1>8, <1>10
<1> QED
  BY <1>2, <1>9, <1>11 DEF m, Adds

\* Codes as long as their metas say, where those say it, and empty where not, are
\* together as long as what is known.
LEMMA KnownSizeIsLength ==
  ASSUME NEW S, NEW s \in Seq(Seq(S)), NEW metas \in Seq(Meta), Len(s) = Len(metas),
         \A i \in 1 .. Len(s) : Len(s[i]) = Known(metas[i])
  PROVE  Len(FlattenSeq(s)) = KnownSize(metas)
<1> DEFINE m == Len(s)
<1>1. m \in Nat
  OBVIOUS
<1>2. PICK f : Adds(f, metas, m)
  BY KnownSizeSteps
<1>3. /\ Offset(s, 0) = 0 /\ Offset(s, m) = Len(FlattenSeq(s))
      /\ \A n \in 1 .. m : Offset(s, n) = Offset(s, n - 1) + Len(s[n])
  BY FlattenPlaces
<1>4. \A i \in 1 .. m : Len(s[i]) = Known(metas[i])
  OBVIOUS
<1> HIDE DEF m
<1> DEFINE Z == {i \in 0 .. m : f[i] = Offset(s, i)}
<1>5. 0 \in Z
  BY <1>1, <1>2, <1>3 DEF Adds
<1>6. ASSUME NEW i \in 0 .. m - 1, i \in Z PROVE i + 1 \in Z
  <2>1. i + 1 \in 1 .. m /\ (i + 1) - 1 = i /\ f[i] = Offset(s, i) /\ i + 1 \in 0 .. m
    BY <1>1, <1>6
  <2>2. f[i + 1] = f[i] + Known(metas[i + 1])
    BY <1>2, <2>1 DEF Adds
  <2>3. Offset(s, i + 1) = Offset(s, i) + Len(s[i + 1])
    BY <1>3, <2>1
  <2> QED
    BY <1>4, <2>1, <2>2, <2>3
<1> HIDE DEF Z
<1>7. 0 .. m \subseteq Z
  BY <1>1, <1>5, <1>6, UpTo
<1>8. m \in 0 .. m
  BY <1>1
<1>9. f[m] = Offset(s, m)
  BY <1>7, <1>8 DEF Z
<1> QED
  BY <1>2, <1>3, <1>9 DEF Adds

LEMMA KnownSizeType ==
  ASSUME NEW metas \in Seq(Meta)
  PROVE  KnownSize(metas) \in Nat /\ SumMeta(metas) \in Meta
<1>1. PICK f : Adds(f, metas, Len(metas))
  BY KnownSizeSteps
<1>2. KnownSize(metas) \in Nat
  <2>1. Len(metas) \in 0 .. Len(metas)
    OBVIOUS
  <2> QED
    BY <1>1, <2>1 DEF Adds
<1> QED
  BY <1>2 DEF SumMeta, Meta

-----------------------------------------------------------------------------
(***************************************************************************)
(* The fields a schema shows.                                              *)
(***************************************************************************)
\* f[i] is which of the first i fields are shown.
Selects(f, fs, m) ==
  /\ f \in [0 .. m -> Seq(1 .. m)]
  /\ f[0] = <<>>
  /\ \A i \in 1 .. m : f[i] = IF fs[i].skip THEN f[i - 1] ELSE Append(f[i - 1], i)
  /\ Shows(fs) = f[m]

LEMMA ShowsSteps ==
  ASSUME NEW fs, NEW m \in Nat, Len(fs) = m
  PROVE  \E f : Selects(f, fs, m)
<1> DEFINE S == Seq(1 .. m)
           F == [x \in (1 .. m) \X S |-> IF fs[x[1]].skip THEN x[2] ELSE Append(x[2], x[1])]
           shows == CHOOSE f : f = [i \in 0 .. m |->
                      IF i = 0 THEN <<>> ELSE IF fs[i].skip THEN f[i - 1] ELSE Append(f[i - 1], i)]
<1>1. Shows(fs) = shows[m]
  BY DEF Shows
<1>2. <<>> \in S /\ \A i \in 1 .. m : \A x \in S :
        (IF fs[i].skip THEN x ELSE Append(x, i)) \in S
  <2>1. \A i \in 1 .. m : \A x \in S : Append(x, i) \in S
    BY AppendProperties
  <2> QED
    BY <2>1, EmptySeq
<1> HIDE DEF S
<1>3. \A x \in (1 .. m) \X S : x[1] \in 1 .. m /\ x[2] \in S
  OBVIOUS
<1>4. F \in [(1 .. m) \X S -> S]
  BY <1>2, <1>3
<1>5. PICK g : Computes(g, m, S, <<>>, F)
  <2> HIDE DEF F
  <2> QED
    BY <1>2, <1>4, RecursionExists, Zenon
<1>6. g \in [0 .. m -> S] /\ \A i \in 0 .. m : g[i] = IF i = 0 THEN <<>> ELSE F[<<i, g[i - 1]>>]
  BY <1>5 DEF Computes
<1>7. \A i \in 0 .. m : g[i] = IF i = 0 THEN <<>>
                              ELSE IF fs[i].skip THEN g[i - 1] ELSE Append(g[i - 1], i)
  <2> TAKE i \in 0 .. m
  <2>1. CASE i # 0
    <3>1. i \in 1 .. m /\ i - 1 \in 0 .. m
      BY <2>1
    <3>2. g[i - 1] \in S /\ g[i] = F[<<i, g[i - 1]>>]
      BY <1>6, <2>1, <3>1
    <3>3. \A x \in S : F[<<i, x>>] = IF fs[i].skip THEN x ELSE Append(x, i)
      <4> TAKE x \in S
      <4>1. <<i, x>> \in (1 .. m) \X S /\ <<i, x>>[1] = i /\ <<i, x>>[2] = x
        BY <3>1
      <4>2. \A p \in (1 .. m) \X S : F[p] = IF fs[p[1]].skip THEN p[2] ELSE Append(p[2], p[1])
        OBVIOUS
      <4> HIDE DEF F
      <4> QED
        BY <4>1, <4>2
    <3> HIDE DEF F
    <3> QED
      BY <2>1, <3>2, <3>3
  <2> QED
    BY <1>6, <2>1
<1>8. g = [i \in 0 .. m |->
             IF i = 0 THEN <<>> ELSE IF fs[i].skip THEN g[i - 1] ELSE Append(g[i - 1], i)]
  BY <1>6, <1>7
<1>9. shows = [i \in 0 .. m |->
                 IF i = 0 THEN <<>> ELSE IF fs[i].skip THEN shows[i - 1] ELSE Append(shows[i - 1], i)]
  BY <1>8
<1> HIDE DEF shows
<1>10. /\ shows[0] = <<>>
       /\ \A i \in 1 .. m : shows[i] = IF fs[i].skip THEN shows[i - 1] ELSE Append(shows[i - 1], i)
  <2>1. 0 \in 0 .. m /\ \A i \in 1 .. m : i \in 0 .. m /\ i # 0
    OBVIOUS
  <2> QED
    BY <1>9, <2>1
<1>11. \A i \in 0 .. m : shows[i] \in S
  <2> DEFINE Z == {i \in 0 .. m : shows[i] \in S}
  <2>1. 0 \in Z
    BY <1>2, <1>10
  <2>2. ASSUME NEW i \in 0 .. m - 1, i \in Z PROVE i + 1 \in Z
    <3>1. i + 1 \in 1 .. m /\ (i + 1) - 1 = i /\ shows[i] \in S
      BY <2>2
    <3>2. shows[i + 1] = IF fs[i + 1].skip THEN shows[i] ELSE Append(shows[i], i + 1)
      BY <1>10, <3>1
    <3> QED
      BY <1>2, <3>1, <3>2
  <2> HIDE DEF Z
  <2>3. 0 .. m \subseteq Z
    BY <2>1, <2>2, UpTo
  <2> QED
    BY <2>3 DEF Z
<1>12. shows \in [0 .. m -> S]
  BY <1>9, <1>11
<1> QED
  BY <1>1, <1>10, <1>12 DEF Selects, S

Pick(s, is) == [j \in DOMAIN is |-> s[is[j]]]

LEMMA PickAppend ==
  ASSUME NEW S, NEW s \in Seq(S), NEW is \in Seq(1 .. Len(s)), NEW i \in 1 .. Len(s)
  PROVE  /\ Pick(s, is) \in Seq(S) /\ Len(Pick(s, is)) = Len(is)
         /\ Pick(s, Append(is, i)) = Append(Pick(s, is), s[i])
<1> DEFINE m == Len(s)
           n == Len(is)
           js == Append(is, i)
           a == Pick(s, is)
           b == Pick(s, js)
           c == Append(a, s[i])
<1>1. n \in Nat /\ DOMAIN is = 1 .. n /\ s[i] \in S
      /\ \A j \in 1 .. n : is[j] \in 1 .. m /\ s[is[j]] \in S
  BY ElementOfSeq
<1>2. js \in Seq(1 .. m) /\ Len(js) = n + 1 /\ DOMAIN js = 1 .. n + 1 /\ js[n + 1] = i
      /\ \A j \in 1 .. n : js[j] = is[j]
  OBVIOUS
<1> HIDE DEF m, n, js
<1>3. a \in Seq(S) /\ Len(a) = n /\ \A j \in 1 .. n : a[j] = s[is[j]]
  BY <1>1 DEF Pick
<1>4. \A j \in 1 .. n + 1 : s[js[j]] \in S
  <2> TAKE j \in 1 .. n + 1
  <2>1. j = n + 1 \/ j \in 1 .. n
    BY <1>1
  <2> QED
    BY <1>1, <1>2, <2>1
<1>5. b \in Seq(S) /\ Len(b) = n + 1 /\ \A j \in 1 .. n + 1 : b[j] = s[js[j]]
  BY <1>1, <1>2, <1>4 DEF Pick
<1> HIDE DEF a, b
<1>6. c \in Seq(S) /\ Len(c) = n + 1 /\ (\A j \in 1 .. n : c[j] = a[j]) /\ c[n + 1] = s[i]
  BY <1>1, <1>3, AppendProperties
<1> HIDE DEF c
<1>7. \A j \in 1 .. n + 1 : b[j] = c[j]
  <2> TAKE j \in 1 .. n + 1
  <2>1. j = n + 1 \/ j \in 1 .. n
    BY <1>1
  <2> QED
    BY <1>1, <1>2, <1>3, <1>5, <1>6, <2>1
<1>8. b = c
  BY <1>5, <1>6, <1>7, SeqEqual
<1> QED
  BY <1>3, <1>8 DEF a, b, c, js, n

LEMMA ShowsResult ==
  ASSUME NEW fs, NEW m \in Nat, Len(fs) = m
  PROVE  /\ Shows(fs) \in Seq(1 .. m)
         /\ \A j \in 1 .. Len(Shows(fs)) : ~fs[Shows(fs)[j]].skip
<1>1. PICK f : Selects(f, fs, m)
  BY ShowsSteps
<1> DEFINE Z == {i \in 0 .. m : \A j \in 1 .. Len(f[i]) : ~fs[f[i][j]].skip}
<1>2. 0 \in Z
  BY <1>1, EmptySeq DEF Selects
<1>3. ASSUME NEW i \in 0 .. m - 1, i \in Z PROVE i + 1 \in Z
  <2>1. i + 1 \in 1 .. m /\ (i + 1) - 1 = i /\ i \in 0 .. m /\ i + 1 \in 0 .. m
        /\ \A j \in 1 .. Len(f[i]) : ~fs[f[i][j]].skip
    BY <1>3
  <2>2. f[i] \in Seq(1 .. m)
        /\ f[i + 1] = IF fs[i + 1].skip THEN f[i] ELSE Append(f[i], i + 1)
    BY <1>1, <2>1 DEF Selects
  <2>3. \A j \in 1 .. Len(f[i + 1]) : ~fs[f[i + 1][j]].skip
    <3>1. CASE fs[i + 1].skip
      BY <2>1, <2>2, <3>1
    <3>2. CASE ~fs[i + 1].skip
      <4> DEFINE n == Len(f[i])
      <4>1. n \in Nat /\ Len(f[i + 1]) = n + 1 /\ f[i + 1][n + 1] = i + 1
            /\ \A j \in 1 .. n : f[i + 1][j] = f[i][j]
        BY <2>1, <2>2, <3>2, AppendProperties
      <4> HIDE DEF n
      <4> TAKE j \in 1 .. Len(f[i + 1])
      <4>2. j = n + 1 \/ j \in 1 .. n
        BY <4>1
      <4> QED
        BY <2>1, <3>2, <4>1, <4>2 DEF n
    <3> QED
      BY <3>1, <3>2
  <2> QED
    BY <2>1, <2>3
<1> HIDE DEF Z
<1>4. 0 .. m \subseteq Z
  BY <1>2, <1>3, UpTo
<1>5. m \in 0 .. m
  OBVIOUS
<1>6. m \in Z
  BY <1>4, <1>5
<1> QED
  BY <1>1, <1>5, <1>6 DEF Z, Selects

\* Codes that are empty for every field that is skipped need not be looked at there.
LEMMA ShownCodes ==
  ASSUME NEW S, NEW s \in Seq(Seq(S)), NEW fs, Len(fs) = Len(s),
         \A i \in 1 .. Len(s) : fs[i].skip => s[i] = <<>>
  PROVE  FlattenSeq(Pick(s, Shows(fs))) = FlattenSeq(s)
<1> DEFINE m == Len(s)
<1>1. m \in Nat
  OBVIOUS
<1>2. PICK f : Selects(f, fs, m)
  BY <1>1, ShowsSteps
<1>3. Joined(s, m) = FlattenSeq(s)
  BY FlattenPlaces
<1>4. \A i \in 1 .. m : fs[i].skip => s[i] = <<>>
  OBVIOUS
<1> DEFINE Z == {i \in 0 .. m : FlattenSeq(Pick(s, f[i])) = Joined(s, i)}
<1>5. 0 \in Z
  <2>1. 0 \in 0 .. m /\ f[0] = <<>>
    BY <1>1, <1>2 DEF Selects
  <2>2. DOMAIN f[0] = {}
    BY <2>1
  <2>3. Pick(s, f[0]) = <<>>
    BY <2>2 DEF Pick
  <2>4. 1 \in Int /\ 0 \in Int /\ 0 < 1
    OBVIOUS
  <2>5. SubSeq(s, 1, 0) = <<>>
    BY <2>4, SubSeqEmpty
  <2> QED
    BY <2>1, <2>3, <2>5 DEF Joined
<1>6. ASSUME NEW i \in 0 .. m - 1, i \in Z PROVE i + 1 \in Z
  <2>1. i + 1 \in 1 .. m /\ (i + 1) - 1 = i /\ i \in 0 .. m /\ i + 1 \in 0 .. m
        /\ FlattenSeq(Pick(s, f[i])) = Joined(s, i)
    BY <1>6
  <2>2. f[i] \in Seq(1 .. m)
        /\ f[i + 1] = IF fs[i + 1].skip THEN f[i] ELSE Append(f[i], i + 1)
    BY <1>2, <2>1 DEF Selects
  <2>3. /\ Joined(s, i) \in Seq(S) /\ s[i + 1] \in Seq(S)
        /\ Joined(s, i + 1) = Joined(s, i) \o s[i + 1]
    BY <2>1, JoinedStep
  <2> HIDE DEF Z
  <2>4. FlattenSeq(Pick(s, f[i + 1])) = Joined(s, i + 1)
    <3>1. CASE fs[i + 1].skip
      <4>1. s[i + 1] = <<>> /\ f[i + 1] = f[i]
        BY <1>4, <2>1, <2>2, <3>1
      <4>2. Joined(s, i) \o <<>> = Joined(s, i)
        BY <2>3, ConcatEmptySeq
      <4> QED
        BY <2>1, <2>3, <4>1, <4>2
    <3>2. CASE ~fs[i + 1].skip
      <4>1. f[i + 1] = Append(f[i], i + 1)
        BY <2>2, <3>2
      <4>2. Pick(s, f[i]) \in Seq(Seq(S)) /\ Pick(s, f[i + 1]) = Append(Pick(s, f[i]), s[i + 1])
        <5> DEFINE T == Seq(S)
        <5>1. s \in Seq(T) /\ f[i] \in Seq(1 .. Len(s)) /\ i + 1 \in 1 .. Len(s)
          BY <2>1, <2>2
        <5> HIDE DEF T
        <5>2. Pick(s, f[i]) \in Seq(T) /\ Pick(s, Append(f[i], i + 1)) = Append(Pick(s, f[i]), s[i + 1])
          BY <5>1, PickAppend
        <5> QED
          BY <4>1, <5>2 DEF T
      <4> QED
        BY <2>1, <2>3, <4>2, FlattenAppend
    <3> QED
      BY <3>1, <3>2
  <2> QED
    BY <2>1, <2>4 DEF Z
<1> HIDE DEF Z
<1>7. 0 .. m \subseteq Z
  BY <1>1, <1>5, <1>6, UpTo
<1>8. m \in 0 .. m
  BY <1>1
<1>9. m \in Z
  BY <1>7, <1>8
<1> QED
  BY <1>2, <1>3, <1>9 DEF Z, Selects

-----------------------------------------------------------------------------
(***************************************************************************)
(* What wincode writes is read back.                                       *)
(***************************************************************************)
LEMMA ReadLenWritten ==
  ASSUME NEW n \in Usize, n < Span(LenWidth), NEW r, Placed(r),
         Begins(r, LittleEndian(n, LenWidth))
  PROVE  ReadLen(r) = Ok(n, r.pos + LenWidth)
<1> DEFINE bs == LittleEndian(n, LenWidth)
<1>1. LenWidth \in Nat /\ n \in Int /\ n \in 0 .. UsizeMax /\ n >= 0 /\ UsizeMax \in Nat
  BY WincodeAssumption DEF Usize
<1>2. bs \in Seq(Byte) /\ Len(bs) = LenWidth
  BY <1>1, LittleEndianType
<1>3. Take(r, LenWidth) = Ok(bs, r.pos + LenWidth)
  BY <1>2, TakeBegins
<1>4. n \in 0 .. Span(LenWidth) - 1
  BY <1>1, SpanStep
<1>5. Unsigned(bs) = n
  BY <1>1, <1>4, ReadWhatWasWritten
<1> HIDE DEF bs
<1> QED
  BY <1>1, <1>3, <1>5 DEF ReadLen, Ok

LEMMA OkParts ==
  ASSUME NEW v, NEW p
  PROVE  Ok(v, p).ok /\ Ok(v, p).val = v /\ Ok(v, p).pos = p /\ Ok(v, p).left = {p}
BY DEF Ok

\* A reader that need not copy bs, or may.
MayRead(r, bs) == r.borrows \/ Len(bs) <= PreallocLimit

LEMMA ReadBytePayloadWritten ==
  ASSUME NEW r, Placed(r), NEW bs \in Seq(Byte), Begins(r, bs), MayRead(r, bs)
  PROVE  ReadBytePayload(Len(bs), r) = Ok(bs, r.pos + Len(bs))
<1>1. Take(r, Len(bs)) = Ok(bs, r.pos + Len(bs))
  BY TakeBegins
<1>2. r.borrows \/ PreallocCheck(Len(bs), 1)
  BY WincodeAssumption DEF MayRead, PreallocCheck
<1> QED
  BY <1>1, <1>2 DEF ReadBytePayload

LEMMA ReadPrimitivePayloadWritten ==
  ASSUME NEW p \in PrimitiveTy, NEW len \in Usize, NEW r, Placed(r), NEW bs \in Seq(Byte),
         Len(bs) = len * PrimitiveSize(p), Len(bs) \in Usize, Begins(r, bs), MayRead(r, bs)
  PROVE  ReadPrimitivePayload(p, len, r) =
           Ok([k |-> "Vec", ty |-> p, len |-> len, raw |-> bs, owned |-> ~r.borrows], r.pos + Len(bs))
<1> DEFINE byteLen == CheckedMul(len, PrimitiveSize(p))
           o == ReadBytePayload(byteLen[1], r)
<1>1. byteLen = <<Len(bs)>>
  BY DEF CheckedMul
<1>2. ReadBytePayload(Len(bs), r) = Ok(bs, r.pos + Len(bs))
  BY ReadBytePayloadWritten
<1>3. byteLen # <<>> /\ byteLen[1] = Len(bs)
  BY <1>1
<1>4. ReadPrimitivePayload(p, len, r) =
        IF byteLen = <<>> THEN Err("LengthEncodingOverflow", r, {r.pos})
        ELSE IF ~o.ok THEN o
        ELSE Ok([k |-> "Vec", ty |-> p, len |-> len, raw |-> o.val, owned |-> ~r.borrows], o.pos)
  BY DEF ReadPrimitivePayload
<1>5. o.ok /\ o.val = bs /\ o.pos = r.pos + Len(bs)
  BY <1>2, <1>3, OkParts
<1> HIDE DEF byteLen, o
<1> QED
  BY <1>3, <1>4, <1>5

\* A length prefix in front of what it counts.
LEMMA ReadPrefixWritten ==
  ASSUME NEW n \in Usize, n < Span(LenWidth), NEW bs \in Seq(Byte), NEW r, Placed(r),
         Begins(r, LittleEndian(n, LenWidth) \o bs)
  PROVE  /\ ReadLen(r) = Ok(n, r.pos + LenWidth)
         /\ Placed(At(r, r.pos + LenWidth)) /\ Begins(At(r, r.pos + LenWidth), bs)
         /\ At(r, r.pos + LenWidth).pos = r.pos + LenWidth
         /\ At(r, r.pos + LenWidth).borrows = r.borrows
         /\ Len(LittleEndian(n, LenWidth) \o bs) = LenWidth + Len(bs)
<1>1. LenWidth \in Nat /\ n \in Int
  BY WincodeAssumption DEF Usize
<1> DEFINE a == LittleEndian(n, LenWidth)
<1>2. a \in Seq(Byte) /\ Len(a) = LenWidth
  BY <1>1, LittleEndianType
<1>3. Begins(r, a) /\ r.pos + Len(a) \in r.pos .. Len(r.buf)
      /\ Placed(At(r, r.pos + Len(a))) /\ Begins(At(r, r.pos + Len(a)), bs)
  BY <1>2, BeginsConcat
<1>4. ReadLen(r) = Ok(n, r.pos + LenWidth)
  BY <1>3, ReadLenWritten
<1>5. Len(a \o bs) = Len(a) + Len(bs)
  BY <1>2, ConcatProperties
<1> QED
  BY <1>2, <1>3, <1>4, <1>5, AtResult

LEMMA ReadCowBytesWritten ==
  ASSUME NEW bs \in Seq(Byte), Len(bs) \in Usize, Len(bs) < Span(LenWidth), NEW r, Placed(r),
         Begins(r, LittleEndian(Len(bs), LenWidth) \o bs), MayRead(r, bs)
  PROVE  ReadCowBytes(r) = Ok(bs, r.pos + LenWidth + Len(bs))
<1> DEFINE q == At(r, r.pos + LenWidth)
<1>1. ReadLen(r) = Ok(Len(bs), r.pos + LenWidth) /\ Placed(q) /\ Begins(q, bs) /\ q.pos = r.pos + LenWidth
  BY ReadPrefixWritten
<1> HIDE DEF q
<1>2. Take(q, Len(bs)) = Ok(bs, q.pos + Len(bs))
  BY <1>1, TakeBegins
<1>3. ReadLen(r).ok /\ ReadLen(r).val = Len(bs) /\ ReadLen(r).pos = r.pos + LenWidth
  BY <1>1, OkParts
<1>4. r.borrows \/ PreallocCheck(Len(bs), 1)
  BY WincodeAssumption DEF MayRead, PreallocCheck
<1> QED
  BY <1>1, <1>2, <1>3, <1>4 DEF ReadCowBytes, q

LEMMA ParseVecWritten ==
  ASSUME NEW p \in PrimitiveTy, NEW len \in Usize, len < Span(LenWidth), NEW r, Placed(r),
         NEW bs \in Seq(Byte), Len(bs) = len * PrimitiveSize(p), Len(bs) \in Usize,
         Begins(r, LittleEndian(len, LenWidth) \o bs), MayRead(r, bs)
  PROVE  ParseVec(p, r) =
           Ok([k |-> "Vec", ty |-> p, len |-> len, raw |-> bs, owned |-> ~r.borrows],
              r.pos + LenWidth + Len(bs))
<1> DEFINE q == At(r, r.pos + LenWidth)
<1>1. /\ ReadLen(r) = Ok(len, r.pos + LenWidth)
      /\ Placed(q) /\ Begins(q, bs) /\ q.pos = r.pos + LenWidth /\ q.borrows = r.borrows
  BY ReadPrefixWritten
<1> HIDE DEF q
<1>2. MayRead(q, bs)
  BY <1>1 DEF MayRead
<1>3. ReadPrimitivePayload(p, len, q) =
        Ok([k |-> "Vec", ty |-> p, len |-> len, raw |-> bs, owned |-> ~q.borrows], q.pos + Len(bs))
  BY <1>1, <1>2, ReadPrimitivePayloadWritten
<1>4. ReadLen(r).ok /\ ReadLen(r).val = len /\ ReadLen(r).pos = r.pos + LenWidth
  BY <1>1, OkParts
<1> QED
  BY <1>1, <1>3, <1>4 DEF ParseVec, q

\* The widths of a type agree on both sides, and only bytes are read as such.
LEMMA DynPrimitiveTyType ==
  ASSUME NEW p \in RustPrimitive
  PROVE  /\ DynPrimitiveTy[p] \in PrimitiveTy /\ SizeOf(p) = PrimitiveSize(DynPrimitiveTy[p])
         /\ SizeOf(p) \in {1, 2, 4, 8} /\ (DynPrimitiveTy[p] = "U8") = (p = "u8")
BY DEF RustPrimitive, DynPrimitiveTy, PrimitiveTy, SizeOf, PrimitiveSize

\* o is the outcome of reading v, which is written as w, from r.
ReadsBack(o, r, v, w) ==
  o.ok /\ o.pos = r.pos + Len(w) /\ o.left = {o.pos} /\ Plain(o.val) = v

Copiable(r, v) == v.k = "Primitive" \/ MayRead(r, v.raw)

LEMMA ParsePrimitiveWritten ==
  ASSUME NEW p \in RustPrimitive, NEW v, NEW r, Placed(r),
         LET t == [k |-> "primitive", ty |-> p] IN Holds(t, v) /\ Begins(r, Write(t, v, 1))
  PROVE  LET t == [k |-> "primitive", ty |-> p] IN ReadsBack(Parse(TYPE(t), r), r, v, Write(t, v, 1))
<1> DEFINE t == [k |-> "primitive", ty |-> p]
           d == DynPrimitiveTy[p]
           w == LittleEndian(v.n, PrimitiveSize(d))
           o == Parse(TYPE(t), r)
<1>1. d \in PrimitiveTy /\ SizeOf(p) = PrimitiveSize(d) /\ PrimitiveSize(d) \in Nat
  BY DynPrimitiveTyType, PrimitiveSizeType
<1>2. o = ReadPrimitive(d, r)
  BY DEF Parse, TYPE
<1>3. v \in [k : {"Primitive"}, ty : {d}, n : Int] /\ InRange(v.ty, v.n)
  BY DEF Holds
<1>4. v = [k |-> "Primitive", ty |-> d, n |-> v.n] /\ v.n \in Int /\ InRange(d, v.n) /\ Plain(v) = v
  BY <1>3 DEF Plain
<1>5. Write(t, v, 1) = w
  <2>1. Write(t, v, 1) = LittleEndian(v.n, 1 * SizeOf(p))
    BY DEF Write
  <2>2. 1 * SizeOf(p) = PrimitiveSize(d)
    BY <1>1
  <2> QED
    BY <2>1, <2>2
<1>6. Begins(r, w) /\ Len(w) = PrimitiveSize(d)
  BY <1>1, <1>4, <1>5, LittleEndianType
<1> HIDE DEF o, d, w
<1>7. o = Ok(v, r.pos + Len(w))
  BY <1>1, <1>2, <1>4, <1>6, ReadPrimitiveWritten DEF w
<1> QED
  BY <1>4, <1>5, <1>7, OkParts DEF ReadsBack, o

LEMMA PlainPayload ==
  ASSUME NEW k, k # "Primitive", NEW raw, NEW own
  PROVE  LET v == [k |-> k, raw |-> raw, owned |-> own]
         IN  v.k = k /\ Plain(v) = [k |-> k, raw |-> raw, owned |-> FALSE]
BY DEF Plain

LEMMA PlainElements ==
  ASSUME NEW p, NEW len, NEW raw, NEW own
  PROVE  LET v == [k |-> "Vec", ty |-> p, len |-> len, raw |-> raw, owned |-> own]
         IN  Plain(v) = [k |-> "Vec", ty |-> p, len |-> len, raw |-> raw, owned |-> FALSE]
BY DEF Plain

\* The disjoint cases of what wincode writes under DefaultConfig.
LEMMA WriteParts ==
  ASSUME NEW t, NEW v
  PROVE  /\ t.k = "primitive" => Write(t, v, 1) = LittleEndian(v.n, 1 * SizeOf(t.ty))
         /\ t.k \in {"String", "Vec"} =>
              Write(t, v, 1) = LittleEndian(IF v.k = "Vec" THEN v.len ELSE Len(v.raw), LenWidth) \o v.raw
         /\ t.k = "Array" => Write(t, v, 1) = v.raw
<1>1. 1 * LenWidth = LenWidth
  BY WincodeAssumption
<1> QED
  BY <1>1 DEF Write

LEMMA InCowWritten ==
  ASSUME NEW k \in {"String", "Bytes"}, NEW bs, NEW p, NEW r
  PROVE  LET o == InCow(k, Ok(bs, p), r)
         IN  /\ o.ok /\ o.pos = p /\ o.left = {p}
             /\ Plain(o.val) = [k |-> k, raw |-> bs, owned |-> FALSE]
<1> DEFINE v == [k |-> k, raw |-> bs, owned |-> ~r.borrows]
<1>1. InCow(k, Ok(bs, p), r) = Ok(v, p)
  BY OkParts DEF InCow
<1>2. k # "Primitive"
  OBVIOUS
<1>3. Plain(v) = [k |-> k, raw |-> bs, owned |-> FALSE]
  BY <1>2, PlainPayload, Zenon
<1> HIDE DEF v
<1> DEFINE o == InCow(k, Ok(bs, p), r)
<1>4. o.ok /\ o.val = v /\ o.pos = p /\ o.left = {p}
  BY <1>1, OkParts
<1> QED
  BY <1>3, <1>4

LEMMA PayloadParts ==
  ASSUME NEW t \in RustTy, t.k # "primitive", NEW v, Holds(t, v)
  PROVE  /\ v.raw \in Seq(Byte) /\ Len(v.raw) \in Usize
         /\ IF t.k = "String" THEN v = [k |-> "String", raw |-> v.raw, owned |-> FALSE] /\ ValidUtf8(v.raw)
            ELSE IF t.ty = "u8" THEN v = [k |-> "Bytes", raw |-> v.raw, owned |-> FALSE]
            ELSE /\ v = [k |-> "Vec", ty |-> DynPrimitiveTy[t.ty], len |-> v.len, raw |-> v.raw, owned |-> FALSE]
                 /\ v.len \in Usize /\ Len(v.raw) = v.len * SizeOf(t.ty)
         /\ LET count == IF v.k = "Vec" THEN v.len ELSE Len(v.raw)
            IN  IF t.k = "Array" THEN count = t.len ELSE count < Span(LenWidth)
<1>1. CASE t.k = "String"
  BY <1>1 DEF Holds
<1>2. CASE t.k # "String" /\ t.ty = "u8"
  BY <1>2 DEF Holds
<1>3. CASE t.k # "String" /\ t.ty # "u8"
  BY <1>3 DEF Holds
<1> QED
  BY <1>1, <1>2, <1>3

LEMMA ParseStringWritten ==
  ASSUME NEW v, NEW r, Placed(r), Copiable(r, v),
         LET t == [k |-> "String"] IN Holds(t, v) /\ Begins(r, Write(t, v, 1))
  PROVE  LET t == [k |-> "String"] IN ReadsBack(Parse(TYPE(t), r), r, v, Write(t, v, 1))
<1> DEFINE t == [k |-> "String"]
           bs == v.raw
           w == LittleEndian(Len(bs), LenWidth) \o bs
           o == Parse(TYPE(t), r)
<1>1. /\ bs \in Seq(Byte) /\ Len(bs) \in Usize /\ v = [k |-> "String", raw |-> bs, owned |-> FALSE]
      /\ ValidUtf8(bs) /\ Len(bs) < Span(LenWidth)
  <2>1. t \in RustTy /\ t.k = "String" /\ t.k # "primitive" /\ t.k # "Array"
    BY DEF RustTy
  <2> HIDE DEF t
  <2>2. /\ v.raw \in Seq(Byte) /\ Len(v.raw) \in Usize
        /\ v = [k |-> "String", raw |-> v.raw, owned |-> FALSE] /\ ValidUtf8(v.raw)
        /\ LET count == IF v.k = "Vec" THEN v.len ELSE Len(v.raw) IN count < Span(LenWidth)
    BY <2>1, PayloadParts DEF t
  <2>3. v.k # "Vec"
    BY <2>2
  <2> QED
    BY <2>2, <2>3
<1>2. LenWidth \in Nat /\ 1 * LenWidth = LenWidth
  BY WincodeAssumption
<1>3. Write(t, v, 1) = w
  <2>1. t.k = "String" /\ v.k # "Vec"
    BY <1>1
  <2> HIDE DEF t
  <2> QED
    BY <2>1, WriteParts
<1>4. o = InCow("String", ReadCowStr(r), r)
  BY DEF Parse, TYPE
<1>5. MayRead(r, bs)
  BY <1>1 DEF Copiable
<1>6. ReadCowBytes(r) = Ok(bs, r.pos + LenWidth + Len(bs))
  BY <1>1, <1>3, <1>5, ReadCowBytesWritten
<1>7. ReadCowStr(r) = Ok(bs, r.pos + LenWidth + Len(bs))
  BY <1>1, <1>6, OkParts DEF ReadCowStr
<1>8. Len(w) = LenWidth + Len(bs)
  BY <1>1, <1>3, ReadPrefixWritten
<1>9. r.pos \in Nat /\ Len(bs) \in Nat
  BY <1>1 DEF Placed, Reader
<1> HIDE DEF o, w
<1>10. o.ok /\ o.pos = r.pos + LenWidth + Len(bs) /\ o.left = {r.pos + LenWidth + Len(bs)} /\ Plain(o.val) = v
  BY <1>1, <1>4, <1>7, InCowWritten
<1> QED
  BY <1>2, <1>3, <1>8, <1>9, <1>10 DEF ReadsBack, o

LEMMA ParseBytesWritten ==
  ASSUME NEW t \in RustTy, t.k \in {"Vec", "Array"}, t.ty = "u8", NEW v, NEW r, Placed(r),
         Copiable(r, v), Holds(t, v), Begins(r, Write(t, v, 1))
  PROVE  ReadsBack(Parse(TYPE(t), r), r, v, Write(t, v, 1))
<1> DEFINE bs == v.raw
           o == Parse(TYPE(t), r)
<1>1. /\ bs \in Seq(Byte) /\ Len(bs) \in Usize /\ v = [k |-> "Bytes", raw |-> bs, owned |-> FALSE]
      /\ IF t.k = "Array" THEN Len(bs) = t.len ELSE Len(bs) < Span(LenWidth)
  <2>1. t.k # "primitive" /\ t.k # "String"
    OBVIOUS
  <2>2. /\ v.raw \in Seq(Byte) /\ Len(v.raw) \in Usize
        /\ v = [k |-> "Bytes", raw |-> v.raw, owned |-> FALSE]
        /\ LET count == IF v.k = "Vec" THEN v.len ELSE Len(v.raw)
           IN  IF t.k = "Array" THEN count = t.len ELSE count < Span(LenWidth)
    BY <2>1, PayloadParts
  <2>3. v.k # "Vec"
    BY <2>2
  <2> QED
    BY <2>2, <2>3
<1>2. LenWidth \in Nat /\ 1 * LenWidth = LenWidth /\ DynPrimitiveTy["u8"] = "U8"
  BY WincodeAssumption DEF DynPrimitiveTy
<1>3. MayRead(r, bs)
  BY <1>1 DEF Copiable
<1>4. r.pos \in Nat /\ Len(bs) \in Nat
  BY <1>1 DEF Placed, Reader
<1>5. CASE t.k = "Vec"
  <2> DEFINE w == LittleEndian(Len(bs), LenWidth) \o bs
  <2>1. Write(t, v, 1) = w
    BY <1>1, <1>5, WriteParts
  <2>2. o = InCow("Bytes", ReadCowBytes(r), r)
    BY <1>2, <1>5 DEF Parse, TYPE
  <2>3. ReadCowBytes(r) = Ok(bs, r.pos + LenWidth + Len(bs))
    BY <1>1, <1>3, <1>5, <2>1, ReadCowBytesWritten
  <2>4. Len(w) = LenWidth + Len(bs)
    BY <1>1, <1>5, <2>1, ReadPrefixWritten
  <2> HIDE DEF o, w
  <2>5. o.ok /\ o.pos = r.pos + LenWidth + Len(bs) /\ o.left = {r.pos + LenWidth + Len(bs)} /\ Plain(o.val) = v
    BY <1>1, <2>2, <2>3, InCowWritten
  <2> QED
    BY <1>2, <1>4, <2>1, <2>4, <2>5 DEF ReadsBack, o
<1>6. CASE t.k = "Array"
  <2>1. Write(t, v, 1) = bs
    BY <1>6, WriteParts
  <2>2. o = InCow("Bytes", ReadBytePayload(t.len, r), r)
    BY <1>2, <1>6 DEF Parse, TYPE
  <2>3. ReadBytePayload(t.len, r) = Ok(bs, r.pos + Len(bs))
    BY <1>1, <1>3, <1>6, <2>1, ReadBytePayloadWritten
  <2> HIDE DEF o
  <2>5. o.ok /\ o.pos = r.pos + Len(bs) /\ o.left = {r.pos + Len(bs)} /\ Plain(o.val) = v
    BY <1>1, <2>2, <2>3, InCowWritten
  <2> QED
    BY <2>1, <2>5 DEF ReadsBack, o
<1> QED
  BY <1>5, <1>6

LEMMA ParseElementsWritten ==
  ASSUME NEW t \in RustTy, t.k \in {"Vec", "Array"}, t.ty # "u8", NEW v, NEW r, Placed(r),
         Copiable(r, v), Holds(t, v), Begins(r, Write(t, v, 1))
  PROVE  ReadsBack(Parse(TYPE(t), r), r, v, Write(t, v, 1))
<1> DEFINE bs == v.raw
           len == v.len
           d == DynPrimitiveTy[t.ty]
           o == Parse(TYPE(t), r)
           own == [k |-> "Vec", ty |-> d, len |-> len, raw |-> bs, owned |-> ~r.borrows]
<1>1. /\ bs \in Seq(Byte) /\ Len(bs) \in Usize
      /\ v = [k |-> "Vec", ty |-> d, len |-> len, raw |-> bs, owned |-> FALSE]
      /\ len \in Usize /\ Len(bs) = len * SizeOf(t.ty)
      /\ IF t.k = "Array" THEN len = t.len ELSE len < Span(LenWidth)
  <2>1. t.k # "primitive" /\ t.k # "String"
    OBVIOUS
  <2>2. /\ v.raw \in Seq(Byte) /\ Len(v.raw) \in Usize
        /\ v = [k |-> "Vec", ty |-> d, len |-> v.len, raw |-> v.raw, owned |-> FALSE]
        /\ v.len \in Usize /\ Len(v.raw) = v.len * SizeOf(t.ty)
        /\ LET count == IF v.k = "Vec" THEN v.len ELSE Len(v.raw)
           IN  IF t.k = "Array" THEN count = t.len ELSE count < Span(LenWidth)
    BY <2>1, PayloadParts
  <2>3. v.k = "Vec"
    BY <2>2
  <2> QED
    BY <2>2, <2>3
<1>2. LenWidth \in Nat /\ 1 * LenWidth = LenWidth
  BY WincodeAssumption
<1>3. MayRead(r, bs)
  BY <1>1 DEF Copiable
<1>4. r.pos \in Nat /\ Len(bs) \in Nat
  BY <1>1 DEF Placed, Reader
<1>5. t.ty \in RustPrimitive
  BY DEF RustTy
<1>6. d \in PrimitiveTy /\ SizeOf(t.ty) = PrimitiveSize(d) /\ d # "U8"
  BY <1>5, DynPrimitiveTyType
<1>7. Plain(own) = v
  BY <1>1, PlainElements
<1>8. CASE t.k = "Vec"
  <2> DEFINE w == LittleEndian(len, LenWidth) \o bs
  <2>1. Write(t, v, 1) = w
    <3>1. v.k = "Vec"
      BY <1>1
    <3> QED
      BY <1>8, <3>1, WriteParts
  <2>2. o = ParseVec(d, r)
    BY <1>6, <1>8 DEF Parse, TYPE
  <2>3. ParseVec(d, r) = Ok(own, r.pos + LenWidth + Len(bs))
    <3>1. /\ d \in PrimitiveTy /\ len \in Usize /\ len < Span(LenWidth) /\ bs \in Seq(Byte)
          /\ Len(bs) = len * PrimitiveSize(d) /\ Len(bs) \in Usize
      BY <1>1, <1>6, <1>8
    <3>2. Begins(r, w) /\ MayRead(r, bs)
      BY <1>3, <2>1
    <3> HIDE DEF d, len, bs
    <3> QED
      BY <3>1, <3>2, ParseVecWritten
  <2>4. Len(w) = LenWidth + Len(bs)
    BY <1>1, <1>8, <2>1, ReadPrefixWritten
  <2> HIDE DEF o, w, own
  <2> QED
    BY <1>2, <1>4, <1>7, <2>1, <2>2, <2>3, <2>4, OkParts DEF ReadsBack, o
<1>9. CASE t.k = "Array"
  <2>1. Write(t, v, 1) = bs
    BY <1>9, WriteParts
  <2>2. o = ReadPrimitivePayload(d, t.len, r)
    BY <1>6, <1>9 DEF Parse, TYPE
  <2>3. ReadPrimitivePayload(d, t.len, r) = Ok(own, r.pos + Len(bs))
    <3>1. /\ d \in PrimitiveTy /\ len \in Usize /\ len = t.len /\ bs \in Seq(Byte)
          /\ Len(bs) = len * PrimitiveSize(d) /\ Len(bs) \in Usize
      BY <1>1, <1>6, <1>9
    <3>2. Begins(r, bs) /\ MayRead(r, bs)
      BY <1>3, <2>1
    <3> HIDE DEF d, len, bs
    <3> QED
      BY <3>1, <3>2, ReadPrimitivePayloadWritten
  <2> HIDE DEF o, own
  <2> QED
    BY <1>7, <2>1, <2>2, <2>3, OkParts DEF ReadsBack, o
<1> QED
  BY <1>8, <1>9

\* Every value that wincode writes is read back by the runtime type of its Rust type,
\* whoever owns the payload then, and exactly its bytes are consumed: the two
\* implementations of the format, DynTy's and wincode's, agree.
THEOREM ParseWritten ==
  ASSUME NEW t \in RustTy, NEW v, Holds(t, v), NEW r, Placed(r), Copiable(r, v),
         Begins(r, Write(t, v, 1))
  PROVE  ReadsBack(Parse(TYPE(t), r), r, v, Write(t, v, 1))
<1>1. CASE t.k = "primitive"
  <2>1. t = [k |-> "primitive", ty |-> t.ty] /\ t.ty \in RustPrimitive
    BY <1>1 DEF RustTy
  <2> DEFINE p == t.ty
  <2>2. t = [k |-> "primitive", ty |-> p] /\ p \in RustPrimitive
    BY <2>1
  <2> HIDE DEF p
  <2> QED
    BY <2>2, ParsePrimitiveWritten
<1>2. CASE t.k = "String"
  <2>1. t = [k |-> "String"]
    BY <1>2 DEF RustTy
  <2> QED
    BY <2>1, ParseStringWritten
<1>3. CASE t.k \in {"Vec", "Array"}
  BY <1>3, ParseBytesWritten, ParseElementsWritten
<1> QED
  BY <1>1, <1>2, <1>3 DEF RustTy

-----------------------------------------------------------------------------
(***************************************************************************)
(* Codes of fields and records, and how long they are.                     *)
(***************************************************************************)
LEMMA TypeMetaType ==
  ASSUME NEW t \in RustTy
  PROVE  /\ TYPE(t) \in DynTy /\ TypeMeta(t) \in Meta
         /\ t.k = "primitive" => t.ty \in RustPrimitive /\ TypeMeta(t) = <<SizeOf(t.ty)>>
         /\ t.k \in {"String", "Vec"} => TypeMeta(t) = <<>>
         /\ t.k = "Array" => /\ t.ty \in RustPrimitive /\ t.len \in Usize
                             /\ TypeMeta(t) = <<SizeOf(t.ty) * t.len>>
<1>1. UsizeMax \in Nat
  BY WincodeAssumption
<1>2. CASE t.k = "primitive"
  <2>1. t.ty \in RustPrimitive
    BY <1>2 DEF RustTy
  <2>2. SizeOf(t.ty) \in Nat /\ DynPrimitiveTy[t.ty] \in PrimitiveTy
    BY <2>1, DynPrimitiveTyType
  <2> QED
    BY <1>2, <2>1, <2>2 DEF TypeMeta, TYPE, DynTy, Meta
<1>3. CASE t.k = "String"
  BY <1>3 DEF TypeMeta, TYPE, DynTy, Meta
<1>4. CASE t.k = "Vec"
  <2>1. t.ty \in RustPrimitive
    BY <1>4 DEF RustTy
  <2>2. DynPrimitiveTy[t.ty] \in PrimitiveTy
    BY <2>1, DynPrimitiveTyType
  <2> QED
    BY <1>4, <2>2 DEF TypeMeta, TYPE, DynTy, Meta
<1>5. CASE t.k = "Array"
  <2>1. t.ty \in RustPrimitive /\ t.len \in Usize
    BY <1>5 DEF RustTy
  <2>2. SizeOf(t.ty) \in Nat /\ DynPrimitiveTy[t.ty] \in PrimitiveTy
    BY <2>1, DynPrimitiveTyType
  <2>3. SizeOf(t.ty) * t.len \in Nat
    BY <1>1, <2>1, <2>2 DEF Usize
  <2>4. TypeMeta(t) = <<SizeOf(t.ty) * t.len>>
    BY <1>5 DEF TypeMeta
  <2>5. TYPE(t) \in DynTy
    BY <1>5, <2>1, <2>2 DEF TYPE, DynTy
  <2> QED
    BY <1>5, <2>1, <2>3, <2>4, <2>5 DEF Meta
<1> QED
  BY <1>2, <1>3, <1>4, <1>5 DEF RustTy

\* What is written is bytes, and as many as TYPE_META says where it does.
LEMMA WriteType ==
  ASSUME NEW t \in RustTy, NEW v, Holds(t, v), NEW scale \in {1, 2}
  PROVE  /\ Write(t, v, scale) \in Seq(Byte)
         /\ t.k = "primitive" => Len(Write(t, v, scale)) = scale * SizeOf(t.ty)
         /\ t.k = "Array" => Write(t, v, scale) = Write(t, v, 1) /\ TypeMeta(t) = <<Len(Write(t, v, scale))>>
<1>1. LenWidth \in Nat /\ scale \in Nat /\ scale * LenWidth \in Nat /\ UsizeMax \in Nat
  BY WincodeAssumption
<1>2. CASE t.k = "primitive"
  <2> DEFINE p == t.ty
             d == DynPrimitiveTy[p]
  <2>1. p \in RustPrimitive
    BY <1>2 DEF RustTy
  <2>2. SizeOf(p) \in Nat
    BY <2>1, DynPrimitiveTyType
  <2>3. v \in [k : {"Primitive"}, ty : {d}, n : Int]
    BY <1>2 DEF Holds
  <2>4. v.n \in Int
    BY <2>3
  <2>5. scale * SizeOf(p) \in Nat
    BY <1>1, <2>2
  <2>6. Write(t, v, scale) = LittleEndian(v.n, scale * SizeOf(p))
    BY <1>2 DEF Write
  <2> HIDE DEF p, d
  <2>7. LittleEndian(v.n, scale * SizeOf(p)) \in Seq(Byte) /\ Len(LittleEndian(v.n, scale * SizeOf(p))) = scale * SizeOf(p)
    BY <2>4, <2>5, LittleEndianType
  <2> QED
    BY <1>2, <2>6, <2>7 DEF p
<1>3. CASE t.k \in {"String", "Vec"}
  <2> DEFINE n == IF v.k = "Vec" THEN v.len ELSE Len(v.raw)
  <2>1. t.k # "primitive" /\ t.k # "Array"
    BY <1>3
  <2>2. v.raw \in Seq(Byte)
    BY <2>1, PayloadParts
  <2>3. n \in Int
    <3>1. CASE t.k = "String"
      <4>1. v = [k |-> "String", raw |-> v.raw, owned |-> FALSE]
        BY <2>1, <3>1, PayloadParts
      <4>2. v.k # "Vec"
        BY <4>1
      <4> QED
        BY <2>2, <4>2
    <3>2. CASE t.k # "String" /\ t.ty = "u8"
      <4>1. v = [k |-> "Bytes", raw |-> v.raw, owned |-> FALSE]
        BY <2>1, <3>2, PayloadParts
      <4>2. v.k # "Vec"
        BY <4>1
      <4> QED
        BY <2>2, <4>2
    <3>3. CASE t.k # "String" /\ t.ty # "u8"
      <4>1. v.len \in Usize
        BY <2>1, <3>3, PayloadParts
      <4> QED
        BY <1>1, <2>2, <4>1 DEF Usize
    <3> QED
      BY <3>1, <3>2, <3>3
  <2>4. Write(t, v, scale) = LittleEndian(n, scale * LenWidth) \o v.raw
    BY <1>3 DEF Write
  <2> HIDE DEF n
  <2>5. LittleEndian(n, scale * LenWidth) \in Seq(Byte)
    BY <1>1, <2>3, LittleEndianType
  <2>6. Write(t, v, scale) \in Seq(Byte)
    BY <2>2, <2>4, <2>5, ConcatProperties
  <2> QED
    BY <2>1, <2>6
<1>4. CASE t.k = "Array"
  <2>1. t.k # "primitive" /\ t.k # "String"
    BY <1>4
  <2>2. Write(t, v, scale) = v.raw /\ Write(t, v, 1) = v.raw
    BY <1>4 DEF Write
  <2>3. v.raw \in Seq(Byte)
    BY <2>1, PayloadParts
  <2>4. t.ty \in RustPrimitive /\ t.len \in Usize /\ TypeMeta(t) = <<SizeOf(t.ty) * t.len>>
    BY <1>4, TypeMetaType
  <2>5. Len(v.raw) = SizeOf(t.ty) * t.len
    <3>1. CASE t.ty = "u8"
      <4>1. v = [k |-> "Bytes", raw |-> v.raw, owned |-> FALSE]
            /\ LET count == IF v.k = "Vec" THEN v.len ELSE Len(v.raw) IN count = t.len
        BY <1>4, <2>1, <3>1, PayloadParts
      <4>2. v.k # "Vec"
        BY <4>1
      <4>3. Len(v.raw) = t.len /\ SizeOf("u8") = 1
        BY <4>1, <4>2 DEF SizeOf
      <4> QED
        BY <1>1, <2>4, <3>1, <4>3 DEF Usize
    <3>2. CASE t.ty # "u8"
      <4>1. /\ v = [k |-> "Vec", ty |-> DynPrimitiveTy[t.ty], len |-> v.len, raw |-> v.raw, owned |-> FALSE]
            /\ v.len \in Usize /\ Len(v.raw) = v.len * SizeOf(t.ty)
            /\ LET count == IF v.k = "Vec" THEN v.len ELSE Len(v.raw) IN count = t.len
        BY <1>4, <2>1, <3>2, PayloadParts
      <4>2. v.k = "Vec"
        BY <4>1
      <4>3. SizeOf(t.ty) \in Nat
        BY <2>4, DynPrimitiveTyType
      <4> QED
        BY <1>1, <2>4, <4>1, <4>2, <4>3 DEF Usize
    <3> QED
      BY <3>1, <3>2
  <2> QED
    BY <1>4, <2>2, <2>3, <2>4, <2>5
<1> QED
  BY <1>2, <1>3, <1>4 DEF RustTy

\* v is a value field f can have in a program that compiles.
FieldHolds(f, v) == f \in ContainerField /\ (~f.skip => f.ty \in RustTy /\ Holds(f.ty, v))

LEMMA EncodeFieldLength ==
  ASSUME NEW f, NEW v, FieldHolds(f, v)
  PROVE  /\ EncodeField(f, v) \in Seq(Byte) /\ (f.skip => EncodeField(f, v) = <<>>)
         /\ FieldWriteTypeMeta(f) \in Meta
         /\ FieldWriteTypeMeta(f) # <<>> => Len(EncodeField(f, v)) = Known(FieldWriteTypeMeta(f))
         /\ ~f.skip /\ KeepsFormat(f) => EncodeField(f, v) = Write(f.ty, v, 1)
         /\ ~f.skip /\ KeepsFormat(f) /\ TypeMeta(f.ty) # <<>> =>
              Len(EncodeField(f, v)) = Known(TypeMeta(f.ty))
<1>1. CASE f.skip
  BY <1>1, EmptySeq DEF EncodeField, FieldWriteTypeMeta, Meta, Known
<1>2. CASE ~f.skip
  <2> DEFINE t == f.ty
             scale == IF f.with = "Wide" THEN 2 ELSE 1
             w == Write(t, v, scale)
  <2>1. t \in RustTy /\ Holds(t, v) /\ f.with \in Adapter /\ scale \in {1, 2}
    BY <1>2 DEF FieldHolds, ContainerField
  <2>2. EncodeField(f, v) = w /\ FieldWriteTypeMeta(f) = AdapterMeta(f)
    BY <1>2 DEF EncodeField, FieldWriteTypeMeta
  <2>3. /\ w \in Seq(Byte)
        /\ t.k = "primitive" => Len(w) = scale * SizeOf(t.ty)
        /\ t.k = "Array" => w = Write(t, v, 1) /\ TypeMeta(t) = <<Len(w)>>
    BY <2>1, WriteType
  <2>4. /\ TypeMeta(t) \in Meta
        /\ t.k = "primitive" => SizeOf(t.ty) \in Nat /\ TypeMeta(t) = <<SizeOf(t.ty)>>
        /\ t.k \in {"String", "Vec"} => TypeMeta(t) = <<>>
    BY <2>1, TypeMetaType, DynPrimitiveTyType
  <2>5. t.k \in {"primitive", "String", "Vec", "Array"}
    BY <2>1 DEF RustTy
  <2>6. KeepsFormat(f) => w = Write(t, v, 1) /\ (f.with = "Wide" => t.k = "Array")
    <3>1. CASE f.with = "Wide"
      BY <1>2, <2>3, <3>1 DEF KeepsFormat
    <3>2. CASE f.with # "Wide"
      BY <3>2
    <3> QED
      BY <3>1, <3>2
  <2>7. AdapterMeta(f) \in Meta /\ (AdapterMeta(f) # <<>> => AdapterMeta(f) = <<Len(w)>>)
    <3>1. CASE f.with = "Wide" /\ t.k = "primitive"
      <4>1. AdapterMeta(f) = <<2 * SizeOf(t.ty)>> /\ scale = 2
        BY <3>1 DEF AdapterMeta
      <4>2. 2 * SizeOf(t.ty) \in Nat
        BY <2>4, <3>1
      <4> HIDE DEF t, scale, w
      <4> QED
        BY <2>3, <3>1, <4>1, <4>2 DEF Meta
    <3>2. CASE f.with = "Wide" /\ t.k # "primitive"
      <4>1. AdapterMeta(f) = TypeMeta(t)
        BY <3>2 DEF AdapterMeta
      <4> HIDE DEF t, scale, w
      <4> QED
        BY <2>3, <2>4, <2>5, <3>2, <4>1
    <3>3. CASE f.with = "Same"
      BY <3>3 DEF AdapterMeta, Meta
    <3>4. CASE f.with = "None"
      <4>1. AdapterMeta(f) = TypeMeta(t) /\ scale = 1
        BY <3>4 DEF AdapterMeta
      <4> HIDE DEF t, scale, w
      <4>2. t.k = "primitive" => Len(w) = SizeOf(t.ty)
        BY <2>3, <2>4, <4>1
      <4> QED
        BY <2>3, <2>4, <2>5, <4>1, <4>2
    <3> QED
      BY <2>1, <3>1, <3>2, <3>3, <3>4 DEF Adapter
  <2>8. KeepsFormat(f) /\ TypeMeta(t) # <<>> => TypeMeta(t) = <<Len(w)>>
    <3> SUFFICES ASSUME KeepsFormat(f), TypeMeta(t) # <<>> PROVE TypeMeta(t) = <<Len(w)>>
      OBVIOUS
    <3>1. CASE t.k = "primitive"
      <4>1. scale = 1
        BY <2>6, <3>1
      <4> HIDE DEF t, scale, w
      <4>2. Len(w) = SizeOf(t.ty)
        BY <2>3, <2>4, <3>1, <4>1
      <4> QED
        BY <2>4, <3>1, <4>2
    <3>2. CASE t.k # "primitive"
      <4> HIDE DEF t, scale, w
      <4> QED
        BY <2>3, <2>4, <2>5, <3>2
    <3> QED
      BY <3>1, <3>2
  <2>9. \A n \in Nat : Known(<<n>>) = n
    BY DEF Known
  <2>10. Len(w) \in Nat
    BY <2>3
  <2> HIDE DEF scale, w, t
  <2> QED
    BY <1>2, <2>2, <2>3, <2>6, <2>7, <2>8, <2>9, <2>10 DEF t
<1> QED
  BY <1>1, <1>2

\* rec is a value that a container which compiles can have.
RecordHolds(c, rec) ==
  /\ rec.variant \in DOMAIN c.variants
  /\ \A i \in DOMAIN c.variants[rec.variant] : FieldHolds(c.variants[rec.variant][i], rec.vals[i])

FieldCodes(c, rec) ==
  LET fs == c.variants[rec.variant] IN [i \in DOMAIN fs |-> EncodeField(fs[i], rec.vals[i])]

TagSize(c) == IF c.k = "Struct" THEN 0 ELSE SizeOf(TagEncoding(c))

LEMMA ContainerParts ==
  ASSUME NEW c \in Container
  PROVE  /\ c.k \in {"Struct", "Enum"} /\ c.variants \in Seq(Seq(ContainerField))
         /\ \A v \in DOMAIN c.variants : c.variants[v] \in Seq(ContainerField)
         /\ DOMAIN c.variants = 1 .. Len(c.variants) /\ Len(c.variants) \in Nat
         /\ c.k = "Enum" => /\ TagEncoding(c) \in RustPrimitive
                            /\ DynPrimitiveTy[TagEncoding(c)] \in PrimitiveTy
         /\ TagSize(c) \in Nat
<1>1. c.k \in {"Struct", "Enum"} /\ c.variants \in Seq(Seq(ContainerField))
  BY DEF Container
<1>2. \A v \in DOMAIN c.variants : c.variants[v] \in Seq(ContainerField)
  BY <1>1, ElementOfSeq
<1>3. c.k = "Enum" => TagEncoding(c) \in RustPrimitive
  BY DEF Container, TagEncoding, RustPrimitive
<1>4. c.k = "Enum" => DynPrimitiveTy[TagEncoding(c)] \in PrimitiveTy /\ SizeOf(TagEncoding(c)) \in Nat
  <2> SUFFICES ASSUME c.k = "Enum" PROVE DynPrimitiveTy[TagEncoding(c)] \in PrimitiveTy /\ SizeOf(TagEncoding(c)) \in Nat
    OBVIOUS
  <2> DEFINE p == TagEncoding(c)
  <2>1. p \in RustPrimitive
    BY <1>3
  <2> HIDE DEF p
  <2>2. DynPrimitiveTy[p] \in PrimitiveTy /\ SizeOf(p) \in {1, 2, 4, 8}
    BY <2>1, DynPrimitiveTyType
  <2> QED
    BY <2>2 DEF p
<1>5. TagSize(c) \in Nat
  BY <1>1, <1>4 DEF TagSize
<1>6. DOMAIN c.variants = 1 .. Len(c.variants) /\ Len(c.variants) \in Nat
  BY <1>1
<1> QED
  BY <1>1, <1>2, <1>3, <1>4, <1>5, <1>6

LEMMA EncodeTagType ==
  ASSUME NEW c \in Container, NEW v \in Nat
  PROVE  EncodeTag(c, v) \in Seq(Byte) /\ Len(EncodeTag(c, v)) = TagSize(c)
<1>1. CASE c.k = "Struct"
  BY <1>1, EmptySeq DEF EncodeTag, TagSize
<1>2. CASE c.k # "Struct"
  <2>1. TagSize(c) \in Nat /\ v - 1 \in Int
    BY ContainerParts
  <2>2. EncodeTag(c, v) = LittleEndian(v - 1, TagSize(c))
    BY <1>2 DEF EncodeTag, TagSize
  <2> QED
    BY <2>1, <2>2, LittleEndianType
<1> QED
  BY <1>1, <1>2

LEMMA FieldCodesType ==
  ASSUME NEW c \in Container, NEW rec, RecordHolds(c, rec)
  PROVE  LET fs == c.variants[rec.variant]
             s  == FieldCodes(c, rec)
             m  == VariantMetas(fs)
         IN  /\ fs \in Seq(ContainerField) /\ s \in Seq(Seq(Byte)) /\ Len(s) = Len(fs)
             /\ \A i \in 1 .. Len(fs) : FieldHolds(fs[i], rec.vals[i]) /\ s[i] = EncodeField(fs[i], rec.vals[i])
             /\ \A i \in 1 .. Len(s) : fs[i].skip => s[i] = <<>>
             /\ m \in Seq(Meta) /\ Len(m) = Len(fs)
             /\ \A i \in 1 .. Len(fs) : m[i] # <<>> => Len(s[i]) = Known(m[i])
             /\ EncodeRecord(c, rec) = EncodeTag(c, rec.variant) \o FlattenSeq(s)
             /\ EncodeRecord(c, rec) \in Seq(Byte) /\ FlattenSeq(s) \in Seq(Byte)
             /\ Len(EncodeRecord(c, rec)) = TagSize(c) + Len(FlattenSeq(s))
<1> DEFINE fs == c.variants[rec.variant]
           s == FieldCodes(c, rec)
           m == VariantMetas(fs)
           n == Len(fs)
<1>1. rec.variant \in DOMAIN c.variants /\ \A i \in DOMAIN fs : FieldHolds(fs[i], rec.vals[i])
  BY DEF RecordHolds
<1>2. fs \in Seq(ContainerField) /\ rec.variant \in Nat
  BY <1>1, ContainerParts
<1>3. EncodeRecord(c, rec) = EncodeTag(c, rec.variant) \o FlattenSeq(s)
  BY DEF EncodeRecord, FieldCodes
<1>4. s = [i \in DOMAIN fs |-> EncodeField(fs[i], rec.vals[i])] /\ m = [i \in DOMAIN fs |-> FieldWriteTypeMeta(fs[i])]
  BY DEF FieldCodes, VariantMetas
<1> HIDE DEF fs, s, m
<1>5. DOMAIN fs = 1 .. n /\ n \in Nat
  BY <1>2
<1>6. \A i \in 1 .. n : /\ EncodeField(fs[i], rec.vals[i]) \in Seq(Byte)
                        /\ FieldWriteTypeMeta(fs[i]) \in Meta
  BY <1>1, <1>5, EncodeFieldLength
<1>7. s \in Seq(Seq(Byte)) /\ Len(s) = n /\ \A i \in 1 .. n : s[i] = EncodeField(fs[i], rec.vals[i])
  BY <1>4, <1>5, <1>6
<1>8. m \in Seq(Meta) /\ Len(m) = n /\ \A i \in 1 .. n : m[i] = FieldWriteTypeMeta(fs[i])
  BY <1>4, <1>5, <1>6
<1>9. \A i \in 1 .. n : (fs[i].skip => s[i] = <<>>) /\ (m[i] # <<>> => Len(s[i]) = Known(m[i]))
  <2> TAKE i \in 1 .. n
  <2>1. FieldHolds(fs[i], rec.vals[i]) /\ s[i] = EncodeField(fs[i], rec.vals[i]) /\ m[i] = FieldWriteTypeMeta(fs[i])
    BY <1>1, <1>5, <1>7, <1>8
  <2> QED
    BY <2>1, EncodeFieldLength
<1>10. FlattenSeq(s) \in Seq(Byte)
  BY <1>7, FlattenType
<1>11. EncodeTag(c, rec.variant) \in Seq(Byte) /\ Len(EncodeTag(c, rec.variant)) = TagSize(c)
  BY <1>2, EncodeTagType
<1>12. EncodeRecord(c, rec) \in Seq(Byte) /\ Len(EncodeRecord(c, rec)) = TagSize(c) + Len(FlattenSeq(s))
  BY <1>3, <1>10, <1>11, ConcatProperties
<1> QED
  BY <1>1, <1>2, <1>3, <1>5, <1>7, <1>8, <1>9, <1>10, <1>12 DEF fs, s, m

\* A container of a known size: its variants have it.
LEMMA ContainerMetaParts ==
  ASSUME NEW c \in Container, ContainerMeta(c) # <<>>, NEW v \in DOMAIN c.variants,
         VariantMetas(c.variants[v]) \in Seq(Meta)
  PROVE  /\ SumMeta(VariantMetas(c.variants[v])) # <<>>
         /\ ContainerMeta(c) = <<TagSize(c) + KnownSize(VariantMetas(c.variants[v]))>>
<1> DEFINE sizes == {SumMeta(VariantMetas(fs)) : fs \in Range(c.variants)}
           size == CHOOSE s \in sizes : TRUE
           m == VariantMetas(c.variants[v])
           sum == SumMeta(m)
<1>1. ContainerMeta(c) = IF \A s \in sizes : s = <<>> \/ sizes # {s} THEN <<>>
                         ELSE IF c.k = "Struct" THEN size
                         ELSE <<SizeOf(TagEncoding(c)) + size[1]>>
  BY DEF ContainerMeta, VariantMetas, FieldWriteTypeMeta
<1>2. sum \in sizes
  BY DEF Range
<1>3. KnownSize(m) \in Nat /\ sum = IF <<>> \in Range(m) THEN <<>> ELSE <<KnownSize(m)>>
  BY KnownSizeType DEF SumMeta
<1> HIDE DEF sizes, sum, m
<1>4. sum # <<>> /\ size = sum
  <2>1. PICK s \in sizes : s # <<>> /\ sizes = {s}
    BY <1>1
  <2> QED
    BY <1>2, <2>1
<1>5. sum = <<KnownSize(m)>> /\ sum[1] = KnownSize(m) /\ 0 + KnownSize(m) = KnownSize(m)
  BY <1>3, <1>4
<1>6. ContainerMeta(c) = IF c.k = "Struct" THEN sum ELSE <<SizeOf(TagEncoding(c)) + sum[1]>>
  BY <1>1, <1>4
<1> HIDE DEF size
<1> QED
  BY <1>4, <1>5, <1>6 DEF TagSize, m, sum

\* The codes of a variant of a known size are together of that size.
LEMMA VariantLength ==
  ASSUME NEW S, NEW s \in Seq(Seq(S)), NEW m \in Seq(Meta), Len(s) = Len(m), SumMeta(m) # <<>>,
         \A i \in 1 .. Len(m) : m[i] # <<>> => Len(s[i]) = Known(m[i])
  PROVE  Len(FlattenSeq(s)) = KnownSize(m) /\ SumMeta(m) = <<KnownSize(m)>>
<1>1. <<>> \notin Range(m) /\ SumMeta(m) = <<KnownSize(m)>>
  BY DEF SumMeta
<1>2. \A i \in 1 .. Len(m) : m[i] # <<>>
  BY <1>1 DEF Range
<1>3. \A i \in 1 .. Len(s) : Len(s[i]) = Known(m[i])
  BY <1>2
<1> QED
  BY <1>1, <1>3, KnownSizeIsLength

\* Every record of a container of a known size has it, whatever its adapters do.
THEOREM RecordLength ==
  ASSUME NEW c \in Container, NEW rec, RecordHolds(c, rec), ContainerMeta(c) # <<>>
  PROVE  ContainerMeta(c) = <<Len(EncodeRecord(c, rec))>>
<1> DEFINE s == FieldCodes(c, rec)
           m == VariantMetas(c.variants[rec.variant])
<1>1. /\ s \in Seq(Seq(Byte)) /\ m \in Seq(Meta) /\ Len(s) = Len(m)
      /\ \A i \in 1 .. Len(m) : m[i] # <<>> => Len(s[i]) = Known(m[i])
      /\ Len(EncodeRecord(c, rec)) = TagSize(c) + Len(FlattenSeq(s))
  BY FieldCodesType
<1>2. rec.variant \in DOMAIN c.variants
  BY DEF RecordHolds
<1>3. SumMeta(m) # <<>> /\ ContainerMeta(c) = <<TagSize(c) + KnownSize(m)>>
  BY <1>1, <1>2, ContainerMetaParts
<1> HIDE DEF s, m
<1>4. Len(FlattenSeq(s)) = KnownSize(m)
  BY <1>1, <1>3, VariantLength
<1> QED
  BY <1>1, <1>3, <1>4

-----------------------------------------------------------------------------
(***************************************************************************)
(* The schema, and what of a record it shows.                              *)
(***************************************************************************)
LEMMA KeptType ==
  ASSUME NEW fs \in Seq(ContainerField)
  PROVE  /\ Shows(fs) \in Seq(1 .. Len(fs)) /\ Kept(fs) \in Seq(ContainerField)
         /\ Len(Kept(fs)) = Len(Shows(fs))
         /\ \A i \in 1 .. Len(Kept(fs)) :
              /\ Shows(fs)[i] \in 1 .. Len(fs) /\ Kept(fs)[i] = fs[Shows(fs)[i]] /\ ~Kept(fs)[i].skip
<1> DEFINE is == Shows(fs)
           kept == Kept(fs)
<1>1. Len(fs) \in Nat
  OBVIOUS
<1>2. is \in Seq(1 .. Len(fs)) /\ \A j \in 1 .. Len(is) : ~fs[is[j]].skip
  BY <1>1, ShowsResult
<1>3. kept = [j \in DOMAIN is |-> fs[is[j]]]
  BY DEF Kept
<1> HIDE DEF is, kept
<1>4. DOMAIN is = 1 .. Len(is) /\ Len(is) \in Nat /\ \A j \in 1 .. Len(is) : is[j] \in 1 .. Len(fs)
  BY <1>2
<1>5. \A j \in 1 .. Len(is) : fs[is[j]] \in ContainerField
  BY <1>4, ElementOfSeq
<1>6. kept \in Seq(ContainerField) /\ Len(kept) = Len(is) /\ \A j \in 1 .. Len(is) : kept[j] = fs[is[j]]
  BY <1>3, <1>4, <1>5
<1> QED
  BY <1>2, <1>4, <1>6 DEF is, kept

\* The bounds of the generated impl hold, as far as one variant goes.
FieldCompiles(f) ==
  f \in ContainerField /\ (~f.skip => f.ty \in RustTy /\ (TypeMeta(f.ty) = <<>> \/ TypeMeta(f.ty)[1] \in Usize))

LEMMA FieldsCompile ==
  ASSUME NEW c \in Container, Compiles(c), NEW v \in DOMAIN c.variants, NEW i \in DOMAIN c.variants[v]
  PROVE  FieldCompiles(c.variants[v][i])
<1> DEFINE fs == c.variants[v]
           f == fs[i]
<1>1. fs \in Seq(ContainerField)
  BY ContainerParts
<1>2. f \in ContainerField
  BY <1>1, ElementOfSeq
<1>3. fs \in Range(c.variants) /\ f \in Range(fs)
  BY DEF Range
<1> HIDE DEF fs, f
<1>4. FieldBounds(f) /\ (~f.skip => LET m == TypeMeta(f.ty) IN m = <<>> \/ m[1] \in Usize)
  BY <1>3 DEF Compiles
<1> QED
  BY <1>2, <1>4 DEF FieldBounds, FieldCompiles, f, fs

LEMMA FieldDefsType ==
  ASSUME NEW fs \in Seq(ContainerField), \A i \in DOMAIN fs : FieldCompiles(fs[i])
  PROVE  /\ FieldDefs(fs) \in Seq(FieldDef) /\ Len(FieldDefs(fs)) = Len(Kept(fs))
         /\ \A i \in 1 .. Len(Kept(fs)) :
              /\ FieldDefs(fs)[i] = FieldToTokens(Kept(fs)[i]) /\ FieldCompiles(Kept(fs)[i])
              /\ Kept(fs)[i].ty \in RustTy /\ TypeMeta(Kept(fs)[i].ty) \in OptionUsize
<1> DEFINE kept == Kept(fs)
           n == Len(kept)
<1>1. /\ kept \in Seq(ContainerField)
      /\ \A i \in 1 .. n : /\ Shows(fs)[i] \in 1 .. Len(fs) /\ kept[i] = fs[Shows(fs)[i]] /\ ~kept[i].skip
  BY KeptType
<1>2. FieldDefs(fs) = [i \in DOMAIN kept |-> FieldToTokens(kept[i])]
  BY DEF FieldDefs
<1> HIDE DEF kept
<1>3. DOMAIN kept = 1 .. n /\ DOMAIN fs = 1 .. Len(fs) /\ n \in Nat
  BY <1>1
<1>4. ASSUME NEW i \in 1 .. n
      PROVE  /\ FieldCompiles(kept[i]) /\ kept[i].ty \in RustTy /\ TypeMeta(kept[i].ty) \in OptionUsize
             /\ FieldToTokens(kept[i]) \in FieldDef
  <2> DEFINE f == kept[i]
  <2>1. FieldCompiles(f) /\ ~f.skip
    BY <1>1, <1>3
  <2> HIDE DEF f
  <2>2. f.ty \in RustTy /\ (TypeMeta(f.ty) = <<>> \/ TypeMeta(f.ty)[1] \in Usize)
    BY <2>1 DEF FieldCompiles
  <2>3. TypeMeta(f.ty) \in Meta /\ TYPE(f.ty) \in DynTy
    BY <2>2, TypeMetaType
  <2>4. TypeMeta(f.ty) \in OptionUsize
    BY <2>2, <2>3 DEF Meta, OptionUsize
  <2>5. FieldToTokens(f) \in FieldDef
    BY <2>3, <2>4 DEF FieldToTokens, FieldDef
  <2> QED
    BY <2>1, <2>2, <2>4, <2>5 DEF f
<1>5. FieldDefs(fs) \in Seq(FieldDef) /\ Len(FieldDefs(fs)) = n
      /\ \A i \in 1 .. n : FieldDefs(fs)[i] = FieldToTokens(kept[i])
  BY <1>2, <1>3, <1>4
<1> QED
  BY <1>4, <1>5 DEF kept

\* The sizes of the kept fields' types.
KeptMetas(fs) == LET kept == Kept(fs) IN [i \in DOMAIN kept |-> TypeMeta(kept[i].ty)]

LEMMA VariantSizeType ==
  ASSUME NEW fs \in Seq(ContainerField), \A i \in DOMAIN fs : FieldCompiles(fs[i])
  PROVE  /\ KeptMetas(fs) \in Seq(Meta) /\ Len(KeptMetas(fs)) = Len(Kept(fs))
         /\ \A i \in 1 .. Len(Kept(fs)) : KeptMetas(fs)[i] = TypeMeta(Kept(fs)[i].ty)
         /\ VariantSize(Kept(fs)) \in OptionUsize
         /\ VariantSize(Kept(fs)) # <<>> =>
              SumMeta(KeptMetas(fs)) # <<>> /\ VariantSize(Kept(fs)) = SumMeta(KeptMetas(fs))
<1> DEFINE kept == Kept(fs)
           m == KeptMetas(fs)
           n == Len(kept)
<1>1. kept \in Seq(ContainerField) /\ \A i \in 1 .. n : kept[i].ty \in RustTy
  BY KeptType, FieldDefsType
<1>2. m = [i \in DOMAIN kept |-> TypeMeta(kept[i].ty)]
  BY DEF KeptMetas
<1>3. VariantSize(kept) = IF SumMeta(m) # <<>> /\ SumMeta(m)[1] \notin Usize THEN <<>> ELSE SumMeta(m)
  BY DEF VariantSize, KeptMetas
<1> HIDE DEF kept, m
<1>4. DOMAIN kept = 1 .. n /\ n \in Nat
  BY <1>1
<1>5. \A i \in 1 .. n : TypeMeta(kept[i].ty) \in Meta
  BY <1>1, TypeMetaType
<1>6. m \in Seq(Meta) /\ Len(m) = n /\ \A i \in 1 .. n : m[i] = TypeMeta(kept[i].ty)
  BY <1>2, <1>4, <1>5
<1>7. SumMeta(m) \in Meta
  BY <1>6, KnownSizeType
<1>8. VariantSize(kept) \in OptionUsize
  BY <1>3, <1>7 DEF Meta, OptionUsize
<1> QED
  BY <1>3, <1>6, <1>8 DEF kept, m

LEMMA ContainerMetaType ==
  ASSUME NEW c \in Container, Compiles(c), c.k = "Struct" => Len(c.variants) = 1
  PROVE  ContainerMeta(c) \in OptionUsize
<1>1. CASE ContainerMeta(c) = <<>>
  BY <1>1 DEF OptionUsize
<1>2. CASE ContainerMeta(c) # <<>>
  <2>1. SERIALIZED_SIZE(c).n \in Usize
    BY DEF Compiles
  <2>2. SERIALIZED_SIZE(c).n = ContainerMeta(c)[1]
    BY <1>2 DEF SERIALIZED_SIZE, SerializedSize, EnumSerializedSize
  <2>3. \E n : ContainerMeta(c) = <<n>>
    <3> DEFINE sizes == {SumMeta([i \in DOMAIN fs |-> IF fs[i].skip THEN <<0>> ELSE AdapterMeta(fs[i])]) :
                           fs \in Range(c.variants)}
               size == CHOOSE s \in sizes : TRUE
    <3>1. ContainerMeta(c) = IF \A s \in sizes : s = <<>> \/ sizes # {s} THEN <<>>
                             ELSE IF c.k = "Struct" THEN size
                             ELSE <<SizeOf(TagEncoding(c)) + size[1]>>
      BY DEF ContainerMeta
    <3>2. \A s \in sizes : s = <<>> \/ \E n : s = <<n>>
      BY DEF SumMeta
    <3> HIDE DEF sizes
    <3>3. PICK s \in sizes : s # <<>> /\ sizes = {s}
      BY <1>2, <3>1
    <3>4. size = s
      BY <3>3
    <3> HIDE DEF size
    <3> QED
      BY <1>2, <3>1, <3>2, <3>3, <3>4
  <2>4. PICK n : ContainerMeta(c) = <<n>>
    BY <2>3
  <2> QED
    BY <2>1, <2>2, <2>4 DEF OptionUsize
<1> QED
  BY <1>1, <1>2

\* The schema of variant v.
SchemaSize(c, v) == IF c.k = "Struct" THEN ContainerMeta(c) ELSE VariantSize(Kept(c.variants[v]))

\* The derived schema is one that a Decoder accepts.
LEMMA SchemaType ==
  ASSUME NEW c \in Container, Compiles(c), c.k = "Struct" => Len(c.variants) = 1
  PROVE  LET derived == SchemaOf(c)
         IN  /\ derived \in RootSchema /\ derived.k = c.k /\ Len(derived.variants) = Len(c.variants)
             /\ \A v \in DOMAIN c.variants : derived.variants[v] = [fields |-> FieldDefs(c.variants[v]), size |-> SchemaSize(c, v)]
             /\ c.k = "Enum" => derived.size = ContainerMeta(c) /\ derived.tag = DynPrimitiveTy[TagEncoding(c)]
<1> DEFINE schema(v) == [fields |-> FieldDefs(c.variants[v]), size |-> SchemaSize(c, v)]
           schemas == [v \in DOMAIN c.variants |-> schema(v)]
           derived == SchemaOf(c)
<1>1. derived = IF c.k = "Struct" THEN [k |-> "Struct", variants |-> schemas]
             ELSE [k |-> "Enum", variants |-> schemas, size |-> ContainerMeta(c), tag |-> DynPrimitiveTy[TagEncoding(c)]]
  BY DEF SchemaOf, SchemaSize
<1>2. /\ c.k \in {"Struct", "Enum"} /\ DOMAIN c.variants = 1 .. Len(c.variants) /\ Len(c.variants) \in Nat
      /\ \A v \in DOMAIN c.variants : c.variants[v] \in Seq(ContainerField)
      /\ c.k = "Enum" => DynPrimitiveTy[TagEncoding(c)] \in PrimitiveTy
  BY ContainerParts
<1>3. ContainerMeta(c) \in OptionUsize
  BY ContainerMetaType
<1>4. ASSUME NEW v \in DOMAIN c.variants PROVE schema(v) \in Schema
  <2>1. \A i \in DOMAIN c.variants[v] : FieldCompiles(c.variants[v][i])
    BY FieldsCompile
  <2>2. FieldDefs(c.variants[v]) \in Seq(FieldDef) /\ VariantSize(Kept(c.variants[v])) \in OptionUsize
    BY <1>2, <2>1, FieldDefsType, VariantSizeType
  <2> QED
    BY <1>3, <2>2 DEF Schema, SchemaSize
<1> HIDE DEF derived, schema
<1>5. schemas \in Seq(Schema) /\ Len(schemas) = Len(c.variants)
  BY <1>2, <1>4
<1>6. \A v \in DOMAIN c.variants : schemas[v] = schema(v)
  OBVIOUS
<1> HIDE DEF schemas
<1>7. derived \in RootSchema
  BY <1>1, <1>2, <1>3, <1>5 DEF RootSchema
<1> QED
  BY <1>1, <1>2, <1>5, <1>6, <1>7 DEF derived, schema

-----------------------------------------------------------------------------
(***************************************************************************)
(* Where the fields of a record are.                                       *)
(***************************************************************************)
\* The codes of the fields that the schema shows.
KeptCodes(c, rec) == Pick(FieldCodes(c, rec), Shows(c.variants[rec.variant]))

LEMMA KeptCodesType ==
  ASSUME NEW c \in Container, NEW rec, RecordHolds(c, rec)
  PROVE  LET fs == c.variants[rec.variant]
             s  == KeptCodes(c, rec)
         IN  /\ s \in Seq(Seq(Byte)) /\ Len(s) = Len(Kept(fs))
             /\ \A i \in 1 .. Len(Kept(fs)) :
                  /\ FieldHolds(Kept(fs)[i], rec.vals[Shows(fs)[i]])
                  /\ s[i] = EncodeField(Kept(fs)[i], rec.vals[Shows(fs)[i]])
             /\ EncodeRecord(c, rec) = EncodeTag(c, rec.variant) \o FlattenSeq(s)
             /\ FlattenSeq(s) \in Seq(Byte)
             /\ Len(EncodeRecord(c, rec)) = TagSize(c) + Len(FlattenSeq(s))
<1> DEFINE fs == c.variants[rec.variant]
           all == FieldCodes(c, rec)
           is == Shows(fs)
           s == KeptCodes(c, rec)
           n == Len(Kept(fs))
<1>1. /\ fs \in Seq(ContainerField) /\ all \in Seq(Seq(Byte)) /\ Len(all) = Len(fs)
      /\ \A i \in 1 .. Len(fs) : FieldHolds(fs[i], rec.vals[i]) /\ all[i] = EncodeField(fs[i], rec.vals[i])
      /\ \A i \in 1 .. Len(all) : fs[i].skip => all[i] = <<>>
      /\ EncodeRecord(c, rec) = EncodeTag(c, rec.variant) \o FlattenSeq(all)
      /\ FlattenSeq(all) \in Seq(Byte)
      /\ Len(EncodeRecord(c, rec)) = TagSize(c) + Len(FlattenSeq(all))
  BY FieldCodesType
<1>2. s = Pick(all, is)
  BY DEF KeptCodes
<1> HIDE DEF fs, all, s
<1>3. /\ is \in Seq(1 .. Len(fs)) /\ n = Len(is)
      /\ \A i \in 1 .. n : is[i] \in 1 .. Len(fs) /\ Kept(fs)[i] = fs[is[i]]
  BY <1>1, KeptType
<1>4. FlattenSeq(s) = FlattenSeq(all)
  BY <1>1, <1>2, ShownCodes
<1> HIDE DEF is
<1>5. DOMAIN is = 1 .. n /\ n \in Nat
  BY <1>3
<1>6. \A i \in 1 .. n : all[is[i]] \in Seq(Byte)
  BY <1>1, <1>3, ElementOfSeq
<1>7. s \in Seq(Seq(Byte)) /\ Len(s) = n /\ \A i \in 1 .. n : s[i] = all[is[i]]
  BY <1>2, <1>5, <1>6 DEF Pick
<1>8. \A i \in 1 .. n : FieldHolds(Kept(fs)[i], rec.vals[is[i]]) /\ s[i] = EncodeField(Kept(fs)[i], rec.vals[is[i]])
  BY <1>1, <1>3, <1>7
<1> QED
  BY <1>1, <1>4, <1>7, <1>8 DEF fs, is, s

\* A field that keeps the format is written as its type says.
LEMMA KeptCode ==
  ASSUME NEW c \in Container, NEW rec, RecordHolds(c, rec),
         NEW i \in 1 .. Len(Kept(c.variants[rec.variant])), KeepsFormat(Kept(c.variants[rec.variant])[i])
  PROVE  LET f == Kept(c.variants[rec.variant])[i]
             v == rec.vals[Shows(c.variants[rec.variant])[i]]
         IN  /\ f.ty \in RustTy /\ Holds(f.ty, v) /\ KeptCodes(c, rec)[i] = Write(f.ty, v, 1)
             /\ TypeMeta(f.ty) # <<>> => Len(KeptCodes(c, rec)[i]) = Known(TypeMeta(f.ty))
<1> DEFINE fs == c.variants[rec.variant]
           f == Kept(fs)[i]
           v == rec.vals[Shows(fs)[i]]
<1>1. FieldHolds(f, v) /\ KeptCodes(c, rec)[i] = EncodeField(f, v)
  BY KeptCodesType
<1>2. ~f.skip
  <2>1. fs \in Seq(ContainerField)
    BY FieldCodesType
  <2> HIDE DEF fs
  <2>2. i \in 1 .. Len(Kept(fs))
    BY DEF fs
  <2> QED
    BY <2>1, <2>2, KeptType
<1>3. KeepsFormat(f)
  OBVIOUS
<1> HIDE DEF f, v
<1>4. f.ty \in RustTy /\ Holds(f.ty, v)
  BY <1>1, <1>2 DEF FieldHolds
<1>5. /\ EncodeField(f, v) = Write(f.ty, v, 1)
      /\ TypeMeta(f.ty) # <<>> => Len(EncodeField(f, v)) = Known(TypeMeta(f.ty))
  BY <1>1, <1>2, <1>3, EncodeFieldLength
<1> DEFINE code == KeptCodes(c, rec)[i]
<1>6. code = EncodeField(f, v)
  BY <1>1
<1> HIDE DEF code
<1>7. /\ f.ty \in RustTy /\ Holds(f.ty, v) /\ code = Write(f.ty, v, 1)
      /\ TypeMeta(f.ty) # <<>> => Len(code) = Known(TypeMeta(f.ty))
  BY <1>4, <1>5, <1>6
<1> QED
  BY <1>7 DEF f, v, fs, code

\* Every field of the variant keeps the format.
VariantKept(c, v) == \A i \in DOMAIN c.variants[v] : KeepsFormat(c.variants[v][i])

LEMMA KeptFieldsKeep ==
  ASSUME NEW c \in Container, NEW v \in DOMAIN c.variants, VariantKept(c, v)
  PROVE  \A i \in 1 .. Len(Kept(c.variants[v])) : KeepsFormat(Kept(c.variants[v])[i])
<1>1. c.variants[v] \in Seq(ContainerField)
  BY ContainerParts
<1>2. DOMAIN c.variants[v] = 1 .. Len(c.variants[v])
  BY <1>1
<1> QED
  BY <1>1, <1>2, KeptType DEF VariantKept

\* The size that the schema gives for the fields of a variant is exact.
LEMMA SchemaSizeExact ==
  ASSUME NEW c \in Container, Compiles(c), NEW rec, RecordHolds(c, rec),
         VariantKept(c, rec.variant), SchemaSize(c, rec.variant) # <<>>
  PROVE  SchemaSize(c, rec.variant) = <<Len(FlattenSeq(KeptCodes(c, rec)))>>
<1> DEFINE v == rec.variant
           fs == c.variants[v]
           s == KeptCodes(c, rec)
           m == KeptMetas(fs)
           n == Len(Kept(fs))
<1>1. v \in DOMAIN c.variants /\ fs \in Seq(ContainerField)
  BY FieldCodesType DEF RecordHolds
<1>2. /\ s \in Seq(Seq(Byte)) /\ Len(s) = n /\ FlattenSeq(s) \in Seq(Byte)
      /\ Len(EncodeRecord(c, rec)) = TagSize(c) + Len(FlattenSeq(s))
  BY KeptCodesType
<1>3. CASE c.k = "Struct"
  <2>1. ContainerMeta(c) # <<>> /\ SchemaSize(c, v) = ContainerMeta(c) /\ TagSize(c) = 0
    BY <1>3 DEF SchemaSize, TagSize
  <2>2. ContainerMeta(c) = <<Len(EncodeRecord(c, rec))>>
    BY <2>1, RecordLength
  <2>3. Len(EncodeRecord(c, rec)) = Len(FlattenSeq(s))
    BY <1>2, <2>1
  <2> QED
    BY <2>1, <2>2, <2>3
<1>4. CASE c.k # "Struct"
  <2>1. SchemaSize(c, v) = VariantSize(Kept(fs))
    BY <1>4 DEF SchemaSize
  <2>2. \A i \in DOMAIN fs : FieldCompiles(fs[i])
    BY <1>1, FieldsCompile
  <2>3. \A i \in 1 .. n : KeepsFormat(Kept(fs)[i])
    BY <1>1, KeptFieldsKeep
  <2>4. \A i \in 1 .. n : TypeMeta(Kept(fs)[i].ty) # <<>> => Len(s[i]) = Known(TypeMeta(Kept(fs)[i].ty))
    BY <2>3, KeptCode
  <2> HIDE DEF fs, s, m
  <2>5. /\ m \in Seq(Meta) /\ Len(m) = n /\ \A i \in 1 .. n : m[i] = TypeMeta(Kept(fs)[i].ty)
        /\ SumMeta(m) # <<>> /\ VariantSize(Kept(fs)) = SumMeta(m)
    BY <1>1, <2>1, <2>2, VariantSizeType DEF m
  <2>6. \A i \in 1 .. Len(m) : m[i] # <<>> => Len(s[i]) = Known(m[i])
    BY <2>4, <2>5
  <2>7. Len(FlattenSeq(s)) = KnownSize(m) /\ SumMeta(m) = <<KnownSize(m)>>
    BY <1>2, <2>5, <2>6, VariantLength
  <2> QED
    BY <2>1, <2>5, <2>7 DEF s
<1> QED
  BY <1>3, <1>4

\* As far as buf goes, its bytes from off on are w.
Agrees(buf, off, w) == \A k \in 1 .. Len(w) : off + k <= Len(buf) => buf[off + k] = w[k]

LEMMA AgreesConcat ==
  ASSUME NEW buf \in Seq(Byte), NEW off \in Nat, NEW a \in Seq(Byte), NEW b \in Seq(Byte),
         Agrees(buf, off, a \o b)
  PROVE  Agrees(buf, off, a) /\ Agrees(buf, off + Len(a), b)
<1> DEFINE c == a \o b
<1>1. /\ Len(a) \in Nat /\ Len(b) \in Nat /\ Len(c) = Len(a) + Len(b)
      /\ \A k \in 1 .. Len(a) + Len(b) : c[k] = IF k <= Len(a) THEN a[k] ELSE b[k - Len(a)]
  BY ConcatProperties
<1>2. \A k \in 1 .. Len(c) : off + k <= Len(buf) => buf[off + k] = c[k]
  BY DEF Agrees
<1> HIDE DEF c
<1>3. Agrees(buf, off, a)
  BY <1>1, <1>2 DEF Agrees
<1>4. ASSUME NEW k \in 1 .. Len(b), (off + Len(a)) + k <= Len(buf)
      PROVE  buf[(off + Len(a)) + k] = b[k]
  <2>1. /\ Len(a) + k \in 1 .. Len(a) + Len(b) /\ ~(Len(a) + k <= Len(a))
        /\ (Len(a) + k) - Len(a) = k /\ (off + Len(a)) + k = off + (Len(a) + k)
    BY <1>1
  <2>2. c[Len(a) + k] = b[k]
    BY <1>1, <2>1
  <2> QED
    BY <1>1, <1>2, <1>4, <2>1, <2>2
<1> QED
  BY <1>3, <1>4 DEF Agrees

LEMMA AgreesPiece ==
  ASSUME NEW buf \in Seq(Byte), NEW off \in Nat, NEW s \in Seq(Seq(Byte)), Agrees(buf, off, FlattenSeq(s)),
         NEW n \in 1 .. Len(s)
  PROVE  Agrees(buf, off + Offset(s, n - 1), s[n])
<1> DEFINE a == Offset(s, n - 1)
           x == s[n]
           w == FlattenSeq(s)
<1>1. /\ a \in 0 .. Len(w) /\ Offset(s, n) \in 0 .. Len(w) /\ Offset(s, n) = a + Len(x)
      /\ \A k \in 1 .. Len(x) : w[a + k] = x[k]
  <2>1. n - 1 \in 0 .. Len(s) /\ n \in 0 .. Len(s)
    OBVIOUS
  <2> QED
    BY <2>1, FlattenPlaces
<1>2. w \in Seq(Byte) /\ x \in Seq(Byte)
  BY FlattenType, ElementOfSeq
<1> HIDE DEF a, x, w
<1>3. Len(w) \in Nat /\ Len(x) \in Nat /\ Len(buf) \in Nat /\ a \in Nat
  <2>1. Len(w) \in Nat /\ Len(x) \in Nat /\ Len(buf) \in Nat
    BY <1>2
  <2> QED
    BY <1>1, <2>1
<1>4. \A k \in 1 .. Len(w) : off + k <= Len(buf) => buf[off + k] = w[k]
  BY DEF Agrees, w
<1>5. ASSUME NEW k \in 1 .. Len(x), (off + a) + k <= Len(buf)
      PROVE  buf[(off + a) + k] = x[k]
  <2>1. a + k \in 1 .. Len(w) /\ off + (a + k) = (off + a) + k
    BY <1>1, <1>3
  <2> QED
    BY <1>1, <1>4, <1>5, <2>1
<1> QED
  BY <1>5 DEF Agrees, a, x

\* The input goes on with w, as far as it goes.
Goes(r, w) == Agrees(r.buf, r.pos, w)

Arrived(r, w) == r.pos + Len(w) <= Len(r.buf)

LEMMA ArrivedBegins ==
  ASSUME NEW r, Placed(r), NEW w \in Seq(Byte), Goes(r, w), Arrived(r, w)
  PROVE  Begins(r, w)
<1>1. r.pos \in Nat /\ Len(r.buf) \in Nat /\ Len(w) \in Nat
  BY DEF Placed, Reader
<1> QED
  BY <1>1 DEF Goes, Agrees, Arrived, Begins

\* A field that has arrived is read back, and one that has not is refused.
THEOREM ParseArrived ==
  ASSUME NEW t \in RustTy, NEW v, Holds(t, v), NEW r, Placed(r), Copiable(r, v),
         Goes(r, Write(t, v, 1))
  PROVE  LET w == Write(t, v, 1)
             o == Parse(TYPE(t), r)
         IN  IF Arrived(r, w) THEN ReadsBack(o, r, v, w) ELSE ~o.ok
<1> DEFINE w == Write(t, v, 1)
           p == r.pos
           m == Len(r.buf)
<1>1. w \in Seq(Byte) /\ TYPE(t) \in DynTy
  BY WriteType, TypeMetaType
<1>2. r \in Reader /\ r.buf \in Seq(Byte) /\ p \in Nat /\ m \in Nat /\ p <= m /\ Len(w) \in Nat
  BY <1>1 DEF Placed, Reader
<1>3. \A k \in 1 .. Len(w) : p + k <= m => r.buf[p + k] = w[k]
  BY DEF Goes, Agrees
<1>4. Goes(r, w) /\ Holds(t, v) /\ Copiable(r, v)
  OBVIOUS
<1> HIDE DEF w, p, m
<1>5. CASE Arrived(r, w)
  BY <1>1, <1>4, <1>5, ArrivedBegins, ParseWritten DEF w
<1>6. CASE ~Arrived(r, w)
  <2> DEFINE e == p + Len(w)
             buf == [k \in 1 .. e |-> IF k <= m THEN r.buf[k] ELSE w[k - p]]
             full == [buf |-> buf, pos |-> p, borrows |-> r.borrows]
             cut == [buf |-> SubSeq(buf, 1, m), pos |-> p, borrows |-> r.borrows]
  <2>1. e \in Nat /\ m < e /\ m \in p .. e - 1
    BY <1>2, <1>6 DEF Arrived, m, p
  <2>2. \A k \in 1 .. m : r.buf[k] \in Byte
    BY <1>2, ElementOfSeq DEF m
  <2>3. \A k \in 1 .. Len(w) : w[k] \in Byte
    BY <1>1, ElementOfSeq
  <2>4. \A k \in 1 .. e : (IF k <= m THEN r.buf[k] ELSE w[k - p]) \in Byte
    <3> TAKE k \in 1 .. e
    <3>1. CASE k <= m
      BY <1>2, <2>1, <2>2, <3>1
    <3>2. CASE ~(k <= m)
      <4>1. k - p \in 1 .. Len(w)
        BY <1>2, <2>1, <3>2
      <4> QED
        BY <2>3, <3>2, <4>1
    <3> QED
      BY <3>1, <3>2
  <2>5. /\ buf \in Seq(Byte) /\ Len(buf) = e
        /\ \A k \in 1 .. e : buf[k] = IF k <= m THEN r.buf[k] ELSE w[k - p]
    BY <2>1, <2>4
  <2> HIDE DEF buf
  <2>6. full \in Reader /\ full.buf = buf /\ full.pos = p /\ full.borrows = r.borrows
    BY <1>2, <2>5 DEF Reader
  <2> HIDE DEF e
  <2>7. Placed(full)
    BY <1>2, <2>1, <2>5, <2>6 DEF Placed
  <2>8. Begins(full, w)
    <3>1. ASSUME NEW k \in 1 .. Len(w) PROVE buf[p + k] = w[k]
      <4>1. p + k \in 1 .. e /\ (p + k) - p = k
        BY <1>2 DEF e
      <4> QED
        BY <1>3, <2>5, <4>1
    <3> QED
      BY <1>2, <2>5, <2>6, <3>1 DEF Begins, e
  <2>9. Copiable(full, v)
    BY <1>4, <2>6 DEF Copiable, MayRead
  <2> HIDE DEF full
  <2>10. ReadsBack(Parse(TYPE(t), full), full, v, w)
    BY <1>4, <2>7, <2>8, <2>9, ParseWritten DEF w
  <2>11. Parse(TYPE(t), full).ok /\ Parse(TYPE(t), full).pos = e
    BY <2>6, <2>10 DEF ReadsBack, e
  <2>12. SubSeq(buf, 1, m) = r.buf
    <3> DEFINE b == SubSeq(buf, 1, m)
    <3>1. b \in Seq(Byte) /\ Len(b) = m /\ \A k \in 1 .. m : b[k] = buf[k]
      <4>1. 0 \in Nat /\ 0 <= m /\ m <= Len(buf) /\ 0 + 1 = 1 /\ m - 0 = m /\ \A k \in 1 .. m : 0 + k = k
        BY <1>2, <2>1, <2>5
      <4> QED
        BY <1>2, <2>5, <4>1, SliceBytes
    <3> HIDE DEF b
    <3>2. \A k \in 1 .. m : b[k] = r.buf[k]
      <4> TAKE k \in 1 .. m
      <4>1. k \in 1 .. e /\ k <= m
        BY <1>2, <2>1
      <4> QED
        BY <2>5, <3>1, <4>1
    <3>3. b = r.buf
      BY <1>2, <3>1, <3>2, SeqEqual DEF m
    <3> QED
      BY <3>3 DEF b
  <2>13. cut = r
    BY <1>2, <2>12 DEF Reader, p
  <2>14. m \in full.pos .. Parse(TYPE(t), full).pos - 1
    BY <2>1, <2>6, <2>11
  <2>15. ~Parse(TYPE(t), [buf |-> SubSeq(full.buf, 1, m), pos |-> full.pos, borrows |-> full.borrows]).ok
    BY <1>1, <2>7, <2>11, <2>14, ParseNeedsAll
  <2> QED
    BY <1>6, <2>6, <2>13, <2>15 DEF w
<1> QED
  BY <1>5, <1>6 DEF w

\* So are tags.
LEMMA TagArrived ==
  ASSUME NEW p \in PrimitiveTy, p \notin {"F32", "F64", "Bool"}, NEW n \in Usize, InRange(p, n),
         NEW r, Placed(r), Goes(r, LittleEndian(n, PrimitiveSize(p)))
  PROVE  LET o == ParseIntoUsize(p, r)
         IN  IF r.pos + PrimitiveSize(p) <= Len(r.buf) THEN o = Ok(n, r.pos + PrimitiveSize(p)) ELSE ~o.ok
<1> DEFINE w == PrimitiveSize(p)
           bs == LittleEndian(n, w)
<1>1. w \in Nat /\ n \in Int /\ r.pos \in Nat /\ Len(r.buf) \in Nat
  BY PrimitiveSizeType, WincodeAssumption DEF Usize, Placed, Reader
<1>2. bs \in Seq(Byte) /\ Len(bs) = w
  BY <1>1, LittleEndianType
<1>3. CASE r.pos + w <= Len(r.buf)
  <2>1. Begins(r, bs)
    BY <1>2, <1>3, ArrivedBegins DEF Arrived
  <2> QED
    BY <1>3, <2>1, ParseIntoUsizeWritten
<1>4. CASE ~(r.pos + w <= Len(r.buf))
  <2>1. ~(w <= Len(r.buf) - r.pos)
    BY <1>1, <1>4
  <2>2. ~Take(r, w).ok
    BY <2>1 DEF Take, Err
  <2>3. ReadPrimitive(p, r) = Take(r, w)
    BY <2>2 DEF ReadPrimitive
  <2>4. ParseIntoUsize(p, r) = Take(r, w)
    BY <2>2, <2>3 DEF ParseIntoUsize
  <2> QED
    BY <1>4, <2>2, <2>4
<1> QED
  BY <1>3, <1>4

-----------------------------------------------------------------------------
(***************************************************************************)
(* SERIALIZED_SIZE.                                                        *)
(***************************************************************************)
LEMMA LargestExists ==
  ASSUME NEW m \in Nat, m # 0, NEW f, \A i \in 1 .. m : f[i] \in Nat
  PROVE  \E k \in 1 .. m : \A i \in 1 .. m : f[i] <= f[k]
<1> DEFINE Z == {n \in 0 .. m : n # 0 => \E k \in 1 .. n : \A i \in 1 .. n : f[i] <= f[k]}
<1>1. 0 \in Z
  OBVIOUS
<1>2. ASSUME NEW n \in 0 .. m - 1, n \in Z PROVE n + 1 \in Z
  <2>1. n + 1 \in 1 .. m /\ f[n + 1] \in Nat /\ \A i \in 1 .. n + 1 : i = n + 1 \/ i \in 1 .. n
    OBVIOUS
  <2>2. CASE n = 0
    <3>1. 1 \in 1 .. n + 1 /\ \A i \in 1 .. n + 1 : f[i] <= f[1]
      BY <2>1, <2>2
    <3> QED
      BY <2>1, <3>1
  <2>3. CASE n # 0
    <3>1. PICK k \in 1 .. n : \A i \in 1 .. n : f[i] <= f[k]
      BY <1>2, <2>3
    <3>2. f[k] \in Nat /\ k \in 1 .. n + 1 /\ n + 1 \in 1 .. n + 1 /\ \A i \in 1 .. n : f[i] \in Nat
      OBVIOUS
    <3>3. CASE f[n + 1] <= f[k]
      <4>1. \A i \in 1 .. n + 1 : f[i] <= f[k]
        BY <2>1, <3>1, <3>3
      <4> QED
        BY <2>1, <3>2, <4>1
    <3>4. CASE ~(f[n + 1] <= f[k])
      <4>1. \A i \in 1 .. n + 1 : f[i] <= f[n + 1]
        BY <2>1, <3>1, <3>2, <3>4
      <4> QED
        BY <2>1, <3>2, <4>1
    <3> QED
      BY <3>3, <3>4
  <2> QED
    BY <2>2, <2>3
<1> HIDE DEF Z
<1>3. m \in Z
  <2>1. m \in 0 .. m
    OBVIOUS
  <2> QED
    BY <1>1, <1>2, <2>1, UpTo
<1> QED
  BY <1>3 DEF Z

LEMMA VariantMetasType ==
  ASSUME NEW c \in Container, Compiles(c), NEW v \in DOMAIN c.variants
  PROVE  VariantMetas(c.variants[v]) \in Seq(Meta)
<1> DEFINE fs == c.variants[v]
<1>1. fs \in Seq(ContainerField) /\ \A i \in DOMAIN fs : FieldCompiles(fs[i])
  BY ContainerParts, FieldsCompile
<1>2. VariantMetas(fs) = [i \in DOMAIN fs |-> FieldWriteTypeMeta(fs[i])]
  BY DEF VariantMetas
<1> HIDE DEF fs
<1>3. ASSUME NEW f, FieldCompiles(f) PROVE FieldWriteTypeMeta(f) \in Meta
  <2>1. CASE f.skip
    BY <2>1 DEF FieldWriteTypeMeta, Meta
  <2>2. CASE ~f.skip
    <3> DEFINE t == f.ty
    <3>1. t \in RustTy
      BY <1>3, <2>2 DEF FieldCompiles
    <3> HIDE DEF t
    <3>2. TypeMeta(t) \in Meta /\ (t.k = "primitive" => SizeOf(t.ty) \in Nat)
      BY <3>1, TypeMetaType, DynPrimitiveTyType
    <3>3. t.k = "primitive" => <<2 * SizeOf(t.ty)>> \in Meta
      BY <3>2 DEF Meta
    <3>4. <<>> \in Meta
      BY DEF Meta
    <3> QED
      BY <2>2, <3>2, <3>3, <3>4 DEF FieldWriteTypeMeta, AdapterMeta, t
  <2> QED
    BY <2>1, <2>2
<1>4. DOMAIN fs = 1 .. Len(fs) /\ Len(fs) \in Nat /\ \A i \in DOMAIN fs : FieldWriteTypeMeta(fs[i]) \in Meta
  BY <1>1, <1>3
<1> QED
  BY <1>2, <1>4 DEF fs

\* The tag of variant v and its fields of a known size.
KnownPart(c, v) == TagSize(c) + KnownSize(VariantMetas(c.variants[v]))

\* SERIALIZED_SIZE is the largest of them, and is Static only if all fields are.
LEMMA SerializedSizeParts ==
  ASSUME NEW c \in Container, Compiles(c), c.k = "Struct" => Len(c.variants) = 1
  PROVE  LET s == SERIALIZED_SIZE(c)
         IN  /\ \A v \in DOMAIN c.variants : KnownPart(c, v) <= s.n
             /\ s.k # "Dynamic" => \A v \in DOMAIN c.variants : SumMeta(VariantMetas(c.variants[v])) # <<>>
             /\ DOMAIN c.variants # {} => \E v \in DOMAIN c.variants : KnownPart(c, v) = s.n
<1> DEFINE s == SERIALIZED_SIZE(c)
           metas(v) == VariantMetas(c.variants[v])
           tag == TagSize(c)
           n == Len(c.variants)
<1>1. /\ c.k \in {"Struct", "Enum"} /\ DOMAIN c.variants = 1 .. n /\ n \in Nat /\ tag \in Nat
      /\ c.k = "Struct" => n = 1 /\ tag = 0
      /\ c.k = "Enum" => tag = SizeOf(TagEncoding(c))
  BY ContainerParts DEF TagSize
<1>2. \A v \in 1 .. n : /\ metas(v) \in Seq(Meta) /\ KnownSize(metas(v)) \in Nat
                        /\ SumMeta(metas(v)) = IF <<>> \in Range(metas(v)) THEN <<>> ELSE <<KnownSize(metas(v))>>
                        /\ KnownPart(c, v) = tag + KnownSize(metas(v))
  BY <1>1, VariantMetasType, KnownSizeType DEF SumMeta, KnownPart
<1>3. CASE ContainerMeta(c) # <<>>
  <2>1. s.n = ContainerMeta(c)[1]
    BY <1>3 DEF SERIALIZED_SIZE, SerializedSize, EnumSerializedSize
  <2>2. \A v \in 1 .. n : SumMeta(metas(v)) # <<>> /\ ContainerMeta(c) = <<KnownPart(c, v)>>
    BY <1>1, <1>2, <1>3, ContainerMetaParts
  <2> HIDE DEF s, metas
  <2>3. \A v \in 1 .. n : s.n = KnownPart(c, v) /\ KnownPart(c, v) \in Nat
    BY <1>1, <1>2, <2>1, <2>2
  <2> QED
    BY <1>1, <2>2, <2>3 DEF s, metas
<1>4. CASE ContainerMeta(c) = <<>> /\ c.k = "Struct"
  <2>1. s = [k |-> IF <<>> \in Range(metas(1)) THEN "Dynamic" ELSE "Static", n |-> KnownSize(metas(1))]
    BY <1>4 DEF SERIALIZED_SIZE, SerializedSize
  <2>2. 1 \in 1 .. n /\ \A v \in 1 .. n : v = 1
    <3>1. n = 1
      BY <1>1, <1>4
    <3> HIDE DEF n
    <3> QED
      BY <3>1
  <2> HIDE DEF s, metas
  <2>3. KnownPart(c, 1) = s.n /\ s.n \in Nat /\ (s.k # "Dynamic" => SumMeta(metas(1)) # <<>>)
    BY <1>1, <1>2, <1>4, <2>1, <2>2
  <2> QED
    BY <1>1, <2>2, <2>3 DEF s, metas
<1>5. CASE ContainerMeta(c) = <<>> /\ c.k = "Enum"
  <2> DEFINE one(v) == SerializedSize(<<>>, metas(v))
             sizes == {one(v) : v \in DOMAIN c.variants}
             ns == {z.n : z \in sizes}
  <2>1. s = IF sizes = {} THEN [k |-> "Static", n |-> 0]
            ELSE [k |-> IF \E z \in sizes : z.k = "Dynamic" THEN "Dynamic" ELSE "Static", n |-> tag + Max(ns)]
    BY <1>1, <1>5 DEF SERIALIZED_SIZE, EnumSerializedSize
  <2>2. \A v \in 1 .. n : /\ one(v).n = KnownSize(metas(v))
                          /\ one(v).k = IF <<>> \in Range(metas(v)) THEN "Dynamic" ELSE "Static"
    BY DEF SerializedSize
  <2> HIDE DEF s, metas, one
  <2>3. CASE n = 0
    BY <1>1, <2>3
  <2>4. CASE n # 0
    <3> DEFINE f == [v \in 1 .. n |-> one(v).n]
    <3>1. \A v \in 1 .. n : f[v] = one(v).n /\ f[v] = KnownSize(metas(v)) /\ f[v] \in Nat
      BY <1>2, <2>2
    <3> HIDE DEF f
    <3>2. PICK m \in 1 .. n : \A v \in 1 .. n : f[v] <= f[m]
      BY <1>1, <2>4, <3>1, LargestExists
    <3>3. ns = {f[v] : v \in 1 .. n}
      BY <1>1, <3>1
    <3>4. sizes # {} /\ \A v \in 1 .. n : one(v) \in sizes
      BY <1>1, <2>4
    <3> HIDE DEF ns, sizes
    <3>5. f[m] \in ns /\ \A y \in ns : f[m] >= y
      BY <3>1, <3>2, <3>3
    <3> DEFINE max == Max(ns)
    <3>6. max \in ns /\ \A y \in ns : max >= y
      BY <3>5 DEF Max
    <3> HIDE DEF max
    <3>7. max = f[m]
      <4>1. max \in Nat /\ f[m] \in Nat
        BY <3>1, <3>3, <3>6
      <4>2. max >= f[m] /\ f[m] >= max
        BY <3>5, <3>6
      <4> QED
        BY <4>1, <4>2
    <3>8. s.n = tag + f[m] /\ (s.k # "Dynamic" => \A z \in sizes : z.k # "Dynamic")
      BY <2>1, <3>4, <3>7 DEF max
    <3>9. \A v \in 1 .. n : KnownPart(c, v) = tag + f[v]
      BY <1>2, <3>1
    <3>10. s.k # "Dynamic" => \A v \in 1 .. n : SumMeta(metas(v)) # <<>>
      <4> SUFFICES ASSUME s.k # "Dynamic", NEW v \in 1 .. n PROVE SumMeta(metas(v)) # <<>>
        OBVIOUS
      <4>1. one(v) \in sizes /\ one(v).k # "Dynamic"
        BY <3>4, <3>8
      <4>2. <<>> \notin Range(metas(v))
        BY <2>2, <4>1
      <4>3. SumMeta(metas(v)) = <<KnownSize(metas(v))>>
        BY <1>2, <4>2
      <4> QED
        BY <4>3
    <3>11. KnownPart(c, m) = s.n /\ \A v \in 1 .. n : KnownPart(c, v) <= s.n
      <4>1. KnownPart(c, m) = s.n
        BY <3>8, <3>9
      <4>2. \A v \in 1 .. n : tag + f[v] <= tag + f[m]
        <5> HIDE DEF tag
        <5> QED
          BY <1>1, <3>1, <3>2
      <4> QED
        BY <3>8, <3>9, <4>1, <4>2
    <3> QED
      BY <1>1, <3>10, <3>11 DEF s, metas
  <2> QED
    BY <2>3, <2>4
<1> QED
  BY <1>1, <1>3, <1>4, <1>5

\* What a record has in its tag and its fields of a known size.
KnownCodes(c, rec) ==
  LET fs == c.variants[rec.variant]
  IN  [i \in DOMAIN fs |-> IF fs[i].skip \/ AdapterMeta(fs[i]) = <<>> THEN <<>>
                           ELSE EncodeField(fs[i], rec.vals[i])]

LEMMA KnownLength ==
  ASSUME NEW c \in Container, NEW rec, RecordHolds(c, rec)
  PROVE  /\ Len(EncodeTag(c, rec.variant)) + Len(FlattenSeq(KnownCodes(c, rec))) = KnownPart(c, rec.variant)
         /\ SumMeta(VariantMetas(c.variants[rec.variant])) # <<>> =>
              Len(EncodeRecord(c, rec)) = KnownPart(c, rec.variant)
<1> DEFINE fs == c.variants[rec.variant]
           s == FieldCodes(c, rec)
           m == VariantMetas(fs)
           k == KnownCodes(c, rec)
           n == Len(fs)
<1>1. /\ fs \in Seq(ContainerField) /\ s \in Seq(Seq(Byte)) /\ Len(s) = n
      /\ \A i \in 1 .. n : s[i] = EncodeField(fs[i], rec.vals[i])
      /\ m \in Seq(Meta) /\ Len(m) = n
      /\ \A i \in 1 .. n : m[i] # <<>> => Len(s[i]) = Known(m[i])
      /\ Len(EncodeRecord(c, rec)) = TagSize(c) + Len(FlattenSeq(s))
  BY FieldCodesType
<1>2. /\ k = [i \in DOMAIN fs |-> IF fs[i].skip \/ AdapterMeta(fs[i]) = <<>> THEN <<>>
                                  ELSE EncodeField(fs[i], rec.vals[i])]
      /\ m = [i \in DOMAIN fs |-> FieldWriteTypeMeta(fs[i])]
  BY DEF KnownCodes, VariantMetas
<1>3. rec.variant \in Nat /\ KnownPart(c, rec.variant) = TagSize(c) + KnownSize(m)
  BY ContainerParts DEF RecordHolds, KnownPart
<1>4. Len(EncodeTag(c, rec.variant)) = TagSize(c)
  BY <1>3, EncodeTagType
<1> HIDE DEF fs, s, m, k
<1>5. DOMAIN fs = 1 .. n /\ n \in Nat /\ \A i \in 1 .. n : s[i] \in Seq(Byte)
  BY <1>1, ElementOfSeq
<1>6. <<>> \in Seq(Byte) /\ Len(<<>>) = 0 /\ Known(<<>>) = 0 /\ Known(<<0>>) = 0
  BY EmptySeq DEF Known
<1>7. ASSUME NEW i \in 1 .. n PROVE k[i] \in Seq(Byte) /\ Len(k[i]) = Known(m[i])
  <2>1. /\ k[i] = IF fs[i].skip \/ AdapterMeta(fs[i]) = <<>> THEN <<>> ELSE s[i]
        /\ m[i] = IF fs[i].skip THEN <<0>> ELSE AdapterMeta(fs[i])
    BY <1>1, <1>2, <1>5 DEF FieldWriteTypeMeta
  <2> QED
    BY <1>1, <1>5, <1>6, <2>1
<1>8. k \in Seq(Seq(Byte)) /\ Len(k) = n
  <2>1. k = [i \in 1 .. n |-> k[i]]
    BY <1>2, <1>5
  <2> QED
    BY <1>5, <1>7, <2>1
<1>9. Len(FlattenSeq(k)) = KnownSize(m)
  BY <1>1, <1>7, <1>8, KnownSizeIsLength
<1>10. SumMeta(m) # <<>> => Len(FlattenSeq(s)) = KnownSize(m)
  BY <1>1, VariantLength
<1> QED
  BY <1>1, <1>3, <1>4, <1>9, <1>10 DEF fs, k, m
=============================================================================
