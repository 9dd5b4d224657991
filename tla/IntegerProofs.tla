---------------------------- MODULE IntegerProofs ----------------------------
(***************************************************************************)
(* wincode's integers: writing a number that was read gives back its       *)
(* bytes, reading a number that was written gives back the number, and a   *)
(* number that was read is in the range of its width.  For every width and *)
(* every even base.  Before that, what proofs about recursive functions    *)
(* and about sequences put together rest on.                               *)
(***************************************************************************)
EXTENDS Wincode, SequencesExt, WellFoundedInduction, SequenceTheorems, TLAPS

(***************************************************************************)
(* Induction without an operator parameter.  A set of naturals has a least *)
(* element, so a formula that holds of 0, and of n + 1 when it holds of n, *)
(* has no least counterexample; and a function that is defined by          *)
(* recursion on 0 .. m exists.                                             *)
(***************************************************************************)
LessThan == {x \in Nat \X Nat : x[1] < x[2]}

LEMMA LessThanWellFounded == IsWellFoundedOn(LessThan, Nat)
BY NatLessThanWellFounded DEF OpToRel, LessThan

LEMMA LeastNatural ==
  ASSUME NEW S, S \subseteq Nat, S # {}
  PROVE  \E n \in S : \A k \in S : n <= k
<1>1. PICK n \in S : \A k \in S : <<k, n>> \notin LessThan
  BY LessThanWellFounded, WFMin
<1>2. \A k \in S : ~(k < n)
  BY <1>1 DEF LessThan
<1> QED
  BY <1>1, <1>2

\* A set that has 0, and with every number the next one, has all numbers up to m.
LEMMA UpTo ==
  ASSUME NEW m \in Nat, NEW S,
         0 \in S, \A n \in 0 .. m - 1 : n \in S => n + 1 \in S
  PROVE  0 .. m \subseteq S
<1> DEFINE Out == {n \in 0 .. m : n \notin S}
<1>1. SUFFICES ASSUME Out # {} PROVE FALSE
  OBVIOUS
<1>2. PICK n \in Out : \A k \in Out : n <= k
  <2>1. Out \subseteq Nat
    OBVIOUS
  <2> HIDE DEF Out
  <2> QED
    BY <1>1, <2>1, LeastNatural
<1>3. n \in 1 .. m /\ n - 1 \in 0 .. m - 1 /\ n - 1 \notin Out /\ (n - 1) + 1 = n
  BY <1>2
<1>4. n - 1 \in S
  BY <1>3
<1> QED
  BY <1>2, <1>3, <1>4

\* g is what the recursion computes for the numbers up to n.
Computes(g, n, S, base, F) ==
  /\ g \in [0 .. n -> S]
  /\ \A i \in 0 .. n : g[i] = IF i = 0 THEN base ELSE F[<<i, g[i - 1]>>]

LEMMA RecursionExists ==
  ASSUME NEW m \in Nat, NEW S, NEW base \in S, NEW F \in [(1 .. m) \X S -> S]
  PROVE  \E g : Computes(g, m, S, base, F)
<1> DEFINE Good == {n \in 0 .. m : \E g : Computes(g, n, S, base, F)}
<1>1. 0 \in Good
  <2> DEFINE g == [i \in 0 .. 0 |-> base]
  <2>1. g \in [0 .. 0 -> S] /\ \A i \in 0 .. 0 : i = 0 /\ g[i] = base
    OBVIOUS
  <2>2. Computes(g, 0, S, base, F)
    BY <2>1 DEF Computes
  <2> QED
    BY <2>2
<1>2. ASSUME NEW n \in 0 .. m - 1, n \in Good
      PROVE  n + 1 \in Good
  <2>1. PICK g : Computes(g, n, S, base, F)
    BY <1>2
  <2> DEFINE last == F[<<n + 1, g[n]>>]
             h    == [i \in 0 .. n + 1 |-> IF i = n + 1 THEN last ELSE g[i]]
  <2>2. n \in Nat /\ n \in 0 .. n /\ n + 1 \in 1 .. m /\ n + 1 \in 0 .. n + 1
    OBVIOUS
  <2>3. /\ \A i \in 0 .. n : g[i] \in S
        /\ \A i \in 0 .. n : g[i] = IF i = 0 THEN base ELSE F[<<i, g[i - 1]>>]
    BY <2>1 DEF Computes
  <2>4. last \in S
    <3>1. <<n + 1, g[n]>> \in (1 .. m) \X S
      BY <2>2, <2>3
    <3> QED
      BY <3>1
  <2>5. \A i \in 0 .. n : i \in 0 .. n + 1 /\ i # n + 1 /\ h[i] = g[i]
    BY <2>2
  <2>6. h[n + 1] = last /\ h[n] = g[n]
    BY <2>2, <2>5
  <2>7. h \in [0 .. n + 1 -> S]
    <3>1. \A i \in 0 .. n + 1 : (IF i = n + 1 THEN last ELSE g[i]) \in S
      <4> TAKE i \in 0 .. n + 1
      <4>1. CASE i = n + 1
        BY <2>4, <4>1
      <4>2. CASE i # n + 1
        <5>1. i \in 0 .. n
          BY <2>2, <4>2
        <5> QED
          BY <2>3, <4>2, <5>1
      <4> QED
        BY <4>1, <4>2
    <3> QED
      BY <3>1
  <2>8. \A i \in 0 .. n + 1 : h[i] = IF i = 0 THEN base ELSE F[<<i, h[i - 1]>>]
    <3> HIDE DEF h
    <3> TAKE i \in 0 .. n + 1
    <3>1. CASE i = n + 1
      <4>1. i # 0 /\ i - 1 = n
        BY <2>2, <3>1
      <4>2. h[i] = F[<<i, h[i - 1]>>]
        BY <2>6, <3>1, <4>1
      <4> QED
        BY <4>1, <4>2
    <3>2. CASE i # n + 1
      <4>1. i \in 0 .. n /\ (i # 0 => i - 1 \in 0 .. n)
        BY <2>2, <3>2
      <4>2. h[i] = g[i] /\ (i # 0 => h[i - 1] = g[i - 1])
        BY <2>5, <4>1
      <4> QED
        BY <2>3, <4>1, <4>2
    <3> QED
      BY <3>1, <3>2
  <2>9. Computes(h, n + 1, S, base, F)
    BY <2>7, <2>8 DEF Computes
  <2> QED
    BY <2>2, <2>9
<1> HIDE DEF Good
<1>3. m \in Good
  BY <1>1, <1>2, UpTo
<1> QED
  BY <1>3 DEF Good

-----------------------------------------------------------------------------
(***************************************************************************)
(* FlattenSeq.                                                             *)
(***************************************************************************)
\* f[i] is what the first i sequences of s make together.
Joins(f, s, m, S) ==
  /\ f \in [1 .. m -> Seq(S)]
  /\ f[1] = s[1]
  /\ \A i \in 2 .. m : f[i] = f[i - 1] \o s[i]
  /\ FlattenSeq(s) = f[m]

LEMMA FlattenSteps ==
  ASSUME NEW S, NEW s \in Seq(Seq(S)), NEW m \in Nat \ {0}, Len(s) = m
  PROVE  \E f : Joins(f, s, m, S)
<1> DEFINE F == [x \in (1 .. m) \X Seq(S) |-> x[2] \o s[x[1]]]
           flatten == CHOOSE f : f = [i \in 1 .. m |-> IF i = 1 THEN s[i] ELSE f[i - 1] \o s[i]]
<1>1. FlattenSeq(s) = flatten[m]
  BY DEF FlattenSeq
<1>2. \A i \in 1 .. m : s[i] \in Seq(S)
  BY ElementOfSeq
<1>3. \A x \in Seq(S) : \A i \in 1 .. m : x \o s[i] \in Seq(S)
  BY <1>2, ConcatProperties
<1>4. F \in [(1 .. m) \X Seq(S) -> Seq(S)]
  BY <1>3
<1>5. PICK g : Computes(g, m, Seq(S), <<>>, F)
  <2>1. <<>> \in Seq(S) /\ m \in Nat
    BY EmptySeq
  <2> HIDE DEF F
  <2> QED
    BY <1>4, <2>1, RecursionExists, Zenon
<1>6. g \in [0 .. m -> Seq(S)] /\ \A i \in 0 .. m : g[i] = IF i = 0 THEN <<>> ELSE F[<<i, g[i - 1]>>]
  BY <1>5 DEF Computes
<1>7. \A i \in 1 .. m : g[i] = g[i - 1] \o s[i]
  <2> TAKE i \in 1 .. m
  <2>1. i \in 0 .. m /\ i # 0 /\ i - 1 \in 0 .. m
    OBVIOUS
  <2>2. g[i - 1] \in Seq(S) /\ g[i] = F[<<i, g[i - 1]>>]
    BY <1>6, <2>1
  <2>3. \A x \in Seq(S) : F[<<i, x>>] = x \o s[i]
    <3> TAKE x \in Seq(S)
    <3>1. <<i, x>> \in (1 .. m) \X Seq(S) /\ <<i, x>>[1] = i /\ <<i, x>>[2] = x
      OBVIOUS
    <3>2. \A p \in (1 .. m) \X Seq(S) : F[p] = p[2] \o s[p[1]]
      OBVIOUS
    <3> HIDE DEF F
    <3> QED
      BY <3>1, <3>2
  <2> HIDE DEF F
  <2> QED
    BY <2>2, <2>3
<1>8. g[1] = s[1]
  <2>1. 0 \in 0 .. m /\ 1 \in 1 .. m /\ 1 - 1 = 0
    OBVIOUS
  <2>3. g[0] = <<>>
    BY <1>6, <2>1
  <2>2. <<>> \o s[1] = s[1]
    BY <1>2, <2>1, ConcatEmptySeq
  <2> QED
    BY <1>7, <2>1, <2>2, <2>3
<1> DEFINE h == [i \in 1 .. m |-> g[i]]
<1>9. h = [i \in 1 .. m |-> IF i = 1 THEN s[i] ELSE h[i - 1] \o s[i]]
  <2>1. ASSUME NEW i \in 1 .. m PROVE h[i] = IF i = 1 THEN s[i] ELSE h[i - 1] \o s[i]
    <3>1. CASE i = 1
      BY <1>8, <3>1
    <3>2. CASE i # 1
      <4>1. i - 1 \in 1 .. m
        BY <3>2
      <4> QED
        BY <1>7, <3>2, <4>1
    <3> QED
      BY <3>1, <3>2
  <2> HIDE DEF h
  <2>2. h = [i \in 1 .. m |-> h[i]]
    BY DEF h
  <2> QED
    BY <2>1, <2>2
<1>10. flatten = [i \in 1 .. m |-> IF i = 1 THEN s[i] ELSE flatten[i - 1] \o s[i]]
  <2> HIDE DEF h
  <2> QED
    BY <1>9
<1> HIDE DEF flatten
<1>11. \A i \in 1 .. m : flatten[i] = IF i = 1 THEN s[i] ELSE flatten[i - 1] \o s[i]
  BY <1>10
<1>12. flatten[1] = s[1] /\ \A i \in 2 .. m : flatten[i] = flatten[i - 1] \o s[i]
  <2>1. 1 \in 1 .. m /\ \A i \in 2 .. m : i \in 1 .. m /\ i # 1
    OBVIOUS
  <2> QED
    BY <1>11, <2>1
<1>13. \A i \in 1 .. m : flatten[i] \in Seq(S)
  <2> DEFINE Z == {i \in 0 .. m : i # 0 => flatten[i] \in Seq(S)}
  <2>1. 0 \in Z
    OBVIOUS
  <2>2. ASSUME NEW i \in 0 .. m - 1, i \in Z PROVE i + 1 \in Z
    <3>1. i + 1 \in 1 .. m /\ i + 1 \in 0 .. m /\ (i # 0 => i + 1 \in 2 .. m) /\ (i + 1) - 1 = i
      OBVIOUS
    <3>2. CASE i = 0
      BY <1>2, <1>12, <3>1, <3>2
    <3>3. CASE i # 0
      <4>1. flatten[i + 1] = flatten[i] \o s[i + 1]
        BY <1>12, <3>1, <3>3
      <4> QED
        BY <1>3, <2>2, <3>1, <3>3, <4>1
    <3> QED
      BY <3>2, <3>3
  <2> HIDE DEF Z
  <2>3. 0 .. m \subseteq Z
    BY <2>1, <2>2, UpTo
  <2> QED
    BY <2>3 DEF Z
<1>14. flatten \in [1 .. m -> Seq(S)]
  BY <1>10, <1>13
<1> QED
  BY <1>1, <1>12, <1>14 DEF Joins

LEMMA FlattenAppend ==
  ASSUME NEW S, NEW s \in Seq(Seq(S)), NEW x \in Seq(S)
  PROVE  FlattenSeq(Append(s, x)) = FlattenSeq(s) \o x /\ FlattenSeq(Append(s, x)) \in Seq(S)
<1> DEFINE m == Len(s)
           t == Append(s, x)
<1>1. m \in Nat /\ t \in Seq(Seq(S)) /\ Len(t) = m + 1 /\ t[m + 1] = x
      /\ \A i \in 1 .. m : t[i] = s[i]
  OBVIOUS
<1> HIDE DEF t, m
<1>2. PICK g : Joins(g, t, m + 1, S)
  <2>1. m + 1 \in Nat \ {0}
    BY <1>1
  <2> QED
    BY <1>1, <2>1, FlattenSteps
<1>3. FlattenSeq(t) \in Seq(S)
  BY <1>1, <1>2 DEF Joins
<1>4. CASE m = 0
  <2>1. s = <<>>
    BY <1>4 DEF m
  <2>2. FlattenSeq(s) = <<>>
    BY <2>1 DEF FlattenSeq
  <2>3. FlattenSeq(t) = x
    BY <1>1, <1>2, <1>4 DEF Joins
  <2> QED
    BY <1>3, <2>2, <2>3, ConcatEmptySeq DEF t
<1>5. CASE m # 0
  <2>1. PICK f : Joins(f, s, m, S)
    BY <1>1, <1>5, FlattenSteps DEF m
  <2> DEFINE Z == {i \in 0 .. m : i # 0 => f[i] = g[i]}
  <2>2. 0 \in Z
    BY <1>1
  <2>3. ASSUME NEW i \in 0 .. m - 1, i \in Z PROVE i + 1 \in Z
    <3>1. i + 1 \in 1 .. m /\ i + 1 \in 0 .. m /\ i + 1 \in 1 .. m + 1 /\ (i + 1) - 1 = i
          /\ (i # 0 => i + 1 \in 2 .. m /\ i + 1 \in 2 .. m + 1)
      BY <1>1
    <3>2. CASE i = 0
      BY <1>1, <1>2, <2>1, <3>1, <3>2 DEF Joins
    <3>3. CASE i # 0
      <4>1. f[i + 1] = f[i] \o s[i + 1] /\ g[i + 1] = g[i] \o t[i + 1]
        BY <1>2, <2>1, <3>1, <3>3 DEF Joins
      <4> QED
        BY <1>1, <2>3, <3>1, <3>3, <4>1
    <3> QED
      BY <3>2, <3>3
  <2> HIDE DEF Z
  <2>4. 0 .. m \subseteq Z
    BY <1>1, <2>2, <2>3, UpTo
  <2>5. f[m] = g[m]
    <3>1. m \in 0 .. m
      BY <1>1
    <3> QED
      BY <1>5, <2>4, <3>1 DEF Z
  <2>6. m + 1 \in 2 .. m + 1 /\ (m + 1) - 1 = m
    BY <1>1, <1>5
  <2>7. g[m + 1] = g[m] \o t[m + 1]
    BY <1>2, <2>6 DEF Joins
  <2> QED
    BY <1>1, <1>2, <1>3, <2>1, <2>5, <2>7 DEF t, Joins
<1> QED
  BY <1>4, <1>5

LEMMA FlattenType ==
  ASSUME NEW S, NEW s \in Seq(Seq(S))
  PROVE  FlattenSeq(s) \in Seq(S) /\ FlattenSeq(<<>>) = <<>>
<1>1. FlattenSeq(<<>>) = <<>>
  BY DEF FlattenSeq
<1>2. CASE Len(s) = 0
  BY <1>1, <1>2, EmptySeq
<1>3. CASE Len(s) # 0
  <2>1. Len(s) \in Nat \ {0}
    BY <1>3
  <2>2. PICK f : Joins(f, s, Len(s), S)
    BY <2>1, FlattenSteps
  <2>3. Len(s) \in 1 .. Len(s)
    BY <2>1
  <2>4. f[Len(s)] \in Seq(S) /\ FlattenSeq(s) = f[Len(s)]
    <3> HIDE DEF FlattenSeq
    <3> QED
      BY <2>2, <2>3 DEF Joins
  <2> QED
    BY <1>1, <2>4
<1> QED
  BY <1>2, <1>3

\* The first n sequences of s put together, and how long that is.
Joined(s, n) == FlattenSeq(SubSeq(s, 1, n))

Offset(s, n) == Len(Joined(s, n))

LEMMA JoinedStep ==
  ASSUME NEW S, NEW s \in Seq(Seq(S)), NEW n \in 1 .. Len(s)
  PROVE  /\ Joined(s, n - 1) \in Seq(S) /\ Joined(s, n) \in Seq(S) /\ s[n] \in Seq(S)
         /\ Joined(s, n) = Joined(s, n - 1) \o s[n]
<1> DEFINE T == Seq(S)
           a == SubSeq(s, 1, n - 1)
           b == SubSeq(s, 1, n)
<1>1. s[n] \in T /\ \A i \in 1 .. n : s[i] \in T
  BY ElementOfSeq
<1>2. n \in Int /\ n - 1 \in Int /\ n >= 1 /\ \A i \in 1 .. n - 1 : s[i] \in T
  BY <1>1
<1> HIDE DEF T
<1>3. a \in Seq(T) /\ Len(a) = n - 1 /\ \A i \in 1 .. n - 1 : a[i] = s[i]
  <2>1. a \in Seq(T) /\ Len(a) = (IF 1 <= n - 1 THEN (n - 1) - 1 + 1 ELSE 0)
        /\ \A i \in 1 .. (n - 1) - 1 + 1 : a[i] = s[1 + i - 1]
    BY <1>2, SubSeqProperties
  <2>2. (n - 1) - 1 + 1 = n - 1 /\ \A i \in 1 .. n - 1 : 1 + i - 1 = i
    BY <1>2
  <2> QED
    BY <1>2, <2>1, <2>2
<1>4. b \in Seq(T) /\ Len(b) = n /\ \A i \in 1 .. n : b[i] = s[i]
  <2>1. b \in Seq(T) /\ Len(b) = (IF 1 <= n THEN n - 1 + 1 ELSE 0)
        /\ \A i \in 1 .. n - 1 + 1 : b[i] = s[1 + i - 1]
    BY <1>1, <1>2, SubSeqProperties
  <2>2. n - 1 + 1 = n /\ \A i \in 1 .. n : 1 + i - 1 = i
    BY <1>2
  <2> QED
    BY <1>2, <2>1, <2>2
<1>5. b = Append(a, s[n])
  <2> DEFINE c == Append(a, s[n])
  <2>1. c \in Seq(T) /\ Len(c) = (n - 1) + 1 /\ (\A i \in 1 .. n - 1 : c[i] = a[i]) /\ c[(n - 1) + 1] = s[n]
    BY <1>1, <1>3, AppendProperties
  <2> HIDE DEF a, b, c
  <2>2. (n - 1) + 1 = n
    BY <1>2
  <2>3. \A i \in 1 .. n : b[i] = c[i]
    <3> TAKE i \in 1 .. n
    <3>1. i = n \/ i \in 1 .. n - 1
      OBVIOUS
    <3> QED
      BY <1>3, <1>4, <2>1, <2>2, <3>1
  <2>4. b = c
    BY <1>4, <2>1, <2>2, <2>3, SeqEqual
  <2> QED
    BY <2>4 DEF c
<1> HIDE DEF a, b
<1>6. FlattenSeq(a) \in Seq(S)
  BY <1>3, FlattenType DEF T
<1>7. FlattenSeq(b) = FlattenSeq(a) \o s[n] /\ FlattenSeq(b) \in Seq(S)
  BY <1>1, <1>3, <1>5, FlattenAppend DEF T
<1> QED
  BY <1>1, <1>6, <1>7 DEF Joined, a, b, T

\* Where the n-th sequence of s is in FlattenSeq(s).
LEMMA FlattenPlaces ==
  ASSUME NEW S, NEW s \in Seq(Seq(S))
  PROVE  /\ Offset(s, 0) = 0 /\ Offset(s, Len(s)) = Len(FlattenSeq(s))
         /\ Joined(s, Len(s)) = FlattenSeq(s)
         /\ \A n \in 0 .. Len(s) : Offset(s, n) \in 0 .. Len(FlattenSeq(s))
         /\ \A n \in 1 .. Len(s) :
              /\ Offset(s, n) = Offset(s, n - 1) + Len(s[n])
              /\ \A k \in 1 .. Len(s[n]) : FlattenSeq(s)[Offset(s, n - 1) + k] = s[n][k]
<1> DEFINE m == Len(s)
<1>1. m \in Nat
  OBVIOUS
<1>2. Joined(s, 0) = <<>>
  <2>1. 1 \in Int /\ 0 \in Int /\ 0 < 1
    OBVIOUS
  <2>2. SubSeq(s, 1, 0) = <<>>
    BY <2>1, SubSeqEmpty
  <2> QED
    BY <2>2, FlattenType DEF Joined
<1>3. Joined(s, m) = FlattenSeq(s)
  BY SubSeqFull DEF Joined
<1>4. \A n \in 0 .. m : Joined(s, n) \in Seq(S)
  <2> TAKE n \in 0 .. m
  <2>1. CASE n = 0
    BY <1>2, <2>1, EmptySeq
  <2>2. CASE n # 0
    <3>1. n \in 1 .. Len(s)
      BY <2>2
    <3> QED
      BY <3>1, JoinedStep
  <2> QED
    BY <2>1, <2>2
<1>5. \A n \in 1 .. m :
        /\ s[n] \in Seq(S) /\ Len(s[n]) \in Nat /\ Offset(s, n - 1) \in Nat
        /\ Offset(s, n) = Offset(s, n - 1) + Len(s[n])
        /\ \A k \in 1 .. Offset(s, n - 1) : Joined(s, n)[k] = Joined(s, n - 1)[k]
        /\ \A k \in 1 .. Len(s[n]) : Joined(s, n)[Offset(s, n - 1) + k] = s[n][k]
  <2> TAKE n \in 1 .. m
  <2> DEFINE a == Joined(s, n - 1)
             b == Joined(s, n)
             x == s[n]
  <2>1. a \in Seq(S) /\ x \in Seq(S) /\ b = a \o x
    BY JoinedStep
  <2> HIDE DEF a, b, x
  <2>2. Len(a) \in Nat /\ Len(x) \in Nat /\ Len(b) = Len(a) + Len(x)
        /\ \A k \in 1 .. Len(a) + Len(x) : b[k] = IF k <= Len(a) THEN a[k] ELSE x[k - Len(a)]
    BY <2>1, ConcatProperties
  <2>3. \A k \in 1 .. Len(a) : b[k] = a[k]
    BY <2>2
  <2>4. \A k \in 1 .. Len(x) : b[Len(a) + k] = x[k]
    <3> TAKE k \in 1 .. Len(x)
    <3>1. Len(a) + k \in 1 .. Len(a) + Len(x) /\ ~(Len(a) + k <= Len(a)) /\ (Len(a) + k) - Len(a) = k
      BY <2>2
    <3> QED
      BY <2>2, <3>1
  <2> QED
    BY <2>1, <2>2, <2>3, <2>4 DEF a, b, x, Offset
<1> HIDE DEF m
<1>6. ASSUME NEW n \in 0 .. m
      PROVE  /\ Offset(s, n) \in Nat /\ Offset(s, n) <= Offset(s, m)
             /\ \A k \in 1 .. Offset(s, n) : Joined(s, m)[k] = Joined(s, n)[k]
  <2> DEFINE Z == {i \in 0 .. m : i >= n =>
                     /\ Offset(s, i) \in Nat /\ Offset(s, n) <= Offset(s, i)
                     /\ \A k \in 1 .. Offset(s, n) : Joined(s, i)[k] = Joined(s, n)[k]}
  <2>1. Offset(s, n) \in Nat /\ Offset(s, 0) = 0
    BY <1>2, <1>4 DEF Offset
  <2>2. 0 \in Z
    BY <1>1, <2>1
  <2>3. ASSUME NEW i \in 0 .. m - 1, i \in Z PROVE i + 1 \in Z
    <3>1. i + 1 \in 1 .. m /\ i + 1 \in 0 .. m /\ (i + 1) - 1 = i
      BY <1>1
    <3>2. CASE i + 1 > n
      <4>1. /\ Offset(s, i) \in Nat /\ Offset(s, n) <= Offset(s, i)
            /\ \A k \in 1 .. Offset(s, n) : Joined(s, i)[k] = Joined(s, n)[k]
        BY <2>3, <3>1, <3>2
      <4>2. /\ Len(s[i + 1]) \in Nat
            /\ Offset(s, i + 1) = Offset(s, i) + Len(s[i + 1])
            /\ \A k \in 1 .. Offset(s, i) : Joined(s, i + 1)[k] = Joined(s, i)[k]
        BY <1>5, <3>1
      <4>3. \A k \in 1 .. Offset(s, n) : k \in 1 .. Offset(s, i)
        BY <2>1, <4>1
      <4> HIDE DEF Z
      <4>4. /\ Offset(s, i + 1) \in Nat /\ Offset(s, n) <= Offset(s, i + 1)
            /\ \A k \in 1 .. Offset(s, n) : Joined(s, i + 1)[k] = Joined(s, n)[k]
        BY <2>1, <4>1, <4>2, <4>3
      <4> QED
        BY <3>1, <4>4 DEF Z
    <3>3. CASE i + 1 = n
      BY <2>1, <3>1, <3>3
    <3>4. CASE i + 1 < n
      BY <3>1, <3>4
    <3> QED
      BY <3>1, <3>2, <3>3, <3>4
  <2> HIDE DEF Z
  <2>4. 0 .. m \subseteq Z
    BY <1>1, <2>2, <2>3, UpTo
  <2>5. m \in Z /\ m >= n
    BY <1>1, <2>4
  <2> QED
    BY <2>1, <2>5 DEF Z
<1>7. Offset(s, m) = Len(FlattenSeq(s)) /\ Offset(s, 0) = 0
  BY <1>2, <1>3 DEF Offset
<1>8. \A n \in 0 .. m : Offset(s, n) \in 0 .. Len(FlattenSeq(s))
  BY <1>1, <1>6, <1>7
<1>9. ASSUME NEW n \in 1 .. m, NEW k \in 1 .. Len(s[n])
      PROVE  FlattenSeq(s)[Offset(s, n - 1) + k] = s[n][k]
  <2>1. n \in 0 .. m
    BY <1>1
  <2>2. Offset(s, n - 1) + k \in 1 .. Offset(s, n)
    <3> DEFINE a == Offset(s, n - 1)
               b == Len(s[n])
    <3>1. a \in Nat /\ b \in Nat /\ Offset(s, n) = a + b
      BY <1>5
    <3> HIDE DEF a, b
    <3>2. k \in 1 .. b
      BY DEF b
    <3>3. a + k \in 1 .. a + b
      BY <3>1, <3>2
    <3> QED
      BY <3>1, <3>3 DEF a
  <2> QED
    BY <1>3, <1>5, <1>6, <2>1, <2>2
<1> QED
  BY <1>3, <1>5, <1>7, <1>8, <1>9 DEF m

-----------------------------------------------------------------------------
LEMMA BaseType == Base \in Nat /\ Base > 2 /\ Base % 2 = 0
BY WincodeAssumption

-----------------------------------------------------------------------------
(***************************************************************************)
(* Division by Base.                                                       *)
(***************************************************************************)
LEMMA DivMod ==
  ASSUME NEW n \in Int
  PROVE  n = (n % Base) + Base * (n \div Base) /\ n % Base \in Byte /\ n \div Base \in Int
BY BaseType DEF Byte

LEMMA SmallMultiple ==
  ASSUME NEW k \in Int, -Base < Base * k, Base * k < Base
  PROVE  k = 0
<1>1. k >= 1 => Base * k >= Base
  BY BaseType
<1>2. k <= -1 => Base * k <= -Base
  BY BaseType
<1> QED
  BY <1>1, <1>2, BaseType

LEMMA DivModUnique ==
  ASSUME NEW d \in Byte, NEW n \in Int
  PROVE  (d + Base * n) % Base = d /\ (d + Base * n) \div Base = n
<1> DEFINE x == d + Base * n
           q == x \div Base
           r == x % Base
<1>1. x \in Int /\ d \in 0 .. Base - 1
  BY BaseType DEF Byte
<1> HIDE DEF x
<1>2. x = r + Base * q /\ r \in 0 .. Base - 1 /\ q \in Int
  BY <1>1, DivMod DEF Byte
<1> HIDE DEF q, r
<1>3. Base * (q - n) = Base * q - Base * n /\ Base * q \in Int /\ Base * n \in Int
  BY <1>2, BaseType
<1>4. q - n = 0
  <2>1. Base * (q - n) = d - r
    BY <1>1, <1>2, <1>3, BaseType DEF x
  <2>2. -Base < d - r /\ d - r < Base
    BY <1>1, <1>2, BaseType
  <2> QED
    BY <1>2, <2>1, <2>2, SmallMultiple
<1>5. q = n
  BY <1>2, <1>4
<1>6. r = d
  BY <1>1, <1>2, <1>3, <1>5, BaseType DEF x
<1> QED
  BY <1>5, <1>6 DEF x, q, r

LEMMA DivRange ==
  ASSUME NEW x \in Nat, NEW s \in Nat, x <= Base * s - 1
  PROVE  x \div Base \in 0 .. s - 1
<1> DEFINE q == x \div Base
           r == x % Base
<1>1. x = r + Base * q /\ r \in 0 .. Base - 1 /\ q \in Int
  BY DivMod DEF Byte
<1> HIDE DEF q, r
<1>2. Base * q \in Int /\ Base * s \in Int /\ Base * (q - s) = Base * q - Base * s
  BY <1>1, BaseType
<1>3. -Base < Base * q /\ Base * (q - s) < 0
  BY <1>1, <1>2, BaseType
<1>4. q >= 0
  <2>1. q <= -1 => Base * q <= -Base
    BY <1>1, BaseType
  <2> QED
    BY <1>1, <1>2, <1>3, <2>1, BaseType
<1>5. q < s
  <2> DEFINE k == q - s
  <2>1. k \in Int /\ Base * k < 0
    BY <1>1, <1>3
  <2> HIDE DEF k
  <2>2. k >= 0 => Base * k >= 0
    BY <2>1, BaseType
  <2>3. Base * k \in Int
    BY <2>1, BaseType
  <2>4. k < 0
    BY <2>1, <2>2, <2>3
  <2> QED
    BY <1>1, <2>4 DEF k
<1> QED
  BY <1>1, <1>4, <1>5 DEF q

-----------------------------------------------------------------------------
(***************************************************************************)
(* What the recursive definitions compute.                                 *)
(***************************************************************************)
LEMMA UnsignedSteps ==
  ASSUME NEW bs \in Seq(Int)
  PROVE  \E f \in [0 .. Len(bs) -> Int] :
           /\ f[0] = 0
           /\ \A i \in 1 .. Len(bs) : f[i] = bs[Len(bs) - i + 1] + Base * f[i - 1]
           /\ Unsigned(bs) = f[Len(bs)]
<1> DEFINE m == Len(bs)
           F == [x \in (1 .. m) \X Int |-> bs[m - x[1] + 1] + Base * x[2]]
           high == CHOOSE f : f = [i \in 0 .. m |-> IF i = 0 THEN 0
                                                   ELSE bs[m - i + 1] + Base * f[i - 1]]
<1>1. m \in Nat /\ \A i \in 1 .. m : bs[m - i + 1] \in Int
  OBVIOUS
<1>2. Unsigned(bs) = high[m]
  BY DEF Unsigned
<1> HIDE DEF m
<1>3. F \in [(1 .. m) \X Int -> Int]
  BY <1>1, BaseType
<1>4. PICK g : Computes(g, m, Int, 0, F)
  <2>1. 0 \in Int
    OBVIOUS
  <2> HIDE DEF F
  <2> QED
    BY <1>1, <1>3, <2>1, RecursionExists, Zenon
<1>5. g \in [0 .. m -> Int] /\ \A i \in 0 .. m : g[i] = IF i = 0 THEN 0 ELSE F[<<i, g[i - 1]>>]
  BY <1>4 DEF Computes
<1>6. \A i \in 0 .. m : g[i] = IF i = 0 THEN 0 ELSE bs[m - i + 1] + Base * g[i - 1]
  <2> TAKE i \in 0 .. m
  <2>1. CASE i # 0
    <3>1. i \in 1 .. m /\ i - 1 \in 0 .. m
      BY <1>1, <2>1
    <3>2. <<i, g[i - 1]>> \in (1 .. m) \X Int
      BY <1>5, <3>1
    <3> QED
      BY <1>5, <2>1, <3>2
  <2> QED
    BY <1>5, <2>1
<1>7. g = [i \in 0 .. m |-> IF i = 0 THEN 0 ELSE bs[m - i + 1] + Base * g[i - 1]]
  BY <1>5, <1>6
<1>8. high = [i \in 0 .. m |-> IF i = 0 THEN 0 ELSE bs[m - i + 1] + Base * high[i - 1]]
  BY <1>7
<1> HIDE DEF high
<1>9. high[0] = 0 /\ \A i \in 1 .. m : high[i] = bs[m - i + 1] + Base * high[i - 1]
  <2>1. 0 \in 0 .. m /\ \A i \in 1 .. m : i \in 0 .. m /\ i # 0
    BY <1>1
  <2> QED
    BY <1>8, <2>1
<1>10. \A i \in 0 .. m : high[i] \in Int
  <2> DEFINE S == {i \in 0 .. m : high[i] \in Int}
  <2>1. 0 \in S
    BY <1>1, <1>9
  <2>2. ASSUME NEW i \in 0 .. m - 1, i \in S PROVE i + 1 \in S
    <3>1. i + 1 \in 1 .. m /\ i + 1 - 1 = i /\ high[i] \in Int
      BY <1>1, <2>2
    <3>2. bs[m - (i + 1) + 1] \in Int
      BY <1>1, <3>1
    <3>3. high[i + 1] = bs[m - (i + 1) + 1] + Base * high[i]
      BY <1>9, <3>1
    <3>4. high[i + 1] \in Int
      BY <3>1, <3>2, <3>3, BaseType
    <3> QED
      BY <3>1, <3>4
  <2> HIDE DEF S
  <2>3. 0 .. m \subseteq S
    BY <1>1, <2>1, <2>2, UpTo
  <2> QED
    BY <2>3 DEF S
<1>11. high \in [0 .. m -> Int]
  BY <1>8, <1>10
<1> QED
  BY <1>2, <1>9, <1>11 DEF m

\* The same for a known length.
LEMMA UnsignedStepsOf ==
  ASSUME NEW bs \in Seq(Int), NEW m, Len(bs) = m
  PROVE  \E f \in [0 .. m -> Int] :
           /\ f[0] = 0
           /\ \A i \in 1 .. m : f[i] = bs[m - i + 1] + Base * f[i - 1]
           /\ Unsigned(bs) = f[m]
<1> DEFINE k == Len(bs)
<1>1. \E f \in [0 .. k -> Int] :
        /\ f[0] = 0
        /\ \A i \in 1 .. k : f[i] = bs[k - i + 1] + Base * f[i - 1]
        /\ Unsigned(bs) = f[k]
  BY UnsignedSteps
<1>2. k = m
  OBVIOUS
<1> HIDE DEF k
<1> QED
  BY <1>1, <1>2

LEMMA LittleEndianSteps ==
  ASSUME NEW n \in Int, NEW w \in Nat
  PROVE  \E f \in [0 .. w -> Int] :
           /\ f[0] = n
           /\ \A i \in 1 .. w : f[i] = f[i - 1] \div Base
           /\ LittleEndian(n, w) = [i \in 1 .. w |-> f[i - 1] % Base]
<1> DEFINE F    == [x \in (1 .. w) \X Int |-> x[2] \div Base]
           rest == CHOOSE f : f = [i \in 0 .. w |-> IF i = 0 THEN n ELSE f[i - 1] \div Base]
<1>1. LittleEndian(n, w) = [i \in 1 .. w |-> rest[i - 1] % Base]
  BY DEF LittleEndian
<1>2. F \in [(1 .. w) \X Int -> Int]
  BY BaseType
<1>3. PICK g : Computes(g, w, Int, n, F)
  <2> HIDE DEF F
  <2> QED
    BY <1>2, RecursionExists, Zenon
<1>4. g \in [0 .. w -> Int] /\ \A i \in 0 .. w : g[i] = IF i = 0 THEN n ELSE F[<<i, g[i - 1]>>]
  BY <1>3 DEF Computes
<1>5. \A i \in 0 .. w : g[i] = IF i = 0 THEN n ELSE g[i - 1] \div Base
  <2> TAKE i \in 0 .. w
  <2>1. CASE i # 0
    <3>1. i \in 1 .. w /\ i - 1 \in 0 .. w
      BY <2>1
    <3>2. <<i, g[i - 1]>> \in (1 .. w) \X Int
      BY <1>4, <3>1
    <3> QED
      BY <1>4, <2>1, <3>2
  <2> QED
    BY <1>4, <2>1
<1>6. g = [i \in 0 .. w |-> IF i = 0 THEN n ELSE g[i - 1] \div Base]
  BY <1>4, <1>5
<1>7. rest = [i \in 0 .. w |-> IF i = 0 THEN n ELSE rest[i - 1] \div Base]
  BY <1>6
<1> HIDE DEF rest
<1>8. rest[0] = n /\ \A i \in 1 .. w : rest[i] = rest[i - 1] \div Base
  <2>1. 0 \in 0 .. w /\ \A i \in 1 .. w : i \in 0 .. w /\ i # 0
    OBVIOUS
  <2> QED
    BY <1>7, <2>1
<1>9. \A i \in 0 .. w : rest[i] \in Int
  <2> DEFINE S == {i \in 0 .. w : rest[i] \in Int}
  <2>1. 0 \in S
    BY <1>8
  <2>2. ASSUME NEW i \in 0 .. w - 1, i \in S PROVE i + 1 \in S
    <3>1. i + 1 \in 1 .. w /\ i + 1 - 1 = i /\ rest[i] \in Int
      BY <2>2
    <3>2. rest[i + 1] = rest[i] \div Base
      BY <1>8, <3>1
    <3>3. rest[i + 1] \in Int
      BY <3>1, <3>2, BaseType
    <3> QED
      BY <3>1, <3>3
  <2> HIDE DEF S
  <2>3. 0 .. w \subseteq S
    BY <2>1, <2>2, UpTo
  <2> QED
    BY <2>3 DEF S
<1>10. rest \in [0 .. w -> Int]
  BY <1>7, <1>9
<1> QED
  BY <1>1, <1>8, <1>10

LEMMA SpanSteps ==
  ASSUME NEW w \in Nat
  PROVE  \E f \in [0 .. w -> Nat] :
           f[0] = 1 /\ (\A i \in 1 .. w : f[i] = Base * f[i - 1]) /\ Span(w) = f[w]
<1> DEFINE F    == [x \in (1 .. w) \X Nat |-> Base * x[2]]
           span == CHOOSE f : f = [i \in 0 .. w |-> IF i = 0 THEN 1 ELSE Base * f[i - 1]]
<1>1. Span(w) = span[w]
  BY DEF Span
<1>2. F \in [(1 .. w) \X Nat -> Nat]
  BY BaseType
<1>3. PICK g : Computes(g, w, Nat, 1, F)
  <2>1. 1 \in Nat
    OBVIOUS
  <2> HIDE DEF F
  <2> QED
    BY <1>2, <2>1, RecursionExists, Zenon
<1>4. g \in [0 .. w -> Nat] /\ \A i \in 0 .. w : g[i] = IF i = 0 THEN 1 ELSE F[<<i, g[i - 1]>>]
  BY <1>3 DEF Computes
<1>5. \A i \in 0 .. w : g[i] = IF i = 0 THEN 1 ELSE Base * g[i - 1]
  <2> TAKE i \in 0 .. w
  <2>1. CASE i # 0
    <3>1. i \in 1 .. w /\ i - 1 \in 0 .. w
      BY <2>1
    <3>2. <<i, g[i - 1]>> \in (1 .. w) \X Nat
      BY <1>4, <3>1
    <3> QED
      BY <1>4, <2>1, <3>2
  <2> QED
    BY <1>4, <2>1
<1>6. g = [i \in 0 .. w |-> IF i = 0 THEN 1 ELSE Base * g[i - 1]]
  BY <1>4, <1>5
<1>7. span = [i \in 0 .. w |-> IF i = 0 THEN 1 ELSE Base * span[i - 1]]
  BY <1>6
<1> HIDE DEF span
<1>8. span[0] = 1 /\ \A i \in 1 .. w : span[i] = Base * span[i - 1]
  <2>1. 0 \in 0 .. w /\ \A i \in 1 .. w : i \in 0 .. w /\ i # 0
    OBVIOUS
  <2> QED
    BY <1>7, <2>1
<1>9. \A i \in 0 .. w : span[i] \in Nat
  <2> DEFINE S == {i \in 0 .. w : span[i] \in Nat}
  <2>1. 0 \in S
    BY <1>8
  <2>2. ASSUME NEW i \in 0 .. w - 1, i \in S PROVE i + 1 \in S
    <3>1. i + 1 \in 1 .. w /\ i + 1 - 1 = i /\ span[i] \in Nat
      BY <2>2
    <3>2. span[i + 1] = Base * span[i]
      BY <1>8, <3>1
    <3>3. span[i + 1] \in Nat
      BY <3>1, <3>2, BaseType
    <3> QED
      BY <3>1, <3>3
  <2> HIDE DEF S
  <2>3. 0 .. w \subseteq S
    BY <2>1, <2>2, UpTo
  <2> QED
    BY <2>3 DEF S
<1>10. span \in [0 .. w -> Nat]
  BY <1>7, <1>9
<1> QED
  BY <1>1, <1>8, <1>10

LEMMA SpanStep ==
  ASSUME NEW w \in Nat
  PROVE  Span(0) = 1 /\ Span(w) \in Nat \ {0} /\ Span(w + 1) = Base * Span(w)
<1>1. Span(0) = 1
  BY SpanSteps
<1>2. PICK f \in [0 .. w -> Nat] :
        f[0] = 1 /\ (\A i \in 1 .. w : f[i] = Base * f[i - 1]) /\ Span(w) = f[w]
  BY SpanSteps
<1>3. PICK g \in [0 .. w + 1 -> Nat] :
        g[0] = 1 /\ (\A i \in 1 .. w + 1 : g[i] = Base * g[i - 1]) /\ Span(w + 1) = g[w + 1]
  <2>1. w + 1 \in Nat
    OBVIOUS
  <2> QED
    BY <2>1, SpanSteps
<1> DEFINE S == {i \in 0 .. w : f[i] = g[i] /\ f[i] # 0}
<1>4. 0 \in S
  BY <1>2, <1>3
<1>5. ASSUME NEW i \in 0 .. w - 1, i \in S PROVE i + 1 \in S
  <2>1. i + 1 \in 1 .. w /\ i + 1 \in 1 .. w + 1 /\ i + 1 - 1 = i
        /\ f[i] = g[i] /\ f[i] # 0 /\ f[i] \in Nat
    BY <1>5
  <2>2. f[i + 1] = Base * f[i] /\ g[i + 1] = Base * f[i]
    BY <1>2, <1>3, <2>1
  <2>3. Base * f[i] # 0
    BY <2>1, BaseType
  <2> QED
    BY <2>1, <2>2, <2>3
<1> HIDE DEF S
<1>6. w \in S
  <2>1. 0 .. w \subseteq S
    BY <1>4, <1>5, UpTo
  <2> QED
    BY <2>1
<1>7. f[w] = g[w] /\ f[w] # 0
  BY <1>6 DEF S
<1>8. g[w + 1] = Base * g[w]
  BY <1>3
<1> QED
  BY <1>1, <1>2, <1>3, <1>7, <1>8

-----------------------------------------------------------------------------
(***************************************************************************)
(* Bytes to number to bytes.  The top one of ds counts as a byte does, or  *)
(* negatively.                                                             *)
(***************************************************************************)
LEMMA WriteWhatWasRead ==
  ASSUME NEW bs \in Seq(Byte), NEW ds \in Seq(Int), NEW m \in Nat \ {0},
         Len(bs) = m, Len(ds) = m, \A j \in 1 .. m - 1 : ds[j] = bs[j],
         ds[m] \in {bs[m], bs[m] - Base}
  PROVE  LittleEndian(Unsigned(ds), m) = bs
<1> DEFINE n == Unsigned(ds)
<1>1. PICK f \in [0 .. m -> Int] :
        /\ f[0] = 0 /\ \A i \in 1 .. m : f[i] = ds[m - i + 1] + Base * f[i - 1]
        /\ n = f[m]
  BY UnsignedStepsOf
<1> HIDE DEF n
<1>2. n \in Int
  BY <1>1
<1>3. PICK r \in [0 .. m -> Int] :
        /\ r[0] = n /\ \A i \in 1 .. m : r[i] = r[i - 1] \div Base
        /\ LittleEndian(n, m) = [i \in 1 .. m |-> r[i - 1] % Base]
  BY <1>2, LittleEndianSteps
<1>4. \A j \in 1 .. m : bs[j] \in Byte
  BY ElementOfSeq
<1>5. ASSUME NEW i \in 1 .. m - 1
      PROVE  /\ f[m - i + 1] % Base = bs[i]
             /\ f[m - i + 1] \div Base = f[m - i]
  <2>1. m - i + 1 \in 1 .. m /\ m - (m - i + 1) + 1 = i /\ m - i + 1 - 1 = m - i /\ m - i \in 0 .. m
    OBVIOUS
  <2>2. f[m - i + 1] = ds[i] + Base * f[m - i]
    BY <1>1, <2>1
  <2>3. ds[i] = bs[i] /\ bs[i] \in Byte /\ f[m - i] \in Int
    BY <1>4, <2>1
  <2> QED
    BY <2>2, <2>3, DivModUnique
<1>6. f[1] % Base = bs[m]
  <2>1. f[1] = ds[m] + Base * f[0]
    <3>1. 1 \in 1 .. m /\ m - 1 + 1 = m /\ 1 - 1 = 0
      OBVIOUS
    <3> QED
      BY <1>1, <3>1
  <2>2. bs[m] \in Byte /\ bs[m] \in Int
    BY <1>4, BaseType DEF Byte
  <2>3. \/ f[1] = bs[m] + Base * 0
        \/ f[1] = bs[m] + Base * (-1)
    <3>1. Base * 0 = 0 /\ Base * (-1) = -Base
      BY BaseType
    <3>2. ds[m] \in Int /\ f[1] = ds[m]
      BY <1>1, <2>1, <3>1, ElementOfSeq
    <3>3. CASE ds[m] = bs[m]
      BY <2>2, <3>1, <3>2, <3>3
    <3>4. CASE ds[m] = bs[m] - Base
      BY <2>2, <3>1, <3>2, <3>4, BaseType
    <3> QED
      BY <3>3, <3>4
  <2> QED
    BY <2>2, <2>3, DivModUnique
<1>7. \A i \in 0 .. m - 1 : r[i] = f[m - i]
  <2> DEFINE S == {i \in 0 .. m - 1 : r[i] = f[m - i]}
  <2>1. 0 \in S
    BY <1>1, <1>3
  <2>2. ASSUME NEW i \in 0 .. (m - 1) - 1, i \in S PROVE i + 1 \in S
    <3>1. i + 1 \in 1 .. m - 1 /\ i + 1 \in 1 .. m /\ i + 1 - 1 = i /\ m - (i + 1) + 1 = m - i
          /\ r[i] = f[m - i]
      BY <2>2
    <3>2. r[i + 1] = r[i] \div Base
      BY <1>3, <3>1
    <3>3. f[m - (i + 1) + 1] \div Base = f[m - (i + 1)]
      BY <1>5, <3>1
    <3> QED
      BY <3>1, <3>2, <3>3
  <2> HIDE DEF S
  <2>3. m - 1 \in Nat
    OBVIOUS
  <2>4. 0 .. m - 1 \subseteq S
    BY <2>1, <2>2, <2>3, UpTo
  <2> QED
    BY <2>4 DEF S
<1>8. ASSUME NEW i \in 1 .. m PROVE r[i - 1] % Base = bs[i]
  <2>1. i - 1 \in 0 .. m - 1 /\ m - (i - 1) = m - i + 1
    OBVIOUS
  <2>2. r[i - 1] = f[m - i + 1]
    BY <1>7, <2>1
  <2>3. CASE i \in 1 .. m - 1
    BY <1>5, <2>2, <2>3
  <2>4. CASE i = m
    <3>1. m - i + 1 = 1
      BY <2>4
    <3> QED
      BY <1>6, <2>2, <2>4, <3>1
  <2> QED
    BY <2>3, <2>4
<1>9. bs = [i \in 1 .. m |-> bs[i]]
  OBVIOUS
<1>10. LittleEndian(n, m) = [i \in 1 .. m |-> bs[i]]
  BY <1>3, <1>8
<1> QED
  BY <1>9, <1>10 DEF n

LEMMA UnsignedRange ==
  ASSUME NEW bs \in Seq(Byte)
  PROVE  Unsigned(bs) \in 0 .. Span(Len(bs)) - 1
<1> DEFINE m == Len(bs)
<1>1. bs \in Seq(Int) /\ m \in Nat
  BY BaseType, SeqMonotonic DEF Byte
<1>2. PICK f \in [0 .. m -> Int] :
        /\ f[0] = 0 /\ \A i \in 1 .. m : f[i] = bs[m - i + 1] + Base * f[i - 1]
        /\ Unsigned(bs) = f[m]
  BY <1>1, UnsignedStepsOf
<1>3. \A j \in 1 .. m : bs[j] \in 0 .. Base - 1
  BY ElementOfSeq DEF Byte
<1> HIDE DEF m
<1> DEFINE S == {i \in 0 .. m : f[i] \in 0 .. Span(i) - 1}
<1>4. 0 \in S
  <2>1. Span(0) = 1
    BY SpanStep
  <2> QED
    BY <1>1, <1>2, <2>1
<1>5. ASSUME NEW i \in 0 .. m - 1, i \in S PROVE i + 1 \in S
  <2>1. i + 1 \in 1 .. m /\ i + 1 - 1 = i /\ m - (i + 1) + 1 \in 1 .. m /\ i \in Nat
    BY <1>1
  <2> DEFINE s == Span(i)
             d == bs[m - (i + 1) + 1]
             x == f[i]
  <2>2. f[i + 1] = d + Base * x
    BY <1>2, <2>1
  <2>3. s \in Nat /\ Span(i + 1) = Base * s
    BY <2>1, SpanStep
  <2>4. x \in Int /\ 0 <= x /\ x <= s - 1
    BY <1>5, <2>3
  <2>5. d \in 0 .. Base - 1
    BY <1>3, <2>1
  <2> HIDE DEF s, d, x
  <2>6. Base * x >= 0 /\ Base * x <= Base * s - Base /\ Base * x \in Int /\ Base * s \in Int
    <3>1. Base * (s - 1 - x) >= 0 /\ Base * (s - 1 - x) = Base * s - Base - Base * x
      BY <2>3, <2>4, BaseType
    <3> QED
      BY <2>3, <2>4, <3>1, BaseType
  <2>7. d + Base * x \in 0 .. Base * s - 1
    BY <2>5, <2>6, BaseType
  <2> QED
    BY <2>1, <2>2, <2>3, <2>7
<1> HIDE DEF S
<1>6. 0 .. m \subseteq S
  BY <1>1, <1>4, <1>5, UpTo
<1>7. m \in S
  BY <1>1, <1>6
<1> QED
  BY <1>2, <1>7 DEF S, m

-----------------------------------------------------------------------------
(***************************************************************************)
(* Number to bytes to number.                                              *)
(***************************************************************************)
LEMMA LittleEndianType ==
  ASSUME NEW n \in Int, NEW w \in Nat
  PROVE  LittleEndian(n, w) \in Seq(Byte) /\ Len(LittleEndian(n, w)) = w
<1>1. PICK r \in [0 .. w -> Int] :
        LittleEndian(n, w) = [i \in 1 .. w |-> r[i - 1] % Base]
  BY LittleEndianSteps
<1>2. \A i \in 1 .. w : r[i - 1] % Base \in Byte
  BY DivMod
<1>3. LittleEndian(n, w) \in [1 .. w -> Byte]
  BY <1>1, <1>2
<1> QED
  BY <1>3

LEMMA ReadWhatWasWritten ==
  ASSUME NEW w \in Nat, NEW n \in 0 .. Span(w) - 1
  PROVE  Unsigned(LittleEndian(n, w)) = n
<1> DEFINE bs == LittleEndian(n, w)
<1>1. n \in Nat /\ Span(w) \in Nat
  BY SpanStep
<1>2. PICK r \in [0 .. w -> Int] :
        /\ r[0] = n /\ \A i \in 1 .. w : r[i] = r[i - 1] \div Base
        /\ bs = [i \in 1 .. w |-> r[i - 1] % Base]
  <2>1. n \in Int
    BY <1>1
  <2> QED
    BY <2>1, LittleEndianSteps
<1>3. bs \in Seq(Byte) /\ Len(bs) = w
  BY <1>1, LittleEndianType
<1> HIDE DEF bs
<1>4. bs \in Seq(Int)
  BY <1>3, BaseType, SeqMonotonic DEF Byte
<1>5. PICK f \in [0 .. w -> Int] :
        /\ f[0] = 0 /\ \A i \in 1 .. w : f[i] = bs[w - i + 1] + Base * f[i - 1]
        /\ Unsigned(bs) = f[w]
  BY <1>3, <1>4, UnsignedStepsOf
<1>6. r[w] = 0
  <2> DEFINE S == {i \in 0 .. w : r[i] \in 0 .. Span(w - i) - 1}
  <2>1. 0 \in S
    BY <1>1, <1>2
  <2>2. ASSUME NEW i \in 0 .. w - 1, i \in S PROVE i + 1 \in S
    <3> DEFINE s == Span(w - (i + 1))
               q == r[i] \div Base
    <3>1. i + 1 \in 1 .. w /\ i + 1 - 1 = i /\ w - (i + 1) \in Nat /\ w - i = w - (i + 1) + 1
      OBVIOUS
    <3>2. s \in Nat /\ Span(w - i) = Base * s
      BY <3>1, SpanStep
    <3>3. r[i] \in Int /\ 0 <= r[i] /\ r[i] <= Base * s - 1
      BY <2>2, <3>2, BaseType
    <3>4. r[i + 1] = q
      BY <1>2, <3>1
    <3>5. q \in 0 .. s - 1
      <4>1. r[i] \in Nat
        BY <3>3
      <4> HIDE DEF s
      <4> QED
        BY <3>2, <3>3, <4>1, DivRange
    <3> QED
      BY <3>1, <3>4, <3>5
  <2> HIDE DEF S
  <2>3. 0 .. w \subseteq S
    BY <2>1, <2>2, UpTo
  <2>4. w \in S
    BY <2>3
  <2>5. w - w = 0 /\ Span(0) = 1
    BY SpanStep
  <2> QED
    BY <2>4, <2>5 DEF S
<1>7. f[w] = r[0]
  <2> DEFINE S == {i \in 0 .. w : f[i] = r[w - i]}
  <2>1. 0 \in S
    BY <1>5, <1>6
  <2>2. ASSUME NEW i \in 0 .. w - 1, i \in S PROVE i + 1 \in S
    <3> DEFINE k == w - i
    <3>1. /\ i + 1 \in 1 .. w /\ i + 1 - 1 = i /\ w - (i + 1) + 1 = k
          /\ k \in 1 .. w /\ k - 1 \in 0 .. w /\ w - (i + 1) = k - 1
      OBVIOUS
    <3>2. f[i] = r[k]
      BY <2>2
    <3> HIDE DEF k
    <3>3. f[i + 1] = bs[k] + Base * r[k]
      BY <1>5, <3>1, <3>2
    <3>4. bs[k] = r[k - 1] % Base /\ r[k] = r[k - 1] \div Base /\ r[k - 1] \in Int
      BY <1>2, <3>1
    <3>5. f[i + 1] = r[k - 1]
      BY <3>3, <3>4, DivMod
    <3> QED
      BY <3>1, <3>5
  <2> HIDE DEF S
  <2>3. 0 .. w \subseteq S
    BY <2>1, <2>2, UpTo
  <2>4. w \in S
    BY <2>3
  <2>5. w - w = 0
    OBVIOUS
  <2> QED
    BY <2>4, <2>5 DEF S
<1> QED
  BY <1>2, <1>5, <1>7 DEF bs

-----------------------------------------------------------------------------
(***************************************************************************)
(* Types, and the two's complement.                                        *)
(***************************************************************************)
LEMMA UnsignedType ==
  ASSUME NEW bs \in Seq(Int)
  PROVE  Unsigned(bs) \in Int
<1>1. PICK f \in [0 .. Len(bs) -> Int] : Unsigned(bs) = f[Len(bs)]
  BY UnsignedSteps
<1> QED
  BY <1>1

\* The digits of a two's complement integer: the top one may be negative.
Digits(bs) == [bs EXCEPT ![Len(bs)] = IF @ < Base \div 2 THEN @ ELSE @ - Base]

LEMMA DigitsType ==
  ASSUME NEW bs \in Seq(Byte), NEW m \in Nat \ {0}, Len(bs) = m
  PROVE  /\ Digits(bs) \in Seq(Int) /\ Len(Digits(bs)) = m
         /\ \A j \in 1 .. m - 1 : Digits(bs)[j] = bs[j]
         /\ Digits(bs)[m] \in {bs[m], bs[m] - Base}
         /\ Digits(bs)[m] \in -(Base \div 2) .. Base \div 2 - 1
         /\ Signed(bs) = Unsigned(Digits(bs))
<1> DEFINE top == IF bs[m] < Base \div 2 THEN bs[m] ELSE bs[m] - Base
           ds  == Digits(bs)
<1>1. m \in 1 .. Len(bs) /\ bs \in Seq(Int)
  BY BaseType, SeqMonotonic DEF Byte
<1>2. bs[m] \in 0 .. Base - 1
  BY <1>1, ElementOfSeq DEF Byte
<1>3. ds = [bs EXCEPT ![m] = top]
  BY DEF Digits
<1>4. top \in Int /\ top \in {bs[m], bs[m] - Base} /\ top \in -(Base \div 2) .. Base \div 2 - 1
  <2> DEFINE h == Base \div 2
  <2>1. h \in Nat /\ Base = 2 * h
    BY BaseType
  <2> HIDE DEF h
  <2> QED
    BY <1>2, <2>1, BaseType DEF h
<1>5. Signed(bs) = Unsigned(ds)
  BY DEF Signed, Digits
<1> HIDE DEF top, ds
<1>6. /\ ds \in Seq(Int) /\ Len(ds) = m
      /\ \A j \in 1 .. m - 1 : ds[j] = bs[j]
      /\ ds[m] = top
  <2>1. ds \in Seq(Int) /\ Len(ds) = Len(bs)
        /\ \A j \in 1 .. Len(bs) : ds[j] = IF j = m THEN top ELSE bs[j]
    BY <1>1, <1>3, <1>4, ExceptSeq
  <2> QED
    BY <1>1, <2>1
<1> QED
  BY <1>4, <1>5, <1>6 DEF ds

LEMMA SignedType ==
  ASSUME NEW bs \in Seq(Byte), Len(bs) # 0
  PROVE  Signed(bs) \in Int
BY DigitsType, UnsignedType

LEMMA WriteSigned ==
  ASSUME NEW bs \in Seq(Byte), NEW m \in Nat \ {0}, Len(bs) = m
  PROVE  LittleEndian(Signed(bs), m) = bs
BY DigitsType, WriteWhatWasRead

LEMMA WriteUnsigned ==
  ASSUME NEW bs \in Seq(Byte), NEW m \in Nat \ {0}, Len(bs) = m
  PROVE  LittleEndian(Unsigned(bs), m) = bs
<1>1. bs \in Seq(Int)
  BY BaseType, SeqMonotonic DEF Byte
<1> QED
  BY <1>1, WriteWhatWasRead

LEMMA SignedRange ==
  ASSUME NEW bs \in Seq(Byte), NEW m \in Nat \ {0}, Len(bs) = m
  PROVE  -(Span(m) \div 2) <= Signed(bs) /\ Signed(bs) < Span(m) \div 2
<1> DEFINE ds == Digits(bs)
           h  == Base \div 2
<1>1. h \in Nat /\ Base = 2 * h
  BY BaseType
<1>2. /\ ds \in Seq(Int) /\ Len(ds) = m /\ Signed(bs) = Unsigned(ds)
      /\ \A j \in 1 .. m - 1 : ds[j] = bs[j]
      /\ ds[m] \in -h .. h - 1
  BY DigitsType
<1> HIDE DEF ds, h
<1>3. PICK f \in [0 .. m -> Int] :
        /\ f[0] = 0 /\ \A i \in 1 .. m : f[i] = ds[m - i + 1] + Base * f[i - 1]
        /\ Unsigned(ds) = f[m]
  <2>1. ds \in Seq(Int) /\ Len(ds) = m
    BY <1>2
  <2> QED
    BY <2>1, UnsignedStepsOf
<1>4. \A j \in 1 .. m - 1 : ds[j] \in 0 .. Base - 1
  <2>1. \A j \in 1 .. m - 1 : bs[j] \in 0 .. Base - 1
    BY ElementOfSeq DEF Byte
  <2> QED
    BY <1>2, <2>1
<1> DEFINE S == {i \in 0 .. m - 1 : -(h * Span(i)) <= f[i + 1] /\ f[i + 1] <= h * Span(i) - 1}
<1>5. 0 \in S
  <2>1. 1 \in 1 .. m /\ 0 + 1 = 1 /\ 1 - 1 = 0 /\ m - 1 + 1 = m /\ 0 \in 0 .. m - 1
    OBVIOUS
  <2>2. f[1] = ds[m] + Base * 0 /\ Base * 0 = 0
    BY <1>3, <2>1, BaseType
  <2>3. h * Span(0) = h
    BY <1>1, SpanStep
  <2> QED
    BY <1>1, <1>2, <2>1, <2>2, <2>3
<1>6. ASSUME NEW i \in 0 .. (m - 1) - 1, i \in S PROVE i + 1 \in S
  <2> DEFINE s == h * Span(i)
             d == ds[m - (i + 2) + 1]
             x == f[i + 1]
  <2>1. /\ i \in Nat /\ i + 1 \in 0 .. m - 1 /\ i + 1 + 1 = i + 2 /\ i + 2 \in 1 .. m
        /\ i + 2 - 1 = i + 1 /\ m - (i + 2) + 1 \in 1 .. m - 1 /\ i + 1 \in 0 .. m
    OBVIOUS
  <2>2. f[i + 2] = d + Base * x
    BY <1>3, <2>1
  <2>3. s \in Int /\ h * Span(i + 1) = Base * s
    <3> DEFINE p == Span(i)
    <3>1. p \in Nat /\ Span(i + 1) = Base * p
      BY <2>1, SpanStep
    <3> HIDE DEF p
    <3>2. h * (Base * p) = Base * (h * p) /\ h * p \in Int
      BY <1>1, <3>1, BaseType
    <3> QED
      BY <3>1, <3>2 DEF p
  <2>4. x \in Int /\ -s <= x /\ x <= s - 1
    BY <1>6, <2>1
  <2>5. d \in 0 .. Base - 1
    BY <1>4, <2>1
  <2> HIDE DEF s, d, x
  <2>6. -(Base * s) <= Base * x /\ Base * x <= Base * s - Base
        /\ Base * x \in Int /\ Base * s \in Int
    <3>1. Base * (s - 1 - x) >= 0 /\ Base * (s - 1 - x) = Base * s - Base - Base * x
      BY <2>3, <2>4, BaseType
    <3>2. Base * (x + s) >= 0 /\ Base * (x + s) = Base * x + Base * s
      BY <2>3, <2>4, BaseType
    <3> QED
      BY <2>3, <2>4, <3>1, <3>2, BaseType
  <2>7. -(Base * s) <= d + Base * x /\ d + Base * x <= Base * s - 1
    BY <2>5, <2>6, BaseType
  <2> QED
    BY <2>1, <2>2, <2>3, <2>7
<1> HIDE DEF S
<1>7. m - 1 \in S
  <2>1. m - 1 \in Nat
    OBVIOUS
  <2>2. 0 .. m - 1 \subseteq S
    BY <1>5, <1>6, <2>1, UpTo
  <2> QED
    BY <2>1, <2>2
<1>8. Span(m) \div 2 = h * Span(m - 1)
  <2> DEFINE p == Span(m - 1)
  <2>1. p \in Nat /\ Span(m) = Base * p
    <3>1. m - 1 \in Nat /\ m - 1 + 1 = m
      OBVIOUS
    <3> QED
      BY <3>1, SpanStep
  <2> HIDE DEF p
  <2>2. Base * p = 2 * (h * p) /\ h * p \in Int
    BY <1>1, <2>1
  <2>3. (2 * (h * p)) \div 2 = h * p
    BY <2>2
  <2> QED
    BY <2>1, <2>2, <2>3 DEF p
<1>9. m - 1 + 1 = m
  OBVIOUS
<1>10. -(h * Span(m - 1)) <= f[m] /\ f[m] <= h * Span(m - 1) - 1
  BY <1>7, <1>9 DEF S
<1>11. f[m] \in Int /\ h * Span(m - 1) \in Int
  <2>1. Span(m - 1) \in Nat
    <3>1. m - 1 \in Nat
      OBVIOUS
    <3> QED
      BY <3>1, SpanStep
  <2> QED
    BY <1>1, <1>3, <2>1
<1>12. Signed(bs) = f[m]
  BY <1>2, <1>3
<1> QED
  BY <1>8, <1>10, <1>11, <1>12

\* Numbers with the same digits are a multiple of the span apart.
LEMMA SameDigits ==
  ASSUME NEW a \in Int, NEW b \in Int, NEW w \in Nat, LittleEndian(a, w) = LittleEndian(b, w)
  PROVE  \E q \in Int : a - b = Span(w) * q
<1>1. PICK f \in [0 .. w -> Int] :
        /\ f[0] = a /\ \A i \in 1 .. w : f[i] = f[i - 1] \div Base
        /\ LittleEndian(a, w) = [i \in 1 .. w |-> f[i - 1] % Base]
  BY LittleEndianSteps
<1>2. PICK g \in [0 .. w -> Int] :
        /\ g[0] = b /\ \A i \in 1 .. w : g[i] = g[i - 1] \div Base
        /\ LittleEndian(b, w) = [i \in 1 .. w |-> g[i - 1] % Base]
  BY LittleEndianSteps
<1>3. \A i \in 1 .. w : f[i - 1] % Base = g[i - 1] % Base
  BY <1>1, <1>2
<1> DEFINE Z == {i \in 0 .. w : a - b = Span(i) * (f[i] - g[i])}
<1>4. 0 \in Z
  <2>1. Span(0) = 1 /\ 0 \in 0 .. w
    BY SpanStep
  <2> QED
    BY <1>1, <1>2, <2>1
<1>5. ASSUME NEW i \in 0 .. w - 1, i \in Z PROVE i + 1 \in Z
  <2>1. i \in Nat /\ i \in 0 .. w /\ i + 1 \in 1 .. w /\ i + 1 \in 0 .. w /\ (i + 1) - 1 = i
    OBVIOUS
  <2> DEFINE x == f[i]
             y == g[i]
             u == f[i + 1]
             v == g[i + 1]
             c == Span(i)
  <2>2. x \in Int /\ y \in Int /\ u = x \div Base /\ v = y \div Base /\ x % Base = y % Base
    BY <1>1, <1>2, <1>3, <2>1
  <2>4. a - b = c * (x - y)
    BY <1>5
  <2> HIDE DEF Z, x, y, u, v
  <2>3. c \in Int /\ Span(i + 1) = Base * c
    <3>1. Span(i) \in Nat \ {0} /\ Span(i + 1) = Base * Span(i)
      BY <2>1, SpanStep, Zenon
    <3> QED
      BY <3>1
  <2> HIDE DEF c
  <2>5. x = (x % Base) + Base * u /\ y = (y % Base) + Base * v /\ u \in Int /\ v \in Int
        /\ x % Base \in Int
    <3>1. x = (x % Base) + Base * (x \div Base) /\ x % Base \in Byte /\ x \div Base \in Int
      BY <2>2, DivMod
    <3>2. y = (y % Base) + Base * (y \div Base) /\ y \div Base \in Int
      BY <2>2, DivMod
    <3>3. x % Base \in Int
      BY <3>1, BaseType DEF Byte
    <3> QED
      BY <2>2, <3>1, <3>2, <3>3
  <2>6. x - y = Base * (u - v)
    BY <2>2, <2>5, BaseType
  <2>7. c * (Base * (u - v)) = (Base * c) * (u - v)
    BY <2>3, <2>5, BaseType
  <2>8. a - b = Span(i + 1) * (f[i + 1] - g[i + 1])
    BY <2>3, <2>4, <2>6, <2>7 DEF u, v
  <2> QED
    BY <2>1, <2>8 DEF Z
<1> HIDE DEF Z
<1>6. 0 .. w \subseteq Z
  BY <1>4, <1>5, UpTo
<1>7. w \in 0 .. w
  OBVIOUS
<1>8. w \in Z
  BY <1>6, <1>7
<1>9. a - b = Span(w) * (f[w] - g[w]) /\ f[w] - g[w] \in Int
  BY <1>1, <1>2, <1>7, <1>8 DEF Z
<1> QED
  BY <1>9

LEMMA ReadSigned ==
  ASSUME NEW m \in Nat \ {0}, NEW n \in Int, -(Span(m) \div 2) <= n, n < Span(m) \div 2
  PROVE  Signed(LittleEndian(n, m)) = n
<1> DEFINE bs == LittleEndian(n, m)
           s  == Signed(bs)
           c  == Span(m)
<1>1. bs \in Seq(Byte) /\ Len(bs) = m
  BY LittleEndianType
<1>2. LittleEndian(s, m) = bs
  BY <1>1, WriteSigned
<1>3. s \in Int
  BY <1>1, SignedType
<1>4. -(c \div 2) <= s /\ s < c \div 2
  BY <1>1, SignedRange
<1>5. c \in Nat \ {0}
  BY SpanStep
<1> HIDE DEF s
<1>6. PICK q \in Int : n - s = c * q
  BY <1>2, <1>3, SameDigits
<1> HIDE DEF c
<1>7. -(c \div 2) <= n /\ n < c \div 2
  BY DEF c
<1>8. -c < n - s /\ n - s < c
  BY <1>3, <1>4, <1>5, <1>7
<1>9. q = 0
  <2>1. q > 0 => c * q >= c
    BY <1>5
  <2>2. q < 0 => c * q <= -c
    BY <1>5
  <2> QED
    BY <1>5, <1>6, <1>8, <2>1, <2>2
<1>10. n - s = 0
  BY <1>5, <1>6, <1>9
<1> QED
  BY <1>3, <1>10 DEF s
=============================================================================
