------------------------------ MODULE InferProofs ------------------------------
(***************************************************************************)
(* What Infer claims of placeholders, for fields and adapters of any type. *)
(* A type is a tree, so the proofs are inductions over trees: what holds   *)
(* of every type whose args it holds of, holds of every type.              *)
(***************************************************************************)
EXTENDS Infer, IntegerProofs

(***************************************************************************)
(* Trees.                                                                  *)
(***************************************************************************)
Kinds == {"Path", "Array", "Slice", "Tuple", "Const", "Infer"}

Nodes(lists) == [k : Kinds, name : Names, args : lists]

\* f[n] is the set of types nested at most n deep.
Levels(f, m) == f = [n \in 0 .. m |-> Nodes(IF n = 0 THEN {<<>>} ELSE Seq(f[n - 1]))]

LEMMA LevelsExist ==
  ASSUME NEW m \in Nat
  PROVE  \E f : Levels(f, m)
<1> DEFINE Z == {n \in 0 .. m : \E f : Levels(f, n)}
<1>1. 0 \in Z
  <2> DEFINE f == [n \in 0 .. 0 |-> Nodes({<<>>})]
  <2>1. f = [n \in 0 .. 0 |-> Nodes(IF n = 0 THEN {<<>>} ELSE Seq(f[n - 1]))]
    OBVIOUS
  <2>2. Levels(f, 0)
    BY <2>1 DEF Levels
  <2> QED
    BY <2>2
<1>2. ASSUME NEW n \in 0 .. m - 1, n \in Z PROVE n + 1 \in Z
  <2>1. PICK f : Levels(f, n)
    BY <1>2
  <2> DEFINE h == [i \in 0 .. n + 1 |-> IF i = n + 1 THEN Nodes(Seq(f[n])) ELSE f[i]]
  <2>2. \A i \in 0 .. n : f[i] = Nodes(IF i = 0 THEN {<<>>} ELSE Seq(f[i - 1]))
    BY <2>1 DEF Levels
  <2>3. \A i \in 0 .. n : i \in 0 .. n + 1 /\ i # n + 1 /\ h[i] = f[i]
    OBVIOUS
  <2>4. ASSUME NEW i \in 0 .. n + 1
        PROVE  h[i] = Nodes(IF i = 0 THEN {<<>>} ELSE Seq(h[i - 1]))
    <3>1. CASE i = n + 1
      <4>1. n \in 0 .. n /\ i # 0 /\ i - 1 = n
        BY <3>1
      <4>2. h[i] = Nodes(Seq(f[n])) /\ h[n] = f[n]
        BY <2>3, <3>1, <4>1
      <4> HIDE DEF h
      <4> QED
        BY <4>1, <4>2
    <3>2. CASE i # n + 1
      <4>1. i \in 0 .. n /\ (i # 0 => i - 1 \in 0 .. n)
        BY <3>2
      <4> HIDE DEF h
      <4> QED
        BY <2>2, <2>3, <4>1
    <3> QED
      BY <3>1, <3>2
  <2>5. h = [i \in 0 .. n + 1 |-> h[i]]
    OBVIOUS
  <2>6. Levels(h, n + 1)
    <3> HIDE DEF h
    <3> QED
      BY <2>4, <2>5 DEF Levels
  <2> HIDE DEF h
  <2> QED
    BY <2>6
<1> HIDE DEF Z
<1>3. 0 .. m \subseteq Z
  BY <1>1, <1>2, UpTo
<1> QED
  BY <1>3 DEF Z

LEMMA LevelsSame ==
  ASSUME NEW m \in Nat, NEW f, Levels(f, m), NEW n \in 0 .. m, NEW g, Levels(g, n)
  PROVE  f[n] = g[n]
<1> DEFINE Z == {i \in 0 .. n : f[i] = g[i]}
<1>1. /\ \A i \in 0 .. m : f[i] = Nodes(IF i = 0 THEN {<<>>} ELSE Seq(f[i - 1]))
      /\ \A i \in 0 .. n : g[i] = Nodes(IF i = 0 THEN {<<>>} ELSE Seq(g[i - 1]))
  BY DEF Levels
<1>2. 0 \in Z
  BY <1>1
<1>3. ASSUME NEW i \in 0 .. n - 1, i \in Z PROVE i + 1 \in Z
  <2>1. i + 1 \in 0 .. m /\ i + 1 \in 0 .. n /\ i + 1 # 0 /\ (i + 1) - 1 = i /\ f[i] = g[i]
    BY <1>3
  <2> QED
    BY <1>1, <2>1
<1> HIDE DEF Z
<1>4. 0 .. n \subseteq Z
  BY <1>2, <1>3, UpTo
<1> QED
  BY <1>4 DEF Z

LEMMA TypesLevel ==
  ASSUME NEW m \in Nat
  PROVE  \E f : Levels(f, m) /\ Types(m) = f[m]
<1> DEFINE types == CHOOSE f : f = [n \in 0 .. m |->
                      [k : {"Path", "Array", "Slice", "Tuple", "Const", "Infer"}, name : Names,
                       args : IF n = 0 THEN {<<>>} ELSE Seq(f[n - 1])]]
<1>1. Types(m) = types[m]
  BY DEF Types
<1>2. PICK f : Levels(f, m)
  BY LevelsExist
<1>3. types = [n \in 0 .. m |->
                 [k : {"Path", "Array", "Slice", "Tuple", "Const", "Infer"}, name : Names,
                  args : IF n = 0 THEN {<<>>} ELSE Seq(types[n - 1])]]
  BY <1>2 DEF Levels, Nodes, Kinds
<1>4. Levels(types, m)
  BY <1>3 DEF Levels, Nodes, Kinds
<1> QED
  BY <1>1, <1>4

LEMMA TypesStep ==
  /\ Types(0) = Nodes({<<>>})
  /\ \A n \in Nat : Types(n + 1) = Nodes(Seq(Types(n)))
<1>1. Types(0) = Nodes({<<>>})
  <2>1. 0 \in Nat /\ 0 \in 0 .. 0
    OBVIOUS
  <2>2. PICK f : Levels(f, 0) /\ Types(0) = f[0]
    BY <2>1, TypesLevel
  <2> QED
    BY <2>1, <2>2 DEF Levels
<1>2. ASSUME NEW n \in Nat PROVE Types(n + 1) = Nodes(Seq(Types(n)))
  <2>1. n + 1 \in Nat /\ n \in 0 .. n + 1 /\ n + 1 \in 0 .. n + 1 /\ n + 1 # 0 /\ (n + 1) - 1 = n
    OBVIOUS
  <2>2. PICK f : Levels(f, n + 1) /\ Types(n + 1) = f[n + 1]
    BY <2>1, TypesLevel
  <2>3. PICK g : Levels(g, n) /\ Types(n) = g[n]
    BY TypesLevel
  <2>4. f[n] = g[n]
    BY <2>1, <2>2, <2>3, LevelsSame
  <2>5. f[n + 1] = Nodes(Seq(f[n]))
    BY <2>1, <2>2 DEF Levels
  <2> QED
    BY <2>2, <2>3, <2>4, <2>5
<1> QED
  BY <1>1, <1>2

LEMMA TypesMore ==
  ASSUME NEW m \in Nat, NEW n \in 0 .. m
  PROVE  Types(n) \subseteq Types(m)
<1> DEFINE Z == {i \in 0 .. m : Types(i) \subseteq Types(i + 1)}
           Y == {i \in 0 .. m : i >= n => Types(n) \subseteq Types(i)}
<1>1. 0 \in Z
  <2>1. 0 \in Nat /\ <<>> \in Seq(Types(0))
    BY EmptySeq
  <2>2. Nodes({<<>>}) \subseteq Nodes(Seq(Types(0)))
    BY <2>1 DEF Nodes
  <2>3. Types(0) \subseteq Types(0 + 1)
    BY <2>1, <2>2, TypesStep
  <2> QED
    BY <2>3
<1>2. ASSUME NEW i \in 0 .. m - 1, i \in Z PROVE i + 1 \in Z
  <2>1. i \in Nat /\ i + 1 \in Nat /\ i + 1 \in 0 .. m /\ Types(i) \subseteq Types(i + 1)
    BY <1>2
  <2>2. Seq(Types(i)) \subseteq Seq(Types(i + 1))
    BY <2>1
  <2>3. Nodes(Seq(Types(i))) \subseteq Nodes(Seq(Types(i + 1)))
    BY <2>2 DEF Nodes
  <2>4. Types(i + 1) \subseteq Types((i + 1) + 1)
    BY <2>1, <2>3, TypesStep
  <2> QED
    BY <2>1, <2>4
<1> HIDE DEF Z
<1>3. 0 .. m \subseteq Z
  BY <1>1, <1>2, UpTo
<1>4. 0 \in Y
  <2>1. 0 >= n => n = 0
    OBVIOUS
  <2> QED
    BY <2>1
<1>5. ASSUME NEW i \in 0 .. m - 1, i \in Y PROVE i + 1 \in Y
  <2>1. i + 1 \in 0 .. m /\ i \in 0 .. m /\ (i + 1 >= n => i >= n \/ n = i + 1)
    OBVIOUS
  <2>2. Types(i) \subseteq Types(i + 1)
    BY <1>3, <2>1 DEF Z
  <2> QED
    BY <1>5, <2>1, <2>2
<1> HIDE DEF Y
<1>6. 0 .. m \subseteq Y
  BY <1>4, <1>5, UpTo
<1>7. m \in 0 .. m /\ m >= n
  OBVIOUS
<1> QED
  BY <1>6, <1>7 DEF Y

LEMMA NodeFields ==
  ASSUME NEW n \in Nat, NEW t \in Types(n)
  PROVE  /\ t.k \in Kinds /\ t.name \in Names /\ t.args \in Seq(Types(n))
         /\ t = [k |-> t.k, name |-> t.name, args |-> t.args]
         /\ Len(t.args) \in Nat /\ DOMAIN t.args = 1 .. Len(t.args)
         /\ n = 0 => Len(t.args) = 0 /\ t.args = <<>>
         /\ n # 0 => t.args \in Seq(Types(n - 1))
         /\ \A i \in 1 .. Len(t.args) : t.args[i] \in Types(n) /\ n # 0 /\ t.args[i] \in Types(n - 1)
<1>1. CASE n = 0
  <2>1. t \in Nodes({<<>>})
    BY <1>1, TypesStep
  <2>2. t.k \in Kinds /\ t.name \in Names /\ t.args = <<>>
        /\ t = [k |-> t.k, name |-> t.name, args |-> t.args]
    BY <2>1 DEF Nodes
  <2> QED
    BY <1>1, <2>2, EmptySeq
<1>2. CASE n # 0
  <2>1. n - 1 \in Nat /\ (n - 1) + 1 = n /\ n - 1 \in 0 .. n
    BY <1>2
  <2>2. t \in Nodes(Seq(Types(n - 1)))
    BY <2>1, TypesStep
  <2>3. t.k \in Kinds /\ t.name \in Names /\ t.args \in Seq(Types(n - 1))
        /\ t = [k |-> t.k, name |-> t.name, args |-> t.args]
    BY <2>2 DEF Nodes
  <2>4. Types(n - 1) \subseteq Types(n)
    BY <2>1, TypesMore
  <2>5. t.args \in Seq(Types(n)) /\ Len(t.args) \in Nat /\ DOMAIN t.args = 1 .. Len(t.args)
        /\ \A i \in 1 .. Len(t.args) : t.args[i] \in Types(n - 1)
    BY <2>3, <2>4
  <2> QED
    BY <1>2, <2>3, <2>4, <2>5
<1> QED
  BY <1>1, <1>2

LEMMA Node ==
  ASSUME NEW n \in Nat, NEW kind \in Kinds, NEW name \in Names, NEW args \in Seq(Types(n))
  PROVE  [k |-> kind, name |-> name, args |-> args] \in Types(n + 1)
BY TypesStep DEF Nodes

LEMMA TypeIs ==
  /\ Depth \in Nat /\ 2 * Depth \in Nat /\ Type = Types(2 * Depth)
  /\ \A n \in 0 .. 2 * Depth : n \in Nat /\ Types(n) \subseteq Type
<1>1. Depth \in Nat /\ 2 * Depth \in Nat
  BY InferAssumption
<1> QED
  BY <1>1, TypesMore DEF Type

\* What holds of a type when it holds of its args holds of every type.
LEMMA TypeInduction ==
  ASSUME NEW P,
         \A t \in Type : (\A i \in 1 .. Len(t.args) : t.args[i] \in P) => t \in P
  PROVE  Type \subseteq P
<1> DEFINE m == 2 * Depth
           Z == {n \in 0 .. m : Types(n) \subseteq P}
<1>1. m \in Nat /\ Type = Types(m) /\ \A n \in 0 .. m : n \in Nat /\ Types(n) \subseteq Type
  BY TypeIs
<1> HIDE DEF m
<1>2. 0 \in Z
  <2>1. 0 \in 0 .. m /\ 0 \in Nat
    BY <1>1
  <2>2. ASSUME NEW t \in Types(0) PROVE t \in P
    <3>1. Len(t.args) = 0 /\ t \in Type
      BY <1>1, <2>1, NodeFields
    <3> QED
      BY <3>1
  <2> QED
    BY <2>1, <2>2
<1>3. ASSUME NEW n \in 0 .. m - 1, n \in Z PROVE n + 1 \in Z
  <2>1. n + 1 \in 0 .. m /\ n + 1 \in Nat /\ (n + 1) - 1 = n /\ Types(n) \subseteq P
    BY <1>1, <1>3
  <2>2. ASSUME NEW t \in Types(n + 1) PROVE t \in P
    <3>1. t \in Type /\ \A i \in 1 .. Len(t.args) : t.args[i] \in Types(n)
      BY <1>1, <2>1, NodeFields
    <3> QED
      BY <2>1, <3>1
  <2> QED
    BY <2>1, <2>2
<1> HIDE DEF Z
<1>4. 0 .. m \subseteq Z
  BY <1>1, <1>2, <1>3, UpTo
<1> QED
  BY <1>1, <1>4 DEF Z

\* The values of t's args under g; those values are in S.
Inside(t, g) == [i \in DOMAIN t.args |-> g[t.args[i]]]

Valued(t, g, S) == \A i \in 1 .. Len(t.args) : g[t.args[i]] \in S

LEMMA InsideType ==
  ASSUME NEW S, NEW g, NEW t \in Type, Valued(t, g, S)
  PROVE  /\ Inside(t, g) \in Seq(S) /\ Len(Inside(t, g)) = Len(t.args)
         /\ \A i \in 1 .. Len(t.args) : Inside(t, g)[i] = g[t.args[i]]
<1> DEFINE m == Len(t.args)
<1>1. m \in Nat /\ DOMAIN t.args = 1 .. m
  BY TypeIs, NodeFields
<1> HIDE DEF m
<1>2. Inside(t, g) = [i \in 1 .. m |-> g[t.args[i]]]
  BY <1>1 DEF Inside
<1>3. \A i \in 1 .. m : g[t.args[i]] \in S
  BY DEF m, Valued
<1>4. [i \in 1 .. m |-> g[t.args[i]]] \in Seq(S)
  BY <1>1, <1>3
<1> QED
  BY <1>1, <1>2, <1>4 DEF m

\* F makes an element of S of a type and of elements of S for its args; g is what the
\* traversal with F makes of a type.
Visitor(F, S) == \A t \in Type : \A v \in Seq(S) : Len(v) = Len(t.args) => F[<<t, v>>] \in S

Follows(g, F) == \A t \in Type : g[t] = F[<<t, Inside(t, g)>>]

\* What a traversal computes is defined for every type.
LEMMA TraversalExists ==
  ASSUME NEW S, NEW s \in S, NEW F, Visitor(F, S)
  PROVE  \E g \in [Type -> S] : Follows(g, F)
<1> DEFINE d == 2 * Depth
           m == d + 2
           base == [t \in Type |-> s]
           T == [Type -> S]
           G == [x \in (1 .. m) \X T |-> [t \in Type |-> F[<<t, Inside(t, x[2])>>]]]
<1>1. d \in Nat /\ m \in Nat /\ Type = Types(d) /\ \A n \in 0 .. d : n \in Nat /\ Types(n) \subseteq Type
  BY TypeIs
<1> HIDE DEF d
<1>2. \A t \in Type : \A i \in 1 .. Len(t.args) : t.args[i] \in Type
  BY <1>1, NodeFields
<1>3. \A g \in T : \A t \in Type : F[<<t, Inside(t, g)>>] \in S
  <2> TAKE g \in T
  <2> TAKE t \in Type
  <2>1. Valued(t, g, S)
    BY <1>2 DEF Valued
  <2>2. Inside(t, g) \in Seq(S) /\ Len(Inside(t, g)) = Len(t.args)
    BY <2>1, InsideType
  <2> QED
    BY <2>2 DEF Visitor
<1>4. \A g \in T : [t \in Type |-> F[<<t, Inside(t, g)>>]] \in T
  BY <1>3
<1>5. base \in T /\ G \in [(1 .. m) \X T -> T]
  BY <1>4
<1>6. PICK h : Computes(h, m, T, base, G)
  <2> HIDE DEF m, base, T, G
  <2> QED
    BY <1>1, <1>5, RecursionExists DEF m
<1>7. /\ \A j \in 0 .. m : h[j] \in T
      /\ \A j \in 1 .. m : \A t \in Type : h[j][t] = F[<<t, Inside(t, h[j - 1])>>]
  <2>1. /\ \A j \in 0 .. m : h[j] \in T
        /\ \A j \in 0 .. m : h[j] = IF j = 0 THEN base ELSE G[<<j, h[j - 1]>>]
    BY <1>6 DEF Computes
  <2>2. ASSUME NEW j \in 1 .. m, NEW t \in Type PROVE h[j][t] = F[<<t, Inside(t, h[j - 1])>>]
    <3>1. j \in 0 .. m /\ j # 0 /\ j - 1 \in 0 .. m
      BY <1>1
    <3>2. h[j - 1] \in T
      BY <2>1, <3>1
    <3>3. \A x \in (1 .. m) \X T : G[x] = [u \in Type |-> F[<<u, Inside(u, x[2])>>]]
      OBVIOUS
    <3>4. <<j, h[j - 1]>> \in (1 .. m) \X T /\ <<j, h[j - 1]>>[2] = h[j - 1]
      BY <3>2
    <3> HIDE DEF G, T
    <3>5. G[<<j, h[j - 1]>>] = [u \in Type |-> F[<<u, Inside(u, h[j - 1])>>]]
      BY <3>3, <3>4
    <3> QED
      BY <2>1, <3>1, <3>5
  <2> QED
    BY <2>1, <2>2
<1> DEFINE Settled(n) == \A t \in Types(n) : \A j \in n + 1 .. m - 1 : h[j + 1][t] = h[j][t]
           Z == {n \in 0 .. d : Settled(n)}
<1> HIDE DEF G, T, base
<1>8. 0 \in Z
  <2>1. 0 \in 0 .. d /\ 0 \in Nat
    BY <1>1
  <2>2. ASSUME NEW t \in Types(0), NEW j \in 0 + 1 .. m - 1 PROVE h[j + 1][t] = h[j][t]
    <3>1. t \in Type /\ t.args = <<>>
      BY <1>1, <2>1, NodeFields
    <3>2. j \in 1 .. m /\ j + 1 \in 1 .. m /\ (j + 1) - 1 = j
      BY <1>1
    <3>3. Inside(t, h[j]) = Inside(t, h[j - 1])
      BY <3>1 DEF Inside
    <3>4. h[j][t] = F[<<t, Inside(t, h[j - 1])>>]
      BY <1>7, <3>1, <3>2
    <3>5. h[j + 1][t] = F[<<t, Inside(t, h[(j + 1) - 1])>>]
      BY <1>7, <3>1, <3>2
    <3> QED
      BY <3>2, <3>3, <3>4, <3>5, Zenon
  <2> QED
    BY <2>1, <2>2
<1>9. ASSUME NEW n \in 0 .. d - 1, n \in Z PROVE n + 1 \in Z
  <2>1. n + 1 \in 0 .. d /\ n + 1 \in Nat /\ (n + 1) - 1 = n /\ n + 1 # 0 /\ Settled(n)
    BY <1>1, <1>9
  <2>2. ASSUME NEW t \in Types(n + 1), NEW j \in (n + 1) + 1 .. m - 1 PROVE h[j + 1][t] = h[j][t]
    <3>1. t \in Type /\ DOMAIN t.args = 1 .. Len(t.args) /\ \A i \in 1 .. Len(t.args) : t.args[i] \in Types(n)
      BY <1>1, <2>1, NodeFields
    <3>2. j \in 1 .. m /\ j + 1 \in 1 .. m /\ (j + 1) - 1 = j /\ j - 1 \in n + 1 .. m - 1 /\ (j - 1) + 1 = j
      BY <1>1
    <3>3. \A i \in 1 .. Len(t.args) : h[j][t.args[i]] = h[j - 1][t.args[i]]
      <4>1. \A u \in Types(n) : \A k \in n + 1 .. m - 1 : h[k + 1][u] = h[k][u]
        BY <2>1
      <4>2. \A u \in Types(n) : h[(j - 1) + 1][u] = h[j - 1][u]
        BY <3>2, <4>1, Zenon
      <4>3. \A u \in Types(n) : h[j][u] = h[j - 1][u]
        BY <3>2, <4>2, Zenon
      <4> QED
        BY <3>1, <4>3, Zenon
    <3>4. Inside(t, h[j]) = Inside(t, h[j - 1])
      BY <3>1, <3>3 DEF Inside
    <3>5. h[j][t] = F[<<t, Inside(t, h[j - 1])>>]
      BY <1>7, <3>1, <3>2
    <3>6. h[j + 1][t] = F[<<t, Inside(t, h[(j + 1) - 1])>>]
      BY <1>7, <3>1, <3>2
    <3> QED
      BY <3>2, <3>4, <3>5, <3>6, Zenon
  <2> QED
    BY <2>1, <2>2
<1> HIDE DEF Z
<1>10. 0 .. d \subseteq Z
  BY <1>1, <1>8, <1>9, UpTo
<1>11. d \in 0 .. d /\ d + 1 \in d + 1 .. m - 1 /\ (d + 1) + 1 \in 1 .. m /\ d + 1 \in 0 .. m
       /\ ((d + 1) + 1) - 1 = d + 1
  BY <1>1
<1>12. \A t \in Type : h[(d + 1) + 1][t] = h[d + 1][t]
  BY <1>1, <1>10, <1>11 DEF Z
<1>13. h[d + 1] \in [Type -> S]
  BY <1>7, <1>11 DEF T
<1>14. \A t \in Type : h[d + 1][t] = F[<<t, Inside(t, h[d + 1])>>]
  <2> TAKE t \in Type
  <2>1. h[(d + 1) + 1][t] = F[<<t, Inside(t, h[((d + 1) + 1) - 1])>>]
    BY <1>7, <1>11
  <2> QED
    BY <1>11, <1>12, <2>1
<1> QED
  BY <1>13, <1>14 DEF Follows

-----------------------------------------------------------------------------
(***************************************************************************)
(* The types a type is made of.                                            *)
(***************************************************************************)
LEMMA SubtypesStep ==
  /\ \A t \in Type : Subtypes(t) \subseteq Type
  /\ \A t \in Type : Subtypes(t) = {t} \cup UNION {Subtypes(t.args[i]) : i \in 1 .. Len(t.args)}
<1> DEFINE S == SUBSET Type
           F == [x \in Type \X Seq(S) |-> {x[1]} \cup UNION ToSet(x[2])]
           c == CHOOSE f : f = [u \in Type |-> {u} \cup UNION ToSet([i \in DOMAIN u.args |-> f[u.args[i]]])]
<1>1. \A t : Subtypes(t) = c[t]
  BY DEF Subtypes, Traversed
<1>2. \A t \in Type : \A v \in Seq(S) : {t} \cup UNION ToSet(v) \in S
  BY DEF ToSet
<1>3. (\A t \in Type : \A v \in Seq(S) : F[<<t, v>>] \in S) /\ {} \in S
  <2>1. \A t \in Type : \A v \in Seq(S) : F[<<t, v>>] = {t} \cup UNION ToSet(v)
    OBVIOUS
  <2> HIDE DEF F, S
  <2>2. {} \in S
    BY DEF S
  <2> QED
    BY <1>2, <2>1, <2>2
<1>4. PICK g \in [Type -> S] : \A t \in Type : g[t] = F[<<t, Inside(t, g)>>]
  <2> HIDE DEF F, S
  <2>1. Visitor(F, S)
    BY <1>3 DEF Visitor
  <2>2. \E g \in [Type -> S] : Follows(g, F)
    BY <1>3, <2>1, TraversalExists
  <2> QED
    BY <2>2 DEF Follows
<1>5. ASSUME NEW t \in Type PROVE t.args \in Seq(Type) /\ \A i \in 1 .. Len(t.args) : t.args[i] \in Type
  BY TypeIs, NodeFields
<1>6. \A t \in Type : g[t] = {t} \cup UNION ToSet(Inside(t, g))
  <2> TAKE t \in Type
  <2>1. Inside(t, g) \in Seq(S)
    BY <1>5, InsideType DEF Valued
  <2>2. <<t, Inside(t, g)>> \in Type \X Seq(S)
    BY <2>1
  <2> HIDE DEF S
  <2>3. F[<<t, Inside(t, g)>>] = {t} \cup UNION ToSet(Inside(t, g))
    BY <2>2
  <2> QED
    BY <1>4, <2>3
<1>7. g = [u \in Type |-> {u} \cup UNION ToSet([i \in DOMAIN u.args |-> g[u.args[i]]])]
  BY <1>6 DEF Inside
<1>8. c = [u \in Type |-> {u} \cup UNION ToSet([i \in DOMAIN u.args |-> c[u.args[i]]])]
  BY <1>7
<1> HIDE DEF c, F
<1>9. \A t \in Type : c[t] = {t} \cup UNION ToSet(Inside(t, c))
  BY <1>8 DEF Inside
<1> DEFINE P == {t \in Type : c[t] \in S}
<1>10. ASSUME NEW t \in Type, \A i \in 1 .. Len(t.args) : t.args[i] \in P PROVE t \in P
  <2>1. Valued(t, c, S)
    BY <1>10 DEF Valued
  <2>2. Inside(t, c) \in Seq(S)
    BY <2>1, InsideType
  <2> HIDE DEF S
  <2>3. {t} \cup UNION ToSet(Inside(t, c)) \in S
    BY <1>2, <2>2
  <2> QED
    BY <1>9, <2>3
<1> HIDE DEF P
<1>11. Type \subseteq P
  BY <1>10, TypeInduction
<1>12. ASSUME NEW t \in Type PROVE ToSet(Inside(t, c)) = {Subtypes(t.args[i]) : i \in 1 .. Len(t.args)}
  <2>1. DOMAIN t.args = 1 .. Len(t.args)
    BY <1>5
  <2> QED
    BY <1>1, <2>1 DEF ToSet, Inside
<1> QED
  BY <1>1, <1>9, <1>11, <1>12 DEF P

\* A type is one of its own, and has those of its args.
LEMMA SubtypesOf ==
  ASSUME NEW t \in Type
  PROVE  /\ t \in Subtypes(t) /\ Subtypes(t) \subseteq Type
         /\ \A i \in 1 .. Len(t.args) : t.args[i] \in Subtypes(t) /\ Subtypes(t.args[i]) \subseteq Subtypes(t)
<1>1. Subtypes(t) = {t} \cup UNION {Subtypes(t.args[i]) : i \in 1 .. Len(t.args)} /\ Subtypes(t) \subseteq Type
  BY SubtypesStep
<1>2. ASSUME NEW i \in 1 .. Len(t.args) PROVE t.args[i] \in Subtypes(t.args[i])
  <2>1. t.args[i] \in Type
    BY TypeIs, NodeFields
  <2> QED
    BY <2>1, SubtypesStep
<1> QED
  BY <1>1, <1>2

LEMMA SubtypesDeep ==
  ASSUME NEW n \in 0 .. 2 * Depth, NEW t \in Types(n)
  PROVE  Subtypes(t) \subseteq Types(n)
<1> DEFINE P == {u \in Type : \A m \in 0 .. 2 * Depth : u \in Types(m) => Subtypes(u) \subseteq Types(m)}
<1>1. ASSUME NEW u \in Type, \A i \in 1 .. Len(u.args) : u.args[i] \in P PROVE u \in P
  <2>1. ASSUME NEW m \in 0 .. 2 * Depth, u \in Types(m), NEW i \in 1 .. Len(u.args)
        PROVE  Subtypes(u.args[i]) \subseteq Types(m)
    <3>1. m \in Nat /\ u.args[i] \in Types(m)
      BY <2>1, NodeFields
    <3> QED
      BY <1>1, <3>1
  <2>2. Subtypes(u) = {u} \cup UNION {Subtypes(u.args[i]) : i \in 1 .. Len(u.args)}
    BY SubtypesStep
  <2> QED
    BY <2>1, <2>2
<1> HIDE DEF P
<1>2. Type \subseteq P
  BY <1>1, TypeInduction
<1>3. t \in Type
  BY TypeIs
<1> QED
  BY <1>2, <1>3 DEF P

-----------------------------------------------------------------------------
(***************************************************************************)
(* The types that are collected.                                           *)
(***************************************************************************)
\* What is collected from an arg a, whose own args have those types.
TakenFrom(t, a, types) ==
  IF t.k # "Path" THEN types
  ELSE IF a.k \in {"Slice", "Array"} THEN a.args
  ELSE IF Entered(a) THEN types
  ELSE <<a>> \o types

Taken(t, i) == TakenFrom(t, t.args[i], Collected(t.args[i]))

AllTaken(t) == [i \in 1 .. Len(t.args) |-> Taken(t, i)]

LEMMA GenericTypesIs ==
  ASSUME NEW t \in Type, NEW v \in Seq(Seq(Type)), Len(v) = Len(t.args)
  PROVE  LET all == [i \in 1 .. Len(t.args) |-> TakenFrom(t, t.args[i], v[i])]
         IN  /\ all \in Seq(Seq(Type))
             /\ GenericTypes(t, v) = FlattenSeq(all)
             /\ GenericTypes(t, v) \in Seq(Type)
<1> DEFINE m == Len(t.args)
           one(i) == TakenFrom(t, t.args[i], v[i])
           all == [i \in 1 .. m |-> one(i)]
<1>1. m \in Nat /\ DOMAIN t.args = 1 .. m /\ \A i \in 1 .. m : t.args[i] \in Type /\ v[i] \in Seq(Type)
  BY TypeIs, NodeFields, ElementOfSeq
<1>2. ASSUME NEW i \in 1 .. m PROVE one(i) \in Seq(Type)
  <2>1. t.args[i] \in Type /\ v[i] \in Seq(Type)
    BY <1>1
  <2>2. t.args[i].args \in Seq(Type)
    BY <2>1, TypeIs, NodeFields
  <2>3. <<t.args[i]>> \o v[i] \in Seq(Type)
    BY <2>1
  <2> QED
    BY <2>1, <2>2, <2>3 DEF TakenFrom
<1>3. all \in Seq(Seq(Type))
  BY <1>1, <1>2
<1>4. FlattenSeq(all) \in Seq(Type)
  <2> HIDE DEF all
  <2> QED
    BY <1>3, FlattenType
<1>5. GenericTypes(t, v) = FlattenSeq([i \in DOMAIN t.args |->
         IF t.k = "Path"
         THEN CASE t.args[i].k \in {"Slice", "Array"} -> t.args[i].args
                [] Entered(t.args[i])                 -> v[i]
                [] OTHER                              -> <<t.args[i]>> \o v[i]
         ELSE v[i]])
  BY DEF GenericTypes
<1>6. ASSUME NEW i \in 1 .. m
      PROVE  one(i) = IF t.k = "Path"
         THEN CASE t.args[i].k \in {"Slice", "Array"} -> t.args[i].args
                [] Entered(t.args[i])                 -> v[i]
                [] OTHER                              -> <<t.args[i]>> \o v[i]
         ELSE v[i]
  <2>1. CASE t.args[i].k \in {"Slice", "Array"}
    BY <2>1 DEF TakenFrom, Entered
  <2>2. CASE Entered(t.args[i])
    BY <2>2 DEF TakenFrom, Entered
  <2>3. CASE ~(t.args[i].k \in {"Slice", "Array"}) /\ ~Entered(t.args[i])
    BY <2>3 DEF TakenFrom
  <2> QED
    BY <2>1, <2>2, <2>3
<1>7. GenericTypes(t, v) = FlattenSeq(all)
  BY <1>1, <1>5, <1>6
<1> QED
  BY <1>3, <1>4, <1>7

LEMMA CollectedStep ==
  ASSUME NEW t \in Type
  PROVE  /\ Collected(t) \in Seq(Type)
         /\ AllTaken(t) \in Seq(Seq(Type))
         /\ Collected(t) = FlattenSeq(AllTaken(t))
<1> DEFINE S == Seq(Type)
           F == [x \in Type \X Seq(S) |-> GenericTypes(x[1], x[2])]
           c == CHOOSE f : f = [u \in Type |-> GenericTypes(u, [i \in DOMAIN u.args |-> f[u.args[i]]])]
<1>1. \A u : Collected(u) = c[u]
  BY DEF Collected, Traversed
<1>2. \A u \in Type : \A v \in Seq(S) : Len(v) = Len(u.args) => GenericTypes(u, v) \in S
  BY GenericTypesIs
<1>3. \A u \in Type : \A v \in Seq(S) : F[<<u, v>>] = GenericTypes(u, v)
  OBVIOUS
<1>4. PICK g \in [Type -> S] : \A u \in Type : g[u] = F[<<u, Inside(u, g)>>]
  <2> HIDE DEF F
  <2>1. <<>> \in S
    OBVIOUS
  <2> HIDE DEF S
  <2>2. Visitor(F, S)
    BY <1>2, <1>3 DEF Visitor
  <2>3. \E g \in [Type -> S] : Follows(g, F)
    BY <2>1, <2>2, TraversalExists
  <2> QED
    BY <2>3 DEF Follows
<1>5. ASSUME NEW u \in Type PROVE \A i \in 1 .. Len(u.args) : u.args[i] \in Type
  BY TypeIs, NodeFields
<1> HIDE DEF F, S
<1>6. \A u \in Type : g[u] = GenericTypes(u, Inside(u, g))
  BY <1>3, <1>4, <1>5, InsideType DEF Valued
<1>7. g = [u \in Type |-> GenericTypes(u, [i \in DOMAIN u.args |-> g[u.args[i]]])]
  BY <1>6 DEF Inside
<1>8. c = [u \in Type |-> GenericTypes(u, [i \in DOMAIN u.args |-> c[u.args[i]]])]
  BY <1>7
<1> HIDE DEF c
<1>9. \A u \in Type : c[u] = GenericTypes(u, Inside(u, c))
  BY <1>8 DEF Inside
<1> DEFINE P == {u \in Type : c[u] \in S}
<1>10. ASSUME NEW u \in Type, \A i \in 1 .. Len(u.args) : u.args[i] \in P PROVE u \in P
  <2>1. Valued(u, c, S)
    BY <1>10 DEF Valued
  <2>2. Inside(u, c) \in Seq(S) /\ Len(Inside(u, c)) = Len(u.args)
    BY <2>1, InsideType
  <2> QED
    BY <1>2, <1>9, <2>2
<1> HIDE DEF P
<1>11. Type \subseteq P
  BY <1>10, TypeInduction
<1>12. \A u \in Type : c[u] \in S
  BY <1>11 DEF P
<1> DEFINE v == Inside(t, c)
<1>13. v \in Seq(S) /\ Len(v) = Len(t.args) /\ \A i \in 1 .. Len(t.args) : v[i] = Collected(t.args[i])
  <2>1. Valued(t, c, S)
    BY <1>5, <1>12 DEF Valued
  <2>2. /\ v \in Seq(S) /\ Len(v) = Len(t.args)
        /\ \A i \in 1 .. Len(t.args) : v[i] = c[t.args[i]]
    BY <2>1, InsideType
  <2> QED
    BY <1>1, <2>2
<1> HIDE DEF v
<1>14. [i \in 1 .. Len(t.args) |-> TakenFrom(t, t.args[i], v[i])] = AllTaken(t)
  BY <1>13 DEF AllTaken, Taken
<1>15. /\ AllTaken(t) \in Seq(Seq(Type))
       /\ GenericTypes(t, v) = FlattenSeq(AllTaken(t))
  BY <1>13, <1>14, GenericTypesIs DEF S
<1> QED
  BY <1>1, <1>9, <1>12, <1>15 DEF S, v

\* What is collected are types that the type is made of.
LEMMA CollectedType ==
  ASSUME NEW t \in Type
  PROVE  Collected(t) \in Seq(Subtypes(t))
<1> DEFINE P == {u \in Type : Collected(u) \in Seq(Subtypes(u))}
<1>1. ASSUME NEW u \in Type, \A i \in 1 .. Len(u.args) : u.args[i] \in P PROVE u \in P
  <2> DEFINE T == Subtypes(u)
             m == Len(u.args)
  <2>1. ASSUME NEW i \in 1 .. m PROVE Taken(u, i) \in Seq(T)
    <3> DEFINE a == u.args[i]
    <3>1. a \in Type /\ a \in T /\ Collected(a) \in Seq(Subtypes(a)) /\ Subtypes(a) \subseteq T
      BY <1>1, SubtypesOf
    <3>2. Len(a.args) \in Nat /\ a.args \in Seq(Type) /\ \A j \in 1 .. Len(a.args) : a.args[j] \in Subtypes(a)
      BY <3>1, SubtypesOf, TypeIs, NodeFields
    <3> HIDE DEF a, T
    <3>5. a.args \in Seq(T)
      <4>1. \A j \in 1 .. Len(a.args) : a.args[j] \in T
        BY <3>1, <3>2
      <4> QED
        BY <3>2, <4>1
    <3>3. a.args \in Seq(T) /\ Collected(a) \in Seq(T)
      BY <3>1, <3>5
    <3>4. <<a>> \o Collected(a) \in Seq(T)
      BY <3>1, <3>3
    <3> QED
      BY <3>3, <3>4 DEF Taken, TakenFrom, a
  <2>2. m \in Nat
    BY TypeIs, NodeFields
  <2> HIDE DEF m, T
  <2>3. [i \in 1 .. m |-> Taken(u, i)] \in Seq(Seq(T))
    BY <2>1, <2>2
  <2>4. FlattenSeq(AllTaken(u)) \in Seq(T)
    BY <2>3, FlattenType DEF AllTaken, m
  <2> QED
    BY <2>4, CollectedStep DEF T
<1> HIDE DEF P
<1>2. Type \subseteq P
  BY <1>1, TypeInduction
<1> QED
  BY <1>2 DEF P

-----------------------------------------------------------------------------
(***************************************************************************)
(* Placeholders.                                                           *)
(***************************************************************************)
Hole(t, i) == t.k \in {"Path", "Array"} /\ t.args[i].k = "Infer"

HolesAt(t, i) == IF Hole(t, i) THEN 1 ELSE Holes(t.args[i])

\* f[i] is the number of placeholders in the first i args of t.
Counts(f, t) ==
  /\ f \in [0 .. Len(t.args) -> Nat]
  /\ f[0] = 0 /\ f[Len(t.args)] = Holes(t)
  /\ \A i \in 1 .. Len(t.args) : f[i] = f[i - 1] + HolesAt(t, i)

LEMMA PlaceholdersOfIs ==
  ASSUME NEW t \in Type, NEW v \in Seq(Seq(Type)), Len(v) = Len(t.args)
  PROVE  LET all == [i \in 1 .. Len(t.args) |-> IF Hole(t, i) THEN <<t.args[i]>> ELSE v[i]]
         IN  /\ all \in Seq(Seq(Type))
             /\ PlaceholdersOf(t, v) = FlattenSeq(all)
             /\ PlaceholdersOf(t, v) \in Seq(Type)
<1> DEFINE m == Len(t.args)
           one(i) == IF Hole(t, i) THEN <<t.args[i]>> ELSE v[i]
           all == [i \in 1 .. m |-> one(i)]
<1>1. m \in Nat /\ DOMAIN t.args = 1 .. m /\ \A i \in 1 .. m : t.args[i] \in Type /\ v[i] \in Seq(Type)
  BY TypeIs, NodeFields, ElementOfSeq
<1>2. all \in Seq(Seq(Type))
  <2>1. \A i \in 1 .. m : one(i) \in Seq(Type)
    BY <1>1
  <2> HIDE DEF one
  <2> QED
    BY <1>1, <2>1
<1>3. FlattenSeq(all) \in Seq(Type)
  <2> HIDE DEF all
  <2> QED
    BY <1>2, FlattenType
<1>4. PlaceholdersOf(t, v) = FlattenSeq(all)
  BY <1>1 DEF PlaceholdersOf, Hole
<1> QED
  BY <1>2, <1>3, <1>4

LEMMA HolesSum ==
  ASSUME NEW t \in Type
  PROVE  Holes(t) \in Nat /\ \E f : Counts(f, t)
<1> DEFINE S == Seq(Type)
           F == [x \in Type \X Seq(S) |-> PlaceholdersOf(x[1], x[2])]
           c == CHOOSE f : f = [u \in Type |-> PlaceholdersOf(u, [i \in DOMAIN u.args |-> f[u.args[i]]])]
<1>1. \A u : Holes(u) = Len(c[u])
  BY DEF Holes, Traversed
<1>2. \A u \in Type : \A v \in Seq(S) : Len(v) = Len(u.args) => PlaceholdersOf(u, v) \in S
  BY PlaceholdersOfIs
<1>3. \A u \in Type : \A v \in Seq(S) : F[<<u, v>>] = PlaceholdersOf(u, v)
  OBVIOUS
<1>4. PICK g \in [Type -> S] : \A u \in Type : g[u] = F[<<u, Inside(u, g)>>]
  <2> HIDE DEF F
  <2>1. <<>> \in S
    OBVIOUS
  <2> HIDE DEF S
  <2>2. Visitor(F, S)
    BY <1>2, <1>3 DEF Visitor
  <2>3. \E g \in [Type -> S] : Follows(g, F)
    BY <2>1, <2>2, TraversalExists
  <2> QED
    BY <2>3 DEF Follows
<1>5. ASSUME NEW u \in Type PROVE \A i \in 1 .. Len(u.args) : u.args[i] \in Type
  BY TypeIs, NodeFields
<1> HIDE DEF F, S
<1>6. \A u \in Type : g[u] = PlaceholdersOf(u, Inside(u, g))
  BY <1>3, <1>4, <1>5, InsideType DEF Valued
<1>7. g = [u \in Type |-> PlaceholdersOf(u, [i \in DOMAIN u.args |-> g[u.args[i]]])]
  BY <1>6 DEF Inside
<1>8. c = [u \in Type |-> PlaceholdersOf(u, [i \in DOMAIN u.args |-> c[u.args[i]]])]
  BY <1>7
<1> HIDE DEF c
<1>9. \A u \in Type : c[u] = PlaceholdersOf(u, Inside(u, c))
  BY <1>8 DEF Inside
<1> DEFINE P == {u \in Type : c[u] \in S}
<1>10. ASSUME NEW u \in Type, \A i \in 1 .. Len(u.args) : u.args[i] \in P PROVE u \in P
  <2>1. Valued(u, c, S)
    BY <1>10 DEF Valued
  <2>2. Inside(u, c) \in Seq(S) /\ Len(Inside(u, c)) = Len(u.args)
    BY <2>1, InsideType
  <2> QED
    BY <1>2, <1>9, <2>2
<1> HIDE DEF P
<1>11. Type \subseteq P
  BY <1>10, TypeInduction
<1>12. \A u \in Type : c[u] \in S
  BY <1>11 DEF P
<1> DEFINE v == Inside(t, c)
           m == Len(t.args)
           all == [i \in 1 .. m |-> IF Hole(t, i) THEN <<t.args[i]>> ELSE v[i]]
<1>13. v \in Seq(S) /\ Len(v) = m /\ \A i \in 1 .. m : v[i] = c[t.args[i]]
  <2>1. Valued(t, c, S)
    BY <1>5, <1>12 DEF Valued
  <2> QED
    BY <2>1, InsideType
<1>14. all \in Seq(Seq(Type)) /\ c[t] = FlattenSeq(all) /\ m \in Nat
  <2> HIDE DEF v
  <2>1. all \in Seq(Seq(Type)) /\ PlaceholdersOf(t, v) = FlattenSeq(all)
    BY <1>13, PlaceholdersOfIs DEF S
  <2> QED
    BY <1>9, <2>1, TypeIs, NodeFields DEF v
<1>15. Len(all) = m /\ \A i \in 1 .. m : Len(all[i]) = HolesAt(t, i)
  <2> HIDE DEF v, m
  <2>1. Len(all) = m
    BY <1>14
  <2>2. \A i \in 1 .. m : Len(all[i]) = HolesAt(t, i)
    BY <1>1, <1>13 DEF HolesAt
  <2> QED
    BY <2>1, <2>2
<1> HIDE DEF all, v, m
<1>16. Holes(t) = Len(FlattenSeq(all)) /\ FlattenSeq(all) \in Seq(Type)
  BY <1>1, <1>14, FlattenType
<1>17. /\ Offset(all, 0) = 0 /\ Offset(all, m) = Len(FlattenSeq(all))
       /\ \A n \in 0 .. m : Offset(all, n) \in Nat
       /\ \A n \in 1 .. m : Offset(all, n) = Offset(all, n - 1) + HolesAt(t, n)
  <2>1. /\ Offset(all, 0) = 0 /\ Offset(all, Len(all)) = Len(FlattenSeq(all))
        /\ \A n \in 0 .. Len(all) : Offset(all, n) \in 0 .. Len(FlattenSeq(all))
        /\ \A n \in 1 .. Len(all) : Offset(all, n) = Offset(all, n - 1) + Len(all[n])
    BY <1>14, FlattenPlaces
  <2> QED
    BY <1>15, <2>1
<1> DEFINE f == [n \in 0 .. m |-> Offset(all, n)]
<1>18. Counts(f, t)
  <2>1. f \in [0 .. m -> Nat] /\ \A n \in 0 .. m : f[n] = Offset(all, n)
    BY <1>17
  <2>2. 0 \in 0 .. m /\ m \in 0 .. m /\ \A n \in 1 .. m : n \in 0 .. m /\ n - 1 \in 0 .. m
    BY <1>14
  <2> HIDE DEF f
  <2>3. f \in [0 .. m -> Nat] /\ f[0] = 0 /\ f[m] = Holes(t)
        /\ \A i \in 1 .. m : f[i] = f[i - 1] + HolesAt(t, i)
    BY <1>16, <1>17, <2>1, <2>2
  <2> QED
    BY <2>3 DEF Counts, m
<1> QED
  BY <1>16, <1>18

-----------------------------------------------------------------------------
(***************************************************************************)
(* Types with their placeholders replaced.                                 *)
(***************************************************************************)
\* Types nested however deep.
Tree == UNION {Types(n) : n \in Nat}

LEMMA TreeSeq ==
  ASSUME NEW s \in Seq(Tree)
  PROVE  \E n \in Nat : s \in Seq(Types(n))
<1> DEFINE m == Len(s)
           Z == {i \in 0 .. m : \E n \in Nat : \A j \in 1 .. i : s[j] \in Types(n)}
<1>1. m \in Nat /\ \A j \in 1 .. m : s[j] \in Tree
  BY ElementOfSeq
<1>2. 0 \in Z
  <2>1. 0 \in Nat /\ 0 \in 0 .. m
    BY <1>1
  <2>2. \A j \in 1 .. 0 : s[j] \in Types(0)
    OBVIOUS
  <2> QED
    BY <2>1, <2>2
<1> HIDE DEF m
<1>3. ASSUME NEW i \in 0 .. m - 1, i \in Z PROVE i + 1 \in Z
  <2>1. PICK n \in Nat : \A j \in 1 .. i : s[j] \in Types(n)
    BY <1>3
  <2>2. i + 1 \in 1 .. m /\ i + 1 \in 0 .. m
    BY <1>1
  <2>3. PICK k \in Nat : s[i + 1] \in Types(k)
    BY <1>1, <2>2 DEF Tree
  <2>4. n + k \in Nat /\ n \in 0 .. n + k /\ k \in 0 .. n + k
    OBVIOUS
  <2>5. Types(n) \subseteq Types(n + k) /\ Types(k) \subseteq Types(n + k)
    BY <2>4, TypesMore
  <2>6. \A j \in 1 .. i + 1 : s[j] \in Types(n + k)
    <3> TAKE j \in 1 .. i + 1
    <3>1. j = i + 1 \/ j \in 1 .. i
      BY <2>2
    <3> QED
      BY <2>1, <2>3, <2>5, <3>1
  <2> QED
    BY <2>2, <2>4, <2>6
<1> HIDE DEF Z
<1>4. 0 .. m \subseteq Z
  BY <1>1, <1>2, <1>3, UpTo
<1>5. PICK n \in Nat : \A j \in 1 .. m : s[j] \in Types(n)
  <2>1. m \in Z
    BY <1>1, <1>4
  <2> QED
    BY <2>1 DEF Z
<1>6. s \in Seq(Types(n))
  BY <1>1, <1>5 DEF m
<1> QED
  BY <1>6

LEMMA TreeNode ==
  ASSUME NEW t \in Type, NEW args \in Seq(Tree)
  PROVE  [t EXCEPT !.args = args] \in Tree
<1>1. PICK n \in Nat : args \in Seq(Types(n))
  BY TreeSeq
<1>2. t.k \in Kinds /\ t.name \in Names /\ t = [k |-> t.k, name |-> t.name, args |-> t.args]
  BY TypeIs, NodeFields
<1>3. [t EXCEPT !.args = args] = [k |-> t.k, name |-> t.name, args |-> args]
  BY <1>2
<1>4. n + 1 \in Nat /\ [k |-> t.k, name |-> t.name, args |-> args] \in Types(n + 1)
  BY <1>1, <1>2, Node
<1> QED
  BY <1>3, <1>4 DEF Tree

LEMMA TypeIsTree == Type \subseteq Tree
BY TypeIs DEF Tree

State == [ok : BOOLEAN, args : Seq(Tree), rest : Seq(Type)]

Result == [ok : BOOLEAN, ty : Tree, rest : Seq(Type)]

Started(q) == [ok |-> TRUE, args |-> <<>>, rest |-> q]

Finished(t, o) == [ok |-> o.ok, ty |-> [t EXCEPT !.args = o.args], rest |-> o.rest]

LEMMA VisitArgType ==
  ASSUME NEW t \in Type, NEW v \in Seq([Seq(Type) -> Result]), Len(v) = Len(t.args),
         NEW i \in 1 .. Len(t.args), NEW o \in State
  PROVE  VisitArg(t, v, i, o) \in State
<1> DEFINE arg == v[i][o.rest]
<1>1. o.ok \in BOOLEAN /\ o.args \in Seq(Tree) /\ o.rest \in Seq(Type)
      /\ o = [ok |-> o.ok, args |-> o.args, rest |-> o.rest]
  BY DEF State
<1>2. arg.ok \in BOOLEAN /\ arg.ty \in Tree /\ arg.rest \in Seq(Type)
  <2>1. v[i] \in [Seq(Type) -> Result]
    BY ElementOfSeq
  <2>2. arg \in Result
    BY <1>1, <2>1
  <2> HIDE DEF arg
  <2> QED
    BY <2>2 DEF Result
<1> HIDE DEF arg
<1>3. [o EXCEPT !.ok = FALSE] \in State
  BY <1>1 DEF State
<1>4. [ok |-> arg.ok, args |-> Append(o.args, arg.ty), rest |-> arg.rest] \in State
  <2>1. Append(o.args, arg.ty) \in Seq(Tree)
    BY <1>1, <1>2, AppendProperties
  <2> QED
    BY <1>2, <2>1 DEF State
<1>5. o.rest # <<>> =>
        [ok |-> TRUE, args |-> Append(o.args, Head(o.rest)), rest |-> Tail(o.rest)] \in State
  <2>1. o.rest # <<>> => Head(o.rest) \in Type /\ Tail(o.rest) \in Seq(Type)
    BY <1>1, HeadTailProperties
  <2>2. o.rest # <<>> => Append(o.args, Head(o.rest)) \in Seq(Tree)
    BY <1>1, <2>1, TypeIsTree, AppendProperties
  <2> QED
    BY <2>1, <2>2 DEF State
<1> QED
  BY <1>3, <1>4, <1>5 DEF VisitArg, Pop, arg

\* f[i] is where InferGeneric is after the first i args of t.
Visits(f, t, v, q) ==
  /\ f \in [0 .. Len(t.args) -> State]
  /\ f[0] = Started(q)
  /\ \A i \in 1 .. Len(t.args) : f[i] = VisitArg(t, v, i, f[i - 1])
  /\ InferGeneric(t, v)[q] = Finished(t, f[Len(t.args)])

LEMMA InferGenericSteps ==
  ASSUME NEW t \in Type, NEW v \in Seq([Seq(Type) -> Result]), Len(v) = Len(t.args),
         NEW q \in Seq(Type)
  PROVE  \E f : Visits(f, t, v, q)
<1> DEFINE m == Len(t.args)
           F == [x \in (1 .. m) \X State |-> VisitArg(t, v, x[1], x[2])]
           visit == CHOOSE f : f = [i \in 0 .. m |->
                      IF i = 0 THEN [ok |-> TRUE, args |-> <<>>, rest |-> q]
                      ELSE VisitArg(t, v, i, f[i - 1])]
<1>1. m \in Nat
  BY TypeIs, NodeFields
<1>2. InferGeneric(t, v)[q] = [ok |-> visit[m].ok, ty |-> [t EXCEPT !.args = visit[m].args],
                               rest |-> visit[m].rest]
  BY DEF InferGeneric
<1>3. InferGeneric(t, v)[q] = Finished(t, visit[m])
  BY <1>2 DEF Finished
<1>4. \A i \in 1 .. m : \A o \in State : VisitArg(t, v, i, o) \in State /\ F[<<i, o>>] = VisitArg(t, v, i, o)
  BY VisitArgType
<1>5. F \in [(1 .. m) \X State -> State]
  BY <1>4
<1>6. Started(q) \in State
  BY DEF Started, State
<1> HIDE DEF m
<1>7. PICK g : Computes(g, m, State, Started(q), F)
  <2> HIDE DEF F
  <2> QED
    BY <1>1, <1>5, <1>6, RecursionExists
<1> HIDE DEF F
<1>8. g \in [0 .. m -> State] /\ \A i \in 0 .. m : g[i] = IF i = 0 THEN Started(q) ELSE F[<<i, g[i - 1]>>]
  BY <1>7 DEF Computes
<1>9. \A i \in 0 .. m : g[i] = IF i = 0 THEN Started(q) ELSE VisitArg(t, v, i, g[i - 1])
  <2> TAKE i \in 0 .. m
  <2>1. CASE i = 0
    BY <1>8, <2>1
  <2>2. CASE i # 0
    <3>1. i \in 1 .. m /\ i - 1 \in 0 .. m
      BY <1>1, <2>2
    <3>2. g[i - 1] \in State
      BY <1>8, <3>1
    <3>3. F[<<i, g[i - 1]>>] = VisitArg(t, v, i, g[i - 1])
      BY <1>4, <3>1, <3>2
    <3> QED
      BY <1>8, <2>2, <3>3
  <2> QED
    BY <2>1, <2>2
<1>10. g = [i \in 0 .. m |-> IF i = 0 THEN [ok |-> TRUE, args |-> <<>>, rest |-> q]
                             ELSE VisitArg(t, v, i, g[i - 1])]
  BY <1>8, <1>9 DEF Started
<1>11. visit = [i \in 0 .. m |-> IF i = 0 THEN [ok |-> TRUE, args |-> <<>>, rest |-> q]
                                 ELSE VisitArg(t, v, i, visit[i - 1])]
  BY <1>10
<1> HIDE DEF visit
<1>12. visit[0] = Started(q) /\ \A i \in 1 .. m : visit[i] = VisitArg(t, v, i, visit[i - 1])
  <2>1. 0 \in 0 .. m /\ \A i \in 1 .. m : i \in 0 .. m /\ i # 0
    BY <1>1
  <2> QED
    BY <1>11, <2>1 DEF Started
<1> DEFINE Z == {i \in 0 .. m : visit[i] \in State}
<1>13. 0 \in Z
  BY <1>1, <1>6, <1>12
<1>14. ASSUME NEW i \in 0 .. m - 1, i \in Z PROVE i + 1 \in Z
  <2>1. i + 1 \in 1 .. m /\ i + 1 \in 0 .. m /\ (i + 1) - 1 = i /\ visit[i] \in State
    BY <1>1, <1>14
  <2>2. visit[i + 1] = VisitArg(t, v, i + 1, visit[i])
    BY <1>12, <2>1
  <2> QED
    BY <1>4, <2>1, <2>2
<1> HIDE DEF Z
<1>15. 0 .. m \subseteq Z
  BY <1>1, <1>13, <1>14, UpTo
<1>16. visit \in [0 .. m -> State]
  BY <1>11, <1>15 DEF Z
<1> QED
  BY <1>3, <1>12, <1>16 DEF Visits, m

LEMMA InferGenericType ==
  ASSUME NEW t \in Type, NEW v \in Seq([Seq(Type) -> Result]), Len(v) = Len(t.args)
  PROVE  InferGeneric(t, v) \in [Seq(Type) -> Result]
<1>1. ASSUME NEW q \in Seq(Type) PROVE InferGeneric(t, v)[q] \in Result
  <2>1. PICK f : Visits(f, t, v, q)
    BY InferGenericSteps
  <2> DEFINE o == f[Len(t.args)]
  <2>2. o \in State /\ InferGeneric(t, v)[q] = Finished(t, o)
    <3>1. Len(t.args) \in 0 .. Len(t.args)
      BY TypeIs, NodeFields
    <3> QED
      BY <2>1, <3>1 DEF Visits
  <2> HIDE DEF o
  <2>3. o.ok \in BOOLEAN /\ o.args \in Seq(Tree) /\ o.rest \in Seq(Type)
    BY <2>2 DEF State
  <2>4. [t EXCEPT !.args = o.args] \in Tree
    BY <2>3, TreeNode
  <2> QED
    BY <2>2, <2>3, <2>4 DEF Finished, Result
<1>2. InferGeneric(t, v) = [q \in Seq(Type) |-> InferGeneric(t, v)[q]]
  BY DEF InferGeneric
<1> QED
  BY <1>1, <1>2

\* What InferGeneric does with the i-th arg of t, after o.
InferArg(t, i, o) ==
  LET arg == Inferred(t.args[i], o.rest)
  IN  IF ~o.ok \/ (Hole(t, i) /\ o.rest = <<>>) THEN [o EXCEPT !.ok = FALSE]
      ELSE IF Hole(t, i)
      THEN [ok |-> TRUE, args |-> Append(o.args, Head(o.rest)), rest |-> Tail(o.rest)]
      ELSE [ok |-> arg.ok, args |-> Append(o.args, arg.ty), rest |-> arg.rest]

Infers(f, t, q) ==
  /\ f \in [0 .. Len(t.args) -> State]
  /\ f[0] = Started(q)
  /\ \A i \in 1 .. Len(t.args) : f[i] = InferArg(t, i, f[i - 1])
  /\ Inferred(t, q) = Finished(t, f[Len(t.args)])

LEMMA InferredSteps ==
  ASSUME NEW t \in Type, NEW q \in Seq(Type)
  PROVE  Inferred(t, q) \in Result /\ \E f : Infers(f, t, q)
<1> DEFINE S == [Seq(Type) -> Result]
           F == [x \in Type \X Seq(S) |-> InferGeneric(x[1], x[2])]
           c == CHOOSE f : f = [u \in Type |-> InferGeneric(u, [i \in DOMAIN u.args |-> f[u.args[i]]])]
<1>1. \A u, r : Inferred(u, r) = c[u][r]
  BY DEF Inferred, Traversed
<1>2. \A u \in Type : \A v \in Seq(S) : Len(v) = Len(u.args) => InferGeneric(u, v) \in S
  BY InferGenericType
<1>3. \A u \in Type : \A v \in Seq(S) : F[<<u, v>>] = InferGeneric(u, v)
  OBVIOUS
<1>4. PICK g \in [Type -> S] : \A u \in Type : g[u] = F[<<u, Inside(u, g)>>]
  <2> DEFINE failed == [r \in Seq(Type) |-> [ok |-> FALSE, ty |-> t, rest |-> <<>>]]
  <2>1. failed \in S
    <3>1. <<>> \in Seq(Type) /\ t \in Tree
      BY TypeIsTree
    <3> QED
      BY <3>1 DEF Result
  <2> HIDE DEF F, S, failed
  <2>2. Visitor(F, S)
    BY <1>2, <1>3 DEF Visitor
  <2>3. \E g \in [Type -> S] : Follows(g, F)
    BY <2>1, <2>2, TraversalExists
  <2> QED
    BY <2>3 DEF Follows
<1>5. ASSUME NEW u \in Type PROVE \A i \in 1 .. Len(u.args) : u.args[i] \in Type
  BY TypeIs, NodeFields
<1> HIDE DEF F, S
<1>6. \A u \in Type : g[u] = InferGeneric(u, Inside(u, g))
  BY <1>3, <1>4, <1>5, InsideType DEF Valued
<1>7. g = [u \in Type |-> InferGeneric(u, [i \in DOMAIN u.args |-> g[u.args[i]]])]
  BY <1>6 DEF Inside
<1>8. c = [u \in Type |-> InferGeneric(u, [i \in DOMAIN u.args |-> c[u.args[i]]])]
  BY <1>7
<1> HIDE DEF c
<1>9. \A u \in Type : c[u] = InferGeneric(u, Inside(u, c))
  BY <1>8 DEF Inside
<1> DEFINE P == {u \in Type : c[u] \in S}
<1>10. ASSUME NEW u \in Type, \A i \in 1 .. Len(u.args) : u.args[i] \in P PROVE u \in P
  <2>1. Valued(u, c, S)
    BY <1>10 DEF Valued
  <2>2. Inside(u, c) \in Seq(S) /\ Len(Inside(u, c)) = Len(u.args)
    BY <2>1, InsideType
  <2> QED
    BY <1>2, <1>9, <2>2
<1> HIDE DEF P
<1>11. Type \subseteq P
  BY <1>10, TypeInduction
<1>12. \A u \in Type : c[u] \in S
  BY <1>11 DEF P
<1>13. Inferred(t, q) \in Result
  BY <1>1, <1>12 DEF S
<1> DEFINE v == Inside(t, c)
           m == Len(t.args)
<1>14. v \in Seq(S) /\ Len(v) = m /\ \A i \in 1 .. m : v[i] = c[t.args[i]]
  <2>1. Valued(t, c, S)
    BY <1>5, <1>12 DEF Valued
  <2> QED
    BY <2>1, InsideType
<1>15. c[t] = InferGeneric(t, v)
  BY <1>9
<1> HIDE DEF v
<1>16. PICK f : Visits(f, t, v, q)
  BY <1>14, InferGenericSteps DEF S
<1>17. \A i \in 1 .. m : \A o : VisitArg(t, v, i, o) = InferArg(t, i, o)
  BY <1>1, <1>14 DEF VisitArg, InferArg, Pop, Hole, Replaces
<1>18. Infers(f, t, q)
  BY <1>1, <1>15, <1>16, <1>17 DEF Visits, Infers
<1> QED
  BY <1>13, <1>18

-----------------------------------------------------------------------------
(***************************************************************************)
(* AllReplaced.                                                            *)
(***************************************************************************)
\* The types that may be in the queue.
Plain == {t \in Types(Depth) : \A s \in Subtypes(t) : s.k # "Infer"}

LEMMA PlainType == Plain \subseteq Type
<1>1. Depth \in 0 .. 2 * Depth
  BY TypeIs
<1> QED
  BY <1>1, TypeIs DEF Plain

LEMMA NoHoles ==
  ASSUME NEW t \in Type, \A i \in 1 .. Len(t.args) : ~Hole(t, i) /\ Holes(t.args[i]) = 0
  PROVE  Holes(t) = 0
<1> DEFINE m == Len(t.args)
<1>1. PICK f : Counts(f, t)
  BY HolesSum
<1>2. f \in [0 .. m -> Nat] /\ f[0] = 0 /\ f[m] = Holes(t) /\ \A i \in 1 .. m : f[i] = f[i - 1] + HolesAt(t, i)
  BY <1>1 DEF Counts
<1>3. m \in Nat /\ \A i \in 1 .. m : HolesAt(t, i) = 0
  BY TypeIs, NodeFields DEF HolesAt
<1> HIDE DEF m
<1> DEFINE Z == {i \in 0 .. m : f[i] = 0}
<1>4. 0 \in Z
  BY <1>2, <1>3
<1>5. ASSUME NEW i \in 0 .. m - 1, i \in Z PROVE i + 1 \in Z
  <2>1. i + 1 \in 1 .. m /\ i + 1 \in 0 .. m /\ (i + 1) - 1 = i /\ f[i] = 0
    BY <1>3, <1>5
  <2>2. f[i + 1] = f[i] + HolesAt(t, i + 1) /\ HolesAt(t, i + 1) = 0
    BY <1>2, <1>3, <2>1
  <2> QED
    BY <2>1, <2>2
<1> HIDE DEF Z
<1>6. 0 .. m \subseteq Z
  BY <1>3, <1>4, <1>5, UpTo
<1>7. m \in 0 .. m
  BY <1>3
<1> QED
  BY <1>2, <1>6, <1>7 DEF Z

LEMMA PlainHoles ==
  ASSUME NEW t \in Type, \A s \in Subtypes(t) : s.k # "Infer"
  PROVE  Holes(t) = 0
<1> DEFINE P == {u \in Type : (\A s \in Subtypes(u) : s.k # "Infer") => Holes(u) = 0}
<1>1. ASSUME NEW u \in Type, \A i \in 1 .. Len(u.args) : u.args[i] \in P PROVE u \in P
  <2>1. SUFFICES ASSUME \A s \in Subtypes(u) : s.k # "Infer" PROVE Holes(u) = 0
    OBVIOUS
  <2>2. \A i \in 1 .. Len(u.args) : ~Hole(u, i) /\ Holes(u.args[i]) = 0
    BY <1>1, <2>1, SubtypesOf DEF Hole
  <2> QED
    BY <2>2, NoHoles
<1> HIDE DEF P
<1>2. Type \subseteq P
  BY <1>1, TypeInduction
<1> QED
  BY <1>2 DEF P

\* rest is what is left of the queue q when n of its types are taken.
Spent(q, n, rest) == rest \in Seq(Plain) /\ Len(rest) = Len(q) - n

\* InferGeneric visits u: it has enough types, or panics, and what it makes is nested
\* at most e deep and has no placeholder.
Fits(u, q, e) ==
  LET o == Inferred(u, q)
  IN  /\ o.ok <=> Holes(u) <= Len(q)
      /\ o.ok => Spent(q, Holes(u), o.rest) /\ o.ty \in Types(e) /\ o.ty.k = u.k /\ Holes(o.ty) = 0

FitsAll(u, e) == \A q \in Seq(Plain) : Fits(u, q, e)

\* The same after the first i args of t, which have n placeholders.
Filled(t, i, args, e) ==
  /\ args \in Seq(Types(e)) /\ Len(args) = i
  /\ \A j \in 1 .. i : (t.k \in {"Path", "Array"} => args[j].k # "Infer") /\ Holes(args[j]) = 0

FitsSoFar(t, q, e, i, o, n) ==
  /\ o.ok <=> n <= Len(q)
  /\ o.ok => Spent(q, n, o.rest) /\ Filled(t, i, o.args, e)

LEMMA FilledAppend ==
  ASSUME NEW t, NEW i \in Nat, NEW e \in Nat, NEW args, Filled(t, i, args, e),
         NEW x \in Types(e), t.k \in {"Path", "Array"} => x.k # "Infer", Holes(x) = 0
  PROVE  Filled(t, i + 1, Append(args, x), e)
<1> DEFINE new == Append(args, x)
<1>1. /\ args \in Seq(Types(e)) /\ Len(args) = i
      /\ \A j \in 1 .. i : (t.k \in {"Path", "Array"} => args[j].k # "Infer") /\ Holes(args[j]) = 0
  BY DEF Filled
<1>2. new \in Seq(Types(e)) /\ Len(new) = i + 1 /\ new[i + 1] = x /\ \A j \in 1 .. i : new[j] = args[j]
  BY <1>1, AppendProperties
<1> HIDE DEF new
<1>3. \A j \in 1 .. i + 1 : (t.k \in {"Path", "Array"} => new[j].k # "Infer") /\ Holes(new[j]) = 0
  <2> TAKE j \in 1 .. i + 1
  <2>1. j = i + 1 \/ j \in 1 .. i
    OBVIOUS
  <2> QED
    BY <1>1, <1>2, <2>1
<1> QED
  BY <1>2, <1>3 DEF Filled, new

LEMMA OneLess ==
  ASSUME NEW n \in Nat, NEW l \in Nat, NEW k \in Nat, k # 0, k = l - n, NEW j, j = k - 1
  PROVE  n + 1 <= l /\ j = l - (n + 1)
OBVIOUS

LEMMA FitsStep ==
  ASSUME NEW t \in Type, NEW q \in Seq(Plain), NEW e \in Nat, Depth <= e,
         NEW i \in 1 .. Len(t.args), NEW n \in Nat, NEW o, FitsSoFar(t, q, e, i - 1, o, n),
         o \in State, FitsAll(t.args[i], e)
  PROVE  FitsSoFar(t, q, e, i, InferArg(t, i, o), n + HolesAt(t, i))
<1> DEFINE a   == t.args[i]
           new == InferArg(t, i, o)
           arg == Inferred(a, o.rest)
<1>1. i - 1 \in Nat /\ (i - 1) + 1 = i /\ Len(q) \in Nat /\ a \in Type
  BY TypeIs, NodeFields
<1>8. o.ok \in BOOLEAN /\ o = [ok |-> o.ok, args |-> o.args, rest |-> o.rest]
  BY DEF State
<1>2. HolesAt(t, i) \in Nat
  BY <1>1, HolesSum DEF HolesAt
<1>3. CASE ~o.ok
  <2>1. ~new.ok
    BY <1>3, <1>8 DEF InferArg
  <2>2. ~(n <= Len(q))
    BY <1>3 DEF FitsSoFar
  <2>3. ~(n + HolesAt(t, i) <= Len(q))
    BY <1>1, <1>2, <2>2
  <2> QED
    BY <2>1, <2>3 DEF FitsSoFar
<1>4. o.ok => /\ n <= Len(q) /\ o.rest \in Seq(Plain) /\ Len(o.rest) = Len(q) - n
              /\ Filled(t, i - 1, o.args, e)
  BY DEF FitsSoFar, Spent
<1>5. CASE o.ok /\ Hole(t, i) /\ o.rest = <<>>
  <2>1. ~new.ok
    BY <1>5, <1>8 DEF InferArg
  <2>2. HolesAt(t, i) = 1 /\ Len(o.rest) = 0
    BY <1>5 DEF HolesAt
  <2>3. ~(n + HolesAt(t, i) <= Len(q))
    BY <1>1, <1>4, <1>5, <2>2
  <2> QED
    BY <2>1, <2>3 DEF FitsSoFar
<1>6. CASE o.ok /\ Hole(t, i) /\ o.rest # <<>>
  <2> DEFINE x == Head(o.rest)
  <2>1. new = [ok |-> TRUE, args |-> Append(o.args, x), rest |-> Tail(o.rest)]
    BY <1>6 DEF InferArg
  <2>2. x \in Plain /\ Tail(o.rest) \in Seq(Plain) /\ Len(Tail(o.rest)) = Len(o.rest) - 1 /\ Len(o.rest) \in Nat
        /\ Len(o.rest) # 0
    BY <1>4, <1>6, HeadTailProperties
  <2> HIDE DEF x
  <2>3. x \in Type /\ x \in Types(e) /\ x.k # "Infer" /\ Holes(x) = 0
    <3>1. x \in Type /\ x \in Types(Depth) /\ \A s \in Subtypes(x) : s.k # "Infer"
      BY <2>2, PlainType DEF Plain
    <3>2. Depth \in 0 .. e
      BY TypeIs
    <3>3. x \in Types(e)
      BY <3>1, <3>2, TypesMore
    <3>4. x \in Subtypes(x)
      BY <3>1, SubtypesOf
    <3> QED
      BY <3>1, <3>3, <3>4, PlainHoles
  <2>4. HolesAt(t, i) = 1
    BY <1>6 DEF HolesAt
  <2>5. n + 1 <= Len(q) /\ Len(Tail(o.rest)) = Len(q) - (n + 1)
    <3> DEFINE l == Len(q)
               k == Len(o.rest)
               j == Len(Tail(o.rest))
    <3>1. l \in Nat /\ k \in Nat /\ k # 0 /\ k = l - n /\ j = k - 1
      BY <1>1, <1>4, <1>6, <2>2
    <3> HIDE DEF l, k, j
    <3>2. n + 1 <= l /\ j = l - (n + 1)
      BY <3>1, OneLess
    <3> QED
      BY <3>2 DEF l, j
  <2>6. Filled(t, i, Append(o.args, x), e)
    BY <1>1, <1>4, <1>6, <2>3, FilledAppend
  <2> QED
    BY <2>1, <2>2, <2>4, <2>5, <2>6 DEF FitsSoFar, Spent
<1>7. CASE o.ok /\ ~Hole(t, i)
  <2>1. new = [ok |-> arg.ok, args |-> Append(o.args, arg.ty), rest |-> arg.rest]
    BY <1>7 DEF InferArg
  <2>2. HolesAt(t, i) = Holes(a)
    BY <1>7 DEF HolesAt
  <2>3. /\ arg.ok <=> Holes(a) <= Len(o.rest)
        /\ arg.ok => Spent(o.rest, Holes(a), arg.rest) /\ arg.ty \in Types(e) /\ arg.ty.k = a.k /\ Holes(arg.ty) = 0
    BY <1>4, <1>7 DEF Fits, FitsAll
  <2> HIDE DEF arg
  <2>4. arg.ok <=> n + Holes(a) <= Len(q)
    <3> DEFINE l == Len(q)
               k == Len(o.rest)
               h == Holes(a)
    <3>1. l \in Nat /\ h \in Nat /\ k = l - n
      BY <1>1, <1>2, <1>4, <1>7, <2>2
    <3>2. arg.ok <=> h <= k
      BY <2>3
    <3> HIDE DEF l, k, h
    <3>3. k \in Int /\ n \in Int /\ h \in Int /\ l \in Int /\ k = l - n
      BY <3>1
    <3>4. h <= k => n + h <= l
      BY <3>3
    <3>5. n + h <= l => h <= k
      BY <3>3
    <3> QED
      BY <3>2, <3>4, <3>5 DEF l, h
  <2>5. arg.ok => arg.rest \in Seq(Plain) /\ Len(arg.rest) = Len(q) - (n + Holes(a))
    BY <1>1, <1>2, <1>4, <1>7, <2>2, <2>3 DEF Spent
  <2>6. arg.ok => Filled(t, i, Append(o.args, arg.ty), e)
    <3> SUFFICES ASSUME arg.ok PROVE Filled(t, i, Append(o.args, arg.ty), e)
      OBVIOUS
    <3>1. t.k \in {"Path", "Array"} => arg.ty.k # "Infer"
      BY <1>7, <2>3 DEF Hole
    <3> QED
      BY <1>1, <1>4, <1>7, <2>3, <3>1, FilledAppend
  <2> QED
    BY <2>1, <2>2, <2>4, <2>5, <2>6 DEF FitsSoFar, Spent
<1> QED
  BY <1>3, <1>5, <1>6, <1>7

\* What is made of u when all its args were visited.
LEMMA FinishedFits ==
  ASSUME NEW n \in 0 .. Depth, NEW u \in Types(n), NEW args, NEW e \in Nat,
         e = IF n = 0 THEN Depth ELSE n - 1 + Depth,
         Filled(u, Len(u.args), args, e)
  PROVE  LET new == [u EXCEPT !.args = args]
         IN  new \in Types(n + Depth) /\ new.k = u.k /\ Holes(new) = 0
<1> DEFINE new == [u EXCEPT !.args = args]
           m == Len(u.args)
<1>1. n \in Nat /\ n + Depth \in 0 .. 2 * Depth /\ n + Depth \in Nat /\ (n # 0 => e + 1 = n + Depth)
      /\ 0 \in 0 .. n + Depth
  BY TypeIs
<1>2. /\ u.k \in Kinds /\ u.name \in Names /\ u = [k |-> u.k, name |-> u.name, args |-> u.args]
      /\ n = 0 => m = 0
  BY <1>1, NodeFields
<1>3. /\ args \in Seq(Types(e)) /\ Len(args) = m
      /\ \A j \in 1 .. m : (u.k \in {"Path", "Array"} => args[j].k # "Infer") /\ Holes(args[j]) = 0
  BY DEF Filled
<1>4. new = [k |-> u.k, name |-> u.name, args |-> args]
  BY <1>2
<1>5. new \in Types(n + Depth)
  <2>1. CASE n = 0
    <3>1. args = <<>>
      BY <1>2, <1>3, <2>1, EmptySeq
    <3>2. new \in Types(0)
      BY <1>2, <1>4, <3>1, TypesStep DEF Nodes
    <3> QED
      BY <1>1, <3>2, TypesMore
  <2>2. CASE n # 0
    <3>1. new \in Types(e + 1)
      BY <1>2, <1>3, <1>4, Node
    <3> QED
      BY <1>1, <2>2, <3>1
  <2> QED
    BY <2>1, <2>2
<1>6. new.k = u.k /\ new.args = args
  BY <1>4
<1>7. new \in Type
  BY <1>1, <1>5, TypeIs
<1> HIDE DEF new
<1>8. \A j \in 1 .. Len(new.args) : ~Hole(new, j) /\ Holes(new.args[j]) = 0
  BY <1>3, <1>6 DEF Hole
<1>9. Holes(new) = 0
  BY <1>7, <1>8, NoHoles
<1> QED
  BY <1>5, <1>6, <1>9 DEF new

LEMMA InferredFits ==
  ASSUME NEW n \in 0 .. Depth, NEW t \in Types(n)
  PROVE  FitsAll(t, n + Depth)
<1> DEFINE P == {u \in Type : \A i \in 0 .. Depth : u \in Types(i) => FitsAll(u, i + Depth)}
<1>1. ASSUME NEW u \in Type, \A i \in 1 .. Len(u.args) : u.args[i] \in P,
             NEW d \in 0 .. Depth, u \in Types(d), NEW q \in Seq(Plain)
      PROVE  Fits(u, q, d + Depth)
  <2> DEFINE m == Len(u.args)
             e == IF d = 0 THEN Depth ELSE d - 1 + Depth
  <2>1. m \in Nat /\ d \in Nat /\ e \in Nat /\ Depth <= e /\ Depth \in Nat
        /\ (d # 0 => d - 1 \in 0 .. Depth)
        /\ \A i \in 1 .. m : u.args[i] \in Types(d - 1) /\ d # 0
    <3>1. m \in Nat /\ d \in Nat /\ Depth \in Nat
          /\ \A i \in 1 .. m : u.args[i] \in Types(d - 1) /\ d # 0
      BY <1>1, TypeIs, NodeFields
    <3> HIDE DEF m
    <3>2. CASE d = 0
      BY <3>1, <3>2
    <3>3. CASE d # 0
      <4>1. d - 1 + Depth \in Nat /\ Depth <= d - 1 + Depth /\ d - 1 \in 0 .. Depth
        BY <3>1, <3>3
      <4> QED
        BY <3>1, <3>3, <4>1
    <3> QED
      BY <3>2, <3>3
  <2>2. \A i \in 1 .. m : FitsAll(u.args[i], e)
    <3> TAKE i \in 1 .. m
    <3>1. u.args[i] \in P /\ u.args[i] \in Types(d - 1) /\ d # 0 /\ d - 1 \in 0 .. Depth
      BY <1>1, <2>1
    <3> QED
      BY <3>1
  <2>3. q \in Seq(Type) /\ Len(q) \in Nat
    BY PlainType
  <2>4. PICK f : Infers(f, u, q)
    BY <2>3, InferredSteps
  <2>5. PICK g : Counts(g, u)
    BY HolesSum
  <2>6. /\ \A i \in 0 .. m : f[i] \in State
        /\ f[0] = Started(q) /\ \A i \in 1 .. m : f[i] = InferArg(u, i, f[i - 1])
    BY <2>4 DEF Infers
  <2>7. /\ \A i \in 0 .. m : g[i] \in Nat
        /\ g[0] = 0 /\ g[m] = Holes(u) /\ \A i \in 1 .. m : g[i] = g[i - 1] + HolesAt(u, i)
    BY <2>5 DEF Counts
  <2>8. Inferred(u, q) = Finished(u, f[m])
    BY <2>4 DEF Infers
  <2> HIDE DEF m, e
  <2> DEFINE Z == {i \in 0 .. m : FitsSoFar(u, q, e, i, f[i], g[i])}
  <2>9. 0 \in Z
    <3>1. Started(q).ok /\ Started(q).args = <<>> /\ Started(q).rest = q
      BY DEF Started
    <3>2. Filled(u, 0, <<>>, e)
      BY DEF Filled
    <3>3. Spent(q, 0, q) /\ 0 <= Len(q)
      BY <2>3 DEF Spent
    <3>4. FitsSoFar(u, q, e, 0, f[0], g[0])
      BY <2>6, <2>7, <3>1, <3>2, <3>3 DEF FitsSoFar
    <3> QED
      BY <2>1, <3>4
  <2>10. ASSUME NEW i \in 0 .. m - 1, i \in Z PROVE i + 1 \in Z
    <3>1. i + 1 \in 1 .. m /\ i + 1 \in 0 .. m /\ (i + 1) - 1 = i /\ FitsSoFar(u, q, e, i, f[i], g[i])
          /\ i \in 0 .. m
      BY <2>1, <2>10
    <3>2. FitsSoFar(u, q, e, i + 1, InferArg(u, i + 1, f[i]), g[i] + HolesAt(u, i + 1))
      BY <2>1, <2>2, <2>6, <2>7, <3>1, FitsStep DEF m
    <3>3. f[i + 1] = InferArg(u, i + 1, f[i]) /\ g[i + 1] = g[i] + HolesAt(u, i + 1)
      BY <2>6, <2>7, <3>1
    <3> QED
      BY <3>1, <3>2, <3>3
  <2> HIDE DEF Z
  <2>11. 0 .. m \subseteq Z
    BY <2>1, <2>9, <2>10, UpTo
  <2>12. FitsSoFar(u, q, e, m, f[m], Holes(u))
    <3>1. m \in Z
      BY <2>1, <2>11
    <3> QED
      BY <2>7, <3>1 DEF Z
  <2> DEFINE o == f[m]
             new == [u EXCEPT !.args = o.args]
  <2>13. /\ Inferred(u, q).ok = o.ok /\ Inferred(u, q).rest = o.rest /\ Inferred(u, q).ty = new
    BY <2>8 DEF Finished
  <2>14. /\ o.ok <=> Holes(u) <= Len(q)
         /\ o.ok => Spent(q, Holes(u), o.rest) /\ Filled(u, m, o.args, e)
    BY <2>12 DEF FitsSoFar
  <2>15. o.ok => new \in Types(d + Depth) /\ new.k = u.k /\ Holes(new) = 0
    <3> HIDE DEF o
    <3> QED
      BY <1>1, <2>1, <2>14, FinishedFits DEF m, e
  <2> HIDE DEF o, new
  <2> QED
    BY <2>13, <2>14, <2>15 DEF Fits
<1>2. ASSUME NEW u \in Type, \A i \in 1 .. Len(u.args) : u.args[i] \in P PROVE u \in P
  <2> HIDE DEF P
  <2>1. \A d \in 0 .. Depth : u \in Types(d) => \A q \in Seq(Plain) : Fits(u, q, d + Depth)
    BY <1>1, <1>2
  <2> QED
    BY <2>1 DEF P, FitsAll
<1> HIDE DEF P
<1>3. Type \subseteq P
  BY <1>2, TypeInduction
<1>4. t \in Type
  <2>1. n \in 0 .. 2 * Depth
    BY TypeIs
  <2> QED
    BY <2>1, TypeIs
<1> QED
  BY <1>3, <1>4 DEF P

LEMMA SubtypesInside ==
  ASSUME NEW t \in Type, NEW s \in Subtypes(t)
  PROVE  s \in Type /\ Subtypes(s) \subseteq Subtypes(t)
<1> DEFINE P == {u \in Type : \A r \in Subtypes(u) : Subtypes(r) \subseteq Subtypes(u)}
<1>1. ASSUME NEW u \in Type, \A i \in 1 .. Len(u.args) : u.args[i] \in P PROVE u \in P
  <2>1. ASSUME NEW r \in Subtypes(u) PROVE Subtypes(r) \subseteq Subtypes(u)
    <3>1. Subtypes(u) = {u} \cup UNION {Subtypes(u.args[i]) : i \in 1 .. Len(u.args)}
      BY SubtypesStep
    <3>2. CASE r = u
      BY <3>2
    <3>3. ASSUME NEW i \in 1 .. Len(u.args), r \in Subtypes(u.args[i]) PROVE Subtypes(r) \subseteq Subtypes(u)
      <4>1. Subtypes(r) \subseteq Subtypes(u.args[i])
        BY <1>1, <3>3
      <4> QED
        BY <4>1, SubtypesOf
    <3> QED
      BY <2>1, <3>1, <3>2, <3>3
  <2> QED
    BY <2>1
<1> HIDE DEF P
<1>2. Type \subseteq P
  BY <1>1, TypeInduction
<1> QED
  BY <1>2, SubtypesStep DEF P

\* A field's type and what is collected from it: the queue, and what it may hold.
Queue(t) == IF Collected(t) = <<>> THEN <<t>> ELSE Collected(t)

LEMMA QueueType ==
  ASSUME NEW t \in FieldTypes
  PROVE  /\ t \in Plain /\ t \in Type /\ Subtypes(t) \subseteq Plain
         /\ Collected(t) \in Seq(Plain) /\ Queue(t) \in Seq(Plain)
         /\ Len(Queue(t)) = IF Len(Collected(t)) = 0 THEN 1 ELSE Len(Collected(t))
<1>1. t \in Types(Depth) /\ \A s \in Subtypes(t) : s.k # "Infer"
  BY InferAssumption
<1>2. Depth \in 0 .. 2 * Depth
  BY TypeIs
<1>3. t \in Type /\ t \in Plain
  BY <1>1, <1>2, TypeIs DEF Plain
<1>4. ASSUME NEW s \in Subtypes(t) PROVE s \in Plain
  <2>1. s \in Types(Depth)
    BY <1>1, <1>2, SubtypesDeep
  <2>2. Subtypes(s) \subseteq Subtypes(t)
    BY <1>3, SubtypesInside
  <2> QED
    BY <1>1, <2>1, <2>2 DEF Plain
<1>5. Collected(t) \in Seq(Subtypes(t))
  BY <1>3, CollectedType
<1> DEFINE T == Subtypes(t)
           c == Collected(t)
<1>6. c \in Seq(T) /\ T \subseteq Plain
  BY <1>4, <1>5
<1> HIDE DEF T, c
<1>7. c \in Seq(Plain) /\ Len(c) \in Nat /\ (c = <<>> <=> Len(c) = 0)
  BY <1>6, EmptySeq
<1>8. <<t>> \in Seq(Plain) /\ Len(<<t>>) = 1
  BY <1>3
<1> QED
  BY <1>3, <1>6, <1>7, <1>8 DEF Queue, T, c

LEMMA AdapterFits ==
  ASSUME NEW t \in FieldTypes, NEW a \in Adapters(t)
  PROVE  a \in Types(Depth) /\ a \in Type /\ Holes(a) \in Nat /\ Fits(a, Queue(t), Depth + Depth)
<1>1. a \in Types(Depth) /\ Depth \in 0 .. Depth /\ Depth \in 0 .. 2 * Depth
  BY InferAssumption, TypeIs
<1>2. a \in Type
  BY <1>1, TypeIs
<1>3. FitsAll(a, Depth + Depth)
  BY <1>1, InferredFits
<1> QED
  BY <1>1, <1>2, <1>3, HolesSum, QueueType DEF FitsAll

-----------------------------------------------------------------------------
(***************************************************************************)
(* The specification.                                                      *)
(***************************************************************************)
\* Before the adapter is visited it is as it was written, and the queue is what was
\* collected; afterwards the target is what InferGeneric makes of it.
InferInv ==
  /\ ty \in FieldTypes /\ with \in Adapters(ty)
  /\ pc \in {"collect", "infer", "done", "panicked"}
  /\ pc \in {"collect", "infer"} => target = with
  /\ pc = "infer" => generics = Queue(ty)
  /\ LET o == Inferred(with, Queue(ty))
     IN  /\ pc = "done" => o.ok /\ target = o.ty
         /\ pc = "panicked" => ~o.ok

LEMMA Visiting == Spec => []InferInv
<1>1. Init => InferInv
  BY DEF Init, InferInv
<1>2. ASSUME InferInv, [Next]_vars PROVE InferInv'
  <2>1. CASE Collect
    BY <1>2, <2>1 DEF InferInv, Collect, Queue
  <2>2. CASE InferTypes
    <3> DEFINE o == Inferred(target, generics)
    <3>1. /\ pc = "infer" /\ ty' = ty /\ with' = with
          /\ target' = IF o.ok THEN o.ty ELSE target
          /\ pc' = IF o.ok THEN "done" ELSE "panicked"
      BY <2>2 DEF InferTypes
    <3>2. o = Inferred(with, Queue(ty))
      BY <1>2, <3>1 DEF InferInv
    <3> HIDE DEF o
    <3> QED
      BY <1>2, <3>1, <3>2 DEF InferInv
  <2>3. CASE UNCHANGED vars
    BY <1>2, <2>3 DEF InferInv, vars
  <2> QED
    BY <1>2, <2>1, <2>2, <2>3 DEF Next
<1> QED
  BY <1>1, <1>2, PTL DEF Spec

\* The macro panics for want of types exactly when the adapter has more placeholders
\* than the field has types, and leaves no placeholder otherwise (lib.rs:93-117): for
\* fields and adapters of any type and any depth.
THEOREM EveryHoleReplaced == Spec => []AllReplaced
<1>1. InferInv => AllReplaced
  <2> SUFFICES ASSUME InferInv PROVE AllReplaced
    OBVIOUS
  <2> DEFINE n == Len(Collected(ty))
             h == Holes(with)
             l == Len(Queue(ty))
             o == Inferred(with, Queue(ty))
  <2>1. ty \in FieldTypes /\ with \in Adapters(ty)
    BY DEF InferInv
  <2>2. n \in Nat /\ h \in Nat /\ l = IF n = 0 THEN 1 ELSE n
    BY <2>1, AdapterFits, QueueType
  <2>3. (o.ok <=> h <= l) /\ (o.ok => Holes(o.ty) = 0)
    BY <2>1, AdapterFits DEF Fits
  <2>4. (pc = "done" => o.ok /\ target = o.ty) /\ (pc = "panicked" => ~o.ok)
    BY DEF InferInv
  <2> HIDE DEF n, h, l, o
  <2>5. pc = "done" => Holes(target) = 0
    BY <2>3, <2>4
  <2>6. (pc = "panicked" => ~(h <= l)) /\ (pc = "done" => h <= l)
    BY <2>3, <2>4
  <2>7. (~(h <= l) => h > n /\ h > 1) /\ (h <= l => h <= n \/ (n = 0 /\ h = 1))
    BY <2>2
  <2> QED
    BY <2>5, <2>6, <2>7 DEF AllReplaced, n, h
<1> QED
  BY <1>1, Visiting, PTL

-----------------------------------------------------------------------------
(***************************************************************************)
(* RoundTrip.                                                              *)
(***************************************************************************)
\* What was made of some args, and what is left of the queue.
Going(args, rest) == [ok |-> TRUE, args |-> args, rest |-> rest]

Done(t, rest) == [ok |-> TRUE, ty |-> t, rest |-> rest]

Popped(q, x, rest) == q # <<>> /\ Head(q) = x /\ Tail(q) = rest

LEMMA HoleFilled ==
  ASSUME NEW t, NEW i, NEW args, NEW q, NEW x, NEW rest, Hole(t, i), Popped(q, x, rest)
  PROVE  InferArg(t, i, Going(args, q)) = Going(Append(args, x), rest)
<1> DEFINE o == Going(args, q)
<1>1. o.ok = TRUE /\ o.args = args /\ o.rest = q
  BY DEF Going
<1> HIDE DEF o
<1>2. InferArg(t, i, o) = Going(Append(args, Head(q)), Tail(q))
  BY <1>1 DEF InferArg, Going, Popped
<1> QED
  BY <1>2 DEF o, Popped

LEMMA ArgVisited ==
  ASSUME NEW t, NEW i, NEW args, NEW q, NEW x, NEW rest,
         ~Hole(t, i), Inferred(t.args[i], q) = Done(x, rest)
  PROVE  InferArg(t, i, Going(args, q)) = Going(Append(args, x), rest)
<1> DEFINE o == Going(args, q)
           arg == Inferred(t.args[i], q)
<1>1. o.ok = TRUE /\ o.args = args /\ o.rest = q
  BY DEF Going
<1>2. arg.ok = TRUE /\ arg.ty = x /\ arg.rest = rest
  BY DEF Done
<1> HIDE DEF o
<1>3. InferArg(t, i, o) = [ok |-> arg.ok, args |-> Append(args, arg.ty), rest |-> arg.rest]
  BY <1>1 DEF InferArg
<1> HIDE DEF arg
<1>4. InferArg(t, i, o) = Going(Append(args, x), rest)
  BY <1>2, <1>3 DEF Going
<1> QED
  BY <1>4 DEF o

\* InferGeneric takes suf[i - 1] for the queue before the i-th arg of t, makes r[i] of
\* that arg and leaves suf[i].
Leaves(t, suf, r, i) ==
  \A args \in Seq(Tree) :
    InferArg(t, i, Going(args, suf[i - 1])) = Going(Append(args, r[i]), suf[i])

\* What is made of the args one by one is what is made of the type.
LEMMA ArgByArg ==
  ASSUME NEW t \in Type, NEW m \in Nat, m = Len(t.args),
         NEW suf \in [0 .. m -> Seq(Type)],
         NEW r \in Seq(Tree), Len(r) = m, \A i \in 1 .. m : Leaves(t, suf, r, i)
  PROVE  Inferred(t, suf[0]) = Done([t EXCEPT !.args = r], suf[m])
<1>1. suf[0] \in Seq(Type)
  OBVIOUS
<1>2. PICK f : Infers(f, t, suf[0])
  BY <1>1, InferredSteps
<1>3. /\ f[0] = Started(suf[0]) /\ \A i \in 1 .. m : f[i] = InferArg(t, i, f[i - 1])
      /\ Inferred(t, suf[0]) = Finished(t, f[m])
  BY <1>2 DEF Infers
<1> DEFINE at(i) == Going(SubSeq(r, 1, i), suf[i])
           Z == {i \in 0 .. m : f[i] = at(i)}
<1>4. 0 \in Z
  <2>1. SubSeq(r, 1, 0) = <<>>
    <3>1. 1 \in Int /\ 0 \in Int /\ 0 < 1
      OBVIOUS
    <3> QED
      BY <3>1, SubSeqEmpty
  <2>2. f[0] = at(0)
    BY <1>3, <2>1 DEF Started, Going
  <2> QED
    BY <2>2
<1>5. ASSUME NEW i \in 0 .. m - 1, i \in Z PROVE i + 1 \in Z
  <2>1. i + 1 \in 1 .. m /\ i + 1 \in 0 .. m /\ (i + 1) - 1 = i /\ f[i] = at(i)
    BY <1>5
  <2>2. SubSeq(r, 1, i) \in Seq(Tree) /\ SubSeq(r, 1, i + 1) = Append(SubSeq(r, 1, i), r[i + 1])
    OBVIOUS
  <2>3. InferArg(t, i + 1, Going(SubSeq(r, 1, i), suf[(i + 1) - 1]))
          = Going(Append(SubSeq(r, 1, i), r[i + 1]), suf[i + 1])
    BY <2>1, <2>2 DEF Leaves
  <2>4. f[i + 1] = InferArg(t, i + 1, f[(i + 1) - 1])
    BY <1>3, <2>1
  <2> QED
    BY <2>1, <2>2, <2>3, <2>4
<1> HIDE DEF Z
<1>6. 0 .. m \subseteq Z
  BY <1>4, <1>5, UpTo
<1>7. m \in Z
  BY <1>6
<1>8. SubSeq(r, 1, m) = r
  BY SubSeqFull
<1>9. f[m] = Going(r, suf[m])
  BY <1>7, <1>8 DEF Z
<1>10. f[m].ok = TRUE /\ f[m].args = r /\ f[m].rest = suf[m]
  BY <1>9 DEF Going
<1> QED
  BY <1>3, <1>10 DEF Finished, Done

SameJoined(x, y, z) == (x \o y) \o z = x \o (y \o z)

LEMMA Regrouped ==
  ASSUME NEW S, NEW x \in Seq(S), NEW y \in Seq(S), NEW z \in Seq(S)
  PROVE  SameJoined(x, y, z)
BY ConcatAssociative DEF SameJoined

\* What is left of a queue after each of the sequences s that it begins with.
Rests(suf, s, q, S) ==
  /\ suf \in [0 .. Len(s) -> Seq(S)]
  /\ suf[0] = FlattenSeq(s) \o q /\ suf[Len(s)] = q
  /\ \A i \in 1 .. Len(s) : suf[i - 1] = s[i] \o suf[i]

LEMMA RestsExist ==
  ASSUME NEW S, NEW s \in Seq(Seq(S)), NEW q \in Seq(S)
  PROVE  \E suf : Rests(suf, s, q, S)
<1> DEFINE m == Len(s)
           F == [x \in (1 .. m) \X Seq(S) |-> s[m - x[1] + 1] \o x[2]]
<1>1. m \in Nat /\ \A i \in 1 .. m : s[i] \in Seq(S)
  BY ElementOfSeq
<1> HIDE DEF m
<1>2. ASSUME NEW i \in 1 .. m, NEW x \in Seq(S)
      PROVE  m - i + 1 \in 1 .. m /\ s[m - i + 1] \o x \in Seq(S) /\ F[<<i, x>>] = s[m - i + 1] \o x
  <2>1. m - i + 1 \in 1 .. m
    BY <1>1
  <2>2. s[m - i + 1] \in Seq(S)
    BY <1>1, <2>1
  <2>3. s[m - i + 1] \o x \in Seq(S)
    BY <2>2, ConcatProperties
  <2>4. \A y \in (1 .. m) \X Seq(S) : F[y] = s[m - y[1] + 1] \o y[2]
    OBVIOUS
  <2>5. <<i, x>> \in (1 .. m) \X Seq(S) /\ <<i, x>>[1] = i /\ <<i, x>>[2] = x
    OBVIOUS
  <2> HIDE DEF F
  <2>6. F[<<i, x>>] = s[m - <<i, x>>[1] + 1] \o <<i, x>>[2]
    BY <2>4, <2>5
  <2> QED
    BY <2>1, <2>3, <2>5, <2>6
<1>3. F \in [(1 .. m) \X Seq(S) -> Seq(S)]
  BY <1>2
<1>4. PICK g : Computes(g, m, Seq(S), q, F)
  <2> HIDE DEF F
  <2> QED
    BY <1>1, <1>3, RecursionExists
<1> HIDE DEF F
<1>5. g \in [0 .. m -> Seq(S)] /\ \A i \in 0 .. m : g[i] = IF i = 0 THEN q ELSE F[<<i, g[i - 1]>>]
  BY <1>4 DEF Computes
<1>6. ASSUME NEW i \in 1 .. m PROVE g[i] = s[m - i + 1] \o g[i - 1] /\ g[i - 1] \in Seq(S)
  <2>1. i \in 0 .. m /\ i # 0 /\ i - 1 \in 0 .. m
    BY <1>1
  <2>2. g[i - 1] \in Seq(S) /\ g[i] = F[<<i, g[i - 1]>>]
    BY <1>5, <2>1
  <2> QED
    BY <1>2, <2>2
<1> DEFINE suf == [i \in 0 .. m |-> g[m - i]]
           all == FlattenSeq(s) \o q
           Z == {i \in 0 .. m : Joined(s, m - i) \o g[i] = all}
<1>7. suf \in [0 .. m -> Seq(S)] /\ suf[0] = g[m] /\ suf[m] = g[0] /\ g[0] = q
  <2>1. 0 \in 0 .. m /\ m \in 0 .. m /\ m - 0 = m /\ m - m = 0 /\ \A i \in 0 .. m : m - i \in 0 .. m
    BY <1>1
  <2>2. \A i \in 0 .. m : g[i] \in Seq(S)
    BY <1>5
  <2>3. \A i \in 0 .. m : suf[i] = g[m - i] /\ g[m - i] \in Seq(S)
    BY <2>1, <2>2
  <2>4. suf \in [0 .. m -> Seq(S)]
    BY <2>3
  <2> QED
    BY <1>5, <2>1, <2>3, <2>4
<1>8. ASSUME NEW i \in 1 .. m PROVE suf[i - 1] = s[i] \o suf[i]
  <2>1. m - i + 1 \in 1 .. m /\ i \in 0 .. m /\ i - 1 \in 0 .. m
        /\ (m - i + 1) - 1 = m - i /\ m - (i - 1) = m - i + 1 /\ m - (m - i + 1) + 1 = i
    BY <1>1
  <2>2. g[m - i + 1] = s[m - (m - i + 1) + 1] \o g[(m - i + 1) - 1]
    BY <1>6, <2>1
  <2> QED
    BY <2>1, <2>2
<1>9. Joined(s, m) = FlattenSeq(s) /\ FlattenSeq(s) \in Seq(S) /\ Joined(s, 0) \in Seq(S) /\ Len(Joined(s, 0)) = 0
  <2>1. Joined(s, m) = FlattenSeq(s) /\ Offset(s, 0) = 0
    BY FlattenPlaces DEF m
  <2>2. SubSeq(s, 1, 0) = <<>>
    <3>1. 1 \in Int /\ 0 \in Int /\ 0 < 1
      OBVIOUS
    <3> QED
      BY <3>1, SubSeqEmpty
  <2>3. FlattenSeq(<<>>) = <<>>
    BY FlattenType
  <2>4. Joined(s, 0) = <<>>
    BY <2>2, <2>3 DEF Joined
  <2> QED
    BY <2>1, <2>4, FlattenType, EmptySeq
<1>10. 0 \in Z
  <2>1. 0 \in 0 .. m /\ m - 0 = m
    BY <1>1
  <2> HIDE DEF suf
  <2>2. Joined(s, m) \o g[0] = all
    BY <1>7, <1>9
  <2> QED
    BY <2>1, <2>2
<1> HIDE DEF all
<1>11. ASSUME NEW i \in 0 .. m - 1, i \in Z PROVE i + 1 \in Z
  <2> DEFINE n == m - i
  <2>1. n \in 1 .. m /\ i + 1 \in 1 .. m /\ i + 1 \in 0 .. m /\ (i + 1) - 1 = i
        /\ m - (i + 1) + 1 = n /\ m - (i + 1) = n - 1
    BY <1>1
  <2>2. Joined(s, n) \o g[i] = all
    BY <1>11
  <2> HIDE DEF n
  <2>3. /\ Joined(s, n - 1) \in Seq(S) /\ s[n] \in Seq(S)
        /\ Joined(s, n) = Joined(s, n - 1) \o s[n]
    BY <2>1, JoinedStep DEF m
  <2>4. g[i + 1] = s[n] \o g[i] /\ g[i] \in Seq(S)
    <3>1. g[i + 1] = s[m - (i + 1) + 1] \o g[(i + 1) - 1] /\ g[(i + 1) - 1] \in Seq(S)
      BY <1>6, <2>1
    <3> QED
      BY <2>1, <3>1
  <2>5. Joined(s, n - 1) \o g[i + 1] = all
    <3>1. SameJoined(Joined(s, n - 1), s[n], g[i])
      BY <2>3, <2>4, Regrouped
    <3>2. (Joined(s, n - 1) \o s[n]) \o g[i] = all
      BY <2>2, <2>3
    <3> QED
      BY <2>4, <3>1, <3>2, Zenon DEF SameJoined
  <2> QED
    BY <2>1, <2>5
<1> HIDE DEF Z
<1>12. 0 .. m \subseteq Z
  BY <1>1, <1>10, <1>11, UpTo
<1>13. g[m] = all
  <2>1. m \in Z /\ m - m = 0 /\ m \in 0 .. m
    BY <1>1, <1>12
  <2>2. Joined(s, 0) \o g[m] = all /\ g[m] \in Seq(S)
    BY <1>5, <2>1 DEF Z
  <2>3. Joined(s, 0) = <<>>
    BY <1>9, EmptySeq
  <2>4. <<>> \o g[m] = g[m]
    BY <2>2
  <2> QED
    BY <2>2, <2>3, <2>4
<1> HIDE DEF suf
<1>14. Rests(suf, s, q, S)
  BY <1>7, <1>8, <1>13 DEF Rests, m, all
<1> QED
  BY <1>14

\* Nothing is done with a type that has no placeholder: what was put in place of one
\* may be visited again (lib.rs:93-117).
LEMMA Unchanged ==
  ASSUME NEW t \in Type, \A s \in Subtypes(t) : s.k # "Infer", NEW q \in Seq(Type)
  PROVE  Inferred(t, q) = Done(t, q)
<1> DEFINE P == {u \in Type : (\A s \in Subtypes(u) : s.k # "Infer")
                                => \A r \in Seq(Type) : Inferred(u, r) = Done(u, r)}
<1>1. ASSUME NEW u \in Type, \A i \in 1 .. Len(u.args) : u.args[i] \in P PROVE u \in P
  <2> SUFFICES ASSUME \A s \in Subtypes(u) : s.k # "Infer", NEW r \in Seq(Type)
               PROVE  Inferred(u, r) = Done(u, r)
    OBVIOUS
  <2> DEFINE m == Len(u.args)
             suf == [i \in 0 .. m |-> r]
  <2>1. m \in Nat /\ u.args \in Seq(Type) /\ u = [k |-> u.k, name |-> u.name, args |-> u.args]
    BY TypeIs, NodeFields
  <2>2. u.args \in Seq(Tree)
    BY <2>1, TypeIsTree
  <2>3. ASSUME NEW i \in 1 .. m PROVE Leaves(u, suf, u.args, i)
    <3>1. ~Hole(u, i) /\ \A s \in Subtypes(u.args[i]) : s.k # "Infer"
      BY SubtypesOf DEF Hole
    <3>2. Inferred(u.args[i], r) = Done(u.args[i], r)
      BY <1>1, <3>1
    <3>3. suf[i - 1] = r /\ suf[i] = r
      BY <2>1
    <3> HIDE DEF suf
    <3> QED
      BY <3>1, <3>2, <3>3, ArgVisited DEF Leaves
  <2>4. suf \in [0 .. m -> Seq(Type)] /\ suf[0] = r /\ suf[m] = r
    BY <2>1
  <2> HIDE DEF suf
  <2>5. Inferred(u, suf[0]) = Done([u EXCEPT !.args = u.args], suf[m])
    BY <2>1, <2>2, <2>3, <2>4, ArgByArg
  <2> QED
    BY <2>1, <2>4, <2>5
<1> HIDE DEF P
<1>2. Type \subseteq P
  BY <1>1, TypeInduction
<1> QED
  BY <1>2 DEF P

\* Outlines.
Hows == {"Infer", "Pod<Infer>", "Pod"}

LEMMA UnderscoreTree == Underscore \in Tree /\ Underscore.k = "Infer"
<1>1. "Infer" \in Names
  BY InferAssumption
<1>2. "Infer" \in Kinds
  BY DEF Kinds
<1>3. Underscore \in Nodes({<<>>})
  BY <1>1, <1>2 DEF Nodes, Underscore
<1>4. 0 \in Nat /\ Underscore \in Types(0)
  BY <1>3, TypesStep
<1> QED
  BY <1>4 DEF Tree, Underscore

LEMMA PodTree ==
  ASSUME NEW x \in Tree
  PROVE  Pod(x) \in Tree /\ Pod(x).k = "Path" /\ Pod(x).args = <<x>>
<1>1. PICK n \in Nat : x \in Types(n)
  BY DEF Tree
<1>2. <<x>> \in Seq(Types(n)) /\ n + 1 \in Nat
  BY <1>1
<1>3. "Pod" \in Names
  BY InferAssumption
<1>4. "Path" \in Kinds
  BY DEF Kinds
<1>5. Pod(x) \in Types(n + 1)
  BY <1>2, <1>3, <1>4, Node DEF Pod
<1> QED
  BY <1>2, <1>5 DEF Tree, Pod

LEMMA InsteadTree ==
  ASSUME NEW x \in Tree, NEW how \in Hows
  PROVE  Instead(x, how) \in Tree /\ Instead(x, how).k = IF how = "Infer" THEN "Infer" ELSE "Path"
<1>1. Instead(x, "Infer") = Underscore
  BY DEF Instead
<1>2. Instead(x, "Pod<Infer>") = Pod(Underscore)
  BY DEF Instead
<1>3. Instead(x, "Pod") = Pod(x)
  BY DEF Instead
<1>4. how = "Infer" \/ how = "Pod<Infer>" \/ how = "Pod"
  BY DEF Hows
<1>5. "Pod<Infer>" # "Infer" /\ "Pod" # "Infer"
  OBVIOUS
<1> QED
  BY <1>1, <1>2, <1>3, <1>4, <1>5, UnderscoreTree, PodTree

\* The outline of an array or slice that is an argument.
Elements(a, how) == [a EXCEPT !.args = [j \in 1 .. Len(a.args) |-> Instead(a.args[j], how)]]

\* The i-th arg of t's outline, when o is the outline of that arg.
Outlined(t, a, o, how) ==
  IF t.k # "Path" THEN o
  ELSE IF a.k \in {"Slice", "Array"}
  THEN Elements(a, how)
  ELSE IF Entered(a) THEN o
  ELSE Instead(a, how)

OutlinedArgs(t, v, how) == [i \in 1 .. Len(t.args) |-> Outlined(t, t.args[i], v[i], how)]

OutlineArgs(t, how) == [i \in 1 .. Len(t.args) |-> Outlined(t, t.args[i], Outline(t.args[i], how), how)]

LEMMA OutlinedTree ==
  ASSUME NEW t \in Type, NEW a \in Type, NEW o \in Tree, NEW how \in Hows
  PROVE  Outlined(t, a, o, how) \in Tree
<1>1. Instead(a, how) \in Tree
  BY InsteadTree, TypeIsTree
<1>2. Len(a.args) \in Nat /\ \A j \in 1 .. Len(a.args) : a.args[j] \in Type
  BY TypeIs, NodeFields
<1>3. \A j \in 1 .. Len(a.args) : Instead(a.args[j], how) \in Tree
  BY <1>2, InsteadTree, TypeIsTree
<1> DEFINE args == [j \in 1 .. Len(a.args) |-> Instead(a.args[j], how)]
<1>4. args \in Seq(Tree)
  BY <1>2, <1>3
<1> HIDE DEF args
<1>5. [a EXCEPT !.args = args] \in Tree
  BY <1>4, TreeNode
<1> QED
  BY <1>1, <1>5 DEF Outlined, Elements, args

LEMMA OutlineOfIs ==
  ASSUME NEW t \in Type, NEW v \in Seq(Tree), Len(v) = Len(t.args), NEW how \in Hows
  PROVE  /\ OutlinedArgs(t, v, how) \in Seq(Tree)
         /\ OutlineOf(t, v, how) = [t EXCEPT !.args = OutlinedArgs(t, v, how)]
         /\ OutlineOf(t, v, how) \in Tree
<1> DEFINE m == Len(t.args)
           one(i) == Outlined(t, t.args[i], v[i], how)
           args == [i \in 1 .. m |-> one(i)]
<1>1. m \in Nat /\ DOMAIN t.args = 1 .. m /\ \A i \in 1 .. m : t.args[i] \in Type /\ v[i] \in Tree
  BY TypeIs, NodeFields, ElementOfSeq
<1>2. ASSUME NEW i \in 1 .. m PROVE one(i) \in Tree
  <2>1. t.args[i] \in Type /\ v[i] \in Tree
    BY <1>1
  <2> QED
    BY <2>1, OutlinedTree
<1>3. args \in Seq(Tree)
  <2> HIDE DEF one
  <2> QED
    BY <1>1, <1>2
<1> DEFINE written(i) ==
             IF t.k = "Path"
             THEN CASE t.args[i].k \in {"Slice", "Array"} ->
                         [t.args[i] EXCEPT !.args = [j \in DOMAIN t.args[i].args |->
                                                       Instead(t.args[i].args[j], how)]]
                    [] Entered(t.args[i]) -> v[i]
                    [] OTHER              -> Instead(t.args[i], how)
             ELSE v[i]
<1>4. OutlineOf(t, v, how) = [t EXCEPT !.args = [i \in DOMAIN t.args |-> written(i)]]
  <2>1. t = [k |-> t.k, name |-> t.name, args |-> t.args]
    BY TypeIs, NodeFields
  <2>2. ASSUME NEW i \in 1 .. m
        PROVE  [t.args[i] EXCEPT !.args = [j \in DOMAIN @ |-> Instead(@[j], how)]]
                 = [t.args[i] EXCEPT !.args = [j \in DOMAIN t.args[i].args |-> Instead(t.args[i].args[j], how)]]
    <3>1. t.args[i] \in Type
      BY <1>1
    <3>2. t.args[i] = [k |-> t.args[i].k, name |-> t.args[i].name, args |-> t.args[i].args]
      BY <3>1, TypeIs, NodeFields
    <3> DEFINE a == t.args[i]
    <3> HIDE DEF a
    <3> QED
      BY <3>2
  <2> QED
    BY <1>1, <2>1, <2>2 DEF OutlineOf
<1>5. ASSUME NEW i \in 1 .. m PROVE written(i) = one(i)
  <2>1. t.args[i] \in Type
    BY <1>1
  <2>2. DOMAIN t.args[i].args = 1 .. Len(t.args[i].args)
    BY <2>1, TypeIs, NodeFields
  <2>3. CASE t.args[i].k \in {"Slice", "Array"}
    BY <2>2, <2>3 DEF Outlined, Elements, Entered
  <2>4. CASE Entered(t.args[i])
    BY <2>4 DEF Outlined, Entered
  <2>5. CASE ~(t.args[i].k \in {"Slice", "Array"}) /\ ~Entered(t.args[i])
    BY <2>5 DEF Outlined
  <2> QED
    BY <2>3, <2>4, <2>5
<1> HIDE DEF written, one
<1>6. [i \in DOMAIN t.args |-> written(i)] = args
  BY <1>1, <1>5
<1> HIDE DEF args
<1>7. OutlineOf(t, v, how) = [t EXCEPT !.args = args]
  BY <1>4, <1>6
<1>8. OutlineOf(t, v, how) \in Tree
  BY <1>3, <1>7, TreeNode
<1> QED
  BY <1>3, <1>7, <1>8 DEF args, one, OutlinedArgs

LEMMA OutlineStep ==
  ASSUME NEW t \in Type, NEW how \in Hows
  PROVE  /\ Outline(t, how) \in Tree /\ OutlineArgs(t, how) \in Seq(Tree)
         /\ Outline(t, how) = [t EXCEPT !.args = OutlineArgs(t, how)]
<1> DEFINE F == [x \in Type \X Seq(Tree) |-> OutlineOf(x[1], x[2], how)]
           c == CHOOSE f : f = [u \in Type |-> OutlineOf(u, [i \in DOMAIN u.args |-> f[u.args[i]]], how)]
<1>1. \A u : Outline(u, how) = c[u]
  BY DEF Outline, Traversed
<1>2. \A u \in Type : \A v \in Seq(Tree) : Len(v) = Len(u.args) => OutlineOf(u, v, how) \in Tree
  BY OutlineOfIs
<1>3. \A u \in Type : \A v \in Seq(Tree) : F[<<u, v>>] = OutlineOf(u, v, how)
  OBVIOUS
<1>4. PICK g \in [Type -> Tree] : \A u \in Type : g[u] = F[<<u, Inside(u, g)>>]
  <2> HIDE DEF F
  <2>1. t \in Tree
    BY TypeIsTree
  <2>2. Visitor(F, Tree)
    BY <1>2, <1>3 DEF Visitor
  <2>3. \E g \in [Type -> Tree] : Follows(g, F)
    BY <2>1, <2>2, TraversalExists
  <2> QED
    BY <2>3 DEF Follows
<1>5. ASSUME NEW u \in Type PROVE \A i \in 1 .. Len(u.args) : u.args[i] \in Type
  BY TypeIs, NodeFields
<1> HIDE DEF F
<1>6. \A u \in Type : g[u] = OutlineOf(u, Inside(u, g), how)
  BY <1>3, <1>4, <1>5, InsideType DEF Valued
<1>7. g = [u \in Type |-> OutlineOf(u, [i \in DOMAIN u.args |-> g[u.args[i]]], how)]
  BY <1>6 DEF Inside
<1>8. c = [u \in Type |-> OutlineOf(u, [i \in DOMAIN u.args |-> c[u.args[i]]], how)]
  BY <1>7
<1> HIDE DEF c
<1>9. \A u \in Type : c[u] = OutlineOf(u, Inside(u, c), how)
  BY <1>8 DEF Inside
<1> DEFINE P == {u \in Type : c[u] \in Tree}
<1>10. ASSUME NEW u \in Type, \A i \in 1 .. Len(u.args) : u.args[i] \in P PROVE u \in P
  <2>1. Valued(u, c, Tree)
    BY <1>10 DEF Valued
  <2>2. Inside(u, c) \in Seq(Tree) /\ Len(Inside(u, c)) = Len(u.args)
    BY <2>1, InsideType
  <2> QED
    BY <1>2, <1>9, <2>2
<1> HIDE DEF P
<1>11. Type \subseteq P
  BY <1>10, TypeInduction
<1>12. \A u \in Type : c[u] \in Tree
  BY <1>11 DEF P
<1> DEFINE v == Inside(t, c)
<1>13. v \in Seq(Tree) /\ Len(v) = Len(t.args) /\ \A i \in 1 .. Len(t.args) : v[i] = Outline(t.args[i], how)
  <2>1. Valued(t, c, Tree)
    BY <1>5, <1>12 DEF Valued
  <2>2. /\ v \in Seq(Tree) /\ Len(v) = Len(t.args)
        /\ \A i \in 1 .. Len(t.args) : v[i] = c[t.args[i]]
    BY <2>1, InsideType
  <2> QED
    BY <1>1, <2>2
<1> HIDE DEF v
<1>14. OutlinedArgs(t, v, how) = OutlineArgs(t, how)
  BY <1>13 DEF OutlineArgs, OutlinedArgs
<1>15. OutlineArgs(t, how) \in Seq(Tree) /\ OutlineOf(t, v, how) = [t EXCEPT !.args = OutlineArgs(t, how)]
  BY <1>13, <1>14, OutlineOfIs
<1> QED
  BY <1>1, <1>9, <1>12, <1>15 DEF v

-----------------------------------------------------------------------------
(***************************************************************************)
(* Outlines with their placeholders replaced.                              *)
(***************************************************************************)
\* What becomes of Instead(x, how) when x is next in the queue.
Filling(x, how) == IF how = "Infer" THEN x ELSE Pod(x)

\* The one type Pod leaves out is the next one.
LEMMA PodFilled ==
  ASSUME Pod(Underscore) \in Type, NEW x \in Type, NEW q \in Seq(Type)
  PROVE  Inferred(Pod(Underscore), <<x>> \o q) = Done(Pod(x), q)
<1> DEFINE t == Pod(Underscore)
           next == <<x>> \o q
           suf == [i \in 0 .. 1 |-> IF i = 0 THEN next ELSE q]
           r == <<x>>
<1>1. t.k = "Path" /\ t.args = <<Underscore>> /\ t = [k |-> t.k, name |-> t.name, args |-> t.args]
      /\ Pod(x) = [k |-> t.k, name |-> t.name, args |-> r]
  BY DEF Pod
<1>2. Len(t.args) = 1 /\ t.args[1].k = "Infer"
  BY <1>1, UnderscoreTree
<1>3. next \in Seq(Type) /\ Popped(next, x, q)
  BY DEF Popped
<1>4. r \in Seq(Tree) /\ Len(r) = 1 /\ r[1] = x
  BY TypeIsTree
<1> HIDE DEF t, next, r
<1>5. suf \in [0 .. 1 -> Seq(Type)] /\ suf[0] = next /\ suf[1] = q
  BY <1>3
<1> HIDE DEF suf
<1>6. Hole(t, 1)
  BY <1>1, <1>2 DEF Hole
<1>7. \A args : InferArg(t, 1, Going(args, next)) = Going(Append(args, x), q)
  BY <1>3, <1>6, HoleFilled
<1>8. \A i \in 1 .. 1 : i = 1 /\ i - 1 = 0
  OBVIOUS
<1>9. \A i \in 1 .. 1 : Leaves(t, suf, r, i)
  BY <1>4, <1>5, <1>7, <1>8 DEF Leaves
<1>10. t \in Type /\ 1 \in Nat
  BY DEF t
<1>11. Inferred(t, suf[0]) = Done([t EXCEPT !.args = r], suf[1])
  BY <1>2, <1>4, <1>5, <1>9, <1>10, ArgByArg
<1>12. [t EXCEPT !.args = r] = Pod(x)
  BY <1>1
<1> QED
  BY <1>5, <1>11, <1>12 DEF t, next

\* An arg that was left out, or left to Pod, where placeholders are replaced.
LeftOut(t, i, x, how) ==
  /\ t.args[i] = Instead(x, how) /\ how \in {"Infer", "Pod<Infer>"}
  /\ how = "Infer" => t.k \in {"Path", "Array"}

Begins(queue, x, q) == queue = <<x>> \o q

LEMMA InsteadFilled ==
  ASSUME NEW t \in Type, NEW i \in 1 .. Len(t.args), NEW x \in Type, NEW how,
         LeftOut(t, i, x, how), NEW args, NEW q \in Seq(Type), NEW queue, Begins(queue, x, q)
  PROVE  InferArg(t, i, Going(args, queue)) = Going(Append(args, Filling(x, how)), q)
<1> DEFINE next == <<x>> \o q
<1>0. t.args[i] = Instead(x, how) /\ how \in {"Infer", "Pod<Infer>"}
      /\ (how = "Infer" => t.k \in {"Path", "Array"})
  BY DEF LeftOut
<1>1. Popped(next, x, q)
  BY DEF Popped
<1> HIDE DEF next
<1>2. ASSUME how = "Infer" PROVE InferArg(t, i, Going(args, next)) = Going(Append(args, Filling(x, how)), q)
  <2>1. t.args[i] = Underscore
    BY <1>0, <1>2 DEF Instead
  <2>2. Hole(t, i)
    BY <1>0, <1>2, <2>1, UnderscoreTree DEF Hole
  <2>3. Filling(x, how) = x
    BY <1>2 DEF Filling
  <2> QED
    BY <1>1, <2>2, <2>3, HoleFilled
<1>3. ASSUME how = "Pod<Infer>" PROVE InferArg(t, i, Going(args, next)) = Going(Append(args, Filling(x, how)), q)
  <2>1. t.args[i] = Pod(Underscore) /\ t.args[i] \in Type
    BY <1>0, <1>3, TypeIs, NodeFields DEF Instead
  <2>2. ~Hole(t, i)
    BY <2>1, PodTree, UnderscoreTree DEF Hole
  <2>3. Inferred(t.args[i], next) = Done(Pod(x), q)
    BY <2>1, PodFilled DEF next
  <2>4. InferArg(t, i, Going(args, next)) = Going(Append(args, Pod(x)), q)
    BY <2>2, <2>3, ArgVisited
  <2>5. Filling(x, how) = Pod(x)
    BY <1>3 DEF Filling
  <2> QED
    BY <2>4, <2>5
<1> QED
  BY <1>0, <1>2, <1>3 DEF next, Begins

LEMMA InsteadLeaves ==
  ASSUME NEW t \in Type, NEW i \in 1 .. Len(t.args), NEW x \in Type, NEW how,
         LeftOut(t, i, x, how), NEW suf, suf[i] \in Seq(Type), Begins(suf[i - 1], x, suf[i]),
         NEW r, r[i] = Filling(x, how)
  PROVE  Leaves(t, suf, r, i)
<1>1. ASSUME NEW args \in Seq(Tree), NEW q, NEW queue, q = suf[i], queue = suf[i - 1]
      PROVE  InferArg(t, i, Going(args, queue)) = Going(Append(args, Filling(x, how)), q)
  <2>1. q \in Seq(Type) /\ Begins(queue, x, q)
    BY <1>1
  <2> QED
    BY <2>1, InsteadFilled
<1> QED
  BY <1>1 DEF Leaves

LEMMA Singles ==
  ASSUME NEW S, NEW s \in Seq(S)
  PROVE  LET ones == [i \in 1 .. Len(s) |-> <<s[i]>>]
         IN  ones \in Seq(Seq(S)) /\ FlattenSeq(ones) = s
<1> DEFINE m == Len(s)
           ones == [i \in 1 .. m |-> <<s[i]>>]
           flat == FlattenSeq(ones)
<1>1. m \in Nat /\ \A i \in 1 .. m : s[i] \in S
  BY ElementOfSeq
<1>2. ones \in Seq(Seq(S)) /\ Len(ones) = m /\ \A i \in 1 .. m : ones[i] = <<s[i]>>
  <2> HIDE DEF m
  <2>1. \A i \in 1 .. m : <<s[i]>> \in Seq(S)
    BY <1>1
  <2> QED
    BY <1>1, <2>1
<1> HIDE DEF ones
<1>3. flat \in Seq(S)
  BY <1>2, FlattenType
<1>4. /\ Offset(ones, 0) = 0 /\ Offset(ones, m) = Len(flat)
      /\ \A n \in 0 .. m : Offset(ones, n) \in 0 .. Len(flat)
      /\ \A n \in 1 .. m : /\ Offset(ones, n) = Offset(ones, n - 1) + Len(ones[n])
                           /\ \A k \in 1 .. Len(ones[n]) : flat[Offset(ones, n - 1) + k] = ones[n][k]
  BY <1>2, FlattenPlaces
<1> HIDE DEF flat, m
<1>5. ASSUME NEW n \in 1 .. m PROVE Len(ones[n]) = 1 /\ ones[n][1] = s[n]
  <2>1. Len(<<s[n]>>) = 1 /\ <<s[n]>>[1] = s[n]
    OBVIOUS
  <2>2. ones[n] = <<s[n]>>
    BY <1>2
  <2> QED
    BY <2>1, <2>2, Zenon
<1> DEFINE Z == {i \in 0 .. m : Offset(ones, i) = i}
<1>6. 0 \in Z
  BY <1>1, <1>4
<1>7. ASSUME NEW i \in 0 .. m - 1, i \in Z PROVE i + 1 \in Z
  <2>1. i + 1 \in 1 .. m /\ i + 1 \in 0 .. m /\ (i + 1) - 1 = i /\ Offset(ones, i) = i
    BY <1>1, <1>7
  <2>2. Offset(ones, i + 1) = Offset(ones, (i + 1) - 1) + Len(ones[i + 1])
    BY <1>4, <2>1
  <2> QED
    BY <1>5, <2>1, <2>2
<1> HIDE DEF Z
<1>8. 0 .. m \subseteq Z
  BY <1>1, <1>6, <1>7, UpTo
<1>9. Len(flat) = m
  <2>1. m \in Z
    BY <1>1, <1>8
  <2> QED
    BY <1>4, <2>1 DEF Z
<1>10. ASSUME NEW i \in 1 .. m PROVE flat[i] = s[i]
  <2>1. i - 1 \in 0 .. m /\ (i - 1) + 1 = i /\ 1 \in 1 .. 1
    BY <1>1
  <2>2. Offset(ones, i - 1) = i - 1
    BY <1>8, <2>1 DEF Z
  <2>3. flat[Offset(ones, i - 1) + 1] = ones[i][1]
    BY <1>4, <1>5, <2>1
  <2> QED
    BY <1>5, <2>1, <2>2, <2>3
<1>11. Len(s) = m
  BY DEF m
<1>12. flat = s
  BY <1>3, <1>9, <1>10, <1>11, SeqEqual
<1> QED
  BY <1>2, <1>12 DEF ones, flat, m

\* What the elements of an array or slice that is an argument become.
FullElements(a, how) == [a EXCEPT !.args = [j \in 1 .. Len(a.args) |-> Filling(a.args[j], how)]]

FillsElements(a, how, queue, q) == queue = a.args \o q /\ (how = "Infer" => a.k = "Array")

LEMMA ElementsFilled ==
  ASSUME NEW a \in Type, NEW how \in {"Infer", "Pod<Infer>"}, NEW q \in Seq(Type), NEW queue,
         Elements(a, how) \in Type, FillsElements(a, how, queue, q)
  PROVE  Inferred(Elements(a, how), queue) = Done(FullElements(a, how), q)
<1> DEFINE w == Elements(a, how)
<1>0. queue = a.args \o q /\ (how = "Infer" => a.k = "Array")
  BY DEF FillsElements
<1> DEFINE m == Len(a.args)
           ones == [i \in 1 .. m |-> <<a.args[i]>>]
           outlines == [j \in 1 .. m |-> Instead(a.args[j], how)]
           r == [j \in 1 .. m |-> Filling(a.args[j], how)]
<1>1. /\ m \in Nat /\ a.args \in Seq(Type) /\ \A i \in 1 .. m : a.args[i] \in Type
      /\ a = [k |-> a.k, name |-> a.name, args |-> a.args]
  BY TypeIs, NodeFields
<1>2. ones \in Seq(Seq(Type)) /\ FlattenSeq(ones) = a.args /\ Len(ones) = m
      /\ \A i \in 1 .. m : ones[i] = <<a.args[i]>>
  <2>1. ones \in Seq(Seq(Type)) /\ FlattenSeq(ones) = a.args
    BY <1>1, Singles
  <2> QED
    BY <1>1, <2>1
<1> HIDE DEF ones
<1>3. PICK suf : Rests(suf, ones, q, Type)
  BY <1>2, RestsExist
<1>4. /\ suf \in [0 .. m -> Seq(Type)] /\ suf[0] = a.args \o q /\ suf[m] = q
      /\ \A i \in 1 .. m : suf[i - 1] = <<a.args[i]>> \o suf[i]
  BY <1>2, <1>3 DEF Rests
<1>5. /\ w.k = a.k /\ w.args = outlines
      /\ [w EXCEPT !.args = r] = [a EXCEPT !.args = r]
  BY <1>1 DEF Elements
<1>6. Len(w.args) = m /\ \A i \in 1 .. m : w.args[i] = Instead(a.args[i], how)
  BY <1>1, <1>5
<1>7. \A i \in 1 .. m : Filling(a.args[i], how) \in Tree
  BY <1>1, PodTree, TypeIsTree DEF Filling
<1>8. r \in Seq(Tree) /\ Len(r) = m /\ \A i \in 1 .. m : r[i] = Filling(a.args[i], how)
  BY <1>1, <1>7
<1>11. w \in Type
  BY DEF w
<1> HIDE DEF m, outlines, r, w
<1>9. ASSUME NEW i \in 1 .. m PROVE Leaves(w, suf, r, i)
  <2>1. /\ i \in 1 .. Len(w.args) /\ a.args[i] \in Type /\ i \in 0 .. m /\ suf[i] \in Seq(Type)
        /\ w.args[i] = Instead(a.args[i], how) /\ suf[i - 1] = <<a.args[i]>> \o suf[i]
    BY <1>1, <1>4, <1>6
  <2>2. LeftOut(w, i, a.args[i], how)
    BY <1>0, <1>5, <2>1 DEF LeftOut
  <2>3. Begins(suf[i - 1], a.args[i], suf[i])
    BY <2>1 DEF Begins
  <2>4. r[i] = Filling(a.args[i], how)
    BY <1>8
  <2> QED
    BY <1>11, <2>1, <2>2, <2>3, <2>4, InsteadLeaves
<1>10. Inferred(w, suf[0]) = Done([w EXCEPT !.args = r], suf[m])
  BY <1>1, <1>4, <1>6, <1>8, <1>9, <1>11, ArgByArg
<1> QED
  BY <1>0, <1>4, <1>5, <1>10 DEF m, r, w, FullElements

\* A type that an author may leave out the arguments of.
Fillable(t, how) ==
  /\ \A s \in Subtypes(t) : s.k # "Infer" /\ (how = "Infer" => s.k # "Slice")
  /\ Regular(t) /\ Outline(t, how) \in Type

\* What t's outline becomes, and t's arg in it.
Full(t, how) == IF how = "Infer" THEN t ELSE Outline(t, "Pod")

FullArgs(t, how) == IF how = "Infer" THEN t.args ELSE OutlineArgs(t, "Pod")

\* The outline takes exactly the types that are collected from t.
Fills(t, how) ==
  \A q \in Seq(Type) : Inferred(Outline(t, how), Collected(t) \o q) = Done(Full(t, how), q)

LEMMA RegularArg ==
  ASSUME NEW t \in Type, Regular(t), NEW i \in 1 .. Len(t.args)
  PROVE  /\ Regular(t.args[i])
         /\ t.k = "Path" /\ t.args[i].k = "Tuple" => Collected(t.args[i]) = <<>>
<1>1. t \in Subtypes(t) /\ Subtypes(t.args[i]) \subseteq Subtypes(t)
  BY SubtypesOf
<1>2. t.args[i] \in ToSet(t.args)
  <2>1. DOMAIN t.args = 1 .. Len(t.args)
    BY TypeIs, NodeFields
  <2> QED
    BY <2>1 DEF ToSet
<1>3. t.k = "Path" /\ t.args[i].k = "Tuple" => Collected(t.args[i]) = <<>>
  BY <1>1, <1>2 DEF Regular
<1>4. Regular(t.args[i])
  BY <1>1 DEF Regular
<1> QED
  BY <1>3, <1>4

LEMMA CollectedNone ==
  ASSUME NEW t \in Type, t.args = <<>>
  PROVE  Collected(t) = <<>>
<1>1. Len(t.args) = 0
  BY EmptySeq
<1>2. AllTaken(t) \in Seq(Seq(Type)) /\ Len(AllTaken(t)) = 0
  BY <1>1, CollectedStep DEF AllTaken
<1>3. AllTaken(t) = <<>>
  BY <1>2, EmptySeq
<1> QED
  BY <1>3, CollectedStep, FlattenType

LEMMA VisitedLeaves ==
  ASSUME NEW t, NEW i, NEW suf, NEW r, ~Hole(t, i), Inferred(t.args[i], suf[i - 1]) = Done(r[i], suf[i])
  PROVE  Leaves(t, suf, r, i)
BY ArgVisited DEF Leaves

\* An arg and its outline: the args of t's outline are those of the args, except where t
\* is a path and the arg is collected, or its elements.
LEMMA OutlineArg ==
  ASSUME NEW t \in Type, NEW how \in Hows, NEW i \in 1 .. Len(t.args)
  PROVE  /\ Outline(t, how).k = t.k /\ Outline(t, how).args = OutlineArgs(t, how)
         /\ Len(OutlineArgs(t, how)) = Len(t.args)
         /\ OutlineArgs(t, how)[i] = Outlined(t, t.args[i], Outline(t.args[i], how), how)
<1>1. t = [k |-> t.k, name |-> t.name, args |-> t.args] /\ Len(t.args) \in Nat
  BY TypeIs, NodeFields
<1>2. Outline(t, how) = [t EXCEPT !.args = OutlineArgs(t, how)]
  BY OutlineStep
<1>3. Outline(t, how).k = t.k /\ Outline(t, how).args = OutlineArgs(t, how)
  <2> DEFINE args == OutlineArgs(t, how)
  <2> HIDE DEF args
  <2>1. [t EXCEPT !.args = args].k = t.k /\ [t EXCEPT !.args = args].args = args
    BY <1>1
  <2> QED
    BY <1>2, <2>1 DEF args
<1>4. Len(OutlineArgs(t, how)) = Len(t.args)
  BY <1>1 DEF OutlineArgs
<1>5. OutlineArgs(t, how)[i] = Outlined(t, t.args[i], Outline(t.args[i], how), how)
  BY DEF OutlineArgs
<1> QED
  BY <1>3, <1>4, <1>5

\* The i-th arg of t's outline is visited.
Visited(t, how, i, suf) ==
  /\ suf[i] \in Seq(Type) /\ suf[i - 1] = Taken(t, i) \o suf[i]
  /\ Fillable(t, how)
  /\ Fillable(t.args[i], how) => Fills(t.args[i], how)

LEMMA FillableArg ==
  ASSUME NEW t \in Type, NEW how \in {"Infer", "Pod<Infer>"}, Fillable(t, how), NEW i \in 1 .. Len(t.args),
         Outline(t.args[i], how) \in Type
  PROVE  Fillable(t.args[i], how)
<1>1. Subtypes(t.args[i]) \subseteq Subtypes(t)
  BY SubtypesOf
<1>2. Regular(t.args[i])
  BY RegularArg DEF Fillable
<1> QED
  BY <1>1, <1>2 DEF Fillable

LEMMA InnerFilled ==
  ASSUME NEW t \in Type, NEW how \in {"Infer", "Pod<Infer>"}, NEW i \in 1 .. Len(t.args),
         NEW suf, Visited(t, how, i, suf),
         t.k # "Path" \/ Entered(t.args[i])
  PROVE  Leaves(Outline(t, how), suf, FullArgs(t, how), i)
<1> DEFINE a == t.args[i]
           w == Outline(t, how)
<1>1. how \in Hows /\ "Pod" \in Hows
  BY DEF Hows
<1>2. a \in Type /\ a \in Subtypes(t) /\ w \in Type /\ a.k # "Infer"
  <2>1. a \in Type /\ a \in Subtypes(t)
    BY SubtypesOf, TypeIs, NodeFields
  <2> QED
    BY <2>1 DEF Visited, Fillable
<1>3. /\ w.k = t.k /\ w.args[i] = Outlined(t, a, Outline(a, how), how) /\ i \in 1 .. Len(w.args)
      /\ OutlineArgs(t, "Pod")[i] = Outlined(t, a, Outline(a, "Pod"), "Pod")
  BY <1>1, OutlineArg
<1>4. \A o, h : Outlined(t, a, o, h) = o
  BY DEF Outlined, Entered
<1>5. w.args[i] = Outline(a, how) /\ OutlineArgs(t, "Pod")[i] = Outline(a, "Pod") /\ w.args[i] \in Type
  BY <1>2, <1>3, <1>4, TypeIs, NodeFields
<1>6. ~Hole(w, i)
  <2>1. Outline(a, how).k = a.k
    <3>1. /\ OutlineArgs(a, how) \in Seq(Tree) /\ Outline(a, how) = [a EXCEPT !.args = OutlineArgs(a, how)]
          /\ a = [k |-> a.k, name |-> a.name, args |-> a.args]
      BY <1>1, <1>2, OutlineStep, TypeIs, NodeFields
    <3> HIDE DEF a
    <3> QED
      BY <3>1
  <2> QED
    BY <1>2, <1>5, <2>1 DEF Hole
<1>7. FullArgs(t, how)[i] = Full(a, how)
  BY <1>5 DEF FullArgs, Full
<1>8. Fillable(a, how)
  <2>1. Fillable(t, how) /\ Outline(t.args[i], how) \in Type
    BY <1>5 DEF Visited
  <2>2. Fillable(t.args[i], how)
    BY <2>1, FillableArg
  <2> QED
    BY <2>2
<1>9. suf[i - 1] = Collected(a) \o suf[i] /\ suf[i] \in Seq(Type)
  BY DEF Visited, Taken, TakenFrom, Entered
<1>10. Fills(a, how)
  BY <1>8 DEF Visited
<1> HIDE DEF a, w
<1>11. Inferred(Outline(a, how), suf[i - 1]) = Done(Full(a, how), suf[i])
  BY <1>9, <1>10 DEF Fills
<1>12. Inferred(w.args[i], suf[i - 1]) = Done(FullArgs(t, how)[i], suf[i])
  BY <1>5, <1>7, <1>11
<1>13. Leaves(w, suf, FullArgs(t, how), i)
  BY <1>6, <1>12, VisitedLeaves
<1> QED
  BY <1>13 DEF w

LEMMA SliceFilled ==
  ASSUME NEW t \in Type, NEW how \in {"Infer", "Pod<Infer>"}, NEW i \in 1 .. Len(t.args),
         NEW suf, Visited(t, how, i, suf), t.k = "Path", t.args[i].k \in {"Slice", "Array"}
  PROVE  Leaves(Outline(t, how), suf, FullArgs(t, how), i)
<1> DEFINE a == t.args[i]
           w == Outline(t, how)
<1>1. how \in Hows /\ "Pod" \in Hows
  BY DEF Hows
<1>2. /\ a \in Type /\ a \in Subtypes(t) /\ w \in Type /\ (how = "Infer" => a.k = "Array")
      /\ a = [k |-> a.k, name |-> a.name, args |-> a.args]
      /\ a.args \in Seq(Type) /\ a.args = [j \in 1 .. Len(a.args) |-> a.args[j]]
  <2>1. a \in Type /\ a \in Subtypes(t)
    BY SubtypesOf, TypeIs, NodeFields
  <2>2. how = "Infer" => a.k # "Slice"
    BY <2>1 DEF Visited, Fillable
  <2>3. w \in Type
    BY DEF Visited, Fillable
  <2>4. a = [k |-> a.k, name |-> a.name, args |-> a.args] /\ a.args \in Seq(Type)
    BY <2>1, TypeIs, NodeFields
  <2>5. a.args = [j \in 1 .. Len(a.args) |-> a.args[j]]
    BY <2>4
  <2> QED
    BY <2>1, <2>2, <2>3, <2>4, <2>5
<1>3. /\ w.k = t.k /\ w.args[i] = Outlined(t, a, Outline(a, how), how) /\ i \in 1 .. Len(w.args)
      /\ OutlineArgs(t, "Pod")[i] = Outlined(t, a, Outline(a, "Pod"), "Pod")
  BY <1>1, OutlineArg
<1>4. \A o, h : Outlined(t, a, o, h) = Elements(a, h)
  BY DEF Outlined
<1>5. w.args[i] = Elements(a, how) /\ OutlineArgs(t, "Pod")[i] = Elements(a, "Pod") /\ w.args[i] \in Type
  <2>1. w.args[i] \in Type
    <3> HIDE DEF w
    <3> QED
      BY <1>2, <1>3, TypeIs, NodeFields
  <2>2. /\ Outlined(t, a, Outline(a, how), how) = Elements(a, how)
        /\ Outlined(t, a, Outline(a, "Pod"), "Pod") = Elements(a, "Pod")
    BY <1>4
  <2> HIDE DEF w, a
  <2> QED
    BY <1>3, <2>1, <2>2
<1>6. w.args[i].k = a.k
  <2> DEFINE args == [j \in 1 .. Len(a.args) |-> Instead(a.args[j], how)]
  <2>1. w.args[i] = [a EXCEPT !.args = args]
    BY <1>5 DEF Elements
  <2> HIDE DEF a, args, w
  <2> QED
    BY <1>2, <2>1
<1>7. ~Hole(w, i)
  BY <1>6 DEF Hole
<1>8. FullArgs(t, how)[i] = FullElements(a, how)
  <2>1. CASE how = "Infer"
    <3>1. \A x : Filling(x, how) = x
      BY <2>1 DEF Filling
    <3>2. FullArgs(t, how)[i] = a
      BY <2>1 DEF FullArgs
    <3>3. [j \in 1 .. Len(a.args) |-> Filling(a.args[j], how)] = a.args
      BY <1>2, <3>1
    <3>4. [a EXCEPT !.args = a.args] = a
      BY <1>2
    <3> QED
      BY <3>2, <3>3, <3>4 DEF FullElements
  <2>2. CASE how # "Infer"
    <3>1. \A x : Filling(x, how) = Instead(x, "Pod")
      BY <2>2 DEF Filling, Instead
    <3>2. FullArgs(t, how)[i] = Elements(a, "Pod")
      <4>1. FullArgs(t, how) = OutlineArgs(t, "Pod")
        BY <2>2 DEF FullArgs
      <4> QED
        BY <1>5, <4>1
    <3>3. [j \in 1 .. Len(a.args) |-> Filling(a.args[j], how)] = [j \in 1 .. Len(a.args) |-> Instead(a.args[j], "Pod")]
      BY <3>1
    <3> QED
      BY <3>2, <3>3 DEF FullElements, Elements
  <2> QED
    BY <2>1, <2>2
<1>9. suf[i - 1] = a.args \o suf[i] /\ suf[i] \in Seq(Type)
  BY DEF Visited, Taken, TakenFrom
<1>10. Inferred(w.args[i], suf[i - 1]) = Done(FullElements(a, how), suf[i])
  <2>1. FillsElements(a, how, suf[i - 1], suf[i])
    BY <1>2, <1>9 DEF FillsElements
  <2>2. Elements(a, how) \in Type /\ w.args[i] = Elements(a, how)
    BY <1>5
  <2> HIDE DEF a, w
  <2> QED
    BY <1>2, <1>9, <2>1, <2>2, ElementsFilled
<1> HIDE DEF a, w
<1>11. Leaves(w, suf, FullArgs(t, how), i)
  BY <1>7, <1>8, <1>10, VisitedLeaves
<1> QED
  BY <1>11 DEF w

LEMMA LeafFilled ==
  ASSUME NEW t \in Type, NEW how \in {"Infer", "Pod<Infer>"}, NEW i \in 1 .. Len(t.args),
         NEW suf, Visited(t, how, i, suf), t.k = "Path", ~(t.args[i].k \in {"Slice", "Array"}),
         ~Entered(t.args[i])
  PROVE  Leaves(Outline(t, how), suf, FullArgs(t, how), i)
<1> DEFINE a == t.args[i]
           w == Outline(t, how)
<1>1. how \in Hows /\ "Pod" \in Hows
  BY DEF Hows
<1>2. a \in Type /\ a \in Subtypes(t) /\ w \in Type /\ a.k \in Kinds /\ a.k # "Infer"
  <2>1. a \in Type /\ a \in Subtypes(t) /\ a.k \in Kinds
    BY SubtypesOf, TypeIs, NodeFields
  <2> QED
    BY <2>1 DEF Visited, Fillable
<1>3. /\ w.k = t.k /\ w.args[i] = Outlined(t, a, Outline(a, how), how) /\ i \in 1 .. Len(w.args)
      /\ OutlineArgs(t, "Pod")[i] = Outlined(t, a, Outline(a, "Pod"), "Pod")
  BY <1>1, OutlineArg
<1>4. \A o, h : Outlined(t, a, o, h) = Instead(a, h)
  BY DEF Outlined
<1>5. LeftOut(w, i, a, how)
  BY <1>3, <1>4 DEF LeftOut
<1>6. FullArgs(t, how)[i] = Filling(a, how)
  <2>1. CASE how = "Infer"
    BY <2>1 DEF FullArgs, Filling
  <2>2. CASE how # "Infer"
    BY <1>3, <1>4, <2>2 DEF FullArgs, Filling, Instead
  <2> QED
    BY <2>1, <2>2
<1>7. Collected(a) = <<>>
  <2>1. CASE a.k = "Tuple"
    BY <2>1, RegularArg DEF Visited, Fillable
  <2>2. CASE a.k # "Tuple"
    <3>1. a.k = "Path"
      BY <1>2, <2>2 DEF Kinds, Entered
    <3>2. a.args = <<>>
      BY <3>1 DEF Entered
    <3> QED
      BY <1>2, <3>2, CollectedNone
  <2> QED
    BY <2>1, <2>2
<1>8. suf[i] \in Seq(Type) /\ suf[i - 1] = (<<a>> \o Collected(a)) \o suf[i]
  BY DEF Visited, Taken, TakenFrom
<1>9. Begins(suf[i - 1], a, suf[i])
  <2>1. <<a>> \o <<>> = <<a>>
    BY <1>2
  <2> QED
    BY <1>7, <1>8, <2>1 DEF Begins
<1> HIDE DEF a, w
<1>10. Leaves(w, suf, FullArgs(t, how), i)
  BY <1>2, <1>3, <1>5, <1>6, <1>8, <1>9, InsteadLeaves
<1> QED
  BY <1>10 DEF w

LEMMA ArgFilled ==
  ASSUME NEW t \in Type, NEW how \in {"Infer", "Pod<Infer>"}, NEW i \in 1 .. Len(t.args),
         NEW suf, Visited(t, how, i, suf)
  PROVE  Leaves(Outline(t, how), suf, FullArgs(t, how), i)
<1>1. CASE t.k # "Path" \/ Entered(t.args[i])
  BY <1>1, InnerFilled
<1>2. CASE t.k = "Path" /\ t.args[i].k \in {"Slice", "Array"}
  BY <1>2, SliceFilled
<1>3. CASE /\ t.k = "Path" /\ ~(t.args[i].k \in {"Slice", "Array"})
           /\ ~Entered(t.args[i])
  BY <1>3, LeafFilled
<1> QED
  BY <1>1, <1>2, <1>3

\* The two visitors agree on the order of types.
LEMMA OutlineFilled ==
  ASSUME NEW t \in Type, NEW how \in {"Infer", "Pod<Infer>"}, Fillable(t, how)
  PROVE  Fills(t, how)
<1> DEFINE P == {u \in Type : Fillable(u, how) => Fills(u, how)}
<1>1. ASSUME NEW u \in Type, \A i \in 1 .. Len(u.args) : u.args[i] \in P,
             Fillable(u, how), NEW q \in Seq(Type)
      PROVE  Inferred(Outline(u, how), Collected(u) \o q) = Done(Full(u, how), q)
  <2> DEFINE w == Outline(u, how)
             m == Len(u.args)
             r == FullArgs(u, how)
  <2>1. how \in Hows /\ "Pod" \in Hows
    BY DEF Hows
  <2>2. /\ m \in Nat /\ u = [k |-> u.k, name |-> u.name, args |-> u.args] /\ u.args \in Seq(Type)
        /\ AllTaken(u) \in Seq(Seq(Type)) /\ Collected(u) = FlattenSeq(AllTaken(u))
    BY CollectedStep, TypeIs, NodeFields
  <2>3. Len(AllTaken(u)) = m /\ \A i \in 1 .. m : AllTaken(u)[i] = Taken(u, i)
    BY <2>2 DEF AllTaken
  <2>4. PICK suf : Rests(suf, AllTaken(u), q, Type)
    BY <2>2, RestsExist
  <2>5. /\ suf \in [0 .. m -> Seq(Type)] /\ suf[0] = Collected(u) \o q /\ suf[m] = q
        /\ \A i \in 1 .. m : suf[i - 1] = Taken(u, i) \o suf[i]
    BY <2>2, <2>3, <2>4 DEF Rests
  <2>6. /\ w \in Type /\ w = [u EXCEPT !.args = OutlineArgs(u, how)]
        /\ OutlineArgs(u, how) \in Seq(Tree) /\ OutlineArgs(u, "Pod") \in Seq(Tree)
        /\ Outline(u, "Pod") = [u EXCEPT !.args = OutlineArgs(u, "Pod")]
    BY <1>1, <2>1, OutlineStep DEF Fillable
  <2>7. Len(w.args) = m /\ Len(OutlineArgs(u, "Pod")) = m
    <3> DEFINE args == OutlineArgs(u, how)
    <3>1. Len(args) = m /\ Len(OutlineArgs(u, "Pod")) = m
      BY <2>2 DEF OutlineArgs
    <3> HIDE DEF args
    <3>2. [u EXCEPT !.args = args].args = args
      BY <2>2
    <3> QED
      BY <2>6, <3>1, <3>2 DEF args
  <2>8. r \in Seq(Tree) /\ Len(r) = m /\ [w EXCEPT !.args = r] = Full(u, how)
    <3>1. CASE how = "Infer"
      <4>1. r = u.args /\ Full(u, how) = u
        BY <3>1 DEF FullArgs, Full
      <4> HIDE DEF r, m, w
      <4>2. r \in Seq(Tree)
        BY <2>2, <4>1, TypeIsTree
      <4> QED
        BY <2>2, <2>6, <4>1, <4>2 DEF m
    <3>2. CASE how # "Infer"
      <4>1. r = OutlineArgs(u, "Pod") /\ Full(u, how) = Outline(u, "Pod")
        BY <3>2 DEF FullArgs, Full
      <4> HIDE DEF r, m, w
      <4> QED
        BY <2>2, <2>6, <2>7, <4>1
    <3> QED
      BY <3>1, <3>2
  <2>9. ASSUME NEW i \in 1 .. m PROVE Leaves(w, suf, r, i)
    <3>1. suf[i] \in Seq(Type) /\ suf[i - 1] = Taken(u, i) \o suf[i]
      <4>1. i \in 0 .. m
        BY <2>2
      <4> QED
        BY <2>5, <4>1
    <3>2. Fillable(u.args[i], how) => Fills(u.args[i], how)
      BY <1>1
    <3>3. Visited(u, how, i, suf)
      BY <1>1, <3>1, <3>2 DEF Visited
    <3> QED
      BY <3>3, ArgFilled
  <2> HIDE DEF w, m, r
  <2>10. Inferred(w, suf[0]) = Done([w EXCEPT !.args = r], suf[m])
    <3>1. w \in Type /\ m \in Nat /\ m = Len(w.args) /\ suf \in [0 .. m -> Seq(Type)]
          /\ r \in Seq(Tree) /\ Len(r) = m
      BY <2>2, <2>5, <2>6, <2>7, <2>8
    <3>2. \A i \in 1 .. m : Leaves(w, suf, r, i)
      BY <2>9
    <3> QED
      BY <3>1, <3>2, ArgByArg
  <2>11. Inferred(w, suf[0]) = Done(Full(u, how), q)
    BY <2>5, <2>8, <2>10
  <2> QED
    BY <2>5, <2>11 DEF w
<1>2. ASSUME NEW u \in Type, \A i \in 1 .. Len(u.args) : u.args[i] \in P PROVE u \in P
  <2> HIDE DEF P
  <2>1. Fillable(u, how) => \A q \in Seq(Type) : Inferred(Outline(u, how), Collected(u) \o q) = Done(Full(u, how), q)
    BY <1>1, <1>2
  <2> QED
    BY <2>1 DEF P, Fills
<1> HIDE DEF P
<1>3. Type \subseteq P
  BY <1>2, TypeInduction
<1> QED
  BY <1>3 DEF P

\* An author who leaves out every innermost type of a field gets the field's type, and
\* with Pod in their place each of them in its Pod (lib.rs:64-117): for field types of any
\* shape and depth in which no tuple that is an argument holds arguments.
THEOREM OutlinesRoundTrip == Spec => []RoundTrip
<1>1. InferInv => RoundTrip
  <2> SUFFICES ASSUME InferInv, pc \in {"done", "panicked"}, Regular(ty)
               PROVE  /\ Collected(ty) # <<>> =>
                           /\ with = Outline(ty, "Infer") /\ (\A s \in Subtypes(ty) : s.k # "Slice") =>
                                pc = "done" /\ target = ty
                           /\ with = Outline(ty, "Pod<Infer>") => pc = "done" /\ target = Outline(ty, "Pod")
                      /\ Collected(ty) = <<>> /\ with = Pod(Underscore) => pc = "done" /\ target = Pod(ty)
    BY DEF RoundTrip
  <2> DEFINE o == Inferred(with, Queue(ty))
  <2>1. ty \in FieldTypes /\ with \in Adapters(ty)
        /\ (pc = "done" => o.ok /\ target = o.ty) /\ (pc = "panicked" => ~o.ok)
    BY DEF InferInv
  <2>2. with \in Type /\ ty \in Type /\ (\A s \in Subtypes(ty) : s.k # "Infer") /\ Collected(ty) \in Seq(Type)
    BY <2>1, AdapterFits, QueueType, InferAssumption, CollectedStep
  <2>3. ASSUME NEW x, NEW rest, o = Done(x, rest)
        PROVE  pc = "done" /\ target = x
    <3>1. o.ok = TRUE /\ o.ty = x
      BY <2>3 DEF Done
    <3> HIDE DEF o
    <3> QED
      BY <2>1, <3>1
  <2>4. ASSUME NEW how \in {"Infer", "Pod<Infer>"}, Collected(ty) # <<>>, with = Outline(ty, how),
               how = "Infer" => \A s \in Subtypes(ty) : s.k # "Slice"
        PROVE  pc = "done" /\ target = Full(ty, how)
    <3>1. Fillable(ty, how)
      BY <2>2, <2>4 DEF Fillable
    <3>2. Fills(ty, how)
      BY <2>2, <3>1, OutlineFilled
    <3>3. <<>> \in Seq(Type) /\ Collected(ty) \o <<>> = Collected(ty)
      BY <2>2
    <3>4. Inferred(Outline(ty, how), Collected(ty)) = Done(Full(ty, how), <<>>)
      BY <3>2, <3>3 DEF Fills
    <3>5. o = Done(Full(ty, how), <<>>)
      BY <2>4, <3>4 DEF Queue
    <3> HIDE DEF o
    <3> QED
      BY <2>3, <3>5
  <2>5. ASSUME Collected(ty) = <<>>, with = Pod(Underscore)
        PROVE  pc = "done" /\ target = Pod(ty)
    <3>1. Queue(ty) = <<ty>> /\ Pod(Underscore) \in Type
      BY <2>2, <2>5 DEF Queue
    <3>2. <<>> \in Seq(Type) /\ <<ty>> \o <<>> = <<ty>>
      BY <2>2
    <3>3. Inferred(Pod(Underscore), <<ty>> \o <<>>) = Done(Pod(ty), <<>>)
      BY <2>2, <3>1, <3>2, PodFilled
    <3>4. o = Done(Pod(ty), <<>>)
      BY <2>5, <3>1, <3>2, <3>3
    <3> HIDE DEF o
    <3> QED
      BY <2>3, <3>4
  <2>6. Collected(ty) # <<>> /\ with = Outline(ty, "Infer") /\ (\A s \in Subtypes(ty) : s.k # "Slice")
          => pc = "done" /\ target = ty
    <3>1. Full(ty, "Infer") = ty
      BY DEF Full
    <3> QED
      BY <2>4, <3>1
  <2>7. Collected(ty) # <<>> /\ with = Outline(ty, "Pod<Infer>") => pc = "done" /\ target = Outline(ty, "Pod")
    <3>1. Full(ty, "Pod<Infer>") = Outline(ty, "Pod")
      BY DEF Full
    <3> QED
      BY <2>4, <3>1
  <2> QED
    BY <2>5, <2>6, <2>7
<1> QED
  BY <1>1, Visiting, PTL

\* What replaces a placeholder is visited in turn, to no effect (lib.rs:93-117): a type
\* from the queue stays as it is and takes nothing from what is left.
THEOREM ReplacedUnchanged ==
  \A t \in FieldTypes : \A s \in ToSet(Queue(t)) : \A q \in Seq(Type) : Inferred(s, q) = Done(s, q)
<1> SUFFICES ASSUME NEW t \in FieldTypes, NEW s \in ToSet(Queue(t)), NEW q \in Seq(Type)
             PROVE  Inferred(s, q) = Done(s, q)
  OBVIOUS
<1>1. Queue(t) \in Seq(Plain)
  BY QueueType
<1>2. s \in Plain
  BY <1>1 DEF ToSet
<1>3. s \in Type /\ \A u \in Subtypes(s) : u.k # "Infer"
  BY <1>2, PlainType DEF Plain
<1> QED
  BY <1>3, Unchanged

=============================================================================
