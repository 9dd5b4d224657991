---------------------------- MODULE LazyVecProofs ----------------------------
(***************************************************************************)
(* The iterators of LazyVec, for every vector, every input and any number  *)
(* of iterators: their unchecked reads are inside the payload, and the     *)
(* n-th item depends on the bytes of the n-th element alone.  Both rest on *)
(* the payload of a decoded vector being exact, which is ParseResult.      *)
(***************************************************************************)
EXTENDS LazyVec, TyProofs

Out == [ok : BOOLEAN, val : Scalar \cup ReadError]

Iter == [as : AsTypes, owning : BOOLEAN, index : Nat, out : Seq(Out)]

\* An iterator over vec: it was validated when it was made, and has yielded the
\* elements before index.
Sound(it) ==
  /\ it.as.ty = vec.ty /\ it.as.width = Width
  /\ it.index <= vec.len
  /\ Len(it.out) = it.index
  /\ \A n \in 1 .. it.index : it.out[n].ok = Element(n).ok /\ it.out[n].val = Element(n).val

SoundIter == {it \in Iter : Sound(it)}

Inv ==
  /\ vec \in Readable /\ vec.k = "Vec"
  /\ held \in BOOLEAN
  /\ iters \in Seq(SoundIter) /\ Len(iters) <= MaxIters
  /\ Len(dyn) <= 1

-----------------------------------------------------------------------------
LEMMA ModSmall ==
  ASSUME NEW m \in Nat, NEW x \in 0 .. m
  PROVE  x % (m + 1) = x
OBVIOUS

LEMMA VecType ==
  ASSUME Inv
  PROVE  /\ vec \in Value
         /\ vec.ty \in PrimitiveTy /\ Width \in {1, 2, 4, 8}
         /\ vec.len \in Nat /\ vec.raw \in Seq(Byte)
         /\ Len(vec.raw) = vec.len * Width /\ Len(vec.raw) \in Nat /\ Len(vec.raw) <= UsizeMax
         /\ UsizeMax \in Nat
<1>1. vec \in Value /\ Exact(vec) /\ vec.k = "Vec"
  BY DEF Inv, Readable
<1>2. vec.ty \in PrimitiveTy /\ vec.len \in Usize /\ vec.raw \in Seq(Byte)
  BY <1>1 DEF Value
<1>3. Width \in {1, 2, 4, 8}
  BY <1>2, PrimitiveSizeType DEF Width
<1>4. Len(vec.raw) = vec.len * Width /\ Len(vec.raw) \in Usize
  BY <1>1 DEF Exact, Width
<1> QED
  BY <1>1, <1>2, <1>3, <1>4, WincodeAssumption DEF Usize

\* Element number index lies in the payload, where start says it does.
LEMMA ElementPlace ==
  ASSUME Inv, NEW it \in SoundIter, it.index < vec.len
  PROVE  /\ Start(it) = it.index * Width /\ Start(it) \in Nat
         /\ Start(it) + Width <= Len(vec.raw)
         /\ (it.index + 1) * Width = Start(it) + Width
<1>1. it.index \in Nat /\ it.as.width = Width
  BY DEF SoundIter, Iter, Sound
<1> DEFINE rest == vec.len - it.index - 1
           i    == it.index
<1>2. rest \in Nat /\ vec.len = i + 1 + rest
  BY <1>1, VecType
<1>3. Start(it) = (i * Width) % (UsizeMax + 1)
  BY <1>1 DEF Start
<1> HIDE DEF rest
<1>4. Width \in Nat /\ i \in Nat
  BY <1>1, VecType
<1> HIDE DEF i
<1>5. /\ i * Width \in Nat /\ rest * Width \in Nat
      /\ (i + 1) * Width = i * Width + Width
      /\ (i + 1 + rest) * Width = i * Width + Width + rest * Width
  BY <1>2, <1>4
<1>6. i * Width + Width <= Len(vec.raw) /\ i * Width \in 0 .. UsizeMax
  BY <1>2, <1>4, <1>5, VecType
<1>7. Start(it) = i * Width
  BY <1>3, <1>6, ModSmall, VecType
<1> QED
  BY <1>5, <1>6, <1>7 DEF i

\* A scalar read looks at its own bytes alone: what follows them does not matter.
LEMMA ReadIsLocal ==
  ASSUME NEW p \in PrimitiveTy, NEW s \in Seq(Byte), NEW a \in Nat,
         a + PrimitiveSize(p) <= Len(s)
  PROVE  LET whole == ReadPrimitive(p, SliceReader(SubSeq(s, a + 1, Len(s))))
             own   == ReadPrimitive(p, SliceReader(SubSeq(s, a + 1, a + PrimitiveSize(p))))
         IN  whole.ok = own.ok /\ whole.val = own.val
<1> DEFINE w     == PrimitiveSize(p)
           rest  == SubSeq(s, a + 1, Len(s))
           bytes == SubSeq(s, a + 1, a + w)
<1>1. w \in 1 .. 8
  BY PrimitiveSizeType
<1> HIDE DEF w
<1>2. /\ rest \in Seq(Byte) /\ Len(rest) = Len(s) - a
      /\ \A k \in 1 .. Len(s) - a : rest[k] = s[a + k]
  BY <1>1, SliceBytes DEF w
<1>3. /\ bytes \in Seq(Byte) /\ Len(bytes) = w
      /\ \A k \in 1 .. w : bytes[k] = s[a + k]
  <2>1. a + w \in Nat /\ a <= a + w /\ a + w <= Len(s) /\ (a + w) - a = w
    BY <1>1 DEF w
  <2> QED
    BY <2>1, SliceBytes
<1>4. w <= Len(rest)
  BY <1>1, <1>2 DEF w
<1> HIDE DEF rest, bytes
<1>5. ASSUME NEW t \in Seq(Byte), w <= Len(t), \A k \in 1 .. w : t[k] = bytes[k]
      PROVE  Take(SliceReader(t), w) = Ok(bytes, w)
  <2> DEFINE u == SubSeq(t, 1, w)
  <2>1. u \in Seq(Byte) /\ Len(u) = w /\ \A k \in 1 .. w : u[k] = t[k]
    <3>1. SubSeq(t, 0 + 1, w) = u
      OBVIOUS
    <3> QED
      BY <1>1, <1>5, <3>1, SliceBytes
  <2> HIDE DEF u
  <2>2. u = bytes
    BY <1>1, <1>3, <1>5, <2>1, SeqEqual
  <2>3. Take(SliceReader(t), w) = Ok(SubSeq(t, 0 + 1, 0 + w), 0 + w)
    BY <1>1, <1>5 DEF Take, SliceReader
  <2>4. 0 + 1 = 1 /\ 0 + w = w
    BY <1>1
  <2> QED
    BY <2>2, <2>3, <2>4 DEF u
<1>6. Take(SliceReader(rest), w) = Ok(bytes, w)
  <2>1. \A k \in 1 .. w : rest[k] = bytes[k]
    BY <1>1, <1>2, <1>3, <1>4
  <2> QED
    BY <1>2, <1>4, <1>5, <2>1
<1>7. Take(SliceReader(bytes), w) = Ok(bytes, w)
  BY <1>1, <1>3, <1>5
<1> DEFINE n == IF p \in SignedTy THEN Signed(bytes) ELSE Unsigned(bytes)
<1> DEFINE bad == p = "Bool" /\ n \notin {0, 1}
           v   == [k |-> "Primitive", ty |-> p, n |-> n]
<1>8. ASSUME NEW r, Take(r, w) = Ok(bytes, w)
      PROVE  IF bad THEN /\ ReadPrimitive(p, r).ok = FALSE
                         /\ ReadPrimitive(p, r).val = "InvalidBoolEncoding"
                    ELSE ReadPrimitive(p, r).ok = TRUE /\ ReadPrimitive(p, r).val = v
  <2>1. Take(r, w).ok /\ Take(r, w).val = bytes
    BY <1>8 DEF Ok
  <2>2. ReadPrimitive(p, r) = IF bad THEN Err("InvalidBoolEncoding", r, Somewhere(r))
                                     ELSE Ok(v, Take(r, w).pos)
    BY <2>1 DEF ReadPrimitive, w
  <2> HIDE DEF bad, v
  <2>3. CASE bad
    BY <2>2, <2>3 DEF Err
  <2>4. CASE ~bad
    BY <2>2, <2>4 DEF Ok
  <2> QED
    BY <2>3, <2>4
<1> HIDE DEF n, bad, v
<1> DEFINE whole == ReadPrimitive(p, SliceReader(rest))
           own   == ReadPrimitive(p, SliceReader(bytes))
<1>9. IF bad THEN whole.ok = FALSE /\ whole.val = "InvalidBoolEncoding"
             ELSE whole.ok = TRUE /\ whole.val = v
  BY <1>6, <1>8
<1>10. IF bad THEN own.ok = FALSE /\ own.val = "InvalidBoolEncoding"
              ELSE own.ok = TRUE /\ own.val = v
  BY <1>7, <1>8
<1> HIDE DEF whole, own
<1>11. whole.ok = own.ok /\ whole.val = own.val
  <2>1. CASE bad
    BY <1>9, <1>10, <2>1
  <2>2. CASE ~bad
    BY <1>9, <1>10, <2>2
  <2> QED
    BY <2>1, <2>2
<1> QED
  BY <1>11 DEF whole, own, rest, bytes, w
-----------------------------------------------------------------------------
(***************************************************************************)
(* The invariant.                                                          *)
(***************************************************************************)
LEMMA InitInv == Init => Inv
<1> SUFFICES ASSUME Init PROVE Inv
  OBVIOUS
<1>1. PICK t \in Types, r \in [buf : Inputs, pos : {0}, borrows : BOOLEAN] :
        Parse(t, r).ok /\ vec = Parse(t, r).val /\ vec.k = "Vec"
  BY DEF Init, Decoded
<1>2. t \in DynTy /\ Placed(r)
  BY LazyVecAssumption DEF Placed, Reader
<1>3. vec \in Readable
  BY <1>1, <1>2, ParseResult DEF Outcome
<1>4. iters = <<>> /\ dyn = <<>> /\ held \in BOOLEAN
  BY DEF Init
<1>5. iters \in Seq(SoundIter) /\ Len(iters) <= MaxIters /\ Len(dyn) <= 1
  BY <1>4, LazyVecAssumption
<1> QED
  BY <1>1, <1>3, <1>4, <1>5 DEF Inv

\* Sound speaks of the vector alone, which no step changes.
LEMMA SameVec ==
  ASSUME vec' = vec
  PROVE  SoundIter' = SoundIter
BY DEF SoundIter, Sound, Element, Width

LEMMA AddIterInv ==
  ASSUME Inv, NEW as \in AsTypes, NEW owning \in BOOLEAN,
         Len(iters) < MaxIters, AddIter(as, owning), vec' = vec, dyn' = dyn,
         held' \in BOOLEAN
  PROVE  Inv'
<1> DEFINE it == [as |-> as, owning |-> owning, index |-> 0, out |-> <<>>]
<1>1. CASE ValidateElementType(as, vec.ty)
  <2>1. as.ty = vec.ty /\ as.width = Width
    BY <1>1 DEF ValidateElementType, Width
  <2>2. it \in Iter /\ it.as = as /\ it.index = 0 /\ it.out = <<>>
    <3>1. <<>> \in Seq(Out) /\ 0 \in Nat
      OBVIOUS
    <3> QED
      BY <3>1 DEF Iter
  <2>3. iters' = Append(iters, it)
    BY <1>1 DEF AddIter
  <2> HIDE DEF it
  <2>4. it \in SoundIter
    <3>1. 1 .. it.index = {} /\ Len(it.out) = it.index /\ it.index <= vec.len
      BY <2>2, VecType
    <3> QED
      BY <2>1, <2>2, <3>1 DEF SoundIter, Sound
  <2>5. iters' \in Seq(SoundIter) /\ Len(iters') = Len(iters) + 1
    BY <2>3, <2>4, AppendProperties DEF Inv
  <2>6. Len(iters') <= MaxIters
    BY <2>5, LazyVecAssumption DEF Inv
  <2> QED
    BY <2>5, <2>6, SameVec DEF Inv
<1>2. CASE ~ValidateElementType(as, vec.ty)
  <2>1. iters' = iters
    BY <1>2 DEF AddIter
  <2> QED
    BY <2>1, SameVec DEF Inv
<1> QED
  BY <1>1, <1>2

LEMMA CloneIterInv ==
  ASSUME Inv, NEW i \in DOMAIN iters, CloneIter(i)
  PROVE  Inv'
<1>1. /\ Len(iters) < MaxIters /\ iters' = Append(iters, iters[i])
      /\ vec' = vec /\ held' = held /\ dyn' = dyn
  BY DEF CloneIter
<1>2. iters \in Seq(SoundIter) /\ iters[i] \in SoundIter
  BY ElementOfSeq DEF Inv
<1>3. iters' \in Seq(SoundIter) /\ Len(iters') = Len(iters) + 1
  BY <1>1, <1>2, AppendProperties
<1>4. Len(iters') <= MaxIters
  BY <1>1, <1>2, <1>3, LazyVecAssumption
<1> QED
  BY <1>1, <1>3, <1>4, SameVec DEF Inv

LEMMA DropIterInv ==
  ASSUME Inv, NEW i \in DOMAIN iters, DropIter(i)
  PROVE  Inv'
<1> DEFINE before == SubSeq(iters, 1, i - 1)
           after  == SubSeq(iters, i + 1, Len(iters))
<1>1. /\ iters' = before \o after
      /\ vec' = vec /\ held' = held /\ dyn' = dyn
  BY DEF DropIter
<1>2. iters \in Seq(SoundIter) /\ i \in 1 .. Len(iters) /\ Len(iters) \in Nat
  BY DEF Inv
<1>3. \A j \in 1 .. Len(iters) : iters[j] \in SoundIter
  BY <1>2, ElementOfSeq
<1>4. before \in Seq(SoundIter) /\ Len(before) = i - 1
  <2>1. /\ before \in Seq(SoundIter)
        /\ Len(before) = IF 1 <= i - 1 THEN (i - 1) - 1 + 1 ELSE 0
    BY <1>2, <1>3, SubSeqProperties
  <2> QED
    BY <1>2, <2>1
<1>5. after \in Seq(SoundIter) /\ Len(after) = Len(iters) - i
  <2>1. /\ after \in Seq(SoundIter)
        /\ Len(after) = IF i + 1 <= Len(iters) THEN Len(iters) - (i + 1) + 1 ELSE 0
    BY <1>2, <1>3, SubSeqProperties
  <2> QED
    BY <1>2, <2>1
<1> HIDE DEF before, after
<1>6. iters' \in Seq(SoundIter) /\ Len(iters') = Len(iters) - 1
  BY <1>1, <1>2, <1>4, <1>5, ConcatProperties
<1>7. Len(iters') <= MaxIters
  BY <1>2, <1>6, LazyVecAssumption DEF Inv
<1> QED
  BY <1>1, <1>6, <1>7, SameVec DEF Inv

LEMMA AdvanceFields ==
  ASSUME NEW it \in Iter, NEW o, [ok |-> o.ok, val |-> o.val] \in Out
  PROVE  /\ Advance(it, o) \in Iter
         /\ Advance(it, o).as = it.as
         /\ Advance(it, o).index = it.index + 1
         /\ Advance(it, o).out = Append(it.out, [ok |-> o.ok, val |-> o.val])
<1> DEFINE outs == Seq(Out)
           item == [ok |-> o.ok, val |-> o.val]
<1>1. /\ it \in [as : AsTypes, owning : BOOLEAN, index : Nat, out : outs]
      /\ Append(it.out, item) \in outs
      /\ it.index + 1 \in Nat
  BY AppendProperties DEF Iter
<1>2. Advance(it, o) = [it EXCEPT !.index = it.index + 1, !.out = Append(it.out, item)]
  BY DEF Advance
<1> HIDE DEF outs, item
<1>3. Advance(it, o) \in [as : AsTypes, owning : BOOLEAN, index : Nat, out : outs]
  BY <1>1, <1>2
<1>4. /\ Advance(it, o).as = it.as
      /\ Advance(it, o).index = it.index + 1
      /\ Advance(it, o).out = Append(it.out, item)
  BY <1>1, <1>2
<1> QED
  BY <1>3, <1>4 DEF Iter, outs, item

\* What an iterator yields is what the element's own bytes decode to.
LEMMA AdvanceResult ==
  ASSUME Inv, NEW it \in SoundIter, it.index < vec.len
  PROVE  Advance(it, ReadPrimitive(it.as.ty,
           SliceReader(SubSeq(vec.raw, Start(it) + 1, Len(vec.raw))))) \in SoundIter
<1> DEFINE rest == SubSeq(vec.raw, Start(it) + 1, Len(vec.raw))
           o    == ReadPrimitive(it.as.ty, SliceReader(rest))
           item == [ok |-> o.ok, val |-> o.val]
           n    == it.index
<1>1. /\ it \in Iter /\ it.as.ty = vec.ty /\ it.as.width = Width
      /\ Len(it.out) = n /\ n \in Nat /\ it.out \in Seq(Out)
      /\ \A m \in 1 .. n : it.out[m].ok = Element(m).ok /\ it.out[m].val = Element(m).val
  BY DEF SoundIter, Sound, Iter
<1>2. /\ Start(it) = n * Width /\ Start(it) \in Nat /\ Start(it) + Width <= Len(vec.raw)
      /\ (n + 1) * Width = Start(it) + Width
  BY ElementPlace
<1>3. /\ vec.ty \in PrimitiveTy /\ Width \in Nat /\ vec.raw \in Seq(Byte) /\ vec.len \in Nat
      /\ Len(vec.raw) \in Nat
  BY VecType
<1>4. rest \in Seq(Byte)
  <2>1. Start(it) <= Len(vec.raw)
    BY <1>2, <1>3
  <2> QED
    BY <1>2, <1>3, <2>1, SliceBytes
<1>5. o.ok = Element(n + 1).ok /\ o.val = Element(n + 1).val
  <2>1. Element(n + 1) = ReadPrimitive(vec.ty,
                           SliceReader(SubSeq(vec.raw, Start(it) + 1, Start(it) + Width)))
    <3>1. (n + 1) - 1 = n
      BY <1>1
    <3>2. ((n + 1) - 1) * Width + 1 = Start(it) + 1
      BY <1>2, <3>1
    <3> QED
      BY <1>2, <3>2 DEF Element
  <2> DEFINE own == ReadPrimitive(vec.ty, SliceReader(SubSeq(vec.raw, Start(it) + 1, Start(it) + Width)))
  <2>2. o = ReadPrimitive(vec.ty, SliceReader(rest))
    BY <1>1
  <2>3. Start(it) \in Nat /\ Width = PrimitiveSize(vec.ty)
    BY <1>2 DEF Width
  <2>4. ReadPrimitive(vec.ty, SliceReader(rest)).ok = own.ok /\ ReadPrimitive(vec.ty, SliceReader(rest)).val = own.val
    BY <1>2, <1>3, <2>3, ReadIsLocal
  <2> HIDE DEF own, o
  <2> QED
    BY <2>1, <2>2, <2>4 DEF own
<1>6. item \in Out
  <2>1. Placed(SliceReader(rest))
    BY <1>4 DEF Placed, Reader, SliceReader
  <2>2. Outcome(o, SliceReader(rest), Scalar)
    BY <1>1, <1>3, <2>1, ReadPrimitiveResult
  <2> HIDE DEF o
  <2> QED
    BY <2>2 DEF Outcome, Out
<1>7. item.ok = o.ok /\ item.val = o.val
  OBVIOUS
<1> DEFINE next == Advance(it, o)
           out  == Append(it.out, item)
<1>8. next.as = it.as /\ next.index = n + 1 /\ next.out = out /\ next \in Iter
  BY <1>1, <1>6, AdvanceFields
<1> HIDE DEF next, o, item, rest
<1>9. /\ out \in Seq(Out) /\ Len(out) = n + 1
      /\ \A m \in 1 .. n : out[m] = it.out[m]
      /\ out[n + 1] = item
  BY <1>1, <1>6, AppendProperties
<1> HIDE DEF out
<1>10. \A m \in 1 .. n + 1 : out[m].ok = Element(m).ok /\ out[m].val = Element(m).val
  <2> TAKE m \in 1 .. n + 1
  <2>1. CASE m \in 1 .. n
    BY <1>1, <1>9, <2>1
  <2>2. CASE m = n + 1
    BY <1>5, <1>7, <1>9, <2>2
  <2> QED
    BY <1>1, <2>1, <2>2
<1>11. n + 1 <= vec.len
  BY <1>1, <1>3
<1>12. next \in SoundIter
  BY <1>1, <1>8, <1>9, <1>10, <1>11 DEF SoundIter, Sound
<1> QED
  BY <1>12 DEF next, o, rest

LEMMA IterNextInv ==
  ASSUME Inv, NEW i \in DOMAIN iters, IterNext(i)
  PROVE  Inv'
<1> DEFINE it   == iters[i]
           next == Advance(it, ReadPrimitive(it.as.ty,
                     SliceReader(SubSeq(vec.raw, Start(it) + 1, Len(vec.raw)))))
<1>1. it.index < vec.len /\ iters' = [iters EXCEPT ![i] = next]
        /\ vec' = vec /\ held' = held /\ dyn' = dyn
  BY DEF IterNext
<1>2. iters \in Seq(SoundIter) /\ it \in SoundIter
  BY ElementOfSeq DEF Inv
<1> HIDE DEF it
<1>3. next \in SoundIter
  BY <1>1, <1>2, AdvanceResult
<1> HIDE DEF next
<1>4. iters' \in Seq(SoundIter) /\ Len(iters') = Len(iters)
  BY <1>1, <1>2, <1>3, ExceptSeq
<1> QED
  BY <1>1, <1>4, SameVec DEF Inv

LEMMA InvStep ==
  ASSUME Inv, [Next]_vars
  PROVE  Inv'
<1>1. ASSUME NEW as \in AsTypes, TryIterAs(as) PROVE Inv'
  BY <1>1, AddIterInv DEF TryIterAs, Inv
<1>2. ASSUME NEW as \in AsTypes, NEW clone \in BOOLEAN, TryIntoIterAs(as, clone) PROVE Inv'
  BY <1>2, AddIterInv DEF TryIntoIterAs, Consume
<1>3. ASSUME NEW i \in DOMAIN iters, CloneIter(i) PROVE Inv'
  BY <1>3, CloneIterInv
<1>4. ASSUME NEW i \in DOMAIN iters, DropIter(i) PROVE Inv'
  BY <1>4, DropIterInv
<1>5. ASSUME NEW i \in DOMAIN iters, IterNext(i) PROVE Inv'
  BY <1>5, IterNextInv
<1>6. ASSUME NEW clone \in BOOLEAN, IntoDynVec(clone) PROVE Inv'
  <2>1. vec' = vec /\ iters' = iters /\ held' \in BOOLEAN
    BY <1>6 DEF IntoDynVec, Consume
  <2>2. PICK o : dyn' = <<[ok |-> o.ok, val |-> o.val]>>
    BY <1>6 DEF IntoDynVec
  <2>3. Len(dyn') = 1
    BY <2>2
  <2> QED
    BY <2>1, <2>3, SameVec DEF Inv
<1>7. CASE UNCHANGED vars
  BY <1>7, SameVec DEF vars, Inv
<1> QED
  BY <1>1, <1>2, <1>3, <1>4, <1>5, <1>6, <1>7 DEF Next

\* However iterators are made, cloned, advanced and dropped, the inductive
\* invariant holds.
THEOREM Invariance == Spec => []Inv
<1>1. Init => Inv
  BY InitInv
<1>2. Inv /\ [Next]_vars => Inv'
  BY InvStep
<1> QED
  BY <1>1, <1>2, PTL DEF Spec

\* An iterator is at most at the end and has yielded as many items as it has
\* advanced.
THEOREM TypeCorrect == Spec => []TypeOK
<1>1. Inv => TypeOK
  <2> SUFFICES ASSUME Inv PROVE TypeOK
    OBVIOUS
  <2>1. vec \in Value /\ vec.k = "Vec" /\ held \in BOOLEAN /\ Len(dyn) <= 1
    BY DEF Inv, Readable
  <2>2. DOMAIN iters = 1 .. Len(iters) /\ Len(iters) <= MaxIters
    BY DEF Inv
  <2>3. ASSUME NEW i \in DOMAIN iters
        PROVE  /\ DOMAIN iters[i] = {"as", "owning", "index", "out"}
               /\ iters[i].as \in AsTypes
               /\ iters[i].owning \in BOOLEAN
               /\ iters[i].index \in 0 .. vec.len
               /\ Len(iters[i].out) = iters[i].index
    <3>1. iters[i] \in SoundIter
      BY ElementOfSeq DEF Inv
    <3>2. iters[i] \in Iter
      BY <3>1 DEF SoundIter
    <3> QED
      BY <3>1, <3>2, VecType DEF SoundIter, Sound, Iter
  <2> QED
    BY <2>1, <2>2, <2>3 DEF TypeOK
<1> QED
  BY <1>1, Invariance, PTL

\* The get_unchecked of Iterator::next (value.rs:357-361) is always inside the
\* payload, and the product that it starts from never overflows.
THEOREM UncheckedReadsInside == Spec => []InBounds
<1>1. Inv => InBounds
  <2> SUFFICES ASSUME Inv, NEW i \in DOMAIN iters, iters[i].index < vec.len
               PROVE  /\ Start(iters[i]) = iters[i].index * iters[i].as.width
                      /\ Start(iters[i]) + iters[i].as.width <= Len(vec.raw)
    BY DEF InBounds
  <2>1. iters[i] \in SoundIter
    BY ElementOfSeq DEF Inv
  <2>2. iters[i].as.width = Width
    BY <2>1 DEF SoundIter, Sound
  <2> QED
    BY <2>1, <2>2, ElementPlace
<1> QED
  BY <1>1, Invariance, PTL

\* The n-th item is what the n-th element's own bytes decode to: a malformed
\* element spoils no other.
THEOREM ElementsIndependent == Spec => []ElementWise
<1>1. Inv => ElementWise
  <2> SUFFICES ASSUME Inv, NEW i \in DOMAIN iters, NEW n \in DOMAIN iters[i].out
               PROVE  /\ iters[i].out[n].ok = Element(n).ok
                      /\ iters[i].out[n].val = Element(n).val
    BY DEF ElementWise
  <2>1. iters[i] \in SoundIter
    BY ElementOfSeq DEF Inv
  <2>2. iters[i].out \in Seq(Out) /\ Len(iters[i].out) = iters[i].index
    BY <2>1 DEF SoundIter, Sound, Iter
  <2>3. n \in 1 .. iters[i].index
    BY <2>2
  <2> QED
    BY <2>1, <2>3 DEF SoundIter, Sound
<1> QED
  BY <1>1, Invariance, PTL

\* is_empty, which looks at the payload, and len, which looks at the count, agree on
\* every decoded vector (value.rs).
THEOREM EmptyAgrees == Spec => []EmptyMeansNone
<1>1. Inv => EmptyMeansNone
  <2> SUFFICES ASSUME Inv PROVE vec.raw = <<>> <=> vec.len = 0
    BY DEF EmptyMeansNone, IsEmpty, VecLen
  <2>1. Len(vec.raw) = 0 <=> vec.len = 0
    BY VecType
  <2>2. vec.raw = <<>> <=> Len(vec.raw) = 0
    BY VecType, EmptySeq
  <2> QED
    BY <2>1, <2>2
<1> QED
  BY <1>1, Invariance, PTL

-----------------------------------------------------------------------------
(***************************************************************************)
(* The vector implements Vector.  What into_dyn_vec returns needs an       *)
(* induction over the elements that it reads one after the other, each     *)
(* where its predecessor ended.                                            *)
(***************************************************************************)
\* The read of an element in place, from the reader that its predecessors moved.
InPlace(n) == ReadPrimitive(vec.ty, At(SliceReader(vec.raw), (n - 1) * Width))

\* A scalar read is decided by the bytes that it takes.
LEMMA ReadByBytes ==
  ASSUME NEW p \in PrimitiveTy, NEW r, Placed(r), NEW s, Placed(s),
         r.pos + PrimitiveSize(p) <= Len(r.buf), s.pos + PrimitiveSize(p) <= Len(s.buf),
         Bytes(r, r.pos + PrimitiveSize(p)) = Bytes(s, s.pos + PrimitiveSize(p))
  PROVE  /\ ReadPrimitive(p, r).ok = ReadPrimitive(p, s).ok
         /\ ReadPrimitive(p, r).val = ReadPrimitive(p, s).val
<1> DEFINE w == PrimitiveSize(p)
           bs == Bytes(s, s.pos + w)
           n == IF p \in SignedTy THEN Signed(bs) ELSE Unsigned(bs)
           bad == p = "Bool" /\ n \notin {0, 1}
           v == [k |-> "Primitive", ty |-> p, n |-> n]
<1>1. w \in Nat
  BY PrimitiveSizeType
<1>2. ASSUME NEW u, Take(u, w).ok, Take(u, w).val = bs
      PROVE  IF bad THEN /\ ReadPrimitive(p, u).ok = FALSE
                         /\ ReadPrimitive(p, u).val = "InvalidBoolEncoding"
                    ELSE ReadPrimitive(p, u).ok = TRUE /\ ReadPrimitive(p, u).val = v
  <2> HIDE DEF bs
  <2>1. ReadPrimitive(p, u) = IF bad THEN Err("InvalidBoolEncoding", u, Somewhere(u))
                                     ELSE Ok(v, Take(u, w).pos)
    BY <1>2 DEF ReadPrimitive
  <2> HIDE DEF bad, v
  <2>2. CASE bad
    BY <2>1, <2>2 DEF Err
  <2>3. CASE ~bad
    BY <2>1, <2>3 DEF Ok
  <2> QED
    BY <2>2, <2>3
<1>3. Take(r, w).ok /\ Take(r, w).val = bs
  BY <1>1, TakeAccepts
<1>4. Take(s, w).ok /\ Take(s, w).val = bs
  BY <1>1, TakeAccepts
<1> HIDE DEF w, bs, n, bad, v
<1> DEFINE a == ReadPrimitive(p, r)
           b == ReadPrimitive(p, s)
<1>5. IF bad THEN a.ok = FALSE /\ a.val = "InvalidBoolEncoding" ELSE a.ok = TRUE /\ a.val = v
  BY <1>2, <1>3
<1>6. IF bad THEN b.ok = FALSE /\ b.val = "InvalidBoolEncoding" ELSE b.ok = TRUE /\ b.val = v
  BY <1>2, <1>4
<1> HIDE DEF a, b
<1>7. a.ok = b.ok /\ a.val = b.val
  <2>1. CASE bad
    BY <1>5, <1>6, <2>1
  <2>2. CASE ~bad
    BY <1>5, <1>6, <2>2
  <2> QED
    BY <2>1, <2>2
<1> QED
  BY <1>7 DEF a, b

\* Where the n-th element is.
LEMMA NthPlace ==
  ASSUME Inv, NEW n \in 1 .. vec.len
  PROVE  /\ (n - 1) * Width \in Nat /\ n * Width \in Nat
         /\ n * Width = (n - 1) * Width + Width
         /\ n * Width <= Len(vec.raw)
<1> DEFINE i    == n - 1
           rest == vec.len - n
<1>1. Width \in Nat /\ vec.len \in Nat /\ Len(vec.raw) = vec.len * Width
  BY VecType
<1>2. i \in Nat /\ rest \in Nat /\ n = i + 1 /\ vec.len = i + 1 + rest
  BY <1>1
<1> HIDE DEF i, rest
<1>3. /\ i * Width \in Nat /\ rest * Width \in Nat
      /\ (i + 1) * Width = i * Width + Width
      /\ (i + 1 + rest) * Width = i * Width + Width + rest * Width
  BY <1>1, <1>2
<1>4. n * Width = i * Width + Width /\ n * Width <= Len(vec.raw) /\ n * Width \in Nat
  BY <1>1, <1>2, <1>3
<1> QED
  BY <1>3, <1>4 DEF i

LEMMA InPlaceResult ==
  ASSUME Inv, NEW n \in 1 .. vec.len
  PROVE  /\ InPlace(n).ok = Element(n).ok /\ InPlace(n).val = Element(n).val
         /\ InPlace(n).ok => InPlace(n).pos = n * Width
<1> DEFINE a  == (n - 1) * Width
           e  == n * Width
           bs == SubSeq(vec.raw, a + 1, e)
           r  == At(SliceReader(vec.raw), a)
           s  == SliceReader(bs)
           z  == SliceReader(vec.raw)
<1>1. a \in Nat /\ e \in Nat /\ e = a + Width /\ e <= Len(vec.raw)
  BY NthPlace
<1>2. vec.ty \in PrimitiveTy /\ vec.raw \in Seq(Byte) /\ Len(vec.raw) \in Nat /\ Width \in Nat
  BY VecType
<1>3. Placed(r) /\ r.pos = a /\ r.buf = vec.raw
  <2>1. Placed(z) /\ z.pos = 0 /\ z.buf = vec.raw
    BY <1>2 DEF Placed, Reader, SliceReader
  <2> HIDE DEF z, a
  <2>2. a \in z.pos .. Len(z.buf)
    BY <1>1, <1>2, <2>1
  <2>3. Placed(At(z, a)) /\ At(z, a).pos = a /\ At(z, a).buf = z.buf
    BY <2>1, <2>2, AtResult
  <2> QED
    BY <2>1, <2>3 DEF z
<1>4. bs \in Seq(Byte) /\ Len(bs) = Width
  <2> HIDE DEF a, e
  <2>1. a <= e /\ e - a = Width
    BY <1>1, <1>2
  <2> QED
    BY <1>1, <1>2, <2>1, SliceBytes
<1>5. Element(n) = ReadPrimitive(vec.ty, s) /\ InPlace(n) = ReadPrimitive(vec.ty, r)
  BY DEF Element, InPlace
<1> HIDE DEF a, e, bs, r
<1>6. Placed(s) /\ s.pos = 0 /\ s.buf = bs
  BY <1>4 DEF Placed, Reader, SliceReader
<1> HIDE DEF s
<1>7. Bytes(s, s.pos + Width) = bs
  <2> DEFINE q == SubSeq(bs, 0 + 1, Width)
  <2>1. q \in Seq(Byte) /\ Len(q) = Width - 0 /\ \A k \in 1 .. Width - 0 : q[k] = bs[0 + k]
    BY <1>2, <1>4, SliceBytes
  <2>2. Bytes(s, s.pos + Width) = q
    BY <1>2, <1>6 DEF Bytes
  <2> HIDE DEF q
  <2>3. ASSUME NEW k \in 1 .. Width PROVE q[k] = bs[k]
    <3>1. k \in 1 .. Width - 0 /\ 0 + k = k
      BY <1>2
    <3> QED
      BY <2>1, <3>1
  <2>4. Len(q) = Width
    BY <1>2, <2>1
  <2>5. q = bs
    BY <1>4, <2>1, <2>3, <2>4, SeqEqual
  <2> QED
    BY <2>2, <2>5
<1>8. Bytes(r, r.pos + Width) = bs
  BY <1>1, <1>3 DEF Bytes, bs
<1>9. /\ ReadPrimitive(vec.ty, r).ok = ReadPrimitive(vec.ty, s).ok
      /\ ReadPrimitive(vec.ty, r).val = ReadPrimitive(vec.ty, s).val
  <2>1. r.pos + Width <= Len(r.buf) /\ s.pos + Width <= Len(s.buf)
    BY <1>1, <1>2, <1>3, <1>4, <1>6
  <2> QED
    BY <1>2, <1>3, <1>6, <1>7, <1>8, <2>1, ReadByBytes DEF Width
<1>10. ReadPrimitive(vec.ty, r).ok => ReadPrimitive(vec.ty, r).pos = e
  BY <1>1, <1>2, <1>3, ReadPrimitiveWidth DEF Width
<1> QED
  BY <1>5, <1>9, <1>10 DEF e

-----------------------------------------------------------------------------
(***************************************************************************)
(* The reads of into_dyn_vec.                                              *)
(***************************************************************************)
Malformed == {n \in 1 .. vec.len : ~Element(n).ok}

Values(n) == [k \in 1 .. n |-> Element(k).val]

\* f is the first malformed element, or the place after the last.
IsFirst(f) ==
  /\ f \in 1 .. vec.len + 1
  /\ \A n \in 1 .. vec.len : n < f => Element(n).ok
  /\ f <= vec.len => ~Element(f).ok

LEMMA FirstExists ==
  ASSUME Inv
  PROVE  \E f : IsFirst(f)
<1>1. vec.len \in Nat
  BY VecType
<1>2. CASE Malformed = {}
  <2>1. \A n \in 1 .. vec.len : Element(n).ok
    BY <1>2 DEF Malformed
  <2>2. IsFirst(vec.len + 1)
    BY <1>1, <2>1 DEF IsFirst
  <2> QED
    BY <2>2
<1>3. CASE Malformed # {}
  <2>1. Malformed \subseteq Nat
    BY DEF Malformed
  <2>2. PICK f \in Malformed : \A n \in Malformed : f <= n
    BY <1>3, <2>1, LeastNatural
  <2>3. ASSUME NEW n \in 1 .. vec.len, n < f PROVE Element(n).ok
    <3>1. n \notin Malformed
      BY <1>1, <2>1, <2>2, <2>3
    <3> QED
      BY <3>1 DEF Malformed
  <2>4. IsFirst(f)
    BY <1>1, <2>2, <2>3 DEF IsFirst, Malformed
  <2> QED
    BY <2>4
<1> QED
  BY <1>2, <1>3

\* After n elements: their values, or what the first malformed one failed with.
After(n, f) == IF n < f THEN Ok(Values(n), n * Width) ELSE InPlace(f)

LEMMA AfterStep ==
  ASSUME Inv, NEW f, IsFirst(f), NEW n \in 1 .. vec.len
  PROVE  After(n, f) = ReadElement(vec, After(n - 1, f))
<1> DEFINE prev == After(n - 1, f)
           o    == ReadPrimitive(vec.ty, At(SliceReader(vec.raw), prev.pos))
<1>1. ReadElement(vec, prev) = IF ~prev.ok THEN prev
                               ELSE IF ~o.ok THEN o
                               ELSE Ok(Append(prev.val, o.val), o.pos)
  BY DEF ReadElement
<1>2. vec.len \in Nat /\ f \in 1 .. vec.len + 1
  BY VecType DEF IsFirst
<1>3. CASE n <= f
  <2>1. prev = Ok(Values(n - 1), (n - 1) * Width)
    BY <1>2, <1>3 DEF After
  <2> HIDE DEF prev
  <2>2. prev.ok /\ prev.val = Values(n - 1) /\ prev.pos = (n - 1) * Width
    BY <2>1 DEF Ok
  <2>3. o = InPlace(n)
    BY <2>2 DEF InPlace
  <2> HIDE DEF o
  <2>4. CASE n < f
    <3>1. o.ok /\ o.val = Element(n).val /\ o.pos = n * Width
      BY <2>3, <2>4, InPlaceResult DEF IsFirst
    <3>2. Append(Values(n - 1), Element(n).val) = Values(n)
      <4> DEFINE s == Values(n - 1)
                 x == Element(n).val
                 t == Append(s, x)
                 S == {Element(k).val : k \in 1 .. n}
      <4>1. s \in Seq(S) /\ Len(s) = n - 1 /\ \A k \in 1 .. n - 1 : s[k] = Element(k).val
        <5>1. s \in [1 .. n - 1 -> S]
          BY DEF Values
        <5>2. n - 1 \in Nat
          OBVIOUS
        <5> QED
          BY <5>1, <5>2 DEF Values
      <4>2. x \in S
        OBVIOUS
      <4>3. Values(n) \in Seq(S) /\ Len(Values(n)) = n /\ \A k \in 1 .. n : Values(n)[k] = Element(k).val
        <5>1. Values(n) \in [1 .. n -> S]
          BY DEF Values
        <5>2. n \in Nat
          OBVIOUS
        <5> QED
          BY <5>1, <5>2 DEF Values
      <4> HIDE DEF s, x, S
      <4>4. /\ t \in Seq(S) /\ Len(t) = Len(s) + 1
            /\ \A k \in 1 .. Len(s) : t[k] = s[k]
            /\ t[Len(s) + 1] = x
        BY <4>1, <4>2, AppendProperties
      <4> HIDE DEF t
      <4>5. Len(t) = n /\ t[n] = x
        BY <4>1, <4>4
      <4>6. ASSUME NEW k \in 1 .. n PROVE t[k] = Values(n)[k]
        <5>1. CASE k = n
          BY <4>3, <4>5, <5>1 DEF x
        <5>2. CASE k # n
          <6>1. k \in 1 .. n - 1
            BY <5>2
          <6> QED
            BY <4>1, <4>3, <4>4, <6>1
        <5> QED
          BY <5>1, <5>2
      <4>7. t = Values(n)
        BY <4>3, <4>4, <4>5, <4>6, SeqEqual
      <4> QED
        BY <4>7 DEF t, s, x
    <3>3. ReadElement(vec, prev) = Ok(Values(n), n * Width)
      BY <1>1, <2>2, <3>1, <3>2
    <3> QED
      BY <2>4, <3>3 DEF After, prev
  <2>5. CASE n = f
    <3>1. ~o.ok
      BY <2>3, <2>5, InPlaceResult DEF IsFirst
    <3>2. ReadElement(vec, prev) = InPlace(f)
      BY <1>1, <2>2, <2>3, <2>5, <3>1
    <3>3. After(n, f) = InPlace(f)
      BY <1>2, <2>5 DEF After
    <3> QED
      BY <3>2, <3>3 DEF prev
  <2> QED
    BY <1>2, <1>3, <2>4, <2>5
<1>4. CASE n > f
  <2>1. f \in 1 .. vec.len /\ ~(n < f) /\ ~(n - 1 < f)
    BY <1>2, <1>4
  <2>2. prev = InPlace(f) /\ After(n, f) = InPlace(f)
    BY <2>1 DEF After
  <2>3. ~InPlace(f).ok
    BY <2>1, InPlaceResult DEF IsFirst
  <2> HIDE DEF prev, o
  <2>4. ReadElement(vec, prev) = prev
    BY <1>1, <2>2, <2>3
  <2> QED
    BY <2>2, <2>4 DEF prev
<1> QED
  BY <1>2, <1>3, <1>4

LEMMA ReadElementsResult ==
  ASSUME Inv, NEW f, IsFirst(f)
  PROVE  ReadElements(vec) = After(vec.len, f)
<1> DEFINE m == vec.len
           Steps(g) == g = [n \in 0 .. m |-> IF n = 0 THEN Ok(<<>>, 0)
                                             ELSE ReadElement(vec, g[n - 1])]
           after == CHOOSE g : Steps(g)
           h == [n \in 0 .. m |-> After(n, f)]
<1>1. ReadElements(vec) = after[m]
  BY DEF ReadElements
<1>2. m \in Nat
  BY VecType
<1>3. After(0, f) = Ok(<<>>, 0)
  <2>1. 0 < f /\ 0 * Width = 0
    BY <1>2, VecType DEF IsFirst
  <2>2. Values(0) = <<>>
    BY DEF Values
  <2> QED
    BY <2>1, <2>2 DEF After
<1>4. \A n \in 1 .. m : After(n, f) = ReadElement(vec, After(n - 1, f))
  BY AfterStep
<1> HIDE DEF m
<1>5. Steps(h)
  <2>1. ASSUME NEW n \in 0 .. m
        PROVE  h[n] = IF n = 0 THEN Ok(<<>>, 0) ELSE ReadElement(vec, h[n - 1])
    <3>1. CASE n = 0
      BY <1>2, <1>3, <3>1
    <3>2. CASE n # 0
      <4>1. n \in 1 .. m /\ n - 1 \in 0 .. m
        BY <1>2, <3>2
      <4>2. h[n] = After(n, f) /\ h[n - 1] = After(n - 1, f)
        BY <4>1
      <4> HIDE DEF h
      <4> QED
        BY <1>4, <3>2, <4>1, <4>2
    <3> QED
      BY <3>1, <3>2
  <2>2. h = [n \in 0 .. m |-> h[n]]
    OBVIOUS
  <2> HIDE DEF h
  <2> QED
    BY <2>1, <2>2
<1>6. Steps(after)
  <2> HIDE DEF Steps, h
  <2> QED
    BY <1>5
<1> HIDE DEF after, h
<1>7. /\ after[0] = Ok(<<>>, 0)
      /\ \A n \in 1 .. m : after[n] = ReadElement(vec, after[n - 1])
  <2>1. \A n \in 0 .. m : after[n] = IF n = 0 THEN Ok(<<>>, 0) ELSE ReadElement(vec, after[n - 1])
    BY <1>6
  <2>2. 0 \in 0 .. m
    BY <1>2
  <2>3. \A n \in 1 .. m : n \in 0 .. m /\ n # 0
    BY <1>2
  <2> QED
    BY <2>1, <2>2, <2>3
<1> DEFINE S == {n \in 0 .. m : after[n] = After(n, f)}
<1>8. 0 \in S
  BY <1>2, <1>3, <1>7
<1>9. ASSUME NEW n \in 0 .. m - 1, n \in S PROVE n + 1 \in S
  <2>1. n + 1 \in 1 .. m /\ n + 1 \in 0 .. m /\ (n + 1) - 1 = n
    BY <1>2
  <2>2. after[n + 1] = ReadElement(vec, after[n])
    BY <1>7, <2>1
  <2>3. After(n + 1, f) = ReadElement(vec, After(n, f))
    BY <1>4, <2>1
  <2> QED
    BY <1>9, <2>1, <2>2, <2>3
<1>10. 0 .. m \subseteq S
  <2> HIDE DEF S
  <2> QED
    BY <1>2, <1>8, <1>9, UpTo
<1>11. m \in S
  BY <1>2, <1>10
<1> QED
  BY <1>1, <1>11 DEF m

-----------------------------------------------------------------------------
(***************************************************************************)
(* What into_dyn_vec returns: all values or the first error, unless it is  *)
(* refused before anything is read.                                        *)
(***************************************************************************)
Result(o) == [ok |-> o.ok, val |-> o.val]

Refused == [ok |-> FALSE, val |-> "PreallocationSizeLimit"]

LEMMA ElementsType ==
  ASSUME Inv, NEW n \in 1 .. vec.len
  PROVE  /\ Element(n).ok \in BOOLEAN
         /\ IF Element(n).ok THEN Element(n).val \in Scalar ELSE Element(n).val \in ReadError
         /\ Elements[n] = Result(Element(n)) /\ Elements[n].ok = Element(n).ok
         /\ Elements[n].val = Element(n).val
<1> DEFINE a == (n - 1) * Width
           e == n * Width
           bs == SubSeq(vec.raw, a + 1, e)
           s == SliceReader(bs)
<1>1. a \in Nat /\ e \in Nat /\ e = a + Width /\ e <= Len(vec.raw)
  BY NthPlace
<1>2. vec.ty \in PrimitiveTy /\ vec.raw \in Seq(Byte) /\ Width \in Nat
  BY VecType
<1>3. Element(n) = ReadPrimitive(vec.ty, s)
  BY DEF Element
<1> HIDE DEF a, e
<1>4. bs \in Seq(Byte)
  <2>1. a <= e
    BY <1>1, <1>2
  <2> QED
    BY <1>1, <1>2, <2>1, SliceBytes
<1> HIDE DEF bs
<1>5. Placed(s)
  BY <1>4 DEF Placed, Reader, SliceReader
<1>6. Outcome(Element(n), s, Scalar)
  BY <1>2, <1>3, <1>5, ReadPrimitiveResult
<1>7. Elements[n] = Result(Element(n))
  BY DEF Elements, Result
<1> QED
  BY <1>6, <1>7 DEF Outcome, Result

LEMMA DynVecResult ==
  ASSUME Inv
  PROVE  /\ Result(DynVec(vec)) \in {Abstract!Collected, Refused}
         /\ DynVec(vec).ok => Len(DynVec(vec).val) * PrimitiveValueSize <= PreallocLimit
<1>1. vec.len \in Nat /\ DOMAIN Elements = 1 .. vec.len
  BY VecType DEF Elements
<1>2. CASE ~PreallocCheck(vec.len, PrimitiveValueSize)
  <2>1. DynVec(vec) = Err("PreallocationSizeLimit", SliceReader(vec.raw), {0})
    BY <1>2 DEF DynVec
  <2>2. DynVec(vec).ok = FALSE /\ DynVec(vec).val = "PreallocationSizeLimit"
    BY <2>1 DEF Err
  <2>3. Result(DynVec(vec)) = Refused
    BY <2>2 DEF Result, Refused
  <2> QED
    BY <2>2, <2>3
<1>3. CASE PreallocCheck(vec.len, PrimitiveValueSize)
  <2>1. PICK f : IsFirst(f)
    BY FirstExists
  <2>2. DynVec(vec) = After(vec.len, f)
    BY <1>3, <2>1, ReadElementsResult DEF DynVec
  <2> DEFINE failed == {n \in DOMAIN Elements : ~Elements[n].ok}
  <2>3. failed = {n \in 1 .. vec.len : ~Element(n).ok}
    BY <1>1, ElementsType
  <2>4. Abstract!Collected =
          IF failed = {} THEN [ok |-> TRUE, val |-> [n \in DOMAIN Elements |-> Elements[n].val]]
          ELSE Elements[CHOOSE n \in failed : \A m \in failed : n <= m]
    BY DEF Abstract!Collected
  <2> HIDE DEF failed
  <2>5. CASE vec.len < f
    <3>1. DynVec(vec) = Ok(Values(vec.len), vec.len * Width)
      BY <2>2, <2>5 DEF After
    <3>2. DynVec(vec).ok = TRUE /\ DynVec(vec).val = Values(vec.len)
      BY <3>1 DEF Ok
    <3>3. failed = {}
      BY <1>1, <2>1, <2>3, <2>5 DEF IsFirst
    <3>4. [n \in DOMAIN Elements |-> Elements[n].val] = Values(vec.len)
      BY <1>1, ElementsType DEF Values
    <3>5. Result(DynVec(vec)) = Abstract!Collected
      BY <2>4, <3>2, <3>3, <3>4 DEF Result
    <3>6. Len(Values(vec.len)) = vec.len
      BY <1>1 DEF Values
    <3>7. Len(DynVec(vec).val) * PrimitiveValueSize <= PreallocLimit
      BY <1>3, <3>2, <3>6 DEF PreallocCheck
    <3> QED
      BY <3>5, <3>7
  <2>6. CASE ~(vec.len < f)
    <3>1. f \in 1 .. vec.len /\ DynVec(vec) = InPlace(f)
      BY <1>1, <2>1, <2>2, <2>6 DEF After, IsFirst
    <3>2. ~Element(f).ok /\ Element(f).ok \in BOOLEAN
      BY <2>1, <3>1, ElementsType DEF IsFirst
    <3>3. Result(DynVec(vec)) = Elements[f] /\ ~DynVec(vec).ok
      BY <3>1, <3>2, InPlaceResult, ElementsType DEF Result
    <3>4. f \in failed
      BY <2>3, <3>1, <3>2
    <3>5. \A m \in failed : f <= m
      <4> TAKE m \in failed
      <4>1. m \in 1 .. vec.len /\ ~Element(m).ok
        BY <2>3
      <4> QED
        BY <2>1, <3>1, <4>1 DEF IsFirst
    <3>6. (CHOOSE n \in failed : \A m \in failed : n <= m) = f
      <4> DEFINE c == CHOOSE n \in failed : \A m \in failed : n <= m
      <4>1. c \in failed /\ \A m \in failed : c <= m
        BY <3>4, <3>5
      <4> HIDE DEF c
      <4>2. c <= f /\ f <= c /\ c \in Nat /\ f \in Nat
        BY <2>3, <3>1, <3>4, <3>5, <4>1
      <4>3. c = f
        BY <4>2
      <4> QED
        BY <4>3 DEF c
    <3>7. Result(DynVec(vec)) = Abstract!Collected
      BY <2>4, <3>3, <3>4, <3>6
    <3> QED
      BY <3>3, <3>7
  <2> QED
    BY <2>5, <2>6
<1> QED
  BY <1>2, <1>3

-----------------------------------------------------------------------------
\* A conversion to a vector of PrimitiveValue, many times the payload, never makes
\* more of them than the limit allows (value.rs, LazyVec::into_dyn_vec).
THEOREM ConversionBounded == Spec => []DynBounded
<1>1. Init => DynBounded
  BY DEF Init, DynBounded
<1>2. Inv /\ DynBounded /\ [Next]_vars => DynBounded'
  <2> SUFFICES ASSUME Inv, DynBounded, [Next]_vars PROVE DynBounded'
    OBVIOUS
  <2>1. ASSUME NEW clone, IntoDynVec(clone) PROVE DynBounded'
    <3>1. dyn' = <<Result(DynVec(vec))>>
      BY <2>1 DEF IntoDynVec, Result
    <3> DEFINE o == DynVec(vec)
    <3>2. o.ok => Len(o.val) * PrimitiveValueSize <= PreallocLimit
      BY DynVecResult
    <3> HIDE DEF o
    <3>3. DOMAIN dyn' = {1} /\ dyn'[1].ok = o.ok /\ dyn'[1].val = o.val
      BY <3>1 DEF Result, o
    <3> QED
      BY <3>2, <3>3 DEF DynBounded
  <2>2. CASE dyn' = dyn
    BY <2>2 DEF DynBounded
  <2> QED
    BY <2>1, <2>2 DEF Next, TryIterAs, TryIntoIterAs, CloneIter, DropIter, IterNext, vars
<1> QED
  BY <1>1, <1>2, Invariance, PTL DEF Spec

-----------------------------------------------------------------------------
(***************************************************************************)
(* The refinement.  Vector sees of an iterator what it has yielded and how *)
(* much it has left; each step of LazyVec is a step of Vector on those.    *)
(***************************************************************************)
View(it) == [yielded |-> it.out, left |-> SizeHint(it)]

ViewsOf(s) == [i \in DOMAIN s |-> View(s[i])]

Seen == {View(it) : it \in SoundIter}

Without(s, i) == SubSeq(s, 1, i - 1) \o SubSeq(s, i + 1, Len(s))

LEMMA SeqEqualTo ==
  ASSUME NEW S, NEW s \in Seq(S), NEW t \in Seq(S), Len(s) = Len(t),
         \A k \in 1 .. Len(s) : s[k] = t[k]
  PROVE  s = t
BY SeqEqual

\* A sequence without its i-th element.
LEMMA WithoutResult ==
  ASSUME NEW S, NEW s \in Seq(S), NEW i \in 1 .. Len(s)
  PROVE  /\ Without(s, i) \in Seq(S) /\ Len(Without(s, i)) = Len(s) - 1
         /\ \A k \in 1 .. Len(s) - 1 : Without(s, i)[k] = IF k < i THEN s[k] ELSE s[k + 1]
<1> DEFINE before == SubSeq(s, 1, i - 1)
           after  == SubSeq(s, i + 1, Len(s))
<1>1. Len(s) \in Nat /\ i \in Nat /\ \A k \in 1 .. Len(s) : s[k] \in S
  BY ElementOfSeq
<1>2. before \in Seq(S) /\ Len(before) = i - 1 /\ \A k \in 1 .. i - 1 : before[k] = s[k]
  <2>1. /\ before \in Seq(S)
        /\ Len(before) = IF 1 <= i - 1 THEN (i - 1) - 1 + 1 ELSE 0
        /\ \A k \in 1 .. (i - 1) - 1 + 1 : before[k] = s[1 + k - 1]
    BY <1>1, SubSeqProperties
  <2> HIDE DEF before
  <2>2. ASSUME NEW k \in 1 .. i - 1 PROVE before[k] = s[k]
    <3>1. k \in 1 .. (i - 1) - 1 + 1 /\ 1 + k - 1 = k
      BY <1>1
    <3> QED
      BY <2>1, <3>1
  <2> QED
    BY <1>1, <2>1, <2>2
<1>3. /\ after \in Seq(S) /\ Len(after) = Len(s) - i
      /\ \A k \in 1 .. Len(s) - i : after[k] = s[i + k]
  <2>1. /\ after \in Seq(S)
        /\ Len(after) = IF i + 1 <= Len(s) THEN Len(s) - (i + 1) + 1 ELSE 0
        /\ \A k \in 1 .. Len(s) - (i + 1) + 1 : after[k] = s[(i + 1) + k - 1]
    BY <1>1, SubSeqProperties
  <2> HIDE DEF after
  <2>2. ASSUME NEW k \in 1 .. Len(s) - i PROVE after[k] = s[i + k]
    <3>1. k \in 1 .. Len(s) - (i + 1) + 1 /\ (i + 1) + k - 1 = i + k
      BY <1>1
    <3> QED
      BY <2>1, <3>1
  <2> QED
    BY <1>1, <2>1, <2>2
<1> DEFINE both == before \o after
<1>4. Without(s, i) = both
  BY DEF Without
<1> HIDE DEF before, after
<1>5. /\ both \in Seq(S) /\ Len(both) = Len(before) + Len(after)
      /\ \A k \in 1 .. Len(before) + Len(after) :
           both[k] = IF k <= Len(before) THEN before[k] ELSE after[k - Len(before)]
  BY <1>2, <1>3, ConcatProperties
<1> HIDE DEF both
<1>6. Len(before) + Len(after) = Len(s) - 1
  BY <1>1, <1>2, <1>3
<1>7. ASSUME NEW k \in 1 .. Len(s) - 1 PROVE both[k] = IF k < i THEN s[k] ELSE s[k + 1]
  <2>1. CASE k < i
    <3>1. k <= Len(before) /\ k \in 1 .. i - 1
      BY <1>1, <1>2, <2>1
    <3> QED
      BY <1>2, <1>5, <1>6, <2>1, <3>1
  <2>2. CASE ~(k < i)
    <3>1. ~(k <= Len(before)) /\ k - (i - 1) \in 1 .. Len(s) - i /\ i + (k - (i - 1)) = k + 1
      BY <1>1, <1>2, <2>2
    <3>2. both[k] = after[k - (i - 1)]
      BY <1>2, <1>5, <1>6, <3>1
    <3>3. after[k - (i - 1)] = s[i + (k - (i - 1))]
      BY <1>3, <3>1
    <3> QED
      BY <2>2, <3>1, <3>2, <3>3
  <2> QED
    BY <2>1, <2>2
<1> QED
  BY <1>4, <1>5, <1>6, <1>7

LEMMA ViewsResult ==
  ASSUME NEW s \in Seq(SoundIter)
  PROVE  /\ ViewsOf(s) \in Seq(Seen) /\ Len(ViewsOf(s)) = Len(s)
         /\ \A k \in 1 .. Len(s) : ViewsOf(s)[k] = View(s[k])
<1>1. Len(s) \in Nat /\ DOMAIN s = 1 .. Len(s) /\ \A k \in 1 .. Len(s) : s[k] \in SoundIter
  BY ElementOfSeq
<1>2. ViewsOf(s) = [k \in 1 .. Len(s) |-> View(s[k])]
  BY <1>1 DEF ViewsOf
<1>3. \A k \in 1 .. Len(s) : View(s[k]) \in Seen
  BY <1>1 DEF Seen
<1>4. ViewsOf(s) \in [1 .. Len(s) -> Seen]
  BY <1>2, <1>3
<1> QED
  BY <1>1, <1>2, <1>4

LEMMA ViewsAppend ==
  ASSUME NEW s \in Seq(SoundIter), NEW it \in SoundIter
  PROVE  ViewsOf(Append(s, it)) = Append(ViewsOf(s), View(it))
<1> DEFINE t == Append(s, it)
           v == View(it)
           a == ViewsOf(t)
           b == ViewsOf(s)
           c == Append(b, v)
<1>1. /\ t \in Seq(SoundIter) /\ Len(t) = Len(s) + 1
      /\ \A k \in 1 .. Len(s) : t[k] = s[k]
      /\ t[Len(s) + 1] = it
  BY AppendProperties
<1>2. v \in Seen
  BY DEF Seen
<1> HIDE DEF t
<1>3. a \in Seq(Seen) /\ Len(a) = Len(t) /\ \A k \in 1 .. Len(t) : a[k] = View(t[k])
  BY <1>1, ViewsResult
<1>4. b \in Seq(Seen) /\ Len(b) = Len(s) /\ \A k \in 1 .. Len(s) : b[k] = View(s[k])
  BY ViewsResult
<1> HIDE DEF a, b
<1>5. /\ c \in Seq(Seen) /\ Len(c) = Len(b) + 1
      /\ \A k \in 1 .. Len(b) : c[k] = b[k]
      /\ c[Len(b) + 1] = v
  <2> HIDE DEF v
  <2> QED
    BY <1>2, <1>4, AppendProperties
<1> HIDE DEF c
<1>6. Len(s) \in Nat /\ Len(a) = Len(s) + 1 /\ Len(c) = Len(s) + 1
  BY <1>1, <1>3, <1>4, <1>5
<1>7. ASSUME NEW k \in 1 .. Len(s) + 1 PROVE a[k] = c[k]
  <2>1. CASE k = Len(s) + 1
    BY <1>1, <1>3, <1>4, <1>5, <1>6, <2>1 DEF v
  <2>2. CASE k # Len(s) + 1
    <3>1. k \in 1 .. Len(s) /\ k \in 1 .. Len(t) /\ k \in 1 .. Len(b)
      BY <1>1, <1>4, <1>6, <2>2
    <3>2. a[k] = View(t[k]) /\ t[k] = s[k]
      BY <1>1, <1>3, <3>1
    <3>3. c[k] = b[k] /\ b[k] = View(s[k])
      BY <1>4, <1>5, <3>1
    <3> QED
      BY <3>2, <3>3
  <2> QED
    BY <2>1, <2>2
<1>8. a = c
  BY <1>3, <1>5, <1>6, <1>7, SeqEqualTo
<1> QED
  BY <1>8 DEF a, b, c, t, v

LEMMA ViewsWithout ==
  ASSUME NEW s \in Seq(SoundIter), NEW i \in 1 .. Len(s)
  PROVE  ViewsOf(Without(s, i)) = Without(ViewsOf(s), i)
<1> DEFINE t == Without(s, i)
           a == ViewsOf(t)
           b == ViewsOf(s)
           c == Without(b, i)
<1>1. /\ t \in Seq(SoundIter) /\ Len(t) = Len(s) - 1
      /\ \A k \in 1 .. Len(s) - 1 : t[k] = IF k < i THEN s[k] ELSE s[k + 1]
  BY WithoutResult
<1> HIDE DEF t
<1>2. a \in Seq(Seen) /\ Len(a) = Len(t) /\ \A k \in 1 .. Len(t) : a[k] = View(t[k])
  BY <1>1, ViewsResult
<1>3. b \in Seq(Seen) /\ Len(b) = Len(s) /\ \A k \in 1 .. Len(s) : b[k] = View(s[k])
  BY ViewsResult
<1> HIDE DEF a, b
<1>4. /\ c \in Seq(Seen) /\ Len(c) = Len(b) - 1
      /\ \A k \in 1 .. Len(b) - 1 : c[k] = IF k < i THEN b[k] ELSE b[k + 1]
  BY <1>3, WithoutResult
<1> HIDE DEF c
<1>5. Len(s) \in Nat /\ Len(a) = Len(s) - 1 /\ Len(c) = Len(s) - 1
  BY <1>1, <1>2, <1>3, <1>4
<1>6. ASSUME NEW k \in 1 .. Len(s) - 1 PROVE a[k] = c[k]
  <2>1. k \in 1 .. Len(s) /\ k + 1 \in 1 .. Len(s) /\ k \in 1 .. Len(t) /\ k \in 1 .. Len(b) - 1
    BY <1>1, <1>3, <1>5
  <2>2. a[k] = View(t[k])
    BY <1>2, <2>1
  <2>3. CASE k < i
    BY <1>1, <1>3, <1>4, <2>1, <2>2, <2>3
  <2>4. CASE ~(k < i)
    BY <1>1, <1>3, <1>4, <2>1, <2>2, <2>4
  <2> QED
    BY <2>3, <2>4
<1>7. a = c
  BY <1>2, <1>4, <1>5, <1>6, SeqEqualTo
<1> QED
  BY <1>7 DEF a, b, c, t

LEMMA ViewsExcept ==
  ASSUME NEW s \in Seq(SoundIter), NEW i \in 1 .. Len(s), NEW it \in SoundIter
  PROVE  ViewsOf([s EXCEPT ![i] = it]) = [ViewsOf(s) EXCEPT ![i] = View(it)]
<1>1. DOMAIN s = 1 .. Len(s)
  OBVIOUS
<1>2. ViewsOf([s EXCEPT ![i] = it]) =
        [k \in 1 .. Len(s) |-> IF k = i THEN View(it) ELSE View(s[k])]
  BY <1>1 DEF ViewsOf
<1>3. ViewsOf(s) = [k \in 1 .. Len(s) |-> View(s[k])]
  BY <1>1 DEF ViewsOf
<1> QED
  BY <1>2, <1>3

\* Vector's state after a step that leaves the vector as it is.
LEMMA Mapped ==
  ASSUME Inv, vec' = vec
  PROVE  /\ Elements' = Elements /\ Views = ViewsOf(iters) /\ Views' = ViewsOf(iters')
         /\ iters \in Seq(SoundIter) /\ DOMAIN iters = 1 .. Len(iters)
         /\ DOMAIN Views = 1 .. Len(iters) /\ Len(Views) = Len(iters)
         /\ Len(Elements) = vec.len
<1>1. Elements' = Elements
  BY DEF Elements, Element, Width
<1>2. Views = ViewsOf(iters)
  BY DEF Views, ViewsOf, View
<1>3. Views' = ViewsOf(iters')
  BY DEF Views, ViewsOf, View, SizeHint
<1>4. iters \in Seq(SoundIter)
  BY DEF Inv
<1>5. DOMAIN iters = 1 .. Len(iters)
  BY <1>4
<1>6. DOMAIN Views = 1 .. Len(iters) /\ Len(Views) = Len(iters)
  <2>1. ViewsOf(iters) \in Seq(Seen) /\ Len(ViewsOf(iters)) = Len(iters)
    BY <1>4, ViewsResult
  <2> QED
    BY <1>2, <2>1
<1>7. Len(Elements) = vec.len
  BY VecType DEF Elements
<1> QED
  BY <1>1, <1>2, <1>3, <1>4, <1>5, <1>6, <1>7

LEMMA InitImplements ==
  ASSUME Inv, Init
  PROVE  Abstract!Init
<1> DEFINE outcome == [ok : {TRUE}, val : Value] \cup [ok : {FALSE}, val : ReadError]
<1>1. ASSUME NEW n \in 1 .. vec.len PROVE Elements[n] \in outcome
  <2>1. CASE Element(n).ok
    <3>1. Element(n).ok = TRUE /\ Element(n).val \in Value
      BY <2>1, ElementsType DEF Scalar, Value
    <3>2. Result(Element(n)) \in [ok : {TRUE}, val : Value]
      BY <3>1 DEF Result
    <3> QED
      BY <3>2, ElementsType
  <2>2. CASE ~Element(n).ok
    <3>1. Element(n).ok = FALSE /\ Element(n).val \in ReadError
      BY <2>2, ElementsType
    <3>2. Result(Element(n)) \in [ok : {FALSE}, val : ReadError]
      BY <3>1 DEF Result
    <3> QED
      BY <3>2, ElementsType
  <2> QED
    BY <2>1, <2>2
<1>2. Elements \in Seq(outcome)
  <2>1. DOMAIN Elements = 1 .. vec.len /\ Elements = [n \in 1 .. vec.len |-> Elements[n]]
    BY DEF Elements
  <2>2. vec.len \in Nat
    BY VecType
  <2> HIDE DEF outcome
  <2>3. Elements \in [1 .. vec.len -> outcome]
    BY <1>1, <2>1
  <2> QED
    BY <2>2, <2>3
<1>3. held = TRUE /\ iters = <<>> /\ dyn = <<>>
  BY DEF Init
<1>4. Views = <<>>
  BY <1>3 DEF Views
<1> QED
  BY <1>2, <1>3, <1>4 DEF Abstract!Init

LEMMA IterateStep ==
  ASSUME Inv, NEW as \in AsTypes, NEW owning \in BOOLEAN, AddIter(as, owning),
         vec' = vec, dyn' = dyn, held, held' \in BOOLEAN
  PROVE  Abstract!Iterate
<1> DEFINE it == [as |-> as, owning |-> owning, index |-> 0, out |-> <<>>]
<1>1. /\ Elements' = Elements /\ Views = ViewsOf(iters) /\ Views' = ViewsOf(iters')
      /\ iters \in Seq(SoundIter) /\ Len(Elements) = vec.len
  BY Mapped
<1>2. CASE ValidateElementType(as, vec.ty)
  <2>1. iters' = Append(iters, it)
    BY <1>2 DEF AddIter
  <2>2. it \in SoundIter
    <3>1. as.ty = vec.ty /\ as.width = Width
      BY <1>2 DEF ValidateElementType, Width
    <3>2. it \in Iter /\ it.as = as /\ it.index = 0 /\ it.out = <<>>
      <4>1. <<>> \in Seq(Out) /\ 0 \in Nat
        OBVIOUS
      <4> QED
        BY <4>1 DEF Iter
    <3> HIDE DEF it
    <3>3. 1 .. it.index = {} /\ Len(it.out) = it.index /\ it.index <= vec.len
      BY <3>2, VecType
    <3> QED
      BY <3>1, <3>2, <3>3 DEF SoundIter, Sound
  <2>3. View(it) = [yielded |-> <<>>, left |-> Len(Elements)]
    <3>1. vec.len - 0 = Len(Elements)
      BY <1>1, VecType
    <3> QED
      BY <3>1 DEF View, SizeHint
  <2> HIDE DEF it
  <2>4. Views' = Append(Views, View(it))
    BY <1>1, <2>1, <2>2, ViewsAppend
  <2> QED
    BY <1>1, <2>3, <2>4 DEF Abstract!Iterate
<1>3. CASE ~ValidateElementType(as, vec.ty)
  <2>1. iters' = iters
    BY <1>3 DEF AddIter
  <2> QED
    BY <1>1, <2>1 DEF Abstract!Iterate
<1> QED
  BY <1>2, <1>3

LEMMA CopyStep ==
  ASSUME Inv, NEW i \in DOMAIN iters, CloneIter(i)
  PROVE  i \in DOMAIN Views /\ Abstract!Copy(i)
<1>1. iters' = Append(iters, iters[i]) /\ vec' = vec /\ held' = held /\ dyn' = dyn
  BY DEF CloneIter
<1>2. /\ Elements' = Elements /\ Views = ViewsOf(iters) /\ Views' = ViewsOf(iters')
      /\ iters \in Seq(SoundIter) /\ DOMAIN iters = 1 .. Len(iters)
      /\ DOMAIN Views = 1 .. Len(iters)
  BY <1>1, Mapped
<1>3. iters[i] \in SoundIter /\ Views[i] = View(iters[i])
  BY <1>2, ElementOfSeq, ViewsResult
<1>4. Views' = Append(Views, Views[i])
  BY <1>1, <1>2, <1>3, ViewsAppend
<1> QED
  BY <1>1, <1>2, <1>4 DEF Abstract!Copy

LEMMA StopStep ==
  ASSUME Inv, NEW i \in DOMAIN iters, DropIter(i)
  PROVE  i \in DOMAIN Views /\ Abstract!Stop(i)
<1>1. iters' = Without(iters, i) /\ vec' = vec /\ held' = held /\ dyn' = dyn
  BY DEF DropIter, Without
<1>2. /\ Elements' = Elements /\ Views = ViewsOf(iters) /\ Views' = ViewsOf(iters')
      /\ iters \in Seq(SoundIter) /\ DOMAIN iters = 1 .. Len(iters)
      /\ DOMAIN Views = 1 .. Len(iters)
  BY <1>1, Mapped
<1>3. Views' = Without(Views, i)
  BY <1>1, <1>2, ViewsWithout
<1> QED
  BY <1>1, <1>2, <1>3 DEF Abstract!Stop, Without

LEMMA YieldStep ==
  ASSUME Inv, NEW i \in DOMAIN iters, IterNext(i)
  PROVE  i \in DOMAIN Views /\ Abstract!Yield(i)
<1> DEFINE it   == iters[i]
           o    == ReadPrimitive(it.as.ty,
                     SliceReader(SubSeq(vec.raw, Start(it) + 1, Len(vec.raw))))
           item == [ok |-> o.ok, val |-> o.val]
           next == Advance(it, o)
           n    == it.index + 1
<1>1. /\ it.index < vec.len /\ iters' = [iters EXCEPT ![i] = next]
      /\ vec' = vec /\ held' = held /\ dyn' = dyn
  BY DEF IterNext
<1>2. /\ Elements' = Elements /\ Views = ViewsOf(iters) /\ Views' = ViewsOf(iters')
      /\ iters \in Seq(SoundIter) /\ DOMAIN iters = 1 .. Len(iters)
      /\ DOMAIN Views = 1 .. Len(iters)
  BY <1>1, Mapped
<1>3. it \in SoundIter /\ Views[i] = View(it)
  BY <1>2, ElementOfSeq, ViewsResult
<1> HIDE DEF it
<1>4. next \in SoundIter
  BY <1>1, <1>3, AdvanceResult
<1>5. /\ it.index \in Nat /\ vec.len \in Nat /\ it.out \in Seq(Out) /\ Len(it.out) = it.index
      /\ n \in 1 .. vec.len
  BY <1>1, <1>3, VecType DEF SoundIter, Sound, Iter
<1>6. /\ next.index = n /\ next.out = Append(it.out, item)
  BY DEF Advance
<1> HIDE DEF o, next
<1>7. next.out[n].ok = Element(n).ok /\ next.out[n].val = Element(n).val
  BY <1>4, <1>5, <1>6 DEF SoundIter, Sound
<1>8. next.out[n] = item
  BY <1>5, <1>6
<1>9. item = Elements[n]
  BY <1>5, <1>7, <1>8, ElementsType DEF Result
<1> HIDE DEF item
<1>10. View(next) = [yielded |-> Append(Views[i].yielded, Elements[Len(Views[i].yielded) + 1]),
                     left    |-> Views[i].left - 1]
  <2>1. Views[i].yielded = it.out /\ Views[i].left = vec.len - it.index
    BY <1>3 DEF View, SizeHint
  <2>2. vec.len - n = (vec.len - it.index) - 1
    BY <1>5
  <2>3. View(next) = [yielded |-> Append(it.out, Elements[n]), left |-> vec.len - n]
    BY <1>6, <1>9 DEF View, SizeHint
  <2> QED
    BY <1>5, <2>1, <2>2, <2>3
<1>11. Views[i].left > 0
  <2>1. Views[i].left = vec.len - it.index
    BY <1>3 DEF View, SizeHint
  <2> QED
    BY <1>1, <1>5, <2>1
<1>12. Views' = [Views EXCEPT ![i] = View(next)]
  BY <1>1, <1>2, <1>4, ViewsExcept
<1> QED
  BY <1>1, <1>2, <1>10, <1>11, <1>12 DEF Abstract!Yield

LEMMA ConvertStep ==
  ASSUME Inv, NEW clone \in BOOLEAN, IntoDynVec(clone)
  PROVE  Abstract!Convert
<1>1. /\ held /\ held' \in BOOLEAN /\ vec' = vec /\ iters' = iters
      /\ dyn' = <<Result(DynVec(vec))>>
  BY DEF IntoDynVec, Consume, Result
<1>2. Elements' = Elements /\ Views' = Views
  BY <1>1, Mapped
<1>3. Result(DynVec(vec)) \in {Abstract!Collected, Refused}
  BY DynVecResult
<1> QED
  BY <1>1, <1>2, <1>3 DEF Abstract!Convert, Refused

LEMMA StepImplements ==
  ASSUME Inv, [Next]_vars
  PROVE  [Abstract!Next]_Abstract!vars
<1>1. ASSUME NEW as \in AsTypes, TryIterAs(as) PROVE Abstract!Next
  BY <1>1, IterateStep DEF TryIterAs, Inv, Abstract!Next
<1>2. ASSUME NEW as \in AsTypes, NEW clone \in BOOLEAN, TryIntoIterAs(as, clone)
      PROVE  Abstract!Next
  BY <1>2, IterateStep DEF TryIntoIterAs, Consume, Abstract!Next
<1>3. ASSUME NEW i \in DOMAIN iters, CloneIter(i) PROVE Abstract!Next
  BY <1>3, CopyStep DEF Abstract!Next
<1>4. ASSUME NEW i \in DOMAIN iters, DropIter(i) PROVE Abstract!Next
  BY <1>4, StopStep DEF Abstract!Next
<1>5. ASSUME NEW i \in DOMAIN iters, IterNext(i) PROVE Abstract!Next
  BY <1>5, YieldStep DEF Abstract!Next
<1>6. ASSUME NEW clone \in BOOLEAN, IntoDynVec(clone) PROVE Abstract!Next
  BY <1>6, ConvertStep DEF Abstract!Next
<1>7. CASE UNCHANGED vars
  <2>1. vec' = vec /\ held' = held /\ iters' = iters /\ dyn' = dyn
    BY <1>7 DEF vars
  <2>2. Elements' = Elements /\ Views' = Views
    BY <2>1, Mapped
  <2> QED
    BY <2>1, <2>2 DEF Abstract!vars
<1> QED
  BY <1>1, <1>2, <1>3, <1>4, <1>5, <1>6, <1>7 DEF Next

\* Whatever a program does with a lazy vector (value.rs), it sees a vector whose
\* elements were all decided when it was decoded.
THEOREM ImplementsVector == Spec => IsVector
<1>1. Init => Inv /\ Abstract!Init
  BY InitInv, InitImplements
<1>2. Inv /\ [Next]_vars => [Abstract!Next]_Abstract!vars
  BY StepImplements
<1> QED
  BY <1>1, <1>2, Invariance, PTL DEF Spec, IsVector, Abstract!Spec
=============================================================================
