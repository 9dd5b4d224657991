------------------------------- MODULE LazyVec -------------------------------
(***************************************************************************)
(* Lazy vectors (value.rs): a decoded sequence that keeps its payload and  *)
(* decodes an element when an iterator asks for it.  A program makes       *)
(* iterators of requested element types, copies and advances them in any   *)
(* order, and converts the vector with into_dyn_vec.                       *)
(***************************************************************************)
EXTENDS Ty

CONSTANTS
  Types,              \* the types a vector is decoded from
  Inputs,             \* the byte sequences it is decoded from
  AsTypes,            \* the Rust types an iterator may be asked for
  PrimitiveValueSize, \* size_of::<PrimitiveValue>()
  MaxIters            \* bound on the iterators alive at once

(***************************************************************************)
(* A Rust type As with a DynPrimitiveTy implementation: the TYPE it names  *)
(* and its size_of.  The trait is public, so they need not agree.          *)
(***************************************************************************)
AsType == [ty : PrimitiveTy, width : Nat]

ASSUME LazyVecAssumption ==
  /\ Types \subseteq DynTy
  /\ Inputs \subseteq Seq(Byte)
  /\ AsTypes \subseteq AsType
  /\ PrimitiveValueSize \in Nat \ {0}
  /\ MaxIters \in Nat

VARIABLES
  vec,    \* the LazyVec as it was decoded; nothing changes it
  held,   \* whether the program still has it
  iters,  \* the iterators alive, each with what it has yielded
  dyn     \* <<>>, or what into_dyn_vec returned

vars == <<vec, held, iters, dyn>>

SliceReader(bs) == [buf |-> bs, pos |-> 0, borrows |-> TRUE]

\* The lazy vectors that Ty::parse returns.
Decoded ==
  LET readers   == [buf : Inputs, pos : {0}, borrows : BOOLEAN]
      lazy(t, r) == Parse(t, r).ok /\ Parse(t, r).val.k = "Vec"
  IN  UNION {{Parse(t, r).val : r \in {x \in readers : lazy(t, x)}} : t \in Types}

\* LazyVec::len is the count it was decoded with; is_empty asks the payload.
VecLen == vec.len

IsEmpty == vec.raw = <<>>

(***************************************************************************)
(* Iterators: Iter borrows the vector, IntoIter owns the payload.          *)
(***************************************************************************)
\* Mutant: the width of the requested type is not compared.
ValidateElementType_TypeOnly(as, ty) == as.ty = ty

ValidateElementType(as, ty) == as.ty = ty /\ as.width = PrimitiveSize(ty)

Borrowed == \E i \in DOMAIN iters : ~iters[i].owning

\* A type that does not fit is an error and makes no iterator.
AddIter(as, owning) ==
  iters' = IF ValidateElementType(as, vec.ty)
           THEN Append(iters, [as |-> as, owning |-> owning, index |-> 0, out |-> <<>>])
           ELSE iters

TryIterAs(as) ==
  /\ held
  /\ Len(iters) < MaxIters
  /\ AddIter(as, FALSE)
  /\ UNCHANGED <<vec, held, dyn>>

\* The methods that take self: on the vector, which no iterator may then borrow and
\* which is gone even when the call fails, or on a clone of it.
Consume(clone) == held /\ (clone \/ ~Borrowed) /\ held' = clone

TryIntoIterAs(as, clone) ==
  /\ Consume(clone)
  /\ Len(iters) < MaxIters
  /\ AddIter(as, TRUE)
  /\ UNCHANGED <<vec, dyn>>

\* Both iterators are Clone.
CloneIter(i) ==
  /\ Len(iters) < MaxIters
  /\ iters' = Append(iters, iters[i])
  /\ UNCHANGED <<vec, held, dyn>>

DropIter(i) ==
  /\ iters' = SubSeq(iters, 1, i - 1) \o SubSeq(iters, i + 1, Len(iters))
  /\ UNCHANGED <<vec, held, dyn>>

(***************************************************************************)
(* Iterator::next.  The element is read from a slice that begins at start, *)
(* taken with get_unchecked, and the iterator advances whether or not it   *)
(* decodes.  After the last one next returns None and changes nothing.     *)
(***************************************************************************)
Start(it) == (it.index * it.as.width) % (UsizeMax + 1)

\* Mutant: an element that fails is passed over in silence.
Advance_Unreported(it, o) ==
  [it EXCEPT !.index = @ + 1,
             !.out = IF o.ok THEN Append(@, [ok |-> o.ok, val |-> o.val]) ELSE @]

Advance(it, o) ==
  [it EXCEPT !.index = @ + 1, !.out = Append(@, [ok |-> o.ok, val |-> o.val])]

\* Iterator::size_hint and ExactSizeIterator::len.
SizeHint(it) == vec.len - it.index

\* Mutant: the end is noticed one element late.
IterNext_Late(i) ==
  LET it        == iters[i]
      remaining == SubSeq(vec.raw, Start(it) + 1, Len(vec.raw))
  IN  /\ it.index <= vec.len
      /\ iters' = [iters EXCEPT ![i] =
                     Advance(it, ReadPrimitive(it.as.ty, SliceReader(remaining)))]
      /\ UNCHANGED <<vec, held, dyn>>

IterNext(i) ==
  LET it        == iters[i]
      remaining == SubSeq(vec.raw, Start(it) + 1, Len(vec.raw))
  IN  /\ it.index < vec.len
      /\ iters' = [iters EXCEPT ![i] =
                     Advance(it, ReadPrimitive(it.as.ty, SliceReader(remaining)))]
      /\ UNCHANGED <<vec, held, dyn>>

(***************************************************************************)
(* into_dyn_vec: all elements, read one after the other from the payload,  *)
(* or the first error.                                                     *)
(***************************************************************************)
\* Mutant: the element is read from a copy of the payload's reader.
ReadElement_Copied(v, prev) ==
  LET o == ReadPrimitive(v.ty, SliceReader(v.raw))
  IN  IF ~prev.ok THEN prev
      ELSE IF ~o.ok THEN o
      ELSE Ok(Append(prev.val, o.val), o.pos)

\* One more element, after prev was read.
ReadElement(v, prev) ==
  LET o == ReadPrimitive(v.ty, At(SliceReader(v.raw), prev.pos))
  IN  IF ~prev.ok THEN prev
      ELSE IF ~o.ok THEN o
      ELSE Ok(Append(prev.val, o.val), o.pos)

\* after[n] is what reading n elements returns.
ReadElements(v) ==
  LET after[n \in 0 .. v.len] == IF n = 0 THEN Ok(<<>>, 0) ELSE ReadElement(v, after[n - 1])
  IN  after[v.len]

\* Mutant: the limit is applied to the payload instead of the vector.
DynVec_Payload(v) ==
  IF PreallocCheck(v.len, PrimitiveSize(v.ty)) THEN ReadElements(v)
  ELSE Err("PreallocationSizeLimit", SliceReader(v.raw), {0})

DynVec(v) ==
  IF PreallocCheck(v.len, PrimitiveValueSize) THEN ReadElements(v)
  ELSE Err("PreallocationSizeLimit", SliceReader(v.raw), {0})

IntoDynVec(clone) ==
  LET o == DynVec(vec)
  IN  /\ Consume(clone)
      /\ dyn' = <<[ok |-> o.ok, val |-> o.val]>>
      /\ UNCHANGED <<vec, iters>>

(***************************************************************************)
(* The specification.                                                      *)
(***************************************************************************)
Init ==
  /\ vec \in Decoded
  /\ held = TRUE
  /\ iters = <<>>
  /\ dyn = <<>>

Next ==
  \/ \E as \in AsTypes : TryIterAs(as)
  \/ \E as \in AsTypes, clone \in BOOLEAN : TryIntoIterAs(as, clone)
  \/ \E i \in DOMAIN iters : CloneIter(i)
  \/ \E i \in DOMAIN iters : DropIter(i)
  \/ \E i \in DOMAIN iters : IterNext(i)
  \/ \E clone \in BOOLEAN : IntoDynVec(clone)

Spec == Init /\ [][Next]_vars

-----------------------------------------------------------------------------
(***************************************************************************)
(* Properties.                                                             *)
(***************************************************************************)
\* What the n-th element's own bytes decode to.
Width == PrimitiveSize(vec.ty)

Element(n) ==
  ReadPrimitive(vec.ty, SliceReader(SubSeq(vec.raw, (n - 1) * Width + 1, n * Width)))

\* The type invariant: an iterator is at most at the end, and has yielded as many
\* items as it has advanced.
TypeOK ==
  /\ vec \in Value /\ vec.k = "Vec"
  /\ held \in BOOLEAN
  /\ DOMAIN iters = 1 .. Len(iters) /\ Len(iters) <= MaxIters
  /\ \A i \in DOMAIN iters :
       /\ DOMAIN iters[i] = {"as", "owning", "index", "out"}
       /\ iters[i].as \in AsTypes
       /\ iters[i].owning \in BOOLEAN
       /\ iters[i].index \in 0 .. vec.len
       /\ Len(iters[i].out) = iters[i].index
  /\ Len(dyn) <= 1

\* What get_unchecked(start..) needs, value.rs:357-361: while an iterator has
\* elements left, start is the true product, and a whole element of the type asked
\* for lies inside the payload from there.
InBounds ==
  \A i \in DOMAIN iters :
    LET it == iters[i]
    IN  it.index < vec.len => /\ Start(it) = it.index * it.as.width
                             /\ Start(it) + it.as.width <= Len(vec.raw)

\* is_empty and len, which look at different fields, agree (value.rs:307, 313): so does
\* every decoded vector with its payload, be the product of its length however wide.
EmptyMeansNone == IsEmpty <=> VecLen = 0

\* The n-th item of any iterator is what the n-th element's own bytes decode to:
\* one that is malformed is reported where it is and spoils no other, before it,
\* after it or in a copy of the iterator.
ElementWise ==
  \A i \in DOMAIN iters : \A n \in DOMAIN iters[i].out :
    LET item == iters[i].out[n]
    IN  item.ok = Element(n).ok /\ item.val = Element(n).val

\* The vector and its iterators as Vector sees them.
Elements == [n \in 1 .. vec.len |-> [ok |-> Element(n).ok, val |-> Element(n).val]]

Views == [i \in DOMAIN iters |-> [yielded |-> iters[i].out, left |-> SizeHint(iters[i])]]

\* A lazy vector is a Vector of what each element's own bytes decode to: nothing the
\* program does to it or to its iterators shows in any item, in how many an iterator
\* says it has left, or in what into_dyn_vec returns, which is all the values or the
\* first error, unless it is refused.
Abstract == INSTANCE Vector
  WITH Outcome  <- [ok : {TRUE}, val : Value] \cup [ok : {FALSE}, val : ReadError],
       TooLarge <- "PreallocationSizeLimit",
       elems    <- Elements,
       iters    <- Views,
       result   <- dyn

IsVector == Abstract!Spec

\* The vector of PrimitiveValue, many times the payload, is within the limit.
DynBounded ==
  \A d \in DOMAIN dyn : dyn[d].ok => Len(dyn[d].val) * PrimitiveValueSize <= PreallocLimit
=============================================================================
