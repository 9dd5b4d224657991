------------------------------ MODULE MCLazyVec ------------------------------
(***************************************************************************)
(* An instance of LazyVec for TLC: vectors and arrays of up to three       *)
(* elements of every width, some with a product that overflows usize, and  *)
(* element types that match, name another type, or lie about their width.  *)
(***************************************************************************)
EXTENDS LazyVec, SequencesExt

MCValidUtf8(bs) == TRUE   \* no vector holds a string

vec_of(p)      == [k |-> "Vec", ty |-> p]
array_of(p, n) == [k |-> "Array", ty |-> p, len |-> n]

\* A vector of three u64 and an array of two f64 are as wide as usize can count
\* to plus eight, and plus nothing: a product that wraps is 8 and 0.
MCTypes == {vec_of("Bool"), vec_of("I16"), vec_of("U64"),
            array_of("Bool", 3), array_of("I8", 0), array_of("F64", 2), array_of("U32", 1)}

\* Lengths 0 to 3 before up to four bytes that are valid and invalid bools, and
\* longer payloads.
MCInputs ==
  {<<n>> \o rest : n \in 0 .. 3, rest \in BoundedSeq(0 .. 2, 4)}
    \cup {<<1, 0, 1, 2, 3, 3, 2, 1, 0>>, <<3, 0, 1, 2, 3, 3, 2, 1, 0>>}

MCAsTypes == {[ty |-> p, width |-> PrimitiveSize(p)] : p \in {"Bool", "I16", "U64", "F64"}}
               \cup {[ty |-> "I16", width |-> 4], [ty |-> "Bool", width |-> 2]}
=============================================================================
