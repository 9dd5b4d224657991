------------------------------ MODULE MCDecoder ------------------------------
(***************************************************************************)
(* Instances of Decoder for TLC.  A byte has four values: 0 and 1 are the  *)
(* encodings of a bool, 2 and 3 are not and are negative as an i8.  usize  *)
(* ends at 15, so that a length, a tag, and a length times a width can all *)
(* overflow it.                                                            *)
(***************************************************************************)
EXTENDS Decoder, SequencesExt

CONSTANTS
  MaxLen,     \* every input of at most this length is given
  Selected    \* TRUE: give the selected longer inputs too

\* A stand-in for UTF-8 in which validity is not bytewise: 0 and 1 are
\* characters, 2 leads a character that 3 completes.
MCValidUtf8(bs) ==
  \A i \in DOMAIN bs : /\ bs[i] = 2 => i < Len(bs) /\ bs[i + 1] = 3
                       /\ bs[i] = 3 => i > 1 /\ bs[i - 1] = 2

prim(p)     == [k |-> "PrimitiveTy", ty |-> p]
string      == [k |-> "String"]
vec(p)      == [k |-> "Vec", ty |-> p]
array(p, n) == [k |-> "Array", ty |-> p, len |-> n]

\* The schema of fields of these types.  Schemas made by hand need not say their size.
Fields(tys)   ==
  [fields |-> [i \in DOMAIN tys |-> [ty |-> tys[i], size |-> TySize(tys[i])]], size |-> <<>>]
Struct(tys)   == [k |-> "Struct", variants |-> <<Fields(tys)>>]
Enum(tag, vs) ==
  [k |-> "Enum", tag |-> tag, variants |-> [v \in DOMAIN vs |-> Fields(vs[v])], size |-> <<>>]

\* Every kind of type beside every other, unit and empty schemas, and tags of
\* signed, wide and unsupported types.
MCRoots ==
  { Struct(<< >>),
    Struct(<<prim("Bool"), string, prim("I8")>>),
    Struct(<<vec("U8"), prim("U16"), vec("Bool")>>),
    Struct(<<vec("I16"), array("U8", 2), prim("I16")>>),
    Struct(<<vec("U64"), array("U32", 1), array("U8", 3)>>),
    Struct(<<array("F64", 2), array("Bool", 2), prim("U8")>>),
    Struct(<<array("U8", 0), array("I32", 0), vec("F32")>>),
    Struct(<<prim("F32"), prim("I32")>>),
    Enum("U8", << <<prim("Bool")>>, << >>, <<string, prim("U8")>> >>),
    Enum("I8", << <<vec("U8")>>, <<prim("I8"), prim("I8")>> >>),
    Enum("U16", << <<prim("U8"), prim("Bool")>>, << >> >>),
    Enum("I32", << <<prim("U8")>> >>),
    Enum("Bool", << << >>, <<prim("U8")>> >>) }

Longer ==
  { <<1, 0, 0, 0, 0, 0, 0, 0, 2>>,   \* a vector of one u64 and more
    <<0, 1, 2, 3, 3, 2, 1, 0>>,      \* an f32 and an i32
    <<2, 2, 3, 1, 3, 1, 0, 2, 1>>,   \* a string and more, a vector of i16 and more
    <<0, 0, 0, 0, 1, 1>>,            \* a wide tag and more
    <<0, 0, 0, 1, 1, 1>> }           \* a wide tag above usize::MAX and more

MCInputs == BoundedSeq(Byte, MaxLen) \cup (IF Selected THEN Longer ELSE {})

\* Four-byte length prefixes: 0 to 3 and just above and below usize::MAX, with
\* enough and too little after them.
MCWideInputs ==
  {prefix \o rest : prefix \in {<<n, 0, 0, 0>> : n \in 0 .. 3} \cup {<<3, 3, 0, 0>>, <<0, 0, 1, 0>>},
                    rest \in BoundedSeq(0 .. 1, 3)}
=============================================================================
