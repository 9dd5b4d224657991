------------------------------- MODULE MCStream -------------------------------
(***************************************************************************)
(* An instance of Stream for TLC.  A byte has four values, so a payload    *)
(* has at most three elements and a tag of one byte names four variants.   *)
(***************************************************************************)
EXTENDS Stream

plain(t)   == [ty |-> t, skip |-> FALSE, with |-> "None"]
skipped(t) == [ty |-> t, skip |-> TRUE, with |-> "None"]
adapted(t) == [ty |-> t, skip |-> FALSE, with |-> "Same"]
widened(t) == [ty |-> t, skip |-> FALSE, with |-> "Wide"]

prim(p)     == [k |-> "primitive", ty |-> p]
string      == [k |-> "String"]
vec(p)      == [k |-> "Vec", ty |-> p]
array(p, n) == [k |-> "Array", ty |-> p, len |-> n]

Struct(fs)    == [k |-> "Struct", variants |-> <<fs>>]
Enum(tag, vs) == [k |-> "Enum", tag |-> tag, variants |-> vs]

\* Unit and empty types; static and dynamic ones; fields skipped first, last and
\* alone; adapters; variants of one size, of several, and where the dynamic one
\* has the largest or the smallest fixed part; the default tag and others; and
\* types at the largest size that compiles and beyond it; every primitive type;
\* and types that a derived schema cannot describe, skipped and not.
MCContainers ==
  { Struct(<< >>),
    Struct(<<plain(prim("u16")), plain(prim("bool"))>>),
    Struct(<<skipped(string), plain(prim("u8")), skipped(prim("i16")), plain(vec("bool"))>>),
    Struct(<<plain(vec("u16")), adapted(prim("i16")), plain(array("u8", 3)), skipped(prim("u8"))>>),
    Struct(<<skipped(prim("u8"))>>),
    Struct(<<plain(prim("u8")), plain(Other)>>),
    Struct(<<plain(prim("u8")), plain(prim("i8")), plain(prim("bool")), plain(prim("u16")),
             plain(prim("i16")), plain(prim("f32")), plain(prim("u32"))>>),
    Struct(<<plain(prim("u64")), plain(prim("i32")), plain(prim("i64")), plain(prim("f64"))>>),
    Struct(<<plain(array("u8", 30)), plain(prim("u8"))>>),
    Struct(<<plain(array("u16", 15)), plain(prim("u16"))>>),
    Struct(<<plain(vec("u8")), plain(array("f64", 2))>>),
    Enum(<<"u8">>, << >>),
    Enum(<<>>, << <<plain(prim("bool"))>>, <<plain(prim("u16"))>> >>),
    Enum(<<"u16">>, << <<plain(prim("u16"))>>, <<plain(array("bool", 2))>> >>),
    Enum(<<"u8">>, << << >>, <<plain(string), plain(prim("u16")), plain(prim("u8"))>>, <<plain(prim("u16"))>> >>),
    Enum(<<"i8">>, << <<plain(vec("u8"))>>, <<plain(prim("u16")), skipped(prim("u8"))>> >>),
    Enum(<<"u8">>, << <<skipped(vec("u8")), plain(prim("bool"))>>, <<skipped(prim("bool"))>>,
                      <<skipped(Other), adapted(prim("u8")), plain(prim("u8"))>> >>) }

\* Adapters that change the wire format, first, last, alone, beside others that do not,
\* in one variant of several, and on skipped fields and arrays, where they do not.
MCAdapted ==
  { Struct(<<plain(prim("i8")), widened(prim("u16")), plain(prim("bool"))>>),
    Struct(<<widened(vec("u8")), plain(string)>>),
    Struct(<<plain(vec("bool")), adapted(prim("u8")), widened(string)>>),
    Struct(<<[widened(prim("u8")) EXCEPT !.skip = TRUE], plain(prim("u8")), widened(array("u16", 2))>>),
    Enum(<<"u8">>, << <<widened(prim("u8"))>>, <<plain(prim("u16"))>> >>),
    Enum(<<>>, << <<plain(prim("i8")), adapted(prim("bool"))>>, <<plain(prim("bool")), widened(prim("bool"))>> >>),
    Enum(<<"i16">>, << <<plain(string)>>, <<plain(prim("u8")), widened(vec("bool"))>> >>) }

scalars(p, ns) == {[k |-> "Primitive", ty |-> p, n |-> n] : n \in ns}
bytes(k, raws) == {[k |-> k, raw |-> raw, owned |-> FALSE] : raw \in raws}
vectors(p, raws) ==
  {[k |-> "Vec", ty |-> p, len |-> Len(raw) \div PrimitiveSize(p), raw |-> raw, owned |-> FALSE] :
     raw \in raws}

\* What the fields are decoded to: values of every type, length and sign; payloads of
\* up to three elements, with a limit of two bytes on copies.
numbers ==
  [u8 |-> scalars("U8", {3}), u16 |-> scalars("U16", {3}), u32 |-> scalars("U32", {9}),
   u64 |-> scalars("U64", {70}), i8 |-> scalars("I8", {-1}), i16 |-> scalars("I16", {-1}),
   i32 |-> scalars("I32", {-6}), i64 |-> scalars("I64", {-1}), f32 |-> scalars("F32", {130}),
   f64 |-> scalars("F64", {7}), bool |-> scalars("Bool", {0, 1})]

MCSamples(t) ==
  CASE t.k = "primitive" -> numbers[t.ty]
    [] t = Other -> bytes("Bytes", {<<>>})   \* never written
    [] t.k = "String" -> bytes("String", {<<>>, <<2, 3, 1>>})
    [] t.k = "Vec" /\ t.ty = "u8" -> bytes("Bytes", {<<>>, <<1, 3>>})
    [] t.k = "Vec" /\ t.ty = "bool" -> vectors("Bool", {<<1>>, <<1, 0, 1>>})
    [] t.k = "Vec" /\ t.ty = "u16" -> vectors("U16", {<<1, 2>>, <<1, 2, 3, 0>>})
    [] t.k = "Array" /\ t.ty = "u8" -> bytes("Bytes", {[i \in 1 .. t.len |-> i % Base]})
    [] t.k = "Array" /\ t.ty = "bool" -> vectors("Bool", {[i \in 1 .. t.len |-> i % 2]})
    [] t.k = "Array" /\ t.ty = "u16" -> vectors("U16", {[i \in 1 .. 2 * t.len |-> i % Base]})
    [] t.k = "Array" /\ t.ty = "f64" -> vectors("F64", {[i \in 1 .. 8 * t.len |-> i % Base]})

\* The bytes 2 and 3 make one character, 0 and 1 one each.
MCValidUtf8(bs) ==
  \A i \in DOMAIN bs : /\ bs[i] = 2 => i < Len(bs) /\ bs[i + 1] = 3
                       /\ bs[i] = 3 => i > 1 /\ bs[i - 1] = 2

\* What Decoder's constants are for these containers.
MCRoots == {SchemaOf(c) : c \in {d \in Containers : Compiles(d)}}

MCInputs ==
  UNION {{bs \in {Encoded(c, recs) : recs \in BoundedSeq(Records(c), MaxRecords)} : Len(bs) \in Usize} :
           c \in {d \in Containers : Compiles(d)}}
=============================================================================
