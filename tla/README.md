# A TLA+ model of wincode-dynamic

wincode-dynamic decodes values of types that are known only at run time: a producer
sends a schema (`RootSchema`) in wincode's format, then records; a consumer decodes
each record reflectively, field by field, from whatever reader it has. This directory
holds TLA+ modules of the decoder, of the lazy vectors it returns and of the unsafe
adapters below them, TLC configurations that check them on small instances, and TLAPS
proofs for every value of the constants.

## The system

| Component | State it keeps | Operations | Source |
|---|---|---|---|
| Types and payload reads | none | `Ty::parse`, `Ty::size`, `Value::size`, `parse_into_usize`, `read_byte_payload`, `read_primitive_payload`; `DynTy`, `DynPrimitiveTy` | `wincode-dynamic/src/ty.rs`, `value.rs` |
| Reflective decoder | the reader's position; the schema and the field that is next | `Decoder::{new, fields}`, `SchemaDecoder::fields`, `EnumDecoder::decode_variant`, `VariantDecoder::fields`, `Fields::next`, `FieldDef::parse` | `wincode-dynamic/src/lib.rs` |
| Lazy vectors | element type, length, payload (borrowed or owned); an index for each iterator | `try_iter_as`, `try_into_iter_as`, `Iterator::next`, `size_hint`, `into_dyn_vec`, `len`, `is_empty` | `wincode-dynamic/src/value.rs` |
| Sequence adapters | a `Vec` under construction, its length and spare capacity | `Map::read`, `LenMap::read_with_context` | `wincode-dynamic/src/wincode_extra.rs` |
| Exchange of schemas | the schema received; a reader over the records | send the schema, then values; wincode's derived (de)serialization of the schema types | `wincode-dynamic/src/lib.rs` |
| Derive macro | none at run time; the types collected for the placeholders of an adapter | `SERIALIZED_SIZE`, `schema()`, the bounds on fields, `target_resolved` | `wincode-dynamic-derive/src` |
| wincode (external) | a reader over bytes | scalars, `SeqLen`, `Cow<[u8]>`, `Cow<str>`, trusted readers | not in the repository |

**Interactions.** A `Decoder` selects the `Schema` a reader is positioned at, for an enum
by reading the tag with `parse_into_usize`. `Fields::next` takes a `FieldDef` and calls
`Ty::parse` on the one reader that the iterator owns. `Ty::parse` calls wincode for
scalars, strings and prefixes, and otherwise takes a payload. A vector of anything but
bytes becomes a `LazyVec`, whose iterators read its payload later with `get_unchecked`,
trusting the length that `Ty::parse` checked. `into_dyn_vec` reads the payload through
`LenMap`, which writes elements through a raw pointer. The producer's side is compile time:
the derive macro turns a Rust type into a schema, by the field's runtime type (`DynTy`), and
into `SERIALIZED_SIZE`, by wincode's metadata of the adapter it is written with.

**What is hard.** Nothing runs concurrently and nothing is persisted. The hazards are
those of a decoder of untrusted data with unsafe code under it:

- *protocol*: one reader has to be handed from field to field. `Fields` is generic in its reader
  and lends it (`by_ref`); a duplicate in its place, which a `Copy` or `Clone` bound would let
  compile, would be wrong only for readers that are passed by value;
- *partial failure*: a field, a tag, an element or a mapper may fail in the middle; what
  was consumed, written or dropped by then is observable;
- *numeric edges*: lengths, tags and widths come from the input and may overflow `usize`;
- *limits*: the preallocation limit must hold for exactly the reads that copy;
- *stale checks*: the unsafe reads rely on a length and a width that were checked
  elsewhere, earlier;
- *two sources of truth*: the schema goes by the Rust types, wincode by the adapters; sizes
  come from both. And an adapter's placeholders are filled by one visitor with the types
  that another has collected.

The properties that make each part correct: what is decoded is what was encoded, and what
is refused is malformed (types and reads); the fields tile the input whichever reader is
used (decoder); unchecked reads stay inside the payload, and all ways to decode a vector
are ways to read one sequence (lazy vectors); memory is written before it is counted and every value is dropped
once (adapters); the schema describes what wincode writes, and a consumer that has only
the schema gets every record of a stream, or those that arrived whole (derive,
exchange).

## Modules

| Module | Models | EXTENDS |
|---|---|---|
| `Wincode` | the external library as the code relies on it: outcomes of reads, little-endian integers, prefixes, the limit | |
| `Ty` | types, values, sizes, every path of `Ty::parse`; and the wire format, as the reference for the properties | `Wincode` |
| `Decoder` | a program that holds a schema and a reader and calls the decoding API in any order | `Ty` |
| `Vector` | abstract: a sequence of outcomes, iterated and converted | |
| `LazyVec` | a program that holds a decoded lazy vector and its iterators; implements `Vector` | `Ty` |
| `LenMap` | one call of `Map` or `LenMap`, step by step | `Wincode` |
| `RustTypes` | the Rust types of fields, their runtime types, and what wincode writes for them; operators only | `Ty` |
| `Derive` | what the derive macro generates for a container, and what wincode writes for its values; operators only | `Decoder`, `RustTypes` |
| `Infer` | `target_resolved`: an adapter's placeholders replaced by types of the field | |
| `RecordStream` | abstract: the records of a stream are delivered, each once, in order, all of them | |
| `Stream` | a producer's records and a consumer that decodes them with the derived schema from one reader | `Derive` |
| `Session` | a consumer that receives the schema and the records, each of which may be cut short | `Stream` |
| `MCDecoder`, `MCLazyVec`, `MCLenMap`, `MCStream`, `MCSession`, `MCInfer` | instances for TLC | |
| `IntegerProofs` | induction and recursion over a number, as the existence of a least counterexample; concatenations; little-endian integers read back what was written, and the reverse | `Wincode` |
| `TyProofs` | theorems about `Parse`: what it returns; that it is the inverse of `Encode` | `Ty`, `IntegerProofs` |
| `DecoderProofs`, `LazyVecProofs`, `LenMapProofs` | theorems about these components; `LazyVecProofs` also has the refinement of `Vector` | |
| `DeriveProofs` | what wincode writes for a derived container is what the derived schema reads; sizes | `Derive`, `TyProofs` |
| `StreamProofs` | theorems about `Stream` and `Session`, the refinement of `RecordStream` among them | `Session`, `DeriveProofs`, `DecoderProofs` |
| `InferProofs` | induction over types as trees; theorems about `Infer` | `Infer`, `IntegerProofs` |

**Correspondence.** A read is an operator from a reader `[buf, pos, borrows]` to an
outcome `[ok, val, pos, left]`: what was read and the position after it, or the error and
the set `left` of positions the reader may then have. Where the code of this repository
decides (`read_byte_payload`'s limit check, a rejected tag), `left` is exact; where
wincode fails, its `Reader` trait does not say how much is consumed, so `left` is
everything to the end of the input. Every property holds for every such choice.

*Decoder.* `root` is the `RootSchema`, `reader` the program's reader, `handle` the
`VariantDecoder` or `Fields` that is alive, `items` what the latest iterator yielded.
`DecodeVariant`, `DecoderFields`, `VariantFields`, `FieldsNext` and `ParseField` are the
API's calls and `Drop` is the end of a handle. A handle is given `&mut reader` (`byRef`),
and then moves the program's reader, or the reader itself. Only slices are passed by
value, because only they can be used again afterwards: such a handle owns a copy, with the
position `own`. `start` and `first` are history: where the tag and the fields begin.

*LazyVec.* `vec` is any lazy vector `Ty::parse` returns for the given types and inputs.
`iters` holds the iterators alive, borrowing and owning, each with its `index` and what it
has yielded. `ReadElement` is one turn of the loop that `into_dyn_vec` ends up in, and
`ReadElements` the loop. `AsTypes` includes Rust types whose `DynPrimitiveTy` names one type and whose
size is another's, since anyone can implement that trait. The start of an element wraps
at `usize`, as the multiplication in a release build does. The refinement maps the vector to
the outcome of each element's own bytes (`elems`), an iterator to what it has yielded and what
its `size_hint` says is left, and `dyn` to `result`. So no step of one iterator may show in
another, a hint may never be wrong, and `into_dyn_vec` may return all the values, the first error
or a refusal, nothing else.

*LenMap.* `pc` is the place in the loop; a read may fail, and the mapper may panic, at
every element. `drops` counts how often each value has been dropped. What the bytes say is
left open: a read of enough bytes may succeed or fail.

*RustTypes and Derive.* A container is a struct or enum with its fields and the attributes
`skip`, `with` and `tag_encoding`; `SchemaOf` and `SERIALIZED_SIZE` are the values of the
generated expressions. What wincode writes (`Write`, `SizeOf`, `EncodeRecord`) goes by the Rust
type and never by the runtime type (`TYPE`), so a wrong line in that table is a disagreement
between the two. An adapter keeps the wire format but has a `TYPE_META` of its own ("Same"), as
the doc of `SchemaDynamic` demands, or breaks it by writing numbers and prefixes twice as wide
("Wide"); the schema follows the Rust type, the sizes follow `AdapterMeta`. Checked sums that
overflow, and fields without a runtime type, are compile errors (`Compiles`).

*Infer.* A type is a tree. `Collect` is `GenericTypes`, which walks the field's type and puts its
innermost generic arguments in the queue `generics`; `InferTypes` is `InferGeneric`, which walks
the adapter and replaces each `_` from the front of the queue, and panics when the queue is
empty. A generic argument that is no type (`Const`: a lifetime or a constant; a const parameter's bare
name looks like a type, to `syn` and here) is not collected, and a path that has
only such arguments is not either. Both are visitors (of `syn`), here depth-first traversals by one recursive function over types
(`Traversed`): `GenericTypes` makes a sequence of every type, `InferGeneric` a function from the
queue to the type that results and the rest of the queue. A recursive function has a set for its domain,
so types are nested to a bound (`Depth`), which may be any number. The code also visits what it has
put in place of a `_`. The model does not, and `ReplacedUnchanged` proves that it makes no
difference: a type that was part of a field's type has no placeholder.

*Stream.* `StreamInit` chooses a container and `sent`, serializes the records into one buffer
and gives the consumer the derived schema. The consumer's calls are `Decoder`'s actions:
it lends its reader to a decoder (`Consume`), reads to the end (`ReadFields`, `ReadNext`,
`Deliver`), and may, once before each record, decode as much of it as it likes with a copy
(`Peek`, `DropPeek`). `Stream` implements `RecordStream` with `sent` mapped to the records
without their skipped fields.

*Session.* As in the example of `Decoder::fields` (lib.rs:470-478) there are two buffers. Of the one
with the encoded schema it matters only whether it is complete (`announced`); the one with the
records of a `Stream` is cut at any place. The consumer begins without a schema: `ReceiveSchema`
gives it `root` or an error, and then it does what the README's example does, with `?` on every
call (`OpenRecord`, `ReadField`, `NextRecord`). `phase` says which part it is in; after the
first error it is "failed".

**Data.** A byte has `Base` values, 4 in the runs: 0 and 1 are the two bools, 2 and 3 are
invalid as a bool and negative as an `i8`. `usize` ends at 15 in most runs, so a length, a
tag and a length times a width can each overflow. A float is its bits; UTF-8 is a predicate
in which validity is not a matter of single bytes. Field and type names, `Display`
formatting and accessors are left out.

Operators named `X_Variant`, marked "Mutant", are deliberately wrong versions of `X` and are
used by nothing: each run's properties were tried against them, to see that a plausible
bug in the code is caught.

## What is model-checked

| Run | Shows | Bounds |
|---|---|---|
| `decoder` (`MCDecoder.cfg`) | decoding returns what was encoded and refuses only what is malformed; truncated fields are refused; borrowing changes ownership only; copies are bounded; lazy payloads are exact; sizes agree; fields tile the input; an enum is opened as the variant whose tag comes next, and as none if there is none, with a refused tag read past; iterations end | 13 schemas with every kind of type beside others, unit and empty schemas, and tags of every kind; all inputs of up to 3 bytes and 5 longer ones |
| `decoder_wide` (`MCDecoderWide.cfg`) | length prefixes wider than `usize`, as on a 32-bit target | 4-byte prefixes around 0 and around `usize::MAX`, up to three bytes behind them |
| `size_overflow` (`MCDecoderSize.cfg`) | the finding below | inputs of at most one byte |
| `lazy_vec` (`MCLazyVec.cfg`) | `LazyVec` implements `Vector`; reads in bounds; the n-th item depends on the n-th element's bytes; `len` and `is_empty` agree; the dynamic vector is bounded | vectors and arrays of up to 3 elements of every width, two whose width is at or above `usize`'s range; two iterators; six element types, two of which lie |
| `len_map` (`MCLenMap.cfg`) | memory is initialised before it counts; writes are in capacity; every value is dropped once; trusted reads are in their window | 0 to 5 elements of 0 to 2 bytes, 0 to 9 bytes available; the limit allows 4 |
| `stream` (`MCStream.cfg`) | `Stream` implements `RecordStream`, also its liveness; the reader is exactly at a record whenever it is not lent; the sizes of fields, variants and containers are what decoding consumes; `SERIALIZED_SIZE` is a tight bound | 17 containers (every primitive type, skipped fields and adapters at every place, unit and empty types, variants of one size and of several, default and other tags, one type at the largest size that compiles and one beyond it), streams of up to 3 records that fit a `usize` of at most 31, one or two values of each field |
| `adapters` (`MCAdapters.cfg`) | a field written by an adapter that changes the format spoils itself and what is behind it, never what is before; a root size and `SERIALIZED_SIZE` are right even then | 7 containers with such an adapter on the first, a middle or the last field, on prefixes and numbers, beside skipped fields; streams of up to 2 records |
| `session` (`MCSession.cfg`) | what arrived whole is delivered, nothing cut short passes for a record, the consumer fails only where the schema or the next record is missing, and ends | 7 containers with records of no bytes, fixed and varying lengths; up to 3 records; their input cut after every byte, the schema there or not; readers that lend and that copy |
| `infer` (`MCInfer.cfg`) | leaving out a field's types gives them back in order, also inside another adapter; no placeholder is left; the macro panics exactly for want of types | field types of up to three levels of paths with one and two arguments, arrays, slices and tuples, and arguments that are no types; 13 adapters for each; `Depth` 4 |

*Why the bounds are enough.* A record is read left to right, and no read looks behind its
reader, so a read depends on the type and the bytes from the reader on. The schemas put
each kind of type first, in the middle and last; the inputs cover each prefix with too
few, enough and more than enough bytes. Overflow, limits and invalid content are reached because
`Base`, `UsizeMax` and `PreallocLimit` are small. Two iterators show what a third would: they
share nothing but the vector, which nothing changes. In a stream a decoder keeps nothing from
one record to the next but the reader's position, so two records show what more would,
and the third lets an error in the first be followed by two variants. In a session the third
record is one that is never begun if the second is cut. Types of three levels have a placeholder
below one that was replaced, and arguments before and behind a nested one. For most of the safety properties
the theorems below remove the bounds altogether.

*Deadlock* is not checked: a program may stop when it has dropped its decoder or its
iterator, a call of `LenMap` or of the inference ends, and a consumer stops after the last record or
at an error.

*Fairness.* `FairSpec` adds `WF_vars(FieldsNext)`: a program that iterates, as every
consumer in the README and the tests does with `for field in fields`, goes on calling
`next` until it returns `None` or it leaves the loop. Nothing is assumed about the other calls. `FieldsEnd`
says that such a loop ends, whatever the fields do. It would not if a field that fails were
tried again. `StreamSpec` has weak fairness of the whole next-state relation: the consumer is
one thread that goes on to the last record; since it peeks once a record at most, it
gets there. `SessionSpec` is the same for the consumer of a session, which gets to the last
record or to an error.

*Finding.* `Ty::size` multiplies without a check (ty.rs:204) where parsing uses
`checked_mul` (ty.rs:34). For an array type wider than `usize`, which a received schema can
contain, `size()` wraps in a release build and is not "the complete serialized size" its
doc promises (ty.rs:193). `size_overflow` shows it for an array of two `f64` with
`usize::MAX` 15: the size is 0.

## What is proved

`tlapm` checks all proofs. They assume only what the modules' named `ASSUME`s say of the
constants: a byte has an even number of values, more than two; `usize` holds at least two bytes;
the prefix width is 1, 2, 4 or 8; the limit is a `usize`; the schemas, types, inputs and calls are of
their types; an input's length is a `usize`, as that of every slice is; the index of a variant is a
number of its tag's type, and the number of variants a `usize`; the values of a field are values of its Rust type, as far as
wincode can write their length; and the types of fields and their adapters are finite trees, of
which those of fields have no `_`, which Rust does not allow there.

- **`IntegerProofs`**: the values of integers are recursive functions of their
  width. Facts about them need an induction, and the library's induction theorems cannot be
  instantiated here; but a set of numbers has a least element, so a set that has 0 and is closed
  under successor has all (`UpTo`), and a formula is proved for every width by taking the
  set of widths that it holds of. This gives: the bytes of a number read as that number
  (`ReadWhatWasWritten`), the number read from bytes is written as those bytes
  (`WriteWhatWasRead`, `WriteSigned`), and both stay in the range of the type (`SignedRange`,
  which is where `Base` has to be even).
- **`TyProofs`, `ParseResult`**: for every type and every reader inside its input, parsing
  returns a value whose payload is exact if it is lazy and within the limit if it was
  copied, or an error, and leaves the reader inside its input, not before where it was. One
  lemma for each read path; the multiplication of length and width is where exactness is decided.
- **`TyProofs`, `ParseNeedsAll` and `ParseTransparent`**: an encoding cut at any byte is refused,
  and whether the reader lends its bytes changes only who owns a payload and whether the limit
  applies. Both compare two parses: of inputs of which one is a prefix of the other, and of
  readers that differ in `borrows`. One lemma for each read path again; the first rests on the
  widths of values (`ParseWidth`: a success consumes exactly the prefix and the payload).
- **`TyProofs`, `ParseReencodes` and `ParseAccepts`**: encoding what was parsed gives back the
  bytes that parsing consumed, for every type; and where an encoding of the type begins, parsing
  succeeds, unless the payload would be copied and is above the limit. So `Parse` refuses nothing
  but malformed input and what the limit is for. One lemma for each read path, over the
  integer round trips.
- **`DecoderProofs`**: `TypeOK`, `Contiguous`, `LazyPayload` and `OwnedBounded` hold of `Spec`. The inductive invariant is `TypeOK`, `Contiguous`,
  `ItemsReadable` (every decoded value is one that `ParseResult` describes; this gives
  `LazyPayload` and `OwnedBounded`, which say less than what a step preserves) and `AtFields`
  (a `VariantDecoder`'s reader is still right behind the tag; without it the step that
  turns it into a `Fields` would not establish `Contiguous`).
- **`DecoderProofs`**: `StaticWidth`, `TruncationRejected`, `BorrowTransparent`, `Reencodes` and
  `RejectsOnlyMalformed` also hold of `Spec`. They speak of items that were decoded in earlier
  states, so the invariant carries where each item came from (`ItemsParsed`: it is the result of
  parsing its field's type at its place in the input, which does not change); what it says
  follows from the theorems about `Parse`. `Reencodes` also speaks of the tag, which was read when
  the decoder was made, so the invariant there has the bytes from `start` to `first` as well
  (`TagRead`).
- **`DecoderProofs`, `TagsDecide`**: the action property `TagStep`. It compares what `decode_variant`
  does with what wincode writes: a tag that names a variant is read as its index
  (`ParseIntoUsizeWritten`), so the variant is opened; a tag that was read is written as the bytes
  it was read from, so the variant that is opened is named by them, and no other is
  (`OneNamed`, as the integers read back). A tag that is there in full is passed whatever it says
  (`ParseIntoUsizeWhole`).
- **`LazyVecProofs`**: `TypeOK`, `InBounds`, `ElementWise` and `EmptyMeansNone`, for any number of
  iterators.
  The invariant says that each iterator was validated against the vector's element type, is
  at most at its end, and has yielded what the elements before its index decode to. The
  vector's payload is exact by `ParseResult`; so the start of an element, which is computed
  with wrapping, is the true product and a whole element lies behind it. A scalar read
  looks at its own bytes only (`ReadIsLocal`), so each item depends on its element alone.
- **`LazyVecProofs`**: `IsVector`, the refinement, and `DynBounded`. An iterator is mapped to what
  it has yielded and what is left, so making, copying, dropping and advancing iterators map to
  `Iterate`, `Copy`, `Stop` and `Yield` by the same invariant. `Convert` is the step
  with an induction: after n elements the reader of `into_dyn_vec` is at the start of
  element n + 1 and the values are those of the first n elements, or the first error is
  kept (`After`, `AfterStep`), so that what it returns is `Vector`'s `Collected` (`DynVecResult`).
- **`LenMapProofs`**: `TypeOK`, `Initialised`, `InCapacity`, `OnceEach`, `Full` and
  `TrustedReads`, for every length, width and input. The invariant gives for every place in the
  loop how many elements have been read, mapped, written and counted, and for a call that
  has been left what was dropped. `Initialised` is not inductive by itself: `set_len` keeps it only
  because the slot was written in the step before.

- **`DeriveProofs`**: `ParseWritten`, that `Parse` by the runtime type (`TYPE`) of a Rust type reads
  back what wincode writes for any value of it, by the round trips of `TyProofs` and
  `IntegerProofs`, so the two agree on widths, prefixes and lengths; `ParseArrived`, that of a
  value cut short nothing is read, by `ParseNeedsAll`; and `RecordLength`. A container's
  fields, their encodings and their sizes are folded by three functions over the fields. What
  they do is proved by `UpTo` again: the n-th piece of a concatenation lies behind the first
  n - 1 (`FlattenPlaces`, in
  `IntegerProofs`), known sizes add up to lengths (`KnownSizeIsLength`), and skipped fields
  neither show nor take bytes (`ShowsResult`).
- **`StreamProofs`, `Stream`**: `StreamTypeOK`, `PrefixCorrect`, `RootSizeExact`,
  `SerializedSizeTight`, `AtRecord`, `SizesExact`, and that every step of a stream is one of
  `RecordStream` or changes nothing there (`DeliversRecords`), for every container, all records and
  any number of them. The invariant (`StreamInv`) says where the reader must be: at the start of
  the next record, or, while a decoder is lent it, behind the fields that decoder has
  yielded, each of which is at its place and is the value that was sent (`InPlace`). `AtRecord` alone is not
  inductive: it says nothing while the reader is lent. `InPlace` is conditional on `Intact` and
  `IntactFields`, so that the same invariant gives `PrefixCorrect`, which is about adapters that change
  the wire format: a step is right if all before it kept the format, and unconstrained if not.
  `Decoding`, which has no such condition, is what a decoder keeps to even then.
- **`StreamProofs`, `Session`**: `FailsOnlyOnMissing` and `PrefixDelivered`, for every cut. The lemmas
  about the consumer's steps are stated for a stream that begins anywhere in its input and of
  which a part may be missing: a step either keeps the invariant or fails, and then the record has
  not arrived (`Missing`). `Stream` is the case in which nothing is missing.
- **`InferProofs`**: `AllReplaced` and `RoundTrip`, for field types and adapters of any depth and
  any number of arguments. What is true of a type if it is true of its arguments is true of all types
  (`TypeInduction`, by `UpTo` over the levels of `Types`), and a traversal makes of a type what its
  visitor makes of the arguments' results (`TraversalExists`). `AllReplaced` counts: visiting
  a type takes as many types from the queue as it has placeholders, fails if and only if there are
  fewer, and leaves none, because what it puts in has none (`InferredFits`). The invariant (`InferInv`) says what the
  queue and the adapter are before and after each of the two steps; that a field without generic arguments
  stands for itself is where the bound is one and not zero. `RoundTrip` needs the order
  too: the outline of a type, visited with a queue that begins with what was collected from
  that type, takes exactly this much from it and becomes that type (`OutlineFilled`). The arguments of a type take
  consecutive parts of the queue (`RestsExist`), which are concatenated when they are collected.
  `Regular` is needed at one place, for an argument that is a tuple (`LeafFilled`).

Two hypotheses are part of these theorems. `FormatKept`, of `AtRecord`, `SizesExact`,
`DeliversRecords` and both of `Session`, says that no adapter changes the wire format. This is what the
doc of `SchemaDynamic` demands (lib.rs:354) and nothing enforces; the run `adapters` and
`PrefixIsCorrect` say what remains true without it, and with it the adapters that have a `TYPE_META` of their
own are still there. `Inhabited`, of `SerializedSizeTight`, says that `Samples` has some value of the
type of each field: that some record is as long as the bound cannot hold of a variant
without values.

Only model-checked: `FieldsEnd`, `SessionEnds` and the liveness half of `Delivery`, that every record is
delivered in the end, which rest on fairness and on ENABLED and so are outside the prover's
reach. Every invariant and action property that a run checks is a theorem, under the hypotheses above;
the exception is `SizeIsComplete` of `size_overflow`, which is false.

## What is not modelled

- The derive macro's token generation, attribute parsing and generics: compile-time text
  processing. A container is what the attributes say.
- The encoding of `RootSchema` itself, which wincode's own derives generate and no line of this
  repository fixes beyond the order of the fields: in `Session` it is there in full or not. A received schema is otherwise any member of `Roots`, so also one no
  producer would derive.
- Two habits of the placeholder inference are in `Infer` but excluded from what `RoundTrip` claims:
  of a tuple that is a generic argument both the tuple and the arguments inside it are collected
  (`Regular`), and `_` as the element of a slice is not replaced.
- Readers that are neither slices nor lent, which nobody can use again and so behave as
  lent ones. The contents of positions that a failed wincode read skips.
- Names, accessors, formatting, and the proptest settings. The compile-fail test has no
  behaviour; what it tests, that a `SERIALIZED_SIZE` beyond `usize` does not compile, is a
  conjunct of `Compiles`.

## Plan

Done, in this order: `Wincode` and `Ty`, `Decoder`, `LazyVec`, `LenMap`, the proofs about
these; `Derive`, `RecordStream` and `Stream`; `RustTypes`, adapters that break the format, `Vector`
and its refinement, `Session` and `Infer`; the proofs that compare parses; the integer round
trips, the proofs about `Encode`, and the proof of the refinement of `Vector`; the proofs about
`Derive`, `Stream` and `Session`; `Infer` without recursive operators and the proofs about it.

What would be next:

1. `into_dyn_vec` as a composition of `LazyVec` and `LenMap`, so that a panic while an element is
   converted is one of the steps of a program that also holds iterators.
2. `Session` with the encoding of `RootSchema` in place of a buffer that is complete or not, once wincode's
   derives are fixed by a specification of their own.
