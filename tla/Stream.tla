-------------------------------- MODULE Stream --------------------------------
(***************************************************************************)
(* Producer and consumer: values of a derived container are serialized one *)
(* after the other, and a program that has only the derived schema decodes *)
(* them from one reader, as in the test                                    *)
(* enum_variants_decode_consecutively_from_a_mutable_reader (lib.rs:1261). *)
(* It lends the reader to a decoder for each record, by way of             *)
(* Decoder::fields or decode_variant, and may look at each record once     *)
(* before that with a copy of the reader.                                  *)
(***************************************************************************)
EXTENDS Derive

CONSTANTS
  Containers,  \* the types with the derive
  Samples(_),  \* some values of each Rust type: the Values it is to be decoded to, lent
  MaxRecords   \* bound on the records in a stream

\* The index of every variant is a number of the tag's type and of a usize, the only ones that
\* decode_variant makes an index of.
TagsFit(c) ==
  /\ TagEncoding(c) \notin {"f32", "f64", "bool"}
  /\ \A v \in DOMAIN c.variants : v - 1 \in Usize /\ InRange(DynPrimitiveTy[TagEncoding(c)], v - 1)

ASSUME StreamAssumption ==
  /\ Containers \subseteq Container
  /\ \A c \in Containers : IF c.k = "Struct" THEN Len(c.variants) = 1 ELSE TagsFit(c)
  /\ \A c \in Containers : \A fs \in Range(c.variants) : \A f \in Range(fs) :
       ~f.skip /\ FieldBounds(f) => \A v \in Samples(f.ty) : Holds(f.ty, v)
  /\ MaxRecords \in Nat

VARIABLES
  container,  \* the type both programs know as
  sent,       \* its values, in the order they were serialized
  delivered,  \* the values the consumer has decoded
  peeked      \* the consumer has looked at the next record

streamVars == <<vars, container, sent, delivered, peeked>>

\* The values of the first fields, and one of the next.
AndOne(firsts, t) == {Append(vals, v) : vals \in firsts, v \in Samples(t)}

\* The values of a variant: one for each field, skipped ones included.
ValuesOf(fs) ==
  LET some[i \in 0 .. Len(fs)] == IF i = 0 THEN {<<>>} ELSE AndOne(some[i - 1], fs[i].ty)
  IN  some[Len(fs)]

Records(c) ==
  UNION {{[variant |-> v, vals |-> vals] : vals \in ValuesOf(c.variants[v])} :
           v \in DOMAIN c.variants}

Encoded(c, recs) == FlattenSeq([i \in DOMAIN recs |-> EncodeRecord(c, recs[i])])

\* A reader that copies refuses payloads above the limit.
Fits(rec) ==
  \A i \in DOMAIN rec.vals : rec.vals[i].k # "Primitive" => Len(rec.vals[i].raw) <= PreallocLimit

\* The application stops at the last record: it knows how many there are.
More == Len(delivered) < Len(sent)

(***************************************************************************)
(* The consumer.                                                           *)
(***************************************************************************)
Consumer == UNCHANGED <<container, sent, delivered, peeked>>

\* Opens the next record with the reader itself.
Consume ==
  /\ More
  /\ DecodeVariant(TRUE) \/ DecoderFields(TRUE)
  /\ Consumer

\* Opens it with a copy, and drops the decoder anywhere.
Peek ==
  /\ More /\ ~peeked
  /\ DecodeVariant(FALSE) \/ DecoderFields(FALSE)
  /\ peeked' = TRUE
  /\ UNCHANGED <<container, sent, delivered>>

DropPeek == Live /\ ~handle.byRef /\ Drop /\ Consumer

ReadFields == VariantFields /\ Consumer

ReadNext == FieldsNext /\ Consumer

\* What the iterator yielded, whoever owns the payloads.
Yielded == [variant |-> handle.variant, vals |-> [i \in DOMAIN items |-> Plain(items[i].val)]]

\* Mutant: the iterator is kept and its items handed over again.
Deliver_Again ==
  /\ handle.k = "Fields" /\ handle.byRef /\ Remaining = 0
  /\ delivered' = Append(delivered, Yielded)
  /\ peeked' = FALSE
  /\ UNCHANGED <<vars, container, sent>>

\* next has returned None: the items are collected and the iterator dropped.
Deliver ==
  /\ handle.k = "Fields" /\ handle.byRef /\ Remaining = 0
  /\ \A i \in DOMAIN items : items[i].ok
  /\ delivered' = Append(delivered, Yielded)
  /\ peeked' = FALSE
  /\ Drop
  /\ UNCHANGED <<container, sent>>

StreamInit ==
  /\ container \in {c \in Containers : Compiles(c)}
  /\ sent \in BoundedSeq(Records(container), MaxRecords)
  /\ root = SchemaOf(container)
  /\ Len(Encoded(container, sent)) \in Usize
  /\ reader \in [buf : {Encoded(container, sent)}, pos : {0}, borrows : BOOLEAN]
  /\ reader.borrows \/ \A i \in DOMAIN sent : Fits(sent[i])
  /\ handle = NoHandle /\ items = <<>>
  /\ delivered = <<>> /\ peeked = FALSE

StreamNext == Consume \/ Peek \/ DropPeek \/ ReadFields \/ ReadNext \/ Deliver

\* The consumer is one thread that goes on until it has read the last record.
StreamSpec == StreamInit /\ [][StreamNext]_streamVars /\ WF_streamVars(StreamNext)

-----------------------------------------------------------------------------
(***************************************************************************)
(* Properties.                                                             *)
(***************************************************************************)
\* The type invariant: the derived schema is one a Decoder accepts, and a consumer
\* has no more records than were sent.
StreamTypeOK ==
  /\ root \in RootSchema
  /\ container \in Containers
  /\ delivered \in Seq([variant : Nat, vals : Seq(Value)])
  /\ Len(delivered) <= Len(sent)
  /\ peeked \in BOOLEAN

\* The fields of a record the schema shows.
Shown(rec) ==
  LET shows == Shows(container.variants[rec.variant])
  IN  [variant |-> rec.variant, vals |-> [i \in DOMAIN shows |-> rec.vals[shows[i]]]]

Abstract == INSTANCE RecordStream
  WITH Record <- [variant : Nat, vals : Seq(Value)],
       sent   <- [i \in DOMAIN sent |-> Shown(sent[i])]

\* The consumer, which has only the schema, decodes every record, once, in order,
\* to the values that were serialized less the skipped fields, and looking ahead
\* with a copy does not disturb that (lib.rs:1261, for every derived type).
Delivery == Abstract!Spec

\* Unless it is lent to a decoder, the reader is exactly at the next record,
\* whatever a copy of it has done (the test's assert_eq!(reader, ..), lib.rs:1289).
AtRecord ==
  ~(Live /\ handle.byRef) =>
    reader.pos = Len(Encoded(container, SubSeq(sent, 1, Len(delivered))))

\* A decoder that has read all of its fields has consumed what the derived schema
\* says: the size of each field, of the variant's or struct's fields, and of the
\* whole value with its tag, wherever one is given (lib.rs:37, 224 and 277).
SizesExact ==
  handle.k = "Fields" /\ Remaining = 0 =>
    LET end    == HandleReader.pos
        schema == root.variants[handle.variant]
        whole  == IF root.k = "Struct" THEN schema.size ELSE root.size
    IN  /\ schema.size # <<>> => end - handle.first = schema.size[1]
        /\ whole # <<>> => end - handle.start = whole[1]
        /\ \A i \in DOMAIN items :
             LET it == items[i]
             IN  it.def.size # <<>> => it.to - it.from = it.def.size[1]

\* The fixed size of the root, where the schema gives one, is the length of every
\* record, tag included, even if an adapter changes the wire format (lib.rs:237).
RootSizeExact ==
  LET size == IF root.k = "Struct" THEN root.variants[1].size ELSE root.size
  IN  size # <<>> =>
        \A rec \in Records(container) : Len(EncodeRecord(container, rec)) = size[1]

\* What of record n the schema promises to show: the variant if every earlier record
\* keeps the format, and a field if also every field up to it does.
Intact(n) ==
  \A j \in 1 .. n - 1 : \A f \in Range(container.variants[sent[j].variant]) : KeepsFormat(f)

IntactFields(n) ==
  LET kept == Kept(container.variants[sent[n].variant])
  IN  {i \in DOMAIN kept : \A j \in 1 .. i : KeepsFormat(kept[j])}

\* An adapter that changes the wire format (lib.rs:354) spoils its field and what is
\* behind it, never what is before it: that is decoded to what was serialized.
PrefixCorrect ==
  /\ Live /\ More /\ Intact(Len(delivered) + 1) =>
       LET n == Len(delivered) + 1
       IN  /\ handle.variant = sent[n].variant
           /\ \A i \in DOMAIN items \cap IntactFields(n) :
                items[i].ok /\ Plain(items[i].val) = Shown(sent[n]).vals[i]
  /\ \A n \in DOMAIN delivered : Intact(n + 1) => delivered[n] = Shown(sent[n])

\* SERIALIZED_SIZE is a tight bound (lib.rs:337), also with adapters that change the
\* wire format, whose own metadata it uses (lib.rs:351): no record is longer than
\* Static(n) and some record is that long; a record has at most the n bytes of
\* Dynamic(n) in its tag and its fields of a known size, and some has as many.
SerializedSizeTight ==
  LET s == SERIALIZED_SIZE(container)
      known(rec) ==
        LET fs == container.variants[rec.variant]
        IN  Len(EncodeTag(container, rec.variant))
              + Len(FlattenSeq([i \in DOMAIN fs |->
                                  IF fs[i].skip \/ AdapterMeta(fs[i]) = <<>> THEN <<>>
                                  ELSE EncodeField(fs[i], rec.vals[i])]))
      length(rec) == IF s.k = "Dynamic" THEN known(rec) ELSE Len(EncodeRecord(container, rec))
  IN  /\ \A rec \in Records(container) : length(rec) <= s.n
      /\ Records(container) # {} => \E rec \in Records(container) : length(rec) = s.n
=============================================================================
