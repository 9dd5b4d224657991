-------------------------------- MODULE Derive --------------------------------
(***************************************************************************)
(* What #[derive(SchemaDynamic)] generates for a struct or enum            *)
(* (wincode_dynamic.rs of the derive crate): the runtime schema and        *)
(* SERIALIZED_SIZE; and what wincode's own derives, which read the same    *)
(* attributes, write for its values.  Token generation is left out: a      *)
(* container is its fields and attributes, and the operators say what the  *)
(* generated code evaluates to.                                            *)
(***************************************************************************)
EXTENDS Decoder, RustTypes, SequencesExt

\* with: the adapter (with = ...), if any.  "Same" keeps the wire representation,
\* as SchemaDynamic asks for (lib.rs:354), but its TYPE_META is Dynamic.  "Wide"
\* does not: it writes the number, or the length prefix, twice as wide.  An
\* adapter with the type's own representation and TYPE_META is the same as none.
Adapter == {"None", "Same", "Wide"}

ContainerField == [ty : RustTy \cup {Other}, skip : BOOLEAN, with : Adapter]

\* Written as the schema says: skipped fields are not written at all.
KeepsFormat(f) == f.skip \/ f.with # "Wide" \/ f.ty.k = "Array"

\* A struct keeps its fields where an enum keeps those of its variants.  The
\* variants of an enum have no tag attributes: the macro refuses them.
Container ==
       [k : {"Struct"}, variants : Seq(Seq(ContainerField))]
  \cup [k : {"Enum"}, variants : Seq(Seq(ContainerField)), tag : {<<>>} \cup {<<p>> : p \in RustPrimitive}]

\* The tag_encoding attribute, or DefaultConfig's TagEncoding.
TagEncoding(c) == IF c.tag = <<>> THEN "u32" ELSE c.tag[1]

\* The indices of the fields without #[wincode(skip)], in order.
Shows(fs) ==
  LET shows[i \in 0 .. Len(fs)] ==
        IF i = 0 THEN <<>> ELSE IF fs[i].skip THEN shows[i - 1] ELSE Append(shows[i - 1], i)
  IN  shows[Len(fs)]

Kept(fs) == LET shows == Shows(fs) IN [j \in DOMAIN shows |-> fs[shows[j]]]

(***************************************************************************)
(* TYPE_META, as the code uses it.                                         *)
(***************************************************************************)
\* What the static ones of metas add up to.
KnownSize(metas) ==
  LET known[i \in 0 .. Len(metas)] ==
        IF i = 0 THEN 0 ELSE known[i - 1] + IF metas[i] = <<>> THEN 0 ELSE metas[i][1]
  IN  known[Len(metas)]

\* The sum of metas if all are static.
SumMeta(metas) == IF <<>> \in Range(metas) THEN <<>> ELSE <<KnownSize(metas)>>

\* The adapter's own.
AdapterMeta(f) ==
  IF f.with = "Wide" /\ f.ty.k = "primitive" THEN <<2 * SizeOf(f.ty.ty)>>
  ELSE IF f.with = "Same" THEN <<>> ELSE TypeMeta(f.ty)

\* Mutant: that of the Rust type.
FieldWriteTypeMeta_OfType(f) == IF f.skip THEN <<0>> ELSE TypeMeta(f.ty)

\* field_write_type_meta.
FieldWriteTypeMeta(f) == IF f.skip THEN <<0>> ELSE AdapterMeta(f)

VariantMetas(fs) == [i \in DOMAIN fs |-> FieldWriteTypeMeta(fs[i])]

\* Of the container itself, from wincode's derives.  An enum is Dynamic when its
\* variants have different sizes.
ContainerMeta(c) ==
  LET meta(f) == IF f.skip THEN <<0>> ELSE AdapterMeta(f)
      sizes   == {SumMeta([i \in DOMAIN fs |-> meta(fs[i])]) : fs \in Range(c.variants)}
      size    == CHOOSE s \in sizes : TRUE
  IN  IF \A s \in sizes : s = <<>> \/ sizes # {s} THEN <<>>
      ELSE IF c.k = "Struct" THEN size
      ELSE <<SizeOf(TagEncoding(c)) + size[1]>>

(***************************************************************************)
(* SERIALIZED_SIZE: [k, n] for Static(n) and Dynamic(n).  Its checked sums *)
(* overflow in const evaluation, so such a container does not compile.     *)
(***************************************************************************)
SerializedSize(meta, metas) ==
  IF meta # <<>> THEN [k |-> "Static", n |-> meta[1]]
  ELSE [k |-> IF <<>> \in Range(metas) THEN "Dynamic" ELSE "Static", n |-> KnownSize(metas)]

\* Mutant: dynamic variants do not compete for the maximum.
EnumSerializedSize_StaticOnly(meta, tagSize, sizes) ==
  IF meta # <<>> THEN [k |-> "Static", n |-> meta[1]]
  ELSE IF sizes = {} THEN [k |-> "Static", n |-> 0]
  ELSE [k |-> IF \E s \in sizes : s.k = "Dynamic" THEN "Dynamic" ELSE "Static",
        n |-> tagSize + Max({s.n : s \in {z \in sizes : z.k = "Static"}} \cup {0})]

EnumSerializedSize(meta, tagSize, sizes) ==
  IF meta # <<>> THEN [k |-> "Static", n |-> meta[1]]
  ELSE IF sizes = {} THEN [k |-> "Static", n |-> 0]
  ELSE [k |-> IF \E s \in sizes : s.k = "Dynamic" THEN "Dynamic" ELSE "Static",
        n |-> tagSize + Max({s.n : s \in sizes})]

SERIALIZED_SIZE(c) ==
  IF c.k = "Struct" THEN SerializedSize(ContainerMeta(c), VariantMetas(c.variants[1]))
  ELSE EnumSerializedSize(ContainerMeta(c), SizeOf(TagEncoding(c)),
         {SerializedSize(<<>>, VariantMetas(c.variants[v])) : v \in DOMAIN c.variants})

\* The bounds of the generated impl: a field has to implement DynTy, unless it is skipped.
FieldBounds(f) == f.skip \/ f.ty \in RustTy

Compiles(c) ==
  /\ \A fs \in Range(c.variants) : \A f \in Range(fs) :
       /\ FieldBounds(f)
       /\ ~f.skip => LET m == TypeMeta(f.ty) IN m = <<>> \/ m[1] \in Usize
  /\ SERIALIZED_SIZE(c).n \in Usize

(***************************************************************************)
(* SchemaDynamic::schema.                                                  *)
(***************************************************************************)
\* Of the Rust type, whatever the adapter.
FieldToTokens(f) == [ty |-> TYPE(f.ty), size |-> TypeMeta(f.ty)]

\* Mutant: fields of unknown size count for nothing.
VariantSize_IgnoresDynamic(fs) == <<KnownSize([i \in DOMAIN fs |-> TypeMeta(fs[i].ty)])>>

\* Some(0).and_then(...) over the kept fields, by the size of their own types.
VariantSize(fs) ==
  LET sum == SumMeta([i \in DOMAIN fs |-> TypeMeta(fs[i].ty)])
  IN  IF sum # <<>> /\ sum[1] \notin Usize THEN <<>> ELSE sum

\* Mutant: skipped fields are listed too.
FieldDefs_All(fs) == [i \in DOMAIN fs |-> FieldToTokens(fs[i])]

FieldDefs(fs) == LET kept == Kept(fs) IN [i \in DOMAIN kept |-> FieldToTokens(kept[i])]

\* Mutant: the size of a struct is the sum over its Rust types.
SchemaOf_Summed(c) ==
  LET schema(v) == [fields |-> FieldDefs(c.variants[v]), size |-> VariantSize(Kept(c.variants[v]))]
      schemas   == [v \in DOMAIN c.variants |-> schema(v)]
  IN  IF c.k = "Struct" THEN [k |-> "Struct", variants |-> schemas]
      ELSE [k |-> "Enum", variants |-> schemas, size |-> ContainerMeta(c), tag |-> DynPrimitiveTy[TagEncoding(c)]]

SchemaOf(c) ==
  LET schema(v) == [fields |-> FieldDefs(c.variants[v]),
                    size   |-> IF c.k = "Struct" THEN ContainerMeta(c)
                                                 ELSE VariantSize(Kept(c.variants[v]))]
      schemas   == [v \in DOMAIN c.variants |-> schema(v)]
  IN  IF c.k = "Struct" THEN [k |-> "Struct", variants |-> schemas]
      ELSE [k |-> "Enum", variants |-> schemas, size |-> ContainerMeta(c), tag |-> DynPrimitiveTy[TagEncoding(c)]]

(***************************************************************************)
(* wincode::serialize: the tag, a number of the encoding the container     *)
(* asks for, then every field that is not skipped.  rec.vals has a value   *)
(* for every field of the variant, skipped ones included.                  *)
(***************************************************************************)
EncodeTag(c, v) ==
  IF c.k = "Struct" THEN <<>>
  ELSE LittleEndian(v - 1, SizeOf(TagEncoding(c)))

EncodeField(f, val) ==
  IF f.skip THEN <<>> ELSE Write(f.ty, val, IF f.with = "Wide" THEN 2 ELSE 1)

EncodeRecord(c, rec) ==
  LET fs == c.variants[rec.variant]
  IN  EncodeTag(c, rec.variant)
        \o FlattenSeq([i \in DOMAIN fs |-> EncodeField(fs[i], rec.vals[i])])
=============================================================================
