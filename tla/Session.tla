-------------------------------- MODULE Session --------------------------------
(***************************************************************************)
(* The schema travels with the records (the README's "Send the schema,     *)
(* then values"): a producer sends the encoding of its RootSchema in one   *)
(* buffer and its records in another, either may be cut short at any byte, *)
(* and a consumer that knows nothing else deserializes the schema, decodes *)
(* record after record, and stops at the first error.  The encoding of a   *)
(* schema is wincode's own: it is there in full or it is not.              *)
(***************************************************************************)
EXTENDS Stream

VARIABLES
  announced, \* the buffer of the schema is complete
  phase      \* of the consumer: "schema", "records" or "failed"

sessionVars == <<streamVars, announced, phase>>

NoSchema == [k |-> "None", variants |-> <<>>]

SessionInit ==
  /\ container \in {c \in Containers : Compiles(c)}
  /\ sent \in BoundedSeq(Records(container), MaxRecords)
  /\ Len(Encoded(container, sent)) \in Usize
  /\ \E cut \in 0 .. Len(Encoded(container, sent)) :
       reader \in [buf : {SubSeq(Encoded(container, sent), 1, cut)}, pos : {0}, borrows : BOOLEAN]
  /\ reader.borrows \/ \A i \in DOMAIN sent : Fits(sent[i])
  /\ root = NoSchema
  /\ handle = NoHandle /\ items = <<>>
  /\ delivered = <<>> /\ peeked = FALSE
  /\ announced \in BOOLEAN
  /\ phase = "schema"

\* Deserializes the schema from its own buffer.
ReceiveSchema ==
  /\ phase = "schema"
  /\ root' = IF announced THEN SchemaOf(container) ELSE root
  /\ phase' = IF announced THEN "records" ELSE "failed"
  /\ UNCHANGED <<reader, handle, items, container, sent, delivered, peeked, announced>>

\* fields(&mut reader)? and field?: the first error ends the consumer.
OpenRecord ==
  /\ phase = "records" /\ Consume
  /\ phase' = IF handle'.k = "None" THEN "failed" ELSE phase
  /\ UNCHANGED announced

\* Mutant: a field that cannot be decoded is passed over.
ReadField_Lenient == phase = "records" /\ ReadNext /\ UNCHANGED <<announced, phase>>

ReadField ==
  /\ phase = "records" /\ ReadNext
  /\ phase' = IF Last(items').ok THEN phase ELSE "failed"
  /\ UNCHANGED announced

NextRecord ==
  /\ phase = "records" /\ (ReadFields \/ Deliver)
  /\ UNCHANGED <<announced, phase>>

SessionNext == ReceiveSchema \/ OpenRecord \/ ReadField \/ NextRecord

\* The consumer goes on until it has the last record or an error.
SessionSpec == SessionInit /\ [][SessionNext]_sessionVars /\ WF_sessionVars(SessionNext)

-----------------------------------------------------------------------------
(***************************************************************************)
(* Properties.                                                             *)
(***************************************************************************)
\* Wherever the records are cut, what the consumer has is a prefix of what was sent,
\* right in every field: a truncated record is never taken for one (lib.rs:1728).
PrefixDelivered == Abstract!Safety

\* The consumer fails only where the next thing it needs, the schema or the next
\* record, has not arrived in full; so all records that have are delivered.
FailsOnlyOnMissing ==
  phase = "failed" =>
    \/ root = NoSchema /\ ~announced
    \/ /\ root # NoSchema /\ More
       /\ Len(reader.buf) < Len(Encoded(container, SubSeq(sent, 1, Len(delivered) + 1)))

\* It gets there: to the last record, or to an error.
SessionEnds == <>(phase = "failed" \/ (phase = "records" /\ ~More))
=============================================================================
