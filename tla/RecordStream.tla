----------------------------- MODULE RecordStream -----------------------------
(***************************************************************************)
(* What a stream of encoded records promises the program that reads it:    *)
(* the records that were written, each once, in order, and all of them.    *)
(***************************************************************************)
EXTENDS Naturals, Sequences

CONSTANT Record

VARIABLES
  sent,      \* the records in the stream
  delivered  \* the records the consumer has decoded

Init == sent \in Seq(Record) /\ delivered = <<>>

Deliver ==
  /\ Len(delivered) < Len(sent)
  /\ delivered' = Append(delivered, sent[Len(delivered) + 1])
  /\ UNCHANGED sent

\* What is delivered is a prefix of what was sent.
Safety == Init /\ [][Deliver]_<<sent, delivered>>

\* All of it is delivered in the end.
Spec == Safety /\ WF_<<sent, delivered>>(Deliver)
=============================================================================
