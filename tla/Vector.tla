-------------------------------- MODULE Vector --------------------------------
(***************************************************************************)
(* What a vector that is decoded lazily promises: it is a sequence whose   *)
(* elements were all decided when it was decoded, each a value or an       *)
(* error.  Iterators go through it one by one, whatever the others do, and *)
(* know how many elements they have left; converting it gives all values   *)
(* or the first error, or is refused as too large.                         *)
(***************************************************************************)
EXTENDS Naturals, Sequences

CONSTANTS
  Outcome,  \* [ok, val] of an element
  TooLarge  \* the error of a conversion that is refused

VARIABLES
  elems,   \* the outcome of every element
  held,    \* whether the program still has the vector
  iters,   \* of each iterator, what it has yielded and how much is left
  result   \* <<>>, or the outcome of the last conversion

vars == <<elems, held, iters, result>>

Init ==
  /\ elems \in Seq(Outcome)
  /\ held = TRUE
  /\ iters = <<>>
  /\ result = <<>>

\* Asking for an iterator may fail, and may use the vector up.
Iterate ==
  /\ held
  /\ held' \in BOOLEAN
  /\ \/ iters' = Append(iters, [yielded |-> <<>>, left |-> Len(elems)])
     \/ UNCHANGED iters
  /\ UNCHANGED <<elems, result>>

Copy(i) ==
  /\ iters' = Append(iters, iters[i])
  /\ UNCHANGED <<elems, held, result>>

Stop(i) ==
  /\ iters' = SubSeq(iters, 1, i - 1) \o SubSeq(iters, i + 1, Len(iters))
  /\ UNCHANGED <<elems, held, result>>

Yield(i) ==
  /\ iters[i].left > 0
  /\ iters' = [iters EXCEPT ![i] =
                 [yielded |-> Append(@.yielded, elems[Len(@.yielded) + 1]), left |-> @.left - 1]]
  /\ UNCHANGED <<elems, held, result>>

\* All the values, or the first error.
Collected ==
  LET failed == {n \in DOMAIN elems : ~elems[n].ok}
  IN  IF failed = {} THEN [ok |-> TRUE, val |-> [n \in DOMAIN elems |-> elems[n].val]]
      ELSE elems[CHOOSE n \in failed : \A m \in failed : n <= m]

Convert ==
  /\ held
  /\ held' \in BOOLEAN
  /\ \/ result' = <<Collected>>
     \/ result' = <<[ok |-> FALSE, val |-> TooLarge]>>
  /\ UNCHANGED <<elems, iters>>

Next ==
  \/ Iterate
  \/ Convert
  \/ \E i \in DOMAIN iters : Copy(i) \/ Stop(i) \/ Yield(i)

Spec == Init /\ [][Next]_vars
=============================================================================
