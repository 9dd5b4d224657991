-------------------------------- MODULE LenMap --------------------------------
(***************************************************************************)
(* One call of the LenMap adapter, or of Map which reads the length first  *)
(* (wincode_extra.rs): read len values of a type A, map each to a B, and   *)
(* write it into the spare capacity of a Vec<B> through a raw pointer,     *)
(* with set_len after each.  A read may fail and the mapper may panic      *)
(* between any two elements; either drops the Vec, and with it the B       *)
(* values that set_len has told it of.                                     *)
(*                                                                         *)
(* The n-th B is the number n, and its slot in the Vec is slot n.  What    *)
(* the bytes say is left open: a read of enough bytes may succeed or not.  *)
(***************************************************************************)
EXTENDS Wincode

CONSTANTS
  Lens,     \* the lengths asked for
  Avails,   \* the number of bytes the reader may hold
  Widths,   \* the widths A may have
  SizeOfB   \* size_of::<B>()

ASSUME LenMapAssumption ==
  /\ Lens \subseteq 0 .. UsizeMax
  /\ Avails \subseteq Nat
  /\ Widths \subseteq Nat
  /\ SizeOfB \in Nat

VARIABLES
  call,    \* the call: [viaMap, len, static, width]; width: A's, if static
  avail,   \* bytes left in the reader
  pc,      \* where the call is
  i,       \* the loop variable
  trusted, \* bytes the trusted reader may still read unchecked
  cap,     \* the Vec's capacity
  vecLen,  \* the Vec's len
  slots,   \* the slots that hold a B
  mapped,  \* the B that was mapped and not yet written: a set of at most one
  made,    \* how many B values the mapper has returned
  drops    \* how often each B has been dropped

vars == <<call, avail, pc, i, trusted, cap, vecLen, slots, mapped, made, drops>>

Calls == [viaMap : BOOLEAN, len : Lens, static : BOOLEAN, width : Widths]

(***************************************************************************)
(* Leaving the call with an error or a panic drops the Vec: its elements   *)
(* are slots 1 to vecLen, whatever they hold.                              *)
(***************************************************************************)
DropVec == drops' = [n \in DOMAIN drops |-> IF n <= vecLen THEN drops[n] + 1 ELSE drops[n]]

Leave(how) ==
  /\ pc' = how
  /\ DropVec
  /\ UNCHANGED <<call, i, trusted, cap, vecLen, slots, mapped, made>>

\* Map reads the length with read_prealloc_check::<B>; for LenMap the caller,
\* into_dyn_vec, has checked it.
ReadLength ==
  /\ pc = "length"
  /\ \/ /\ PreallocCheck(call.len, SizeOfB)
        /\ pc' = "alloc"
        /\ UNCHANGED <<call, avail, i, trusted, cap, vecLen, slots, mapped, made, drops>>
     \/ Leave("error") /\ UNCHANGED avail

\* Mutants: the length is set before the elements are there, and the capacity is
\* left for the Vec to find.
Alloc_Upfront ==
  /\ pc = "alloc"
  /\ cap' = call.len
  /\ vecLen' = call.len
  /\ pc' = IF call.static THEN "trust" ELSE "read"
  /\ UNCHANGED <<call, avail, i, trusted, slots, mapped, made, drops>>

Alloc_Nothing ==
  /\ pc = "alloc"
  /\ pc' = IF call.static THEN "trust" ELSE "read"
  /\ UNCHANGED <<call, avail, i, trusted, cap, vecLen, slots, mapped, made, drops>>

\* Vec::with_capacity(len).
Alloc ==
  /\ pc = "alloc"
  /\ cap' = call.len
  /\ pc' = IF call.static THEN "trust" ELSE "read"
  /\ UNCHANGED <<call, avail, i, trusted, vecLen, slots, mapped, made, drops>>

\* Mutant: one byte per element is taken to be enough.
Trust_Elements ==
  /\ pc = "trust"
  /\ IF call.len <= avail
     THEN /\ trusted' = call.len
          /\ pc' = "read"
          /\ UNCHANGED <<call, avail, i, cap, vecLen, slots, mapped, made, drops>>
     ELSE Leave("error") /\ UNCHANGED avail

\* reader.as_trusted_for_seq(len, size): all the bytes have to be there, and the
\* reads that follow do not look again.
Trust ==
  LET window == call.len * call.width
  IN  /\ pc = "trust"
      /\ IF window <= avail
         THEN /\ trusted' = window
              /\ pc' = "read"
              /\ UNCHANGED <<call, avail, i, cap, vecLen, slots, mapped, made, drops>>
         ELSE Leave("error") /\ UNCHANGED avail

\* Mutant: the loop goes on to the element after the last.
Read_Inclusive ==
  /\ pc = "read"
  /\ i <= call.len
  /\ \/ /\ call.static
        /\ pc' = "map"
        /\ trusted' = trusted - call.width
        /\ avail' = avail - call.width
        /\ UNCHANGED <<call, i, cap, vecLen, slots, mapped, made, drops>>
     \/ /\ ~call.static
        /\ pc' = "map"
        /\ \E n \in 0 .. avail : avail' = avail - n
        /\ UNCHANGED <<call, i, trusted, cap, vecLen, slots, mapped, made, drops>>
     \/ Leave("error") /\ UNCHANGED avail

\* A::get.  A value of dynamic size may take any number of bytes.
Read ==
  /\ pc = "read"
  /\ i < call.len
  /\ \/ /\ call.static
        /\ pc' = "map"
        /\ trusted' = trusted - call.width
        /\ avail' = avail - call.width
        /\ UNCHANGED <<call, i, cap, vecLen, slots, mapped, made, drops>>
     \/ /\ ~call.static
        /\ pc' = "map"
        /\ \E n \in 0 .. avail : avail' = avail - n
        /\ UNCHANGED <<call, i, trusted, cap, vecLen, slots, mapped, made, drops>>
     \/ Leave("error") /\ UNCHANGED avail

\* (f)(val): the mapper returns a B or panics.
MapValue ==
  /\ pc = "map"
  /\ \/ /\ mapped' = {i + 1}
        /\ made' = made + 1
        /\ pc' = "write"
        /\ UNCHANGED <<call, avail, i, trusted, cap, vecLen, slots, drops>>
     \/ Leave("panic") /\ UNCHANGED avail

\* ptr.add(i).write(mapped): the value moves into the slot.
Write ==
  /\ pc = "write"
  /\ slots' = slots \cup mapped
  /\ mapped' = {}
  /\ pc' = "set_len"
  /\ UNCHANGED <<call, avail, i, trusted, cap, vecLen, made, drops>>

\* Mutants: the length is set once, after the last element; or is set to i.
SetLen_Late ==
  /\ pc = "set_len"
  /\ vecLen' = IF i + 1 = call.len THEN i + 1 ELSE vecLen
  /\ i' = i + 1
  /\ pc' = "read"
  /\ UNCHANGED <<call, avail, trusted, cap, slots, mapped, made, drops>>

SetLen_OffByOne ==
  /\ pc = "set_len"
  /\ vecLen' = i
  /\ i' = i + 1
  /\ pc' = "read"
  /\ UNCHANGED <<call, avail, trusted, cap, slots, mapped, made, drops>>

\* vec.set_len(i + 1).
SetLen ==
  /\ pc = "set_len"
  /\ vecLen' = i + 1
  /\ i' = i + 1
  /\ pc' = "read"
  /\ UNCHANGED <<call, avail, trusted, cap, slots, mapped, made, drops>>

\* dst.write(vec): the Vec is the caller's.
Finish ==
  /\ pc = "read"
  /\ i = call.len
  /\ pc' = "ok"
  /\ UNCHANGED <<call, avail, i, trusted, cap, vecLen, slots, mapped, made, drops>>

\* The caller drops the Vec it got.
DropResult == pc = "ok" /\ Leave("dropped") /\ UNCHANGED avail

Init ==
  /\ call \in Calls
  /\ ~call.viaMap => PreallocCheck(call.len, SizeOfB)
  /\ avail \in Avails
  /\ pc = IF call.viaMap THEN "length" ELSE "alloc"
  /\ i = 0
  /\ trusted = 0
  /\ cap = 0
  /\ vecLen = 0
  /\ slots = {}
  /\ mapped = {}
  /\ made = 0
  /\ drops = [n \in 1 .. call.len |-> 0]

Next ==
  ReadLength \/ Alloc \/ Trust \/ Read \/ MapValue \/ Write \/ SetLen \/ Finish \/ DropResult

Spec == Init /\ [][Next]_vars

-----------------------------------------------------------------------------
(***************************************************************************)
(* Properties.                                                             *)
(***************************************************************************)

\* The type invariant.
TypeOK ==
  /\ call \in Calls
  /\ avail \in Nat
  /\ pc \in {"length", "alloc", "trust", "read", "map", "write", "set_len",
             "ok", "error", "panic", "dropped"}
  /\ i \in 0 .. call.len
  /\ trusted \in Nat
  /\ cap \in 0 .. call.len
  /\ vecLen \in 0 .. call.len
  /\ slots \subseteq 1 .. call.len
  /\ mapped \subseteq 1 .. call.len
  /\ made \in 0 .. call.len
  /\ drops \in [1 .. call.len -> Nat]

\* Wherever the call is left, the Vec says it holds only slots that have been
\* written: dropping it never drops uninitialized memory.
Initialised == 1 .. vecLen \subseteq slots

\* Every write through the raw pointer is inside the allocation, and so is what
\* the Vec says it holds.
InCapacity == slots \subseteq 1 .. cap /\ vecLen <= cap

\* Once the call has failed, or its result has been dropped, every value the
\* mapper returned has been dropped exactly once, and none that it did not
\* (the tests of wincode_extra.rs:155-239).
OnceEach ==
  pc \in {"error", "panic", "dropped"} =>
    \A n \in DOMAIN drops : drops[n] = IF n <= made THEN 1 ELSE 0

\* A call that succeeds hands over as many elements as were asked for, all
\* written, and none dropped.
Full == pc = "ok" => /\ vecLen = call.len /\ made = call.len
                     /\ slots = 1 .. call.len
                     /\ \A n \in DOMAIN drops : drops[n] = 0

\* The unchecked reads of the trusted reader stay inside the bytes that it was
\* given, and those inside the input (wincode_extra.rs:105).
TrustedReads ==
  pc = "read" /\ call.static /\ i < call.len =>
    call.width <= trusted /\ trusted <= avail
=============================================================================
