----------------------------- MODULE LenMapProofs -----------------------------
(***************************************************************************)
(* Memory safety of LenMap, for every length, width and input.  The        *)
(* properties are about the places where a call can be left; the inductive *)
(* invariant says, for every place in the loop, which elements have been   *)
(* read, mapped, written and counted there, and what a call that has been  *)
(* left has dropped.                                                       *)
(***************************************************************************)
EXTENDS LenMap, TLAPS

Looping == pc \in {"read", "map", "write", "set_len", "ok"}
Left    == pc \in {"error", "panic", "dropped"}

\* Elements the mapper has returned, and elements in the Vec's spare capacity.
Mapped  == IF pc \in {"write", "set_len"} THEN i + 1 ELSE i
Written == IF pc = "set_len" THEN i + 1 ELSE i

\* Elements whose bytes have not been read.
Unread == IF pc \in {"map", "write", "set_len"} THEN call.len - i - 1 ELSE call.len - i

InProgress ==
  ~Left => /\ made = Mapped
           /\ slots = 1 .. Written
           /\ vecLen = i
           /\ mapped = IF pc = "write" THEN {i + 1} ELSE {}
           /\ \A n \in 1 .. call.len : drops[n] = 0
           /\ Looping \/ i = 0
           /\ pc \in {"map", "write", "set_len"} => i < call.len
           /\ pc = "ok" => i = call.len

\* A mapper that panics has returned nothing, so what is left is what was counted.
Abandoned ==
  Left => /\ slots = 1 .. made
          /\ vecLen = made
          /\ mapped = {}
          /\ \A n \in 1 .. call.len : drops[n] = IF n <= made THEN 1 ELSE 0

Allocated ==
  /\ vecLen <= cap
  /\ Looping \/ pc = "trust" => cap = call.len
  /\ pc = "length" => cap = 0

Trusting ==
  call.static /\ Looping => trusted = Unread * call.width /\ trusted <= avail

Inv == TypeOK /\ InProgress /\ Abandoned /\ Allocated /\ Trusting

-----------------------------------------------------------------------------
LEMMA CallType ==
  ASSUME TypeOK
  PROVE  /\ call.viaMap \in BOOLEAN /\ call.static \in BOOLEAN
         /\ call.len \in Nat /\ call.width \in Nat
         /\ i \in Nat /\ vecLen \in Nat /\ cap \in Nat /\ made \in Nat
         /\ trusted \in Nat /\ avail \in Nat
<1>1. /\ call.viaMap \in BOOLEAN /\ call.static \in BOOLEAN
      /\ call.len \in Nat /\ call.width \in Nat
  <2>1. call \in Calls
    BY DEF TypeOK
  <2>2. call.len \in 0 .. UsizeMax /\ call.width \in Nat
    BY <2>1, LenMapAssumption DEF Calls
  <2> QED
    BY <2>1, <2>2, WincodeAssumption DEF Calls
<1>2. /\ i \in 0 .. call.len /\ vecLen \in 0 .. call.len /\ cap \in 0 .. call.len
      /\ made \in 0 .. call.len /\ trusted \in Nat /\ avail \in Nat
  BY DEF TypeOK
<1> QED
  BY <1>1, <1>2

LEMMA InitInv == Init => Inv
<1> SUFFICES ASSUME Init PROVE Inv
  OBVIOUS
<1>1. /\ call \in Calls /\ call.len \in Nat /\ call.viaMap \in BOOLEAN /\ avail \in Nat
  <2>1. call \in Calls /\ avail \in Nat
    BY LenMapAssumption DEF Init
  <2>2. call.len \in 0 .. UsizeMax /\ call.viaMap \in BOOLEAN
    BY <2>1, LenMapAssumption DEF Calls
  <2> QED
    BY <2>1, <2>2, LenMapAssumption
<1>2. /\ pc \in {"length", "alloc"} /\ i = 0 /\ trusted = 0 /\ cap = 0 /\ vecLen = 0
      /\ slots = {} /\ mapped = {} /\ made = 0
      /\ drops = [n \in 1 .. call.len |-> 0]
  BY <1>1 DEF Init
<1>3. TypeOK
  BY <1>1, <1>2 DEF TypeOK
<1>4. InProgress
  <2>1. 1 .. 0 = {}
    OBVIOUS
  <2> QED
    BY <1>1, <1>2, <2>1 DEF InProgress, Left, Looping, Mapped, Written
<1> QED
  BY <1>2, <1>3, <1>4 DEF Inv, Abandoned, Left, Allocated, Looping, Trusting

\* Wherever the code can fail or unwind, what the Vec counts is what is there.
LEMMA LeaveInv ==
  ASSUME Inv, pc \in {"length", "trust", "read", "map", "ok"},
         NEW how \in {"error", "panic", "dropped"}, Leave(how), avail' = avail
  PROVE  Inv'
<1>1. TypeOK
  BY DEF Inv
<1>2. /\ pc' = how /\ Left' /\ ~Looping'
      /\ UNCHANGED <<call, i, trusted, cap, vecLen, slots, mapped, made, avail>>
  BY DEF Leave, Left, Looping
<1>3. /\ made = i /\ vecLen = i /\ slots = 1 .. i /\ mapped = {}
      /\ \A n \in 1 .. call.len : drops[n] = 0
  BY DEF Inv, InProgress, Left, Mapped, Written
<1>4. drops \in [1 .. call.len -> Nat]
  BY <1>1 DEF TypeOK
<1>5. drops' = [n \in 1 .. call.len |-> IF n <= vecLen THEN drops[n] + 1 ELSE drops[n]]
  BY <1>4 DEF Leave, DropVec
<1>6. \A n \in 1 .. call.len : drops'[n] = IF n <= made THEN 1 ELSE 0
  BY <1>3, <1>5
<1>7. drops' \in [1 .. call.len -> Nat]
  BY <1>4, <1>5
<1>8. TypeOK'
  BY <1>1, <1>2, <1>7 DEF TypeOK
<1>9. Abandoned'
  BY <1>2, <1>3, <1>6 DEF Abandoned
<1> QED
  BY <1>2, <1>8, <1>9 DEF Inv, InProgress, Allocated, Looping, Trusting

LEMMA ReadLengthInv ==
  ASSUME Inv, ReadLength
  PROVE  Inv'
<1>1. pc = "length"
  BY DEF ReadLength
<1>2. ASSUME pc' = "alloc",
             UNCHANGED <<call, avail, i, trusted, cap, vecLen, slots, mapped, made, drops>>
      PROVE  Inv'
  <2>1. TypeOK'
    BY <1>2 DEF Inv, TypeOK
  <2>2. InProgress'
    BY <1>1, <1>2 DEF Inv, InProgress, Left, Looping, Mapped, Written
  <2> QED
    BY <1>1, <1>2, <2>1, <2>2 DEF Inv, Abandoned, Left, Allocated, Looping, Trusting
<1>3. CASE Leave("error") /\ UNCHANGED avail
  BY <1>1, <1>3, LeaveInv
<1> QED
  BY <1>2, <1>3 DEF ReadLength

LEMMA AllocInv ==
  ASSUME Inv, Alloc
  PROVE  Inv'
<1>1. /\ pc = "alloc" /\ pc' \in {"trust", "read"} /\ cap' = call.len
      /\ pc' = IF call.static THEN "trust" ELSE "read"
      /\ UNCHANGED <<call, avail, i, trusted, vecLen, slots, mapped, made, drops>>
  BY DEF Alloc
<1>2. TypeOK'
  BY <1>1, CallType DEF Inv, TypeOK
<1>3. InProgress'
  BY <1>1 DEF Inv, InProgress, Left, Looping, Mapped, Written
<1>4. i = 0 /\ vecLen = 0
  BY <1>1 DEF Inv, InProgress, Left, Looping
<1>5. Allocated'
  BY <1>1, <1>4, CallType DEF Inv, Allocated
<1>6. call.static => pc' = "trust"
  BY <1>1
<1> QED
  BY <1>1, <1>2, <1>3, <1>5, <1>6 DEF Inv, Abandoned, Left, Looping, Trusting

LEMMA TrustInv ==
  ASSUME Inv, Trust
  PROVE  Inv'
<1>1. pc = "trust"
  BY DEF Trust
<1>2. CASE call.len * call.width <= avail
  <2>1. /\ trusted' = call.len * call.width /\ pc' = "read"
        /\ UNCHANGED <<call, avail, i, cap, vecLen, slots, mapped, made, drops>>
    BY <1>2 DEF Trust
  <2>2. call.len * call.width \in Nat /\ call.len \in Nat /\ i = 0
    BY <1>1, CallType DEF Inv, InProgress, Left, Looping
  <2>3. TypeOK'
    BY <2>1, <2>2 DEF Inv, TypeOK
  <2>4. InProgress'
    BY <1>1, <2>1 DEF Inv, InProgress, Left, Looping, Mapped, Written
  <2>5. Unread' = call.len
    BY <2>1, <2>2 DEF Unread
  <2> QED
    BY <1>1, <1>2, <2>1, <2>3, <2>4, <2>5 DEF Inv, Abandoned, Left, Allocated, Looping, Trusting
<1>3. CASE ~(call.len * call.width <= avail)
  BY <1>1, <1>3, LeaveInv DEF Trust
<1> QED
  BY <1>2, <1>3

\* A trusted read takes its element's bytes from those set aside for the elements
\* that are left.
LEMMA ReadInv ==
  ASSUME Inv, Read
  PROVE  Inv'
<1>1. pc = "read" /\ i < call.len /\ TypeOK
  BY DEF Read, Inv
<1>2. ASSUME pc' = "map", avail' \in Nat, trusted' \in Nat,
             UNCHANGED <<call, i, cap, vecLen, slots, mapped, made, drops>>,
             Trusting'
      PROVE  Inv'
  <2>1. TypeOK'
    BY <1>1, <1>2 DEF TypeOK
  <2>2. InProgress'
    BY <1>1, <1>2 DEF Inv, InProgress, Left, Looping, Mapped, Written
  <2> QED
    BY <1>1, <1>2, <2>1, <2>2 DEF Inv, Abandoned, Left, Allocated, Looping
<1>3. ASSUME call.static, pc' = "map", trusted' = trusted - call.width,
             avail' = avail - call.width,
             UNCHANGED <<call, i, cap, vecLen, slots, mapped, made, drops>>
      PROVE  Inv'
  <2>1. /\ call.len \in Nat /\ call.width \in Nat /\ i \in Nat /\ trusted \in Nat
        /\ avail \in Nat
    BY <1>1, CallType
  <2>2. trusted = (call.len - i) * call.width /\ trusted <= avail
    BY <1>1, <1>3 DEF Inv, Trusting, Looping, Unread
  <2> DEFINE left == call.len - i - 1
  <2>3. left \in Nat /\ call.len - i = left + 1
    BY <1>1, <2>1
  <2>4. Unread' = left
    BY <1>3 DEF Unread
  <2> HIDE DEF left
  <2>5. (left + 1) * call.width = left * call.width + call.width /\ left * call.width \in Nat
    BY <2>1, <2>3
  <2>6. trusted' = left * call.width
    BY <1>3, <2>1, <2>2, <2>3, <2>5
  <2>7. trusted' \in Nat /\ avail' \in Nat /\ trusted' <= avail'
    BY <1>3, <2>1, <2>2, <2>3, <2>5, <2>6
  <2> QED
    BY <1>2, <1>3, <2>6, <2>7, <2>4 DEF Trusting
<1>4. ASSUME ~call.static, pc' = "map", NEW n \in 0 .. avail, avail' = avail - n,
             UNCHANGED <<call, i, trusted, cap, vecLen, slots, mapped, made, drops>>
      PROVE  Inv'
  <2>1. avail' \in Nat /\ trusted' \in Nat
    BY <1>1, <1>4, CallType
  <2> QED
    BY <1>2, <1>4, <2>1 DEF Trusting
<1>5. CASE Leave("error") /\ UNCHANGED avail
  BY <1>1, <1>5, LeaveInv
<1> QED
  BY <1>3, <1>4, <1>5 DEF Read

LEMMA MapValueInv ==
  ASSUME Inv, MapValue
  PROVE  Inv'
<1>1. pc = "map" /\ TypeOK
  BY DEF MapValue, Inv
<1>2. ASSUME mapped' = {i + 1}, made' = made + 1, pc' = "write",
             UNCHANGED <<call, avail, i, trusted, cap, vecLen, slots, drops>>
      PROVE  Inv'
  <2>1. made = i /\ i < call.len /\ i \in Nat /\ call.len \in Nat
    BY <1>1, CallType DEF Inv, InProgress, Left, Mapped
  <2>2. TypeOK'
    BY <1>1, <1>2, <2>1 DEF TypeOK
  <2>3. InProgress'
    BY <1>1, <1>2, <2>1 DEF Inv, InProgress, Left, Looping, Mapped, Written
  <2>4. Unread' = Unread
    BY <1>1, <1>2 DEF Unread
  <2> QED
    BY <1>1, <1>2, <2>2, <2>3, <2>4 DEF Inv, Abandoned, Left, Allocated, Looping, Trusting
<1>3. CASE Leave("panic") /\ UNCHANGED avail
  BY <1>1, <1>3, LeaveInv
<1> QED
  BY <1>2, <1>3 DEF MapValue

LEMMA WriteInv ==
  ASSUME Inv, Write
  PROVE  Inv'
<1>1. /\ pc = "write" /\ pc' = "set_len" /\ slots' = slots \cup mapped /\ mapped' = {}
      /\ UNCHANGED <<call, avail, i, trusted, cap, vecLen, made, drops>>
  BY DEF Write
<1>2. /\ i < call.len /\ i \in Nat /\ call.len \in Nat
      /\ slots = 1 .. i /\ mapped = {i + 1} /\ made = i + 1
  BY <1>1, CallType DEF Inv, InProgress, Left, Mapped, Written
<1>3. slots' = 1 .. i + 1
  BY <1>1, <1>2
<1>4. TypeOK'
  BY <1>1, <1>2, <1>3 DEF Inv, TypeOK
<1>5. InProgress'
  BY <1>1, <1>2, <1>3 DEF Inv, InProgress, Left, Looping, Mapped, Written
<1>6. Unread' = Unread
  BY <1>1 DEF Unread
<1> QED
  BY <1>1, <1>4, <1>5, <1>6 DEF Inv, Abandoned, Left, Allocated, Looping, Trusting

LEMMA SetLenInv ==
  ASSUME Inv, SetLen
  PROVE  Inv'
<1>1. /\ pc = "set_len" /\ pc' = "read" /\ vecLen' = i + 1 /\ i' = i + 1
      /\ UNCHANGED <<call, avail, trusted, cap, slots, mapped, made, drops>>
  BY DEF SetLen
<1>2. /\ i < call.len /\ i \in Nat /\ call.len \in Nat /\ cap = call.len
      /\ slots = 1 .. i + 1 /\ mapped = {} /\ made = i + 1
  BY <1>1, CallType DEF Inv, InProgress, Left, Mapped, Written, Allocated, Looping
<1>3. TypeOK'
  BY <1>1, <1>2 DEF Inv, TypeOK
<1>4. InProgress'
  BY <1>1, <1>2 DEF Inv, InProgress, Left, Looping, Mapped, Written
<1>5. Unread' = Unread
  BY <1>1, <1>2 DEF Unread
<1>6. Allocated'
  BY <1>1, <1>2 DEF Inv, Allocated, Looping
<1> QED
  BY <1>1, <1>3, <1>4, <1>5, <1>6 DEF Inv, Abandoned, Left, Looping, Trusting

LEMMA FinishInv ==
  ASSUME Inv, Finish
  PROVE  Inv'
<1>1. /\ pc = "read" /\ pc' = "ok" /\ i = call.len
      /\ UNCHANGED <<call, avail, i, trusted, cap, vecLen, slots, mapped, made, drops>>
  BY DEF Finish
<1>2. TypeOK'
  BY <1>1 DEF Inv, TypeOK
<1>3. InProgress'
  BY <1>1 DEF Inv, InProgress, Left, Looping, Mapped, Written
<1>4. Unread' = Unread
  BY <1>1 DEF Unread
<1> QED
  BY <1>1, <1>2, <1>3, <1>4 DEF Inv, Abandoned, Left, Allocated, Looping, Trusting

LEMMA InvStep ==
  ASSUME Inv, [Next]_vars
  PROVE  Inv'
<1>1. CASE DropResult
  BY <1>1, LeaveInv DEF DropResult
<1>2. CASE UNCHANGED vars
  BY <1>2 DEF vars, Inv, TypeOK, InProgress, Abandoned, Allocated, Trusting, Looping, Left,
              Mapped, Written, Unread
<1> QED
  BY <1>1, <1>2, ReadLengthInv, AllocInv, TrustInv, ReadInv, MapValueInv, WriteInv, SetLenInv,
     FinishInv DEF Next

\* However the reads and the mapper of a call succeed, fail or panic, the
\* inductive invariant holds.
THEOREM Invariance == Spec => []Inv
<1>1. Init => Inv
  BY InitInv
<1>2. Inv /\ [Next]_vars => Inv'
  BY InvStep
<1> QED
  BY <1>1, <1>2, PTL DEF Spec

\* The adapter is always at one of its steps, with its counters and the slots it has
\* touched within the length of the call.
THEOREM TypeCorrect == Spec => []TypeOK
<1>1. Inv => TypeOK
  BY DEF Inv
<1> QED
  BY <1>1, Invariance, PTL

\* Dropping the Vec, at any point of the loop, never drops memory that was not
\* written (set_len after each write, wincode_extra.rs).
THEOREM InitialisedAlways == Spec => []Initialised
<1>1. Inv => Initialised
  <2> SUFFICES ASSUME Inv PROVE Initialised
    OBVIOUS
  <2>1. i \in Nat /\ vecLen \in Nat
    BY CallType DEF Inv
  <2>2. CASE Left
    BY <2>2 DEF Inv, Abandoned, Initialised
  <2>3. CASE ~Left
    BY <2>1, <2>3 DEF Inv, InProgress, Written, Initialised
  <2> QED
    BY <2>2, <2>3
<1> QED
  BY <1>1, Invariance, PTL

\* The writes through the raw pointer stay inside the Vec's allocation, and so
\* does its length.
THEOREM InCapacityAlways == Spec => []InCapacity
<1>1. Inv => InCapacity
  <2> SUFFICES ASSUME Inv PROVE InCapacity
    OBVIOUS
  <2>1. i \in Nat /\ vecLen \in Nat /\ cap \in Nat /\ vecLen <= cap /\ TypeOK
    BY CallType DEF Inv, Allocated
  <2>2. CASE Left
    BY <2>1, <2>2 DEF Inv, Abandoned, InCapacity
  <2>3. CASE ~Left
    <3>1. slots = 1 .. Written /\ vecLen = i /\ (Looping \/ i = 0)
      BY <2>3 DEF Inv, InProgress
    <3>2. CASE pc = "set_len"
      BY <2>1, <3>1, <3>2 DEF Inv, Allocated, Looping, TypeOK, InCapacity
    <3>3. CASE pc # "set_len"
      BY <2>1, <3>1, <3>3 DEF Written, InCapacity
    <3> QED
      BY <3>2, <3>3
  <2> QED
    BY <2>2, <2>3
<1> QED
  BY <1>1, Invariance, PTL

\* A call that fails or panics, and a caller that drops the result, drop every
\* value that the mapper made once: nothing leaks and nothing is dropped twice.
THEOREM DroppedOnce == Spec => []OnceEach
<1>1. Inv => OnceEach
  BY DEF Inv, TypeOK, Abandoned, Left, OnceEach
<1> QED
  BY <1>1, Invariance, PTL

\* A call that succeeds returns as many elements as were asked for, all written.
THEOREM FullResult == Spec => []Full
<1>1. Inv => Full
  BY DEF Inv, TypeOK, InProgress, Left, Mapped, Written, Full
<1> QED
  BY <1>1, Invariance, PTL

\* The reads that as_trusted_for_seq makes unchecked stay inside the bytes that it
\* was given.
THEOREM TrustedReadsInside == Spec => []TrustedReads
<1>1. Inv => TrustedReads
  <2> SUFFICES ASSUME Inv, pc = "read", call.static, i < call.len
               PROVE  call.width <= trusted /\ trusted <= avail
    BY DEF TrustedReads
  <2>1. call.len \in Nat /\ call.width \in Nat /\ i \in Nat
    BY CallType DEF Inv
  <2>2. trusted = (call.len - i) * call.width /\ trusted <= avail
    BY DEF Inv, Trusting, Looping, Unread
  <2> DEFINE left == call.len - i - 1
  <2>3. left \in Nat /\ call.len - i = left + 1
    BY <2>1
  <2> HIDE DEF left
  <2>4. (left + 1) * call.width = left * call.width + call.width /\ left * call.width \in Nat
    BY <2>1, <2>3
  <2> QED
    BY <2>1, <2>2, <2>3, <2>4
<1> QED
  BY <1>1, Invariance, PTL
=============================================================================
