------------------------------- MODULE Wincode -------------------------------
(***************************************************************************)
(* The part of the wincode crate that wincode-dynamic relies on: a Reader  *)
(* over a byte buffer, little-endian integers and the SeqLen length        *)
(* prefix.  wincode itself is not in the repository; each definition says  *)
(* what the callers in src/ rely on.                                       *)
(*                                                                         *)
(* A read returns an outcome [ok, val, pos, left].  When ok, val is what   *)
(* was read and pos the position after it.  Otherwise val names the error  *)
(* and left is the set of positions the reader may be left at: the Reader  *)
(* trait does not say how much a failed read consumes, so wherever wincode *)
(* fails the position is anything up to the end of the input.              *)
(***************************************************************************)
EXTENDS Integers, Sequences

CONSTANTS
  Base,          \* number of values of a byte: 256 in the program
  UsizeMax,      \* usize::MAX
  LenWidth,      \* width of a length prefix in bytes: 8 under DefaultConfig
  PreallocLimit, \* DEFAULT_PREALLOCATION_SIZE_LIMIT, in bytes
  ValidUtf8(_)   \* which byte sequences are UTF-8

ASSUME WincodeAssumption ==
  /\ Base \in Nat /\ Base > 2 /\ Base % 2 = 0
  /\ UsizeMax \in Nat /\ UsizeMax >= Base * Base - 1  \* at least 16 bits
  /\ LenWidth \in {1, 2, 4, 8}
  /\ PreallocLimit \in 0 .. UsizeMax

Byte == 0 .. Base - 1

ReadError == {"ReadSizeLimit", "LengthEncodingOverflow", "PreallocationSizeLimit",
              "InvalidUtf8Encoding", "InvalidBoolEncoding", "InvalidTagEncoding",
              "CannotCastToUsize", "ElementTypeMismatch"}

(***************************************************************************)
(* Little-endian integers.  The most significant byte of a two's           *)
(* complement integer counts negatively.                                   *)
(***************************************************************************)
\* The number of values that w bytes have.
Span(w) ==
  LET span[i \in 0 .. w] == IF i = 0 THEN 1 ELSE Base * span[i - 1]
  IN  span[w]

\* high[i] is the number that the last i bytes make.
Unsigned(bs) ==
  LET high[i \in 0 .. Len(bs)] ==
        IF i = 0 THEN 0 ELSE bs[Len(bs) - i + 1] + Base * high[i - 1]
  IN  high[Len(bs)]

Signed(bs) ==
  Unsigned([bs EXCEPT ![Len(bs)] = IF @ < Base \div 2 THEN @ ELSE @ - Base])

\* n, which may be negative, as w little-endian bytes.
LittleEndian(n, w) ==
  LET rest[i \in 0 .. w] == IF i = 0 THEN n ELSE rest[i - 1] \div Base
  IN  [i \in 1 .. w |-> rest[i - 1] % Base]

(***************************************************************************)
(* Readers.  borrows: supports_borrow(BorrowKind::Backing).                *)
(***************************************************************************)
Reader == [buf : Seq(Byte), pos : Nat, borrows : BOOLEAN]

At(r, p) == [r EXCEPT !.pos = p]

Ok(v, p) == [ok |-> TRUE, val |-> v, pos |-> p, left |-> {p}]

Err(e, r, ps) == [ok |-> FALSE, val |-> e, pos |-> r.pos, left |-> ps]

\* Whatever wincode consumed before it failed.
Somewhere(r) == r.pos .. Len(r.buf)

\* Take exactly n bytes: borrowed from the input or copied out of it.
Take(r, n) ==
  IF n <= Len(r.buf) - r.pos
  THEN Ok(SubSeq(r.buf, r.pos + 1, r.pos + n), r.pos + n)
  ELSE Err("ReadSizeLimit", r, Somewhere(r))

\* Mutant: a length is cut to the width of usize.
ReadLen_Truncated(r) ==
  LET o == Take(r, LenWidth)
  IN  IF ~o.ok THEN o ELSE Ok(Unsigned(o.val) % (UsizeMax + 1), o.pos)

\* SeqLen::read: a length prefix that has to fit a usize.
ReadLen(r) ==
  LET o == Take(r, LenWidth)
  IN  IF ~o.ok THEN o
      ELSE IF Unsigned(o.val) \in 0 .. UsizeMax THEN Ok(Unsigned(o.val), o.pos)
      ELSE Err("LengthEncodingOverflow", r, Somewhere(r))

\* SeqLen::prealloc_check for n elements of the given size: may they be allocated?
PreallocCheck(n, size) == n * size <= PreallocLimit

\* Cow<[u8]> as SchemaRead: length prefix, then that many bytes, which a
\* reader that cannot lend them has to allocate.
ReadCowBytes(r) ==
  LET n == ReadLen(r)
  IN  IF ~n.ok THEN n
      ELSE IF ~r.borrows /\ ~PreallocCheck(n.val, 1)
           THEN Err("PreallocationSizeLimit", r, Somewhere(r))
      ELSE Take(At(r, n.pos), n.val)

\* Cow<str> as SchemaRead: the bytes have to be UTF-8.
ReadCowStr(r) ==
  LET o == ReadCowBytes(r)
  IN  IF o.ok /\ ~ValidUtf8(o.val) THEN Err("InvalidUtf8Encoding", r, Somewhere(r))
                                   ELSE o
=============================================================================
