------------------------------- MODULE MCLenMap -------------------------------
(***************************************************************************)
(* An instance of LenMap for TLC: up to five elements of no, one or two    *)
(* bytes, with too few bytes, enough, and more than enough in the reader.  *)
(***************************************************************************)
EXTENDS LenMap

MCValidUtf8(bs) == TRUE
MCLens          == 0 .. 5
MCAvails        == 0 .. 9
MCWidths        == 0 .. 2
=============================================================================
