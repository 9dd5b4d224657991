------------------------------ MODULE MCSession ------------------------------
(***************************************************************************)
(* An instance of Session for TLC, with containers and values of MCStream. *)
(***************************************************************************)
EXTENDS MCStream, Session

\* Static and dynamic types, records of no bytes, tags, skipped fields and an
\* adapter; a type's last field needs no byte, one, several, or depends on a length.
MCSent ==
  { Struct(<< >>),
    Struct(<<plain(prim("u8")), plain(array("u8", 0))>>),
    Struct(<<plain(prim("u16")), plain(vec("bool"))>>),
    Struct(<<plain(string), skipped(prim("u8")), adapted(prim("i16"))>>),
    Struct(<<plain(vec("u16"))>>),
    Enum(<<"u8">>, << << >>, <<plain(prim("bool")), plain(string)>>, <<plain(array("bool", 2))>> >>),
    Enum(<<>>, << <<plain(prim("i8"))>>, << >> >>) }
=============================================================================
