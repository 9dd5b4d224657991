-------------------------------- MODULE MCInfer --------------------------------
(***************************************************************************)
(* An instance of Infer for TLC: field types of up to three levels, and    *)
(* for each of them adapters that follow its outline and others that have  *)
(* nothing to do with it.  Some types have arguments that are no types.    *)
(***************************************************************************)
EXTENDS Infer

Node(k, args)    == [k |-> k, name |-> k, args |-> args]
Path(name, args) == [k |-> "Path", name |-> name, args |-> args]

A == Path("A", <<>>)
B == Path("B", <<>>)
Const == Node("Const", <<>>)

\* One level more on top of some types.
Over(types) ==
       {Path("Vec", <<a>>) : a \in types}
  \cup {Path("Map", <<a, b>>) : a \in types, b \in types}
  \cup {Node("Array", <<a>>) : a \in types}
  \cup {Node("Slice", <<a>>) : a \in types}
  \cup {Node("Tuple", <<a, b>>) : a \in types, b \in types}

Small == {A, B} \cup {Path("Vec", <<A>>), Path("Map", <<A, B>>), Node("Array", <<B>>),
                     Node("Slice", <<A>>), Node("Tuple", <<A, B>>),
                     Node("Array", <<Path("Vec", <<B>>)>>),
                     Node("Tuple", <<A, Path("Vec", <<B>>)>>),
                     Path("Bytes", <<Const>>), Path("Few", <<B, Const>>)}

MCFieldTypes == Small \cup Over(Small)

Unrelated ==
  {A, Underscore, Pod(Underscore), Path("Vec", <<Underscore, Path("Len", <<>>)>>),
   Node("Array", <<Underscore>>), Node("Slice", <<Underscore>>),
   Path("Map", <<Underscore, Underscore>>), Path("Map", <<Pod(Underscore), Node("Array", <<Underscore>>)>>),
   Path("Few", <<Underscore, Const, Underscore>>),
   Path("Box", <<Node("Slice", <<Pod(Underscore)>>), Path("Len", <<>>)>>),
   Node("Tuple", <<Pod(Underscore), Path("Map", <<A, Underscore>>), Pod(Underscore)>>)}

MCAdapters(t) == Unrelated \cup {Outline(t, "Infer"), Outline(t, "Pod<Infer>")}
=============================================================================
