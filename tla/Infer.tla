--------------------------------- MODULE Infer ---------------------------------
(***************************************************************************)
(* Field::target_resolved (lib.rs of the derive crate): the type a field   *)
(* is written as.  An adapter may leave out types of the field with `_`:   *)
(* GenericTypes collects the field type's generic arguments in a queue,    *)
(* and InferGeneric replaces the adapter's placeholders from its front.    *)
(*                                                                         *)
(* A type is a tree [k, name, args].  The args of a Path are its generic   *)
(* arguments, those of an Array or Slice its element, those of a Tuple its *)
(* elements.  Infer is `_`, and Const a generic argument that is no type   *)
(* (a lifetime or a constant).                                             *)
(***************************************************************************)
EXTENDS Naturals, Sequences, SequencesExt

CONSTANTS
  Names,       \* the names of types
  Depth,       \* how deep the types of fields and adapters are nested
  FieldTypes,  \* the fields' Rust types
  Adapters(_)  \* the adapters of #[wincode(with = ...)], for a field type

VARIABLES
  ty,       \* the field's type
  with,     \* its adapter
  generics, \* the collected types that are left
  target,   \* the adapter with its placeholders replaced
  pc        \* "collect", "infer", "done" or "panicked"

vars == <<ty, with, generics, target, pc>>

Underscore == [k |-> "Infer", name |-> "Infer", args |-> <<>>]

\* The types nested at most m deep.
Types(m) ==
  LET types[n \in 0 .. m] ==
        [k : {"Path", "Array", "Slice", "Tuple", "Const", "Infer"}, name : Names,
         args : IF n = 0 THEN {<<>>} ELSE Seq(types[n - 1])]
  IN  types[m]

\* A field's type may be put in place of an adapter's innermost argument.
Type == Types(2 * Depth)

\* A depth-first traversal: what visit makes of a type and of what it made of
\* each of its args.
Traversed(visit(_, _), t) ==
  LET traversed[u \in Type] == visit(u, [i \in DOMAIN u.args |-> traversed[u.args[i]]])
  IN  traversed[t]

Subtypes(t) ==
  LET subtypes(u, inside) == {u} \cup UNION ToSet(inside)
  IN  Traversed(subtypes, t)

\* `_` is not allowed in the type of a field.
ASSUME InferAssumption ==
  /\ {"Infer", "Pod"} \subseteq Names
  /\ Depth \in Nat
  /\ \A t \in FieldTypes :
       /\ t \in Types(Depth) /\ Adapters(t) \subseteq Types(Depth)
       /\ \A s \in Subtypes(t) : s.k # "Infer"

\* An argument that is no type, or a path with arguments of its own, is not taken itself.
Entered(a) == a.k = "Const" \/ (a.k = "Path" /\ a.args # <<>>)

\* Of a slice or array that is an argument only the element is taken, whatever it
\* is; of a path that has arguments, theirs, and none if they are no types.
GenericTypes(t, inside) ==
  LET argument(a, types) ==
        CASE a.k \in {"Slice", "Array"} -> a.args
          [] Entered(a)                 -> types
          [] OTHER                      -> <<a>> \o types
  IN  FlattenSeq([i \in DOMAIN t.args |->
                    IF t.k = "Path" THEN argument(t.args[i], inside[i]) ELSE inside[i]])

Collected(t) == Traversed(GenericTypes, t)

\* Mutant: only generic arguments.
Replaces_Arguments(t) == t.k = "Path"

\* Where InferGeneric looks for placeholders: generic arguments and the elements
\* of arrays.
Replaces(t) == t.k \in {"Path", "Array"}

\* Mutant: taken from the back.
Pop_Back(queue) == [front |-> Last(queue), rest |-> Front(queue)]

\* VecDeque::pop_front, of a queue that is not empty.
Pop(queue) == [front |-> Head(queue), rest |-> Tail(queue)]

\* The i-th arg, after o: the args before it and the rest of the queue.  What is put
\* in place of `_` is visited too, to no effect: it is part of a field's type.
VisitArg(t, inside, i, o) ==
  LET hole == Replaces(t) /\ t.args[i].k = "Infer"
      pop  == Pop(o.rest)
      arg  == inside[i][o.rest]
  IN  IF ~o.ok \/ (hole /\ o.rest = <<>>) THEN [o EXCEPT !.ok = FALSE]
      ELSE IF hole THEN [ok |-> TRUE, args |-> Append(o.args, pop.front), rest |-> pop.rest]
      ELSE [ok |-> arg.ok, args |-> Append(o.args, arg.ty), rest |-> arg.rest]

\* For a queue: the type with its placeholders replaced and the rest of the queue,
\* or a panic.
InferGeneric(t, inside) ==
  [queue \in Seq(Type) |->
     LET visit[i \in 0 .. Len(t.args)] ==
           IF i = 0 THEN [ok |-> TRUE, args |-> <<>>, rest |-> queue]
           ELSE VisitArg(t, inside, i, visit[i - 1])
         all == visit[Len(t.args)]
     IN  [ok |-> all.ok, ty |-> [t EXCEPT !.args = all.args], rest |-> all.rest]]

Inferred(t, queue) == Traversed(InferGeneric, t)[queue]

Init ==
  /\ ty \in FieldTypes
  /\ with \in Adapters(ty)
  /\ generics = <<>> /\ target = with /\ pc = "collect"

\* A type without generic arguments stands for itself.
Collect ==
  /\ pc = "collect"
  /\ generics' = IF Collected(ty) = <<>> THEN <<ty>> ELSE Collected(ty)
  /\ pc' = "infer"
  /\ UNCHANGED <<ty, with, target>>

InferTypes ==
  /\ pc = "infer"
  /\ LET o == Inferred(target, generics)
     IN  /\ target' = IF o.ok THEN o.ty ELSE target
         /\ generics' = o.rest
         /\ pc' = IF o.ok THEN "done" ELSE "panicked"
  /\ UNCHANGED <<ty, with>>

Next == Collect \/ InferTypes

Spec == Init /\ [][Next]_vars

-----------------------------------------------------------------------------
(***************************************************************************)
(* Properties.                                                             *)
(***************************************************************************)
\* What is written for a type x that the author leaves out, or leaves to another
\* adapter; and that adapter's type once x is known.
Pod(x) == [k |-> "Path", name |-> "Pod", args |-> <<x>>]

Instead(x, how) == CASE how = "Infer"      -> Underscore
                     [] how = "Pod<Infer>" -> Pod(Underscore)
                     [] how = "Pod"    -> Pod(x)

\* The type with every innermost argument written so.
OutlineOf(t, inside, how) ==
  LET argument(a, outline) ==
        CASE a.k \in {"Slice", "Array"} -> [a EXCEPT !.args = [i \in DOMAIN @ |-> Instead(@[i], how)]]
          [] Entered(a)                 -> outline
          [] OTHER                      -> Instead(a, how)
  IN  [t EXCEPT !.args = [i \in DOMAIN @ |-> IF t.k = "Path" THEN argument(@[i], inside[i])
                                             ELSE inside[i]]]

Outline(t, how) ==
  LET outline(u, inside) == OutlineOf(u, inside, how)
  IN  Traversed(outline, t)

\* The placeholders that may be replaced.
PlaceholdersOf(t, inside) ==
  FlattenSeq([i \in DOMAIN t.args |->
                IF t.k \in {"Path", "Array"} /\ t.args[i].k = "Infer" THEN <<t.args[i]>>
                ELSE inside[i]])

Holes(t) == Len(Traversed(PlaceholdersOf, t))

\* A tuple argument is collected, and so are the arguments inside it: there the order
\* of types is not that of the places an author would leave out.
Regular(t) ==
  \A s \in Subtypes(t) : s.k = "Path" =>
    \A a \in ToSet(s.args) : a.k = "Tuple" => Collected(a) = <<>>

\* Whoever leaves out every innermost type of a field gets exactly the field's type
\* (but `_` is not replaced as the element of a slice), and with Pod<_> in their place
\* every one in its Pod: the two visitors agree on the order of types (lib.rs:73).
\* A field type without generic arguments stands for itself.
RoundTrip ==
  pc \in {"done", "panicked"} /\ Regular(ty) =>
    /\ Collected(ty) # <<>> =>
         /\ with = Outline(ty, "Infer") /\ (\A s \in Subtypes(ty) : s.k # "Slice") =>
              pc = "done" /\ target = ty
         /\ with = Outline(ty, "Pod<Infer>") => pc = "done" /\ target = Outline(ty, "Pod")
    /\ Collected(ty) = <<>> /\ with = Pod(Underscore) => pc = "done" /\ target = Pod(ty)

\* No placeholder is left that could have been replaced, and the macro panics for
\* lack of types ("not enough field types", lib.rs:95) exactly when the adapter
\* has more placeholders than the field has types, itself if it has none inside.
AllReplaced ==
  LET n == Len(Collected(ty))
  IN  /\ pc = "done" => Holes(target) = 0
      /\ pc = "panicked" => Holes(with) > n /\ Holes(with) > 1
      /\ pc = "done" => Holes(with) <= n \/ (n = 0 /\ Holes(with) = 1)
=============================================================================
