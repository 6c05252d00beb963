--------------------------- MODULE TextFormatter ---------------------------
(***************************************************************************)
(* TextFormatter: a line for each property, with the names of the objects  *)
(* it is in as a prefix, and a blank line between instances.               *)
(***************************************************************************)
EXTENDS Sequences, SequencesExt

CONSTANT NoName     \* the empty name

Text(prefix, name) == [token |-> "value", prefix |-> prefix, name |-> name]
BlankLine          == [token |-> "blank"]

\* A scope is the prefix of what it holds, as a sequence of names.
New == [scopes |-> <<>>, first |-> FALSE, text |-> <<>>]

Prefix(f) == IF f.scopes = <<>> THEN <<>> ELSE Last(f.scopes)

StartArray(f, name) == [f EXCEPT !.first = TRUE]

\* Faulty variant of StartObject: the prefix is that of the outer object.
StartObjectFlat(f, name) ==
  [scopes |-> Append(f.scopes, Prefix(f)),
   first  |-> FALSE,
   text   |-> f.text \o (IF ~f.first /\ f.scopes = <<>> THEN <<BlankLine>> ELSE <<>>)]

\* (In a nested object even an empty name adds a delimiter: there is none.)
StartObject(f, name) ==
  [scopes |-> Append(f.scopes, IF name = NoName THEN Prefix(f) ELSE Append(Prefix(f), name)),
   first  |-> FALSE,
   text   |-> f.text \o (IF ~f.first /\ f.scopes = <<>> THEN <<BlankLine>> ELSE <<>>)]

WriteProperty(f, name) == [f EXCEPT !.text = Append(@, Text(Prefix(f), name))]

EndObject(f) == [f EXCEPT !.scopes = Front(@)]
=============================================================================
