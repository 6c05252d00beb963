---------------------------- MODULE XmlFormatter ----------------------------
(***************************************************************************)
(* XmlFormatter, XmlScope and Scope, as JsonFormatter: elements in place   *)
(* of arrays and objects, and no separators.                               *)
(***************************************************************************)
EXTENDS Integers, Sequences, SequencesExt

CONSTANTS
  NoName,       \* the empty name
  Instances,    \* the name of an element for an array without a name
  Instance      \* the name of an element for an object without a name

Declaration == [token |-> "declaration"]
Open(name)  == [token |-> "open", name |-> name]
Close(name) == [token |-> "close", name |-> name]
Text(name)  == [token |-> "value", name |-> name]   \* an element that holds a property

Scope(name) == [name |-> name, started |-> FALSE]

New == [scopes |-> <<>>, text |-> <<>>]

Top(f) == f.scopes[Len(f.scopes)]

StartDocument(f) == [f EXCEPT !.text = Append(@, Declaration)]

\* Faulty variant of WriteStart: the parents are not asked.
WriteStartAlone(f) ==
  [scopes |-> [f.scopes EXCEPT ![Len(f.scopes)].started = TRUE],
   text   |-> f.text \o (IF Top(f).started THEN <<>> ELSE <<Open(Top(f).name)>>)]

\* Scope::WriteStart of the scope on top: first that of its parents, up to the
\* first that is started.
Unstarted(f) == {k \in DOMAIN f.scopes : \A j \in k..Len(f.scopes) : ~f.scopes[j].started}
WriteStart(f) ==
  [scopes |-> [k \in DOMAIN f.scopes |->
                 [f.scopes[k] EXCEPT !.started = @ \/ k \in Unstarted(f)]],
   text   |-> f.text \o FlattenSeq([k \in DOMAIN f.scopes |->
                                      IF k \in Unstarted(f) THEN <<Open(f.scopes[k].name)>> ELSE <<>>])]

WriteProperty(f, name) ==
  LET started == WriteStart(f)
  IN  [started EXCEPT !.text = Append(@, Text(name))]

StartScope(f, name, fallback) ==
  LET pushed == [f EXCEPT !.scopes = Append(@, Scope(IF name = NoName THEN fallback ELSE name))]
  IN  IF Len(pushed.scopes) = 1 THEN WriteStart(pushed) ELSE pushed

StartArray(f, name)  == StartScope(f, name, Instances)
StartObject(f, name) == StartScope(f, name, Instance)

\* Faulty variant of EndScope: what never started is ended, too.
EndScopeAlways(f) ==
  [scopes |-> Front(f.scopes), text |-> Append(f.text, Close(Top(f).name))]

\* Scope::WriteEnd: only what was started is ended.
EndScope(f) ==
  [scopes |-> Front(f.scopes),
   text   |-> f.text \o (IF Top(f).started THEN <<Close(Top(f).name)>> ELSE <<>>)]
=============================================================================
