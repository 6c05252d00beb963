--------------------------- MODULE JsonFormatter ---------------------------
(***************************************************************************)
(* JsonFormatter, JsonScope and Scope: a formatter is a record of its      *)
(* stack of scopes and of the text written, as tokens; a method is an      *)
(* operator from a formatter to a formatter.  The start of a scope is not  *)
(* written before something in it is, except for the root's.               *)
(***************************************************************************)
EXTENDS Integers, Sequences, SequencesExt

CONSTANT NoName     \* the empty name

Open(type)  == [token |-> "open", type |-> type]
Close(type) == [token |-> "close", type |-> type]
Key(name)   == [token |-> "key", name |-> name]
Text(name)  == [token |-> "value", name |-> name]   \* the value of a property
Comma       == [token |-> "comma"]

\* started is ~m_writeStart, and also m_writeEnd.
Scope(type, name) == [type |-> type, name |-> name, started |-> FALSE, requireSep |-> FALSE]

New == [scopes |-> <<>>, text |-> <<>>]

Top(f)        == f.scopes[Len(f.scopes)]
IsRoot(f)     == Len(f.scopes) = 1
Write(f, tokens) == [f EXCEPT !.text = @ \o tokens]

\* JsonScope::WriteSeparator
Separator(scope) == IF scope.requireSep THEN <<Comma>> ELSE <<>>

\* JsonScope::WriteStartImpl of the k-th scope: a key only in an object.
StartText(f, k) ==
  Separator(f.scopes[k])
  \o (IF k > 1 /\ f.scopes[k - 1].type = "object" /\ f.scopes[k].name # NoName
        THEN <<Key(f.scopes[k].name)>> ELSE <<>>)
  \o <<Open(f.scopes[k].type)>>

\* Scope::WriteStart of the scope on top: first that of its parents, up to the
\* first that is started.
Unstarted(f) == {k \in DOMAIN f.scopes : \A j \in k..Len(f.scopes) : ~f.scopes[j].started}
WriteStart(f) ==
  [scopes |-> [k \in DOMAIN f.scopes |->
                 [f.scopes[k] EXCEPT !.started = @ \/ k \in Unstarted(f)]],
   text   |-> f.text \o FlattenSeq([k \in DOMAIN f.scopes |->
                                      IF k \in Unstarted(f) THEN StartText(f, k) ELSE <<>>])]

\* JsonScope::RequireSeparator, of the scope on top and of its parents.
RequireSeparator(f) ==
  [f EXCEPT !.scopes = [k \in DOMAIN @ |-> [@[k] EXCEPT !.requireSep = TRUE]]]

\* Faulty variant of StartProperty: only the scope itself needs a separator then.
StartPropertyShallow(f, name) ==
  LET started == WriteStart(f)
      top     == Len(f.scopes)
  IN  Write([started EXCEPT !.scopes[top].requireSep = TRUE],
            Separator(Top(started))
            \o (IF Top(f).type = "object" THEN <<Key(name)>> ELSE <<>>))

StartProperty(f, name) ==
  LET started == WriteStart(f)
  IN  Write(RequireSeparator(started),
            Separator(Top(started))
            \o (IF Top(f).type = "object" THEN <<Key(name)>> ELSE <<>>))

WriteProperty(f, name) == Write(StartProperty(f, name), <<Text(name)>>)

\* The parent writes its separator at once, although the scope may never start.
StartScope(f, type, name) ==
  LET parent == IF f.scopes = <<>> THEN f ELSE Write(f, Separator(Top(f)))
      pushed == [parent EXCEPT !.scopes = Append(@, Scope(type, name))]
  IN  IF IsRoot(pushed) THEN WriteStart(pushed) ELSE pushed

StartArray(f, name)  == StartScope(f, "array", name)
StartObject(f, name) == StartScope(f, "object", name)

\* Scope::WriteEnd: only what was started is ended.
EndScope(f) ==
  [scopes |-> Front(f.scopes),
   text   |-> f.text \o (IF Top(f).started THEN <<Close(Top(f).type)>> ELSE <<>>)]
=============================================================================
