----------------------------- MODULE Documents -----------------------------
(***************************************************************************)
(* What a reader of a document of Formatter relies on: how a text is read, *)
(* what the document should show, and that it does.                        *)
(***************************************************************************)
EXTENDS Formatter

-----------------------------------------------------------------------------
(* Reading a text                                                           *)

\* What one who reads a document token by token knows of it: the scopes, or tags,
\* that are open; whether each that was closed was the last one opened; the tokens
\* outside of all scopes; the values, each with the prefix or the scope it is under;
\* and, of JSON, the last token and whether each might follow the one before it.
NewReader == [open |-> <<>>, balanced |-> TRUE, outside |-> <<>>, values |-> <<>>,
              last |-> "none", legal |-> TRUE]

Label(t) == IF "type" \in DOMAIN t THEN t.type ELSE t.name
Under(reader, t) ==
  IF "prefix" \in DOMAIN t THEN t.prefix
  ELSE IF reader.open = <<>> THEN <<>> ELSE <<Last(reader.open)>>

\* Keys are in objects and nowhere else.
MayFollow(token) ==
  CASE token = "open"  -> {"key", "value", "open", "close"}
    [] token = "comma" -> {"key", "value", "open"}
    [] token = "key"   -> {"value", "open"}
    [] token \in {"value", "close"} -> {"comma", "close"}
Allows(reader, t) ==
  reader.open # <<>> =>
    /\ t.token \in MayFollow(reader.last)
    /\ t.token = "key" => Last(reader.open) = "object"
    /\ t.token \in {"value", "open"} =>
         (reader.last = "key" <=> Last(reader.open) = "object")

Turn(reader, t) ==
  [open     |-> CASE t.token = "open" -> Append(reader.open, Label(t))
                  [] t.token = "close" /\ reader.open # <<>> -> Front(reader.open)
                  [] OTHER -> reader.open,
   balanced |-> /\ reader.balanced
                /\ t.token = "close" => reader.open # <<>> /\ Last(reader.open) = Label(t),
   outside  |-> IF reader.open = <<>> THEN Append(reader.outside, t.token) ELSE reader.outside,
   values   |-> IF t.token = "value"
                  THEN Append(reader.values, [name |-> t.name, under |-> Under(reader, t)])
                  ELSE reader.values,
   last     |-> t.token,
   legal    |-> reader.legal /\ Allows(reader, t)]

Read(text) ==
  LET read[p \in 0..Len(text)] == IF p = 0 THEN NewReader ELSE Turn(read[p - 1], text[p])
  IN  read[Len(text)]

\* A whole text is balanced and has one root, which the declaration of XML is before.
IsDocument(text, outside) ==
  LET reader == Read(text)
  IN  reader.open = <<>> /\ reader.balanced /\ reader.outside = outside
IsJson(text) == IsDocument(text, <<"open">>) /\ Read(text).legal
IsXml(text)  == IsDocument(text, <<"declaration", "open">>)

\* Starting scopes late, when something is in them, and ending only those started,
\* never unbalances the text: what is open in it is what was started, and what
\* was started is at the bottom of the stack.  So it is also when an exception
\* leaves the document unfinished.
TextMatchesStack ==
  request.format \in {"json", "xml"} =>
    LET scopes == formatter.scopes
        reader == Read(formatter.text)
    IN  /\ reader.balanced
        /\ reader.open = [j \in {i \in DOMAIN scopes : scopes[i].started} |->
             IF request.format = "json" THEN scopes[j].type ELSE scopes[j].name]

\* What an instance has under the name asked for, place after place: places after
\* the one that has it are not looked at.
Order == <<"builtin", "own", "catalog", "properties">>
Store(a, where) ==
  IF where = "builtin" THEN Builtin ELSE IF a[where] = NoStore THEN <<>> ELSE a[where]
SoughtAt(where) == IF where = "builtin" THEN request.property ELSE SoughtIn(where)
Has(a, where)   == Specified /\ SoughtAt(where) \in Range(Store(a, where))
Reached(a, where) ==
  \A j \in DOMAIN Order : Order[j] = where => \A i \in 1..(j - 1) : ~Has(a, Order[i])
\* The i-th name of a place, unless it is not asked for, or the one asked for was
\* found before it.
Asked(a, where, i) ==
  LET names == Store(a, where)
  IN  IF /\ SoughtAt(where) \in {None, names[i]}
         /\ \A j \in 1..(i - 1) : names[j] # SoughtAt(where)
         /\ names[i] \notin a.unreadable
         /\ where = "own" => names[i] \notin Properties
        THEN <<names[i]>> ELSE <<>>
Denoted(a, where) ==
  IF ~Reached(a, where) THEN <<>>
  ELSE FlattenSeq([i \in DOMAIN Store(a, where) |-> Asked(a, where, i)])
DenotedPackages(a) ==
  IF /\ request.packages /\ SupportsPackages(request.format) /\ IsSpecified("packages")
     /\ ~(Specified /\ Has(a, "builtin"))
    THEN FlattenSeq(a.packages) ELSE <<>>
Tagged(j, where, names) ==
  [i \in DOMAIN names |-> [instance |-> j, place |-> where, name |-> names[i]]]
Everything(j) ==
  LET a == instances[j]
  IN  IF request.find
        THEN Tagged(j, "files", IF a.files = NoStore THEN <<>> ELSE a.files)
        ELSE FlattenSeq([i \in DOMAIN Order |-> Tagged(j, Order[i], Denoted(a, Order[i]))])
             \o Tagged(j, "packages", DenotedPackages(a))

\* The document shows, of every instance, exactly what was asked for: all of it, or
\* the property from the first place that has it.
ShowsWhatWasAsked ==
  pc \in {"next", "done"} => shown = FlattenSeq([j \in 1..k |-> Everything(j)])

\* One property is one value: with the name of a property, not of an object, an
\* instance gives a value or none, so that a list of values can be counted.
OneValueAtMost ==
  /\ Specified /\ ~request.find
  /\ request.property \notin {"catalog", "properties", "packages"}
  => \A i, j \in DOMAIN shown : shown[i].instance = shown[j].instance => i = j

\* Every format writes all that is shown, in its order, and nothing else; in text
\* and in XML each property is under the name of its place, in JSON it is in an
\* object, but for files.
PlaceIn(where) ==
  LET nested == where \in {"catalog", "properties"}
  IN  CASE request.format = "text" -> IF nested THEN <<where>> ELSE <<>>
        [] request.format = "xml"  -> <<CASE nested -> where
                                          [] where = "packages" -> "package"
                                          [] where = "files" -> "files"
                                          [] OTHER -> "instance">>
        [] request.format = "json" -> <<IF where = "files" THEN "array" ELSE "object">>
        [] request.format = "value" -> <<>>
FormatsAgree ==
  Read(formatter.text).values =
    [i \in DOMAIN shown |-> [name |-> shown[i].name, under |-> PlaceIn(shown[i].place)]]

\* A finished document is XML, whatever instances, stores and packages are empty.
XmlIsXml == pc = "done" /\ request.format = "xml" => IsXml(formatter.text)

\* An object, or an array of packages, with nothing in it after something.
OccursIn(j, wheres) == \E i \in DOMAIN shown : shown[i].instance = j /\ shown[i].place \in wheres
Occurs(j) == \E i \in DOMAIN shown : shown[i].instance = j
HollowInstance(j) == ~Occurs(j) /\ \E i \in 1..(j - 1) : Occurs(i)
HollowStore(j, where, before) ==
  /\ instances[j][where] # NoStore /\ Reached(instances[j], where)
  /\ ~OccursIn(j, {where}) /\ OccursIn(j, before)
HollowPackages(j) ==
  LET packages == instances[j].packages
  IN  /\ request.packages /\ IsSpecified("packages") /\ ~Has(instances[j], "builtin")
      /\ \/ \E i \in DOMAIN packages : packages[i] = <<>> /\ \E h \in 1..(i - 1) : packages[h] # <<>>
         \/ packages # <<>> /\ ~OccursIn(j, {"packages"}) /\ Occurs(j)
Hollow ==
  \E j \in DOMAIN instances :
    \/ HollowInstance(j)
    \/ HollowStore(j, "catalog", {"builtin", "own"})
    \/ HollowStore(j, "properties", {"builtin", "own", "catalog"})
    \/ HollowPackages(j)

\* A finished document is JSON exactly when no empty object or array follows
\* something in the same one.
JsonUnlessHollow ==
  pc = "done" /\ request.format = "json" =>
    (IsJson(formatter.text) <=> (request.find \/ ~Hollow))

\* The usage text of the format json: "An array of JSON objects for each instance".
JsonIsJson == pc = "done" /\ request.format = "json" => IsJson(formatter.text)
=============================================================================
