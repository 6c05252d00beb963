----------------------------- MODULE Formatter -----------------------------
(***************************************************************************)
(* Formatter: how the instances found become a document.  Write goes over  *)
(* the instances, and in each over its properties, those of its own        *)
(* property store, of its catalog and of its custom properties, and over   *)
(* its packages; WriteFiles goes over the files found in each.  Both only  *)
(* call virtual methods, which one of four formatters implements.          *)
(*                                                                         *)
(* A property is known by its name, without letter case.  Stores list      *)
(* their names sorted.                                                     *)
(***************************************************************************)
EXTENDS Integers, Sequences, SequencesExt

CONSTANTS
  Builtin,      \* m_properties: the names of the properties every instance has
  Names,        \* the names a property may have, and -property may name
  ObjectOf,     \* what is before the first delimiter of a name, or None
  MemberOf,     \* what is after it, or None
  None,         \* no name
  NoStore,      \* there is no property store, or no list of files
  Machines,     \* the instances that may be found: sequences of what they answer
  Requests      \* the command lines, as far as a formatter looks at them

Places    == {"own", "catalog", "properties"}
NextPlace == [own |-> "catalog", catalog |-> "properties"]
Formatters   == {"json", "xml", "text", "value"}

\* What an instance answers.
Answers ==
  [unreadable : SUBSET Names,   \* the properties whose getter fails
   throwing : SUBSET Names,     \* those whose date cannot be formatted
   noInterface : BOOLEAN,       \* the query for its own store fails in earnest
   own : Seq(Names) \cup {NoStore},
   catalog : Seq(Names) \cup {NoStore},
   properties : Seq(Names) \cup {NoStore},
   packages : Seq(Seq(Names)),  \* those properties of each that are not empty
   files : Seq(Names) \cup {NoStore}]

ASSUME NamesAssumption ==
  /\ Builtin \in Seq(Names)
  /\ ObjectOf \in [Names -> Names \cup {None}] /\ MemberOf \in [Names -> Names \cup {None}]
  /\ None \notin Names \cup {"files", "catalog", "properties", "packages", "package"}
ASSUME BuiltinAssumption == \A i, j \in DOMAIN Builtin : Builtin[i] = Builtin[j] => i = j
ASSUME MachinesAssumption == Machines \subseteq Seq(Answers)
ASSUME RequestsAssumption ==
  Requests \subseteq [format : Formatters, property : Names \cup {None}, packages : BOOLEAN,
                      find : BOOLEAN, badPattern : BOOLEAN]

VARIABLES
  request,     \* the command line
  instances,   \* the argument of Write or WriteFiles
  pc,          \* the control point
  k,           \* the instance
  place,       \* the property store
  n,           \* the next property, name, package or file
  m,           \* the next property of a package
  found,       \* the local variable found
  formatter,   \* the object that implements the virtual methods
  shown        \* history: the properties written

rigid == <<request, instances>>
vars  == <<rigid, pc, k, place, n, m, found, formatter, shown>>

-----------------------------------------------------------------------------
(* The virtual methods                                                      *)

J == INSTANCE JsonFormatter WITH NoName <- None
X == INSTANCE XmlFormatter WITH NoName <- None, Instances <- "instances", Instance <- "instance"
T == INSTANCE TextFormatter WITH NoName <- None

\* ValueFormatter has a text only.
Create(format) ==
  CASE format = "json"  -> J!New
    [] format = "xml"   -> X!New
    [] format = "text"  -> T!New
    [] format = "value" -> [text |-> <<>>]

SupportsPackages(format) == format \in {"json", "xml"}

StartDocument(f) == IF request.format = "xml" THEN X!StartDocument(f) ELSE f
StartArray(f, name) ==
  CASE request.format = "json"  -> J!StartArray(f, name)
    [] request.format = "xml"   -> X!StartArray(f, name)
    [] request.format = "text"  -> T!StartArray(f, name)
    [] request.format = "value" -> f
StartObject(f, name) ==
  CASE request.format = "json"  -> J!StartObject(f, name)
    [] request.format = "xml"   -> X!StartObject(f, name)
    [] request.format = "text"  -> T!StartObject(f, name)
    [] request.format = "value" -> f
WriteProperty(f, name) ==
  CASE request.format = "json"  -> J!WriteProperty(f, name)
    [] request.format = "xml"   -> X!WriteProperty(f, name)
    [] request.format = "text"  -> T!WriteProperty(f, name)
    [] request.format = "value" -> [f EXCEPT !.text = Append(@, [token |-> "value", name |-> name])]
EndObject(f) ==
  CASE request.format = "json"  -> J!EndScope(f)
    [] request.format = "xml"   -> X!EndScope(f)
    [] request.format = "text"  -> T!EndObject(f)
    [] request.format = "value" -> f
EndArray(f) ==
  CASE request.format = "json"  -> J!EndScope(f)
    [] request.format = "xml"   -> X!EndScope(f)
    [] request.format \in {"text", "value"} -> f

-----------------------------------------------------------------------------
(* The document                                                             *)

Init ==
  /\ request \in Requests
  /\ instances \in Machines
  /\ pc = "start"
  /\ k = 0 /\ place = "own" /\ n = 1 /\ m = 1 /\ found = FALSE
  /\ formatter = Create(request.format)
  /\ shown = <<>>

\* WriteProperty of an instance.
WriteShown(where, name) ==
  /\ formatter' = WriteProperty(formatter, name)
  /\ shown' = Append(shown, [instance |-> k, place |-> where, name |-> name])

Throw ==
  /\ pc' = "thrown"
  /\ UNCHANGED <<rigid, k, place, n, m, found, formatter, shown>>

Start ==
  /\ pc = "start"
  /\ formatter' = StartArray(StartDocument(formatter), IF request.find THEN "files" ELSE None)
  /\ pc' = "next"
  /\ UNCHANGED <<rigid, k, place, n, m, found, shown>>

\* The loop of WriteFiles.  The pattern is compiled for each instance.
StartFiles ==
  /\ pc = "next" /\ request.find
  /\ k < Len(instances)
  /\ LET files == instances[k + 1].files
     IN  \/ files # NoStore /\ request.badPattern /\ Throw
         \/ /\ files = NoStore \/ ~request.badPattern
            /\ k' = k + 1
            /\ n' = 1
            /\ pc' = IF files = NoStore THEN "next" ELSE "files"
            /\ UNCHANGED <<rigid, place, m, found, formatter, shown>>

WriteFile ==
  /\ pc = "files"
  /\ n <= Len(instances[k].files)
  /\ WriteShown("files", instances[k].files[n])
  /\ n' = n + 1
  /\ UNCHANGED <<rigid, pc, k, place, m, found>>

EndFiles ==
  /\ pc = "files"
  /\ n > Len(instances[k].files)
  /\ pc' = "next"
  /\ UNCHANGED <<rigid, k, place, n, m, found, formatter, shown>>

\* The loop of Write: WriteInternal of the next instance.
StartInstance ==
  /\ pc = "next" /\ ~request.find
  /\ k < Len(instances)
  /\ k' = k + 1
  /\ formatter' = StartObject(formatter, None)
  /\ n' = 1 /\ found' = FALSE
  /\ pc' = "builtin"
  /\ UNCHANGED <<rigid, place, m, shown>>

End ==
  /\ pc = "next"
  /\ k = Len(instances)
  /\ formatter' = EndArray(formatter)
  /\ pc' = "done"
  /\ UNCHANGED <<rigid, k, place, n, m, found, shown>>

-----------------------------------------------------------------------------
(* WriteInternal                                                            *)

instance == instances[k]
Specified == request.property # None
IsSpecified(name) == request.property \in {None, name}

\* A getter that fails leaves the property out.
WriteIfReadable(where, name) ==
  IF name \in instance.unreadable
    THEN UNCHANGED <<formatter, shown>>
    ELSE WriteShown(where, name)

\* Faulty variant of WriteBuiltin: a getter that fails ends the loop.
WriteBuiltinBreaks ==
  /\ pc = "builtin"
  /\ n <= Len(Builtin)
  /\ LET name == Builtin[n]
     IN  \/ IsSpecified(name) /\ name \in instance.throwing /\ Throw
         \/ /\ ~(IsSpecified(name) /\ name \in instance.throwing)
            /\ n' = IF name \in instance.unreadable THEN Len(Builtin) + 1 ELSE n + 1
            /\ IF IsSpecified(name)
                 THEN found' = TRUE /\ WriteIfReadable("builtin", name)
                 ELSE UNCHANGED <<found, formatter, shown>>
            /\ UNCHANGED <<rigid, pc, k, place, m>>

\* One turn of the loop over m_properties.
WriteBuiltin ==
  /\ pc = "builtin"
  /\ n <= Len(Builtin)
  /\ LET name == Builtin[n]
     IN  \/ IsSpecified(name) /\ name \in instance.throwing /\ Throw
         \/ /\ ~(IsSpecified(name) /\ name \in instance.throwing)
            /\ n' = n + 1
            /\ IF IsSpecified(name)
                 THEN found' = TRUE /\ WriteIfReadable("builtin", name)
                 ELSE UNCHANGED <<found, formatter, shown>>
            /\ UNCHANGED <<rigid, pc, k, place, m>>

\* Faulty variant of EndBuiltin: what was found is looked for again.
EndBuiltinAlways ==
  /\ pc = "builtin"
  /\ n > Len(Builtin)
  /\ pc' = "enter"
  /\ place' = "own"
  /\ UNCHANGED <<rigid, k, n, m, found, formatter, shown>>

EndBuiltin ==
  /\ pc = "builtin"
  /\ n > Len(Builtin)
  /\ pc' = IF Specified /\ found THEN "end" ELSE "enter"
  /\ place' = "own"
  /\ UNCHANGED <<rigid, k, n, m, found, formatter, shown>>

Leave ==
  IF place = "properties" THEN pc' = "packages" /\ UNCHANGED place
                          ELSE pc' = "enter" /\ place' = NextPlace[place]

\* There is no such store, or the property was found in an earlier one.
SkipStore ==
  /\ pc = "enter"
  /\ ~(place = "own" /\ instance.noInterface)
  /\ instance[place] = NoStore \/ (place # "own" /\ Specified /\ found)
  /\ found' = (found /\ place # "own")
  /\ Leave
  /\ UNCHANGED <<rigid, k, n, m, formatter, shown>>

\* The instance's own store is asked for first, and its absence is no failure.
FailStore ==
  /\ pc = "enter"
  /\ place = "own" /\ instance.noInterface
  /\ Throw

\* Faulty variant of EnterStore: a call that succeeds may still give no store.
EnterStoreNull ==
  /\ pc = "enter"
  /\ ~(place = "own" /\ instance.noInterface)
  /\ place = "own" \/ ~Specified \/ ~found
  /\ formatter' = IF place = "own" THEN formatter ELSE StartObject(formatter, place)
  /\ n' = 1 /\ found' = FALSE
  /\ pc' = "store"
  /\ UNCHANGED <<rigid, k, place, m, shown>>

\* A store without names is one whose GetNames fails, too.
EnterStore ==
  /\ pc = "enter"
  /\ ~(place = "own" /\ instance.noInterface)
  /\ instance[place] # NoStore
  /\ place = "own" \/ ~Specified \/ ~found
  /\ formatter' = IF place = "own" THEN formatter ELSE StartObject(formatter, place)
  /\ n' = 1 /\ found' = FALSE
  /\ pc' = "store"
  /\ UNCHANGED <<rigid, k, place, m, shown>>

\* The name to look for in a store: without the name of its object, or none when
\* the object is named alone.
SoughtIn(store) ==
  LET property == request.property
  IN  IF ~Specified \/ store = "own" THEN property
      ELSE IF ObjectOf[property] = store /\ MemberOf[property] # None THEN MemberOf[property]
      ELSE IF property = store THEN None
      ELSE property
Sought == SoughtIn(place)

Properties == {Builtin[j] : j \in DOMAIN Builtin}

\* Faulty variant of WriteName: the name that was found does not end the loop.
WriteNameOn ==
  /\ pc = "store"
  /\ n <= Len(instance[place])
  /\ LET name == instance[place][n]
     IN  /\ found' = (Sought = name)
         /\ pc' = pc
         /\ IF Sought \in {None, name} /\ ~(place = "own" /\ name \in Properties)
              THEN WriteIfReadable(place, name)
              ELSE UNCHANGED <<formatter, shown>>
  /\ n' = n + 1
  /\ UNCHANGED <<rigid, k, place, m>>

\* One turn of the loop over the names of a store.
WriteName ==
  /\ pc = "store"
  /\ n <= Len(instance[place])
  /\ LET name == instance[place][n]
     IN  /\ found' = (Sought = name)
         /\ pc' = IF Sought = name THEN "leave" ELSE "store"
         /\ IF Sought \in {None, name} /\ ~(place = "own" /\ name \in Properties)
              THEN WriteIfReadable(place, name)
              ELSE UNCHANGED <<formatter, shown>>
  /\ n' = n + 1
  /\ UNCHANGED <<rigid, k, place, m>>

\* Nothing was found: false is returned, also after writing a whole object.
EndNames ==
  /\ pc = "store"
  /\ n > Len(instance[place])
  /\ found' = FALSE
  /\ pc' = "leave"
  /\ UNCHANGED <<rigid, k, place, n, m, formatter, shown>>

\* Faulty variant of LeaveStore: the object is left open when the property was found.
LeaveStoreFound ==
  /\ pc = "leave"
  /\ formatter' = IF place = "own" \/ found THEN formatter ELSE EndObject(formatter)
  /\ Leave
  /\ UNCHANGED <<rigid, k, n, m, found, shown>>

LeaveStore ==
  /\ pc = "leave"
  /\ formatter' = IF place = "own" THEN formatter ELSE EndObject(formatter)
  /\ Leave
  /\ UNCHANGED <<rigid, k, n, m, found, shown>>

-----------------------------------------------------------------------------
(* Packages                                                                 *)

StartPackages ==
  /\ pc = "packages"
  /\ IF /\ request.packages /\ SupportsPackages(request.format)
        /\ IsSpecified("packages") /\ instance.packages # <<>>
       THEN formatter' = StartArray(formatter, "packages") /\ n' = 1 /\ pc' = "package"
       ELSE UNCHANGED <<formatter, n>> /\ pc' = "end"
  /\ UNCHANGED <<rigid, k, place, m, found, shown>>

StartPackage ==
  /\ pc = "package"
  /\ n <= Len(instance.packages)
  /\ formatter' = StartObject(formatter, "package")
  /\ m' = 1
  /\ pc' = "inside"
  /\ UNCHANGED <<rigid, k, place, n, found, shown>>

\* Getters that fail or give an empty text leave the property out.
WritePackageProperty ==
  /\ pc = "inside"
  /\ m <= Len(instance.packages[n])
  /\ WriteShown("packages", instance.packages[n][m])
  /\ m' = m + 1
  /\ UNCHANGED <<rigid, pc, k, place, n, found>>

EndPackage ==
  /\ pc = "inside"
  /\ m > Len(instance.packages[n])
  /\ formatter' = EndObject(formatter)
  /\ n' = n + 1
  /\ pc' = "package"
  /\ UNCHANGED <<rigid, k, place, m, found, shown>>

EndPackages ==
  /\ pc = "package"
  /\ n > Len(instance.packages)
  /\ formatter' = EndArray(formatter)
  /\ pc' = "end"
  /\ UNCHANGED <<rigid, k, place, n, m, found, shown>>

EndInstance ==
  /\ pc = "end"
  /\ formatter' = EndObject(formatter)
  /\ pc' = "next"
  /\ UNCHANGED <<rigid, k, place, n, m, found, shown>>

Done == pc \in {"done", "thrown"} /\ UNCHANGED vars

Next ==
  \/ Start
  \/ StartFiles
  \/ WriteFile
  \/ EndFiles
  \/ StartInstance
  \/ End
  \/ WriteBuiltin
  \/ EndBuiltin
  \/ SkipStore
  \/ FailStore
  \/ EnterStore
  \/ WriteName
  \/ EndNames
  \/ LeaveStore
  \/ StartPackages
  \/ StartPackage
  \/ WritePackageProperty
  \/ EndPackage
  \/ EndPackages
  \/ EndInstance
  \/ Done

Spec == Init /\ [][Next]_vars

-----------------------------------------------------------------------------
(* Properties                                                               *)

TypeOK ==
  /\ request \in Requests /\ instances \in Machines
  /\ pc \in {"start", "next", "builtin", "enter", "store", "leave", "packages", "package",
             "inside", "files", "end", "done", "thrown"}
  /\ k \in 0..Len(instances)
  /\ pc \notin {"start", "next", "done", "thrown"} => k > 0
  /\ place \in Places
  /\ pc \in {"store", "leave"} => instance[place] # NoStore
  /\ n \in Nat /\ m \in Nat
  /\ found \in BOOLEAN
  /\ shown \in Seq([instance : 1..Len(instances), name : Names,
                    place : Places \cup {"builtin", "packages", "files"}])

\* The formatters keep a stack and look at its top without asking whether there is
\* one.  At every step it has as many scopes as the document has open objects
\* and arrays; TextFormatter does not push the outer array.
Depth ==
  CASE pc \in {"start", "done"} -> 0
    [] pc \in {"next", "files"} -> 1
    [] pc \in {"builtin", "enter", "packages", "end"} -> 2
    [] pc \in {"store", "leave"} -> IF place = "own" THEN 2 ELSE 3
    [] pc = "package" -> 3
    [] pc = "inside" -> 4
StackIsInStep ==
  pc # "thrown" =>
    /\ request.format \in {"json", "xml"} => Len(formatter.scopes) = Depth
    /\ request.format = "text" => Len(formatter.scopes) = IF Depth > 0 THEN Depth - 1 ELSE 0

=============================================================================
