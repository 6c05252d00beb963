--------------------------- MODULE FormatterProofs ---------------------------
(***************************************************************************)
(* Proofs about Formatter and its documents, for every command line and    *)
(* all instances: the stacks of the formatters are in step with the loops, *)
(* so that no formatter looks at the top of an empty one; no loop leaves   *)
(* what it goes over; a property asked for by name has one value at most;  *)
(* a document shows what was asked for, all of it and nothing else, and in *)
(* every format the same; what is open in its text is what was started on  *)
(* the stack; XML is XML, and JSON is JSON unless a scope ends hollow.     *)
(***************************************************************************)
EXTENDS Documents, SequenceLemmas

-----------------------------------------------------------------------------
(* Stacks                                                                   *)

IsStack(s, depth) == \E S : s \in Seq(S) /\ Len(s) = depth

\* A function on 1..size is a stack.
LEMMA FunctionIsStack ==
  ASSUME NEW size \in Nat, NEW S, NEW s \in [1..size -> S]
  PROVE  IsStack(s, size)
<1>1. s \in Seq(S) /\ Len(s) = size
  OBVIOUS
<1> QED
  BY <1>1 DEF IsStack

\* So is any function on the indices of one.
LEMMA StackOnDomain ==
  ASSUME NEW s, NEW depth, IsStack(s, depth), NEW t, t = [j \in DOMAIN s |-> t[j]]
  PROVE  IsStack(t, depth)
<1>1. depth \in Nat /\ DOMAIN s = 1..depth
  BY DEF IsStack
<1>2. t \in [1..depth -> {t[j] : j \in DOMAIN t}]
  BY <1>1
<1> QED
  BY <1>1, <1>2, FunctionIsStack

\* Pushing makes it one deeper.
LEMMA StackPushed ==
  ASSUME NEW s, NEW depth, IsStack(s, depth), NEW scope
  PROVE  IsStack(Append(s, scope), depth + 1)
<1>1. PICK S : s \in Seq(S) /\ Len(s) = depth
  BY DEF IsStack
<1>2. s \in Seq(S \cup {scope})
  BY <1>1
<1>3. Append(s, scope) \in Seq(S \cup {scope}) /\ Len(Append(s, scope)) = depth + 1
  BY <1>1, <1>2
<1> QED
  BY <1>3 DEF IsStack

\* Popping makes it one less deep.
LEMMA StackPopped ==
  ASSUME NEW s, NEW depth, IsStack(s, depth), depth > 0
  PROVE  IsStack(SubSeq(s, 1, Len(s) - 1), depth - 1)
<1>1. PICK S : s \in Seq(S) /\ Len(s) = depth
  BY DEF IsStack
<1>2. depth \in Nat
  BY <1>1
<1>3. SubSeq(s, 1, Len(s) - 1) \in Seq(S) /\ Len(SubSeq(s, 1, Len(s) - 1)) = depth - 1
  BY <1>1, <1>2
<1> QED
  BY <1>3 DEF IsStack

\* The stack of a new formatter.
LEMMA StackEmpty == IsStack(<<>>, 0)
  BY DEF IsStack

-----------------------------------------------------------------------------
(* The formats                                                              *)

\* The state of a formatter that has a stack.
Holds(f, depth) == {"scopes", "text"} \subseteq DOMAIN f /\ IsStack(f.scopes, depth)

\* JSON: writing keeps the stack's depth.
LEMMA JsonWrites ==
  ASSUME NEW f, NEW depth, Holds(f, depth), NEW tokens, NEW name
  PROVE  /\ Holds(J!Write(f, tokens), depth)
         /\ Holds(J!WriteStart(f), depth)
         /\ Holds(J!WriteProperty(f, name), depth)
<1>1. ASSUME NEW g, Holds(g, depth), NEW s PROVE Holds(J!Write(g, s), depth)
  BY <1>1 DEF Holds, J!Write
<1>2. Holds(J!WriteStart(f), depth)
  BY StackOnDomain DEF Holds, J!WriteStart
<1>3. ASSUME NEW g, Holds(g, depth) PROVE Holds(J!RequireSeparator(g), depth)
  BY <1>3, StackOnDomain DEF Holds, J!RequireSeparator
<1>4. Holds(J!StartProperty(f, name), depth)
  BY <1>1, <1>2, <1>3 DEF J!StartProperty
<1>5. Holds(J!WriteProperty(f, name), depth)
  BY <1>1, <1>4 DEF J!WriteProperty
<1> QED
  BY <1>1, <1>2, <1>5

\* JSON: starting an object or array pushes one scope.
LEMMA JsonStarts ==
  ASSUME NEW f, NEW depth, Holds(f, depth), NEW type, NEW name
  PROVE  Holds(J!StartScope(f, type, name), depth + 1)
<1> DEFINE parent == IF f.scopes = <<>> THEN f ELSE J!Write(f, J!Separator(J!Top(f)))
           pushed == [parent EXCEPT !.scopes = Append(@, J!Scope(type, name))]
<1>1. Holds(parent, depth)
  BY JsonWrites
<1> HIDE DEF parent
<1>2. Holds(pushed, depth + 1)
  BY <1>1, StackPushed DEF Holds
<1> HIDE DEF pushed
<1>3. Holds(J!WriteStart(pushed), depth + 1)
  BY <1>2, JsonWrites
<1> QED
  BY <1>2, <1>3 DEF J!StartScope, parent, pushed

\* JSON: ending one pops it.
LEMMA JsonEnds ==
  ASSUME NEW f, NEW depth, Holds(f, depth), depth > 0
  PROVE  Holds(J!EndScope(f), depth - 1)
  BY StackPopped DEF Holds, J!EndScope, J!Front

\* XML: writing keeps the stack's depth.
LEMMA XmlWrites ==
  ASSUME NEW f, NEW depth, Holds(f, depth), NEW name
  PROVE  /\ Holds(X!StartDocument(f), depth)
         /\ Holds(X!WriteStart(f), depth)
         /\ Holds(X!WriteProperty(f, name), depth)
<1>1. Holds(X!StartDocument(f), depth)
  BY DEF Holds, X!StartDocument
<1>2. Holds(X!WriteStart(f), depth)
  BY StackOnDomain DEF Holds, X!WriteStart
<1>3. Holds(X!WriteProperty(f, name), depth)
  BY <1>2 DEF Holds, X!WriteProperty
<1> QED
  BY <1>1, <1>2, <1>3

\* XML: starting an element pushes one scope.
LEMMA XmlStarts ==
  ASSUME NEW f, NEW depth, Holds(f, depth), NEW name, NEW fallback
  PROVE  Holds(X!StartScope(f, name, fallback), depth + 1)
<1> DEFINE scope  == X!Scope(IF name = None THEN fallback ELSE name)
           pushed == [f EXCEPT !.scopes = Append(@, scope)]
<1> HIDE DEF scope
<1>1. Holds(pushed, depth + 1)
  BY StackPushed DEF Holds
<1> HIDE DEF pushed
<1>2. Holds(X!WriteStart(pushed), depth + 1)
  BY <1>1, XmlWrites
<1> QED
  BY <1>1, <1>2 DEF X!StartScope, pushed, scope

\* XML: ending one pops it.
LEMMA XmlEnds ==
  ASSUME NEW f, NEW depth, Holds(f, depth), depth > 0
  PROVE  Holds(X!EndScope(f), depth - 1)
  BY StackPopped DEF Holds, X!EndScope, X!Front

\* Text: only objects push and pop.
LEMMA TextWrites ==
  ASSUME NEW f, NEW depth, Holds(f, depth), NEW name
  PROVE  /\ Holds(T!StartArray(f, name), depth)
         /\ Holds(T!WriteProperty(f, name), depth)
         /\ Holds(T!StartObject(f, name), depth + 1)
         /\ depth > 0 => Holds(T!EndObject(f), depth - 1)
<1>1. Holds(T!StartArray(f, name), depth) /\ Holds(T!WriteProperty(f, name), depth)
  BY DEF Holds, T!StartArray, T!WriteProperty
<1>2. Holds(T!StartObject(f, name), depth + 1)
  BY StackPushed DEF Holds, T!StartObject
<1>3. depth > 0 => Holds(T!EndObject(f), depth - 1)
  BY StackPopped DEF Holds, T!EndObject, T!Front
<1> QED
  BY <1>1, <1>2, <1>3

-----------------------------------------------------------------------------
(* The virtual methods                                                      *)

\* TextFormatter does not push the outer array.
InStep(f, depth) ==
  /\ request.format \in {"json", "xml"} => Holds(f, depth)
  /\ request.format = "text" => Holds(f, IF depth > 0 THEN depth - 1 ELSE 0)

\* Writing a property keeps every format in step.
LEMMA PropertyInStep ==
  ASSUME request.format \in Formatters, NEW f, NEW depth \in Nat, InStep(f, depth), NEW name
  PROVE  InStep(WriteProperty(f, name), depth)
<1>1. CASE request.format = "json"
  BY <1>1, JsonWrites DEF InStep, WriteProperty
<1>2. CASE request.format = "xml"
  BY <1>2, XmlWrites DEF InStep, WriteProperty
<1>3. CASE request.format = "text"
  BY <1>3, TextWrites DEF InStep, WriteProperty
<1> QED
  BY <1>1, <1>2, <1>3 DEF Formatters, InStep

\* So does starting the document,
LEMMA DocumentInStep ==
  ASSUME request.format \in Formatters, NEW f, NEW depth \in Nat, InStep(f, depth)
  PROVE  InStep(StartDocument(f), depth)
  BY XmlWrites DEF InStep, StartDocument

\* starting an object,
LEMMA ObjectInStep ==
  ASSUME request.format \in Formatters, NEW f, NEW depth \in Nat, depth > 0, InStep(f, depth),
         NEW name
  PROVE  InStep(StartObject(f, name), depth + 1)
<1>1. CASE request.format = "json"
  BY <1>1, JsonStarts DEF InStep, StartObject, J!StartObject
<1>2. CASE request.format = "xml"
  BY <1>2, XmlStarts DEF InStep, StartObject, X!StartObject
<1>3. CASE request.format = "text"
  <2>1. Holds(T!StartObject(f, name), (depth - 1) + 1)
    BY <1>3, TextWrites DEF InStep
  <2>2. StartObject(f, name) = T!StartObject(f, name)
    BY <1>3 DEF StartObject
  <2> QED
    BY <1>3, <2>1, <2>2 DEF InStep
<1> QED
  BY <1>1, <1>2, <1>3 DEF Formatters, InStep

\* ending one,
LEMMA ObjectEndInStep ==
  ASSUME request.format \in Formatters, NEW f, NEW depth \in Nat, depth > 1, InStep(f, depth)
  PROVE  InStep(EndObject(f), depth - 1)
<1>1. CASE request.format = "json"
  BY <1>1, JsonEnds DEF InStep, EndObject
<1>2. CASE request.format = "xml"
  BY <1>2, XmlEnds DEF InStep, EndObject
<1>3. CASE request.format = "text"
  <2>1. Holds(T!EndObject(f), (depth - 1) - 1)
    BY <1>3, TextWrites DEF InStep
  <2>2. EndObject(f) = T!EndObject(f)
    BY <1>3 DEF EndObject
  <2> QED
    BY <1>3, <2>1, <2>2 DEF InStep
<1> QED
  BY <1>1, <1>2, <1>3 DEF Formatters, InStep

\* starting an array: the outer one, or one in a format that has packages,
LEMMA ArrayInStep ==
  ASSUME request.format \in Formatters, NEW f, NEW depth \in Nat, InStep(f, depth), NEW name,
         depth = 0 \/ request.format # "text"
  PROVE  InStep(StartArray(f, name), depth + 1)
<1>1. CASE request.format = "json"
  BY <1>1, JsonStarts DEF InStep, StartArray, J!StartArray
<1>2. CASE request.format = "xml"
  BY <1>2, XmlStarts DEF InStep, StartArray, X!StartArray
<1>3. CASE request.format = "text"
  BY <1>3, TextWrites DEF InStep, StartArray
<1> QED
  BY <1>1, <1>2, <1>3 DEF Formatters, InStep

\* and ending it.
LEMMA ArrayEndInStep ==
  ASSUME request.format \in Formatters, NEW f, NEW depth \in Nat, depth > 0, InStep(f, depth),
         depth = 1 \/ request.format # "text"
  PROVE  InStep(EndArray(f), depth - 1)
<1>1. CASE request.format = "json"
  BY <1>1, JsonEnds DEF InStep, EndArray
<1>2. CASE request.format = "xml"
  BY <1>2, XmlEnds DEF InStep, EndArray
<1>3. CASE request.format = "text"
  BY <1>3 DEF InStep, EndArray
<1> QED
  BY <1>1, <1>2, <1>3 DEF Formatters, InStep

-----------------------------------------------------------------------------
(* The loops                                                                *)

\* Only formats with packages come to the steps that write them, and the stack is
\* in step until an exception leaves it as it is.
IInv ==
  /\ request.format \in Formatters
  /\ pc \in {"package", "inside"} => request.format # "text"
  /\ pc # "thrown" => InStep(formatter, Depth)

\* What the steps have in common.
LEMMA StepIInv ==
  ASSUME IInv, request' = request, NEW f, formatter' = f, InStep(f, Depth'),
         pc' \in {"package", "inside"} => request.format # "text"
  PROVE  IInv'
<1>1. InStep(formatter, Depth)' <=> InStep(f, Depth')
  BY DEF InStep
<1> QED
  BY <1>1 DEF IInv

\* An exception leaves the stack as it is.
LEMMA ThrowIInv == ASSUME IInv, Throw PROVE IInv'
  BY DEF IInv, Throw, rigid

\* Steps that write at most one property.
LEMMA WriteIInv ==
  ASSUME IInv, Depth \in Nat, pc # "thrown", Depth' = Depth, request' = request,
         pc' \in {"package", "inside"} => request.format # "text",
         NEW where, NEW name, WriteShown(where, name) \/ UNCHANGED formatter
  PROVE  IInv'
<1>1. CASE WriteShown(where, name)
  <2>1. InStep(WriteProperty(formatter, name), Depth)
    BY PropertyInStep DEF IInv
  <2> QED
    BY <1>1, <2>1, StepIInv DEF WriteShown
<1>2. CASE UNCHANGED formatter
  BY <1>2, StepIInv DEF IInv
<1> QED
  BY <1>1, <1>2

\* The outer array starts,
LEMMA StartIInv == ASSUME IInv, Start PROVE IInv'
<1> DEFINE name == IF request.find THEN "files" ELSE None
<1>1. /\ Depth = 0 /\ Depth' = 1 /\ pc # "thrown" /\ pc' = "next" /\ request' = request
      /\ formatter' = StartArray(StartDocument(formatter), name)
  BY DEF Start, Depth, rigid
<1>2. InStep(StartDocument(formatter), 0)
  BY <1>1, DocumentInStep DEF IInv
<1> HIDE DEF name
<1>3. InStep(StartArray(StartDocument(formatter), name), 0 + 1)
  BY <1>2, ArrayInStep DEF IInv
<1> QED
  BY <1>1, <1>3, StepIInv

\* and ends.
LEMMA EndIInv == ASSUME IInv, End PROVE IInv'
<1>1. /\ Depth = 1 /\ Depth' = 0 /\ pc # "thrown" /\ pc' = "done" /\ request' = request
      /\ formatter' = EndArray(formatter)
  BY DEF End, Depth, rigid
<1>2. InStep(EndArray(formatter), 1 - 1)
  BY <1>1, ArrayEndInStep DEF IInv
<1> QED
  BY <1>1, <1>2, StepIInv

\* The object of an instance starts,
LEMMA StartInstanceIInv == ASSUME IInv, StartInstance PROVE IInv'
<1>1. /\ Depth = 1 /\ Depth' = 2 /\ pc # "thrown" /\ pc' = "builtin" /\ request' = request
      /\ formatter' = StartObject(formatter, None)
  BY DEF StartInstance, Depth, rigid
<1>2. InStep(StartObject(formatter, None), 1 + 1)
  BY <1>1, ObjectInStep DEF IInv
<1> QED
  BY <1>1, <1>2, StepIInv

\* and ends.
LEMMA EndInstanceIInv == ASSUME IInv, EndInstance PROVE IInv'
<1>1. /\ Depth = 2 /\ Depth' = 1 /\ pc # "thrown" /\ pc' = "next" /\ request' = request
      /\ formatter' = EndObject(formatter)
  BY DEF EndInstance, Depth, rigid
<1>2. InStep(EndObject(formatter), 2 - 1)
  BY <1>1, ObjectEndInStep DEF IInv
<1> QED
  BY <1>1, <1>2, StepIInv

\* Steps that leave the formatter and the depth alone.
LEMMA IdleIInv ==
  ASSUME IInv, EndFiles \/ EndBuiltin \/ SkipStore \/ EndNames \/ Done \/ UNCHANGED vars
  PROVE  IInv'
<1>1. request' = request /\ formatter' = formatter
  BY DEF EndFiles, EndBuiltin, SkipStore, EndNames, Done, vars, rigid
<1>2. CASE Done \/ UNCHANGED vars
  <2>1. pc' = pc /\ place' = place
    BY <1>2 DEF Done, vars
  <2>2. Depth' = Depth
    BY <2>1 DEF Depth
  <2> QED
    BY <1>1, <2>1, <2>2 DEF IInv, InStep
<1>3. CASE EndFiles \/ EndBuiltin \/ SkipStore \/ EndNames
  <2>1. Depth' = Depth /\ pc # "thrown" /\ pc' \notin {"package", "inside"}
    BY <1>3 DEF EndFiles, EndBuiltin, SkipStore, EndNames, Leave, Depth
  <2> QED
    BY <1>1, <2>1, StepIInv DEF IInv
<1> QED
  BY <1>2, <1>3

\* Files are written into the outer array.
LEMMA FilesIInv == ASSUME IInv, StartFiles \/ WriteFile PROVE IInv'
<1>1. CASE StartFiles
  <2>1. CASE Throw
    BY <2>1, ThrowIInv
  <2>2. CASE ~Throw
    <3>1. /\ Depth' = Depth /\ pc # "thrown" /\ pc' \in {"next", "files"}
          /\ request' = request /\ formatter' = formatter
      BY <1>1, <2>2 DEF StartFiles, Depth, rigid
    <3> QED
      BY <3>1, StepIInv DEF IInv
  <2> QED
    BY <2>1, <2>2
<1>2. CASE WriteFile
  <2>1. /\ Depth = 1 /\ Depth' = Depth /\ pc = "files" /\ pc' = "files" /\ request' = request
        /\ WriteShown("files", instances[k].files[n])
    BY <1>2 DEF WriteFile, Depth, rigid
  <2> QED
    BY <2>1, WriteIInv
<1> QED
  BY <1>1, <1>2

\* Built-in properties are written into the instance.
LEMMA WriteBuiltinIInv == ASSUME IInv, WriteBuiltin PROVE IInv'
<1>1. CASE Throw
  BY <1>1, ThrowIInv
<1>2. CASE ~Throw
  <2>1. /\ Depth = 2 /\ Depth' = Depth /\ pc = "builtin" /\ pc' = "builtin"
        /\ request' = request
    BY <1>2 DEF WriteBuiltin, Depth, rigid
  <2>2. WriteShown("builtin", Builtin[n]) \/ UNCHANGED formatter
    BY <1>2 DEF WriteBuiltin, WriteIfReadable
  <2> QED
    BY <2>1, <2>2, WriteIInv
<1> QED
  BY <1>1, <1>2

\* The own store has no object.
LEMMA EnterStoreIInv == ASSUME IInv, EnterStore PROVE IInv'
<1>1. /\ Depth = 2 /\ pc # "thrown" /\ pc' = "store" /\ request' = request /\ place' = place
      /\ formatter' = IF place = "own" THEN formatter ELSE StartObject(formatter, place)
  BY DEF EnterStore, Depth, rigid
<1>2. CASE place = "own"
  <2>1. Depth' = 2
    BY <1>1, <1>2 DEF Depth
  <2> QED
    BY <1>1, <1>2, <2>1, StepIInv DEF IInv
<1>3. CASE place # "own"
  <2>1. Depth' = 3
    BY <1>1, <1>3 DEF Depth
  <2>2. InStep(StartObject(formatter, place), 2 + 1)
    BY <1>1, ObjectInStep DEF IInv
  <2> QED
    BY <1>1, <1>3, <2>1, <2>2, StepIInv
<1> QED
  BY <1>2, <1>3

\* Names are written into the object of their store.
LEMMA WriteNameIInv == ASSUME IInv, WriteName PROVE IInv'
<1>1. /\ Depth \in Nat /\ Depth' = Depth /\ pc = "store" /\ pc' \in {"store", "leave"}
      /\ request' = request
  BY DEF WriteName, Depth, rigid
<1>2. WriteShown(place, instance[place][n]) \/ UNCHANGED formatter
  BY DEF WriteName, WriteIfReadable
<1> QED
  BY <1>1, <1>2, WriteIInv

\* Its object ends however the loop did.
LEMMA LeaveStoreIInv == ASSUME IInv, LeaveStore PROVE IInv'
<1>1. /\ pc = "leave" /\ pc' \in {"enter", "packages"} /\ Depth' = 2 /\ request' = request
      /\ formatter' = IF place = "own" THEN formatter ELSE EndObject(formatter)
  BY DEF LeaveStore, Leave, Depth, rigid
<1>2. CASE place = "own"
  <2>1. Depth = 2
    BY <1>1, <1>2 DEF Depth
  <2> QED
    BY <1>1, <1>2, <2>1, StepIInv DEF IInv
<1>3. CASE place # "own"
  <2>1. Depth = 3
    BY <1>1, <1>3 DEF Depth
  <2>2. InStep(EndObject(formatter), 3 - 1)
    BY <1>1, <2>1, ObjectEndInStep DEF IInv
  <2> QED
    BY <1>1, <1>3, <2>2, StepIInv
<1> QED
  BY <1>2, <1>3

\* The array of packages starts and ends.
LEMMA PackagesIInv == ASSUME IInv, StartPackages \/ EndPackages PROVE IInv'
<1>1. CASE StartPackages
  <2>1. pc = "packages" /\ Depth = 2 /\ request' = request
    BY <1>1 DEF StartPackages, Depth, rigid
  <2>2. CASE pc' = "end"
    <3>1. formatter' = formatter /\ Depth' = 2
      BY <1>1, <2>2 DEF StartPackages, Depth
    <3> QED
      BY <2>1, <2>2, <3>1, StepIInv DEF IInv
  <2>3. CASE pc' = "package"
    <3>1. /\ formatter' = StartArray(formatter, "packages") /\ Depth' = 3
          /\ request.format # "text"
      BY <1>1, <2>3 DEF StartPackages, SupportsPackages, Depth
    <3>2. InStep(StartArray(formatter, "packages"), 2 + 1)
      BY <2>1, <3>1, ArrayInStep DEF IInv
    <3> QED
      BY <2>1, <3>1, <3>2, StepIInv
  <2> QED
    BY <1>1, <2>2, <2>3 DEF StartPackages
<1>2. CASE EndPackages
  <2>1. /\ pc = "package" /\ pc' = "end" /\ Depth = 3 /\ Depth' = 2 /\ request' = request
        /\ formatter' = EndArray(formatter)
    BY <1>2 DEF EndPackages, Depth, rigid
  <2>2. InStep(EndArray(formatter), 3 - 1)
    BY <2>1, ArrayEndInStep DEF IInv
  <2> QED
    BY <2>1, <2>2, StepIInv
<1> QED
  BY <1>1, <1>2

\* An object for each package.
LEMMA PackageIInv == ASSUME IInv, StartPackage \/ WritePackageProperty \/ EndPackage PROVE IInv'
<1>1. CASE StartPackage
  <2>1. /\ pc = "package" /\ pc' = "inside" /\ Depth = 3 /\ Depth' = 4 /\ request' = request
        /\ formatter' = StartObject(formatter, "package")
    BY <1>1 DEF StartPackage, Depth, rigid
  <2>2. InStep(StartObject(formatter, "package"), 3 + 1)
    BY <2>1, ObjectInStep DEF IInv
  <2> QED
    BY <2>1, <2>2, StepIInv DEF IInv
<1>2. CASE WritePackageProperty
  <2>1. /\ pc = "inside" /\ pc' = "inside" /\ Depth = 4 /\ Depth' = Depth /\ request' = request
        /\ WriteShown("packages", instance.packages[n][m])
    BY <1>2 DEF WritePackageProperty, Depth, rigid
  <2> QED
    BY <2>1, WriteIInv DEF IInv
<1>3. CASE EndPackage
  <2>1. /\ pc = "inside" /\ pc' = "package" /\ Depth = 4 /\ Depth' = 3 /\ request' = request
        /\ formatter' = EndObject(formatter)
    BY <1>3 DEF EndPackage, Depth, rigid
  <2>2. InStep(EndObject(formatter), 4 - 1)
    BY <2>1, ObjectEndInStep DEF IInv
  <2> QED
    BY <2>1, <2>2, StepIInv DEF IInv
<1> QED
  BY <1>1, <1>2, <1>3

-----------------------------------------------------------------------------

\* Initially the stack is empty.
LEMMA InitIInv == Init => IInv
<1> SUFFICES ASSUME Init PROVE IInv
  OBVIOUS
<1>1. request.format \in Formatters
  BY RequestsAssumption DEF Init
<1>2. pc = "start" /\ Depth = 0 /\ formatter = Create(request.format)
  BY DEF Init, Depth
<1>3. Holds(J!New, 0) /\ Holds(X!New, 0) /\ Holds(T!New, 0)
  BY StackEmpty DEF Holds, J!New, X!New, T!New
<1>4. InStep(Create(request.format), 0)
  BY <1>3 DEF InStep, Create
<1> QED
  BY <1>1, <1>2, <1>4 DEF IInv

\* The invariant is inductive.
LEMMA NextIInv == IInv /\ [Next]_vars => IInv'
<1> SUFFICES ASSUME IInv, [Next]_vars PROVE IInv'
  OBVIOUS
<1>1. ASSUME FailStore PROVE IInv'
  BY <1>1, ThrowIInv DEF FailStore
<1> QED
  BY <1>1, StartIInv, EndIInv, StartInstanceIInv, EndInstanceIInv, IdleIInv, FilesIInv,
     WriteBuiltinIInv, EnterStoreIInv, WriteNameIInv, LeaveStoreIInv, PackagesIInv, PackageIInv
     DEF Next

\* The stack of a formatter has a scope for each object and array that is open, at
\* every step, whatever the instances answer.
THEOREM StacksAreInStep == Spec => []StackIsInStep
<1>1. IInv => StackIsInStep
  BY DEF IInv, StackIsInStep, InStep, Holds, IsStack
<1> QED
  BY <1>1, InitIInv, NextIInv, PTL DEF Spec

-----------------------------------------------------------------------------
(* Types                                                                    *)

\* What a property that was written is, besides: history.
Entries == [instance : 1..Len(instances), name : Names,
            place : Places \cup {"builtin", "packages", "files"}]

\* Type correctness, and what the loops over files and packages need to stay within
\* what they go over.
Typed ==
  /\ TypeOK
  /\ n > 0 /\ m > 0
  /\ pc = "files" => instances[k].files # NoStore
  /\ pc = "inside" => n <= Len(instances[k].packages)

\* What is known of the instance at hand.
LEMMA InstanceType ==
  ASSUME Typed, k > 0
  PROVE  /\ k \in 1..Len(instances) /\ instance \in Answers
         /\ Len(instances) \in Nat
         /\ instance.files \in Seq(Names) \cup {NoStore}
         /\ \A store \in Places : instance[store] \in Seq(Names) \cup {NoStore}
         /\ instance.packages \in Seq(Seq(Names))
<1>1. instances \in Seq(Answers)
  BY MachinesAssumption DEF Typed, TypeOK
<1>2. k \in 1..Len(instances) /\ Len(instances) \in Nat
  BY <1>1 DEF Typed, TypeOK
<1>3. instance \in Answers
  BY <1>1, <1>2 DEF instance
<1> QED
  BY <1>2, <1>3 DEF Answers, Places

\* An instance that comes next.
LEMMA NextInstanceType ==
  ASSUME Typed, k < Len(instances)
  PROVE  k + 1 \in 1..Len(instances) /\ instances[k + 1] \in Answers
<1>1. instances \in Seq(Answers)
  BY MachinesAssumption DEF Typed, TypeOK
<1>2. Len(instances) \in Nat /\ k \in Nat
  BY <1>1 DEF Typed, TypeOK
<1> QED
  BY <1>1, <1>2

\* Writing a property of the instance at hand.
LEMMA ShownTyped ==
  ASSUME Typed, k > 0, NEW where \in Places \cup {"builtin", "packages", "files"},
         NEW name \in Names, WriteShown(where, name) \/ UNCHANGED shown,
         UNCHANGED instances
  PROVE  shown' \in Seq(Entries)'
<1>1. k \in 1..Len(instances)
  BY InstanceType
<1>2. [instance |-> k, place |-> where, name |-> name] \in Entries
  BY <1>1 DEF Entries
<1>3. shown \in Seq(Entries)
  BY DEF Typed, TypeOK, Entries
<1>4. Seq(Entries)' = Seq(Entries)
  BY DEF Entries
<1>5. CASE WriteShown(where, name)
  <2> DEFINE entry == [instance |-> k, place |-> where, name |-> name]
  <2>1. shown' = Append(shown, entry) /\ entry \in Entries
    BY <1>2, <1>5 DEF WriteShown
  <2> HIDE DEF entry
  <2>2. shown' \in Seq(Entries)
    BY <1>3, <2>1
  <2> QED
    BY <1>4, <2>2
<1>6. CASE UNCHANGED shown
  BY <1>3, <1>4, <1>6
<1> QED
  BY <1>5, <1>6

\* What the types say of everything but what was written.
Located ==
  /\ request \in Requests /\ instances \in Machines
  /\ pc \in {"start", "next", "builtin", "enter", "store", "leave", "packages", "package",
             "inside", "files", "end", "done", "thrown"}
  /\ k \in 0..Len(instances)
  /\ pc \notin {"start", "next", "done", "thrown"} => k > 0
  /\ place \in Places
  /\ pc \in {"store", "leave"} => instance[place] # NoStore
  /\ n \in Nat /\ m \in Nat
  /\ found \in BOOLEAN
  /\ n > 0 /\ m > 0
  /\ pc = "files" => instances[k].files # NoStore
  /\ pc = "inside" => n <= Len(instances[k].packages)

\* The types are these two.
LEMMA TypedIs == Typed <=> Located /\ shown \in Seq(Entries)
  BY DEF Typed, TypeOK, Located, Entries

\* And so after a step.
LEMMA TypedNext == ASSUME Located', shown' \in Seq(Entries)' PROVE Typed'
  BY DEF Typed, TypeOK, Located, Entries

\* Initially, too.
LEMMA InitTyped == Init => Typed
<1> SUFFICES ASSUME Init PROVE Typed
  OBVIOUS
<1>1. instances \in Seq(Answers)
  BY MachinesAssumption DEF Init
<1>2. <<>> \in Seq(Entries)
  OBVIOUS
<1>3. 0 \in 0..Len(instances)
  BY <1>1
<1>4. Located
  <2>1. found \in BOOLEAN
    BY Zenon DEF Init
  <2> QED
    BY <1>3, <2>1 DEF Init, Located, Places
<1> QED
  BY <1>2, <1>4, TypedIs DEF Init

\* Throwing changes the control point alone.
LEMMA ThrowTyped == ASSUME Typed, Throw PROVE Typed'
  BY DEF Typed, TypeOK, Throw, rigid

\* Each loop keeps the types.
LEMMA OuterTyped ==
  ASSUME Typed, Start \/ StartFiles \/ EndFiles \/ StartInstance \/ End \/ EndInstance
                \/ Done \/ UNCHANGED vars
  PROVE  Typed'
<1>1. CASE Throw
  BY <1>1, ThrowTyped
<1>2. CASE ~Throw
  <2>1. shown' = shown /\ UNCHANGED rigid
    BY <1>2 DEF Start, StartFiles, EndFiles, StartInstance, End, EndInstance, Done, vars
  <2>2. Seq(Entries)' = Seq(Entries)
    BY <2>1 DEF Entries, rigid
  <2>3. Located'
    <3>1. CASE Start \/ EndFiles \/ End \/ EndInstance \/ Done \/ UNCHANGED vars
      BY <3>1, TypedIs DEF Start, EndFiles, End, EndInstance, Done, vars, rigid, Located, instance
    <3>2. CASE StartInstance
      <4>1. found' \in BOOLEAN
        BY <3>2, Zenon DEF StartInstance
      <4> QED
        BY <3>2, <4>1, TypedIs, NextInstanceType DEF StartInstance, rigid, Located
    <3>3. CASE StartFiles
      BY <3>3, <1>2, TypedIs, NextInstanceType DEF StartFiles, rigid, Located
    <3> QED
      BY <3>1, <3>2, <3>3
  <2>4. shown' \in Seq(Entries)'
    BY <2>1, <2>2, TypedIs
  <2> QED
    BY <2>3, <2>4, TypedNext
<1> QED
  BY <1>1, <1>2

\* Steps in the loops that write a property.
LEMMA WritingTyped ==
  ASSUME Typed, WriteFile \/ WriteBuiltin \/ WriteName \/ WritePackageProperty
  PROVE  Typed'
<1>1. k > 0
  BY DEF Typed, TypeOK, WriteFile, WriteBuiltin, WriteName, WritePackageProperty
<1>2. CASE WriteFile
  <2> DEFINE name == instance.files[n]
  <2>1. pc = "files" /\ n <= Len(instance.files) /\ WriteShown("files", name) /\ UNCHANGED rigid
    BY <1>2 DEF WriteFile, instance
  <2>2. name \in Names
    BY <1>1, <2>1, InstanceType DEF Typed, TypeOK, instance
  <2> HIDE DEF name
  <2>3. shown' \in Seq(Entries)'
    BY <1>1, <2>1, <2>2, ShownTyped DEF rigid
  <2>4. Located'
    BY <1>2, TypedIs DEF WriteFile, rigid, Located
  <2> QED
    BY <2>3, <2>4, TypedNext
<1>3. CASE WriteBuiltin
  <2>1. CASE Throw
    BY <2>1, ThrowTyped
  <2>2. CASE ~Throw
    <3> DEFINE name == Builtin[n]
    <3>1. /\ WriteShown("builtin", name) \/ UNCHANGED shown
          /\ n <= Len(Builtin) /\ UNCHANGED rigid
      BY <1>3, <2>2 DEF WriteBuiltin, WriteIfReadable
    <3>2. name \in Names
      BY <3>1, NamesAssumption DEF Typed, TypeOK
    <3> HIDE DEF name
    <3>3. shown' \in Seq(Entries)'
      BY <1>1, <3>1, <3>2, ShownTyped DEF rigid
    <3>4. Located'
      <4>1. found' \in BOOLEAN
        <5>1. found' = TRUE \/ found' = found
          BY <1>3, <2>2, Zenon DEF WriteBuiltin
        <5> QED
          BY <5>1, Zenon DEF Typed, TypeOK
      <4> QED
        BY <1>3, <2>2, <4>1, TypedIs DEF WriteBuiltin, rigid, Located
    <3> QED
      BY <3>3, <3>4, TypedNext
  <2> QED
    BY <2>1, <2>2
<1>4. CASE WriteName
  <2> DEFINE name == instance[place][n]
  <2>1. /\ pc = "store" /\ n <= Len(instance[place]) /\ UNCHANGED rigid
        /\ WriteShown(place, name) \/ UNCHANGED shown
    BY <1>4 DEF WriteName, WriteIfReadable
  <2>2. place \in Places /\ name \in Names
    <3>1. place \in Places /\ instance[place] # NoStore /\ n \in Nat /\ n > 0
      BY <2>1 DEF Typed, TypeOK
    <3>2. instance[place] \in Seq(Names)
      BY <1>1, <3>1, InstanceType
    <3> QED
      BY <2>1, <3>1, <3>2
  <2> HIDE DEF name
  <2>3. shown' \in Seq(Entries)'
    BY <1>1, <2>1, <2>2, ShownTyped DEF rigid
  <2>4. Located'
    BY <1>4, TypedIs DEF WriteName, rigid, Located, instance
  <2> QED
    BY <2>3, <2>4, TypedNext
<1>5. CASE WritePackageProperty
  <2> DEFINE name == instance.packages[n][m]
  <2>1. /\ pc = "inside" /\ m <= Len(instance.packages[n]) /\ UNCHANGED rigid
        /\ WriteShown("packages", name)
    BY <1>5 DEF WritePackageProperty
  <2>2. name \in Names
    <3>1. n \in Nat /\ n > 0 /\ n <= Len(instance.packages) /\ m \in Nat /\ m > 0
      BY <2>1 DEF Typed, TypeOK, instance
    <3>2. instance.packages[n] \in Seq(Names)
      BY <1>1, <3>1, InstanceType
    <3> QED
      BY <2>1, <3>1, <3>2
  <2> HIDE DEF name
  <2>3. shown' \in Seq(Entries)'
    BY <1>1, <2>1, <2>2, ShownTyped DEF rigid
  <2>4. Located'
    BY <1>5, TypedIs DEF WritePackageProperty, rigid, Located
  <2> QED
    BY <2>3, <2>4, TypedNext
<1> QED
  BY <1>2, <1>3, <1>4, <1>5

\* The next place is one.
LEMMA LeaveTyped ==
  ASSUME place \in Places, Leave
  PROVE  place' \in Places /\ pc' \in {"packages", "enter"}
  BY DEF Leave, NextPlace, Places

\* Steps inside an instance that write no property.
LEMMA InnerTyped ==
  ASSUME Typed, EndBuiltin \/ SkipStore \/ FailStore \/ EnterStore \/ EndNames \/ LeaveStore
                \/ StartPackages \/ StartPackage \/ EndPackage \/ EndPackages
  PROVE  Typed'
<1>1. CASE FailStore
  BY <1>1, ThrowTyped DEF FailStore
<1>2. CASE ~FailStore
  <2>1. shown' = shown /\ UNCHANGED rigid
    BY <1>2 DEF EndBuiltin, SkipStore, EnterStore, EndNames, LeaveStore, StartPackages,
                StartPackage, EndPackage, EndPackages
  <2>2. Seq(Entries)' = Seq(Entries)
    BY <2>1 DEF Entries, rigid
  <2>3. Located'
    <3>1. CASE EndBuiltin \/ EnterStore \/ EndNames
      <4>1. found' \in BOOLEAN
        <5>1. found' = FALSE \/ found' = found
          BY <3>1, Zenon DEF EndBuiltin, EnterStore, EndNames
        <5> QED
          BY <5>1, Zenon DEF Typed, TypeOK
      <4> QED
        BY <3>1, <4>1, TypedIs DEF EndBuiltin, EnterStore, EndNames, rigid, Located, instance,
           Places
    <3>2. CASE SkipStore \/ LeaveStore
      BY <3>2, TypedIs, LeaveTyped DEF SkipStore, LeaveStore, rigid, Located
    <3>3. CASE StartPackages \/ StartPackage \/ EndPackage \/ EndPackages
      BY <3>3, TypedIs DEF StartPackages, StartPackage, EndPackage, EndPackages, rigid, Located,
                           instance
    <3> QED
      BY <1>2, <3>1, <3>2, <3>3
  <2>4. shown' \in Seq(Entries)'
    BY <2>1, <2>2, TypedIs
  <2> QED
    BY <2>3, <2>4, TypedNext
<1> QED
  BY <1>1, <1>2

\* And so the types are kept by every step.
LEMMA NextTyped == Typed /\ [Next]_vars => Typed'
  BY OuterTyped, WritingTyped, InnerTyped DEF Next

\* The variables of Write have their types: no loop reads past what it goes over, and
\* no store is looked into that is not there.
THEOREM TypeCorrect == Spec => []TypeOK
<1>1. Typed => TypeOK
  BY DEF Typed
<1> QED
  BY <1>1, InitTyped, NextTyped, PTL DEF Spec

-----------------------------------------------------------------------------
(* One value of one property                                                *)

\* The condition under which an instance has one value at most.
AsksOne ==
  /\ Specified /\ ~request.find
  /\ request.property \notin {"catalog", "properties", "packages"}

OnceEach == \A i, j \in DOMAIN shown : shown[i].instance = shown[j].instance => i = j

\* Something was written of the instance at hand.
IsShown == \E i \in DOMAIN shown : shown[i].instance = k

\* Once something was written of an instance the rest of it is skipped: found says
\* so, to the end of WriteInternal.
FoundOnce ==
  /\ OnceEach
  /\ \A i \in DOMAIN shown : shown[i].instance <= k
  /\ pc \notin {"package", "inside", "files"}
  /\ IsShown =>
       /\ pc = "builtin" => found /\ \E j \in DOMAIN Builtin : j < n /\ Builtin[j] = request.property
       /\ pc = "enter" => found /\ place # "own"
       /\ pc = "leave" => found
       /\ pc # "store"

OneInv == Typed /\ (AsksOne => FoundOnce)

\* A property is asked for by its name in every place.
LEMMA SoughtIsNamed ==
  ASSUME AsksOne, place \in Places
  PROVE  Sought # None
  BY DEF AsksOne, Specified, Sought, SoughtIn, Places

\* The first property that is written of an instance.
LEMMA FirstShown ==
  ASSUME Typed, FoundOnce, ~IsShown, NEW where, NEW name, WriteShown(where, name), k' = k
  PROVE  OnceEach' /\ \A i \in DOMAIN shown' : shown'[i].instance <= k'
<1> DEFINE entry == [instance |-> k, place |-> where, name |-> name]
           size  == Len(shown)
<1>1. entry.instance = k
  OBVIOUS
<1>2. shown' = Append(shown, entry)
  BY DEF WriteShown
<1> HIDE DEF entry
<1>3. shown \in Seq(Entries) /\ size \in Nat /\ DOMAIN shown = 1..size
  BY DEF Typed, TypeOK, Entries
<1>4. /\ DOMAIN shown' = 1..(size + 1) /\ shown'[size + 1] = entry
      /\ \A i \in 1..size : shown'[i] = shown[i]
  BY <1>2, <1>3
<1>5. k \in Nat
  <2>1. k \in 0..Len(instances)
    BY DEF Typed, TypeOK
  <2> QED
    BY <2>1
<1> HIDE DEF size
<1>6. \A i \in 1..size : shown'[i].instance # k /\ shown'[i].instance <= k
  BY <1>3, <1>4 DEF FoundOnce, IsShown
<1>7. \A i \in DOMAIN shown' : shown'[i].instance <= k'
  BY <1>1, <1>3, <1>4, <1>5, <1>6
<1>8. OnceEach'
  <2> SUFFICES ASSUME NEW i \in DOMAIN shown', NEW j \in DOMAIN shown',
                      shown'[i].instance = shown'[j].instance
               PROVE  i = j
    BY DEF OnceEach
  <2>1. CASE i \in 1..size /\ j \in 1..size
    BY <2>1, <1>3, <1>4 DEF FoundOnce, OnceEach
  <2>2. CASE ~(i \in 1..size /\ j \in 1..size)
    <3>1. i = size + 1 \/ j = size + 1
      BY <2>2, <1>3, <1>4
    <3> QED
      BY <3>1, <1>1, <1>3, <1>4, <1>6
  <2> QED
    BY <2>1, <2>2
<1> QED
  BY <1>7, <1>8

\* A step that writes nothing and stays in the instance.
LEMMA NothingShown ==
  ASSUME FoundOnce, UNCHANGED <<shown, k>>
  PROVE  /\ OnceEach' /\ \A i \in DOMAIN shown' : shown'[i].instance <= k'
         /\ IsShown' <=> IsShown
  BY DEF FoundOnce, OnceEach, IsShown

\* An instance that comes next was not written.
LEMMA NextNotShown ==
  ASSUME Typed, FoundOnce, UNCHANGED shown, k' = k + 1
  PROVE  /\ OnceEach' /\ \A i \in DOMAIN shown' : shown'[i].instance <= k'
         /\ ~IsShown'
<1>1. k \in Nat
  <2>1. k \in 0..Len(instances)
    BY DEF Typed, TypeOK
  <2> QED
    BY <2>1
<1>2. \A i \in DOMAIN shown : shown[i].instance \in Nat
  <2>1. shown \in Seq(Entries)
    BY DEF Typed, TypeOK, Entries
  <2>2. \A entry \in Entries : entry.instance \in Nat
    BY DEF Entries
  <2> QED
    BY <2>1, <2>2
<1> QED
  BY <1>1, <1>2 DEF FoundOnce, OnceEach, IsShown

\* The steps between instances.
LEMMA OuterOnce ==
  ASSUME Typed, AsksOne, FoundOnce, Start \/ StartFiles \/ EndFiles \/ StartInstance \/ End \/ EndInstance
                                  \/ Done \/ FailStore \/ UNCHANGED vars
  PROVE  FoundOnce'
<1>1. CASE StartInstance
  BY <1>1, NextNotShown DEF StartInstance, FoundOnce
<1>2. CASE Done \/ UNCHANGED vars
  BY <1>2 DEF Done, vars, rigid, FoundOnce, OnceEach, IsShown
<1>3. CASE StartFiles \/ EndFiles
  BY <1>3 DEF StartFiles, EndFiles, AsksOne, FoundOnce
<1>4. CASE Start \/ End \/ EndInstance \/ FailStore
  <2>1. UNCHANGED <<shown, k>> /\ pc' \in {"next", "done", "thrown"}
    BY <1>4 DEF Start, End, EndInstance, FailStore, Throw
  <2> QED
    BY <2>1, NothingShown DEF FoundOnce
<1> QED
  BY <1>1, <1>2, <1>3, <1>4

\* The loop over m_properties has each name once.
LEMMA BuiltinOnce ==
  ASSUME Typed, AsksOne, FoundOnce, WriteBuiltin \/ EndBuiltin
  PROVE  FoundOnce'
<1>1. CASE EndBuiltin
  <2>1. /\ UNCHANGED <<shown, k, found>> /\ pc = "builtin"
        /\ pc' = IF found THEN "end" ELSE "enter"
    BY <1>1 DEF EndBuiltin, AsksOne
  <2> QED
    BY <2>1, NothingShown DEF FoundOnce
<1>2. CASE WriteBuiltin
  <2> DEFINE name == Builtin[n]
  <2>1. pc = "builtin" /\ n \in DOMAIN Builtin /\ UNCHANGED <<request, k>> /\ n \in Nat
    BY <1>2, NamesAssumption DEF WriteBuiltin, Throw, rigid, Typed, TypeOK
  <2>2. CASE Throw
    <3>1. UNCHANGED <<shown, k>> /\ pc' = "thrown"
      BY <2>2 DEF Throw
    <3> QED
      BY <3>1, NothingShown DEF FoundOnce
  <2>3. CASE ~Throw /\ ~IsSpecified(name)
    <3>1. UNCHANGED <<shown, k, found>> /\ pc' = "builtin" /\ n' = n + 1
      BY <1>2, <2>1, <2>3 DEF WriteBuiltin
    <3>2. OnceEach' /\ (\A i \in DOMAIN shown' : shown'[i].instance <= k') /\ (IsShown' <=> IsShown)
      BY <3>1, NothingShown
    <3>3. ASSUME IsShown PROVE found /\ \E j \in DOMAIN Builtin : j < n' /\ Builtin[j] = request.property
      <4>1. PICK j \in DOMAIN Builtin : j < n /\ Builtin[j] = request.property
        BY <2>1, <3>3 DEF FoundOnce
      <4>2. j < n' /\ found
        BY <2>1, <3>1, <3>3, <4>1, NamesAssumption DEF FoundOnce
      <4> QED
        BY <4>1, <4>2
    <3> QED
      BY <2>1, <3>1, <3>2, <3>3 DEF FoundOnce
  <2>4. CASE ~Throw /\ IsSpecified(name)
    <3>1. /\ WriteShown("builtin", name) \/ UNCHANGED shown
          /\ found' = TRUE /\ pc' = "builtin" /\ n' = n + 1
      BY <1>2, <2>1, <2>4 DEF WriteBuiltin, WriteIfReadable
    <3>2. name = request.property
      BY <2>4 DEF IsSpecified, AsksOne, Specified
    <3>3. ~IsShown
      <4> SUFFICES ASSUME IsShown PROVE FALSE
        OBVIOUS
      <4>1. PICK j \in DOMAIN Builtin : j < n /\ Builtin[j] = request.property
        BY <2>1 DEF FoundOnce
      <4>2. j = n
        BY <2>1, <3>2, <4>1, BuiltinAssumption
      <4> QED
        BY <2>1, <4>1, <4>2
    <3>4. OnceEach' /\ \A i \in DOMAIN shown' : shown'[i].instance <= k'
      BY <2>1, <3>1, <3>3, FirstShown, NothingShown
    <3>5. found' /\ n \in DOMAIN Builtin /\ n < n' /\ Builtin[n] = request'.property
      BY <2>1, <3>1, <3>2
    <3> QED
      BY <3>1, <3>4, <3>5 DEF FoundOnce
  <2> QED
    BY <2>2, <2>3, <2>4
<1> QED
  BY <1>1, <1>2

\* Stores are not entered once it was found, and left when it is.
LEMMA StoresOnce ==
  ASSUME Typed, AsksOne, FoundOnce, SkipStore \/ EnterStore \/ WriteName \/ EndNames \/ LeaveStore
  PROVE  FoundOnce'
<1>0. place \in Places
  BY DEF Typed, TypeOK
<1>1. CASE SkipStore \/ LeaveStore
  <2>1. UNCHANGED <<shown, k>> /\ pc \in {"enter", "leave"} /\ pc' \in {"enter", "packages"}
    BY <1>1 DEF SkipStore, LeaveStore, Leave
  <2>2. OnceEach' /\ (\A i \in DOMAIN shown' : shown'[i].instance <= k') /\ (IsShown' <=> IsShown)
    BY <2>1, NothingShown
  <2>3. ASSUME IsShown, pc' = "enter" PROVE found' /\ place' # "own"
    <3>1. place' # "own"
      BY <1>0, <1>1, <2>3 DEF SkipStore, LeaveStore, Leave, NextPlace, Places
    <3>2. found /\ (pc = "enter" => place # "own")
      BY <2>1, <2>3 DEF FoundOnce
    <3>3. CASE SkipStore
      <4>1. pc = "enter" /\ found' = (found /\ place # "own")
        BY <3>3 DEF SkipStore
      <4> QED
        BY <3>1, <3>2, <4>1
    <3>4. CASE LeaveStore
      <4>1. found' = found
        BY <3>4 DEF LeaveStore
      <4> QED
        BY <3>1, <3>2, <4>1
    <3> QED
      BY <1>1, <3>3, <3>4
  <2> QED
    BY <2>1, <2>2, <2>3 DEF FoundOnce
<1>2. CASE EnterStore
  <2>1. /\ UNCHANGED <<shown, k>> /\ pc = "enter" /\ pc' = "store"
        /\ place = "own" \/ ~found
    BY <1>2 DEF EnterStore, AsksOne
  <2>2. ~IsShown
    BY <2>1 DEF FoundOnce
  <2> QED
    BY <2>1, <2>2, NothingShown DEF FoundOnce
<1>3. CASE EndNames
  <2>1. UNCHANGED <<shown, k>> /\ pc = "store" /\ pc' = "leave"
    BY <1>3 DEF EndNames
  <2>2. ~IsShown
    BY <2>1 DEF FoundOnce
  <2> QED
    BY <2>1, <2>2, NothingShown DEF FoundOnce
<1>4. CASE WriteName
  <2> DEFINE name == instance[place][n]
  <2>1. /\ pc = "store" /\ k' = k
        /\ found' = (Sought = name) /\ pc' = IF Sought = name THEN "leave" ELSE "store"
        /\ \/ UNCHANGED shown
           \/ Sought \in {None, name} /\ WriteShown(place, name)
    BY <1>4 DEF WriteName, WriteIfReadable
  <2>2. ~IsShown
    BY <2>1 DEF FoundOnce
  <2>3. CASE UNCHANGED shown
    BY <2>1, <2>2, <2>3, NothingShown DEF FoundOnce
  <2>4. CASE Sought \in {None, name} /\ WriteShown(place, name)
    <3>1. Sought = name
      BY <1>0, <2>4, SoughtIsNamed
    <3>2. found' /\ pc' = "leave"
      BY <2>1, <3>1
    <3>3. OnceEach' /\ \A i \in DOMAIN shown' : shown'[i].instance <= k'
      BY <2>1, <2>2, <2>4, FirstShown
    <3> QED
      BY <3>2, <3>3 DEF FoundOnce
  <2> QED
    BY <2>1, <2>3, <2>4
<1> QED
  BY <1>1, <1>2, <1>3, <1>4

\* Packages are not written, nor files.
LEMMA PackagesOnce ==
  ASSUME AsksOne, FoundOnce, WriteFile \/ StartPackages \/ StartPackage \/ WritePackageProperty
                             \/ EndPackage \/ EndPackages
  PROVE  FoundOnce'
<1>1. CASE StartPackages
  <2>1. UNCHANGED <<shown, k>> /\ pc' = "end"
    BY <1>1 DEF StartPackages, IsSpecified, AsksOne, Specified
  <2> QED
    BY <2>1, NothingShown DEF FoundOnce
<1>2. CASE WriteFile \/ StartPackage \/ WritePackageProperty \/ EndPackage \/ EndPackages
  BY <1>2 DEF WriteFile, StartPackage, WritePackageProperty, EndPackage, EndPackages, FoundOnce
<1> QED
  BY <1>1, <1>2

\* It is inductive.
LEMMA NextOnce == OneInv /\ [Next]_vars => OneInv'
<1> SUFFICES ASSUME OneInv, [Next]_vars PROVE OneInv'
  OBVIOUS
<1>1. Typed'
  BY NextTyped DEF OneInv
<1>2. request' = request
  BY DEF Next, Start, StartFiles, WriteFile, EndFiles, StartInstance, End, WriteBuiltin, EndBuiltin,
         SkipStore, FailStore, EnterStore, WriteName, EndNames, LeaveStore, StartPackages,
         StartPackage, WritePackageProperty, EndPackage, EndPackages, EndInstance, Done, Throw,
         vars, rigid
<1>3. AsksOne' <=> AsksOne
  BY <1>2 DEF AsksOne, Specified
<1>4. ASSUME AsksOne PROVE FoundOnce'
  BY <1>4, OuterOnce, BuiltinOnce, StoresOnce, PackagesOnce DEF OneInv, Next
<1> QED
  BY <1>1, <1>3, <1>4 DEF OneInv

\* One property is one value: of the first place that has it, and once from there,
\* whatever the instance has under the same name elsewhere.
THEOREM OneValue == Spec => []OneValueAtMost
<1>1. Init => OneInv
  <2> SUFFICES ASSUME Init PROVE OneInv
    OBVIOUS
  <2>1. shown = <<>> /\ pc = "start"
    BY DEF Init
  <2>2. DOMAIN shown = {}
    BY <2>1
  <2> QED
    BY <2>1, <2>2, InitTyped DEF OneInv, FoundOnce, OnceEach, IsShown
<1>2. OneInv => OneValueAtMost
  BY DEF OneInv, AsksOne, FoundOnce, OnceEach, OneValueAtMost
<1> QED
  BY <1>1, <1>2, NextOnce, PTL DEF Spec

-----------------------------------------------------------------------------
(* All that was asked for                                                   *)

\* What may be written, whatever the number of instances.
Tags == Places \cup {"builtin", "packages", "files"}
Lines == [instance : Nat, place : Tags, name : Names]

\* Names with the place they are in.
LEMMA TaggedType ==
  ASSUME NEW j \in Nat, NEW where \in Tags, NEW names \in Seq(Names)
  PROVE  /\ Tagged(j, where, names) \in Seq(Lines)
         /\ Len(Tagged(j, where, names)) = Len(names)
         /\ \A i \in 1..Len(names) : Tagged(j, where, names)[i] = [instance |-> j, place |-> where, name |-> names[i]]
<1>1. Len(names) \in Nat /\ DOMAIN names = 1..Len(names)
  OBVIOUS
<1>2. \A i \in 1..Len(names) : [instance |-> j, place |-> where, name |-> names[i]] \in Lines
  BY DEF Lines
<1> QED
  BY <1>1, <1>2 DEF Tagged

\* No names.
LEMMA TaggedEmpty == ASSUME NEW j, NEW where PROVE Tagged(j, where, <<>>) = <<>>
  BY DEF Tagged

\* More names.
LEMMA TaggedConcat ==
  ASSUME NEW j \in Nat, NEW where \in Tags, NEW s \in Seq(Names), NEW t \in Seq(Names)
  PROVE  Tagged(j, where, s \o t) = Tagged(j, where, s) \o Tagged(j, where, t)
<1> DEFINE u == s \o t
           p == Tagged(j, where, s)
           q == Tagged(j, where, t)
           r == Tagged(j, where, u)
           l == Len(s)
<1>0. u \in Seq(Names) /\ Len(u) = l + Len(t) /\ l \in Nat /\ Len(t) \in Nat
  OBVIOUS
<1>01. /\ \A i \in 1..l : u[i] = s[i]
       /\ \A i \in 1..Len(t) : u[l + i] = t[i]
  OBVIOUS
<1> HIDE DEF u, l
<1>1. /\ u \in Seq(Names) /\ Len(u) = l + Len(t) /\ l \in Nat /\ Len(t) \in Nat
      /\ \A i \in 1..l : u[i] = s[i]
      /\ \A i \in 1..Len(t) : u[l + i] = t[i]
  BY <1>0, <1>01
<1>2. /\ p \in Seq(Lines) /\ Len(p) = l /\ q \in Seq(Lines) /\ Len(q) = Len(t)
      /\ r \in Seq(Lines) /\ Len(r) = l + Len(t)
      /\ \A i \in 1..l : p[i] = [instance |-> j, place |-> where, name |-> s[i]]
      /\ \A i \in 1..Len(t) : q[i] = [instance |-> j, place |-> where, name |-> t[i]]
      /\ \A i \in 1..(l + Len(t)) : r[i] = [instance |-> j, place |-> where, name |-> u[i]]
  BY <1>1, TaggedType DEF l
<1> HIDE DEF p, q, r
<1>3. /\ \A i \in 1..Len(p) : r[i] = p[i]
      /\ \A i \in 1..Len(q) : r[Len(p) + i] = q[i]
  <2>1. \A i \in 1..l : i \in 1..(l + Len(t))
    BY <1>1
  <2>2. \A i \in 1..Len(t) : l + i \in 1..(l + Len(t))
    BY <1>1
  <2>3. ASSUME NEW i \in 1..Len(t) PROVE r[l + i] = q[i]
    BY <1>1, <1>2, <2>2, <2>3
  <2>4. ASSUME NEW i \in 1..l PROVE r[i] = p[i]
    BY <1>1, <1>2, <2>1, <2>4
  <2> QED
    BY <1>2, <2>3, <2>4
<1>4. r = p \o q
  <2>1. p \in Seq(Lines) /\ q \in Seq(Lines) /\ r \in Seq(Lines) /\ Len(r) = Len(p) + Len(q)
    BY <1>2
  <2> QED
    BY <1>3, <2>1, ConcatIs
<1> QED
  BY <1>4 DEF p, q, r, u

\* Writing a property adds its line.
LEMMA TaggedOne ==
  ASSUME NEW j, NEW where, NEW name
  PROVE  Tagged(j, where, <<name>>) = <<[instance |-> j, place |-> where, name |-> name]>>
  BY DEF Tagged

-----------------------------------------------------------------------------
(* What an instance has                                                     *)

\* The places in which a property is looked for.
Looked == Places \cup {"builtin"}

\* The names in a place.
LEMMA StoreType ==
  ASSUME NEW a \in Answers, NEW where \in Looked
  PROVE  /\ Store(a, where) \in Seq(Names) /\ Len(Store(a, where)) \in Nat
         /\ DOMAIN Store(a, where) = 1..Len(Store(a, where))
<1>1. <<>> \in Seq(Names)
  OBVIOUS
<1>2. Store(a, where) \in Seq(Names)
  BY <1>1, NamesAssumption DEF Store, Answers, Looked, Places
<1> QED
  BY <1>2

\* The names among the first c that are asked for.
Taken(a, where, c) == FlattenSeq([i \in 1..c |-> Asked(a, where, i)])

\* A name or none.
LEMMA AskedType ==
  ASSUME NEW a \in Answers, NEW where \in Looked, NEW i \in 1..Len(Store(a, where))
  PROVE  Asked(a, where, i) \in Seq(Names)
<1>1. Store(a, where)[i] \in Names
  BY StoreType
<1>2. <<Store(a, where)[i]>> \in Seq(Names) /\ <<>> \in Seq(Names)
  BY <1>1
<1> QED
  BY <1>2 DEF Asked

\* They are names; and with one more, it is asked about.
LEMMA TakenType ==
  ASSUME NEW a \in Answers, NEW where \in Looked, NEW c \in 0..Len(Store(a, where))
  PROVE  Taken(a, where, c) \in Seq(Names)
<1>1. c \in Nat /\ \A i \in 1..c : i \in 1..Len(Store(a, where))
  BY StoreType
<1> DEFINE f == [i \in 1..c |-> Asked(a, where, i)]
<1>2. f \in [1..c -> Seq(Names)]
  BY <1>1, AskedType
<1> HIDE DEF f
<1>3. FlattenSeq(f) \in Seq(Names)
  BY <1>1, <1>2, FlattenType
<1> QED
  BY <1>3 DEF Taken, f

\* One more.
LEMMA TakenNext ==
  ASSUME NEW a \in Answers, NEW where \in Looked, NEW c \in Nat, c + 1 <= Len(Store(a, where))
  PROVE  Taken(a, where, c + 1) = Taken(a, where, c) \o Asked(a, where, c + 1)
<1>1. \A i \in 1..(c + 1) : i \in 1..Len(Store(a, where))
  BY StoreType
<1> DEFINE f == [i \in 1..(c + 1) |-> Asked(a, where, i)]
<1>2. f \in [1..(c + 1) -> Seq(Names)]
  BY <1>1, AskedType
<1>3. f[c + 1] = Asked(a, where, c + 1) /\ [i \in 1..c |-> f[i]] = [i \in 1..c |-> Asked(a, where, i)]
  OBVIOUS
<1>4. FlattenSeq(f) = Taken(a, where, c + 1)
  BY DEF Taken
<1> HIDE DEF f
<1>5. FlattenSeq(f) = FlattenSeq([i \in 1..c |-> f[i]]) \o f[c + 1]
  BY <1>2, FlattenLast
<1> QED
  BY <1>3, <1>4, <1>5 DEF Taken

\* The same, said of the one that is added.
LEMMA TakenStep ==
  ASSUME NEW a \in Answers, NEW where \in Looked, NEW c \in 1..Len(Store(a, where))
  PROVE  /\ Taken(a, where, c - 1) \in Seq(Names) /\ Asked(a, where, c) \in Seq(Names)
         /\ Taken(a, where, c) = Taken(a, where, c - 1) \o Asked(a, where, c)
<1> DEFINE b == c - 1
<1>1. b \in Nat /\ c = b + 1 /\ b \in 0..Len(Store(a, where)) /\ b + 1 <= Len(Store(a, where))
  BY StoreType
<1> HIDE DEF b
<1>2. Taken(a, where, b) \in Seq(Names)
  BY <1>1, TakenType
<1>3. Taken(a, where, b + 1) = Taken(a, where, b) \o Asked(a, where, b + 1)
  BY <1>1, TakenNext
<1>4. Asked(a, where, c) \in Seq(Names)
  BY AskedType
<1> QED
  BY <1>1, <1>2, <1>3, <1>4 DEF b

\* None at first.
LEMMA TakenNone == ASSUME NEW a, NEW where PROVE Taken(a, where, 0) = <<>>
<1>1. [i \in 1..0 |-> Asked(a, where, i)] = <<>>
  OBVIOUS
<1> QED
  BY <1>1, FlattenEmpty DEF Taken

\* After the one that was sought nothing is asked for.
LEMMA TakenFound ==
  ASSUME NEW a \in Answers, NEW where \in Looked, NEW c \in 1..Len(Store(a, where)),
         Store(a, where)[c] = SoughtAt(where)
  PROVE  Taken(a, where, Len(Store(a, where))) = Taken(a, where, c)
<1> DEFINE size == Len(Store(a, where))
           f == [i \in 1..size |-> Asked(a, where, i)]
<1>1. size \in Nat /\ c \in 0..size /\ \A i \in 1..c : i \in 1..size
  BY StoreType
<1>2. f \in [1..size -> Seq(Names)]
  BY AskedType
<1>3. ASSUME NEW i \in (c + 1)..size PROVE f[i] = <<>>
  <2>1. i \in 1..size /\ c \in 1..(i - 1)
    BY <1>1
  <2>2. Asked(a, where, i) = <<>>
    BY <2>1 DEF Asked
  <2> QED
    BY <2>1, <2>2
<1>4. [i \in 1..c |-> f[i]] = [i \in 1..c |-> Asked(a, where, i)] /\ FlattenSeq(f) = Taken(a, where, size)
  BY <1>1 DEF Taken
<1> HIDE DEF f, size
<1>5. FlattenSeq(f) = FlattenSeq([i \in 1..c |-> f[i]])
  <2>1. \A i \in (c + 1)..size : f[i] = <<>>
    BY <1>3
  <2>2. size \in Nat /\ c \in 0..size
    BY <1>1
  <2>3. \A V : f \in [1..size -> Seq(V)] =>
          \A d \in 0..size : (\A i \in (d + 1)..size : f[i] = <<>>) => FlattenSeq(f) = FlattenSeq([i \in 1..d |-> f[i]])
    BY <2>2, FlattenRest, Zenon
  <2> QED
    BY <1>2, <2>1, <2>2, <2>3
<1> QED
  BY <1>4, <1>5 DEF Taken, size

\* What a place denotes.
LEMMA DenotedIs ==
  ASSUME NEW a \in Answers, NEW where \in Looked
  PROVE  /\ Denoted(a, where) = IF Reached(a, where) THEN Taken(a, where, Len(Store(a, where))) ELSE <<>>
         /\ Denoted(a, where) \in Seq(Names)
<1>1. DOMAIN Store(a, where) = 1..Len(Store(a, where)) /\ Len(Store(a, where)) \in 0..Len(Store(a, where))
  BY StoreType
<1>2. <<>> \in Seq(Names)
  OBVIOUS
<1> QED
  BY <1>1, <1>2, TakenType DEF Denoted, Taken

\* The packages are sequences of names.
LEMMA PackagesType ==
  ASSUME NEW a \in Answers
  PROVE  /\ a.packages \in Seq(Seq(Names)) /\ FlattenSeq(a.packages) \in Seq(Names)
         /\ DenotedPackages(a) \in Seq(Names)
<1>1. a.packages \in Seq(Seq(Names))
  BY DEF Answers
<1>2. FlattenSeq(a.packages) \in Seq(Names) /\ <<>> \in Seq(Names)
  BY <1>1, FlattenAppend, EmptySeq
<1> QED
  BY <1>1, <1>2 DEF DenotedPackages

\* What the first c places of an instance have.
Part(j, i) == Tagged(j, Order[i], Denoted(instances[j], Order[i]))
Parts(j, c) == FlattenSeq([i \in 1..c |-> Part(j, i)])

\* Every place is one.
LEMMA OrderIs ==
  /\ DOMAIN Order = 1..4
  /\ \A i \in 1..4 : Order[i] \in Looked /\ Order[i] \in Tags
  /\ Order[1] = "builtin" /\ Order[2] = "own" /\ Order[3] = "catalog" /\ Order[4] = "properties"
  BY DEF Order, Looked, Places, Tags

\* Types.
LEMMA PartType ==
  ASSUME NEW j \in Nat, instances[j] \in Answers, NEW i \in 1..4
  PROVE  Part(j, i) \in Seq(Lines)
<1>1. Denoted(instances[j], Order[i]) \in Seq(Names)
  BY OrderIs, DenotedIs
<1> QED
  BY <1>1, OrderIs, TaggedType DEF Part

\* One place after the other.
LEMMA PartsNext ==
  ASSUME NEW j \in Nat, instances[j] \in Answers, NEW c \in 0..3
  PROVE  /\ Parts(j, c) \in Seq(Lines) /\ Parts(j, c + 1) \in Seq(Lines)
         /\ Parts(j, c + 1) = Parts(j, c) \o Part(j, c + 1)
<1> DEFINE f == [i \in 1..(c + 1) |-> Part(j, i)]
<1>1. \A i \in 1..(c + 1) : i \in 1..4
  OBVIOUS
<1>2. f \in [1..(c + 1) -> Seq(Lines)]
  BY <1>1, PartType
<1>3. f[c + 1] = Part(j, c + 1) /\ [i \in 1..c |-> f[i]] = [i \in 1..c |-> Part(j, i)]
  OBVIOUS
<1>4. FlattenSeq(f) = Parts(j, c + 1) /\ c \in Nat
  BY DEF Parts
<1> HIDE DEF f
<1>5. /\ FlattenSeq([i \in 1..c |-> f[i]]) \in Seq(Lines)
      /\ f[c + 1] \in Seq(Lines)
      /\ FlattenSeq(f) = FlattenSeq([i \in 1..c |-> f[i]]) \o f[c + 1]
  BY <1>2, <1>4, FlattenLast
<1>6. FlattenSeq([i \in 1..c |-> f[i]]) = Parts(j, c)
  BY <1>3 DEF Parts
<1> HIDE DEF Parts
<1>7. Parts(j, c) \o f[c + 1] \in Seq(Lines)
  BY <1>5, <1>6
<1> QED
  BY <1>3, <1>4, <1>5, <1>6, <1>7

\* No place.
LEMMA PartsNone == ASSUME NEW j PROVE Parts(j, 0) = <<>>
<1>1. [i \in 1..0 |-> Part(j, i)] = <<>>
  OBVIOUS
<1> QED
  BY <1>1, FlattenEmpty DEF Parts

\* Everything of an instance.
LEMMA EverythingIs ==
  ASSUME NEW j \in Nat, instances[j] \in Answers
  PROVE  /\ Everything(j) \in Seq(Lines)
         /\ ~request.find => Everything(j) = Parts(j, 4) \o Tagged(j, "packages", DenotedPackages(instances[j]))
         /\ request.find => Everything(j) = Tagged(j, "files", IF instances[j].files = NoStore THEN <<>> ELSE instances[j].files)
<1> DEFINE a == instances[j]
           files == IF a.files = NoStore THEN <<>> ELSE a.files
<1>1. [i \in DOMAIN Order |-> Tagged(j, Order[i], Denoted(a, Order[i]))] = [i \in 1..4 |-> Part(j, i)]
  BY OrderIs DEF Part
<1>2. ~request.find => Everything(j) = Parts(j, 4) \o Tagged(j, "packages", DenotedPackages(a))
  BY <1>1 DEF Everything, Parts
<1>3. request.find => Everything(j) = Tagged(j, "files", files)
  BY DEF Everything
<1>4. files \in Seq(Names)
  <2>1. <<>> \in Seq(Names)
    OBVIOUS
  <2> QED
    BY <2>1 DEF Answers
<1>5. Tagged(j, "files", files) \in Seq(Lines)
  <2> HIDE DEF files
  <2> QED
    BY <1>4, TaggedType DEF Tags
<1>6. Tagged(j, "packages", DenotedPackages(a)) \in Seq(Lines)
  BY PackagesType, TaggedType DEF Tags
<1>7. Parts(j, 4) \in Seq(Lines)
  <2>1. 3 \in 0..3 /\ 3 + 1 = 4
    OBVIOUS
  <2> QED
    BY <2>1, PartsNext
<1>8. \A x, y \in Seq(Lines) : x \o y \in Seq(Lines)
  OBVIOUS
<1> QED
  BY <1>2, <1>3, <1>5, <1>6, <1>7, <1>8

\* Everything of the first c instances.
Upto(c) == FlattenSeq([j \in 1..c |-> Everything(j)])

\* One instance after the other.
LEMMA UptoNext ==
  ASSUME instances \in Seq(Answers), NEW c \in Nat, c + 1 <= Len(instances)
  PROVE  /\ Upto(c) \in Seq(Lines) /\ Upto(c + 1) = Upto(c) \o Everything(c + 1)
<1> DEFINE f == [j \in 1..(c + 1) |-> Everything(j)]
<1>1. \A j \in 1..(c + 1) : j \in Nat /\ instances[j] \in Answers
  OBVIOUS
<1>2. f \in [1..(c + 1) -> Seq(Lines)]
  BY <1>1, EverythingIs
<1>3. f[c + 1] = Everything(c + 1) /\ [j \in 1..c |-> f[j]] = [j \in 1..c |-> Everything(j)]
  OBVIOUS
<1>4. FlattenSeq(f) = Upto(c + 1)
  BY DEF Upto
<1> HIDE DEF f
<1>5. /\ FlattenSeq([j \in 1..c |-> f[j]]) \in Seq(Lines)
      /\ FlattenSeq(f) = FlattenSeq([j \in 1..c |-> f[j]]) \o f[c + 1]
  BY <1>2, FlattenLast
<1> QED
  BY <1>3, <1>4, <1>5 DEF Upto

\* No instance.
LEMMA UptoNone == Upto(0) = <<>>
<1>1. [j \in 1..0 |-> Everything(j)] = <<>>
  OBVIOUS
<1> QED
  BY <1>1, FlattenEmpty DEF Upto

\* A builtin property that can be read and was asked for is shown of each instance.
LEMMA ReadableIsShown ==
  ASSUME instances \in Seq(Answers), ~request.find, NEW j \in 1..Len(instances),
         NEW b \in DOMAIN Builtin, IsSpecified(Builtin[b]), Builtin[b] \notin instances[j].unreadable
  PROVE  [instance |-> j, place |-> "builtin", name |-> Builtin[b]] \in Range(Upto(Len(instances)))
<1> DEFINE a == instances[j]
           name == Builtin[b]
           line == [instance |-> j, place |-> "builtin", name |-> name]
           size == Len(Builtin)
<1>1. /\ a \in Answers /\ j \in Nat /\ Len(instances) \in Nat /\ "builtin" \in Looked
      /\ \A i \in 1..Len(instances) : i \in Nat /\ instances[i] \in Answers
      /\ b \in 1..size /\ size \in Nat /\ name \in Names /\ DOMAIN Builtin = 1..size
  BY NamesAssumption DEF Looked
<1>2. Store(a, "builtin") = Builtin /\ SoughtAt("builtin") = request.property
  BY DEF Store, SoughtAt
<1> HIDE DEF a
<1>3. Asked(a, "builtin", b) = <<name>>
  <2>1. request.property \in {None, name}
    BY DEF IsSpecified
  <2>2. ASSUME NEW i \in 1..(b - 1) PROVE Builtin[i] # request.property
    <3>1. i \in DOMAIN Builtin /\ i # b
      BY <1>1
    <3>2. Builtin[i] # name /\ Builtin[i] # None
      BY <3>1, <1>1, BuiltinAssumption, NamesAssumption
    <3> QED
      BY <2>1, <3>2
  <2> QED
    BY <1>2, <2>1, <2>2 DEF Asked, a
<1>4. name \in Range(Taken(a, "builtin", size))
  <2> DEFINE f == [i \in 1..size |-> Asked(a, "builtin", i)]
  <2>1. f \in [1..size -> Seq(Names)]
    BY <1>1, <1>2, AskedType
  <2>2. f[b] = <<name>>
    BY <1>1, <1>3
  <2> HIDE DEF f
  <2>3. Range(f[b]) \subseteq Range(FlattenSeq(f))
    BY <1>1, <2>1, FlattenHas
  <2>4. name \in Range(<<name>>)
    BY DEF Range
  <2> QED
    BY <2>2, <2>3, <2>4 DEF Taken, f
<1>5. Reached(a, "builtin")
  BY DEF Reached, Order
<1>6. Denoted(a, "builtin") = Taken(a, "builtin", size) /\ Denoted(a, "builtin") \in Seq(Names)
  BY <1>1, <1>2, <1>5, DenotedIs
<1>7. line \in Range(Part(j, 1))
  <2> DEFINE names == Denoted(a, "builtin")
  <2>1. Part(j, 1) = Tagged(j, "builtin", names)
    BY OrderIs DEF Part, a
  <2> HIDE DEF names
  <2>2. names \in Seq(Names) /\ name \in Range(names)
    BY <1>4, <1>6 DEF names
  <2>3. PICK i \in 1..Len(names) : names[i] = name
    BY <2>2 DEF Range
  <2>4. /\ Tagged(j, "builtin", names) \in Seq(Lines)
        /\ Len(Tagged(j, "builtin", names)) = Len(names)
        /\ Tagged(j, "builtin", names)[i] = line
    BY <1>1, <2>2, <2>3, TaggedType DEF Tags
  <2> QED
    BY <2>1, <2>3, <2>4 DEF Range
<1>8. line \in Range(Parts(j, 4))
  <2> DEFINE f == [i \in 1..4 |-> Part(j, i)]
  <2>1. f \in [1..4 -> Seq(Lines)] /\ 4 \in Nat /\ 1 \in 1..4
    BY <1>1, PartType DEF a
  <2>2. f[1] = Part(j, 1)
    OBVIOUS
  <2> HIDE DEF f
  <2>3. Range(f[1]) \subseteq Range(FlattenSeq(f))
    BY <2>1, FlattenHas
  <2> QED
    BY <1>7, <2>2, <2>3 DEF Parts, f
<1>9. line \in Range(Everything(j))
  <2> DEFINE s == Parts(j, 4)
             t == Tagged(j, "packages", DenotedPackages(a))
  <2>1. Everything(j) = s \o t
    BY <1>1, EverythingIs DEF a
  <2>2. s \in Seq(Lines)
    <3>1. 3 \in 0..3 /\ 3 + 1 = 4
      OBVIOUS
    <3> QED
      BY <1>1, <3>1, PartsNext DEF a
  <2>3. t \in Seq(Lines)
    BY <1>1, PackagesType, TaggedType DEF Tags
  <2>4. line \in Range(s)
    BY <1>8
  <2> HIDE DEF s, t
  <2>5. Range(s \o t) = Range(s) \cup Range(t)
    BY <2>2, <2>3, RangeConcat
  <2> QED
    BY <2>1, <2>4, <2>5
<1> DEFINE g == [i \in 1..Len(instances) |-> Everything(i)]
<1>10. g \in [1..Len(instances) -> Seq(Lines)]
  BY <1>1, EverythingIs
<1>11. g[j] = Everything(j)
  BY <1>1
<1> HIDE DEF g
<1>12. Range(g[j]) \subseteq Range(FlattenSeq(g))
  BY <1>1, <1>10, FlattenHas
<1> QED
  BY <1>9, <1>11, <1>12 DEF Upto, g
-----------------------------------------------------------------------------
(* What is shown, step by step                                              *)

\* The place of a property store in that order.
Rank(where) == CASE where = "own" -> 2 [] where = "catalog" -> 3 [] where = "properties" -> 4

\* What is shown of the instances before and of the instance at hand.
Shows(lines) == shown = Upto(k - 1) \o lines

\* Where, among the first c places, the property was found.
FoundIn(c) == Specified => (found <=> \E i \in 1..c : Has(instance, Order[i]))

WritesPackages == request.packages /\ SupportsPackages(request.format) /\ IsSpecified("packages")

\* What is shown at each control point.
BuiltinShown ==
  /\ n <= Len(Builtin) + 1
  /\ Shows(Parts(k, 0) \o Tagged(k, "builtin", Taken(instance, "builtin", n - 1)))
  /\ Specified => (found <=> \E j \in 1..(n - 1) : Builtin[j] = request.property)
EnterShown ==
  /\ Shows(Parts(k, Rank(place) - 1)) /\ ~Has(instance, "builtin")
  /\ place # "own" => FoundIn(Rank(place) - 1)
StoreShown ==
  /\ n <= Len(instance[place]) + 1
  /\ Shows(Parts(k, Rank(place) - 1) \o Tagged(k, place, Taken(instance, place, n - 1)))
  /\ \A i \in 1..(Rank(place) - 1) : ~Has(instance, Order[i])
  /\ \A j \in 1..(n - 1) : instance[place][j] # Sought
LeaveShown ==
  /\ Shows(Parts(k, Rank(place))) /\ ~Has(instance, "builtin") /\ FoundIn(Rank(place))
PackagesShown == Shows(Parts(k, 4)) /\ ~Has(instance, "builtin")
WrittenPackages(c) == FlattenSeq(SubSeq(instance.packages, 1, c))
PackageShown ==
  /\ WritesPackages /\ ~Has(instance, "builtin")
  /\ n <= Len(instance.packages) + 1
  /\ Shows(Parts(k, 4) \o Tagged(k, "packages", WrittenPackages(n - 1)))
InsideShown ==
  /\ WritesPackages /\ ~Has(instance, "builtin")
  /\ m <= Len(instance.packages[n]) + 1
  /\ Shows(Parts(k, 4) \o Tagged(k, "packages", WrittenPackages(n - 1)
                                              \o SubSeq(instance.packages[n], 1, m - 1)))
FilesShown ==
  /\ n <= Len(instance.files) + 1
  /\ Shows(Parts(k, 0) \o Tagged(k, "files", SubSeq(instance.files, 1, n - 1)))

\* And so the document grows, one instance after the other.
Progress ==
  /\ pc = "start" => k = 0
  /\ pc \in {"start", "next", "done"} => shown = Upto(k)
  /\ pc = "files" => request.find /\ FilesShown
  /\ pc \notin {"start", "next", "files", "done", "thrown"} => ~request.find
  /\ pc = "builtin" => BuiltinShown
  /\ pc = "enter" => EnterShown
  /\ pc = "store" => StoreShown
  /\ pc = "leave" => LeaveShown
  /\ pc = "packages" => PackagesShown
  /\ pc = "package" => PackageShown
  /\ pc = "inside" => InsideShown
  /\ pc = "end" => Shows(Everything(k))

ShowsInv == Typed /\ Progress

\* The meaning of the command line and of the instances does not change.
LEMMA SameMeaning ==
  ASSUME UNCHANGED rigid
  PROVE  /\ \A c : Upto(c)' = Upto(c)
         /\ \A j : Everything(j)' = Everything(j)
         /\ \A j, c : Parts(j, c)' = Parts(j, c)
         /\ \A j, where, names : Tagged(j, where, names)' = Tagged(j, where, names)
         /\ \A a, where, c : Taken(a, where, c)' = Taken(a, where, c)
         /\ \A a, where : Has(a, where)' <=> Has(a, where)
<1>1. request' = request /\ instances' = instances
  BY DEF rigid
<1>2. \A c : Upto(c)' = Upto(c)
  BY <1>1 DEF Upto, Everything, Tagged, Denoted, DenotedPackages, Reached, Asked, Has, Store,
     SoughtAt,
              SoughtIn, Specified, IsSpecified, SupportsPackages, Order, Properties
<1>3. \A j : Everything(j)' = Everything(j)
  BY <1>1 DEF Everything, Tagged, Denoted, DenotedPackages, Reached, Asked, Has, Store, SoughtAt,
              SoughtIn, Specified, IsSpecified, SupportsPackages, Order, Properties
<1>4. \A j, c : Parts(j, c)' = Parts(j, c)
  BY <1>1 DEF Parts, Part, Tagged, Denoted, Reached, Asked, Has, Store, SoughtAt,
              SoughtIn, Specified, Order, Properties
<1>5. \A a, where, c : Taken(a, where, c)' = Taken(a, where, c)
  BY <1>1 DEF Taken, Asked, Store, SoughtAt, SoughtIn, Specified, Properties
<1>6. \A a, where : Has(a, where)' <=> Has(a, where)
  BY <1>1 DEF Has, Store, SoughtAt, SoughtIn, Specified
<1>7. \A j, where, names : Tagged(j, where, names)' = Tagged(j, where, names)
  BY DEF Tagged
<1> QED
  BY <1>2, <1>3, <1>4, <1>5, <1>6, <1>7

-----------------------------------------------------------------------------
(* Steps towards it                                                         *)

\* What is known while an instance is at hand.
LEMMA AtHand ==
  ASSUME Typed, k > 0
  PROVE  /\ k \in Nat /\ k - 1 \in Nat /\ (k - 1) + 1 = k /\ k <= Len(instances)
         /\ instances \in Seq(Answers) /\ instance \in Answers /\ instances[k] = instance
         /\ Upto(k - 1) \in Seq(Lines)
         /\ Everything(k) \in Seq(Lines)
         /\ \A c \in 0..4 : Parts(k, c) \in Seq(Lines)
<1>1. instances \in Seq(Answers)
  BY MachinesAssumption DEF Typed, TypeOK
<1>2. k \in 0..Len(instances) /\ Len(instances) \in Nat
  BY <1>1 DEF Typed, TypeOK
<1>3. k \in Nat /\ k - 1 \in Nat /\ (k - 1) + 1 = k /\ k <= Len(instances)
  BY <1>2
<1>4. instances[k] = instance /\ instance \in Answers
  BY <1>1, <1>3 DEF instance
<1>5. Upto(k - 1) \in Seq(Lines)
  BY <1>1, <1>3, UptoNext
<1>6. ASSUME NEW c \in 0..4 PROVE Parts(k, c) \in Seq(Lines)
  <2>1. CASE c \in 0..3
    BY <1>3, <1>4, <2>1, PartsNext
  <2>2. CASE c = 4
    <3>1. 3 \in 0..3 /\ 3 + 1 = c
      BY <2>2
    <3> QED
      BY <1>3, <1>4, <3>1, PartsNext
  <2> QED
    BY <2>1, <2>2
<1>7. Everything(k) \in Seq(Lines)
  BY <1>3, <1>4, EverythingIs
<1> QED
  BY <1>1, <1>3, <1>4, <1>5, <1>6, <1>7

\* More names of a place.
LEMMA ShowMore ==
  ASSUME NEW u \in Seq(Lines), NEW p \in Seq(Lines), NEW j \in Nat, NEW where \in Tags,
         NEW s \in Seq(Names), NEW t \in Seq(Names)
  PROVE  (u \o (p \o Tagged(j, where, s))) \o Tagged(j, where, t)
           = u \o (p \o Tagged(j, where, s \o t))
<1> DEFINE q == Tagged(j, where, s)
           r == Tagged(j, where, t)
<1>1. q \in Seq(Lines) /\ r \in Seq(Lines)
  BY TaggedType
<1>2. Tagged(j, where, s \o t) = q \o r
  BY TaggedConcat
<1> HIDE DEF q, r
<1>4. (u \o (p \o q)) \o r = u \o ((p \o q) \o r) /\ (p \o q) \o r = p \o (q \o r)
  <2>1. p \o q \in Seq(Lines)
    BY <1>1
  <2>2. (p \o q) \o r = p \o (q \o r)
    BY <1>1
  <2> DEFINE w == p \o q
  <2>3. (u \o (p \o q)) \o r = u \o ((p \o q) \o r)
    <3>1. w \in Seq(Lines)
      BY <2>1
    <3> HIDE DEF w
    <3>2. (u \o w) \o r = u \o (w \o r)
      BY <1>1, <3>1
    <3> QED
      BY <3>2 DEF w
  <2> QED
    BY <2>2, <2>3
<1> QED
  BY <1>2, <1>4 DEF q, r

\* Writing a property adds its name, and not writing it adds none.
LEMMA WriteAdds ==
  ASSUME Typed, k > 0, NEW where \in Tags, NEW name \in Names,
         NEW names, IF names = <<name>> THEN WriteShown(where, name) ELSE names = <<>> /\ UNCHANGED shown
  PROVE  shown' = shown \o Tagged(k, where, names)
<1> DEFINE entry == [instance |-> k, place |-> where, name |-> name]
<1>1. shown \in Seq(Entries)
  BY DEF Typed, TypeOK, Entries
<1>2. Entries \subseteq Lines
  <2>1. 1..Len(instances) \subseteq Nat
    OBVIOUS
  <2> QED
    BY <2>1 DEF Entries, Lines, Tags
<1>3. shown \in Seq(Lines)
  BY <1>1, <1>2
<1>4. k \in Nat
  BY AtHand
<1>5. entry \in Lines
  BY <1>4 DEF Lines
<1>6. CASE names = <<name>>
  <2>1. shown' = Append(shown, entry) /\ Tagged(k, where, names) = <<entry>>
    BY <1>6, TaggedOne DEF WriteShown
  <2> HIDE DEF entry
  <2> QED
    BY <1>3, <1>5, <2>1, AppendIsConcat
<1>7. CASE names # <<name>>
  <2>1. shown' = shown /\ Tagged(k, where, names) = <<>>
    BY <1>7, TaggedEmpty
  <2> QED
    BY <1>3, <2>1, ConcatEmptySeq
<1> QED
  BY <1>6, <1>7

\* When nothing was asked for by name nothing is found.
LEMMA HasNothing == ASSUME ~Specified, NEW a, NEW where PROVE ~Has(a, where)
  BY DEF Has

\* Places after the one that has the property have no part.
LEMMA PartsFound ==
  ASSUME NEW j \in Nat, instances[j] \in Answers, NEW c \in 1..4, Has(instances[j], Order[c])
  PROVE  Parts(j, 4) = Parts(j, c) /\ \A i \in (c + 1)..4 : Part(j, i) = <<>>
<1> DEFINE f == [i \in 1..4 |-> Part(j, i)]
<1>1. f \in [1..4 -> Seq(Lines)]
  BY PartType
<1>2. ASSUME NEW i \in (c + 1)..4 PROVE Part(j, i) = <<>>
  <2>1. ~Reached(instances[j], Order[i])
    <3>1. i \in DOMAIN Order /\ c \in 1..(i - 1)
      BY OrderIs
    <3> QED
      BY <3>1 DEF Reached
  <2>2. Denoted(instances[j], Order[i]) = <<>>
    BY <2>1 DEF Denoted
  <2> QED
    BY <2>2, TaggedEmpty DEF Part
<1>3. \A i \in (c + 1)..4 : f[i] = <<>>
  BY <1>2
<1>4. FlattenSeq(f) = Parts(j, 4) /\ [i \in 1..c |-> f[i]] = [i \in 1..c |-> Part(j, i)]
  BY DEF Parts
<1> HIDE DEF f
<1>5. 4 \in Nat /\ c \in 0..4
  OBVIOUS
<1>6. \A V : f \in [1..4 -> Seq(V)] =>
        \A d \in 0..4 : (\A i \in (d + 1)..4 : f[i] = <<>>) => FlattenSeq(f) = FlattenSeq([i \in 1..d |-> f[i]])
  BY <1>5, FlattenRest, Zenon
<1>7. FlattenSeq(f) = FlattenSeq([i \in 1..c |-> f[i]])
  BY <1>1, <1>3, <1>5, <1>6
<1> QED
  BY <1>2, <1>4, <1>7 DEF Parts

\* Ranks are the indices in Order.
LEMMA RankIs ==
  ASSUME NEW where \in Places
  PROVE  /\ Rank(where) \in 2..4 /\ Rank(where) \in 1..4 /\ Rank(where) - 1 \in 0..3 /\ (Rank(where) - 1) + 1 = Rank(where)
         /\ Order[Rank(where)] = where
         /\ \A i \in DOMAIN Order : Order[i] = where => i = Rank(where)
  BY DEF Rank, Places, Order

\* Reached means that no place before has it.
LEMMA ReachedIs ==
  ASSUME NEW where \in Places, NEW a
  PROVE  Reached(a, where) <=> \A i \in 1..(Rank(where) - 1) : ~Has(a, Order[i])
<1>1. Rank(where) \in DOMAIN Order
  BY RankIs, OrderIs
<1> QED
  BY <1>1, RankIs DEF Reached

\* Leaving a store, or passing it.
LEMMA LeaveShows ==
  ASSUME Typed, Leave, UNCHANGED rigid, k' = k, shown' = shown, ~request.find,
         Shows(Parts(k, Rank(place))), ~Has(instance, "builtin"),
         Specified => (found' <=> \E i \in 1..Rank(place) : Has(instance, Order[i]))
  PROVE  Progress'
<1>1. place \in Places
  BY DEF Typed, TypeOK
<1>2. instance' = instance /\ Upto(k - 1)' = Upto(k - 1) /\ (Specified' <=> Specified) /\ request'.find = request.find
  BY SameMeaning DEF instance, Specified, rigid
<1>3. Has(instance, "builtin")' <=> Has(instance, "builtin")
  BY <1>2, SameMeaning
<1>4. CASE place = "properties"
  <2>1. pc' = "packages" /\ Rank(place) = 4
    BY <1>4 DEF Leave, Rank
  <2>2. Shows(Parts(k, 4))'
    BY <1>2, <2>1, SameMeaning DEF Shows
  <2> QED
    BY <1>2, <1>3, <2>1, <2>2 DEF Progress, PackagesShown
<1>5. CASE place # "properties"
  <2>1. pc' = "enter" /\ Rank(place') - 1 = Rank(place)
    BY <1>1, <1>5 DEF Leave, Rank, Places, NextPlace
  <2>2. Shows(Parts(k, Rank(place) - 1))'
    BY <1>2, <2>1, SameMeaning DEF Shows
  <2>3. FoundIn(Rank(place) - 1)'
    <3>1. Order' = Order /\ \A i : Has(instance, Order[i])' <=> Has(instance, Order[i])
      BY <1>2, SameMeaning DEF Order
    <3> QED
      BY <1>2, <2>1, <3>1 DEF FoundIn
  <2> QED
    BY <1>2, <1>3, <2>1, <2>2, <2>3 DEF Progress, EnterShown
<1> QED
  BY <1>4, <1>5

-----------------------------------------------------------------------------
(* The properties every instance has                                        *)

\* An exception ends it.
LEMMA ThrowShows == ASSUME Throw PROVE Progress'
  BY DEF Throw, Progress

\* m_properties.
LEMMA WriteBuiltinShows == ASSUME ShowsInv, WriteBuiltin PROVE Progress'
<1> DEFINE name == Builtin[n]
           asked == Asked(instance, "builtin", n)
           taken == Taken(instance, "builtin", n - 1)
<1>0. CASE Throw
  BY <1>0, ThrowShows
<1>00. CASE ~Throw
  <2>1. /\ pc = "builtin" /\ n \in 1..Len(Builtin) /\ n \in Nat /\ n - 1 \in Nat /\ (n - 1) + 1 = n
        /\ name \in Names /\ UNCHANGED rigid /\ k' = k
        /\ pc' = "builtin" /\ n' = n + 1 /\ Typed /\ BuiltinShown /\ k > 0 /\ ~request.find
        /\ Len(Builtin) \in Nat
    BY <1>00, NamesAssumption DEF WriteBuiltin, ShowsInv, Progress, Typed, TypeOK
  <2>2. Store(instance, "builtin") = Builtin /\ SoughtAt("builtin") = request.property
    BY DEF Store, SoughtAt
  <2>3. asked = IF IsSpecified(name) /\ name \notin instance.unreadable THEN <<name>> ELSE <<>>
    <3>1. ASSUME IsSpecified(name), NEW j \in 1..(n - 1) PROVE Builtin[j] # request.property
      <4>1. j \in 1..Len(Builtin) /\ j # n /\ Builtin[j] \in Names
        BY <2>1, NamesAssumption
      <4>2. Builtin[j] # name
        BY <2>1, <4>1, BuiltinAssumption, NamesAssumption
      <4> QED
        BY <3>1, <4>1, <4>2, NamesAssumption DEF IsSpecified
    <3> QED
      BY <2>2, <3>1 DEF Asked, IsSpecified
  <2>4. IF asked = <<name>> THEN WriteShown("builtin", name) ELSE asked = <<>> /\ UNCHANGED shown
    <3>1. <<name>> # <<>>
      OBVIOUS
    <3> QED
      BY <1>00, <2>3, <3>1 DEF WriteBuiltin, WriteIfReadable
  <2>5. shown' = shown \o Tagged(k, "builtin", asked)
    <3> HIDE DEF name, asked
    <3> QED
      BY <2>1, <2>4, WriteAdds DEF Tags
  <2>6. /\ instance \in Answers /\ taken \in Seq(Names) /\ asked \in Seq(Names)
        /\ Taken(instance, "builtin", n) = taken \o asked
    <3>1. instance \in Answers /\ "builtin" \in Looked
      BY <2>1, AtHand DEF Looked
    <3> QED
      BY <2>1, <2>2, <3>1, TakenStep
  <2>7. shown' = Upto(k - 1) \o (Parts(k, 0) \o Tagged(k, "builtin", Taken(instance, "builtin", n)))
    <3>1. shown = Upto(k - 1) \o (Parts(k, 0) \o Tagged(k, "builtin", taken))
      BY <2>1 DEF BuiltinShown, Shows
    <3>2. Upto(k - 1) \in Seq(Lines) /\ Parts(k, 0) \in Seq(Lines) /\ k \in Nat
      BY <2>1, AtHand
    <3>3. "builtin" \in Tags
      BY DEF Tags
    <3>4. taken \in Seq(Names) /\ asked \in Seq(Names)
      BY <2>6
    <3> HIDE DEF taken, asked
    <3>5. (Upto(k - 1) \o (Parts(k, 0) \o Tagged(k, "builtin", taken))) \o Tagged(k, "builtin", asked)
            = Upto(k - 1) \o (Parts(k, 0) \o Tagged(k, "builtin", taken \o asked))
      BY <3>2, <3>3, <3>4, ShowMore, ZenonT(60)
    <3> QED
      BY <2>5, <2>6, <3>1, <3>5
  <2>8. ASSUME Specified PROVE found' <=> \E j \in 1..n : Builtin[j] = request.property
    <3>1. found <=> \E j \in 1..(n - 1) : Builtin[j] = request.property
      BY <2>1, <2>8 DEF BuiltinShown
    <3>2. found' = IF IsSpecified(name) THEN TRUE ELSE found
      BY <1>00 DEF WriteBuiltin
    <3>3. IsSpecified(name) <=> name = request.property
      BY <2>8 DEF IsSpecified, Specified
    <3>4. \A j \in 1..n : j = n \/ j \in 1..(n - 1)
      BY <2>1
    <3>5. \A j \in 1..(n - 1) : j \in 1..n
      BY <2>1
    <3>6. CASE name = request.property
      <4>1. n \in 1..n
        BY <2>1
      <4> QED
        BY <3>2, <3>3, <3>6, <4>1
    <3>7. CASE name # request.property
      <4>1. found' = found
        BY <3>2, <3>3, <3>7
      <4> QED
        BY <3>1, <3>4, <3>5, <3>7, <4>1
    <3> QED
      BY <3>6, <3>7
  <2>9. request' = request /\ instance' = instance /\ n' - 1 = n /\ (Specified' <=> Specified)
    BY <2>1 DEF rigid, instance, Specified
  <2>10. BuiltinShown'
    <3>1. Shows(Parts(k, 0) \o Tagged(k, "builtin", Taken(instance, "builtin", n - 1)))'
      BY <2>1, <2>7, <2>9, SameMeaning DEF Shows
    <3>2. (Specified => (found <=> \E j \in 1..(n - 1) : Builtin[j] = request.property))'
      BY <2>8, <2>9
    <3>3. (n <= Len(Builtin) + 1)'
      BY <2>1
    <3> QED
      BY <3>1, <3>2, <3>3 DEF BuiltinShown
  <2> QED
    BY <2>1, <2>9, <2>10 DEF Progress
<1> QED
  BY <1>0, <1>00

\* After them, the other places are looked at unless it was found.
LEMMA EndBuiltinShows == ASSUME ShowsInv, EndBuiltin PROVE Progress'
<1>1. /\ pc = "builtin" /\ n = Len(Builtin) + 1 /\ n \in Nat /\ n - 1 = Len(Builtin) /\ UNCHANGED rigid
      /\ k' = k /\ shown' = shown /\ found' = found /\ place' = "own"
      /\ pc' = IF Specified /\ found THEN "end" ELSE "enter"
      /\ Typed /\ BuiltinShown /\ k > 0 /\ ~request.find /\ Len(Builtin) \in Nat
  BY NamesAssumption DEF EndBuiltin, ShowsInv, Progress, Typed, TypeOK, BuiltinShown
<1>2. /\ instance \in Answers /\ instances[k] = instance /\ k \in Nat /\ Upto(k - 1) \in Seq(Lines)
      /\ Parts(k, 0) \in Seq(Lines) /\ Parts(k, 1) \in Seq(Lines)
  BY <1>1, AtHand
<1>3. Store(instance, "builtin") = Builtin /\ SoughtAt("builtin") = request.property /\ Order[1] = "builtin"
  BY DEF Store, SoughtAt, Order
<1>4. Parts(k, 1) = Parts(k, 0) \o Tagged(k, "builtin", Taken(instance, "builtin", n - 1))
  <2>1. Reached(instance, "builtin")
    <3>1. \A j \in DOMAIN Order : Order[j] = "builtin" => j = 1
      BY DEF Order
    <3> QED
      BY <3>1 DEF Reached
  <2>2. Denoted(instance, "builtin") = Taken(instance, "builtin", n - 1)
    BY <1>1, <1>2, <1>3, <2>1, DenotedIs DEF Looked
  <2>3. Part(k, 1) = Tagged(k, "builtin", Taken(instance, "builtin", n - 1))
    BY <1>2, <1>3, <2>2 DEF Part
  <2>4. 0 \in 0..3 /\ 0 + 1 = 1
    OBVIOUS
  <2> QED
    BY <1>2, <2>3, <2>4, PartsNext
<1>5. shown = Upto(k - 1) \o Parts(k, 1)
  BY <1>1, <1>4 DEF BuiltinShown, Shows
<1>6. request' = request /\ instance' = instance /\ (Specified' <=> Specified)
  BY <1>1 DEF rigid, instance, Specified
<1>7. Specified => (found <=> Has(instance, "builtin"))
  <2> SUFFICES ASSUME Specified PROVE found <=> Has(instance, "builtin")
    OBVIOUS
  <2>1. found <=> \E j \in 1..Len(Builtin) : Builtin[j] = request.property
    BY <1>1 DEF BuiltinShown
  <2>2. Has(instance, "builtin") <=> request.property \in Range(Builtin)
    BY <1>3 DEF Has
  <2>3. DOMAIN Builtin = 1..Len(Builtin)
    BY NamesAssumption
  <2>4. request.property \in Range(Builtin) <=> \E j \in 1..Len(Builtin) : Builtin[j] = request.property
    BY <2>3 DEF Range
  <2> QED
    BY <2>1, <2>2, <2>4
<1>8. CASE Specified /\ found
  <2>1. Has(instance, "builtin")
    BY <1>7, <1>8
  <2>2. Parts(k, 4) = Parts(k, 1)
    <3>1. 1 \in 1..4
      OBVIOUS
    <3> QED
      BY <1>2, <1>3, <2>1, <3>1, PartsFound
  <2>3. DenotedPackages(instance) = <<>>
    BY <1>8, <2>1 DEF DenotedPackages
  <2>4. Everything(k) = Parts(k, 1) \o <<>>
    BY <1>1, <1>2, <2>2, <2>3, TaggedEmpty, EverythingIs
  <2>5. Everything(k) = Parts(k, 1)
    BY <1>2, <2>4, ConcatEmptySeq
  <2>6. Shows(Everything(k))'
    BY <1>1, <1>5, <2>5, SameMeaning DEF Shows
  <2> QED
    BY <1>1, <1>6, <1>8, <2>6 DEF Progress
<1>9. CASE ~(Specified /\ found)
  <2>1. ~Has(instance, "builtin")
    BY <1>7, <1>9, HasNothing
  <2>2. ~Has(instance, "builtin")'
    BY <1>1, <1>6, <2>1, SameMeaning
  <2>3. Rank(place') - 1 = 1
    BY <1>1 DEF Rank
  <2>4. Shows(Parts(k, Rank(place) - 1))'
    BY <1>1, <1>5, <2>3, SameMeaning DEF Shows
  <2>5. EnterShown'
    BY <1>1, <2>2, <2>4 DEF EnterShown
  <2> QED
    BY <1>1, <1>6, <1>9, <2>5 DEF Progress
<1> QED
  BY <1>8, <1>9

-----------------------------------------------------------------------------
(* Property stores                                                          *)

\* What a step inside a store works with.
LEMMA AtPlace ==
  ASSUME ShowsInv, pc \in {"enter", "store", "leave"}
  PROVE  /\ place \in Places /\ place \in Looked /\ place \in Tags /\ Typed /\ k > 0 /\ ~request.find
         /\ instance \in Answers /\ instances[k] = instance /\ k \in Nat /\ Upto(k - 1) \in Seq(Lines)
         /\ Rank(place) \in 1..4 /\ Rank(place) - 1 \in 0..3 /\ (Rank(place) - 1) + 1 = Rank(place)
         /\ Order[Rank(place)] = place
         /\ Parts(k, Rank(place) - 1) \in Seq(Lines)
         /\ Parts(k, Rank(place)) = Parts(k, Rank(place) - 1) \o Tagged(k, place, Denoted(instance, place))
         /\ place # "builtin" /\ SoughtAt(place) = Sought
<1>1. place \in Places /\ Typed /\ k > 0 /\ ~request.find
  BY DEF ShowsInv, Typed, TypeOK, Progress
<1>2. place \in Looked /\ place \in Tags /\ place # "builtin"
  BY <1>1 DEF Looked, Tags, Places
<1>3. /\ Rank(place) \in 1..4 /\ Rank(place) - 1 \in 0..3 /\ (Rank(place) - 1) + 1 = Rank(place)
      /\ Order[Rank(place)] = place
  BY <1>1, RankIs
<1>4. instance \in Answers /\ instances[k] = instance /\ k \in Nat /\ Upto(k - 1) \in Seq(Lines)
  BY <1>1, AtHand
<1> DEFINE c == Rank(place) - 1
<1>5. c \in 0..3 /\ c + 1 = Rank(place)
  BY <1>3
<1> HIDE DEF c
<1>6. Parts(k, c) \in Seq(Lines) /\ Parts(k, c + 1) = Parts(k, c) \o Part(k, c + 1)
  BY <1>4, <1>5, PartsNext
<1>7. Part(k, c + 1) = Tagged(k, place, Denoted(instance, place))
  BY <1>3, <1>4, <1>5 DEF Part
<1>8. SoughtAt(place) = Sought
  BY <1>2 DEF SoughtAt, Sought
<1> QED
  BY <1>1, <1>2, <1>3, <1>4, <1>5, <1>6, <1>7, <1>8 DEF c

\* A store that is not there, or not looked into, has no part.
LEMMA SkipStoreShows == ASSUME ShowsInv, SkipStore PROVE Progress'
<1>1. /\ pc = "enter" /\ UNCHANGED rigid /\ k' = k /\ shown' = shown /\ Leave
      /\ found' = (found /\ place # "own")
      /\ instance[place] = NoStore \/ (place # "own" /\ Specified /\ found)
      /\ EnterShown
  BY DEF SkipStore, ShowsInv, Progress
<1>2. /\ place \in Places /\ place \in Looked /\ Typed /\ k > 0 /\ ~request.find
      /\ instance \in Answers /\ k \in Nat
      /\ Rank(place) \in 1..4 /\ Rank(place) - 1 \in 0..3 /\ (Rank(place) - 1) + 1 = Rank(place)
      /\ Order[Rank(place)] = place
      /\ Parts(k, Rank(place) - 1) \in Seq(Lines)
      /\ Parts(k, Rank(place)) = Parts(k, Rank(place) - 1) \o Tagged(k, place, Denoted(instance, place))
      /\ place # "builtin"
  BY <1>1, AtPlace
<1>3. ASSUME instance[place] = NoStore
      PROVE  Denoted(instance, place) = <<>> /\ ~Has(instance, place)
  <2>1. Store(instance, place) = <<>>
    BY <1>2, <1>3 DEF Store
  <2>2. Len(Store(instance, place)) = 0 /\ DOMAIN Store(instance, place) = {}
    BY <2>1
  <2>3. Denoted(instance, place) = <<>>
    BY <1>2, <2>2, DenotedIs, TakenNone
  <2>4. ~Has(instance, place)
    BY <2>2 DEF Has, Range
  <2> QED
    BY <2>3, <2>4
<1>4. ASSUME place # "own", Specified, found PROVE Denoted(instance, place) = <<>>
  <2>1. \E i \in 1..(Rank(place) - 1) : Has(instance, Order[i])
    BY <1>1, <1>4 DEF EnterShown, FoundIn
  <2>2. ~Reached(instance, place)
    BY <1>2, <2>1, ReachedIs
  <2> QED
    BY <2>2 DEF Denoted
<1>5. Parts(k, Rank(place)) = Parts(k, Rank(place) - 1)
  <2>1. Denoted(instance, place) = <<>>
    BY <1>1, <1>3, <1>4
  <2>2. Tagged(k, place, Denoted(instance, place)) = <<>>
    BY <2>1, TaggedEmpty
  <2> QED
    BY <1>2, <2>2, ConcatEmptySeq
<1>6. Shows(Parts(k, Rank(place))) /\ ~Has(instance, "builtin")
  BY <1>1, <1>5 DEF EnterShown
<1>7. ASSUME Specified PROVE found' <=> \E i \in 1..Rank(place) : Has(instance, Order[i])
  <2>1. CASE place = "own"
    <3>1. ~found' /\ instance[place] = NoStore /\ Rank(place) = 2
      BY <1>1, <2>1 DEF Rank
    <3>2. ~Has(instance, Order[2]) /\ ~Has(instance, Order[1])
      BY <1>2, <1>3, <1>6, <3>1 DEF Order
    <3>3. \A i \in 1..2 : i = 1 \/ i = 2
      OBVIOUS
    <3> QED
      BY <3>1, <3>2, <3>3
  <2>2. CASE place # "own"
    <3>1. found' <=> found
      BY <1>1, <2>2
    <3>2. found <=> \E i \in 1..(Rank(place) - 1) : Has(instance, Order[i])
      BY <1>1, <1>7, <2>2 DEF EnterShown, FoundIn
    <3>3. \A i \in 1..Rank(place) : i = Rank(place) \/ i \in 1..(Rank(place) - 1)
      BY <1>2
    <3>4. \A i \in 1..(Rank(place) - 1) : i \in 1..Rank(place)
      BY <1>2
    <3>5. found \/ ~Has(instance, Order[Rank(place)])
      BY <1>1, <1>2, <1>3
    <3> QED
      BY <3>1, <3>2, <3>3, <3>4, <3>5
  <2> QED
    BY <2>1, <2>2
<1> QED
  BY <1>1, <1>2, <1>6, <1>7, LeaveShows

\* A store is looked into where nothing before it has the property.
LEMMA EnterStoreShows == ASSUME ShowsInv, EnterStore PROVE Progress'
<1>1. /\ pc = "enter" /\ UNCHANGED rigid /\ k' = k /\ shown' = shown /\ place' = place
      /\ n' = 1 /\ pc' = "store"
      /\ place = "own" \/ ~Specified \/ ~found
      /\ EnterShown
  BY DEF EnterStore, ShowsInv, Progress
<1>2. /\ place \in Places /\ Typed /\ k > 0 /\ ~request.find /\ place \in Looked
      /\ instance \in Answers /\ k \in Nat /\ Rank(place) - 1 \in 0..3
      /\ Parts(k, Rank(place) - 1) \in Seq(Lines)
  BY <1>1, AtPlace
<1>3. request' = request /\ instance' = instance
  BY <1>1 DEF rigid, instance
<1>4. n' - 1 = 0
  BY <1>1
<1>5. Tagged(k, place, Taken(instance, place, 0)) = <<>>
  BY TakenNone, TaggedEmpty
<1>6. Parts(k, Rank(place) - 1) \o Tagged(k, place, Taken(instance, place, 0)) = Parts(k, Rank(place) - 1)
  BY <1>2, <1>5, ConcatEmptySeq
<1>7. shown' = Upto(k - 1) \o (Parts(k, Rank(place) - 1) \o Tagged(k, place, Taken(instance, place, 0)))
  BY <1>1, <1>6 DEF EnterShown, Shows
<1>8. Shows(Parts(k, Rank(place) - 1) \o Tagged(k, place, Taken(instance, place, n - 1)))'
  BY <1>1, <1>3, <1>4, <1>7, SameMeaning DEF Shows
<1>9. ASSUME NEW i \in 1..(Rank(place) - 1) PROVE ~Has(instance, Order[i])
  <2>1. CASE place = "own"
    <3>1. Rank(place) - 1 = 1
      BY <2>1 DEF Rank
    <3>2. i = 1
      BY <3>1
    <3> QED
      BY <1>1, <3>2 DEF EnterShown, Order
  <2>2. CASE place # "own" /\ ~Specified
    BY <2>2, HasNothing
  <2>3. CASE place # "own" /\ Specified
    BY <1>1, <2>3 DEF EnterShown, FoundIn
  <2> QED
    BY <2>1, <2>2, <2>3
<1>10. (\A i \in 1..(Rank(place) - 1) : ~Has(instance, Order[i]))'
  <2>1. Order' = Order
    BY DEF Order
  <2> QED
    BY <1>1, <1>3, <1>9, <2>1, SameMeaning
<1>11. (n <= Len(instance[place]) + 1)'
  <2>1. instance[place] \in Seq(Names) \/ instance[place] = NoStore
    BY <1>2, InstanceType
  <2>2. instance[place] # NoStore
    BY DEF EnterStore
  <2>3. Len(instance[place]) \in Nat
    BY <2>1, <2>2
  <2> QED
    BY <1>1, <1>3, <2>3
<1>12. (\A j \in 1..(n - 1) : instance[place][j] # Sought)'
  BY <1>4
<1>13. StoreShown'
  BY <1>8, <1>10, <1>11, <1>12 DEF StoreShown
<1> QED
  BY <1>1, <1>2, <1>3, <1>13 DEF Progress

\* The names of a store that is there.
LEMMA StoreIs ==
  ASSUME ShowsInv, pc = "store"
  PROVE  /\ Store(instance, place) = instance[place] /\ instance[place] \in Seq(Names)
         /\ Len(instance[place]) \in Nat /\ n \in Nat /\ n > 0
<1>1. instance[place] # NoStore /\ n \in Nat /\ n > 0
  BY DEF ShowsInv, Typed, TypeOK
<1>2. place \in Places /\ Typed /\ k > 0 /\ place # "builtin"
  BY AtPlace
<1>3. instance[place] \in Seq(Names) \cup {NoStore}
  BY <1>2, InstanceType
<1>4. instance[place] \in Seq(Names)
  BY <1>1, <1>3
<1> QED
  BY <1>1, <1>2, <1>4 DEF Store

\* One name of a store.
LEMMA WriteNameShows == ASSUME ShowsInv, WriteName PROVE Progress'
<1> DEFINE names == instance[place]
           name  == names[n]
           asked == Asked(instance, place, n)
           taken == Taken(instance, place, n - 1)
           before == Parts(k, Rank(place) - 1)
<1>1. /\ pc = "store" /\ n <= Len(names) /\ UNCHANGED rigid /\ k' = k /\ place' = place /\ n' = n + 1
      /\ found' = (Sought = name) /\ pc' = IF Sought = name THEN "leave" ELSE "store"
      /\ IF Sought \in {None, name} /\ ~(place = "own" /\ name \in Properties)
           THEN WriteIfReadable(place, name) ELSE UNCHANGED <<formatter, shown>>
      /\ StoreShown
  BY DEF WriteName, ShowsInv, Progress
<1>2. /\ place \in Places /\ place \in Looked /\ place \in Tags /\ Typed /\ k > 0 /\ ~request.find
      /\ instance \in Answers /\ k \in Nat /\ Upto(k - 1) \in Seq(Lines)
      /\ Rank(place) \in 1..4 /\ Rank(place) - 1 \in 0..3 /\ (Rank(place) - 1) + 1 = Rank(place)
      /\ Order[Rank(place)] = place
      /\ before \in Seq(Lines)
      /\ Parts(k, Rank(place)) = before \o Tagged(k, place, Denoted(instance, place))
      /\ SoughtAt(place) = Sought /\ place # "builtin"
  BY <1>1, AtPlace
<1>3. /\ Store(instance, place) = names /\ names \in Seq(Names) /\ Len(names) \in Nat
      /\ n \in 1..Len(names) /\ n \in Nat /\ name \in Names
  BY <1>1, StoreIs
<1>4. /\ taken \in Seq(Names) /\ asked \in Seq(Names)
      /\ Taken(instance, place, n) = taken \o asked
  BY <1>2, <1>3, TakenStep
<1>5. asked = IF /\ Sought \in {None, name} /\ ~(place = "own" /\ name \in Properties)
                 /\ name \notin instance.unreadable
                THEN <<name>> ELSE <<>>
  BY <1>1, <1>2, <1>3 DEF Asked, StoreShown
<1>6. IF asked = <<name>> THEN WriteShown(place, name) ELSE asked = <<>> /\ UNCHANGED shown
  <2>1. <<name>> # <<>>
    OBVIOUS
  <2> QED
    BY <1>1, <1>5, <2>1 DEF WriteIfReadable
<1>7. shown' = shown \o Tagged(k, place, asked)
  <2> HIDE DEF name, asked
  <2> QED
    BY <1>2, <1>3, <1>6, WriteAdds
<1>8. shown' = Upto(k - 1) \o (before \o Tagged(k, place, Taken(instance, place, n)))
  <2>1. shown = Upto(k - 1) \o (before \o Tagged(k, place, taken))
    BY <1>1 DEF StoreShown, Shows
  <2> HIDE DEF taken, asked, before
  <2>2. (Upto(k - 1) \o (before \o Tagged(k, place, taken))) \o Tagged(k, place, asked)
          = Upto(k - 1) \o (before \o Tagged(k, place, taken \o asked))
    BY <1>2, <1>4, ShowMore, ZenonT(60)
  <2> QED
    BY <1>4, <1>7, <2>1, <2>2
<1>9. request' = request /\ instance' = instance /\ n' - 1 = n /\ (Specified' <=> Specified) /\ Sought' = Sought /\ Order' = Order
  BY <1>1, <1>3 DEF rigid, instance, Specified, Sought, SoughtIn, Order
<1>10. CASE Sought = name
  <2>1. pc' = "leave" /\ found'
    BY <1>1, <1>10
  <2>2. Has(instance, place) /\ Has(instance, Order[Rank(place)])
    <3>1. Specified
      <4>1. Sought # None
        BY <1>3, <1>10, NamesAssumption
      <4> QED
        BY <4>1 DEF Sought, SoughtIn, Specified
    <3>2. name \in Range(names)
      BY <1>3 DEF Range
    <3> QED
      BY <1>2, <1>3, <1>10, <3>1, <3>2 DEF Has
  <2>3. Denoted(instance, place) = Taken(instance, place, n)
    <3>1. Reached(instance, place)
      BY <1>1, <1>2, ReachedIs DEF StoreShown
    <3>2. Taken(instance, place, Len(names)) = Taken(instance, place, n)
      BY <1>2, <1>3, <1>10, TakenFound
    <3> QED
      BY <1>2, <1>3, <3>1, <3>2, DenotedIs
  <2>4. shown' = Upto(k - 1) \o Parts(k, Rank(place))
    BY <1>2, <1>8, <2>3
  <2>5. Shows(Parts(k, Rank(place)))'
    BY <1>1, <1>9, <2>4, SameMeaning DEF Shows
  <2>6. ~Has(instance, "builtin")
    <3>1. 1 \in 1..(Rank(place) - 1) /\ Order[1] = "builtin"
      BY <1>2 DEF Rank, Places, Order
    <3> QED
      BY <1>1, <3>1 DEF StoreShown
  <2>7. ~Has(instance, "builtin")'
    BY <1>1, <1>9, <2>6, SameMeaning
  <2>8. Has(instance, Order[Rank(place)])'
    BY <1>1, <1>9, <2>2, SameMeaning
  <2>9. FoundIn(Rank(place))'
    <3>1. Rank(place)' = Rank(place) /\ Rank(place) \in 1..Rank(place)
      BY <1>1, <1>2
    <3>2. (\E i \in 1..Rank(place) : Has(instance, Order[i]))'
      BY <2>8, <3>1
    <3> QED
      BY <2>1, <3>2 DEF FoundIn
  <2> QED
    BY <1>2, <1>9, <2>1, <2>5, <2>7, <2>9 DEF Progress, LeaveShown
<1>11. CASE Sought # name
  <2>1. pc' = "store"
    BY <1>1, <1>11
  <2>2. Shows(before \o Tagged(k, place, Taken(instance, place, n - 1)))'
    BY <1>1, <1>8, <1>9, SameMeaning DEF Shows
  <2>3. (n <= Len(instance[place]) + 1)'
    BY <1>1, <1>3, <1>9
  <2>4. (\A i \in 1..(Rank(place) - 1) : ~Has(instance, Order[i]))'
    BY <1>1, <1>9, SameMeaning DEF StoreShown
  <2>5. (\A j \in 1..(n - 1) : instance[place][j] # Sought)'
    <3>1. \A j \in 1..n : j = n \/ j \in 1..(n - 1)
      BY <1>3
    <3>2. \A j \in 1..n : names[j] # Sought
      BY <1>1, <1>11, <3>1 DEF StoreShown
    <3> QED
      BY <1>1, <1>9, <3>2
  <2>6. StoreShown'
    BY <2>2, <2>3, <2>4, <2>5 DEF StoreShown
  <2> QED
    BY <1>2, <1>9, <2>1, <2>6 DEF Progress
<1> QED
  BY <1>10, <1>11

\* All names were looked at.
LEMMA EndNamesShows == ASSUME ShowsInv, EndNames PROVE Progress'
<1> DEFINE names == instance[place]
           before == Parts(k, Rank(place) - 1)
<1>1. /\ pc = "store" /\ n > Len(names) /\ UNCHANGED rigid /\ k' = k /\ place' = place
      /\ found' = FALSE /\ pc' = "leave" /\ shown' = shown /\ StoreShown
  BY DEF EndNames, ShowsInv, Progress
<1>2. /\ place \in Places /\ place \in Looked /\ Typed /\ k > 0 /\ ~request.find
      /\ instance \in Answers /\ k \in Nat
      /\ Rank(place) \in 1..4 /\ Rank(place) - 1 \in 0..3 /\ (Rank(place) - 1) + 1 = Rank(place)
      /\ Order[Rank(place)] = place
      /\ Parts(k, Rank(place)) = before \o Tagged(k, place, Denoted(instance, place))
      /\ SoughtAt(place) = Sought
  BY <1>1, AtPlace
<1>3. /\ Store(instance, place) = names /\ names \in Seq(Names) /\ Len(names) \in Nat
      /\ n - 1 = Len(names) /\ DOMAIN names = 1..Len(names)
  BY <1>1, StoreIs DEF StoreShown
<1>4. Denoted(instance, place) = Taken(instance, place, n - 1)
  <2>1. Reached(instance, place)
    BY <1>1, <1>2, ReachedIs DEF StoreShown
  <2> QED
    BY <1>2, <1>3, <2>1, DenotedIs
<1>5. shown' = Upto(k - 1) \o Parts(k, Rank(place))
  BY <1>1, <1>2, <1>4 DEF StoreShown, Shows
<1>6. request' = request /\ instance' = instance /\ (Specified' <=> Specified) /\ Order' = Order
  BY <1>1 DEF rigid, instance, Specified, Order
<1>7. Shows(Parts(k, Rank(place)))'
  BY <1>1, <1>5, <1>6, SameMeaning DEF Shows
<1>8. ASSUME NEW i \in 1..Rank(place) PROVE ~Has(instance, Order[i])
  <2>1. CASE i = Rank(place)
    <3>1. Sought \notin Range(names)
      BY <1>1, <1>3 DEF StoreShown, Range
    <3> QED
      BY <1>2, <1>3, <2>1, <3>1 DEF Has
  <2>2. CASE i # Rank(place)
    <3>1. i \in 1..(Rank(place) - 1)
      BY <1>2, <2>2
    <3> QED
      BY <1>1, <3>1 DEF StoreShown
  <2> QED
    BY <2>1, <2>2
<1>9. (\A i \in 1..Rank(place) : ~Has(instance, Order[i]))'
  BY <1>1, <1>6, <1>8, SameMeaning
<1>10. ~Has(instance, "builtin")'
  <2>1. 1 \in 1..Rank(place) /\ Order[1] = "builtin"
    BY <1>2 DEF Order
  <2>2. ~Has(instance, "builtin")
    BY <1>8, <2>1
  <2> QED
    BY <1>1, <1>6, <2>2, SameMeaning
<1>11. FoundIn(Rank(place))'
  BY <1>1, <1>9 DEF FoundIn
<1> QED
  BY <1>1, <1>2, <1>6, <1>7, <1>10, <1>11 DEF Progress, LeaveShown

\* The object of a store ends.
LEMMA LeaveStoreShows == ASSUME ShowsInv, LeaveStore PROVE Progress'
<1>1. /\ pc = "leave" /\ UNCHANGED rigid /\ k' = k /\ shown' = shown /\ Leave /\ found' = found /\ LeaveShown
  BY DEF LeaveStore, ShowsInv, Progress
<1>2. Typed /\ ~request.find
  BY <1>1, AtPlace
<1> QED
  BY <1>1, <1>2, LeaveShows DEF LeaveShown, FoundIn

-----------------------------------------------------------------------------
(* The packages of an instance                                              *)

\* What a step among packages works with.
LEMMA AtPackages ==
  ASSUME ShowsInv, pc \in {"packages", "package", "inside", "end"}
  PROVE  /\ Typed /\ k > 0 /\ ~request.find /\ "packages" \in Tags
         /\ instance \in Answers /\ instances[k] = instance /\ k \in Nat /\ Upto(k - 1) \in Seq(Lines)
         /\ Parts(k, 4) \in Seq(Lines)
         /\ Everything(k) = Parts(k, 4) \o Tagged(k, "packages", DenotedPackages(instance))
         /\ instance.packages \in Seq(Seq(Names)) /\ Len(instance.packages) \in Nat
         /\ n \in Nat /\ n > 0 /\ m \in Nat /\ m > 0
<1>1. Typed /\ k > 0 /\ ~request.find /\ n \in Nat /\ n > 0 /\ m \in Nat /\ m > 0
  BY DEF ShowsInv, Typed, TypeOK, Progress
<1>2. /\ instance \in Answers /\ instances[k] = instance /\ k \in Nat /\ Upto(k - 1) \in Seq(Lines)
      /\ Parts(k, 4) \in Seq(Lines)
  BY <1>1, AtHand
<1>3. instance.packages \in Seq(Seq(Names))
  BY <1>2, PackagesType
<1>4. Everything(k) = Parts(k, 4) \o Tagged(k, "packages", DenotedPackages(instance))
  BY <1>1, <1>2, EverythingIs
<1>5. Len(instance.packages) \in Nat
  BY <1>3
<1> QED
  BY <1>1, <1>2, <1>3, <1>4, <1>5 DEF Tags

\* The packages before the c-th, and it.
LEMMA WrittenNext ==
  ASSUME instance.packages \in Seq(Seq(Names)), NEW c \in 1..Len(instance.packages)
  PROVE  /\ WrittenPackages(c - 1) \in Seq(Names) /\ instance.packages[c] \in Seq(Names)
         /\ WrittenPackages(c) = WrittenPackages(c - 1) \o instance.packages[c]
<1> DEFINE all == instance.packages
           b == c - 1
           r == SubSeq(all, 1, b)
           e == all[c]
<1>1. b \in Nat /\ b + 1 = c /\ c \in Nat /\ b <= Len(all) /\ c <= Len(all) /\ Len(all) \in Nat
  OBVIOUS
<1>2. e \in Seq(Names)
  OBVIOUS
<1> HIDE DEF b
<1>3. r \in Seq(Seq(Names))
  <2> DEFINE W == Seq(Names)
  <2>1. all \in Seq(W)
    OBVIOUS
  <2> HIDE DEF W, all
  <2>2. SubSeq(all, 1, b) \in Seq(W)
    BY <1>1, <2>1
  <2> QED
    BY <2>2 DEF W
<1>4. SubSeq(all, 1, c) = Append(r, e)
  <2> HIDE DEF all
  <2>1. all \in Seq(Seq(Names))
    BY DEF all
  <2>2. SubSeq(all, 1, b + 1) = Append(SubSeq(all, 1, b), all[b + 1])
    BY <1>1, <2>1
  <2> QED
    BY <1>1, <2>2
<1> HIDE DEF r, e
<1>5. FlattenSeq(r) \in Seq(Names) /\ FlattenSeq(Append(r, e)) = FlattenSeq(r) \o e
  BY <1>2, <1>3, FlattenAppend
<1> QED
  BY <1>1, <1>2, <1>4, <1>5 DEF WrittenPackages, b, r, e

\* No package.
LEMMA WrittenNone == WrittenPackages(0) = <<>>
<1>1. SubSeq(instance.packages, 1, 0) = <<>>
  BY SubSeqEmpty
<1> QED
  BY <1>1, FlattenEmpty DEF WrittenPackages

\* All of them.
LEMMA WrittenAll ==
  ASSUME instance.packages \in Seq(Seq(Names))
  PROVE  WrittenPackages(Len(instance.packages)) = FlattenSeq(instance.packages)
<1>1. SubSeq(instance.packages, 1, Len(instance.packages)) = instance.packages
  BY SubSeqFull
<1> QED
  BY <1>1 DEF WrittenPackages

\* What the packages are does not change.
LEMMA SamePackages ==
  ASSUME UNCHANGED rigid, k' = k
  PROVE  /\ instance' = instance /\ request' = request
         /\ \A c : WrittenPackages(c)' = WrittenPackages(c)
         /\ WritesPackages' <=> WritesPackages
         /\ Has(instance, "builtin")' <=> Has(instance, "builtin")
<1>1. instance' = instance /\ request' = request
  BY DEF rigid, instance
<1> QED
  BY <1>1, SameMeaning DEF WrittenPackages, WritesPackages, IsSpecified, SupportsPackages

\* When none is written none is denoted.
LEMMA StartPackagesShows == ASSUME ShowsInv, StartPackages PROVE Progress'
<1>1. /\ pc = "packages" /\ UNCHANGED rigid /\ k' = k /\ shown' = shown
      /\ shown = Upto(k - 1) \o Parts(k, 4) /\ ~Has(instance, "builtin")
      /\ IF WritesPackages /\ instance.packages # <<>>
           THEN n' = 1 /\ pc' = "package" ELSE pc' = "end"
  BY DEF StartPackages, ShowsInv, Progress, PackagesShown, Shows, WritesPackages
<1>2. /\ Typed /\ ~request.find /\ k \in Nat /\ Parts(k, 4) \in Seq(Lines)
      /\ Everything(k) = Parts(k, 4) \o Tagged(k, "packages", DenotedPackages(instance))
      /\ instance.packages \in Seq(Seq(Names)) /\ Len(instance.packages) \in Nat
  BY <1>1, AtPackages
<1>3. /\ instance' = instance /\ request' = request
      /\ \A c : WrittenPackages(c)' = WrittenPackages(c)
      /\ WritesPackages' <=> WritesPackages
      /\ ~Has(instance, "builtin")'
  BY <1>1, SamePackages
<1>4. Parts(k, 4) \o <<>> = Parts(k, 4)
  BY <1>2, ConcatEmptySeq
<1>5. CASE WritesPackages /\ instance.packages # <<>>
  <2>1. pc' = "package" /\ n' = 1 /\ n' - 1 = 0
    BY <1>1, <1>5
  <2>2. Tagged(k, "packages", WrittenPackages(0)) = <<>>
    BY WrittenNone, TaggedEmpty
  <2>3. shown' = Upto(k - 1) \o (Parts(k, 4) \o Tagged(k, "packages", WrittenPackages(0)))
    BY <1>1, <1>4, <2>2
  <2>4. Shows(Parts(k, 4) \o Tagged(k, "packages", WrittenPackages(n - 1)))'
    BY <1>1, <1>3, <2>1, <2>3, SameMeaning DEF Shows
  <2>5. (n <= Len(instance.packages) + 1)'
    BY <1>2, <1>3, <2>1
  <2>6. PackageShown'
    BY <1>3, <1>5, <2>4, <2>5 DEF PackageShown
  <2> QED
    BY <1>2, <1>3, <2>1, <2>6 DEF Progress
<1>6. CASE ~(WritesPackages /\ instance.packages # <<>>)
  <2>1. DenotedPackages(instance) = <<>>
    BY <1>6, FlattenEmpty DEF DenotedPackages, WritesPackages
  <2>2. Everything(k) = Parts(k, 4)
    BY <1>2, <1>4, <2>1, TaggedEmpty
  <2>3. Shows(Everything(k))'
    BY <1>1, <2>2, SameMeaning DEF Shows
  <2> QED
    BY <1>1, <1>2, <1>3, <1>6, <2>3 DEF Progress
<1> QED
  BY <1>5, <1>6

\* A package starts.
LEMMA StartPackageShows == ASSUME ShowsInv, StartPackage PROVE Progress'
<1>1. /\ pc = "package" /\ n <= Len(instance.packages) /\ UNCHANGED rigid /\ k' = k /\ shown' = shown
      /\ n' = n /\ m' = 1 /\ pc' = "inside" /\ PackageShown
  BY DEF StartPackage, ShowsInv, Progress
<1>2. /\ ~request.find /\ instance.packages \in Seq(Seq(Names)) /\ n \in 1..Len(instance.packages)
      /\ m' - 1 = 0
  BY <1>1, AtPackages
<1>3. /\ instance' = instance /\ request' = request
      /\ \A c : WrittenPackages(c)' = WrittenPackages(c)
      /\ WritesPackages' <=> WritesPackages
      /\ ~Has(instance, "builtin")'
  BY <1>1, SamePackages DEF PackageShown
<1>4. WrittenPackages(n - 1) \in Seq(Names) /\ instance.packages[n] \in Seq(Names)
  BY <1>2, WrittenNext
<1>5. WrittenPackages(n - 1) \o SubSeq(instance.packages[n], 1, 0) = WrittenPackages(n - 1)
  BY <1>4, SubSeqEmpty, ConcatEmptySeq
<1>6. shown' = Upto(k - 1) \o (Parts(k, 4) \o Tagged(k, "packages", WrittenPackages(n - 1) \o SubSeq(instance.packages[n], 1, 0)))
  BY <1>1, <1>5 DEF PackageShown, Shows
<1>7. Shows(Parts(k, 4) \o Tagged(k, "packages", WrittenPackages(n - 1) \o SubSeq(instance.packages[n], 1, m - 1)))'
  BY <1>1, <1>2, <1>3, <1>6, SameMeaning DEF Shows
<1>8. (m <= Len(instance.packages[n]) + 1)'
  <2>1. Len(instance.packages[n]) \in Nat
    BY <1>4
  <2> QED
    BY <1>1, <1>3, <2>1
<1>9. InsideShown'
  BY <1>1, <1>3, <1>7, <1>8 DEF InsideShown, PackageShown
<1> QED
  BY <1>1, <1>2, <1>3, <1>9 DEF Progress

\* A property of a package.
LEMMA WritePackagePropertyShows == ASSUME ShowsInv, WritePackageProperty PROVE Progress'
<1> DEFINE package == instance.packages[n]
           name == package[m]
           written == WrittenPackages(n - 1)
           some == written \o SubSeq(package, 1, m - 1)
<1>1. /\ pc = "inside" /\ m <= Len(package) /\ UNCHANGED rigid /\ k' = k /\ n' = n /\ m' = m + 1
      /\ pc' = "inside" /\ WriteShown("packages", name) /\ InsideShown
  BY DEF WritePackageProperty, ShowsInv, Progress
<1>2. /\ Typed /\ k > 0 /\ ~request.find /\ k \in Nat /\ Upto(k - 1) \in Seq(Lines) /\ Parts(k, 4) \in Seq(Lines)
      /\ instance.packages \in Seq(Seq(Names)) /\ n \in 1..Len(instance.packages) /\ n \in Nat
      /\ m \in Nat /\ m > 0 /\ "packages" \in Tags
  <2>1. n <= Len(instance.packages)
    BY <1>1 DEF ShowsInv, Typed, instance
  <2> QED
    BY <1>1, <2>1, AtPackages
<1>3. written \in Seq(Names) /\ package \in Seq(Names)
  BY <1>2, WrittenNext
<1> HIDE DEF package, written
<1>4. name \in Names /\ m \in 1..Len(package) /\ Len(package) \in Nat
  BY <1>1, <1>2, <1>3
<1>5. some \in Seq(Names) /\ some \o <<name>> = written \o SubSeq(package, 1, m)
  <2> DEFINE b == m - 1
             r == SubSeq(package, 1, b)
  <2>1. b \in Nat /\ b + 1 = m /\ b <= Len(package)
    BY <1>2, <1>4
  <2> HIDE DEF b
  <2>2. SubSeq(package, 1, b + 1) = Append(SubSeq(package, 1, b), package[b + 1]) /\ r \in Seq(Names)
    BY <1>3, <1>4, <2>1
  <2> HIDE DEF name
  <2>3. Append(r, name) = r \o <<name>> /\ <<name>> \in Seq(Names)
    BY <1>4, <2>2, AppendIsConcat
  <2>4. SubSeq(package, 1, m) = r \o <<name>>
    BY <2>1, <2>2, <2>3 DEF name
  <2>5. r \in Seq(Names) /\ <<name>> \in Seq(Names)
    BY <2>2, <2>3
  <2> DEFINE one == <<name>>
  <2> HIDE DEF r, one
  <2>6. (written \o r) \o one = written \o (r \o one) /\ written \o r \in Seq(Names)
    <3>1. r \in Seq(Names) /\ one \in Seq(Names)
      BY <2>5 DEF one
    <3> QED
      BY <1>3, <3>1
  <2> QED
    BY <2>4, <2>6 DEF r, b, one
<1>6. shown' = shown \o Tagged(k, "packages", <<name>>)
  <2> HIDE DEF name
  <2> QED
    BY <1>1, <1>2, <1>4, WriteAdds
<1>7. shown' = Upto(k - 1) \o (Parts(k, 4) \o Tagged(k, "packages", written \o SubSeq(package, 1, m)))
  <2>1. shown = Upto(k - 1) \o (Parts(k, 4) \o Tagged(k, "packages", some))
    BY <1>1 DEF InsideShown, Shows, written, package
  <2> DEFINE one == <<name>>
  <2>2. one \in Seq(Names) /\ some \in Seq(Names)
    BY <1>4, <1>5
  <2> HIDE DEF some, one
  <2>3. (Upto(k - 1) \o (Parts(k, 4) \o Tagged(k, "packages", some))) \o Tagged(k, "packages", one)
          = Upto(k - 1) \o (Parts(k, 4) \o Tagged(k, "packages", some \o one))
    <3>1. Upto(k - 1) \in Seq(Lines) /\ Parts(k, 4) \in Seq(Lines) /\ k \in Nat /\ "packages" \in Tags
      BY <1>2
    <3> QED
      BY <2>2, <3>1, ShowMore, ZenonT(60)
  <2> QED
    BY <1>5, <1>6, <2>1, <2>3 DEF one
<1>8. /\ instance' = instance /\ request' = request
      /\ \A c : WrittenPackages(c)' = WrittenPackages(c)
      /\ WritesPackages' <=> WritesPackages
      /\ ~Has(instance, "builtin")'
  BY <1>1, SamePackages DEF InsideShown
<1>9. Shows(Parts(k, 4) \o Tagged(k, "packages", WrittenPackages(n - 1) \o SubSeq(instance.packages[n], 1, m - 1)))'
  <2>1. m' - 1 = m
    BY <1>1, <1>2
  <2> QED
    BY <1>1, <1>7, <1>8, <2>1, SameMeaning DEF Shows, written, package
<1>10. (m <= Len(instance.packages[n]) + 1)'
  <2>1. m' <= Len(package) + 1
    BY <1>1, <1>2, <1>4
  <2> QED
    BY <1>1, <1>8, <2>1 DEF package
<1>11. InsideShown'
  BY <1>1, <1>8, <1>9, <1>10 DEF InsideShown
<1> QED
  BY <1>1, <1>2, <1>8, <1>11 DEF Progress

\* A package ends.
LEMMA EndPackageShows == ASSUME ShowsInv, EndPackage PROVE Progress'
<1> DEFINE package == instance.packages[n]
<1>1. /\ pc = "inside" /\ m > Len(package) /\ UNCHANGED rigid /\ k' = k /\ shown' = shown
      /\ n' = n + 1 /\ pc' = "package" /\ InsideShown
  BY DEF EndPackage, ShowsInv, Progress
<1>2. /\ ~request.find /\ instance.packages \in Seq(Seq(Names)) /\ n \in 1..Len(instance.packages) /\ n \in Nat
      /\ m \in Nat /\ Len(instance.packages) \in Nat
  <2>1. n <= Len(instance.packages)
    BY <1>1 DEF ShowsInv, Typed, instance
  <2> QED
    BY <1>1, <2>1, AtPackages
<1>3. /\ package \in Seq(Names)
      /\ WrittenPackages(n) = WrittenPackages(n - 1) \o package
  BY <1>2, WrittenNext
<1>4. m - 1 = Len(package) /\ SubSeq(package, 1, m - 1) = package
  <2>1. Len(package) \in Nat
    BY <1>3
  <2>2. m - 1 = Len(package)
    BY <1>1, <1>2, <2>1 DEF InsideShown
  <2> QED
    BY <1>3, <2>2, SubSeqFull
<1>5. shown' = Upto(k - 1) \o (Parts(k, 4) \o Tagged(k, "packages", WrittenPackages(n)))
  BY <1>1, <1>3, <1>4 DEF InsideShown, Shows
<1>6. /\ instance' = instance /\ request' = request
      /\ \A c : WrittenPackages(c)' = WrittenPackages(c)
      /\ WritesPackages' <=> WritesPackages
      /\ ~Has(instance, "builtin")'
  BY <1>1, SamePackages DEF InsideShown
<1>7. Shows(Parts(k, 4) \o Tagged(k, "packages", WrittenPackages(n - 1)))'
  <2>1. n' - 1 = n
    BY <1>1, <1>2
  <2> QED
    BY <1>1, <1>5, <1>6, <2>1, SameMeaning DEF Shows
<1>8. (n <= Len(instance.packages) + 1)'
  BY <1>1, <1>2, <1>6
<1>9. PackageShown'
  BY <1>1, <1>6, <1>7, <1>8 DEF PackageShown, InsideShown
<1> QED
  BY <1>1, <1>2, <1>6, <1>9 DEF Progress

\* The packages end: they are those denoted.
LEMMA EndPackagesShows == ASSUME ShowsInv, EndPackages PROVE Progress'
<1>1. /\ pc = "package" /\ n > Len(instance.packages) /\ UNCHANGED rigid /\ k' = k /\ shown' = shown
      /\ pc' = "end" /\ PackageShown
  BY DEF EndPackages, ShowsInv, Progress
<1>2. /\ ~request.find /\ instance.packages \in Seq(Seq(Names)) /\ n - 1 = Len(instance.packages)
      /\ Everything(k) = Parts(k, 4) \o Tagged(k, "packages", DenotedPackages(instance))
  <2>1. /\ ~request.find /\ instance.packages \in Seq(Seq(Names))
        /\ n \in Nat /\ Len(instance.packages) \in Nat
        /\ Everything(k) = Parts(k, 4) \o Tagged(k, "packages", DenotedPackages(instance))
    BY <1>1, AtPackages, Zenon
  <2>2. n <= Len(instance.packages) + 1
    BY <1>1 DEF PackageShown
  <2>3. n - 1 = Len(instance.packages)
    BY <1>1, <2>1, <2>2
  <2> QED
    BY <2>1, <2>3
<1>3. DenotedPackages(instance) = WrittenPackages(n - 1)
  BY <1>1, <1>2, WrittenAll DEF PackageShown, WritesPackages, DenotedPackages
<1>4. shown' = Upto(k - 1) \o Everything(k)
  BY <1>1, <1>2, <1>3 DEF PackageShown, Shows
<1>5. Shows(Everything(k))' /\ request' = request
  BY <1>1, <1>4, SameMeaning DEF Shows, rigid
<1> QED
  BY <1>1, <1>2, <1>5 DEF Progress

-----------------------------------------------------------------------------
(* Files, and the document as a whole                                       *)

\* The first instances have all that everything so far denotes.
LEMMA UptoThis ==
  ASSUME Typed, k > 0
  PROVE  /\ Upto(k) = Upto(k - 1) \o Everything(k)
         /\ Upto(k - 1) \in Seq(Lines) /\ Everything(k) \in Seq(Lines) /\ k \in Nat
<1> DEFINE c == k - 1
<1>1. c \in Nat /\ c + 1 = k /\ c + 1 <= Len(instances) /\ instances \in Seq(Answers) /\ k \in Nat
  BY AtHand
<1>2. Upto(k - 1) \in Seq(Lines) /\ Everything(k) \in Seq(Lines)
  BY AtHand
<1> HIDE DEF c
<1>3. Upto(c + 1) = Upto(c) \o Everything(c + 1)
  BY <1>1, UptoNext
<1> QED
  BY <1>1, <1>2, <1>3 DEF c

\* What is written before the next instance.
LEMMA AtNext ==
  ASSUME ShowsInv, pc = "next", k < Len(instances)
  PROVE  /\ k \in Nat /\ instances[k + 1] \in Answers /\ instances \in Seq(Answers)
         /\ k + 1 <= Len(instances) /\ (k + 1) - 1 = k
         /\ shown = Upto(k) /\ Upto(k) \in Seq(Lines)
         /\ Upto(k + 1) = Upto(k) \o Everything(k + 1)
<1>1. Typed /\ shown = Upto(k)
  BY DEF ShowsInv, Progress
<1>2. instances \in Seq(Answers)
  BY <1>1, MachinesAssumption DEF Typed, TypeOK
<1>3. k \in Nat /\ Len(instances) \in Nat
  BY <1>1, <1>2 DEF Typed, TypeOK
<1>4. k + 1 <= Len(instances) /\ (k + 1) - 1 = k
  BY <1>3
<1>5. instances[k + 1] \in Answers
  BY <1>2, <1>3, <1>4
<1>6. Upto(k) \in Seq(Lines) /\ Upto(k + 1) = Upto(k) \o Everything(k + 1)
  BY <1>2, <1>3, <1>4, UptoNext
<1> QED
  BY <1>1, <1>2, <1>3, <1>4, <1>5, <1>6

\* The document starts, and ends.
LEMMA EdgeShows == ASSUME ShowsInv, Start \/ End \/ Done \/ UNCHANGED vars PROVE Progress'
<1>1. /\ shown' = shown /\ k' = k /\ UNCHANGED rigid
      /\ pc \in {"start", "next", "done"} => pc' \in {"next", "done", pc}
  BY DEF Start, End, Done, vars
<1>2. Upto(k)' = Upto(k)
  BY <1>1, SameMeaning
<1>3. CASE Start \/ End
  <2>1. shown = Upto(k) /\ pc' \in {"next", "done"}
    BY <1>3 DEF Start, End, ShowsInv, Progress
  <2> QED
    BY <1>1, <1>2, <2>1 DEF Progress
<1>4. CASE Done
  <2>1. pc' = pc /\ pc \in {"done", "thrown"}
    BY <1>4 DEF Done, vars
  <2> QED
    BY <1>1, <1>2, <2>1 DEF ShowsInv, Progress
<1>5. CASE UNCHANGED vars
  <2>1. /\ pc' = pc /\ place' = place /\ n' = n /\ m' = m /\ found' = found /\ request' = request
        /\ instance' = instance /\ instances' = instances
    BY <1>5 DEF vars, rigid, instance
  <2>2. /\ (Specified' <=> Specified) /\ Sought' = Sought /\ Order' = Order
        /\ (WritesPackages' <=> WritesPackages) /\ Rank(place)' = Rank(place)
        /\ \A c : WrittenPackages(c)' = WrittenPackages(c)
    BY <2>1 DEF Specified, Sought, SoughtIn, Order, WritesPackages, IsSpecified, SupportsPackages,
                Rank, WrittenPackages
  <2>3. BuiltinShown' <=> BuiltinShown
    BY <1>1, <2>1, <2>2, SameMeaning DEF BuiltinShown, Shows
  <2>4. EnterShown' <=> EnterShown
    BY <1>1, <2>1, <2>2, SameMeaning DEF EnterShown, FoundIn, Shows
  <2>5. StoreShown' <=> StoreShown
    BY <1>1, <2>1, <2>2, SameMeaning DEF StoreShown, Shows
  <2>6. LeaveShown' <=> LeaveShown
    BY <1>1, <2>1, <2>2, SameMeaning DEF LeaveShown, FoundIn, Shows
  <2>7. PackagesShown' <=> PackagesShown
    BY <1>1, <2>1, <2>2, SameMeaning DEF PackagesShown, Shows
  <2>8. PackageShown' <=> PackageShown
    BY <1>1, <2>1, <2>2, SameMeaning DEF PackageShown, Shows
  <2>9. InsideShown' <=> InsideShown
    BY <1>1, <2>1, <2>2, SameMeaning DEF InsideShown, Shows
  <2>10. FilesShown' <=> FilesShown
    BY <1>1, <2>1, <2>2, SameMeaning DEF FilesShown, Shows
  <2>11. Shows(Everything(k))' <=> Shows(Everything(k))
    BY <1>1, <2>1, <2>2, SameMeaning DEF Shows
  <2> QED
    BY <1>1, <1>2, <2>1, <2>3, <2>4, <2>5, <2>6, <2>7, <2>8, <2>9, <2>10, <2>11 DEF ShowsInv,
       Progress
<1> QED
  BY <1>3, <1>4, <1>5

\* The files of the next instance.
LEMMA StartFilesShows == ASSUME ShowsInv, StartFiles PROVE Progress'
<1> DEFINE files == instances[k + 1].files
<1>0. CASE Throw
  BY <1>0, ThrowShows
<1>00. CASE ~Throw
  <2>1. /\ pc = "next" /\ request.find /\ k < Len(instances) /\ UNCHANGED rigid /\ shown' = shown
        /\ k' = k + 1 /\ n' = 1 /\ pc' = IF files = NoStore THEN "next" ELSE "files"
    BY <1>00 DEF StartFiles
  <2>2. /\ k \in Nat /\ instances[k + 1] \in Answers /\ (k + 1) - 1 = k
        /\ shown = Upto(k) /\ Upto(k) \in Seq(Lines)
        /\ Upto(k + 1) = Upto(k) \o Everything(k + 1)
    BY <2>1, AtNext
  <2>3. Everything(k + 1) = Tagged(k + 1, "files", IF files = NoStore THEN <<>> ELSE files)
    <3>1. k + 1 \in Nat
      BY <2>2
    <3> QED
      BY <2>1, <2>2, <3>1, EverythingIs
  <2>4. request' = request /\ instances' = instances
    BY <2>1 DEF rigid
  <2>5. \A c : Upto(c)' = Upto(c)
    BY <2>1, SameMeaning
  <2>6. CASE files = NoStore
    <3>1. Everything(k + 1) = <<>>
      BY <2>3, <2>6, TaggedEmpty
    <3>2. Upto(k + 1) = Upto(k)
      BY <2>2, <3>1, ConcatEmptySeq
    <3>3. shown' = Upto(k + 1) /\ pc' = "next"
      BY <2>1, <2>2, <2>6, <3>2
    <3>4. Upto(k)' = Upto(k + 1)
      BY <2>1, <2>5
    <3> QED
      BY <3>3, <3>4 DEF Progress
  <2>7. CASE files # NoStore
    <3>1. pc' = "files" /\ request'.find /\ n' - 1 = 0
      BY <2>1, <2>4, <2>7
    <3>2. files \in Seq(Names)
      BY <2>2, <2>7 DEF Answers
    <3>3. Upto(k - 1)' = Upto(k)
      <4>1. k' - 1 = k
        BY <2>1, <2>2
      <4> QED
        BY <2>5, <4>1
    <3>4. instance' = instances[k + 1]
      BY <2>1, <2>4 DEF instance
    <3>5. (Parts(k, 0) \o Tagged(k, "files", SubSeq(instance.files, 1, n - 1)))' = <<>>
      <4>1. Parts(k, 0)' = <<>>
        <5>1. Parts(k', 0) = <<>>
          BY PartsNone
        <5>2. Parts(k, 0)' = Parts(k', 0)
          BY <2>4 DEF Parts, Part, Tagged, Denoted, Reached, Asked, Has, Store, SoughtAt,
                      SoughtIn, Specified, Order, Properties
        <5> QED
          BY <5>1, <5>2
      <4>2. Tagged(k, "files", SubSeq(instance.files, 1, n - 1))' = <<>>
        <5>1. SubSeq(files, 1, 0) = <<>>
          BY SubSeqEmpty
        <5>2. SubSeq(instance.files, 1, n - 1)' = <<>>
          BY <3>1, <3>4, <5>1
        <5>3. \A l : Tagged(l, "files", <<>>)' = <<>>
          BY DEF Tagged
        <5>4. \A l, names : Tagged(l, "files", names)' = Tagged(l, "files", names)
          BY DEF Tagged
        <5>5. Tagged(k', "files", <<>>) = <<>>
          BY TaggedEmpty
        <5> QED
          BY <5>2, <5>4, <5>5
      <4> QED
        BY <4>1, <4>2, ConcatEmptySeq
    <3>6. Upto(k) \o <<>> = Upto(k)
      BY <2>2, ConcatEmptySeq
    <3>7. Shows(Parts(k, 0) \o Tagged(k, "files", SubSeq(instance.files, 1, n - 1)))'
      BY <2>1, <2>2, <3>3, <3>5, <3>6 DEF Shows
    <3>8. (n <= Len(instance.files) + 1)'
      <4>1. Len(files) \in Nat
        BY <3>2
      <4> QED
        BY <2>1, <3>4, <4>1
    <3>9. FilesShown'
      BY <3>7, <3>8 DEF FilesShown
    <3> QED
      BY <3>1, <3>9 DEF Progress
  <2> QED
    BY <2>6, <2>7
<1> QED
  BY <1>0, <1>00

\* What a step among files works with.
LEMMA AtFiles ==
  ASSUME ShowsInv, pc = "files"
  PROVE  /\ Typed /\ k > 0 /\ request.find /\ k \in Nat
         /\ Upto(k) = Upto(k - 1) \o Everything(k) /\ Upto(k - 1) \in Seq(Lines)
         /\ Parts(k, 0) = <<>>
         /\ instance.files \in Seq(Names) /\ Len(instance.files) \in Nat
         /\ Everything(k) = Tagged(k, "files", instance.files)
         /\ n \in Nat /\ n > 0
<1>1. Typed /\ k > 0 /\ request.find /\ n \in Nat /\ n > 0 /\ instance.files # NoStore
  BY DEF ShowsInv, Typed, TypeOK, Progress, instance
<1>2. instance \in Answers /\ instances[k] = instance
  BY <1>1, AtHand
<1>3. /\ Upto(k) = Upto(k - 1) \o Everything(k) /\ Upto(k - 1) \in Seq(Lines) /\ k \in Nat
  BY <1>1, UptoThis
<1>4. instance.files \in Seq(Names)
  BY <1>1, <1>2 DEF Answers
<1>5. Everything(k) = Tagged(k, "files", instance.files)
  BY <1>1, <1>2, <1>3, EverythingIs
<1>6. Len(instance.files) \in Nat
  BY <1>4
<1> QED
  BY <1>1, <1>3, <1>4, <1>5, <1>6, PartsNone

\* One file.
LEMMA WriteFileShows == ASSUME ShowsInv, WriteFile PROVE Progress'
<1> DEFINE files == instance.files
           name == files[n]
           some == SubSeq(files, 1, n - 1)
           one == <<name>>
<1>1. /\ pc = "files" /\ n <= Len(files) /\ UNCHANGED rigid /\ k' = k /\ n' = n + 1
      /\ pc' = "files" /\ WriteShown("files", name) /\ FilesShown
  BY DEF WriteFile, ShowsInv, Progress, instance
<1>2. /\ Typed /\ k > 0 /\ request.find /\ k \in Nat /\ Upto(k - 1) \in Seq(Lines)
      /\ Parts(k, 0) = <<>> /\ files \in Seq(Names) /\ Len(files) \in Nat
      /\ n \in Nat /\ n > 0
  BY <1>1, AtFiles
<1> HIDE DEF files
<1>3. name \in Names
  BY <1>1, <1>2
<1>4. some \in Seq(Names) /\ one \in Seq(Names) /\ SubSeq(files, 1, n) = some \o one
  <2> DEFINE b == n - 1
  <2>1. b \in Nat /\ b + 1 = n /\ b <= Len(files)
    BY <1>1, <1>2
  <2> HIDE DEF b
  <2>2. SubSeq(files, 1, b + 1) = Append(SubSeq(files, 1, b), files[b + 1]) /\ SubSeq(files, 1, b) \in Seq(Names)
    BY <1>1, <1>2, <2>1
  <2>3. \A x \in Seq(Names), y \in Names : Append(x, y) = x \o <<y>> /\ <<y>> \in Seq(Names)
    BY AppendIsConcat
  <2> HIDE DEF name
  <2>4. name = files[b + 1]
    BY <2>1 DEF name
  <2>5. SubSeq(files, 1, n) = SubSeq(files, 1, b) \o <<name>> /\ <<name>> \in Seq(Names)
    BY <1>3, <2>1, <2>2, <2>3, <2>4
  <2> QED
    BY <2>2, <2>5 DEF b
<1>5. shown' = shown \o Tagged(k, "files", one)
  <2>1. "files" \in Tags
    BY DEF Tags
  <2> HIDE DEF name
  <2> QED
    BY <1>1, <1>2, <1>3, <2>1, WriteAdds
<1>6. shown' = Upto(k - 1) \o (Parts(k, 0) \o Tagged(k, "files", SubSeq(files, 1, n)))
  <2>1. shown = Upto(k - 1) \o (Parts(k, 0) \o Tagged(k, "files", some))
    BY <1>1 DEF FilesShown, Shows, files
  <2>2. /\ Upto(k - 1) \in Seq(Lines) /\ Parts(k, 0) \in Seq(Lines) /\ k \in Nat /\ "files" \in Tags
        /\ some \in Seq(Names) /\ one \in Seq(Names)
    <3>1. <<>> \in Seq(Lines)
      OBVIOUS
    <3>2. "files" \in Tags
      BY DEF Tags
    <3> HIDE DEF some, one
    <3> QED
      BY <1>2, <1>4, <3>1, <3>2
  <2> HIDE DEF some, one
  <2>3. (Upto(k - 1) \o (Parts(k, 0) \o Tagged(k, "files", some))) \o Tagged(k, "files", one)
          = Upto(k - 1) \o (Parts(k, 0) \o Tagged(k, "files", some \o one))
    BY <2>2, ShowMore, ZenonT(60)
  <2> QED
    BY <1>4, <1>5, <2>1, <2>3
<1>7. request' = request /\ instance' = instance /\ n' - 1 = n
  BY <1>1, <1>2 DEF rigid, instance
<1>8. Shows(Parts(k, 0) \o Tagged(k, "files", SubSeq(instance.files, 1, n - 1)))'
  BY <1>1, <1>6, <1>7, SameMeaning DEF Shows, files
<1>9. (n <= Len(instance.files) + 1)'
  BY <1>1, <1>2, <1>7 DEF files
<1>10. FilesShown'
  BY <1>8, <1>9 DEF FilesShown
<1> QED
  BY <1>1, <1>2, <1>7, <1>10 DEF Progress

\* All files were written.
LEMMA EndFilesShows == ASSUME ShowsInv, EndFiles PROVE Progress'
<1> DEFINE files == instance.files
<1>1. /\ pc = "files" /\ n > Len(files) /\ UNCHANGED rigid /\ k' = k /\ shown' = shown
      /\ pc' = "next" /\ FilesShown
  BY DEF EndFiles, ShowsInv, Progress, instance
<1>2. /\ Upto(k) = Upto(k - 1) \o Everything(k) /\ Parts(k, 0) = <<>>
      /\ files \in Seq(Names) /\ Len(files) \in Nat
      /\ Everything(k) = Tagged(k, "files", files) /\ Everything(k) \in Seq(Lines)
      /\ n \in Nat /\ n > 0
  BY <1>1, AtFiles, UptoThis
<1>3. n - 1 = Len(files)
  BY <1>1, <1>2 DEF FilesShown
<1>4. SubSeq(files, 1, n - 1) = files
  BY <1>2, <1>3, SubSeqFull
<1>5. shown = Upto(k - 1) \o (Parts(k, 0) \o Everything(k))
  BY <1>1, <1>2, <1>4 DEF FilesShown, Shows
<1>6. <<>> \o Everything(k) = Everything(k)
  <2> DEFINE e == Everything(k)
  <2>1. e \in Seq(Lines)
    BY <1>2
  <2> HIDE DEF e
  <2>2. <<>> \o e = e
    BY <2>1, ConcatEmptySeq
  <2> QED
    BY <2>2 DEF e
<1>7. shown' = Upto(k)
  BY <1>1, <1>2, <1>5, <1>6
<1>8. Upto(k)' = Upto(k)
  BY <1>1, SameMeaning
<1> QED
  BY <1>1, <1>7, <1>8 DEF Progress

\* The next instance.
LEMMA StartInstanceShows == ASSUME ShowsInv, StartInstance PROVE Progress'
<1>1. /\ pc = "next" /\ ~request.find /\ k < Len(instances) /\ UNCHANGED rigid /\ shown' = shown
      /\ k' = k + 1 /\ n' = 1 /\ found' = FALSE /\ pc' = "builtin"
  BY DEF StartInstance
<1>2. k \in Nat /\ k' - 1 = k /\ shown = Upto(k) /\ Upto(k) \in Seq(Lines)
  BY <1>1, AtNext
<1>3. request' = request /\ n' - 1 = 0
  BY <1>1 DEF rigid
<1>4. Upto(k - 1)' = Upto(k)
  BY <1>1, <1>2, SameMeaning
<1>5. Parts(k, 0)' = <<>>
  <2>1. Parts(k', 0) = <<>>
    BY PartsNone
  <2> QED
    BY <1>1, <2>1, SameMeaning
<1>6. Tagged(k, "builtin", Taken(instance, "builtin", n - 1))' = <<>>
  <2>1. Taken(instance', "builtin", 0) = <<>>
    BY TakenNone
  <2>2. Taken(instance, "builtin", n - 1)' = <<>>
    BY <1>1, <1>3, <2>1, SameMeaning
  <2>3. Tagged(k', "builtin", <<>>) = <<>>
    BY TaggedEmpty
  <2> QED
    BY <1>1, <2>2, <2>3, SameMeaning
<1>7. <<>> \o <<>> = <<>> /\ Upto(k) \o <<>> = Upto(k)
  BY <1>2, ConcatEmptySeq
<1>8. Shows(Parts(k, 0) \o Tagged(k, "builtin", Taken(instance, "builtin", n - 1)))'
  BY <1>1, <1>2, <1>4, <1>5, <1>6, <1>7 DEF Shows
<1>9. (n <= Len(Builtin) + 1)'
  <2>1. Len(Builtin) \in Nat
    BY NamesAssumption
  <2> QED
    BY <1>1, <2>1
<1>10. (Specified => (found <=> \E j \in 1..(n - 1) : Builtin[j] = request.property))'
  <2>1. ~\E j \in 1..(n' - 1) : Builtin[j] = request'.property
    BY <1>3
  <2>2. ~found'
    BY <1>1
  <2> QED
    BY <2>1, <2>2
<1>11. BuiltinShown'
  BY <1>8, <1>9, <1>10 DEF BuiltinShown
<1> QED
  BY <1>1, <1>3, <1>11 DEF Progress

\* And its end.
LEMMA EndInstanceShows == ASSUME ShowsInv, EndInstance PROVE Progress'
<1>1. /\ pc = "end" /\ UNCHANGED rigid /\ k' = k /\ shown' = shown /\ pc' = "next"
      /\ Typed /\ k > 0 /\ Shows(Everything(k))
  BY DEF EndInstance, ShowsInv, Progress, Typed, TypeOK
<1>2. Upto(k) = Upto(k - 1) \o Everything(k)
  BY <1>1, UptoThis
<1>3. shown' = Upto(k) /\ Upto(k)' = Upto(k)
  BY <1>1, <1>2, SameMeaning DEF Shows
<1> QED
  BY <1>1, <1>3 DEF Progress

\* Initially nothing is shown.
LEMMA InitShows == Init => ShowsInv
<1> SUFFICES ASSUME Init PROVE Progress
  BY InitTyped DEF ShowsInv
<1>1. pc = "start" /\ k = 0 /\ shown = <<>>
  BY DEF Init
<1> QED
  BY <1>1, UptoNone DEF Progress

\* So it is when a formatter is created by a step of the program.
LEMMA InitShowsNext == Init' => ShowsInv'
  BY InitShows, PTL

\* And every step shows what comes next.
LEMMA NextShows == ShowsInv /\ [Next]_vars => ShowsInv'
<1> SUFFICES ASSUME ShowsInv, [Next]_vars PROVE Progress'
  BY NextTyped DEF ShowsInv
<1>1. CASE Start \/ End \/ Done \/ UNCHANGED vars
  BY <1>1, EdgeShows
<1>2. CASE StartFiles \/ WriteFile \/ EndFiles
  BY <1>2, StartFilesShows, WriteFileShows, EndFilesShows
<1>3. CASE StartInstance \/ EndInstance \/ WriteBuiltin \/ EndBuiltin
  BY <1>3, StartInstanceShows, EndInstanceShows, WriteBuiltinShows, EndBuiltinShows
<1>4. CASE SkipStore \/ FailStore \/ EnterStore \/ WriteName \/ EndNames \/ LeaveStore
  BY <1>4, SkipStoreShows, ThrowShows, EnterStoreShows, WriteNameShows, EndNamesShows,
     LeaveStoreShows DEF FailStore
<1>5. CASE StartPackages \/ StartPackage \/ WritePackageProperty \/ EndPackage \/ EndPackages
  BY <1>5, StartPackagesShows, StartPackageShows, WritePackagePropertyShows, EndPackageShows,
     EndPackagesShows
<1> QED
  BY <1>1, <1>2, <1>3, <1>4, <1>5 DEF Next

\* A document that is finished has gone over all instances.
LEMMA FinishedAtEnd ==
  ASSUME pc = "done" => k = Len(instances), [Next]_vars
  PROVE  pc' = "done" => k' = Len(instances)'
<1>1. instances' = instances
  BY DEF Next, vars, rigid, Start, StartFiles, WriteFile, EndFiles, StartInstance, End,
     WriteBuiltin,
     EndBuiltin, SkipStore, FailStore, EnterStore, WriteName, EndNames, LeaveStore, StartPackages,
     StartPackage, WritePackageProperty, EndPackage, EndPackages, EndInstance, Done, Throw
<1>2. pc' = "done" => k' = k /\ (pc = "done" \/ k = Len(instances))
  BY DEF Next, vars, Start, StartFiles, WriteFile, EndFiles, StartInstance, End, WriteBuiltin,
     EndBuiltin, SkipStore, FailStore, EnterStore, WriteName, EndNames, LeaveStore, StartPackages,
     StartPackage, WritePackageProperty, EndPackage, EndPackages, EndInstance, Done, Throw, Leave
<1> QED
  BY <1>1, <1>2

\* The document shows, of every instance gone over, all that was asked for and nothing
\* else, in the order of the places.
THEOREM ShowsEverything == Spec => []ShowsWhatWasAsked
<1>1. ShowsInv => ShowsWhatWasAsked
  BY DEF ShowsInv, Progress, ShowsWhatWasAsked, Upto
<1> QED
  BY <1>1, InitShows, NextShows, PTL DEF Spec

\* f has what a reader knows after each of the first e tokens.
Reads(f, text, e) == f = [p \in 0..e |-> IF p = 0 THEN NewReader ELSE Turn(f[p - 1], text[p])]

\* There is such a function.
LEMMA ReadsExists ==
  ASSUME NEW text, NEW e \in Nat
  PROVE  \E f : Reads(f, text, e)
<1> DEFINE All == {d \in Nat : \E f : Reads(f, text, d)}
<1>1. 0 \in All
  <2> DEFINE f == [p \in 0..0 |-> NewReader]
  <2>1. Reads(f, text, 0)
    BY DEF Reads
  <2> QED
    BY <2>1
<1>2. ASSUME NEW d \in Nat, d \in All PROVE d + 1 \in All
  <2>1. PICK f : Reads(f, text, d)
    BY <1>2
  <2> DEFINE h == [p \in 0..(d + 1) |-> IF p = d + 1 THEN Turn(f[d], text[p]) ELSE f[p]]
             g == [p \in 0..(d + 1) |-> IF p = 0 THEN NewReader ELSE Turn(h[p - 1], text[p])]
  <2>2. ASSUME NEW p \in 0..(d + 1) PROVE h[p] = g[p]
    <3>1. CASE p = d + 1
      <4>1. h[d] = f[d] /\ p # 0 /\ p - 1 = d
        BY <3>1
      <4> QED
        BY <3>1, <4>1
    <3>2. CASE p \in 0..d
      <4>1. h[p] = f[p]
        BY <3>2
      <4>2. f[p] = IF p = 0 THEN NewReader ELSE Turn(f[p - 1], text[p])
        BY <2>1, <3>2, Zenon DEF Reads
      <4>3. p # 0 => h[p - 1] = f[p - 1]
        BY <3>2
      <4> QED
        BY <4>1, <4>2, <4>3
    <3> QED
      BY <3>1, <3>2
  <2>3. h = g
    <3> HIDE DEF All
    <3>1. DOMAIN h = 0..(d + 1) /\ DOMAIN g = 0..(d + 1)
      OBVIOUS
    <3>2. h = [p \in 0..(d + 1) |-> h[p]] /\ g = [p \in 0..(d + 1) |-> g[p]]
      OBVIOUS
    <3> HIDE DEF h, g
    <3> QED
      BY <2>2, <3>2
  <2>4. Reads(h, text, d + 1)
    BY <2>3 DEF Reads
  <2> HIDE DEF h
  <2> QED
    BY <2>4
<1>3. e \in All
  <2> HIDE DEF All
  <2> QED
    BY <1>1, <1>2, SetInduction
<1> QED
  BY <1>3

\* Two readers know the same after the same tokens.
LEMMA ReadsUnique ==
  ASSUME NEW s, NEW t, NEW d \in Nat, NEW e \in Nat, d <= e, \A p \in 1..d : s[p] = t[p],
         NEW f, NEW g, Reads(f, s, d), Reads(g, t, e)
  PROVE  f[d] = g[d]
<1> DEFINE All == {p \in Nat : p <= d => f[p] = g[p]}
<1>0. ASSUME NEW p \in 0..d
      PROVE  /\ f[p] = IF p = 0 THEN NewReader ELSE Turn(f[p - 1], s[p])
             /\ g[p] = IF p = 0 THEN NewReader ELSE Turn(g[p - 1], t[p])
  <2>1. p \in 0..e
    OBVIOUS
  <2>2. f[p] = IF p = 0 THEN NewReader ELSE Turn(f[p - 1], s[p])
    BY Zenon DEF Reads
  <2>3. g[p] = IF p = 0 THEN NewReader ELSE Turn(g[p - 1], t[p])
    BY <2>1, Zenon DEF Reads
  <2> QED
    BY <2>2, <2>3
<1>1. 0 \in All
  BY <1>0
<1>2. ASSUME NEW p \in Nat, p \in All PROVE p + 1 \in All
  <2> SUFFICES ASSUME p + 1 <= d PROVE f[p + 1] = g[p + 1]
    OBVIOUS
  <2>1. p + 1 \in 0..d /\ p + 1 # 0 /\ (p + 1) - 1 = p /\ p + 1 \in 1..d /\ p <= d
    OBVIOUS
  <2>2. f[p] = g[p] /\ s[p + 1] = t[p + 1]
    BY <1>2, <2>1
  <2>3. f[p + 1] = Turn(f[p], s[p + 1]) /\ g[p + 1] = Turn(g[p], t[p + 1])
    BY <1>0, <2>1
  <2> QED
    BY <2>2, <2>3
<1>3. d \in All
  <2> HIDE DEF All
  <2> QED
    BY <1>1, <1>2, SetInduction
<1> QED
  BY <1>3

\* What Read gives.
LEMMA ReadIs ==
  ASSUME NEW text, Len(text) \in Nat
  PROVE  \E f : Reads(f, text, Len(text)) /\ Read(text) = f[Len(text)]
<1> DEFINE Is(f) == f = [p \in 0..Len(text) |->
                           IF p = 0 THEN NewReader ELSE Turn(f[p - 1], text[p])]
           read == CHOOSE f : Is(f)
<1>1. PICK f : Reads(f, text, Len(text))
  BY ReadsExists
<1>2. Is(f)
  BY <1>1 DEF Reads
<1>3. Is(read)
  <2> HIDE DEF Is
  <2> QED
    BY <1>2
<1>4. Read(text) = read[Len(text)]
  BY DEF Read
<1>5. Reads(read, text, Len(text))
  <2> HIDE DEF read
  <2> QED
    BY <1>3 DEF Reads
<1> HIDE DEF read, Is
<1> QED
  BY <1>4, <1>5

\* A text begins with nothing,
LEMMA ReadEmpty == Read(<<>>) = NewReader
<1>1. Len(<<>>) = 0
  OBVIOUS
<1>2. PICK f : Reads(f, <<>>, 0) /\ Read(<<>>) = f[0]
  BY <1>1, ReadIs
<1>3. f[0] = NewReader
  BY <1>2 DEF Reads
<1> QED
  BY <1>2, <1>3

\* and grows by a token.
LEMMA ReadAppend ==
  ASSUME NEW text, IsSeq(text), NEW t
  PROVE  Read(Append(text, t)) = Turn(Read(text), t)
<1> DEFINE size == Len(text)
           more == Append(text, t)
<1>1. /\ size \in Nat /\ Len(more) = size + 1 /\ more[size + 1] = t
      /\ \A j \in 1..size : more[j] = text[j]
  <2>1. IsSeq(more)
    BY AppendIsSeq
  <2>2. PICK S : more \in Seq(S)
    BY <2>1 DEF IsSeq
  <2>3. DOMAIN more = 1..(size + 1) /\ size \in Nat
    BY AppendIsSeq
  <2>4. Len(more) = size + 1
    BY <2>2, <2>3
  <2> QED
    BY <2>4, AppendIsSeq
<1> HIDE DEF size, more
<1>2. PICK f : Reads(f, text, size) /\ Read(text) = f[size]
  BY <1>1, ReadIs DEF size
<1>3. PICK g : Reads(g, more, size + 1) /\ Read(more) = g[size + 1]
  BY <1>1, ReadIs
<1>4. f[size] = g[size]
  <2>1. size \in Nat /\ size + 1 \in Nat /\ size <= size + 1
    BY <1>1
  <2>2. \A j \in 1..size : text[j] = more[j]
    BY <1>1
  <2>3. Reads(f, text, size) /\ Reads(g, more, size + 1)
    BY <1>2, <1>3
  <2> QED
    BY ONLY <2>1, <2>2, <2>3, ReadsUnique, Z3
<1>5. g[size + 1] = Turn(g[size], more[size + 1])
  <2>1. size + 1 \in 0..(size + 1) /\ size + 1 # 0 /\ (size + 1) - 1 = size
    BY <1>1
  <2>2. g[size + 1] = IF size + 1 = 0 THEN NewReader ELSE Turn(g[(size + 1) - 1], more[size + 1])
    BY <1>3, <2>1, Zenon DEF Reads
  <2> QED
    BY <2>1, <2>2
<1> QED
  BY <1>1, <1>2, <1>3, <1>4, <1>5 DEF more

-----------------------------------------------------------------------------
(* What a reader makes of each kind of token                                *)

\* Any token: what was closed and known before stays so.
LEMMA TurnIs ==
  ASSUME NEW r, NEW t
  PROVE  /\ Turn(r, t).last = t.token
         /\ Turn(r, t).legal = (r.legal /\ Allows(r, t))
         /\ Turn(r, t).outside = IF r.open = <<>> THEN Append(r.outside, t.token) ELSE r.outside
         /\ t.token # "close" => (Turn(r, t).balanced <=> r.balanced)
         /\ t.token \notin {"open", "close"} => Turn(r, t).open = r.open
         /\ t.token # "value" => Turn(r, t).values = r.values
  BY DEF Turn

\* A scope that starts,
LEMMA TurnOpen ==
  ASSUME NEW r, NEW t, t.token = "open"
  PROVE  Turn(r, t).open = Append(r.open, Label(t))
  BY DEF Turn

\* one that ends,
LEMMA TurnClose ==
  ASSUME NEW r, NEW t, t.token = "close", r.open # <<>>, Last(r.open) = Label(t)
  PROVE  /\ Turn(r, t).open = Front(r.open)
         /\ Turn(r, t).balanced <=> r.balanced
  BY DEF Turn

\* and a value.
LEMMA TurnValue ==
  ASSUME NEW r, NEW t, t.token = "value"
  PROVE  Turn(r, t).values = Append(r.values, [name |-> t.name, under |-> Under(r, t)])
  BY DEF Turn

\* The labels of tokens.
LEMMA Labels ==
  ASSUME NEW l
  PROVE  /\ J!Open(l).token = "open" /\ Label(J!Open(l)) = l
         /\ X!Open(l).token = "open" /\ Label(X!Open(l)) = l
         /\ J!Close(l).token = "close" /\ Label(J!Close(l)) = l
         /\ X!Close(l).token = "close" /\ Label(X!Close(l)) = l
         /\ J!Key(l).token = "key" /\ J!Comma.token = "comma"
         /\ J!Text(l).token = "value" /\ J!Text(l).name = l /\ "prefix" \notin DOMAIN J!Text(l)
         /\ X!Text(l).token = "value" /\ X!Text(l).name = l /\ "prefix" \notin DOMAIN X!Text(l)
         /\ X!Declaration.token = "declaration"
  BY DEF J!Open, X!Open, J!Close, X!Close, J!Key, J!Comma, J!Text, X!Text, X!Declaration, Label

\* What is added to a text comes after all of it.
LEMMA ConcatAppend ==
  ASSUME NEW V, NEW p \in Seq(V), NEW q \in Seq(V), NEW v \in V
  PROVE  /\ p \o (q \o <<v>>) = Append(p \o q, v)
         /\ p \o <<v>> = Append(p, v)
         /\ p \o <<>> = p
         /\ p \o q \in Seq(V)
<1>1. \A s \in Seq(V) : s \o <<v>> = Append(s, v)
  BY AppendProperties
<1>2. p \o (q \o <<v>>) = (p \o q) \o <<v>>
  BY ConcatAssociative
<1> QED
  BY <1>1, <1>2, ConcatProperties, ConcatEmptySeq

\* So do two tokens.
Two(s, u, v) == Append(Append(s, u), v)

\* So do two tokens, written one after the other.
LEMMA ConcatTwo ==
  ASSUME NEW V, NEW p \in Seq(V), NEW q \in Seq(V), NEW u \in V, NEW v \in V
  PROVE  p \o (q \o <<u, v>>) = Two(p \o q, u, v)
<1> DEFINE r == q \o <<u>>
<1>1. r \in Seq(V) /\ p \o r = Append(p \o q, u)
  BY ConcatAppend
<1>2. q \o <<u, v>> = Append(r, v)
  OBVIOUS
<1>3. Append(r, v) = r \o <<v>>
  BY <1>1, ConcatAppend
<1> HIDE DEF r
<1>4. p \o (r \o <<v>>) = Append(p \o r, v)
  BY <1>1, ConcatAppend
<1> QED
  BY <1>1, <1>2, <1>3, <1>4 DEF Two

-----------------------------------------------------------------------------
(* A text and the labels of a stack                                         *)

\* The first c elements of s.
Initial(s, c) == [j \in 1..c |-> s[j]]

\* The first s of the scopes with these labels are open in the text.
Tracks(text, labels, s) ==
  /\ IsSeq(text) /\ IsSeq(labels) /\ s \in 0..Len(labels)
  /\ Read(text).balanced
  /\ Read(text).open = Initial(labels, s)

\* The first elements of a sequence.
LEMMA InitialIs ==
  ASSUME NEW s, IsSeq(s), NEW c \in 0..Len(s)
  PROVE  /\ Len(s) \in Nat /\ Initial(s, Len(s)) = s
         /\ IsSeq(Initial(s, c)) /\ Len(Initial(s, c)) = c
         /\ \A j \in 1..c : Initial(s, c)[j] = s[j]
         /\ c = 0 <=> Initial(s, c) = <<>>
         /\ c > 0 => Last(Initial(s, c)) = s[c] /\ Front(Initial(s, c)) = Initial(s, c - 1)
         /\ c < Len(s) => Append(Initial(s, c), s[c + 1]) = Initial(s, c + 1)
<1> DEFINE f == Initial(s, c)
<1>1. PICK S : s \in Seq(S)
  BY DEF IsSeq
<1>2. c \in Nat /\ f \in Seq(S) /\ Len(f) = c /\ \A j \in 1..c : f[j] = s[j]
  BY <1>1 DEF Initial
<1>3. c > 0 => Last(f) = s[c]
  BY <1>2 DEF Last
<1>4. ASSUME c > 0 PROVE Front(f) = Initial(s, c - 1)
  <2> HIDE DEF f
  <2>1. Front(f) \in Seq(S) /\ Len(Front(f)) = c - 1 /\ \A j \in 1..(c - 1) : Front(f)[j] = f[j]
    BY <1>2, <1>4 DEF Front
  <2>2. Front(f) = [j \in 1..(c - 1) |-> Front(f)[j]]
    BY <2>1
  <2>3. \A j \in 1..(c - 1) : Front(f)[j] = s[j]
    BY <1>2, <2>1
  <2> QED
    BY <2>2, <2>3 DEF Initial
<1>5. ASSUME c < Len(s) PROVE Append(f, s[c + 1]) = Initial(s, c + 1)
  <2> HIDE DEF f
  <2>1. s[c + 1] \in S
    BY <1>1, <1>2, <1>5
  <2>2. /\ Append(f, s[c + 1]) \in Seq(S) /\ Len(Append(f, s[c + 1])) = c + 1
        /\ \A j \in 1..(c + 1) : Append(f, s[c + 1])[j] = s[j]
    BY <1>2, <2>1
  <2>3. Append(f, s[c + 1]) = [j \in 1..(c + 1) |-> Append(f, s[c + 1])[j]]
    BY <2>2
  <2> QED
    BY <2>2, <2>3 DEF Initial
<1>6. c = 0 <=> f = <<>>
  BY <1>2
<1>7. Len(s) \in Nat /\ Initial(s, Len(s)) = s
  BY <1>1 DEF Initial
<1>8. IsSeq(f)
  BY <1>2 DEF IsSeq
<1> HIDE DEF f
<1> QED
  BY <1>2, <1>3, <1>4, <1>5, <1>6, <1>7, <1>8 DEF f

\* The next scope starts.
LEMMA OpenOne ==
  ASSUME NEW text, NEW labels, NEW s, Tracks(text, labels, s), s < Len(labels),
         NEW t, t.token = "open", Label(t) = labels[s + 1]
  PROVE  /\ Tracks(Append(text, t), labels, s + 1)
         /\ Read(Append(text, t)).values = Read(text).values
         /\ Read(Append(text, t)).outside =
              IF s = 0 THEN Append(Read(text).outside, "open") ELSE Read(text).outside
<1>1. Read(Append(text, t)) = Turn(Read(text), t)
  BY ReadAppend DEF Tracks
<1>2. Len(labels) \in Nat
  BY InitialIs DEF Tracks
<1>3. /\ Append(Initial(labels, s), labels[s + 1]) = Initial(labels, s + 1)
      /\ s = 0 <=> Read(text).open = <<>>
  BY InitialIs DEF Tracks
<1>4. Turn(Read(text), t).open = Initial(labels, s + 1)
  BY <1>3, TurnOpen DEF Tracks
<1>5. IsSeq(Append(text, t)) /\ s + 1 \in 0..Len(labels)
  BY <1>2, AppendIsSeq DEF Tracks
<1> QED
  BY <1>1, <1>3, <1>4, <1>5, TurnIs DEF Tracks

\* The last one started ends.
LEMMA CloseOne ==
  ASSUME NEW text, NEW labels, NEW s, Tracks(text, labels, s), s = Len(labels), s > 0,
         NEW t, t.token = "close", Label(t) = labels[s]
  PROVE  /\ Tracks(Append(text, t), Front(labels), s - 1)
         /\ Read(Append(text, t)).values = Read(text).values
         /\ Read(Append(text, t)).outside = Read(text).outside
<1>1. Read(Append(text, t)) = Turn(Read(text), t)
  BY ReadAppend DEF Tracks
<1>2. Len(labels) \in Nat /\ labels = Initial(labels, s)
  BY InitialIs DEF Tracks
<1>3. /\ s \in 0..Len(labels) /\ Front(labels) = Initial(labels, s - 1)
      /\ Last(labels) = labels[s] /\ labels # <<>>
  BY <1>2, InitialIs DEF Tracks
<1>4. Read(text).open = labels
  BY <1>2 DEF Tracks
<1>5. Turn(Read(text), t).open = Front(labels) /\ Turn(Read(text), t).balanced
  BY <1>3, <1>4, TurnClose DEF Tracks
<1>6. s - 1 \in 0..Len(labels)
  BY <1>2
<1>7. /\ IsSeq(Initial(labels, s - 1)) /\ Len(Initial(labels, s - 1)) = s - 1
  BY <1>6, InitialIs DEF Tracks
<1>8. IsSeq(Append(text, t))
  BY AppendIsSeq DEF Tracks
<1>9. s - 1 = Len(Front(labels)) /\ Front(labels) = Initial(Front(labels), s - 1)
  <2>1. IsSeq(Front(labels)) /\ Len(Front(labels)) = s - 1
    BY <1>3, <1>7
  <2> QED
    BY <1>2, <2>1, InitialIs
<1> QED
  BY <1>1, <1>3, <1>4, <1>5, <1>7, <1>8, <1>9, <1>2, TurnIs DEF Tracks

\* What is neither a start nor an end.
LEMMA OtherOne ==
  ASSUME NEW text, NEW labels, NEW s, Tracks(text, labels, s), NEW t,
         t.token \notin {"open", "close"}
  PROVE  /\ Tracks(Append(text, t), labels, s)
         /\ t.token # "value" => Read(Append(text, t)).values = Read(text).values
         /\ s > 0 => Read(Append(text, t)).outside = Read(text).outside
<1>1. Read(Append(text, t)) = Turn(Read(text), t)
  BY ReadAppend DEF Tracks
<1>2. s = 0 <=> Read(text).open = <<>>
  BY InitialIs DEF Tracks
<1>3. IsSeq(Append(text, t))
  BY AppendIsSeq DEF Tracks
<1>4. s \in Nat
  BY InitialIs DEF Tracks
<1> QED
  BY <1>1, <1>2, <1>3, <1>4, TurnIs DEF Tracks

\* A value is under the last scope.
LEMMA ValueOne ==
  ASSUME NEW text, NEW labels, NEW s, Tracks(text, labels, s), s > 0, NEW t,
         t.token = "value", "prefix" \notin DOMAIN t
  PROVE  /\ Tracks(Append(text, t), labels, s)
         /\ Read(Append(text, t)).values =
              Append(Read(text).values, [name |-> t.name, under |-> <<labels[s]>>])
         /\ Read(Append(text, t)).outside = Read(text).outside
<1>1. Read(Append(text, t)) = Turn(Read(text), t)
  BY ReadAppend DEF Tracks
<1>2. Read(text).open # <<>> /\ Last(Read(text).open) = labels[s]
  BY InitialIs DEF Tracks
<1>3. Under(Read(text), t) = <<labels[s]>>
  BY <1>2 DEF Under
<1> QED
  BY <1>1, <1>3, OtherOne, TurnValue

\* What is written where c scopes are known to be started.
Startings(parts, c) == FlattenSeq([j \in 1..c |-> parts[j]])

\* Scopes start from the first that is not started to the last, each with its start
\* alone or with a key before it.
Starting(V, text, labels, s, parts) ==
  /\ Tracks(text, labels, s) /\ text \in Seq(V)
  /\ parts \in [1..Len(labels) -> Seq(V)]
  /\ \A j \in 1..s : parts[j] = <<>>
  /\ \A j \in (s + 1)..Len(labels) :
       \E t \in V : /\ t.token = "open" /\ Label(t) = labels[j]
                    /\ \/ parts[j] = <<t>>
                       \/ j > 1 /\ \E u \in V : u.token = "key" /\ parts[j] = <<u, t>>

\* Nothing is written for those that are started.
LEMMA NothingStarts ==
  ASSUME NEW V, NEW text, NEW labels, NEW s, NEW parts, Starting(V, text, labels, s, parts)
  PROVE  Startings(parts, s) = <<>>
<1>1. Len(labels) \in Nat /\ s \in 0..Len(labels)
  BY InitialIs DEF Starting, Tracks
<1> DEFINE size == Len(labels)
           f == [j \in 1..s |-> parts[j]]
<1>2. f \in [1..s -> Seq(V)] /\ \A j \in (0 + 1)..s : f[j] = <<>>
  BY <1>1 DEF Starting
<1> HIDE DEF f
<1>3. FlattenSeq(f) = FlattenSeq([j \in 1..0 |-> f[j]])
  <2>1. 0 \in 0..s /\ s \in Nat
    BY <1>1
  <2> QED
    BY ONLY <1>2, <2>1, FlattenRest, Z3
<1>4. [j \in 1..0 |-> f[j]] = <<>>
  OBVIOUS
<1> QED
  BY <1>3, <1>4, FlattenEmpty DEF f, Startings

\* What one more scope writes.
StartsNext(V, text, labels, parts, c) ==
  \E t \in V :
    /\ t.token = "open" /\ Label(t) = labels[c + 1]
    /\ \/ /\ parts[c + 1] = <<t>>
          /\ text \o Startings(parts, c + 1) = Append(text \o Startings(parts, c), t)
       \/ \E u \in V :
            /\ c > 0 /\ u.token = "key" /\ parts[c + 1] = <<u, t>>
            /\ text \o Startings(parts, c + 1) = Two(text \o Startings(parts, c), u, t)

\* Each scope that is started late adds its tokens to the text.
LEMMA NextStarts ==
  ASSUME NEW V, NEW text, NEW labels, NEW s, NEW parts, Starting(V, text, labels, s, parts),
         NEW c \in s..(Len(labels) - 1)
  PROVE  StartsNext(V, text, labels, parts, c)
<1>1. Len(labels) \in Nat /\ s \in 0..Len(labels)
  BY InitialIs DEF Starting, Tracks
<1>2. c \in Nat /\ c + 1 \in (s + 1)..Len(labels)
  BY <1>1
<1>3. PICK t \in V : /\ t.token = "open" /\ Label(t) = labels[c + 1]
                     /\ \/ parts[c + 1] = <<t>>
                        \/ c > 0 /\ \E u \in V : u.token = "key" /\ parts[c + 1] = <<u, t>>
  BY <1>2 DEF Starting
<1> DEFINE f == [j \in 1..(c + 1) |-> parts[j]]
           before == Startings(parts, c)
           more == text \o before
<1>4. f \in [1..(c + 1) -> Seq(V)]
  BY <1>1, <1>2 DEF Starting
<1>5. [j \in 1..c |-> f[j]] = [j \in 1..c |-> parts[j]] /\ f[c + 1] = parts[c + 1]
  BY <1>2
<1> HIDE DEF f
<1>6. before \in Seq(V) /\ FlattenSeq(f) = before \o parts[c + 1]
  BY <1>2, <1>4, <1>5, FlattenLast DEF Startings
<1>7. Startings(parts, c + 1) = before \o parts[c + 1]
  BY <1>6 DEF Startings, f
<1> HIDE DEF before
<1>8. text \in Seq(V)
  BY DEF Starting
<1>9. more \in Seq(V)
  BY <1>6, <1>8
<1>10. ASSUME NEW v \in V PROVE text \o (before \o <<v>>) = Append(more, v)
  BY <1>6, <1>8, ConcatAppend
<1>11. ASSUME NEW u \in V
       PROVE  text \o (before \o <<u, t>>) = Two(more, u, t)
  BY <1>6, <1>8, ConcatTwo
<1> HIDE DEF more
<1>12. CASE parts[c + 1] = <<t>>
  BY <1>3, <1>7, <1>9, <1>10, <1>12 DEF more, before, StartsNext
<1>13. CASE c > 0 /\ \E u \in V : u.token = "key" /\ parts[c + 1] = <<u, t>>
  <2>1. PICK u \in V : u.token = "key" /\ parts[c + 1] = <<u, t>>
    BY <1>13
  <2>2. text \o Startings(parts, c + 1) = Two(more, u, t)
    BY <1>7, <1>11, <2>1
  <2> QED
    BY <1>3, <1>9, <1>13, <2>1, <2>2 DEF more, before, StartsNext
<1> QED
  BY <1>3, <1>12, <1>13

\* A key is before a scope in an object, and only there.
Keyed(labels, s, parts) ==
  \A j \in (s + 1)..Len(labels) :
    j > 1 => Len(parts[j]) = IF labels[j - 1] = "object" THEN 2 ELSE 1

\* What is read when c scopes are started.
Started(V, text, labels, s, parts, c) ==
  LET more == text \o Startings(parts, c)
  IN  /\ more \in Seq(V) /\ Tracks(more, labels, c)
      /\ Read(more).values = Read(text).values
      /\ Read(more).outside =
           IF s = 0 /\ c > 0 THEN Append(Read(text).outside, "open") ELSE Read(text).outside
      /\ Read(more).legal => Read(text).legal
      /\ c = s => more = text
      /\ Keyed(labels, s, parts) /\ (s > 0 => Read(text).last \in {"open", "comma"}) =>
           /\ Read(text).legal => Read(more).legal
           /\ c > s => Read(more).last = "open"

\* What is legal to follow a start or a comma.
LEMMA AllowsStart ==
  ASSUME NEW r, r.last \in {"open", "comma"}, NEW t, t.token \in {"open", "value"},
         r.open # <<>> => Last(r.open) # "object"
  PROVE  Allows(r, t)
  BY DEF Allows, MayFollow

\* A separator may follow a value or the end of a scope.
LEMMA AllowsComma ==
  ASSUME NEW r, r.last \in {"value", "close"}, NEW t, t.token = "comma"
  PROVE  Allows(r, t)
  BY DEF Allows, MayFollow

\* A scope may end after its start, a value or the end of a scope.
LEMMA AllowsEnd ==
  ASSUME NEW r, r.last \in {"open", "value", "close"}, NEW t, t.token = "close"
  PROVE  Allows(r, t)
  BY DEF Allows, MayFollow

\* Neither may follow a separator.
LEMMA DeniesAfterComma ==
  ASSUME NEW r, r.last = "comma", r.open # <<>>, NEW t, t.token \in {"comma", "close"}
  PROVE  ~Allows(r, t)
  BY DEF Allows, MayFollow

\* A key may follow the start of an object or a separator in one.
LEMMA AllowsKey ==
  ASSUME NEW r, r.last \in {"open", "comma"}, NEW u, u.token = "key", Last(r.open) = "object"
  PROVE  Allows(r, u)
  BY DEF Allows, MayFollow

\* What has the key may follow it.
LEMMA AllowsKeyed ==
  ASSUME NEW r, r.last = "key", NEW t, t.token \in {"open", "value"}, Last(r.open) = "object"
  PROVE  Allows(r, t)
  BY DEF Allows, MayFollow

\* A scope without a key starts.
LEMMA StartsPlainly ==
  ASSUME NEW V, NEW text, NEW labels, NEW s, NEW parts, Starting(V, text, labels, s, parts),
         NEW c \in s..(Len(labels) - 1), Started(V, text, labels, s, parts, c),
         NEW t \in V, t.token = "open", Label(t) = labels[c + 1], parts[c + 1] = <<t>>,
         text \o Startings(parts, c + 1) = Append(text \o Startings(parts, c), t)
  PROVE  Started(V, text, labels, s, parts, c + 1)
<1> DEFINE more == text \o Startings(parts, c)
           new  == Append(more, t)
<1>0. Len(labels) \in Nat /\ s \in 0..Len(labels)
  BY InitialIs DEF Starting, Tracks
<1>1. c \in Nat /\ c < Len(labels) /\ c >= s /\ s \in Nat /\ c + 1 > s /\ c + 1 > 0
      /\ c + 1 \in (s + 1)..Len(labels)
  BY <1>0
<1>2. more \in Seq(V) /\ Tracks(more, labels, c)
  BY DEF Started
<1>3. /\ Read(more).values = Read(text).values
      /\ Read(more).outside =
           IF s = 0 /\ c > 0 THEN Append(Read(text).outside, "open") ELSE Read(text).outside
      /\ Read(more).legal => Read(text).legal
      /\ c = s => more = text
  BY DEF Started
<1> HIDE DEF more
<1>4. new \in Seq(V)
  BY <1>2
<1>5. /\ Tracks(new, labels, c + 1) /\ Read(new).values = Read(more).values
      /\ Read(new).outside =
           IF c = 0 THEN Append(Read(more).outside, "open") ELSE Read(more).outside
  BY <1>1, <1>2, OpenOne
<1>6. Read(new).outside =
        IF s = 0 /\ c + 1 > 0 THEN Append(Read(text).outside, "open") ELSE Read(text).outside
  BY <1>1, <1>3, <1>5
<1>7. Read(new) = Turn(Read(more), t)
  BY <1>2, ReadAppend DEF Tracks
<1>8. Read(new).legal => Read(text).legal
  BY <1>3, <1>7, TurnIs
<1>9. ASSUME Keyed(labels, s, parts), s > 0 => Read(text).last \in {"open", "comma"}
      PROVE  /\ Read(text).legal => Read(new).legal
             /\ Read(new).last = "open"
  <2>1. /\ Read(text).legal => Read(more).legal
        /\ c > s => Read(more).last = "open"
    BY <1>9 DEF Started, more
  <2>2. Allows(Read(more), t)
    <3>1. CASE c = 0
      <4>1. Read(more).open = <<>>
        BY <1>2, <3>1, InitialIs DEF Tracks
      <4> QED
        BY <4>1 DEF Allows
    <3>2. CASE c > 0
      <4>1. Read(more).last \in {"open", "comma"}
        BY <1>1, <1>3, <1>9, <2>1, <3>2
      <4>2. Last(Read(more).open) = labels[c]
        BY <1>1, <1>2, <3>2, InitialIs DEF Tracks
      <4>3. Len(parts[c + 1]) = 1
        OBVIOUS
      <4>4. labels[c] # "object"
        <5>1. Keyed(labels, s, parts) /\ c + 1 > 1 /\ (c + 1) - 1 = c
          BY <1>1, <1>9, <3>2
        <5>2. Len(parts[c + 1]) = IF labels[(c + 1) - 1] = "object" THEN 2 ELSE 1
          BY <1>1, <5>1 DEF Keyed
        <5> QED
          BY <4>3, <5>1, <5>2
      <4> QED
        BY <4>1, <4>2, <4>4, AllowsStart
    <3> QED
      BY <1>1, <3>1, <3>2
  <2> QED
    BY <1>7, <2>1, <2>2, TurnIs
<1>10. text \o Startings(parts, c + 1) = new /\ c + 1 # s
  BY <1>1 DEF more
<1> HIDE DEF new
<1> QED
  BY <1>4, <1>5, <1>3, <1>6, <1>8, <1>9, <1>10 DEF Started

\* A scope with a key starts.
LEMMA StartsWithKey ==
  ASSUME NEW V, NEW text, NEW labels, NEW s, NEW parts, Starting(V, text, labels, s, parts),
         NEW c \in s..(Len(labels) - 1), Started(V, text, labels, s, parts, c), c > 0,
         NEW t \in V, t.token = "open", Label(t) = labels[c + 1],
         NEW u \in V, u.token = "key", parts[c + 1] = <<u, t>>,
         text \o Startings(parts, c + 1) = Two(text \o Startings(parts, c), u, t)
  PROVE  Started(V, text, labels, s, parts, c + 1)
<1> DEFINE more == text \o Startings(parts, c)
           keyed == Append(more, u)
           new  == Append(keyed, t)
<1>0. Len(labels) \in Nat /\ s \in 0..Len(labels)
  BY InitialIs DEF Starting, Tracks
<1>1. c \in Nat /\ c < Len(labels) /\ c >= s /\ s \in Nat /\ c + 1 > s /\ c + 1 > 0
      /\ c + 1 \in (s + 1)..Len(labels)
  BY <1>0
<1>2. more \in Seq(V) /\ Tracks(more, labels, c)
  BY DEF Started
<1>3. /\ Read(more).values = Read(text).values
      /\ Read(more).outside =
           IF s = 0 /\ c > 0 THEN Append(Read(text).outside, "open") ELSE Read(text).outside
      /\ Read(more).legal => Read(text).legal
      /\ c = s => more = text
  BY DEF Started
<1>10. text \o Startings(parts, c + 1) = new /\ c + 1 # s
  BY <1>1 DEF Two
<1> HIDE DEF more
<1>4. keyed \in Seq(V)
  BY <1>2
<1>5. /\ Tracks(keyed, labels, c) /\ Read(keyed).values = Read(more).values
      /\ Read(keyed).outside = Read(more).outside
  BY <1>1, <1>2, OtherOne
<1>6. Read(keyed) = Turn(Read(more), u)
  BY <1>2, ReadAppend DEF Tracks
<1> HIDE DEF keyed
<1>7. /\ Tracks(new, labels, c + 1) /\ Read(new).values = Read(keyed).values
      /\ Read(new).outside = Read(keyed).outside
  BY <1>1, <1>5, OpenOne
<1>8. Read(new) = Turn(Read(keyed), t)
  BY <1>5, ReadAppend DEF Tracks
<1>9. new \in Seq(V)
  BY <1>4
<1>11. Read(new).outside =
        IF s = 0 /\ c + 1 > 0 THEN Append(Read(text).outside, "open") ELSE Read(text).outside
  BY <1>1, <1>3, <1>5, <1>7
<1>12. Read(new).legal => Read(text).legal
  <2>1. Read(new).legal => Read(keyed).legal
    BY <1>8, TurnIs
  <2>2. Read(keyed).legal => Read(more).legal
    BY <1>6, TurnIs
  <2> QED
    BY <1>3, <2>1, <2>2
<1>13. ASSUME Keyed(labels, s, parts), s > 0 => Read(text).last \in {"open", "comma"}
      PROVE  /\ Read(text).legal => Read(new).legal
             /\ Read(new).last = "open"
  <2>1. /\ Read(text).legal => Read(more).legal
        /\ c > s => Read(more).last = "open"
    BY <1>13 DEF Started, more
  <2>2. Read(more).last \in {"open", "comma"}
    BY <1>1, <1>3, <1>13, <2>1
  <2>3. Last(Read(more).open) = labels[c]
    BY <1>1, <1>2, InitialIs DEF Tracks
  <2>4. labels[c] = "object"
    <3>1. Len(parts[c + 1]) = 2
      OBVIOUS
    <3>2. Keyed(labels, s, parts) /\ c + 1 > 1 /\ (c + 1) - 1 = c
      BY <1>1, <1>13
    <3>3. Len(parts[c + 1]) = IF labels[(c + 1) - 1] = "object" THEN 2 ELSE 1
      BY <1>1, <3>2 DEF Keyed
    <3> QED
      BY <3>1, <3>2, <3>3
  <2>5. Allows(Read(more), u)
    BY <2>2, <2>3, <2>4, AllowsKey
  <2>6. /\ Read(text).legal => Read(keyed).legal
        /\ Read(keyed).last = "key" /\ Read(keyed).open = Read(more).open
    BY <1>6, <2>1, <2>5, TurnIs
  <2>7. Allows(Read(keyed), t)
    BY <2>3, <2>4, <2>6, AllowsKeyed
  <2> QED
    BY <1>8, <2>6, <2>7, TurnIs
<1> HIDE DEF new
<1> QED
  BY <1>3, <1>5, <1>7, <1>9, <1>10, <1>11, <1>12, <1>13 DEF Started

\* So they all start, one after the other.
LEMMA AllStart ==
  ASSUME NEW V, NEW text, NEW labels, NEW s, NEW parts, Starting(V, text, labels, s, parts)
  PROVE  Started(V, text, labels, s, parts, Len(labels))
<1> DEFINE size == Len(labels)
           All == {e \in Nat : s + e <= size => Started(V, text, labels, s, parts, s + e)}
<1>1. size \in Nat /\ s \in 0..size
  BY InitialIs DEF Starting, Tracks
<1>2. 0 \in All
  <2>1. text \o Startings(parts, s) = text
    <3>1. Startings(parts, s) = <<>>
      BY NothingStarts
    <3>2. text \in Seq(V)
      BY DEF Starting
    <3> QED
      BY ONLY <3>1, <3>2, ConcatEmptySeq
  <2>2. Started(V, text, labels, s, parts, s)
    BY <2>1, <1>1 DEF Started, Starting
  <2> QED
    BY <1>1, <2>2
<1>3. ASSUME NEW e \in Nat, e \in All PROVE e + 1 \in All
  <2> SUFFICES ASSUME s + (e + 1) <= size PROVE Started(V, text, labels, s, parts, s + (e + 1))
    OBVIOUS
  <2> DEFINE c == s + e
  <2>1. c \in s..(Len(labels) - 1) /\ c + 1 = s + (e + 1)
    BY <1>1
  <2>2. Started(V, text, labels, s, parts, c)
    BY <1>3, <2>1
  <2> HIDE DEF c, size
  <2>6. StartsNext(V, text, labels, parts, c)
    BY <2>1, NextStarts
  <2>3. PICK t \in V :
           /\ t.token = "open" /\ Label(t) = labels[c + 1]
           /\ \/ /\ parts[c + 1] = <<t>>
                 /\ text \o Startings(parts, c + 1) = Append(text \o Startings(parts, c), t)
              \/ \E u \in V :
                   /\ c > 0 /\ u.token = "key" /\ parts[c + 1] = <<u, t>>
                   /\ text \o Startings(parts, c + 1) = Two(text \o Startings(parts, c), u, t)
    BY <2>6 DEF StartsNext
  <2>4. CASE /\ parts[c + 1] = <<t>>
             /\ text \o Startings(parts, c + 1) = Append(text \o Startings(parts, c), t)
    <3>1. Started(V, text, labels, s, parts, c + 1)
      BY <2>1, <2>2, <2>3, <2>4, StartsPlainly
    <3> QED
      BY <2>1, <3>1
  <2>5. CASE \E u \in V : /\ c > 0 /\ u.token = "key" /\ parts[c + 1] = <<u, t>>
                          /\ text \o Startings(parts, c + 1) = Two(text \o Startings(parts, c), u, t)
    <3>1. Started(V, text, labels, s, parts, c + 1)
      BY <2>1, <2>2, <2>3, <2>5, StartsWithKey
    <3> QED
      BY <2>1, <3>1
  <2> QED
    BY <2>3, <2>4, <2>5
<1>4. size - s \in Nat /\ s + (size - s) = size
  BY <1>1
<1>5. size - s \in All
  <2> HIDE DEF All, size
  <2> QED
    BY <1>2, <1>3, <1>4, SetInduction
<1> QED
  BY <1>1, <1>4, <1>5

-----------------------------------------------------------------------------
(* XML, method by method                                                    *)

\* A formatter with these open elements, of which the first s are started.
XmlScopes(labels, s) == [j \in 1..Len(labels) |-> [name |-> labels[j], started |-> j <= s]]
XmlAt(f, labels, s) ==
  /\ f = [scopes |-> XmlScopes(labels, s), text |-> f.text]
  /\ Tracks(f.text, labels, s)

\* A function on 1..size is a sequence.
LEMMA FunctionIsSeq ==
  ASSUME NEW size \in Nat, NEW g, g = [j \in 1..size |-> g[j]]
  PROVE  Len(g) = size /\ DOMAIN g = 1..size /\ IsSeq(g)
<1> DEFINE S == {g[j] : j \in 1..size}
<1>1. g \in [1..size -> S]
  OBVIOUS
<1> HIDE DEF S
<1>2. g \in Seq(S) /\ Len(g) = size
  BY <1>1
<1> QED
  BY <1>1, <1>2 DEF IsSeq

\* A scope that is started, or starts.
LEMMA ScopeIs ==
  ASSUME NEW name, NEW b \in BOOLEAN, NEW scope, scope = [name |-> name, started |-> b]
  PROVE  scope.name = name /\ (scope.started <=> b)
  OBVIOUS

\* Starting a scope of XML changes nothing else of it.
LEMMA ScopeStarts ==
  ASSUME NEW name, NEW b \in BOOLEAN, NEW scope, scope = [name |-> name, started |-> b],
         NEW c \in BOOLEAN, NEW d \in BOOLEAN, (b \/ c) <=> d
  PROVE  [scope EXCEPT !.started = @ \/ c] = [name |-> name, started |-> d]
<1>1. (b \/ c) = d
  OBVIOUS
<1> QED
  BY <1>1

\* What the elements that are not started write.
LEMMA XmlStartsAll ==
  ASSUME NEW f, NEW labels, NEW s, XmlAt(f, labels, s)
  PROVE  /\ XmlAt(X!WriteStart(f), labels, Len(labels))
         /\ Read(X!WriteStart(f).text).values = Read(f.text).values
         /\ Read(X!WriteStart(f).text).outside =
              IF s = 0 /\ Len(labels) > 0 THEN Append(Read(f.text).outside, "open")
              ELSE Read(f.text).outside
<1> DEFINE size == Len(labels)
           parts == [j \in 1..size |-> IF j > s THEN <<X!Open(labels[j])>> ELSE <<>>]
<1>1. /\ Tracks(f.text, labels, s) /\ size \in Nat /\ s \in 0..size
      /\ f.scopes = XmlScopes(labels, s)
  BY InitialIs DEF XmlAt, Tracks
<1>2. PICK S : f.text \in Seq(S)
  BY <1>1 DEF Tracks, IsSeq
<1> DEFINE V == S \cup {X!Open(labels[j]) : j \in 1..size}
<1>3. f.text \in Seq(V)
  BY <1>2
<1>4. \A j \in 1..size : X!Open(labels[j]) \in V
  OBVIOUS
<1> HIDE DEF V
<1>5. parts \in [1..size -> Seq(V)]
  BY <1>1, <1>4
<1>6. /\ \A j \in 1..s : parts[j] = <<>>
      /\ \A j \in (s + 1)..size : parts[j] = <<X!Open(labels[j])>> /\ X!Open(labels[j]) \in V
  BY <1>1, <1>4
<1> HIDE DEF parts
<1>7. Starting(V, f.text, labels, s, parts)
  BY <1>1, <1>3, <1>5, <1>6, Labels DEF Starting
<1>8. Started(V, f.text, labels, s, parts, size)
  BY <1>7, AllStart
<1>9. Startings(parts, size) = FlattenSeq(parts)
  <2>1. [j \in 1..size |-> parts[j]] = parts
    BY <1>5
  <2> QED
    BY <2>1 DEF Startings
<1>10. DOMAIN f.scopes = 1..size /\ Len(f.scopes) = size
       /\ \A j \in 1..size : f.scopes[j].name = labels[j] /\ (f.scopes[j].started <=> j <= s)
  <2>1. DOMAIN f.scopes = 1..size
        /\ \A j \in 1..size : f.scopes[j] = [name |-> labels[j], started |-> j <= s]
    BY <1>1 DEF XmlScopes
  <2>2. f.scopes = [j \in 1..size |-> f.scopes[j]]
    BY <1>1 DEF XmlScopes
  <2>3. Len(f.scopes) = size
    BY <1>1, <2>2, FunctionIsSeq
  <2>4. ASSUME NEW j \in 1..size
        PROVE  f.scopes[j].name = labels[j] /\ (f.scopes[j].started <=> j <= s)
    <3> DEFINE b == j <= s
               scope == f.scopes[j]
    <3>1. scope = [name |-> labels[j], started |-> b] /\ b \in BOOLEAN
      BY <2>1
    <3> HIDE DEF b, scope
    <3>2. scope.name = labels[j] /\ (scope.started <=> b)
      BY <3>1, ScopeIs
    <3> QED
      BY <3>2 DEF b, scope
  <2> QED
    BY <2>1, <2>3, <2>4
<1>11. X!Unstarted(f) = (s + 1)..size
  BY <1>1, <1>10 DEF X!Unstarted
<1>12. X!WriteStart(f).text = f.text \o FlattenSeq(parts)
  <2>1. \A j \in 1..size : (j \in X!Unstarted(f) <=> j > s)
    BY <1>1, <1>11
  <2>2. parts = [j \in DOMAIN f.scopes |->
                   IF j \in X!Unstarted(f) THEN <<X!Open(f.scopes[j].name)>> ELSE <<>>]
    BY <1>10, <2>1 DEF parts
  <2>3. X!WriteStart(f).text = f.text \o X!FlattenSeq([j \in DOMAIN f.scopes |->
                   IF j \in X!Unstarted(f) THEN <<X!Open(f.scopes[j].name)>> ELSE <<>>])
    BY DEF X!WriteStart
  <2>4. X!FlattenSeq(parts) = FlattenSeq(parts)
    BY DEF X!FlattenSeq, FlattenSeq
  <2> QED
    BY <2>2, <2>3, <2>4, Zenon
<1>13. X!WriteStart(f).scopes = XmlScopes(labels, size)
  <2>1. \A j \in 1..size : [f.scopes[j] EXCEPT !.started = @ \/ j \in X!Unstarted(f)]
                             = [name |-> labels[j], started |-> j <= size]
    <3> SUFFICES ASSUME NEW j \in 1..size
                 PROVE  [f.scopes[j] EXCEPT !.started = @ \/ j \in X!Unstarted(f)]
                          = [name |-> labels[j], started |-> j <= size]
      OBVIOUS
    <3> DEFINE b == j <= s
               c == j \in X!Unstarted(f)
               d == j <= size
               scope == f.scopes[j]
    <3>1. scope = [name |-> labels[j], started |-> b]
      BY <1>1 DEF XmlScopes
    <3>2. ((b \/ c) <=> d) /\ b \in BOOLEAN /\ c \in BOOLEAN /\ d \in BOOLEAN
      BY <1>1, <1>11
    <3> HIDE DEF b, c, d, scope
    <3>3. [scope EXCEPT !.started = @ \/ c] = [name |-> labels[j], started |-> d]
      BY <3>1, <3>2, ScopeStarts
    <3> QED
      BY <3>3 DEF b, c, d, scope
  <2> QED
    BY <1>10, <2>1 DEF X!WriteStart, XmlScopes
<1>14. X!WriteStart(f) = [scopes |-> X!WriteStart(f).scopes, text |-> X!WriteStart(f).text]
  BY DEF X!WriteStart
<1> QED
  BY <1>8, <1>9, <1>12, <1>13, <1>14 DEF XmlAt, Started

\* Labels pushed and popped.
LEMMA PushedLabels ==
  ASSUME NEW labels, IsSeq(labels), NEW l
  PROVE  /\ Len(labels) \in Nat /\ Len(Append(labels, l)) = Len(labels) + 1
         /\ IsSeq(Append(labels, l)) /\ Append(labels, l)[Len(labels) + 1] = l
         /\ \A j \in 1..Len(labels) : Append(labels, l)[j] = labels[j]
         /\ \A c \in 0..Len(labels) : Initial(Append(labels, l), c) = Initial(labels, c)
<1>1. /\ IsSeq(Append(labels, l)) /\ Append(labels, l)[Len(labels) + 1] = l
      /\ \A j \in 1..Len(labels) : Append(labels, l)[j] = labels[j]
      /\ DOMAIN Append(labels, l) = 1..(Len(labels) + 1) /\ Len(labels) \in Nat
  BY AppendIsSeq
<1>2. Len(Append(labels, l)) = Len(labels) + 1
  <2>1. PICK S : Append(labels, l) \in Seq(S)
    BY <1>1 DEF IsSeq
  <2> QED
    BY <1>1, <2>1
<1>3. ASSUME NEW c \in 0..Len(labels) PROVE Initial(Append(labels, l), c) = Initial(labels, c)
  <2>1. \A j \in 1..c : Append(labels, l)[j] = labels[j]
    BY <1>1
  <2> QED
    BY <2>1 DEF Initial
<1> QED
  BY <1>1, <1>2, <1>3

\* The labels that are left when the last is taken.
LEMMA PoppedLabels ==
  ASSUME NEW labels, IsSeq(labels), Len(labels) > 0
  PROVE  /\ Len(labels) \in Nat /\ Len(Front(labels)) = Len(labels) - 1
         /\ IsSeq(Front(labels))
         /\ \A j \in 1..(Len(labels) - 1) : Front(labels)[j] = labels[j]
         /\ \A c \in 0..(Len(labels) - 1) : Initial(Front(labels), c) = Initial(labels, c)
<1>1. PICK S : labels \in Seq(S)
  BY DEF IsSeq
<1>2. /\ IsSeq(Front(labels)) /\ Len(Front(labels)) = Len(labels) - 1 /\ Len(labels) \in Nat
      /\ \A j \in 1..(Len(labels) - 1) : Front(labels)[j] = labels[j]
  <2>1. /\ Len(labels) \in Nat /\ Initial(labels, Len(labels)) = labels
        /\ Len(labels) \in 0..Len(labels) /\ Len(labels) - 1 \in 0..Len(labels)
    BY <1>1, InitialIs
  <2>2. Front(labels) = Initial(labels, Len(labels) - 1)
    BY <2>1, InitialIs
  <2> QED
    BY <2>1, <2>2, InitialIs
<1>3. ASSUME NEW c \in 0..(Len(labels) - 1) PROVE Initial(Front(labels), c) = Initial(labels, c)
  <2>1. \A j \in 1..c : Front(labels)[j] = labels[j]
    BY <1>2
  <2> QED
    BY <2>1 DEF Initial
<1> QED
  BY <1>2, <1>3 DEF IsSeq

\* A scope that is not started yet may be pushed, and popped, without a trace.
LEMMA TracksPushed ==
  ASSUME NEW text, NEW labels, NEW s, Tracks(text, labels, s), NEW l
  PROVE  Tracks(text, Append(labels, l), s)
<1>1. IsSeq(labels) /\ s \in 0..Len(labels)
  BY DEF Tracks
<1>2. s \in 0..Len(Append(labels, l))
  BY <1>1, PushedLabels
<1> QED
  BY <1>1, <1>2, PushedLabels DEF Tracks

\* Taking a scope that was never started leaves the text as it is.
LEMMA TracksPopped ==
  ASSUME NEW text, NEW labels, NEW s, Tracks(text, labels, s), s < Len(labels)
  PROVE  Tracks(text, Front(labels), s)
<1>1. IsSeq(labels) /\ s \in 0..Len(labels)
  BY DEF Tracks
<1>2. Len(labels) \in Nat /\ Len(labels) > 0
  BY <1>1, InitialIs
<1>3. s \in 0..(Len(labels) - 1) /\ s \in 0..Len(Front(labels))
  BY <1>1, <1>2, PoppedLabels
<1> QED
  BY <1>1, <1>2, <1>3, PoppedLabels DEF Tracks

\* Stacks of scopes pushed and popped.
LEMMA PushedScopes ==
  ASSUME NEW labels, IsSeq(labels), NEW s \in 0..Len(labels), NEW l
  PROVE  Append(XmlScopes(labels, s), X!Scope(l)) = XmlScopes(Append(labels, l), s)
<1> DEFINE size == Len(labels)
           more == Append(labels, l)
           f == XmlScopes(labels, s)
           g == Append(f, X!Scope(l))
<1>1. /\ size \in Nat /\ Len(more) = size + 1 /\ more[size + 1] = l
      /\ \A j \in 1..size : more[j] = labels[j]
  BY PushedLabels
<1>2. f = [j \in 1..size |-> f[j]]
  BY DEF XmlScopes
<1>3. IsSeq(f) /\ Len(f) = size
  BY <1>1, <1>2, FunctionIsSeq
<1>4. \A j \in 1..size : f[j] = [name |-> labels[j], started |-> j <= s]
  BY DEF XmlScopes
<1> HIDE DEF more, f
<1>5. /\ IsSeq(g) /\ Len(g) = size + 1 /\ g[size + 1] = X!Scope(l)
      /\ \A j \in 1..size : g[j] = f[j]
  BY <1>3, PushedLabels
<1> HIDE DEF g
<1>6. g = [j \in 1..(size + 1) |-> g[j]]
  <2>1. PICK S : g \in Seq(S)
    BY <1>5 DEF IsSeq
  <2>2. g = [j \in 1..Len(g) |-> g[j]]
    BY <2>1
  <2> QED
    BY <1>5, <2>2
<1>7. ASSUME NEW j \in 1..(size + 1) PROVE g[j] = [name |-> more[j], started |-> j <= s]
  <2>1. CASE j \in 1..size
    BY <1>1, <1>4, <1>5, <2>1
  <2>2. CASE j = size + 1
    <3>1. (j <= s) = FALSE
      BY <1>1, <2>2
    <3> QED
      BY <1>1, <1>5, <2>2, <3>1 DEF X!Scope
  <2> QED
    BY <1>1, <2>1, <2>2
<1>8. g = XmlScopes(more, s)
  BY <1>1, <1>6, <1>7 DEF XmlScopes
<1> QED
  BY <1>8 DEF g, f, more

\* The stack of XML that is left when its top is taken.
LEMMA PoppedScopes ==
  ASSUME NEW labels, IsSeq(labels), Len(labels) > 0, NEW s \in 0..Len(labels)
  PROVE  /\ s < Len(labels) => Front(XmlScopes(labels, s)) = XmlScopes(Front(labels), s)
         /\ s = Len(labels) => Front(XmlScopes(labels, s)) = XmlScopes(Front(labels), s - 1)
<1> DEFINE size == Len(labels)
           less == Front(labels)
           f == XmlScopes(labels, s)
           g == Front(f)
<1>1. /\ size \in Nat /\ Len(less) = size - 1
      /\ \A j \in 1..(size - 1) : less[j] = labels[j]
  BY PoppedLabels
<1>2. f = [j \in 1..size |-> f[j]]
  BY DEF XmlScopes
<1>3. IsSeq(f) /\ Len(f) = size
  BY <1>1, <1>2, FunctionIsSeq
<1>4. \A j \in 1..size : f[j] = [name |-> labels[j], started |-> j <= s]
  BY DEF XmlScopes
<1> HIDE DEF less, f
<1>5. /\ IsSeq(g) /\ Len(g) = size - 1 /\ \A j \in 1..(size - 1) : g[j] = f[j]
  BY <1>3, PoppedLabels
<1>6. g = [j \in 1..(size - 1) |-> g[j]]
  <2>1. PICK S : g \in Seq(S)
    BY <1>5 DEF IsSeq
  <2> QED
    BY <1>1, <1>5, <2>1
<1> HIDE DEF g
<1>7. ASSUME NEW j \in 1..(size - 1)
      PROVE  /\ s < size => g[j] = [name |-> less[j], started |-> j <= s]
             /\ s = size => g[j] = [name |-> less[j], started |-> j <= s - 1]
  <2>1. g[j] = [name |-> less[j], started |-> j <= s]
    BY <1>1, <1>4, <1>5
  <2>2. s = size => (j <= s) = (j <= s - 1)
    BY <1>1
  <2> QED
    BY <2>1, <2>2
<1>8. /\ s < size => g = XmlScopes(less, s)
      /\ s = size => g = XmlScopes(less, s - 1)
  BY <1>1, <1>6, <1>7 DEF XmlScopes
<1> QED
  BY <1>8 DEF g, f, less

\* A record of a stack and a text.
LEMMA FormatterIs ==
  ASSUME NEW scopes, NEW text, NEW f, f = [scopes |-> scopes, text |-> text], NEW new
  PROVE  /\ f.scopes = scopes /\ f.text = text
         /\ [f EXCEPT !.scopes = new] = [scopes |-> new, text |-> text]
         /\ [f EXCEPT !.text = new] = [scopes |-> scopes, text |-> new]
  OBVIOUS

\* The declaration is outside of all elements.
LEMMA XmlDocumentAt ==
  ASSUME NEW f, NEW labels, XmlAt(f, labels, 0)
  PROVE  /\ XmlAt(X!StartDocument(f), labels, 0)
         /\ Read(X!StartDocument(f).text).values = Read(f.text).values
         /\ Read(X!StartDocument(f).text).outside = Append(Read(f.text).outside, "declaration")
<1> DEFINE text == f.text
           t == X!Declaration
<1>1. Tracks(text, labels, 0) /\ f = [scopes |-> XmlScopes(labels, 0), text |-> text]
  BY DEF XmlAt
<1>2. X!StartDocument(f) = [scopes |-> XmlScopes(labels, 0), text |-> Append(text, t)]
  <2> HIDE DEF text
  <2>1. f.text = text
    BY <1>1
  <2> QED
    BY <1>1, <2>1, FormatterIs DEF X!StartDocument
<1>3. t.token = "declaration"
  BY Labels
<1> HIDE DEF text, t
<1>4. Tracks(Append(text, t), labels, 0) /\ Read(Append(text, t)).values = Read(text).values
  BY <1>1, <1>3, OtherOne
<1>5. Read(text).open = <<>>
  BY <1>1, InitialIs DEF Tracks
<1>6. Read(Append(text, t)).outside = Append(Read(text).outside, "declaration")
  <2>1. Read(Append(text, t)) = Turn(Read(text), t)
    BY <1>1, ReadAppend DEF Tracks
  <2>2. Turn(Read(text), t).outside = Append(Read(text).outside, t.token)
    BY <1>5, TurnIs
  <2> QED
    BY <1>3, <2>1, <2>2
<1> QED
  BY <1>2, <1>4, <1>6 DEF text, XmlAt

\* A property starts all elements, and is in the last one.
LEMMA XmlPropertyAt ==
  ASSUME NEW f, NEW labels, NEW s, XmlAt(f, labels, s), s > 0, NEW name
  PROVE  /\ XmlAt(X!WriteProperty(f, name), labels, Len(labels))
         /\ Read(X!WriteProperty(f, name).text).values =
              Append(Read(f.text).values, [name |-> name, under |-> <<labels[Len(labels)]>>])
         /\ Read(X!WriteProperty(f, name).text).outside = Read(f.text).outside
<1> DEFINE g == X!WriteStart(f)
           text == g.text
           t == X!Text(name)
           size == Len(labels)
<1>1. s \in 0..size /\ size \in Nat
  BY InitialIs DEF XmlAt, Tracks
<1>2. /\ XmlAt(g, labels, size)
      /\ Read(text).values = Read(f.text).values
      /\ Read(text).outside = Read(f.text).outside
  BY <1>1, XmlStartsAll
<1>3. X!WriteProperty(f, name) = [g EXCEPT !.text = Append(@, t)]
  BY DEF X!WriteProperty
<1> HIDE DEF g
<1>4. Tracks(text, labels, size) /\ g = [scopes |-> XmlScopes(labels, size), text |-> text]
  BY <1>2 DEF XmlAt
<1>5. X!WriteProperty(f, name) = [scopes |-> XmlScopes(labels, size), text |-> Append(text, t)]
  BY <1>3, <1>4
<1>6. t.token = "value" /\ t.name = name /\ "prefix" \notin DOMAIN t
  BY Labels
<1> HIDE DEF text, t, size
<1>7. /\ Tracks(Append(text, t), labels, size)
      /\ Read(Append(text, t)).values =
           Append(Read(text).values, [name |-> t.name, under |-> <<labels[size]>>])
      /\ Read(Append(text, t)).outside = Read(text).outside
  BY <1>1, <1>4, <1>6, ValueOne
<1> QED
  BY <1>2, <1>5, <1>6, <1>7 DEF XmlAt, size

\* The root starts at once, all other elements later.
LEMMA XmlStartAt ==
  ASSUME NEW f, NEW labels, NEW s, XmlAt(f, labels, s), NEW name, NEW fallback,
         NEW l, l = IF name = None THEN fallback ELSE name,
         NEW more, more = Append(labels, l), NEW g, g = X!StartScope(f, name, fallback)
  PROVE  /\ Read(g.text).values = Read(f.text).values
         /\ labels = <<>> =>
              /\ XmlAt(g, more, 1)
              /\ Read(g.text).outside = Append(Read(f.text).outside, "open")
         /\ labels # <<>> =>
              /\ XmlAt(g, more, s)
              /\ Read(g.text).outside = Read(f.text).outside
<1> DEFINE pushed == [f EXCEPT !.scopes = Append(@, X!Scope(l))]
<1>1. /\ Tracks(f.text, labels, s) /\ IsSeq(labels) /\ s \in 0..Len(labels)
      /\ f = [scopes |-> XmlScopes(labels, s), text |-> f.text]
  BY DEF XmlAt, Tracks
<1>2. pushed = [scopes |-> XmlScopes(more, s), text |-> f.text]
  <2>1. pushed = [scopes |-> Append(XmlScopes(labels, s), X!Scope(l)), text |-> f.text]
    <3> DEFINE text == f.text
               scopes == XmlScopes(labels, s)
    <3>1. f = [scopes |-> scopes, text |-> text]
      BY <1>1
    <3> HIDE DEF text, scopes
    <3>2. f.scopes = scopes
      BY <3>1
    <3>3. pushed = [scopes |-> Append(scopes, X!Scope(l)), text |-> text]
      BY ONLY <3>1, <3>2
    <3> QED
      BY <3>3 DEF text, scopes
  <2>2. Append(XmlScopes(labels, s), X!Scope(l)) = XmlScopes(Append(labels, l), s)
    BY <1>1, PushedScopes
  <2>3. Append(labels, l) = more
    OBVIOUS
  <2> QED
    BY <2>1, <2>2, <2>3
<1>3. XmlAt(pushed, more, s)
  BY <1>1, <1>2, TracksPushed DEF XmlAt
<1>4. Len(pushed.scopes) = Len(labels) + 1 /\ Len(more) = Len(labels) + 1 /\ Len(labels) \in Nat
  <2>1. Len(more) = Len(labels) + 1 /\ Len(labels) \in Nat
    BY <1>1, PushedLabels
  <2>2. XmlScopes(more, s) = [j \in 1..Len(more) |-> XmlScopes(more, s)[j]]
    BY DEF XmlScopes
  <2>3. Len(XmlScopes(more, s)) = Len(more)
    BY <2>1, <2>2, FunctionIsSeq
  <2> QED
    BY <1>2, <2>1, <2>3
<1>5. X!StartScope(f, name, fallback)
        = IF Len(pushed.scopes) = 1 THEN X!WriteStart(pushed) ELSE pushed
  BY DEF X!StartScope
<1>6. labels = <<>> <=> Len(labels) = 0
  <2>1. PICK S : labels \in Seq(S)
    BY <1>1 DEF IsSeq
  <2> QED
    BY <2>1
<1>7. pushed.text = f.text
  BY <1>2
<1> HIDE DEF pushed
<1>8. CASE labels = <<>>
  <2>1. s = 0 /\ Len(more) = 1 /\ more = <<l>>
    BY <1>1, <1>4, <1>6, <1>8
  <2>2. /\ XmlAt(X!WriteStart(pushed), more, 1)
        /\ Read(X!WriteStart(pushed).text).values = Read(f.text).values
        /\ Read(X!WriteStart(pushed).text).outside = Append(Read(f.text).outside, "open")
    <3>1. XmlAt(pushed, more, 0)
      BY <1>3, <2>1
    <3> DEFINE h == X!WriteStart(pushed)
    <3>2. Len(more) > 0
      BY <2>1
    <3>3. /\ XmlAt(h, more, Len(more)) /\ Read(h.text).values = Read(pushed.text).values
          /\ Read(h.text).outside = Append(Read(pushed.text).outside, "open")
      BY <3>1, <3>2, XmlStartsAll
    <3> QED
      BY <1>7, <2>1, <3>3
  <2>3. X!StartScope(f, name, fallback) = X!WriteStart(pushed)
    BY <1>4, <1>5, <1>6, <1>8
  <2> QED
    BY <1>8, <2>1, <2>2, <2>3
<1>9. CASE labels # <<>>
  <2>1. X!StartScope(f, name, fallback) = pushed
    BY <1>4, <1>5, <1>6, <1>9
  <2> QED
    BY <1>3, <1>7, <1>9, <2>1
<1> QED
  BY <1>8, <1>9

\* Only what was started is ended.
LEMMA XmlEndAt ==
  ASSUME NEW f, NEW labels, NEW s, XmlAt(f, labels, s), Len(labels) > 0,
         NEW rest, rest = Front(labels), NEW c, c = IF s = Len(labels) THEN s - 1 ELSE s,
         NEW g, g = X!EndScope(f)
  PROVE  /\ XmlAt(g, rest, c)
         /\ Read(g.text).values = Read(f.text).values
         /\ Read(g.text).outside = Read(f.text).outside
<1> DEFINE size == Len(labels)
           text == f.text
<1>1. /\ Tracks(text, labels, s) /\ IsSeq(labels) /\ s \in 0..size /\ size \in Nat
      /\ f = [scopes |-> XmlScopes(labels, s), text |-> text]
  BY InitialIs DEF XmlAt, Tracks
<1>2. XmlScopes(labels, s) = [j \in 1..size |-> XmlScopes(labels, s)[j]]
  BY DEF XmlScopes
<1>3. Len(f.scopes) = size
  BY <1>1, <1>2, FunctionIsSeq
<1>4. X!Top(f).name = labels[size] /\ (X!Top(f).started <=> s = size)
  <2> DEFINE b == size <= s
             top == X!Top(f)
  <2>1. top = [name |-> labels[size], started |-> b] /\ b \in BOOLEAN /\ (b <=> s = size)
    BY <1>1, <1>3 DEF XmlScopes, X!Top
  <2> HIDE DEF b, top
  <2>2. top.name = labels[size] /\ (top.started <=> b)
    BY <2>1, ScopeIs
  <2> QED
    BY <2>1, <2>2 DEF top
<1>5. X!EndScope(f).scopes = Front(XmlScopes(labels, s))
  BY <1>1 DEF X!EndScope, X!Front, Front
<1>6. X!EndScope(f).text = text \o (IF s = size THEN <<X!Close(labels[size])>> ELSE <<>>)
  BY <1>4 DEF X!EndScope
<1>7. X!EndScope(f) = [scopes |-> X!EndScope(f).scopes, text |-> X!EndScope(f).text]
  BY DEF X!EndScope
<1>8. PICK S : text \in Seq(S)
  BY <1>1 DEF Tracks, IsSeq
<1> DEFINE t == X!Close(labels[size])
<1>9. t.token = "close" /\ Label(t) = labels[size]
  BY Labels
<1> HIDE DEF t, text
<1>10. text \o <<>> = text /\ text \o <<t>> = Append(text, t)
  <2> DEFINE V == S \cup {t}
  <2>1. text \in Seq(V) /\ t \in V
    BY <1>8
  <2> HIDE DEF V
  <2> QED
    BY <2>1, ConcatAppend
<1>11. CASE s = size
  <2>1. /\ Tracks(Append(text, t), Front(labels), s - 1)
        /\ Read(Append(text, t)).values = Read(text).values
        /\ Read(Append(text, t)).outside = Read(text).outside
    BY <1>1, <1>9, <1>11, CloseOne
  <2>2. X!EndScope(f).text = Append(text, t)
    BY <1>6, <1>10, <1>11 DEF t
  <2>3. X!EndScope(f).scopes = XmlScopes(Front(labels), s - 1)
    BY <1>1, <1>5, <1>11, PoppedScopes
  <2> QED
    BY <1>7, <1>11, <2>1, <2>2, <2>3 DEF XmlAt, text
<1>12. CASE s # size
  <2>1. s < size
    BY <1>1, <1>12
  <2>2. Tracks(text, Front(labels), s)
    BY <1>1, <2>1, TracksPopped
  <2>3. X!EndScope(f).text = text
    BY <1>6, <1>10, <1>12
  <2>4. X!EndScope(f).scopes = XmlScopes(Front(labels), s)
    BY <1>1, <1>5, <2>1, PoppedScopes
  <2> QED
    BY <1>7, <1>12, <2>2, <2>3, <2>4 DEF XmlAt, text
<1> QED
  BY <1>11, <1>12

-----------------------------------------------------------------------------
(* JSON, method by method                                                   *)

\* A formatter with these objects and arrays, of which the first s are started and
\* the first q need a separator before what is next in them.
JsonScopes(labels, names, s, q) ==
  [j \in 1..Len(labels) |->
     [type |-> labels[j], name |-> names[j], started |-> j <= s, requireSep |-> j <= q]]
JsonLike(f, labels, names, s, q) ==
  /\ f = [scopes |-> JsonScopes(labels, names, s, q), text |-> f.text]
  /\ Tracks(f.text, labels, s)
  /\ IsSeq(names) /\ Len(names) = Len(labels)
  /\ \A j \in 2..Len(labels) : labels[j - 1] = "object" => names[j] # None
  /\ q \in 0..s

\* All that are started need one, or none does.
JsonAt(f, labels, names, s, q) ==
  /\ JsonLike(f, labels, names, s, q)
  /\ q = s \/ (q = 0 /\ s <= 1)
  /\ labels # <<>> => s > 0

\* A scope that is started, or starts, or needs a separator.
LEMMA JsonScopeIs ==
  ASSUME NEW type, NEW name, NEW b \in BOOLEAN, NEW e \in BOOLEAN,
         NEW scope, scope = [type |-> type, name |-> name, started |-> b, requireSep |-> e]
  PROVE  /\ scope.type = type /\ scope.name = name
         /\ (scope.started <=> b) /\ (scope.requireSep <=> e)
  OBVIOUS

\* Starting a scope of JSON changes nothing else of it.
LEMMA JsonScopeStarts ==
  ASSUME NEW type, NEW name, NEW b \in BOOLEAN, NEW e \in BOOLEAN,
         NEW scope, scope = [type |-> type, name |-> name, started |-> b, requireSep |-> e],
         NEW c \in BOOLEAN, NEW d \in BOOLEAN, (b \/ c) <=> d
  PROVE  [scope EXCEPT !.started = @ \/ c]
           = [type |-> type, name |-> name, started |-> d, requireSep |-> e]
<1>1. (b \/ c) = d
  OBVIOUS
<1> QED
  BY <1>1

\* Neither does asking for a separator.
LEMMA JsonScopeSeparates ==
  ASSUME NEW type, NEW name, NEW b, NEW e,
         NEW scope, scope = [type |-> type, name |-> name, started |-> b, requireSep |-> e],
         NEW d
  PROVE  [scope EXCEPT !.requireSep = d]
           = [type |-> type, name |-> name, started |-> b, requireSep |-> d]
  OBVIOUS

\* What is in such a stack.
LEMMA JsonScopesAre ==
  ASSUME NEW f, NEW labels, NEW names, NEW s, NEW q, JsonLike(f, labels, names, s, q)
  PROVE  /\ Len(labels) \in Nat /\ s \in 0..Len(labels) /\ q \in 0..s /\ s \in Nat /\ q \in Nat
         /\ DOMAIN f.scopes = 1..Len(labels) /\ Len(f.scopes) = Len(labels)
         /\ \A j \in 1..Len(labels) :
              /\ f.scopes[j] = [type |-> labels[j], name |-> names[j],
                                started |-> j <= s, requireSep |-> j <= q]
              /\ f.scopes[j].type = labels[j] /\ f.scopes[j].name = names[j]
              /\ (f.scopes[j].started <=> j <= s) /\ (f.scopes[j].requireSep <=> j <= q)
         /\ IsSeq(f.scopes)
<1>1. /\ Len(labels) \in Nat /\ s \in 0..Len(labels) /\ q \in 0..s
      /\ f.scopes = JsonScopes(labels, names, s, q)
  BY InitialIs DEF JsonLike, Tracks
<1>2. s \in Nat /\ q \in Nat
  BY <1>1
<1>3. f.scopes = [j \in 1..Len(labels) |-> f.scopes[j]]
  BY <1>1 DEF JsonScopes
<1>4. DOMAIN f.scopes = 1..Len(labels) /\ Len(f.scopes) = Len(labels) /\ IsSeq(f.scopes)
  BY <1>1, <1>3, FunctionIsSeq
<1>5. ASSUME NEW j \in 1..Len(labels)
      PROVE  /\ f.scopes[j] = [type |-> labels[j], name |-> names[j],
                               started |-> j <= s, requireSep |-> j <= q]
             /\ f.scopes[j].type = labels[j] /\ f.scopes[j].name = names[j]
             /\ (f.scopes[j].started <=> j <= s) /\ (f.scopes[j].requireSep <=> j <= q)
  <2> DEFINE b == j <= s
             e == j <= q
             scope == f.scopes[j]
  <2>1. /\ scope = [type |-> labels[j], name |-> names[j], started |-> b, requireSep |-> e]
        /\ b \in BOOLEAN /\ e \in BOOLEAN
    BY <1>1 DEF JsonScopes
  <2> HIDE DEF b, e, scope
  <2>2. /\ scope.type = labels[j] /\ scope.name = names[j]
        /\ (scope.started <=> b) /\ (scope.requireSep <=> e)
    BY <2>1, JsonScopeIs
  <2> QED
    BY <2>1, <2>2 DEF b, e, scope
<1> QED
  BY <1>1, <1>2, <1>4, <1>5

\* What is on top of it.
LEMMA JsonTopIs ==
  ASSUME NEW f, NEW labels, NEW names, NEW s, NEW q, JsonLike(f, labels, names, s, q),
         Len(labels) > 0
  PROVE  LET top == f.scopes[Len(labels)]
         IN  /\ Len(f.scopes) = Len(labels) /\ top.type = labels[Len(labels)]
             /\ (top.started <=> s = Len(labels)) /\ (top.requireSep <=> Len(labels) <= q)
<1>1. /\ Len(labels) \in Nat /\ s \in 0..Len(labels) /\ q \in 0..s /\ s \in Nat /\ q \in Nat
      /\ DOMAIN f.scopes = 1..Len(labels) /\ Len(f.scopes) = Len(labels)
      /\ \A i \in 1..Len(labels) :
           /\ f.scopes[i] = [type |-> labels[i], name |-> names[i],
                             started |-> i <= s, requireSep |-> i <= q]
           /\ f.scopes[i].type = labels[i] /\ f.scopes[i].name = names[i]
           /\ (f.scopes[i].started <=> i <= s) /\ (f.scopes[i].requireSep <=> i <= q)
      /\ IsSeq(f.scopes)
  BY JsonScopesAre, Zenon
<1> DEFINE size == Len(labels)
<1>2. size \in 1..size /\ (size <= s <=> s = size)
  BY <1>1
<1>3. /\ f.scopes[size].type = labels[size]
      /\ (f.scopes[size].started <=> size <= s) /\ (f.scopes[size].requireSep <=> size <= q)
  BY <1>1, <1>2, Zenon
<1> HIDE DEF size
<1> QED
  BY <1>1, <1>2, <1>3 DEF size

\* Two tokens alone.
LEMMA OnlyTwo == ASSUME NEW a, NEW b PROVE <<>> \o <<a>> \o <<b>> = <<a, b>>
<1>1. <<>> \o <<a>> = <<a>>
  BY ConcatEmptySeq
<1> DEFINE V == {a, b}
<1>2. <<a>> \in Seq(V) /\ b \in V
  OBVIOUS
<1>3. <<a>> \o <<b>> = Append(<<a>>, b)
  <2> HIDE DEF V
  <2> QED
    BY <1>2, AppendProperties
<1>4. Append(<<a>>, b) = <<a, b>>
  <2> DEFINE two == Append(<<a>>, b)
  <2>1. two \in Seq(V) /\ Len(two) = 2 /\ two[1] = a /\ two[2] = b
    BY <1>2, AppendProperties
  <2>2. a \in V
    OBVIOUS
  <2> HIDE DEF two, V
  <2>3. two = <<a, b>>
    BY <1>2, <2>1, <2>2
  <2> QED
    BY <2>3 DEF two
<1> QED
  BY <1>1, <1>3, <1>4

\* What is written for a scope that starts.
LEMMA JsonStartText ==
  ASSUME NEW f, NEW labels, NEW names, NEW s, NEW q, JsonLike(f, labels, names, s, q),
         NEW j \in (s + 1)..Len(labels)
  PROVE  J!StartText(f, j) = IF j > 1 /\ labels[j - 1] = "object"
                               THEN <<J!Key(names[j]), J!Open(labels[j])>> ELSE <<J!Open(labels[j])>>
<1>0. /\ Len(labels) \in Nat /\ s \in 0..Len(labels) /\ q \in 0..s /\ s \in Nat /\ q \in Nat
      /\ DOMAIN f.scopes = 1..Len(labels) /\ Len(f.scopes) = Len(labels)
      /\ \A i \in 1..Len(labels) :
           /\ f.scopes[i] = [type |-> labels[i], name |-> names[i],
                             started |-> i <= s, requireSep |-> i <= q]
           /\ f.scopes[i].type = labels[i] /\ f.scopes[i].name = names[i]
           /\ (f.scopes[i].started <=> i <= s) /\ (f.scopes[i].requireSep <=> i <= q)
      /\ IsSeq(f.scopes)
  BY JsonScopesAre, Zenon
<1>1. /\ Len(labels) \in Nat /\ s \in Nat /\ q \in 0..s
      /\ \A i \in 1..Len(labels) :
           /\ f.scopes[i].type = labels[i] /\ f.scopes[i].name = names[i]
           /\ f.scopes[i].requireSep <=> i <= q
  BY <1>0, Zenon
<1>2. j \in 1..Len(labels) /\ j > q
  BY <1>1
<1>3. J!Separator(f.scopes[j]) = <<>>
  BY <1>1, <1>2 DEF J!Separator
<1>4. CASE j > 1 /\ labels[j - 1] = "object"
  <2>1. names[j] # None /\ f.scopes[j - 1].type = "object" /\ f.scopes[j].name = names[j]
        /\ f.scopes[j].type = labels[j]
    <3>1. j \in 2..Len(labels) /\ j - 1 \in 1..Len(labels)
      BY <1>2, <1>4
    <3> QED
      BY <1>1, <1>2, <1>4, <3>1 DEF JsonLike
  <2>2. J!StartText(f, j) = <<>> \o <<J!Key(names[j])>> \o <<J!Open(labels[j])>>
    BY <1>3, <1>4, <2>1 DEF J!StartText
  <2> DEFINE a == J!Key(names[j])
             b == J!Open(labels[j])
  <2> HIDE DEF a, b
  <2>3. <<>> \o <<a>> \o <<b>> = <<a, b>>
    BY OnlyTwo
  <2> QED
    BY <1>4, <2>2, <2>3 DEF a, b
<1>5. CASE ~(j > 1 /\ labels[j - 1] = "object")
  <2>1. j > 1 => f.scopes[j - 1].type # "object"
    <3> SUFFICES ASSUME j > 1 PROVE f.scopes[j - 1].type # "object"
      OBVIOUS
    <3>1. j - 1 \in 1..Len(labels)
      BY <1>2
    <3> QED
      BY <1>1, <1>5, <3>1
  <2>2. J!StartText(f, j) = <<>> \o <<>> \o <<J!Open(labels[j])>>
    BY <1>1, <1>2, <1>3, <2>1 DEF J!StartText
  <2> QED
    BY <1>5, <2>2
<1> QED
  BY <1>4, <1>5

\* What the objects and arrays that are not started write.
LEMMA JsonStartsAll ==
  ASSUME NEW f, NEW labels, NEW names, NEW s, NEW q, JsonLike(f, labels, names, s, q)
  PROVE  LET g == J!WriteStart(f)
         IN  /\ JsonLike(g, labels, names, Len(labels), q)
             /\ Read(g.text).values = Read(f.text).values
             /\ Read(g.text).outside =
                  IF s = 0 /\ Len(labels) > 0 THEN Append(Read(f.text).outside, "open")
                  ELSE Read(f.text).outside
             /\ s = Len(labels) => g.text = f.text
             /\ Read(g.text).legal => Read(f.text).legal
             /\ (s > 0 => Read(f.text).last \in {"open", "comma"}) =>
                  /\ Read(f.text).legal => Read(g.text).legal
                  /\ s < Len(labels) => Read(g.text).last = "open"
<1> DEFINE size == Len(labels)
           text == f.text
           parts == [j \in 1..size |-> IF j > s THEN J!StartText(f, j) ELSE <<>>]
           keyed(j) == j > 1 /\ labels[j - 1] = "object"
<1>1. /\ Tracks(text, labels, s) /\ size \in Nat /\ s \in 0..size /\ s \in Nat /\ q \in 0..s
      /\ q \in Nat
      /\ DOMAIN f.scopes = 1..size /\ Len(f.scopes) = size
      /\ \A j \in 1..size :
           /\ f.scopes[j] = [type |-> labels[j], name |-> names[j],
                             started |-> j <= s, requireSep |-> j <= q]
           /\ (f.scopes[j].started <=> j <= s)
  BY JsonScopesAre DEF JsonLike
<1>2. PICK S : text \in Seq(S)
  BY <1>1 DEF Tracks, IsSeq
<1> DEFINE V == S \cup {J!Open(labels[j]) : j \in 1..size} \cup {J!Key(names[j]) : j \in 1..size}
<1>3. text \in Seq(V)
  BY <1>2
<1>4. \A j \in 1..size : J!Open(labels[j]) \in V /\ J!Key(names[j]) \in V
  OBVIOUS
<1> HIDE DEF V
<1>5. ASSUME NEW j \in (s + 1)..size
      PROVE  /\ parts[j] = IF keyed(j) THEN <<J!Key(names[j]), J!Open(labels[j])>>
                           ELSE <<J!Open(labels[j])>>
             /\ Len(parts[j]) = IF keyed(j) THEN 2 ELSE 1
             /\ parts[j] \in Seq(V)
  <2>1. j \in 1..size /\ j > s
    BY <1>1
  <2>2. parts[j] = IF keyed(j) THEN <<J!Key(names[j]), J!Open(labels[j])>>
                   ELSE <<J!Open(labels[j])>>
    BY <2>1, JsonStartText
  <2> HIDE DEF keyed
  <2>3. J!Open(labels[j]) \in V /\ J!Key(names[j]) \in V
    BY <1>4, <2>1
  <2> HIDE DEF parts
  <2> DEFINE a == J!Open(labels[j])
             b == J!Key(names[j])
  <2>4. parts[j] = IF keyed(j) THEN <<b, a>> ELSE <<a>>
    BY <2>2
  <2>5. a \in V /\ b \in V
    BY <2>3
  <2> HIDE DEF a, b
  <2>6. /\ Len(parts[j]) = IF keyed(j) THEN 2 ELSE 1
        /\ parts[j] \in Seq(V)
    BY <2>4, <2>5
  <2> QED
    BY <2>2, <2>6
<1>6. \A j \in 1..s : parts[j] = <<>>
  BY <1>1
<1>7. parts \in [1..size -> Seq(V)]
  <2>1. ASSUME NEW j \in 1..size PROVE parts[j] \in Seq(V)
    <3>1. CASE j > s
      <4>1. j \in (s + 1)..size
        BY <1>1, <3>1
      <4> QED
        BY <1>5, <4>1
    <3>2. CASE ~(j > s)
      BY <3>2
    <3> QED
      BY <3>1, <3>2
  <2>2. parts = [j \in 1..size |-> parts[j]]
    OBVIOUS
  <2> HIDE DEF parts
  <2> QED
    BY <2>1, <2>2
<1> HIDE DEF parts, text
<1>8. ASSUME NEW j \in (s + 1)..size
      PROVE  \E t \in V : /\ t.token = "open" /\ Label(t) = labels[j]
                          /\ \/ parts[j] = <<t>>
                             \/ j > 1 /\ \E u \in V : u.token = "key" /\ parts[j] = <<u, t>>
  <2>1. j \in 1..size
    BY <1>1
  <2>2. /\ J!Open(labels[j]) \in V /\ J!Key(names[j]) \in V
        /\ J!Open(labels[j]).token = "open" /\ Label(J!Open(labels[j])) = labels[j]
        /\ J!Key(names[j]).token = "key"
    BY <1>4, <2>1, Labels
  <2> QED
    BY <1>5, <2>2
<1>9. Starting(V, text, labels, s, parts)
  BY <1>1, <1>3, <1>6, <1>7, <1>8 DEF Starting
<1>10. Started(V, text, labels, s, parts, size)
  BY <1>9, AllStart
<1>11. Keyed(labels, s, parts)
  <2> SUFFICES ASSUME NEW j \in (s + 1)..size, j > 1
               PROVE  Len(parts[j]) = IF labels[j - 1] = "object" THEN 2 ELSE 1
    BY DEF Keyed
  <2> QED
    BY <1>5
<1>12. Startings(parts, size) = FlattenSeq(parts)
  <2>1. [j \in 1..size |-> parts[j]] = parts
    BY <1>7
  <2> QED
    BY <2>1 DEF Startings
<1>13. J!Unstarted(f) = (s + 1)..size
  <2>1. /\ DOMAIN f.scopes = 1..size /\ Len(f.scopes) = size /\ size \in Nat /\ s \in 0..size
        /\ \A j \in 1..size : (f.scopes[j].started <=> j <= s)
    BY <1>1
  <2> QED
    BY ONLY <2>1 DEF J!Unstarted
<1>14. J!WriteStart(f).text = text \o FlattenSeq(parts)
  <2>1. \A j \in 1..size : (j \in J!Unstarted(f) <=> j > s)
    BY <1>1, <1>13
  <2>2. parts = [j \in DOMAIN f.scopes |->
                   IF j \in J!Unstarted(f) THEN J!StartText(f, j) ELSE <<>>]
    BY <1>1, <2>1 DEF parts
  <2>3. J!WriteStart(f).text = f.text \o J!FlattenSeq([j \in DOMAIN f.scopes |->
                   IF j \in J!Unstarted(f) THEN J!StartText(f, j) ELSE <<>>])
    BY DEF J!WriteStart
  <2>4. J!FlattenSeq(parts) = FlattenSeq(parts)
    BY DEF J!FlattenSeq, FlattenSeq
  <2> QED
    BY <2>2, <2>3, <2>4, Zenon DEF text
<1>15. J!WriteStart(f).scopes = JsonScopes(labels, names, size, q)
  <2>1. \A j \in 1..size : [f.scopes[j] EXCEPT !.started = @ \/ j \in J!Unstarted(f)]
                             = [type |-> labels[j], name |-> names[j],
                                started |-> j <= size, requireSep |-> j <= q]
    <3> SUFFICES ASSUME NEW j \in 1..size
                 PROVE  [f.scopes[j] EXCEPT !.started = @ \/ j \in J!Unstarted(f)]
                          = [type |-> labels[j], name |-> names[j],
                             started |-> j <= size, requireSep |-> j <= q]
      OBVIOUS
    <3> DEFINE b == j <= s
               c == j \in J!Unstarted(f)
               d == j <= size
               e == j <= q
               scope == f.scopes[j]
    <3>1. scope = [type |-> labels[j], name |-> names[j], started |-> b, requireSep |-> e]
      BY <1>1
    <3>2. ((b \/ c) <=> d) /\ b \in BOOLEAN /\ c \in BOOLEAN /\ d \in BOOLEAN /\ e \in BOOLEAN
      BY <1>1, <1>13
    <3> HIDE DEF b, c, d, e, scope
    <3>3. [scope EXCEPT !.started = @ \/ c]
            = [type |-> labels[j], name |-> names[j], started |-> d, requireSep |-> e]
      BY <3>1, <3>2, JsonScopeStarts
    <3> QED
      BY <3>3 DEF b, c, d, e, scope
  <2> QED
    BY <1>1, <2>1 DEF J!WriteStart, JsonScopes
<1>16. J!WriteStart(f) = [scopes |-> J!WriteStart(f).scopes, text |-> J!WriteStart(f).text]
  BY DEF J!WriteStart
<1> DEFINE g == J!WriteStart(f)
<1>17. /\ Tracks(g.text, labels, size) /\ Read(g.text).values = Read(text).values
       /\ Read(g.text).outside =
            IF s = 0 /\ size > 0 THEN Append(Read(text).outside, "open") ELSE Read(text).outside
       /\ Read(g.text).legal => Read(text).legal
       /\ size = s => g.text = text
       /\ (s > 0 => Read(text).last \in {"open", "comma"}) =>
           /\ Read(text).legal => Read(g.text).legal
           /\ size > s => Read(g.text).last = "open"
  BY <1>10, <1>11, <1>12, <1>14 DEF Started
<1>18. JsonLike(g, labels, names, size, q)
  <2>1. q \in 0..size
    BY <1>1
  <2> QED
    BY <1>15, <1>16, <1>17, <2>1 DEF JsonLike
<1> QED
  BY <1>1, <1>17, <1>18 DEF text

\* All that are started need a separator now.
LEMMA JsonSeparates ==
  ASSUME NEW f, NEW labels, NEW names, NEW q, JsonLike(f, labels, names, Len(labels), q)
  PROVE  J!RequireSeparator(f)
           = [scopes |-> JsonScopes(labels, names, Len(labels), Len(labels)), text |-> f.text]
<1> DEFINE size == Len(labels)
           text == f.text
           scopes == f.scopes
           new == [j \in DOMAIN scopes |-> [scopes[j] EXCEPT !.requireSep = TRUE]]
<1>1. /\ size \in Nat /\ q \in 0..size
      /\ DOMAIN scopes = 1..size
      /\ \A j \in 1..size :
           scopes[j] = [type |-> labels[j], name |-> names[j],
                        started |-> j <= size, requireSep |-> j <= q]
  BY JsonScopesAre
<1>2. f = [scopes |-> scopes, text |-> text]
  BY DEF JsonLike
<1>3. J!RequireSeparator(f) = [scopes |-> new, text |-> text]
  <2>1. J!RequireSeparator(f) = [f EXCEPT !.scopes = new]
    BY DEF J!RequireSeparator
  <2> HIDE DEF scopes, text, new
  <2> QED
    BY <1>2, <2>1, FormatterIs
<1>4. ASSUME NEW j \in 1..size
      PROVE  [scopes[j] EXCEPT !.requireSep = TRUE]
               = [type |-> labels[j], name |-> names[j], started |-> j <= size,
                  requireSep |-> j <= size]
  <2> DEFINE b == j <= size
             e == j <= q
             d == TRUE
             scope == scopes[j]
  <2>1. scope = [type |-> labels[j], name |-> names[j], started |-> b, requireSep |-> e]
    BY <1>1
  <2>2. d = b
    BY <1>1
  <2> HIDE DEF b, d, e, scope
  <2>3. [scope EXCEPT !.requireSep = d]
          = [type |-> labels[j], name |-> names[j], started |-> b, requireSep |-> d]
    BY ONLY <2>1, JsonScopeSeparates
  <2>4. [scope EXCEPT !.requireSep = d]
          = [type |-> labels[j], name |-> names[j], started |-> b, requireSep |-> b]
    BY ONLY <2>2, <2>3
  <2> QED
    BY <2>4 DEF b, d, scope
<1>5. new = JsonScopes(labels, names, size, size)
  BY <1>1, <1>4 DEF JsonScopes
<1> QED
  BY <1>3, <1>5

\* A token that may be there.
WithOne(a, text, t) == IF a THEN Append(text, t) ELSE text
Only(a, t) == IF a THEN <<t>> ELSE <<>>
OneIsWritten(text, a, u) == text \o Only(a, u) = WithOne(a, text, u)
BothAreWritten(text, a, b, u, v) ==
  text \o (Only(a, u) \o Only(b, v)) = WithOne(b, WithOne(a, text, u), v)

\* What is written at most once goes to the end of the text.
LEMMA ConcatOnly ==
  ASSUME NEW V, NEW p \in Seq(V), NEW a, NEW b, NEW u \in V, NEW v \in V
  PROVE  /\ OneIsWritten(p, a, u) /\ WithOne(a, p, u) \in Seq(V)
         /\ BothAreWritten(p, a, b, u, v)
<1>1. p \o <<u>> = Append(p, u) /\ p \o <<>> = p /\ p \o <<v>> = Append(p, v)
  BY ConcatAppend
<1>2. Append(p, u) \in Seq(V)
  OBVIOUS
<1>3. p \o Only(a, u) = WithOne(a, p, u) /\ WithOne(a, p, u) \in Seq(V)
  BY <1>1, <1>2 DEF Only, WithOne
<1>4. p \o (Only(a, u) \o Only(b, v)) = WithOne(b, WithOne(a, p, u), v)
  <2> DEFINE q == Only(a, u)
  <2>1. q \in Seq(V)
    BY DEF Only
  <2>2. p \o q = WithOne(a, p, u)
    BY <1>3
  <2> HIDE DEF q
  <2>3. CASE b
    <3>1. p \o (q \o <<v>>) = Append(p \o q, v)
      BY <2>1, ConcatAppend
    <3> QED
      BY <2>2, <2>3, <3>1 DEF Only, WithOne, q
  <2>4. CASE ~b
    <3>1. q \o <<>> = q
      BY <2>1, ConcatEmptySeq
    <3> QED
      BY <2>2, <2>4, <3>1 DEF Only, WithOne, q
  <2> QED
    BY <2>3, <2>4
<1> QED
  BY <1>3, <1>4 DEF OneIsWritten, BothAreWritten

\* A separator that may be written.
LEMMA WithComma ==
  ASSUME NEW text, NEW labels, NEW s, Tracks(text, labels, s), s > 0, NEW a \in BOOLEAN,
         NEW more, more = WithOne(a, text, J!Comma)
  PROVE  /\ Tracks(more, labels, s)
         /\ Read(more).values = Read(text).values
         /\ Read(more).outside = Read(text).outside
         /\ Read(more).legal => Read(text).legal
         /\ a => Read(more).last = "comma"
         /\ ~a => more = text
         /\ a /\ Read(text).legal /\ Read(text).last \in {"value", "close"} => Read(more).legal
         /\ a /\ Read(text).last = "comma" => ~Read(more).legal
<1> DEFINE t == J!Comma
<1>1. t.token = "comma"
  BY Labels
<1> HIDE DEF t
<1>2. CASE a
  <2>1. more = Append(text, t)
    BY <1>2 DEF WithOne, t
  <2>2. /\ Tracks(more, labels, s) /\ Read(more).values = Read(text).values
        /\ Read(more).outside = Read(text).outside
    BY <1>1, <2>1, OtherOne
  <2>3. Read(more) = Turn(Read(text), t)
    BY <2>1, ReadAppend DEF Tracks
  <2>4. Read(text).open # <<>>
    BY InitialIs DEF Tracks
  <2>5. Read(more).last = "comma" /\ (Read(more).legal <=> Read(text).legal /\ Allows(Read(text), t))
    BY <1>1, <2>3, TurnIs
  <2>6. Read(text).last \in {"value", "close"} => Allows(Read(text), t)
    BY <1>1, AllowsComma
  <2>7. Read(text).last = "comma" => ~Allows(Read(text), t)
    BY <1>1, <2>4, DeniesAfterComma
  <2> QED
    BY <1>2, <2>2, <2>5, <2>6, <2>7
<1>3. CASE ~a
  BY <1>3 DEF WithOne
<1> QED
  BY <1>2, <1>3

\* A key, in an object, and a value.
WithValue(text, labels, name) ==
  Append(WithOne(Last(labels) = "object", text, J!Key(name)), J!Text(name))

\* A reader takes it for one value in the scope on top.
LEMMA WithValueIs ==
  ASSUME NEW text, NEW labels, Tracks(text, labels, Len(labels)), labels # <<>>, NEW name,
         NEW more, more = WithValue(text, labels, name)
  PROVE  /\ Tracks(more, labels, Len(labels))
         /\ Read(more).values =
              Append(Read(text).values, [name |-> name, under |-> <<Last(labels)>>])
         /\ Read(more).outside = Read(text).outside
         /\ Read(more).legal => Read(text).legal
         /\ Read(more).last = "value"
         /\ Read(text).legal /\ Read(text).last \in {"open", "comma"} => Read(more).legal
<1> DEFINE size == Len(labels)
           b == Last(labels) = "object"
           u == J!Key(name)
           t == J!Text(name)
           keyed == WithOne(b, text, u)
<1>1. /\ u.token = "key" /\ t.token = "value" /\ t.name = name /\ "prefix" \notin DOMAIN t
      /\ b \in BOOLEAN
  BY Labels
<1>2. size \in Nat /\ size > 0 /\ Initial(labels, size) = labels /\ labels[size] = Last(labels)
  BY InitialIs DEF Tracks, Last
<1>3. Read(text).open = labels
  BY <1>2 DEF Tracks
<1>4. more = Append(keyed, t)
  BY DEF WithValue
<1> HIDE DEF u, t
<1>5. /\ Tracks(keyed, labels, size) /\ Read(keyed).values = Read(text).values
      /\ Read(keyed).outside = Read(text).outside
      /\ Read(keyed).legal => Read(text).legal
      /\ Read(keyed).open = labels
      /\ Read(text).legal /\ Read(text).last \in {"open", "comma"} =>
           Read(keyed).legal /\ Allows(Read(keyed), t)
  <2>1. CASE b
    <3>1. keyed = Append(text, u)
      BY <2>1 DEF WithOne
    <3> HIDE DEF keyed
    <3>2. /\ Tracks(keyed, labels, size) /\ Read(keyed).values = Read(text).values
          /\ Read(keyed).outside = Read(text).outside
      BY <1>1, <1>2, <3>1, OtherOne
    <3>3. Read(keyed) = Turn(Read(text), u)
      BY <3>1, ReadAppend DEF Tracks
    <3>4. /\ Read(keyed).legal <=> Read(text).legal /\ Allows(Read(text), u)
          /\ Read(keyed).last = "key" /\ Read(keyed).open = labels
      BY <1>1, <1>3, <3>3, TurnIs
    <3>5. Allows(Read(keyed), t)
      BY <1>1, <2>1, <3>4, AllowsKeyed
    <3>6. Read(text).last \in {"open", "comma"} => Allows(Read(text), u)
      BY <1>1, <1>3, <2>1, AllowsKey
    <3> QED
      BY <3>2, <3>4, <3>5, <3>6
  <2>2. CASE ~b
    <3>1. keyed = text
      BY <2>2 DEF WithOne
    <3> HIDE DEF keyed
    <3>2. Read(text).last \in {"open", "comma"} => Allows(Read(text), t)
      BY <1>1, <1>3, <2>2, AllowsStart
    <3> QED
      BY <1>3, <3>1, <3>2
  <2> QED
    BY <2>1, <2>2
<1> HIDE DEF keyed
<1>6. /\ Tracks(more, labels, size) /\ Read(more).outside = Read(keyed).outside
      /\ Read(more).values =
           Append(Read(keyed).values, [name |-> t.name, under |-> <<labels[size]>>])
  BY <1>1, <1>2, <1>4, <1>5, ValueOne
<1>7. Read(more) = Turn(Read(keyed), t)
  BY <1>4, <1>5, ReadAppend DEF Tracks
<1>8. Read(more).last = "value" /\ (Read(more).legal <=> Read(keyed).legal /\ Allows(Read(keyed), t))
  BY <1>1, <1>7, TurnIs
<1> HIDE DEF size
<1> QED
  BY <1>1, <1>2, <1>5, <1>6, <1>8 DEF size

-----------------------------------------------------------------------------
(* JSON that a reader accepts, and that which none will                     *)

\* Each token might follow, and the last one is what is before the next thing in the
\* scope on top: its start, a separator written for a scope that has not started, or
\* the end of what is in it.
Sound(text, s, q, size) ==
  /\ Read(text).legal
  /\ size > 0 =>
       Read(text).last \in IF q = 0 THEN {"open"} ELSE IF s < size THEN {"comma"}
                           ELSE {"value", "close"}

\* A separator was left behind by a scope that never started.
Broken(text, s, q, size) ==
  \/ ~Read(text).legal
  \/ q > 0 /\ s = size /\ Read(text).last = "comma"

\* What a property writes.
LEMMA JsonPropertyIs ==
  ASSUME NEW f, NEW labels, NEW names, NEW s, NEW q, JsonLike(f, labels, names, s, q),
         labels # <<>>, NEW name
  PROVE  J!WriteProperty(f, name)
           = [scopes |-> JsonScopes(labels, names, Len(labels), Len(labels)),
              text |-> WithValue(WithOne(Len(labels) <= q, J!WriteStart(f).text, J!Comma),
                                 labels, name)]
<1> DEFINE size == Len(labels)
           started == J!WriteStart(f)
           base == started.text
           a == size <= q
           b == Last(labels) = "object"
           scopes == JsonScopes(labels, names, size, size)
<1>1. JsonLike(started, labels, names, size, q)
  BY JsonStartsAll
<1>2. /\ size \in Nat /\ size > 0 /\ labels[size] = Last(labels)
  <2>1. size \in Nat
    BY JsonScopesAre
  <2>2. size > 0
    <3>1. IsSeq(labels)
      BY DEF JsonLike, Tracks
    <3>2. PICK S : labels \in Seq(S)
      BY <3>1 DEF IsSeq
    <3> QED
      BY <3>2
  <2> QED
    BY <2>1, <2>2 DEF Last
<1>3. J!Separator(J!Top(started)) = Only(a, J!Comma)
  <2>1. Len(started.scopes) = size /\ (started.scopes[size].requireSep <=> a)
    BY <1>1, <1>2, JsonTopIs
  <2> HIDE DEF started, a
  <2> QED
    BY <2>1 DEF J!Top, J!Separator, Only
<1>4. (IF J!Top(f).type = "object" THEN <<J!Key(name)>> ELSE <<>>) = Only(b, J!Key(name))
  <2>1. Len(f.scopes) = size /\ f.scopes[size].type = labels[size]
    BY <1>2, JsonTopIs
  <2> QED
    BY <1>2, <2>1 DEF J!Top, Only
<1>5. J!RequireSeparator(started) = [scopes |-> scopes, text |-> base]
  BY <1>1, JsonSeparates
<1>6. IsSeq(base)
  BY <1>1 DEF JsonLike, Tracks
<1>7. PICK S : base \in Seq(S)
  BY <1>6 DEF IsSeq
<1> DEFINE comma == J!Comma
           key == J!Key(name)
           value == J!Text(name)
           V == S \cup {comma, key, value}
           tokens == Only(a, comma) \o Only(b, key)
           before == WithOne(b, WithOne(a, base, comma), key)
<1>8. base \in Seq(V) /\ comma \in V /\ key \in V /\ value \in V /\ a \in BOOLEAN /\ b \in BOOLEAN
  BY <1>7
<1>9. J!StartProperty(f, name) = J!Write([scopes |-> scopes, text |-> base], tokens)
  BY <1>3, <1>4, <1>5 DEF J!StartProperty
<1> HIDE DEF comma, key, value, V, a, b, base, scopes
<1>10. base \o tokens = before /\ before \in Seq(V)
  <2>1. WithOne(a, base, comma) \in Seq(V) /\ base \o tokens = before
    <3>1. base \in Seq(V) /\ comma \in V /\ key \in V
      BY <1>8
    <3>2. WithOne(a, base, comma) \in Seq(V)
      BY <3>1, ConcatOnly
    <3>3. BothAreWritten(base, a, b, comma, key)
      BY <3>1, ConcatOnly
    <3> QED
      BY <3>2, <3>3 DEF BothAreWritten
  <2>2. before \in Seq(V)
    BY <1>8, <2>1, ConcatOnly
  <2> QED
    BY <2>1, <2>2
<1> HIDE DEF before, tokens
<1>11. J!StartProperty(f, name) = [scopes |-> scopes, text |-> before]
  BY <1>9, <1>10 DEF J!Write
<1>12. before \o <<value>> = Append(before, value)
  BY <1>8, <1>10, ConcatAppend
<1>13. J!WriteProperty(f, name) = J!Write([scopes |-> scopes, text |-> before], <<value>>)
  BY <1>11 DEF J!WriteProperty, value
<1>14. J!WriteProperty(f, name) = [scopes |-> scopes, text |-> Append(before, value)]
  BY <1>12, <1>13 DEF J!Write
<1> QED
  BY <1>14 DEF WithValue, before, scopes, base, a, b, comma, key, value

\* A property starts all scopes, and is in the last one.
LEMMA JsonPropertyAt ==
  ASSUME NEW f, NEW labels, NEW names, NEW s, NEW q, JsonAt(f, labels, names, s, q),
         labels # <<>>, NEW name
  PROVE  LET g == J!WriteProperty(f, name)
             size == Len(labels)
         IN  /\ JsonAt(g, labels, names, size, size)
             /\ Read(g.text).values =
                  Append(Read(f.text).values, [name |-> name, under |-> <<Last(labels)>>])
             /\ Read(g.text).outside = Read(f.text).outside
             /\ Sound(f.text, s, q, size) => Sound(g.text, size, size, size)
             /\ Broken(f.text, s, q, size) => Broken(g.text, size, size, size)
<1> DEFINE size == Len(labels)
           text == f.text
           base == J!WriteStart(f).text
           a == size <= q
           before == WithOne(a, base, J!Comma)
           new == WithValue(before, labels, name)
           g == J!WriteProperty(f, name)
<1>1. JsonLike(f, labels, names, s, q) /\ (q = s \/ q = 0) /\ s > 0
  BY DEF JsonAt
<1>2. /\ size \in Nat /\ s \in 0..size /\ s \in Nat /\ q \in 0..s /\ q \in Nat
  BY <1>1, JsonScopesAre
<1>3. g = [scopes |-> JsonScopes(labels, names, size, size), text |-> new]
  BY <1>1, JsonPropertyIs
<1>4. /\ Tracks(base, labels, size)
      /\ Read(base).values = Read(text).values
      /\ Read(base).outside = Read(text).outside
      /\ s = size => base = text
      /\ Read(base).legal => Read(text).legal
      /\ Read(text).last \in {"open", "comma"} =>
           /\ Read(text).legal => Read(base).legal
           /\ s < size => Read(base).last = "open"
  BY <1>1, <1>2, JsonStartsAll DEF JsonLike
<1>5. a \in BOOLEAN /\ size > 0
  BY <1>1, <1>2
<1> HIDE DEF base
<1>6. /\ Tracks(before, labels, size)
      /\ Read(before).values = Read(base).values
      /\ Read(before).outside = Read(base).outside
      /\ Read(before).legal => Read(base).legal
      /\ a => Read(before).last = "comma"
      /\ ~a => before = base
      /\ a /\ Read(base).legal /\ Read(base).last \in {"value", "close"} => Read(before).legal
      /\ a /\ Read(base).last = "comma" => ~Read(before).legal
  <2> HIDE DEF a
  <2> QED
    BY <1>4, <1>5, WithComma
<1> HIDE DEF before
<1>7. /\ Tracks(new, labels, size)
      /\ Read(new).values = Append(Read(before).values, [name |-> name, under |-> <<Last(labels)>>])
      /\ Read(new).outside = Read(before).outside
      /\ Read(new).legal => Read(before).legal
      /\ Read(new).last = "value"
      /\ Read(before).legal /\ Read(before).last \in {"open", "comma"} => Read(new).legal
  BY <1>6, WithValueIs
<1> HIDE DEF new
<1>8. g.text = new
  BY <1>3
<1>9. JsonAt(g, labels, names, size, size)
  BY <1>1, <1>2, <1>3, <1>5, <1>7, <1>8 DEF JsonAt, JsonLike
<1>10. ASSUME Sound(text, s, q, size) PROVE Sound(new, size, size, size)
  <2>1. Read(new).legal
    <3>1. CASE a
      <4>1. q = size /\ s = size /\ q # 0 /\ base = text
        BY <1>2, <1>4, <1>5, <3>1
      <4>2. Read(base).legal /\ Read(base).last \in {"value", "close"}
        BY <1>2, <1>5, <1>10, <4>1 DEF Sound
      <4> QED
        BY <1>6, <1>7, <3>1, <4>2
    <3>2. CASE ~a /\ s = size
      <4>1. q = 0 /\ before = base /\ base = text
        BY <1>1, <1>2, <1>4, <1>6, <3>2
      <4>2. Read(base).legal /\ Read(base).last = "open"
        BY <1>5, <1>10, <4>1 DEF Sound
      <4> QED
        BY <1>7, <4>1, <4>2
    <3>3. CASE ~a /\ s # size
      <4>1. s < size /\ before = base
        BY <1>2, <1>6, <3>3
      <4>2. Read(text).legal /\ Read(text).last \in {"open", "comma"}
        BY <1>5, <1>10, <4>1 DEF Sound
      <4>3. Read(base).legal /\ Read(base).last = "open"
        BY <1>4, <4>1, <4>2
      <4> QED
        BY <1>7, <4>1, <4>3
    <3> QED
      BY <3>1, <3>2, <3>3
  <2> QED
    BY <1>2, <1>5, <1>7, <2>1 DEF Sound
<1>11. ASSUME Broken(text, s, q, size) PROVE Broken(new, size, size, size)
  <2>1. CASE ~Read(text).legal
    BY <1>4, <1>6, <1>7, <2>1 DEF Broken
  <2>2. CASE q > 0 /\ s = size /\ Read(text).last = "comma"
    <3>1. a /\ base = text
      BY <1>1, <1>2, <1>4, <2>2
    <3> QED
      BY <1>6, <1>7, <2>2, <3>1 DEF Broken
  <2> QED
    BY <1>11, <2>1, <2>2 DEF Broken
<1> QED
  BY <1>4, <1>6, <1>7, <1>8, <1>9, <1>10, <1>11

\* Stacks of scopes pushed and popped.
JsonPushes(labels, names, s, q, type, name) ==
  Append(JsonScopes(labels, names, s, q), J!Scope(type, name))
    = JsonScopes(Append(labels, type), Append(names, name), s, q)

\* The stack of JSON with another scope on top.
LEMMA JsonPushed ==
  ASSUME NEW labels, IsSeq(labels), NEW names, IsSeq(names), Len(names) = Len(labels),
         NEW s \in 0..Len(labels), NEW q \in 0..s, NEW type, NEW name
  PROVE  JsonPushes(labels, names, s, q, type, name)
<1> DEFINE size == Len(labels)
           more == Append(labels, type)
           called == Append(names, name)
           f == JsonScopes(labels, names, s, q)
           g == Append(f, J!Scope(type, name))
<1>1. /\ size \in Nat /\ Len(more) = size + 1 /\ more[size + 1] = type
      /\ \A j \in 1..size : more[j] = labels[j]
      /\ called[size + 1] = name /\ \A j \in 1..size : called[j] = names[j]
  BY PushedLabels
<1>2. f = [j \in 1..size |-> f[j]]
  BY DEF JsonScopes
<1>3. IsSeq(f) /\ Len(f) = size
  BY <1>1, <1>2, FunctionIsSeq
<1>4. \A j \in 1..size :
        f[j] = [type |-> labels[j], name |-> names[j], started |-> j <= s, requireSep |-> j <= q]
  BY DEF JsonScopes
<1> HIDE DEF more, called, f
<1>5. /\ IsSeq(g) /\ Len(g) = size + 1 /\ g[size + 1] = J!Scope(type, name)
      /\ \A j \in 1..size : g[j] = f[j]
  BY <1>3, PushedLabels
<1> HIDE DEF g
<1>6. g = [j \in 1..(size + 1) |-> g[j]]
  <2>1. PICK S : g \in Seq(S)
    BY <1>5 DEF IsSeq
  <2>2. g = [j \in 1..Len(g) |-> g[j]]
    BY <2>1
  <2> QED
    BY <1>5, <2>2
<1>7. ASSUME NEW j \in 1..(size + 1)
      PROVE  g[j] = [type |-> more[j], name |-> called[j], started |-> j <= s, requireSep |-> j <= q]
  <2>1. CASE j \in 1..size
    BY <1>1, <1>4, <1>5, <2>1
  <2>2. CASE j = size + 1
    <3>1. (j <= s) = FALSE /\ (j <= q) = FALSE
      BY <1>1, <2>2
    <3> QED
      BY <1>1, <1>5, <2>2, <3>1 DEF J!Scope
  <2> QED
    BY <1>1, <2>1, <2>2
<1>8. g = JsonScopes(more, called, s, q)
  BY <1>1, <1>6, <1>7 DEF JsonScopes
<1> QED
  BY <1>8 DEF g, f, more, called, JsonPushes

\* What is left of a count when the stack has less.
AtMost(c, size) == IF c = size + 1 THEN size ELSE c

\* The stack of JSON that is left when its top is taken.
LEMMA JsonPopped ==
  ASSUME NEW labels, IsSeq(labels), Len(labels) > 0,
         NEW names, IsSeq(names), Len(names) = Len(labels),
         NEW s \in 0..Len(labels), NEW q \in 0..s
  PROVE  Front(JsonScopes(labels, names, s, q))
           = JsonScopes(Front(labels), Front(names),
                        AtMost(s, Len(labels) - 1), AtMost(q, Len(labels) - 1))
<1> DEFINE size == Len(labels)
           less == Front(labels)
           called == Front(names)
           f == JsonScopes(labels, names, s, q)
           g == Front(f)
           t == AtMost(s, size - 1)
           r == AtMost(q, size - 1)
<1>1. /\ size \in Nat /\ Len(less) = size - 1
      /\ \A j \in 1..(size - 1) : less[j] = labels[j]
      /\ \A j \in 1..(size - 1) : called[j] = names[j]
  BY PoppedLabels
<1>2. f = [j \in 1..size |-> f[j]]
  BY DEF JsonScopes
<1>3. IsSeq(f) /\ Len(f) = size
  BY <1>1, <1>2, FunctionIsSeq
<1>4. \A j \in 1..size :
        f[j] = [type |-> labels[j], name |-> names[j], started |-> j <= s, requireSep |-> j <= q]
  BY DEF JsonScopes
<1> HIDE DEF less, called, f
<1>5. /\ IsSeq(g) /\ Len(g) = size - 1 /\ \A j \in 1..(size - 1) : g[j] = f[j]
  BY <1>3, PoppedLabels
<1>6. g = [j \in 1..(size - 1) |-> g[j]]
  <2>1. PICK S : g \in Seq(S)
    BY <1>5 DEF IsSeq
  <2> QED
    BY <1>1, <1>5, <2>1
<1> HIDE DEF g
<1>7. ASSUME NEW j \in 1..(size - 1)
      PROVE  g[j] = [type |-> less[j], name |-> called[j], started |-> j <= t, requireSep |-> j <= r]
  <2>1. g[j] = [type |-> less[j], name |-> called[j], started |-> j <= s, requireSep |-> j <= q]
    BY <1>1, <1>4, <1>5
  <2>2. (j <= s) = (j <= t) /\ (j <= q) = (j <= r)
    BY <1>1 DEF AtMost
  <2> QED
    BY <2>1, <2>2
<1> HIDE DEF t, r
<1>8. g = JsonScopes(less, called, t, r)
  BY <1>1, <1>6, <1>7 DEF JsonScopes
<1> QED
  BY <1>8 DEF g, f, less, called, t, r

\* A scope on top of the others is not started yet.
LEMMA JsonLikePushed ==
  ASSUME NEW f, NEW labels, NEW names, NEW s, NEW q, JsonLike(f, labels, names, s, q),
         NEW type, NEW name, name # None \/ labels = <<>> \/ Last(labels) # "object",
         NEW text, Tracks(text, labels, s)
  PROVE  JsonLike([scopes |-> Append(f.scopes, J!Scope(type, name)), text |-> text],
                  Append(labels, type), Append(names, name), s, q)
<1> DEFINE more == Append(labels, type)
           called == Append(names, name)
           size == Len(labels)
           scopes == Append(f.scopes, J!Scope(type, name))
           g == [scopes |-> scopes, text |-> text]
<1>1. /\ IsSeq(labels) /\ IsSeq(names) /\ Len(names) = size /\ size \in Nat
      /\ s \in 0..size /\ q \in 0..s /\ f.scopes = JsonScopes(labels, names, s, q)
      /\ \A j \in 2..size : labels[j - 1] = "object" => names[j] # None
  BY JsonScopesAre DEF JsonLike, Tracks
<1>2. /\ Len(more) = size + 1 /\ IsSeq(more) /\ more[size + 1] = type
      /\ \A j \in 1..size : more[j] = labels[j]
  BY <1>1, PushedLabels
<1>3. /\ Len(called) = size + 1 /\ IsSeq(called) /\ called[size + 1] = name
      /\ \A j \in 1..size : called[j] = names[j]
  BY <1>1, PushedLabels
<1>4. Tracks(text, more, s)
  BY TracksPushed
<1>5. scopes = JsonScopes(more, called, s, q)
  <2>1. JsonPushes(labels, names, s, q, type, name)
    BY <1>1, JsonPushed
  <2> QED
    BY <1>1, <2>1 DEF JsonPushes
<1>6. labels # <<>> => size > 0 /\ Last(labels) = labels[size]
  BY <1>1 DEF Last, IsSeq
<1> HIDE DEF more, called, scopes
<1>7. ASSUME NEW j \in 2..(size + 1), more[j - 1] = "object" PROVE called[j] # None
  <2>1. CASE j \in 2..size
    <3>1. j - 1 \in 1..size /\ j \in 1..size
      BY <1>1, <2>1
    <3> QED
      BY <1>1, <1>2, <1>3, <1>7, <2>1, <3>1
  <2>2. CASE j = size + 1
    <3>1. size \in 1..size /\ j - 1 = size
      BY <1>1, <2>2
    <3>2. labels # <<>>
      BY <1>1, <3>1
    <3> QED
      BY <1>2, <1>3, <1>6, <1>7, <2>2, <3>1, <3>2
  <2> QED
    BY <1>1, <2>1, <2>2
<1>8. g = [scopes |-> scopes, text |-> g.text] /\ g.text = text
  OBVIOUS
<1> HIDE DEF g
<1>9. JsonLike(g, more, called, s, q)
  BY <1>1, <1>2, <1>3, <1>4, <1>5, <1>7, <1>8 DEF JsonLike
<1> QED
  BY <1>9 DEF g, scopes, more, called

\* The root starts at once,
LEMMA JsonRootAt ==
  ASSUME NEW f, JsonAt(f, <<>>, <<>>, 0, 0), NEW type, NEW name
  PROVE  LET g == J!StartScope(f, type, name)
         IN  /\ JsonAt(g, <<type>>, <<name>>, 1, 0)
             /\ Read(g.text).values = Read(f.text).values
             /\ Read(g.text).outside = Append(Read(f.text).outside, "open")
             /\ Read(f.text).legal => Sound(g.text, 1, 0, 1)
<1> DEFINE pushed == [scopes |-> <<J!Scope(type, name)>>, text |-> f.text]
           g == J!WriteStart(pushed)
<1>1. JsonLike(f, <<>>, <<>>, 0, 0)
  BY DEF JsonAt
<1>2. f = [scopes |-> JsonScopes(<<>>, <<>>, 0, 0), text |-> f.text] /\ Tracks(f.text, <<>>, 0)
  BY <1>1 DEF JsonLike
<1>3. JsonScopes(<<>>, <<>>, 0, 0) = <<>>
  BY DEF JsonScopes
<1>4. f.scopes = <<>>
  BY <1>2, <1>3
<1>5. \A t : Append(<<>>, t) = <<t>>
  OBVIOUS
<1>6. J!StartScope(f, type, name) = g
  <2>1. [f EXCEPT !.scopes = Append(@, J!Scope(type, name))] = pushed
    <3> DEFINE text == f.text
               new == Append(f.scopes, J!Scope(type, name))
    <3>1. f = [scopes |-> <<>>, text |-> text]
      BY <1>2, <1>3
    <3>2. new = <<J!Scope(type, name)>>
      BY <1>4, <1>5
    <3> HIDE DEF text, new
    <3>3. [f EXCEPT !.scopes = new] = [scopes |-> new, text |-> text]
      BY <3>1, FormatterIs
    <3> QED
      BY <3>2, <3>3 DEF text, new
  <2>2. J!IsRoot(pushed)
    BY DEF J!IsRoot
  <2> HIDE DEF pushed
  <2> QED
    BY <1>4, <2>1, <2>2 DEF J!StartScope
<1>7. JsonLike(pushed, <<type>>, <<name>>, 0, 0)
  <2>1. JsonLike([scopes |-> Append(f.scopes, J!Scope(type, name)), text |-> f.text],
                 Append(<<>>, type), Append(<<>>, name), 0, 0)
    BY <1>1, <1>2, JsonLikePushed
  <2> QED
    BY <1>4, <1>5, <2>1
<1>8. pushed.text = f.text
  OBVIOUS
<1> DEFINE labels == <<type>>
           names == <<name>>
<1>9. Len(labels) = 1
  OBVIOUS
<1>10. JsonLike(pushed, labels, names, 0, 0)
  BY <1>7
<1> HIDE DEF pushed, labels, names
<1>11. /\ JsonLike(g, labels, names, 1, 0)
       /\ Read(g.text).values = Read(pushed.text).values
       /\ Read(g.text).outside = Append(Read(pushed.text).outside, "open")
       /\ Read(pushed.text).legal => Read(g.text).legal
       /\ Read(g.text).last = "open"
  <2>1. /\ JsonLike(g, labels, names, Len(labels), 0)
        /\ Read(g.text).values = Read(pushed.text).values
        /\ Read(g.text).outside =
             IF 0 = 0 /\ Len(labels) > 0 THEN Append(Read(pushed.text).outside, "open")
             ELSE Read(pushed.text).outside
        /\ (0 > 0 => Read(pushed.text).last \in {"open", "comma"}) =>
             /\ Read(pushed.text).legal => Read(g.text).legal
             /\ 0 < Len(labels) => Read(g.text).last = "open"
    BY ONLY <1>10, JsonStartsAll, Zenon
  <2> QED
    BY <1>9, <2>1
<1>12. JsonAt(g, labels, names, 1, 0)
  BY <1>11 DEF JsonAt
<1> HIDE DEF g
<1>13. Read(f.text).legal => Sound(g.text, 1, 0, 1)
  BY <1>8, <1>11 DEF Sound
<1> QED
  BY <1>6, <1>8, <1>11, <1>12, <1>13 DEF labels, names

\* all other scopes later; but a separator before them is written now.
LEMMA JsonStartAt ==
  ASSUME NEW f, NEW labels, NEW names, NEW s, NEW q, JsonAt(f, labels, names, s, q),
         labels # <<>>, NEW type, NEW name, name # None \/ Last(labels) # "object"
  PROVE  LET g == J!StartScope(f, type, name)
             size == Len(labels)
         IN  /\ JsonAt(g, Append(labels, type), Append(names, name), s, q)
             /\ Read(g.text).values = Read(f.text).values
             /\ Read(g.text).outside = Read(f.text).outside
             /\ Sound(f.text, s, q, size) => Sound(g.text, s, q, size + 1)
             /\ Broken(f.text, s, q, size) => Broken(g.text, s, q, size + 1)
<1> DEFINE size == Len(labels)
           text == f.text
           a == size <= q
           new == WithOne(a, text, J!Comma)
           g == [scopes |-> Append(f.scopes, J!Scope(type, name)), text |-> new]
<1>1. JsonLike(f, labels, names, s, q) /\ (q = s \/ (q = 0 /\ s <= 1)) /\ s > 0
  BY DEF JsonAt
<1>2. /\ size \in Nat /\ s \in 0..size /\ s \in Nat /\ q \in 0..s /\ q \in Nat /\ size > 0
      /\ f = [scopes |-> f.scopes, text |-> text] /\ Tracks(text, labels, s)
      /\ Len(f.scopes) = size /\ IsSeq(f.scopes)
  <2>1. /\ size \in Nat /\ s \in 0..size /\ s \in Nat /\ q \in 0..s /\ q \in Nat
        /\ Len(f.scopes) = size /\ IsSeq(f.scopes)
    BY <1>1, JsonScopesAre
  <2>2. f = [scopes |-> f.scopes, text |-> text] /\ Tracks(text, labels, s)
    BY <1>1 DEF JsonLike
  <2> QED
    BY <1>1, <2>1, <2>2
<1>3. J!Separator(J!Top(f)) = Only(a, J!Comma)
  <2>1. f.scopes[size].requireSep <=> a
    BY <1>1, <1>2, JsonTopIs
  <2> HIDE DEF a
  <2> QED
    BY <1>2, <2>1 DEF J!Top, J!Separator, Only
<1>4. text \o Only(a, J!Comma) = new
  <2>1. PICK S : text \in Seq(S)
    BY <1>2 DEF Tracks, IsSeq
  <2> DEFINE t == J!Comma
             V == S \cup {t}
  <2>2. text \in Seq(V) /\ t \in V
    BY <2>1
  <2> HIDE DEF V, t, text, a
  <2>3. OneIsWritten(text, a, t)
    BY <2>2, ConcatOnly
  <2> QED
    BY <2>3 DEF OneIsWritten, t
<1>5. J!StartScope(f, type, name) = g
  <2>1. f.scopes # <<>>
    BY <1>2
  <2>2. J!Write(f, Only(a, J!Comma)) = [scopes |-> f.scopes, text |-> new]
    <3> DEFINE scopes == f.scopes
    <3>1. J!Write(f, Only(a, J!Comma)) = [f EXCEPT !.text = new]
      BY <1>4 DEF J!Write
    <3>2. f = [scopes |-> scopes, text |-> text]
      BY <1>2
    <3> HIDE DEF scopes, text, new
    <3> QED
      BY <3>1, <3>2, FormatterIs DEF scopes
  <2>3. [J!Write(f, Only(a, J!Comma)) EXCEPT !.scopes = Append(@, J!Scope(type, name))] = g
    <3> DEFINE h == J!Write(f, Only(a, J!Comma))
               scopes == f.scopes
               pushed == Append(scopes, J!Scope(type, name))
    <3>1. h = [scopes |-> scopes, text |-> new] /\ h.scopes = scopes
      BY <2>2
    <3> HIDE DEF h, scopes, new
    <3>2. [h EXCEPT !.scopes = Append(@, J!Scope(type, name))] = [h EXCEPT !.scopes = pushed]
      BY <3>1
    <3> HIDE DEF pushed
    <3>3. [h EXCEPT !.scopes = pushed] = [scopes |-> pushed, text |-> new]
      BY <3>1, FormatterIs
    <3> QED
      BY <3>2, <3>3 DEF h, pushed, scopes
  <2>4. Len(g.scopes) = size + 1
    <3>1. g.scopes = Append(f.scopes, J!Scope(type, name))
      OBVIOUS
    <3> QED
      BY <1>2, <3>1, PushedLabels
  <2>5. ~J!IsRoot(g)
    BY <1>2, <2>4 DEF J!IsRoot
  <2> HIDE DEF g, a
  <2> QED
    BY <1>3, <2>1, <2>3, <2>5 DEF J!StartScope
<1>6. g.text = new
  OBVIOUS
<1>7. /\ Tracks(new, labels, s)
      /\ Read(new).values = Read(text).values
      /\ Read(new).outside = Read(text).outside
      /\ Read(new).legal => Read(text).legal
      /\ a => Read(new).last = "comma"
      /\ ~a => new = text
      /\ a /\ Read(text).legal /\ Read(text).last \in {"value", "close"} => Read(new).legal
      /\ a /\ Read(text).last = "comma" => ~Read(new).legal
  <2>1. a \in BOOLEAN
    BY <1>2
  <2> HIDE DEF a
  <2> QED
    BY <1>1, <1>2, <2>1, WithComma
<1>8. JsonLike(g, Append(labels, type), Append(names, name), s, q)
  <2> HIDE DEF new
  <2> QED
    BY <1>1, <1>7, JsonLikePushed
<1> HIDE DEF g, new
<1>9. JsonAt(g, Append(labels, type), Append(names, name), s, q)
  BY <1>1, <1>8 DEF JsonAt
<1>10. ASSUME Sound(text, s, q, size) PROVE Sound(new, s, q, size + 1)
  <2>1. CASE a
    <3>1. q = size /\ s = size /\ q # 0 /\ s < size + 1
      BY <1>2, <2>1
    <3> QED
      BY <1>2, <1>7, <1>10, <2>1, <3>1 DEF Sound
  <2>2. CASE ~a
    <3>1. q = 0 \/ (s < size /\ s < size + 1)
      BY <1>1, <1>2, <2>2
    <3> QED
      BY <1>2, <1>7, <1>10, <2>2, <3>1 DEF Sound
  <2> QED
    BY <2>1, <2>2
<1>11. ASSUME Broken(text, s, q, size) PROVE Broken(new, s, q, size + 1)
  <2>1. q > 0 /\ s = size => a
    BY <1>1, <1>2
  <2> QED
    BY <1>7, <1>11, <2>1 DEF Broken
<1> QED
  BY <1>5, <1>6, <1>7, <1>9, <1>10, <1>11

\* Only what was started is ended.  A separator is left behind when nothing is in a
\* scope that is after something.
LEMMA JsonEndAt ==
  ASSUME NEW f, NEW labels, NEW names, NEW s, NEW q, JsonAt(f, labels, names, s, q),
         labels # <<>>
  PROVE  LET g == J!EndScope(f)
             size == Len(labels)
             t == AtMost(s, size - 1)
             r == AtMost(q, size - 1)
         IN  /\ JsonAt(g, Front(labels), Front(names), t, r)
             /\ Read(g.text).values = Read(f.text).values
             /\ Read(g.text).outside = Read(f.text).outside
             /\ Sound(f.text, s, q, size) /\ ~(q > 0 /\ s = size - 1) =>
                  Sound(g.text, t, r, size - 1)
             /\ Sound(f.text, s, q, size) /\ q > 0 /\ s = size - 1 =>
                  Broken(g.text, t, r, size - 1)
             /\ Broken(f.text, s, q, size) => Broken(g.text, t, r, size - 1)
<1> DEFINE size == Len(labels)
           text == f.text
           t == AtMost(s, size - 1)
           r == AtMost(q, size - 1)
           less == Front(labels)
           called == Front(names)
           g == J!EndScope(f)
           new == g.text
<1>1. JsonLike(f, labels, names, s, q) /\ (q = s \/ (q = 0 /\ s <= 1)) /\ s > 0
  BY DEF JsonAt
<1>2. /\ size \in Nat /\ s \in 0..size /\ s \in Nat /\ q \in 0..s /\ q \in Nat /\ size > 0
      /\ Len(f.scopes) = size
  <2>1. /\ size \in Nat /\ s \in 0..size /\ s \in Nat /\ q \in 0..s /\ q \in Nat
        /\ Len(f.scopes) = size
    BY <1>1, JsonScopesAre
  <2> QED
    BY <1>1, <2>1
<1>3. /\ f = [scopes |-> JsonScopes(labels, names, s, q), text |-> text]
      /\ Tracks(text, labels, s) /\ IsSeq(labels) /\ IsSeq(names) /\ Len(names) = size
      /\ \A j \in 2..size : labels[j - 1] = "object" => names[j] # None
  BY <1>1 DEF JsonLike, Tracks
<1>4. J!Top(f).type = labels[size] /\ (J!Top(f).started <=> s = size)
  BY <1>1, <1>2, JsonTopIs DEF J!Top
<1>5. g.scopes = JsonScopes(less, called, t, r)
  <2>1. Front(JsonScopes(labels, names, s, q)) = JsonScopes(less, called, t, r)
    BY <1>2, <1>3, JsonPopped
  <2> QED
    BY <1>3, <2>1 DEF J!EndScope, J!Front, Front
<1>6. new = text \o (IF s = size THEN <<J!Close(labels[size])>> ELSE <<>>)
  BY <1>4 DEF J!EndScope
<1>7. g = [scopes |-> g.scopes, text |-> new]
  BY DEF J!EndScope
<1> DEFINE close == J!Close(labels[size])
<1>8. close.token = "close" /\ Label(close) = labels[size]
  BY Labels
<1>9. text \o <<>> = text /\ text \o <<close>> = Append(text, close)
  <2>1. PICK S : text \in Seq(S)
    BY <1>3 DEF Tracks, IsSeq
  <2> DEFINE V == S \cup {close}
  <2>2. text \in Seq(V) /\ close \in V
    BY <2>1
  <2> HIDE DEF V, close, text
  <2> QED
    BY <2>2, ConcatAppend
<1>10. /\ IsSeq(less) /\ Len(less) = size - 1 /\ \A j \in 1..(size - 1) : less[j] = labels[j]
       /\ IsSeq(called) /\ Len(called) = size - 1 /\ \A j \in 1..(size - 1) : called[j] = names[j]
       /\ less # <<>> => size > 1
  <2>1. /\ IsSeq(less) /\ Len(less) = size - 1 /\ \A j \in 1..(size - 1) : less[j] = labels[j]
        /\ IsSeq(called) /\ Len(called) = size - 1 /\ \A j \in 1..(size - 1) : called[j] = names[j]
    BY <1>2, <1>3, PoppedLabels
  <2> HIDE DEF less, called
  <2>2. PICK S : less \in Seq(S)
    BY <2>1 DEF IsSeq
  <2>3. less # <<>> => Len(less) > 0
    BY <2>2
  <2> QED
    BY <1>2, <2>1, <2>3
<1> HIDE DEF less, called, close, g
<1>11. \A j \in 2..(size - 1) : less[j - 1] = "object" => called[j] # None
  <2> SUFFICES ASSUME NEW j \in 2..(size - 1), less[j - 1] = "object" PROVE called[j] # None
    OBVIOUS
  <2>1. j \in 2..size /\ j \in 1..(size - 1) /\ j - 1 \in 1..(size - 1)
    BY <1>2
  <2> QED
    BY <1>3, <1>10, <2>1
<1>12. /\ r \in 0..t /\ (r = t \/ (r = 0 /\ t <= 1)) /\ (size > 1 => t > 0)
       /\ (s = size => t = size - 1) /\ (s # size => t = s)
       /\ (q > 0 /\ s = size => r = size - 1) /\ (q = 0 => r = 0)
       /\ (s # size => r = q)
  BY <1>1, <1>2 DEF AtMost
<1> HIDE DEF t, r
<1>13. ASSUME Tracks(new, less, t) PROVE JsonAt(g, less, called, t, r)
  <2>1. JsonLike(g, less, called, t, r)
    BY <1>5, <1>7, <1>10, <1>11, <1>12, <1>13 DEF JsonLike
  <2> QED
    BY <1>10, <1>12, <2>1 DEF JsonAt
<1>14. CASE s = size
  <2>1. new = Append(text, close)
    BY <1>6, <1>9, <1>14 DEF close
  <2> HIDE DEF new
  <2>2. /\ Tracks(new, less, t)
        /\ Read(new).values = Read(text).values
        /\ Read(new).outside = Read(text).outside
    BY <1>1, <1>3, <1>8, <1>12, <1>14, <2>1, CloseOne DEF less
  <2>3. Read(new) = Turn(Read(text), close)
    BY <1>3, <2>1, ReadAppend DEF Tracks
  <2>4. Read(new).last = "close" /\ (Read(new).legal <=> Read(text).legal /\ Allows(Read(text), close))
    BY <1>8, <2>3, TurnIs
  <2>5. Read(text).open # <<>>
    BY <1>1, <1>3, InitialIs DEF Tracks
  <2>6. ASSUME Sound(text, s, q, size) PROVE Sound(new, t, r, size - 1)
    <3>1. Read(text).legal /\ Read(text).last \in {"open", "value", "close"}
      BY <1>2, <1>14, <2>6 DEF Sound
    <3>2. Read(new).legal
      BY <1>8, <2>4, <3>1, AllowsEnd
    <3>3. size - 1 > 0 => r # 0 /\ ~(t < size - 1)
      BY <1>1, <1>2, <1>12, <1>14
    <3> QED
      BY <2>4, <3>2, <3>3 DEF Sound
  <2>7. ASSUME Broken(text, s, q, size) PROVE Broken(new, t, r, size - 1)
    <3>1. Read(text).last = "comma" => ~Allows(Read(text), close)
      BY <1>8, <2>5, DeniesAfterComma
    <3> QED
      BY <2>4, <2>7, <3>1 DEF Broken
  <2>8. s # size - 1
    BY <1>2, <1>14
  <2> QED
    BY <1>13, <2>2, <2>6, <2>7, <2>8 DEF new, g, less, called, t, r
<1>15. CASE s # size
  <2>1. new = text
    BY <1>6, <1>9, <1>15
  <2> HIDE DEF new
  <2>2. s < size /\ t = s /\ r = q
    BY <1>2, <1>12, <1>15
  <2>3. Tracks(text, less, s)
    BY <1>3, <2>2, TracksPopped DEF less
  <2>4. ASSUME Sound(text, s, q, size), ~(q > 0 /\ s = size - 1)
        PROVE  Sound(new, t, r, size - 1)
    <3>1. q # 0 => s < size - 1
      BY <1>2, <2>2, <2>4
    <3> QED
      BY <1>2, <2>1, <2>2, <2>4, <3>1 DEF Sound
  <2>5. ASSUME Sound(text, s, q, size), q > 0, s = size - 1
        PROVE  Broken(new, t, r, size - 1)
    BY <1>2, <2>1, <2>2, <2>5 DEF Sound, Broken
  <2>6. ASSUME Broken(text, s, q, size) PROVE Broken(new, t, r, size - 1)
    BY <2>1, <2>2, <2>6 DEF Broken
  <2> QED
    BY <1>13, <2>1, <2>2, <2>3, <2>4, <2>5, <2>6 DEF new, g, less, called, t, r
<1> QED
  BY <1>14, <1>15

-----------------------------------------------------------------------------
(* The scopes of a document                                                 *)

\* The scope on top, by what it is for, and the one it is in.
Nested == {"catalog", "properties"}
Tops   == {"nothing", "root", "instance", "packages", "package"} \cup Nested
OuterOf(top) ==
  CASE top = "root"     -> "nothing"
    [] top = "instance" -> "root"
    [] top = "package"  -> "packages"
    [] OTHER            -> "instance"
Deep(top) ==
  CASE top = "nothing" -> 0 [] top = "root" -> 1 [] top = "instance" -> 2 [] top = "package" -> 4
    [] OTHER -> 3

\* All scopes from the root to the one on top.
Chain(top, a, b, c, d) ==
  CASE top = "nothing"  -> <<>>
    [] top = "root"     -> Append(<<>>, a)
    [] top = "instance" -> Append(Append(<<>>, a), b)
    [] top = "package"  -> Append(Append(Append(Append(<<>>, a), b), c), d)
    [] OTHER            -> Append(Append(Append(<<>>, a), b), c)
Own(top, a, b, c, d) ==
  CASE top = "root" -> a [] top = "instance" -> b [] top = "package" -> d [] OTHER -> c

\* The last of a sequence and all before it.
LEMMA Appended ==
  ASSUME NEW s, IsSeq(s), NEW v, NEW t, t = Append(s, v)
  PROVE  IsSeq(t) /\ Len(t) = Len(s) + 1 /\ Last(t) = v /\ Front(t) = s /\ t # <<>>
<1>1. /\ Len(s) \in Nat /\ Len(t) = Len(s) + 1 /\ IsSeq(t) /\ t[Len(s) + 1] = v
      /\ \A c \in 0..Len(s) : Initial(t, c) = Initial(s, c)
  BY PushedLabels
<1>2. Last(t) = v
  BY <1>1 DEF Last
<1>3. t # <<>>
  BY <1>1
<1>4. Front(t) = s
  <2>1. Len(t) \in 0..Len(t) /\ Len(t) > 0 /\ Len(t) - 1 = Len(s) /\ Len(s) \in 0..Len(s)
    BY <1>1
  <2>2. Initial(t, Len(t)) = t /\ Front(Initial(t, Len(t))) = Initial(t, Len(t) - 1)
    BY <1>1, <2>1, InitialIs
  <2>3. Initial(s, Len(s)) = s
    BY <2>1, InitialIs
  <2> QED
    BY <1>1, <2>1, <2>2, <2>3
<1> QED
  BY <1>1, <1>2, <1>3, <1>4

\* A chain has one more than that of the scope around.
LEMMA ChainGrows ==
  ASSUME NEW a, NEW b, NEW c, NEW d, NEW e, NEW top \in Tops, top # "nothing",
         top = "package" => e = c
  PROVE  Chain(top, a, b, c, d) = Append(Chain(OuterOf(top), a, b, e, d), Own(top, a, b, c, d))
<1>1. CASE top = "root"
  BY <1>1 DEF Chain, OuterOf, Own
<1>2. CASE top = "instance"
  BY <1>2 DEF Chain, OuterOf, Own
<1>3. CASE top = "package"
  BY <1>3 DEF Chain, OuterOf, Own
<1>4. CASE top \in Nested \cup {"packages"}
  BY <1>4 DEF Chain, OuterOf, Own, Nested
<1> QED
  BY <1>1, <1>2, <1>3, <1>4 DEF Tops

\* It is as long as the scope is deep.
LEMMA ChainIsSeq ==
  ASSUME NEW a, NEW b, NEW c, NEW d, NEW top \in Tops
  PROVE  IsSeq(Chain(top, a, b, c, d)) /\ Len(Chain(top, a, b, c, d)) = Deep(top)
<1> DEFINE at(t) == Chain(t, a, b, c, d)
           Fine(t) == IsSeq(at(t)) /\ Len(at(t)) = Deep(t)
<1>1. ASSUME NEW t \in Tops, t # "nothing" PROVE at(t) = Append(at(OuterOf(t)), Own(t, a, b, c, d))
  BY <1>1, ChainGrows
<1>2. Fine("nothing")
  <2>1. <<>> \in Seq({}) /\ Len(<<>>) = 0
    OBVIOUS
  <2>2. at("nothing") = <<>> /\ Deep("nothing") = 0
    BY DEF Chain, Deep
  <2> QED
    BY <2>1, <2>2 DEF IsSeq
<1> HIDE DEF at
<1>3. ASSUME NEW t \in Tops, t # "nothing", Fine(OuterOf(t)), Deep(t) = Deep(OuterOf(t)) + 1
      PROVE  Fine(t)
  BY <1>1, <1>3, Appended
<1>4. /\ OuterOf("root") = "nothing" /\ OuterOf("instance") = "root" /\ OuterOf("packages") = "instance"
      /\ OuterOf("package") = "packages" /\ \A t \in Nested : OuterOf(t) = "instance"
      /\ Deep("root") = Deep("nothing") + 1 /\ Deep("instance") = Deep("root") + 1
      /\ Deep("packages") = Deep("instance") + 1 /\ Deep("package") = Deep("packages") + 1
      /\ \A t \in Nested : Deep(t) = Deep("instance") + 1
  BY DEF OuterOf, Deep, Nested
<1>5. Nested \subseteq Tops /\ {"root", "instance", "packages", "package"} \subseteq Tops
      /\ "nothing" \notin Nested
  BY DEF Tops, Nested
<1> HIDE DEF Fine
<1>6. Fine("root")
  BY <1>2, <1>3, <1>4, <1>5
<1>7. Fine("instance")
  BY <1>3, <1>4, <1>5, <1>6
<1>8. Fine("packages") /\ \A t \in Nested : Fine(t)
  BY <1>3, <1>4, <1>5, <1>7
<1>9. Fine("package")
  BY <1>3, <1>4, <1>5, <1>8
<1>10. Fine(top)
  BY <1>2, <1>6, <1>7, <1>8, <1>9 DEF Tops
<1> QED
  BY <1>10 DEF Fine, at

\* Its last is the scope on top, and those before are the chain of the scope around.
LEMMA ChainIs ==
  ASSUME NEW a, NEW b, NEW c, NEW d, NEW e, NEW top \in Tops, top # "nothing",
         top = "package" => e = c
  PROVE  /\ Last(Chain(top, a, b, c, d)) = Own(top, a, b, c, d)
         /\ Front(Chain(top, a, b, c, d)) = Chain(OuterOf(top), a, b, e, d)
         /\ Chain(top, a, b, c, d) # <<>>
<1> DEFINE outer == Chain(OuterOf(top), a, b, e, d)
           own == Own(top, a, b, c, d)
           all == Chain(top, a, b, c, d)
<1>1. all = Append(outer, own)
  BY ChainGrows
<1>2. OuterOf(top) \in Tops
  BY DEF OuterOf, Tops
<1>3. IsSeq(outer)
  BY <1>2, ChainIsSeq
<1> HIDE DEF outer, own, all
<1>4. Last(all) = own /\ Front(all) = outer /\ all # <<>>
  BY <1>1, <1>3, Appended
<1> QED
  BY <1>4 DEF outer, own, all

\* The elements of XML, the types and the names of the scopes of JSON, and the prefixes
\* of the lines of text.
RootName    == IF request.find THEN "files" ELSE None
RootElement == IF request.find THEN "files" ELSE "instances"
ElementOf(top) == IF top = "root" THEN RootElement ELSE top
TypeOf(top)    == IF top \in {"root", "packages"} THEN "array" ELSE "object"
NameOf(top) ==
  CASE top = "root" -> RootName [] top = "instance" -> None [] OTHER -> top
Elements(top) ==
  Chain(top, RootElement, "instance", IF top = "package" THEN "packages" ELSE top, "package")
Types(top) ==
  Chain(top, "array", "object", IF top \in {"packages", "package"} THEN "array" ELSE "object",
        "object")
NamesOf(top) ==
  Chain(top, RootName, None, IF top = "package" THEN "packages" ELSE top, "package")
PrefixOf(top) == IF top \in Nested THEN <<top>> ELSE <<>>
PrefixesOf(top) ==
  CASE top \in {"nothing", "root"} -> <<>>
    [] top \in Nested -> Append(Append(<<>>, <<>>), PrefixOf(top))
    [] OTHER -> Append(<<>>, <<>>)

\* So it is with the labels and the names of either stack.
LEMMA LabelsAre ==
  ASSUME NEW top \in Tops, top # "nothing"
  PROVE  /\ Elements(top) = Append(Elements(OuterOf(top)), ElementOf(top))
         /\ Types(top) = Append(Types(OuterOf(top)), TypeOf(top))
         /\ NamesOf(top) = Append(NamesOf(OuterOf(top)), NameOf(top))
         /\ Last(Elements(top)) = ElementOf(top) /\ Last(Types(top)) = TypeOf(top)
         /\ Front(Elements(top)) = Elements(OuterOf(top))
         /\ Front(Types(top)) = Types(OuterOf(top)) /\ Front(NamesOf(top)) = NamesOf(OuterOf(top))
         /\ Elements(top) # <<>> /\ Types(top) # <<>>
         /\ Deep(top) = Deep(OuterOf(top)) + 1 /\ OuterOf(top) \in Tops
<1> DEFINE third(t) == IF t = "package" THEN "packages" ELSE t
           kind(t) == IF t \in {"packages", "package"} THEN "array" ELSE "object"
<1>1. top = "package" => /\ third(OuterOf(top)) = third(top) /\ kind(OuterOf(top)) = kind(top)
  BY DEF OuterOf
<1>2. /\ Own(top, RootElement, "instance", third(top), "package") = ElementOf(top)
      /\ Own(top, "array", "object", kind(top), "object") = TypeOf(top)
      /\ Own(top, RootName, None, third(top), "package") = NameOf(top)
  BY DEF Own, ElementOf, TypeOf, NameOf, Tops, Nested
<1>3. /\ Elements(top) = Chain(top, RootElement, "instance", third(top), "package")
      /\ Types(top) = Chain(top, "array", "object", kind(top), "object")
      /\ NamesOf(top) = Chain(top, RootName, None, third(top), "package")
      /\ Elements(OuterOf(top)) = Chain(OuterOf(top), RootElement, "instance", third(OuterOf(top)), "package")
      /\ Types(OuterOf(top)) = Chain(OuterOf(top), "array", "object", kind(OuterOf(top)), "object")
      /\ NamesOf(OuterOf(top)) = Chain(OuterOf(top), RootName, None, third(OuterOf(top)), "package")
  BY DEF Elements, Types, NamesOf
<1>4. Deep(top) = Deep(OuterOf(top)) + 1 /\ OuterOf(top) \in Tops
  BY DEF Deep, OuterOf, Tops, Nested
<1> HIDE DEF third, kind
<1>5. /\ Elements(top) = Append(Elements(OuterOf(top)), ElementOf(top))
      /\ Types(top) = Append(Types(OuterOf(top)), TypeOf(top))
      /\ NamesOf(top) = Append(NamesOf(OuterOf(top)), NameOf(top))
  BY <1>1, <1>2, <1>3, ChainGrows
<1>6. /\ Last(Elements(top)) = ElementOf(top) /\ Last(Types(top)) = TypeOf(top)
      /\ Front(Elements(top)) = Elements(OuterOf(top))
      /\ Front(Types(top)) = Types(OuterOf(top)) /\ Front(NamesOf(top)) = NamesOf(OuterOf(top))
      /\ Elements(top) # <<>> /\ Types(top) # <<>>
  BY <1>1, <1>2, <1>3, ChainIs
<1> QED
  BY <1>4, <1>5, <1>6

\* They are as many as the scope is deep.
LEMMA LabelsSize ==
  ASSUME NEW top \in Tops
  PROVE  /\ Len(Elements(top)) = Deep(top) /\ Len(Types(top)) = Deep(top) /\ Deep(top) \in 0..4
         /\ IsSeq(Elements(top)) /\ IsSeq(Types(top))
         /\ top = "nothing" => Elements(top) = <<>> /\ Types(top) = <<>> /\ NamesOf(top) = <<>>
         /\ top = "nothing" <=> Deep(top) = 0
<1>1. /\ Len(Elements(top)) = Deep(top) /\ Len(Types(top)) = Deep(top)
      /\ IsSeq(Elements(top)) /\ IsSeq(Types(top))
  BY ChainIsSeq DEF Elements, Types
<1>2. top = "nothing" => Elements(top) = <<>> /\ Types(top) = <<>> /\ NamesOf(top) = <<>>
  BY DEF Elements, Types, NamesOf, Chain
<1>3. Deep(top) \in 0..4 /\ (top = "nothing" <=> Deep(top) = 0)
  BY DEF Deep, Tops, Nested
<1> QED
  BY <1>1, <1>2, <1>3

\* Prefixes are pushed and popped like all scopes, but for the root.
LEMMA PrefixesAre ==
  ASSUME NEW top \in Tops, top \notin {"nothing", "root"}
  PROVE  /\ PrefixesOf(top) =
              Append(PrefixesOf(OuterOf(top)),
                     PrefixOf(top)) \/ top \in {"packages", "package"}
         /\ top \notin {"packages", "package"} =>
              /\ Front(PrefixesOf(top)) = PrefixesOf(OuterOf(top))
              /\ PrefixesOf(top) # <<>> /\ Last(PrefixesOf(top)) = PrefixOf(top)
<1>1. CASE top = "instance"
  <2>1. PrefixesOf(top) = Append(<<>>, PrefixOf(top)) /\ PrefixesOf(OuterOf(top)) = <<>>
    BY <1>1 DEF PrefixesOf, PrefixOf, OuterOf, Nested
  <2>2. IsSeq(<<>>)
    <3>1. <<>> \in Seq({})
      OBVIOUS
    <3> QED
      BY <3>1 DEF IsSeq
  <2> QED
    BY <2>1, <2>2, Appended
<1>2. CASE top \in Nested
  <2> DEFINE one == Append(<<>>, <<>>)
  <2>1. PrefixesOf(top) = Append(one, PrefixOf(top)) /\ PrefixesOf(OuterOf(top)) = one
    BY <1>2 DEF PrefixesOf, PrefixOf, OuterOf, Nested
  <2>2. one \in Seq({<<>>})
    OBVIOUS
  <2> HIDE DEF one
  <2>3. IsSeq(one)
    BY <2>2 DEF IsSeq
  <2> QED
    BY <2>1, <2>3, Appended
<1>3. CASE top \in {"packages", "package"}
  BY <1>3
<1> QED
  BY <1>1, <1>2, <1>3 DEF Tops

\* A text without scopes.
Plainly(text) == IsSeq(text) /\ Read(text).open = <<>>

\* The formatter when top is on top, s scopes are started and q need a separator.
\* Formats without a stack, or with one that is not for this, do not write packages.
Stands(f, top, s, q) ==
  CASE request.format = "json" -> JsonAt(f, Types(top), NamesOf(top), s, q)
    [] request.format = "xml" -> XmlAt(f, Elements(top), s) /\ (top # "nothing" => s > 0)
    [] request.format = "text" ->
         /\ top \notin {"packages", "package"}
         /\ f = [scopes |-> PrefixesOf(top), first |-> f.first, text |-> f.text]
         /\ Plainly(f.text)
    [] request.format = "value" ->
         /\ top \notin {"packages", "package"}
         /\ f = [text |-> f.text] /\ Plainly(f.text)

\* What the steps between properties leave alone.
Keeps(f, g) ==
  /\ Read(g.text).values = Read(f.text).values
  /\ request.format \in {"json", "xml"} => Read(g.text).outside = Read(f.text).outside

\* What a reader of JSON will say of it.
Judges(hollow, text, s, q, size) ==
  request.format = "json" => IF hollow THEN Broken(text, s, q, size) ELSE Sound(text, s, q, size)

\* The methods that push and pop them.
NewTop(f, top) ==
  CASE top = "root"     -> StartArray(f, RootName)
    [] top = "instance" -> StartObject(f, None)
    [] top = "packages" -> StartArray(f, "packages")
    [] OTHER            -> StartObject(f, top)
EndTop(f, top) == IF top \in {"root", "packages"} THEN EndArray(f) ELSE EndObject(f)

\* The names the formatter gives itself are names.
LEMMA NameIsGiven ==
  ASSUME NEW top \in Tops, top \notin {"nothing", "root"}
  PROVE  /\ NameOf(top) = IF top = "instance" THEN None ELSE top
         /\ top # "instance" => top # None
         /\ top = "instance" => Last(Types(OuterOf(top))) = "array"
         /\ OuterOf(top) \in Tops \ {"nothing"}
         /\ ElementOf(top) = top
<1>1. OuterOf(top) \in Tops \ {"nothing"}
  BY DEF OuterOf, Tops
<1>2. top = "instance" => Last(Types(OuterOf(top))) = "array"
  <2> SUFFICES ASSUME top = "instance" PROVE Last(Types(OuterOf(top))) = "array"
    OBVIOUS
  <2>1. OuterOf(top) = "root" /\ TypeOf("root") = "array"
    BY DEF OuterOf, TypeOf
  <2> QED
    BY <1>1, <2>1, LabelsAre
<1>3. top # "instance" => top # None
  BY NamesAssumption DEF Tops, Nested
<1> QED
  BY <1>1, <1>2, <1>3 DEF NameOf, ElementOf

\* A scope of JSON on top of the others,
LEMMA JsonTopStarts ==
  ASSUME request.format = "json", NEW f, NEW top \in Tops, top \notin {"nothing", "root"},
         NEW s, NEW q, Stands(f, OuterOf(top), s, q),
         NEW hollow, Judges(hollow, f.text, s, q, Deep(OuterOf(top)))
  PROVE  LET g == NewTop(f, top)
         IN  Stands(g, top, s, q) /\ Keeps(f, g) /\ Judges(hollow, g.text, s, q, Deep(top))
<1> DEFINE g == NewTop(f, top)
           labels == Types(OuterOf(top))
           names == NamesOf(OuterOf(top))
           type == TypeOf(top)
           name == NameOf(top)
<1>1. g = J!StartScope(f, type, name)
  BY DEF NewTop, StartArray, StartObject, J!StartArray, J!StartObject, TypeOf, NameOf, Tops
<1>2. JsonAt(f, labels, names, s, q)
  BY DEF Stands
<1>3. labels # <<>> /\ (name # None \/ Last(labels) # "object") /\ Len(labels) = Deep(OuterOf(top))
      /\ OuterOf(top) \in Tops
  BY NameIsGiven, LabelsAre, LabelsSize
<1>4. /\ Types(top) = Append(labels, type) /\ NamesOf(top) = Append(names, name)
      /\ Deep(top) = Deep(OuterOf(top)) + 1
  BY LabelsAre
<1> HIDE DEF g, labels, names, type, name
<1>5. /\ JsonAt(g, Append(labels, type), Append(names, name), s, q)
      /\ Read(g.text).values = Read(f.text).values
      /\ Read(g.text).outside = Read(f.text).outside
      /\ Sound(f.text, s, q, Len(labels)) => Sound(g.text, s, q, Len(labels) + 1)
      /\ Broken(f.text, s, q, Len(labels)) => Broken(g.text, s, q, Len(labels) + 1)
  BY <1>1, <1>2, <1>3, JsonStartAt
<1>6. Stands(g, top, s, q)
  BY <1>4, <1>5 DEF Stands
<1>7. Judges(hollow, g.text, s, q, Deep(top))
  BY <1>3, <1>4, <1>5 DEF Judges
<1> QED
  BY <1>5, <1>6, <1>7 DEF Keeps, g

\* one of XML,
LEMMA XmlTopStarts ==
  ASSUME request.format = "xml", NEW f, NEW top \in Tops, top \notin {"nothing", "root"},
         NEW s, NEW q, Stands(f, OuterOf(top), s, q)
  PROVE  LET g == NewTop(f, top) IN Stands(g, top, s, q) /\ Keeps(f, g)
<1> DEFINE g == NewTop(f, top)
           labels == Elements(OuterOf(top))
           name == NameOf(top)
           fallback == IF top = "packages" THEN "instances" ELSE "instance"
<1>1. g = X!StartScope(f, name, fallback)
  BY DEF NewTop, StartArray, StartObject, X!StartArray, X!StartObject, NameOf, Tops
<1>2. XmlAt(f, labels, s) /\ s > 0
  BY NameIsGiven DEF Stands
<1>3. labels # <<>> /\ top = IF name = None THEN fallback ELSE name
  <2>1. labels # <<>>
    BY NameIsGiven, LabelsAre
  <2>2. top = IF name = None THEN fallback ELSE name
    BY NameIsGiven
  <2> QED
    BY <2>1, <2>2
<1>4. Elements(top) = Append(labels, top)
  BY LabelsAre, NameIsGiven
<1> HIDE DEF g, labels, name, fallback
<1>5. /\ XmlAt(g, Elements(top), s)
      /\ Read(g.text).values = Read(f.text).values
      /\ Read(g.text).outside = Read(f.text).outside
  BY <1>1, <1>2, <1>3, <1>4, XmlStartAt
<1>6. Stands(g, top, s, q)
  BY <1>2, <1>4, <1>5 DEF Stands
<1> QED
  BY <1>5, <1>6 DEF Keeps, g

\* and one of text, which is a prefix.
PlainlyGrows(text, t, values) == Plainly(Append(text, t)) /\ Read(Append(text, t)).values = values

\* A blank is not taken for a value,
LEMMA PlainlyBlank ==
  ASSUME NEW text, Plainly(text), NEW t, t.token = "blank"
  PROVE  PlainlyGrows(text, t, Read(text).values)
<1> DEFINE more == Append(text, t)
<1>1. Read(more) = Turn(Read(text), t) /\ IsSeq(more)
  BY ReadAppend, AppendIsSeq DEF Plainly
<1>2. Read(text).open = <<>>
  BY DEF Plainly
<1> HIDE DEF more
<1>3. Read(more).open = <<>> /\ Read(more).values = Read(text).values
  BY <1>1, <1>2, TurnIs
<1> QED
  BY <1>1, <1>3 DEF Plainly, PlainlyGrows, more

\* and a value for nothing else.
LEMMA PlainlyValue ==
  ASSUME NEW text, Plainly(text), NEW t, t.token = "value",
         NEW under, under = IF "prefix" \in DOMAIN t THEN t.prefix ELSE <<>>
  PROVE  PlainlyGrows(text, t, Append(Read(text).values, [name |-> t.name, under |-> under]))
<1> DEFINE more == Append(text, t)
<1>1. Read(more) = Turn(Read(text), t) /\ IsSeq(more)
  BY ReadAppend, AppendIsSeq DEF Plainly
<1>2. Read(text).open = <<>>
  BY DEF Plainly
<1>3. Under(Read(text), t) = under
  BY <1>2 DEF Under
<1> HIDE DEF more
<1>4. Read(more).open = <<>>
      /\ Read(more).values = Append(Read(text).values, [name |-> t.name, under |-> under])
  BY <1>1, <1>2, <1>3, TurnIs, TurnValue
<1> QED
  BY <1>1, <1>4 DEF Plainly, PlainlyGrows, more

\* In text an object pushes its prefix.
LEMMA TextTopStarts ==
  ASSUME request.format = "text", NEW f, NEW top \in Tops,
         top \notin {"nothing", "root", "packages", "package"},
         NEW s, NEW q, Stands(f, OuterOf(top), s, q)
  PROVE  LET g == NewTop(f, top) IN Stands(g, top, s, q) /\ Keeps(f, g)
<1> DEFINE g == NewTop(f, top)
           scopes == PrefixesOf(OuterOf(top))
           name == NameOf(top)
           text == f.text
           blank == T!BlankLine
<1>1. g = T!StartObject(f, name)
  BY DEF NewTop, StartObject, NameOf, Tops
<1>2. f = [scopes |-> scopes, first |-> f.first, text |-> text] /\ Plainly(text) /\ f.scopes = scopes
  BY DEF Stands
<1>3. T!Prefix(f) = <<>>
  <2>1. CASE top = "instance"
    <3>1. OuterOf(top) = "root" /\ PrefixesOf("root") = <<>>
      BY <2>1 DEF PrefixesOf, OuterOf, Nested
    <3> QED
      BY <1>2, <3>1 DEF T!Prefix
  <2>2. CASE top \in Nested
    <3>1. OuterOf(top) = "instance" /\ "instance" \in Tops /\ PrefixOf("instance") = <<>>
      BY <2>2 DEF OuterOf, Tops, PrefixOf, Nested
    <3>2. scopes # <<>> /\ Last(scopes) = <<>>
      BY <3>1, PrefixesAre
    <3> QED
      BY <1>2, <3>2 DEF T!Prefix, T!Last, Last
  <2> QED
    BY <2>1, <2>2 DEF Tops
<1>4. (IF name = None THEN T!Prefix(f) ELSE Append(T!Prefix(f), name)) = PrefixOf(top)
  <2>1. CASE top = "instance"
    BY <1>3, <2>1, NameIsGiven DEF PrefixOf, Nested
  <2>2. CASE top \in Nested
    <3>1. name = top /\ name # None /\ PrefixOf(top) = <<top>>
      BY <2>2, NameIsGiven DEF PrefixOf, Nested
    <3>2. Append(<<>>, top) = <<top>>
      OBVIOUS
    <3> QED
      BY <1>3, <3>1, <3>2
  <2> QED
    BY <2>1, <2>2 DEF Tops
<1>5. PrefixesOf(top) = Append(scopes, PrefixOf(top))
  BY PrefixesAre
<1>6. g.scopes = PrefixesOf(top) /\ g.first = FALSE
      /\ g.text = text \o (IF ~f.first /\ f.scopes = <<>> THEN <<blank>> ELSE <<>>)
      /\ g = [scopes |-> g.scopes, first |-> g.first, text |-> g.text]
  BY <1>1, <1>2, <1>4, <1>5 DEF T!StartObject
<1>7. blank.token = "blank"
  BY DEF T!BlankLine
<1>8. text \o <<>> = text /\ text \o <<blank>> = Append(text, blank)
  <2>1. PICK S : text \in Seq(S)
    BY <1>2 DEF Plainly, IsSeq
  <2> DEFINE V == S \cup {blank}
  <2>2. text \in Seq(V) /\ blank \in V
    BY <2>1
  <2> HIDE DEF V, blank, text
  <2> QED
    BY <2>2, ConcatAppend
<1> HIDE DEF g, blank, text, scopes, name
<1>9. Plainly(g.text) /\ Read(g.text).values = Read(text).values
  <2>1. CASE ~f.first /\ f.scopes = <<>>
    <3>1. g.text = Append(text, blank)
      BY <1>6, <1>8, <2>1
    <3>2. PlainlyGrows(text, blank, Read(text).values)
      BY <1>2, <1>7, PlainlyBlank
    <3> QED
      BY <3>1, <3>2 DEF PlainlyGrows
  <2>2. CASE ~(~f.first /\ f.scopes = <<>>)
    <3>1. g.text = text
      BY <1>6, <1>8, <2>2
    <3> QED
      BY <1>2, <3>1
  <2> QED
    BY <2>1, <2>2
<1>10. Stands(g, top, s, q)
  BY <1>6, <1>9 DEF Stands
<1> QED
  BY <1>9, <1>10 DEF Keeps, g, text

\* So each format has another scope on top.
LEMMA TopStarts ==
  ASSUME request.format \in Formatters, NEW f, NEW top \in Tops, top \notin {"nothing", "root"},
         top \in {"packages", "package"} => request.format \in {"json", "xml"},
         NEW s, NEW q, Stands(f, OuterOf(top), s, q),
         NEW hollow, Judges(hollow, f.text, s, q, Deep(OuterOf(top)))
  PROVE  LET g == NewTop(f, top)
         IN  Stands(g, top, s, q) /\ Keeps(f, g) /\ Judges(hollow, g.text, s, q, Deep(top))
<1>1. CASE request.format = "json"
  BY <1>1, JsonTopStarts
<1>2. CASE request.format = "xml"
  BY <1>2, XmlTopStarts DEF Judges
<1>3. CASE request.format = "text"
  BY <1>3, TextTopStarts DEF Judges
<1>4. CASE request.format = "value"
  <2>1. NewTop(f, top) = f
    BY <1>4 DEF NewTop, StartObject, Tops
  <2>2. top \notin {"packages", "package"}
    BY <1>4
  <2> QED
    BY <1>4, <2>1, <2>2 DEF Stands, Keeps, Judges
<1> QED
  BY <1>1, <1>2, <1>3, <1>4 DEF Formatters

\* A property is under what it is in, and starts all scopes.
HolderOf(top) ==
  CASE request.format = "json"  -> <<TypeOf(top)>>
    [] request.format = "xml"   -> <<ElementOf(top)>>
    [] request.format = "text"  -> PrefixOf(top)
    [] request.format = "value" -> <<>>
Adds(f, g, name, top) ==
  /\ Read(g.text).values = Append(Read(f.text).values, [name |-> name, under |-> HolderOf(top)])
  /\ request.format \in {"json", "xml"} => Read(g.text).outside = Read(f.text).outside

\* In JSON a property starts all scopes around it and is legal if all before was.
LEMMA JsonAdds ==
  ASSUME request.format = "json", NEW f, NEW top \in Tops, top # "nothing", NEW s, NEW q,
         Stands(f, top, s, q), NEW hollow, Judges(hollow, f.text, s, q, Deep(top)), NEW name
  PROVE  LET g == WriteProperty(f, name)
         IN  /\ Stands(g, top, Deep(top), Deep(top)) /\ Adds(f, g, name, top)
             /\ Judges(hollow, g.text, Deep(top), Deep(top), Deep(top))
<1> DEFINE g == WriteProperty(f, name)
           labels == Types(top)
           names == NamesOf(top)
           size == Deep(top)
<1>1. g = J!WriteProperty(f, name)
  BY DEF WriteProperty
<1>2. JsonAt(f, labels, names, s, q)
  BY DEF Stands
<1>3. labels # <<>> /\ Len(labels) = size /\ Last(labels) = TypeOf(top)
  BY LabelsAre, LabelsSize
<1> HIDE DEF g, labels, names, size
<1>4. /\ JsonAt(g, labels, names, size, size)
      /\ Read(g.text).values =
           Append(Read(f.text).values, [name |-> name, under |-> <<Last(labels)>>])
      /\ Read(g.text).outside = Read(f.text).outside
      /\ Sound(f.text, s, q, size) => Sound(g.text, size, size, size)
      /\ Broken(f.text, s, q, size) => Broken(g.text, size, size, size)
  BY <1>1, <1>2, <1>3, JsonPropertyAt
<1>5. Stands(g, top, size, size)
  BY <1>4 DEF Stands, labels, names
<1>6. Adds(f, g, name, top)
  BY <1>3, <1>4 DEF Adds, HolderOf
<1>7. Judges(hollow, g.text, size, size, size)
  BY <1>4 DEF Judges, size
<1> QED
  BY <1>5, <1>6, <1>7 DEF g, size

\* In XML it starts them as well.
LEMMA XmlAdds ==
  ASSUME request.format = "xml", NEW f, NEW top \in Tops, top # "nothing", NEW s, NEW q,
         Stands(f, top, s, q), NEW name
  PROVE  LET g == WriteProperty(f, name)
         IN  Stands(g, top, Deep(top), Deep(top)) /\ Adds(f, g, name, top)
<1> DEFINE g == WriteProperty(f, name)
           labels == Elements(top)
           size == Deep(top)
<1>1. g = X!WriteProperty(f, name)
  BY DEF WriteProperty
<1>2. XmlAt(f, labels, s) /\ s > 0
  BY DEF Stands
<1>3. Len(labels) = size /\ labels[size] = ElementOf(top) /\ size > 0
  <2>1. Len(labels) = size /\ Last(labels) = ElementOf(top) /\ size \in 0..4 /\ size # 0
    BY LabelsAre, LabelsSize
  <2> QED
    BY <2>1 DEF Last
<1> HIDE DEF g, labels, size
<1>4. /\ XmlAt(g, labels, size)
      /\ Read(g.text).values =
           Append(Read(f.text).values, [name |-> name, under |-> <<labels[size]>>])
      /\ Read(g.text).outside = Read(f.text).outside
  BY <1>1, <1>2, <1>3, XmlPropertyAt
<1>5. Stands(g, top, size, size)
  BY <1>3, <1>4 DEF Stands, labels
<1>6. Adds(f, g, name, top)
  BY <1>3, <1>4 DEF Adds, HolderOf
<1> QED
  BY <1>5, <1>6 DEF g, size

\* In text it is written with the prefix on top.
LEMMA TextAdds ==
  ASSUME request.format = "text", NEW f, NEW top \in Tops, top # "nothing", NEW s, NEW q,
         Stands(f, top, s, q), NEW c, NEW name
  PROVE  LET g == WriteProperty(f, name) IN Stands(g, top, c, c) /\ Adds(f, g, name, top)
<1> DEFINE g == WriteProperty(f, name)
           scopes == PrefixesOf(top)
           text == f.text
           prefix == PrefixOf(top)
           t == T!Text(prefix, name)
           first == f.first
<1>1. g = [f EXCEPT !.text = Append(@, T!Text(T!Prefix(f), name))]
  BY DEF WriteProperty, T!WriteProperty
<1>2. f = [scopes |-> scopes, first |-> first, text |-> text] /\ Plainly(text)
      /\ f.scopes = scopes /\ top \notin {"packages", "package"}
  BY DEF Stands
<1>3. T!Prefix(f) = prefix
  <2>1. CASE top = "root"
    <3>1. PrefixesOf("root") = <<>> /\ PrefixOf("root") = <<>>
      BY DEF PrefixesOf, PrefixOf, Nested
    <3> QED
      BY <1>2, <2>1, <3>1 DEF T!Prefix
  <2>2. CASE top # "root"
    <3>1. scopes # <<>> /\ Last(scopes) = prefix
      BY <1>2, <2>2, PrefixesAre
    <3> QED
      BY <1>2, <3>1 DEF T!Prefix, T!Last, Last
  <2> QED
    BY <2>1, <2>2
<1>4. t.token = "value" /\ t.name = name /\ prefix = IF "prefix" \in DOMAIN t THEN t.prefix ELSE <<>>
  BY DEF T!Text
<1> HIDE DEF g, scopes, text, prefix, t, first
<1>5. g = [scopes |-> scopes, first |-> first, text |-> Append(text, t)]
  BY <1>1, <1>2, <1>3 DEF t
<1>6. PlainlyGrows(text, t, Append(Read(text).values, [name |-> name, under |-> prefix]))
  BY <1>2, <1>4, PlainlyValue
<1>7. g.first = first /\ g.text = Append(text, t)
  BY <1>5
<1>8. Stands(g, top, c, c)
  <2>1. g = [scopes |-> PrefixesOf(top), first |-> g.first, text |-> g.text] /\ Plainly(g.text)
    BY <1>5, <1>6, <1>7 DEF PlainlyGrows, scopes
  <2> QED
    BY <1>2, <2>1 DEF Stands
<1>9. Adds(f, g, name, top)
  BY <1>6, <1>7 DEF Adds, HolderOf, PlainlyGrows, prefix, text
<1> QED
  BY <1>8, <1>9 DEF g

\* A list of values has nothing else.
LEMMA ValueAdds ==
  ASSUME request.format = "value", NEW f, NEW top \in Tops, top # "nothing", NEW s, NEW q,
         Stands(f, top, s, q), NEW c, NEW name
  PROVE  LET g == WriteProperty(f, name) IN Stands(g, top, c, c) /\ Adds(f, g, name, top)
<1> DEFINE g == WriteProperty(f, name)
           text == f.text
           t == [token |-> "value", name |-> name]
           under == <<>>
<1>1. g = [f EXCEPT !.text = Append(@, t)]
  BY DEF WriteProperty
<1>2. f = [text |-> text] /\ Plainly(text) /\ top \notin {"packages", "package"}
  BY DEF Stands
<1>4. t.token = "value" /\ t.name = name /\ under = IF "prefix" \in DOMAIN t THEN t.prefix ELSE <<>>
  BY SMT
<1> HIDE DEF g, text, t, under
<1>5. g = [text |-> Append(text, t)]
  BY <1>1, <1>2
<1>6. PlainlyGrows(text, t, Append(Read(text).values, [name |-> name, under |-> under]))
  BY <1>2, <1>4, PlainlyValue
<1>7. g.text = Append(text, t)
  BY <1>5
<1>8. Stands(g, top, c, c)
  BY <1>2, <1>5, <1>6, <1>7 DEF Stands, PlainlyGrows
<1>9. Adds(f, g, name, top)
  BY <1>6, <1>7 DEF Adds, HolderOf, PlainlyGrows, under, text
<1> QED
  BY <1>8, <1>9 DEF g

\* So a property adds its value in every format.
LEMMA PropertyAdds ==
  ASSUME request.format \in Formatters, NEW f, NEW top \in Tops, top # "nothing", NEW s, NEW q,
         Stands(f, top, s, q), NEW hollow, Judges(hollow, f.text, s, q, Deep(top)), NEW name
  PROVE  LET g == WriteProperty(f, name)
         IN  /\ Stands(g, top, Deep(top), Deep(top)) /\ Adds(f, g, name, top)
             /\ Judges(hollow, g.text, Deep(top), Deep(top), Deep(top))
<1>1. CASE request.format = "json"
  BY <1>1, JsonAdds
<1>2. CASE request.format = "xml"
  BY <1>2, XmlAdds DEF Judges
<1>3. CASE request.format = "text"
  BY <1>3, TextAdds DEF Judges
<1>4. CASE request.format = "value"
  BY <1>4, ValueAdds DEF Judges
<1> QED
  BY <1>1, <1>2, <1>3, <1>4 DEF Formatters

\* A scope that ends, and leaves a separator behind if it never started after something.
JsonEndIs(f, g, labels, names, s, q, size, t, r) ==
  /\ JsonAt(g, Front(labels), Front(names), t, r)
  /\ Read(g.text).values = Read(f.text).values
  /\ Read(g.text).outside = Read(f.text).outside
  /\ Sound(f.text, s, q, size) /\ ~(q > 0 /\ s = size - 1) => Sound(g.text, t, r, size - 1)
  /\ Sound(f.text, s, q, size) /\ q > 0 /\ s = size - 1 => Broken(g.text, t, r, size - 1)
  /\ Broken(f.text, s, q, size) => Broken(g.text, t, r, size - 1)

\* The end of a scope of JSON, named.
LEMMA JsonEndAtIs ==
  ASSUME NEW f, NEW labels, NEW names, NEW s, NEW q, JsonAt(f, labels, names, s, q),
         labels # <<>>
  PROVE  JsonEndIs(f, J!EndScope(f), labels, names, s, q, Len(labels),
                   AtMost(s, Len(labels) - 1), AtMost(q, Len(labels) - 1))
  BY JsonEndAt DEF JsonEndIs

Ends(f, g, top, s, q, hollow) ==
  LET size == Deep(top) - 1
      now  == hollow \/ (q > 0 /\ s = size)
  IN  /\ Stands(g, OuterOf(top), AtMost(s, size), AtMost(q, size)) /\ Keeps(f, g)
      /\ Judges(now, g.text, AtMost(s, size), AtMost(q, size), size)

\* In JSON ending a scope that was never started may leave a separator behind.
LEMMA JsonTopEnds ==
  ASSUME request.format = "json", NEW f, NEW top \in Tops, top # "nothing", NEW s, NEW q,
         Stands(f, top, s, q), NEW hollow, Judges(hollow, f.text, s, q, Deep(top))
  PROVE  Ends(f, EndTop(f, top), top, s, q, hollow)
<1> DEFINE g == EndTop(f, top)
           labels == Types(top)
           names == NamesOf(top)
           size == Len(labels)
           t == AtMost(s, size - 1)
           r == AtMost(q, size - 1)
<1>1. g = J!EndScope(f)
  BY DEF EndTop, EndArray, EndObject
<1>2. JsonAt(f, labels, names, s, q)
  BY DEF Stands
<1>3. labels # <<>> /\ size = Deep(top) /\ Front(labels) = Types(OuterOf(top))
      /\ Front(names) = NamesOf(OuterOf(top))
  BY LabelsAre, LabelsSize
<1>4. JsonEndIs(f, J!EndScope(f), labels, names, s, q, size, t, r)
  BY <1>2, <1>3, JsonEndAtIs
<1> HIDE DEF g, labels, names, size, t, r
<1>5. JsonEndIs(f, g, labels, names, s, q, size, t, r)
  BY <1>1, <1>4
<1>6. Stands(g, OuterOf(top), t, r)
  BY <1>3, <1>5 DEF Stands, JsonEndIs
<1>7. Keeps(f, g)
  BY <1>5 DEF Keeps, JsonEndIs
<1>8. Judges(hollow \/ (q > 0 /\ s = size - 1), g.text, t, r, size - 1)
  BY <1>3, <1>5 DEF Judges, JsonEndIs
<1> QED
  BY <1>3, <1>6, <1>7, <1>8 DEF Ends, t, r, g

\* In XML it leaves nothing behind.
LEMMA XmlTopEnds ==
  ASSUME request.format = "xml", NEW f, NEW top \in Tops, top # "nothing", NEW s, NEW q,
         Stands(f, top, s, q), NEW hollow
  PROVE  Ends(f, EndTop(f, top), top, s, q, hollow)
<1> DEFINE g == EndTop(f, top)
           labels == Elements(top)
           rest == Elements(OuterOf(top))
           size == Len(labels)
           c == AtMost(s, size - 1)
           r == AtMost(q, size - 1)
<1>1. g = X!EndScope(f)
  BY DEF EndTop, EndArray, EndObject
<1>2. XmlAt(f, labels, s) /\ s > 0
  BY DEF Stands
<1>3. /\ rest = Front(labels) /\ size = Deep(top) /\ size \in 1..4
      /\ Deep(top) = Deep(OuterOf(top)) + 1 /\ OuterOf(top) \in Tops
      /\ (OuterOf(top) = "nothing" <=> size = 1)
  <2>1. /\ rest = Front(labels) /\ size = Deep(top) /\ size \in 0..4
        /\ Deep(top) = Deep(OuterOf(top)) + 1 /\ OuterOf(top) \in Tops /\ Deep(top) # 0
    BY LabelsAre, LabelsSize
  <2>2. OuterOf(top) = "nothing" <=> Deep(OuterOf(top)) = 0
    BY <2>1, LabelsSize
  <2> HIDE DEF rest, labels, size
  <2>3. Deep(OuterOf(top)) \in 0..4
    BY <2>1, LabelsSize
  <2> QED
    BY <2>1, <2>2, <2>3
<1>4. s \in 0..size
  BY <1>2 DEF XmlAt, Tracks
<1> HIDE DEF g, labels, rest, size
<1>5. c = (IF s = size THEN s - 1 ELSE s) /\ (size > 1 => c > 0)
  BY <1>2, <1>3, <1>4 DEF AtMost
<1> HIDE DEF c, r
<1>6. /\ XmlAt(g, rest, c)
      /\ Read(g.text).values = Read(f.text).values
      /\ Read(g.text).outside = Read(f.text).outside
  <2>1. Len(labels) > 0 /\ size = Len(labels)
    BY <1>3 DEF size
  <2> QED
    BY <1>1, <1>2, <1>3, <1>5, <2>1, XmlEndAt
<1>7. Stands(g, OuterOf(top), c, r)
  BY <1>3, <1>5, <1>6 DEF Stands, rest
<1>8. Keeps(f, g)
  BY <1>6 DEF Keeps
<1> QED
  BY <1>3, <1>7, <1>8 DEF Ends, Judges, c, r, g

\* In text ending an object pops its prefix.
LEMMA TextTopEnds ==
  ASSUME request.format = "text", NEW f, NEW top \in Tops, top # "nothing", NEW s, NEW q,
         Stands(f, top, s, q), NEW hollow
  PROVE  Ends(f, EndTop(f, top), top, s, q, hollow)
<1> DEFINE g == EndTop(f, top)
           scopes == PrefixesOf(top)
           outer == PrefixesOf(OuterOf(top))
           text == f.text
           first == f.first
<1>1. f = [scopes |-> scopes, first |-> first, text |-> text] /\ Plainly(text)
      /\ top \notin {"packages", "package"}
  BY DEF Stands
<1>2. g = [scopes |-> outer, first |-> first, text |-> text]
  <2>1. CASE top = "root"
    <3>1. g = f
      BY <2>1 DEF EndTop, EndArray
    <3>2. OuterOf("root") = "nothing" /\ PrefixesOf("root") = PrefixesOf("nothing")
      BY DEF OuterOf, PrefixesOf, Nested
    <3> QED
      BY <1>1, <2>1, <3>1, <3>2
  <2>2. CASE top # "root"
    <3>1. g = [f EXCEPT !.scopes = T!Front(@)]
      BY <1>1, <2>2 DEF EndTop, EndObject, T!EndObject
    <3>2. T!Front(scopes) = outer
      BY <1>1, <2>2, PrefixesAre DEF T!Front, Front
    <3> HIDE DEF g, scopes, outer, text, first
    <3> QED
      BY <1>1, <3>1, <3>2
  <2> QED
    BY <2>1, <2>2
<1>3. OuterOf(top) \notin {"packages", "package"}
  BY <1>1 DEF OuterOf
<1> HIDE DEF g, text, first, scopes, outer
<1>4. g.text = text /\ g.first = first
  BY <1>2
<1>5. Stands(g, OuterOf(top), AtMost(s, Deep(top) - 1), AtMost(q, Deep(top) - 1))
  BY <1>1, <1>2, <1>3, <1>4 DEF Stands, outer
<1>6. Keeps(f, g)
  BY <1>4 DEF Keeps, text
<1> QED
  BY <1>5, <1>6 DEF Ends, Judges, g

\* So a scope ends in every format.
LEMMA TopEnds ==
  ASSUME request.format \in Formatters, NEW f, NEW top \in Tops, top # "nothing", NEW s, NEW q,
         Stands(f, top, s, q), NEW hollow, Judges(hollow, f.text, s, q, Deep(top))
  PROVE  Ends(f, EndTop(f, top), top, s, q, hollow)
<1>1. CASE request.format = "json"
  BY <1>1, JsonTopEnds
<1>2. CASE request.format = "xml"
  BY <1>2, XmlTopEnds
<1>3. CASE request.format = "text"
  BY <1>3, TextTopEnds
<1>4. CASE request.format = "value"
  <2>1. EndTop(f, top) = f
    BY <1>4 DEF EndTop, EndArray, EndObject
  <2>2. top \notin {"packages", "package"} /\ OuterOf(top) \notin {"packages", "package"}
    BY <1>4 DEF Stands, OuterOf
  <2> QED
    BY <1>4, <2>1, <2>2 DEF Ends, Stands, Keeps, Judges
<1> QED
  BY <1>1, <1>2, <1>3, <1>4 DEF Formatters

\* The root starts at once.
RootStarted(f, g) ==
  /\ Stands(g, "root", 1, 0)
  /\ Read(g.text).values = Read(f.text).values
  /\ request.format = "json" => Read(g.text).outside = Append(Read(f.text).outside, "open")
  /\ request.format = "xml" =>
       Read(g.text).outside = Append(Append(Read(f.text).outside, "declaration"), "open")
  /\ Judges(FALSE, g.text, 1, 0, 1)

\* The labels of no scope and of the root.
LEMMA RootLabels ==
  /\ Types("nothing") = <<>> /\ NamesOf("nothing") = <<>> /\ Elements("nothing") = <<>>
  /\ Types("root") = <<"array">> /\ NamesOf("root") = <<RootName>>
  /\ Elements("root") = Append(<<>>, RootElement)
  /\ PrefixesOf("nothing") = <<>> /\ PrefixesOf("root") = <<>>
  /\ RootElement = IF RootName = None THEN "instances" ELSE RootName
<1>1. /\ Types("root") = Append(<<>>, "array") /\ NamesOf("root") = Append(<<>>, RootName)
      /\ Elements("root") = Append(<<>>, RootElement)
  BY DEF Types, NamesOf, Elements, Chain
<1>2. \A t : Append(<<>>, t) = <<t>>
  OBVIOUS
<1>3. "nothing" \in Tops
  BY DEF Tops
<1>4. Types("nothing") = <<>> /\ NamesOf("nothing") = <<>> /\ Elements("nothing") = <<>>
  BY <1>3, LabelsSize
<1>5. PrefixesOf("nothing") = <<>> /\ PrefixesOf("root") = <<>>
  BY DEF PrefixesOf, Nested
<1>6. RootElement = IF RootName = None THEN "instances" ELSE RootName
  BY NamesAssumption DEF RootElement, RootName
<1> QED
  BY <1>1, <1>2, <1>4, <1>5, <1>6

JsonRootIs(f, g, type, name) ==
  /\ JsonAt(g, <<type>>, <<name>>, 1, 0)
  /\ Read(g.text).values = Read(f.text).values
  /\ Read(g.text).outside = Append(Read(f.text).outside, "open")
  /\ Read(f.text).legal => Sound(g.text, 1, 0, 1)

\* The root of JSON, named.
LEMMA JsonRootAtIs ==
  ASSUME NEW f, JsonAt(f, <<>>, <<>>, 0, 0), NEW type, NEW name
  PROVE  JsonRootIs(f, J!StartScope(f, type, name), type, name)
  BY JsonRootAt DEF JsonRootIs

\* So the root starts in every format.
LEMMA RootStarts ==
  ASSUME request.format \in Formatters, NEW f, Stands(f, "nothing", 0, 0),
         Judges(FALSE, f.text, 0, 0, 0)
  PROVE  RootStarted(f, StartArray(StartDocument(f), RootName))
<1> DEFINE h == StartDocument(f)
           g == StartArray(h, RootName)
<1>1. CASE request.format = "json"
  <2>1. g = J!StartScope(f, "array", RootName)
    BY <1>1 DEF StartArray, StartDocument, J!StartArray
  <2>2. JsonAt(f, <<>>, <<>>, 0, 0)
    BY <1>1, RootLabels DEF Stands
  <2>3. JsonRootIs(f, J!StartScope(f, "array", RootName), "array", RootName)
    BY <2>2, JsonRootAtIs
  <2> HIDE DEF g
  <2>4. JsonRootIs(f, g, "array", RootName)
    BY <2>1, <2>3
  <2>5. Read(f.text).legal
    BY <1>1 DEF Judges, Sound
  <2>6. JsonAt(g, Types("root"), NamesOf("root"), 1, 0)
    BY <2>4, RootLabels DEF JsonRootIs
  <2>7. Stands(g, "root", 1, 0)
    BY <1>1, <2>6 DEF Stands
  <2>8. Judges(FALSE, g.text, 1, 0, 1)
    BY <2>4, <2>5 DEF JsonRootIs, Judges
  <2>9. RootStarted(f, g)
    BY <1>1, <2>4, <2>7, <2>8 DEF RootStarted, JsonRootIs
  <2> QED
    BY <2>9 DEF g
<1>2. CASE request.format = "xml"
  <2>1. g = X!StartScope(h, RootName, "instances") /\ h = X!StartDocument(f)
    BY <1>2 DEF StartArray, StartDocument, X!StartArray
  <2>2. XmlAt(f, <<>>, 0)
    BY <1>2, RootLabels DEF Stands
  <2> HIDE DEF g, h
  <2>3. /\ XmlAt(h, <<>>, 0) /\ Read(h.text).values = Read(f.text).values
        /\ Read(h.text).outside = Append(Read(f.text).outside, "declaration")
    BY <2>1, <2>2, XmlDocumentAt
  <2> DEFINE l == RootElement
             name == RootName
             none == <<>>
  <2>4. Elements("root") = Append(none, l) /\ l = IF name = None THEN "instances" ELSE name
    BY RootLabels
  <2>10. XmlAt(h, none, 0) /\ g = X!StartScope(h, name, "instances")
    BY <2>1, <2>3
  <2> HIDE DEF l, name, none
  <2>5. /\ XmlAt(g, Elements("root"), 1) /\ Read(g.text).values = Read(h.text).values
        /\ Read(g.text).outside = Append(Read(h.text).outside, "open")
    <3>1. /\ Read(g.text).values = Read(h.text).values
          /\ none = <<>> =>
               /\ XmlAt(g, Elements("root"), 1)
               /\ Read(g.text).outside = Append(Read(h.text).outside, "open")
      BY <2>4, <2>10, XmlStartAt
    <3> QED
      BY <3>1 DEF none
  <2>6. Stands(g, "root", 1, 0)
    BY <1>2, <2>5 DEF Stands
  <2>7. RootStarted(f, g)
    BY <1>2, <2>3, <2>5, <2>6 DEF RootStarted, Judges
  <2> QED
    BY <2>7 DEF g, h
<1>3. CASE request.format = "text"
  <2> DEFINE text == f.text
  <2>1. g = [f EXCEPT !.first = TRUE]
    BY <1>3 DEF StartArray, StartDocument, T!StartArray
  <2>2. f = [scopes |-> <<>>, first |-> f.first, text |-> text] /\ Plainly(text)
    BY <1>3, RootLabels DEF Stands
  <2> DEFINE yes == TRUE
             first == f.first
  <2>7. f = [scopes |-> <<>>, first |-> first, text |-> text] /\ g = [f EXCEPT !.first = yes]
    BY <2>1, <2>2
  <2> HIDE DEF g, h, text, yes, first
  <2>8. g = [scopes |-> <<>>, first |-> yes, text |-> text]
    BY ONLY <2>7
  <2>3. g = [scopes |-> <<>>, first |-> TRUE, text |-> text]
    BY <2>8 DEF yes
  <2>4. g.first = TRUE /\ g.text = text /\ g = [scopes |-> <<>>, first |-> g.first, text |-> g.text]
    BY <2>3
  <2>5. Stands(g, "root", 1, 0)
    BY <1>3, <2>2, <2>4, RootLabels DEF Stands
  <2>6. RootStarted(f, g)
    BY <1>3, <2>4, <2>5 DEF RootStarted, Judges, text
  <2> QED
    BY <2>6 DEF g, h
<1>4. CASE request.format = "value"
  <2>1. g = f
    BY <1>4 DEF StartArray, StartDocument
  <2> HIDE DEF g
  <2>2. RootStarted(f, g)
    BY <1>4, <2>1 DEF RootStarted, Stands, Judges
  <2> QED
    BY <2>2 DEF g, h
<1> QED
  BY <1>1, <1>2, <1>3, <1>4 DEF Formatters

\* At first nothing is on top.
LEMMA CreatedAt ==
  ASSUME request.format \in Formatters
  PROVE  LET f == Create(request.format)
         IN  /\ Stands(f, "nothing", 0, 0) /\ Judges(FALSE, f.text, 0, 0, 0)
             /\ Read(f.text).values = <<>> /\ Read(f.text).outside = <<>>
<1> DEFINE f == Create(request.format)
<1>1. /\ request.format \in {"json", "xml"} => f = [scopes |-> <<>>, text |-> <<>>]
      /\ request.format = "text" => f = [scopes |-> <<>>, first |-> FALSE, text |-> <<>>]
      /\ request.format = "value" => f = [text |-> <<>>]
  BY DEF Create, J!New, X!New, T!New
<1> HIDE DEF f
<1>2. f.text = <<>> /\ (request.format = "text" => f.first = FALSE)
  BY <1>1 DEF Formatters
<1>3. Read(<<>>) = NewReader
  BY ReadEmpty
<1>4. IsSeq(<<>>) /\ Len(<<>>) = 0
  <2>1. <<>> \in Seq({}) /\ Len(<<>>) = 0
    OBVIOUS
  <2> QED
    BY <2>1 DEF IsSeq
<1>5. Tracks(<<>>, <<>>, 0)
  <2>1. Initial(<<>>, 0) = <<>>
    BY DEF Initial
  <2> QED
    BY <1>3, <1>4, <2>1 DEF Tracks, NewReader
<1>6. XmlScopes(<<>>, 0) = <<>> /\ JsonScopes(<<>>, <<>>, 0, 0) = <<>>
  BY <1>4 DEF XmlScopes, JsonScopes
<1>7. CASE request.format = "json"
  <2>1. f = [scopes |-> JsonScopes(<<>>, <<>>, 0, 0), text |-> <<>>]
    BY <1>1, <1>6, <1>7
  <2>2. JsonLike(f, <<>>, <<>>, 0, 0)
    BY <1>2, <1>4, <1>5, <2>1 DEF JsonLike
  <2>3. JsonAt(f, <<>>, <<>>, 0, 0)
    BY <2>2 DEF JsonAt
  <2>4. Stands(f, "nothing", 0, 0)
    BY <1>7, <2>3, RootLabels DEF Stands
  <2>5. Judges(FALSE, f.text, 0, 0, 0)
    BY <1>2, <1>3 DEF Judges, Sound, NewReader
  <2>6. Read(f.text).values = <<>> /\ Read(f.text).outside = <<>>
    BY <1>2, <1>3 DEF NewReader
  <2> QED
    BY <2>4, <2>5, <2>6 DEF f
<1>8. CASE request.format = "xml"
  <2>1. f = [scopes |-> XmlScopes(<<>>, 0), text |-> f.text]
    BY <1>1, <1>2, <1>6, <1>8
  <2>2. XmlAt(f, <<>>, 0)
    BY <1>2, <1>5, <2>1 DEF XmlAt
  <2>3. Stands(f, "nothing", 0, 0)
    BY <1>8, <2>2, RootLabels DEF Stands
  <2> QED
    BY <1>2, <1>3, <1>8, <2>3 DEF NewReader, Judges, f
<1>9. CASE request.format \in {"text", "value"}
  <2>1. Plainly(<<>>)
    BY <1>3, <1>4 DEF Plainly, NewReader
  <2>2. CASE request.format = "text"
    <3>1. f = [scopes |-> <<>>, first |-> f.first, text |-> f.text]
      BY <1>1, <1>2, <2>2
    <3> QED
      BY <1>2, <1>3, <2>1, <2>2, <3>1, RootLabels DEF Stands, Judges, NewReader, f
  <2>3. CASE request.format = "value"
    <3>1. f = [text |-> f.text]
      BY <1>1, <1>2, <2>3
    <3> QED
      BY <1>2, <1>3, <2>1, <2>3, <3>1 DEF Stands, Judges, NewReader, f
  <2> QED
    BY <1>9, <2>2, <2>3
<1> QED
  BY <1>7, <1>8, <1>9 DEF Formatters

-----------------------------------------------------------------------------
(* The document, step by step                                               *)

\* The scope on top at each control point.
Here ==
  CASE pc \in {"start", "done"} -> "nothing"
    [] pc \in {"next", "files"} -> "root"
    [] pc \in {"store", "leave"} -> IF place = "own" THEN "instance" ELSE place
    [] pc = "package" -> "packages"
    [] pc = "inside" -> "package"
    [] OTHER -> "instance"

\* What a step does to the formatter: nothing, or it calls one method or two.
Rests  == formatter' = formatter /\ shown' = shown /\ (pc' # "thrown" => Here' = Here)
Roots  == /\ pc = "start" /\ Here' = "root" /\ shown' = shown /\ pc' # "thrown"
          /\ formatter' = StartArray(StartDocument(formatter), RootName)
Opens  == /\ Here' \in Tops \ {"nothing", "root"} /\ Here = OuterOf(Here')
          /\ Here' \in {"packages", "package"} => request.format \in {"json", "xml"}
          /\ formatter' = NewTop(formatter, Here') /\ shown' = shown /\ pc' # "thrown"
Puts   == /\ Here \in Tops \ {"nothing"} /\ Here' = Here /\ pc' # "thrown"
          /\ \E where, name : WriteShown(where, name) /\ PlaceIn(where) = HolderOf(Here)
Closes == /\ Here \in Tops \ {"nothing"} /\ Here' = OuterOf(Here) /\ pc' # "thrown"
          /\ formatter' = EndTop(formatter, Here) /\ shown' = shown
Moves  == Rests \/ Roots \/ Opens \/ Puts \/ Closes

\* The places of properties, and the scopes they are in.
LEMMA HolderIs ==
  ASSUME request.format \in Formatters
  PROVE  /\ request.find => PlaceIn("files") = HolderOf("root")
         /\ PlaceIn("builtin") = HolderOf("instance")
         /\ PlaceIn("own") = HolderOf("instance")
         /\ PlaceIn("packages") = HolderOf("package") \/ request.format \notin {"json", "xml"}
         /\ \A where \in Nested : PlaceIn(where) = HolderOf(where)
<1>1. CASE request.format = "json"
  BY <1>1 DEF PlaceIn, HolderOf, TypeOf, Nested
<1>2. CASE request.format = "xml"
  BY <1>2 DEF PlaceIn, HolderOf, ElementOf, RootElement, Nested
<1>3. CASE request.format = "text"
  BY <1>3 DEF PlaceIn, HolderOf, PrefixOf, Nested
<1>4. CASE request.format = "value"
  BY <1>4 DEF PlaceIn, HolderOf, Nested
<1> QED
  BY <1>1, <1>2, <1>3, <1>4 DEF Formatters

\* The steps of the loop over instances, and those over files.
LEMMA OuterMoves ==
  ASSUME ShowsInv, request.format \in Formatters, pc # "thrown"
  PROVE  /\ Start => Roots
         /\ StartFiles \/ EndFiles \/ Done \/ UNCHANGED vars => Rests
         /\ WriteFile => Puts
         /\ StartInstance => Opens
         /\ End \/ EndInstance => Closes
<1>1. ASSUME Start PROVE Roots
  BY <1>1 DEF Start, Roots, Here, RootName
<1>2. ASSUME StartFiles PROVE Rests
  BY <1>2 DEF StartFiles, Throw, Rests, Here
<1>3. ASSUME WriteFile PROVE Puts
  <2>1. Here = "root" /\ Here' = "root" /\ pc' # "thrown" /\ "root" \in Tops \ {"nothing"}
    BY <1>3 DEF WriteFile, Here, Tops
  <2>2. \E name : WriteShown("files", name)
    BY <1>3 DEF WriteFile
  <2>3. PlaceIn("files") = HolderOf("root")
    BY <1>3, HolderIs DEF WriteFile, ShowsInv, Progress
  <2> QED
    BY <2>1, <2>2, <2>3 DEF Puts
<1>4. ASSUME EndFiles PROVE Rests
  BY <1>4 DEF EndFiles, Rests, Here
<1>5. ASSUME StartInstance PROVE Opens
  <2>1. Here' = "instance" /\ Here = "root" /\ pc' # "thrown" /\ shown' = shown
        /\ formatter' = StartObject(formatter, None)
    BY <1>5 DEF StartInstance, Here
  <2>2. OuterOf("instance") = "root" /\ "instance" \in Tops \ {"nothing", "root"}
        /\ NewTop(formatter, "instance") = StartObject(formatter, None)
    BY DEF OuterOf, Tops, NewTop
  <2> QED
    BY <2>1, <2>2 DEF Opens
<1>6. ASSUME End PROVE Closes
  <2>1. Here = "root" /\ Here' = "nothing" /\ pc' # "thrown" /\ shown' = shown
        /\ formatter' = EndArray(formatter)
    BY <1>6 DEF End, Here
  <2>2. OuterOf("root") = "nothing" /\ "root" \in Tops \ {"nothing"}
        /\ EndTop(formatter, "root") = EndArray(formatter)
    BY DEF OuterOf, Tops, EndTop
  <2> QED
    BY <2>1, <2>2 DEF Closes
<1>7. ASSUME EndInstance PROVE Closes
  <2>1. Here = "instance" /\ Here' = "root" /\ pc' # "thrown" /\ shown' = shown
        /\ formatter' = EndObject(formatter)
    BY <1>7 DEF EndInstance, Here
  <2>2. OuterOf("instance") = "root" /\ "instance" \in Tops \ {"nothing"}
        /\ EndTop(formatter, "instance") = EndObject(formatter)
    BY DEF OuterOf, Tops, EndTop
  <2> QED
    BY <2>1, <2>2 DEF Closes
<1>8. ASSUME Done \/ UNCHANGED vars PROVE Rests
  BY <1>8 DEF Done, vars, Rests, Here
<1> QED
  BY <1>1, <1>2, <1>3, <1>4, <1>5, <1>6, <1>7, <1>8

\* The steps that write what every instance has, and its stores.
LEMMA StoreMoves ==
  ASSUME ShowsInv, request.format \in Formatters, pc # "thrown"
  PROVE  /\ EndBuiltin \/ SkipStore \/ FailStore \/ EndNames => Rests
         /\ WriteBuiltin \/ WriteName => Rests \/ Puts
         /\ EnterStore => IF place = "own" THEN Rests ELSE Opens
         /\ LeaveStore => IF place = "own" THEN Rests ELSE Closes
<1>1. place \in Places
  BY DEF ShowsInv, Typed, TypeOK
<1>2. Leave => pc' \in {"packages", "enter"}
  BY DEF Leave
<1>3. ASSUME Throw PROVE Rests
  BY <1>3 DEF Throw, Rests
<1>4. ASSUME WriteBuiltin /\ ~Throw PROVE Rests \/ Puts
  <2>1. Here = "instance" /\ Here' = "instance" /\ pc' # "thrown"
        /\ "instance" \in Tops \ {"nothing"}
    BY <1>4 DEF WriteBuiltin, Here, Tops
  <2>2. (\E name : WriteShown("builtin", name)) \/ UNCHANGED <<formatter, shown>>
    BY <1>4 DEF WriteBuiltin, WriteIfReadable
  <2>3. PlaceIn("builtin") = HolderOf("instance")
    BY HolderIs
  <2> QED
    BY <2>1, <2>2, <2>3 DEF Puts, Rests
<1>5. ASSUME EndBuiltin \/ SkipStore PROVE Rests
  <2>1. Here = "instance" /\ UNCHANGED <<formatter, shown>>
    BY <1>5 DEF EndBuiltin, SkipStore, Here
  <2>2. pc' \in {"end", "enter", "packages"}
    BY <1>2, <1>5 DEF EndBuiltin, SkipStore
  <2>3. Here' = "instance"
    BY <2>2 DEF Here
  <2> QED
    BY <2>1, <2>3 DEF Rests
<1>6. ASSUME FailStore PROVE Rests
  BY <1>3, <1>6 DEF FailStore
<1>7. ASSUME EnterStore PROVE IF place = "own" THEN Rests ELSE Opens
  <2>1. Here = "instance" /\ Here' = (IF place = "own" THEN "instance" ELSE place)
        /\ pc' # "thrown" /\ shown' = shown
        /\ formatter' = IF place = "own" THEN formatter ELSE StartObject(formatter, place)
    BY <1>7 DEF EnterStore, Here
  <2>2. CASE place = "own"
    BY <2>1, <2>2 DEF Rests
  <2>3. CASE place # "own"
    <3>1. place \in Nested
      BY <1>1, <2>3 DEF Places, Nested
    <3>2. OuterOf(place) = "instance" /\ place \in Tops \ {"nothing", "root"}
          /\ place \notin {"packages", "package"}
          /\ NewTop(formatter, place) = StartObject(formatter, place)
      BY <3>1 DEF OuterOf, Tops, NewTop, Nested
    <3> QED
      BY <2>1, <2>3, <3>2 DEF Opens
  <2> QED
    BY <2>2, <2>3
<1>8. ASSUME WriteName PROVE Rests \/ Puts
  <2>1. Here = (IF place = "own" THEN "instance" ELSE place) /\ Here' = Here /\ pc' # "thrown"
    BY <1>8 DEF WriteName, Here
  <2>2. (\E name : WriteShown(place, name)) \/ UNCHANGED <<formatter, shown>>
    BY <1>8 DEF WriteName, WriteIfReadable
  <2>3. PlaceIn(place) = HolderOf(Here) /\ Here \in Tops \ {"nothing"}
    <3>1. CASE place = "own"
      BY <2>1, <3>1, HolderIs DEF Tops
    <3>2. CASE place \in Nested
      BY <2>1, <3>2, HolderIs DEF Tops, Nested
    <3> QED
      BY <1>1, <3>1, <3>2 DEF Places, Nested
  <2> QED
    BY <2>1, <2>2, <2>3 DEF Puts, Rests
<1>9. ASSUME EndNames PROVE Rests
  BY <1>9 DEF EndNames, Rests, Here
<1>10. ASSUME LeaveStore PROVE IF place = "own" THEN Rests ELSE Closes
  <2>1. Here = (IF place = "own" THEN "instance" ELSE place)
        /\ formatter' = (IF place = "own" THEN formatter ELSE EndObject(formatter))
        /\ shown' = shown
    BY <1>10 DEF LeaveStore, Here
  <2>2. pc' \in {"packages", "enter"}
    BY <1>2, <1>10 DEF LeaveStore
  <2>3. Here' = "instance" /\ pc' # "thrown"
    BY <2>2 DEF Here
  <2>4. CASE place = "own"
    BY <2>1, <2>3, <2>4 DEF Rests
  <2>5. CASE place # "own"
    <3>1. place \in Nested
      BY <1>1, <2>5 DEF Places, Nested
    <3>2. OuterOf(place) = "instance" /\ place \in Tops \ {"nothing"}
          /\ EndTop(formatter, place) = EndObject(formatter)
      BY <3>1 DEF OuterOf, Tops, EndTop, Nested
    <3> QED
      BY <2>1, <2>3, <2>5, <3>2 DEF Closes
  <2> QED
    BY <2>4, <2>5
<1> QED
  BY <1>3, <1>4, <1>5, <1>6, <1>7, <1>8, <1>9, <1>10

\* The steps that write packages.
LEMMA PackageMoves ==
  ASSUME ShowsInv, request.format \in Formatters, pc # "thrown"
  PROVE  /\ StartPackages => Rests \/ Opens
         /\ StartPackage => Opens
         /\ WritePackageProperty => Puts
         /\ EndPackage \/ EndPackages => Closes
<1>1. pc \in {"package", "inside"} => request.format \in {"json", "xml"}
  BY DEF ShowsInv, Progress, PackageShown, InsideShown, WritesPackages, SupportsPackages
<1>2. /\ OuterOf("packages") = "instance" /\ OuterOf("package") = "packages"
      /\ {"packages", "package"} \subseteq Tops \ {"nothing", "root"}
      /\ NewTop(formatter, "packages") = StartArray(formatter, "packages")
      /\ NewTop(formatter, "package") = StartObject(formatter, "package")
      /\ EndTop(formatter, "packages") = EndArray(formatter)
      /\ EndTop(formatter, "package") = EndObject(formatter)
  BY DEF OuterOf, Tops, NewTop, EndTop
<1>3. ASSUME StartPackages PROVE Rests \/ Opens
  <2>1. Here = "instance" /\ shown' = shown
    BY <1>3 DEF StartPackages, Here
  <2>2. \/ /\ request.format \in {"json", "xml"} /\ pc' = "package"
           /\ formatter' = StartArray(formatter, "packages")
        \/ formatter' = formatter /\ pc' = "end"
    BY <1>3 DEF StartPackages, SupportsPackages
  <2>3. (pc' = "package" => Here' = "packages") /\ (pc' = "end" => Here' = "instance")
    BY DEF Here
  <2> QED
    BY <1>2, <2>1, <2>2, <2>3 DEF Opens, Rests
<1>4. ASSUME StartPackage PROVE Opens
  <2>1. Here = "packages" /\ Here' = "package" /\ pc' # "thrown" /\ shown' = shown /\ pc = "package"
        /\ formatter' = StartObject(formatter, "package")
    BY <1>4 DEF StartPackage, Here
  <2> QED
    BY <1>1, <1>2, <2>1 DEF Opens
<1>5. ASSUME WritePackageProperty PROVE Puts
  <2>1. Here = "package" /\ Here' = "package" /\ pc' # "thrown" /\ pc = "inside"
        /\ \E name : WriteShown("packages", name)
    BY <1>5 DEF WritePackageProperty, Here
  <2>2. PlaceIn("packages") = HolderOf("package")
    BY <1>1, <2>1, HolderIs
  <2> QED
    BY <1>2, <2>1, <2>2 DEF Puts
<1>6. ASSUME EndPackage PROVE Closes
  <2>1. Here = "package" /\ Here' = "packages" /\ pc' # "thrown" /\ shown' = shown
        /\ formatter' = EndObject(formatter)
    BY <1>6 DEF EndPackage, Here
  <2> QED
    BY <1>2, <2>1 DEF Closes
<1>7. ASSUME EndPackages PROVE Closes
  <2>1. Here = "packages" /\ Here' = "instance" /\ pc' # "thrown" /\ shown' = shown
        /\ formatter' = EndArray(formatter)
    BY <1>7 DEF EndPackages, Here
  <2> QED
    BY <1>2, <2>1 DEF Closes
<1> QED
  BY <1>3, <1>4, <1>5, <1>6, <1>7

\* Every step moves, and leaves the command line and the instances alone.
LEMMA NextMoves ==
  ASSUME ShowsInv, [Next]_vars
  PROVE  /\ request' = request /\ instances' = instances /\ request.format \in Formatters
         /\ pc # "thrown" => Moves
         /\ pc = "thrown" => UNCHANGED vars
<1>1. request' = request /\ instances' = instances
  BY DEF Next, vars, rigid, Start, StartFiles, WriteFile, EndFiles, StartInstance, End,
     WriteBuiltin,
     EndBuiltin, SkipStore, FailStore, EnterStore, WriteName, EndNames, LeaveStore, StartPackages,
     StartPackage, WritePackageProperty, EndPackage, EndPackages, EndInstance, Done, Throw
<1>2. request.format \in Formatters
  BY RequestsAssumption DEF ShowsInv, Typed, TypeOK
<1>3. pc # "thrown" => Moves
  BY <1>2, OuterMoves, StoreMoves, PackageMoves DEF Next, Moves
<1>4. pc = "thrown" => UNCHANGED vars
  BY DEF Next, Start, StartFiles, WriteFile, EndFiles, StartInstance, End, WriteBuiltin,
     EndBuiltin, SkipStore, FailStore, EnterStore, WriteName, EndNames, LeaveStore, StartPackages,
     StartPackage, WritePackageProperty, EndPackage, EndPackages, EndInstance, Done
<1> QED
  BY <1>1, <1>2, <1>3, <1>4

\* The tokens outside of all scopes: the root, and the declaration of XML.
Outside ==
  request.format \in {"json", "xml"} =>
    Read(formatter.text).outside =
      IF pc = "start" THEN <<>>
      ELSE IF request.format = "json" THEN <<"open">> ELSE <<"declaration", "open">>

\* The formatter has the scope of the control point on top, and its document all that
\* is shown.
DocInv ==
  /\ \E top \in Tops : \E s, q, hollow :
       /\ Stands(formatter, top, s, q) /\ Judges(hollow, formatter.text, s, q, Deep(top))
       /\ pc # "thrown" => top = Here
  /\ pc = "start" => formatter = Create(request.format) /\ shown = <<>>
  /\ FormatsAgree /\ Outside

\* The meaning of the command line does not change.
LEMMA SameScopes ==
  ASSUME request' = request
  PROVE  /\ \A f, top, s, q : Stands(f, top, s, q)' <=> Stands(f, top, s, q)
         /\ \A hollow, text, s, q, size :
              Judges(hollow, text, s, q, size)' <=> Judges(hollow, text, s, q, size)
         /\ \A where : PlaceIn(where)' = PlaceIn(where)
<1>1. \A where : PlaceIn(where)' = PlaceIn(where)
  BY DEF PlaceIn
<1>2. \A hollow, text, s, q, size :
        Judges(hollow, text, s, q, size)' <=> Judges(hollow, text, s, q, size)
  BY DEF Judges
<1>3. RootName' = RootName /\ RootElement' = RootElement
  BY DEF RootName, RootElement
<1>4. \A top : Elements(top)' = Elements(top) /\ NamesOf(top)' = NamesOf(top)
  BY <1>3 DEF Elements, NamesOf
<1>5. ASSUME NEW f, NEW top, NEW s, NEW q PROVE Stands(f, top, s, q)' <=> Stands(f, top, s, q)
  <2> DEFINE names == NamesOf(top)
             elements == Elements(top)
  <2>1. names' = names /\ elements' = elements
    BY <1>4
  <2>2. Stands(f, top, s, q) <=>
          CASE request.format = "json" -> JsonAt(f, Types(top), names, s, q)
            [] request.format = "xml" -> XmlAt(f, elements, s) /\ (top # "nothing" => s > 0)
            [] request.format = "text" ->
                 /\ top \notin {"packages", "package"}
                 /\ f = [scopes |-> PrefixesOf(top), first |-> f.first, text |-> f.text]
                 /\ Plainly(f.text)
            [] request.format = "value" ->
                 /\ top \notin {"packages", "package"}
                 /\ f = [text |-> f.text] /\ Plainly(f.text)
    BY DEF Stands
  <2>3. Stands(f, top, s, q)' <=>
          CASE request'.format = "json" -> JsonAt(f, Types(top), names', s, q)
            [] request'.format = "xml" -> XmlAt(f, elements', s) /\ (top # "nothing" => s > 0)
            [] request'.format = "text" ->
                 /\ top \notin {"packages", "package"}
                 /\ f = [scopes |-> PrefixesOf(top), first |-> f.first, text |-> f.text]
                 /\ Plainly(f.text)
            [] request'.format = "value" ->
                 /\ top \notin {"packages", "package"}
                 /\ f = [text |-> f.text] /\ Plainly(f.text)
    BY DEF Stands
  <2> HIDE DEF names, elements
  <2> QED
    BY <2>1, <2>2, <2>3, Zenon
<1> QED
  BY <1>1, <1>2, <1>5

\* What is on top is a scope.
LEMMA HereIsTop == ASSUME place \in Places PROVE Here \in Tops
  BY DEF Here, Tops, Nested, Places

\* What is shown, as a reader knows it.
LEMMA AgreesOn ==
  ASSUME FormatsAgree, UNCHANGED <<request, shown>>,
         Read(formatter'.text).values = Read(formatter.text).values
  PROVE  FormatsAgree'
  BY SameScopes DEF FormatsAgree

\* A property that is shown, and whose value is written in its place.
LEMMA AgreesAfter ==
  ASSUME FormatsAgree, request' = request, shown \in Seq(Entries),
         NEW where, NEW name, NEW under, under = PlaceIn(where),
         shown' = Append(shown, [instance |-> k, place |-> where, name |-> name]),
         Read(formatter'.text).values =
           Append(Read(formatter.text).values, [name |-> name, under |-> under])
  PROVE  FormatsAgree'
<1> DEFINE size == Len(shown)
           value(e) == [name |-> e.name, under |-> PlaceIn(e.place)]
           entry == [instance |-> k, place |-> where, name |-> name]
           old == [i \in DOMAIN shown |-> value(shown[i])]
           new == [i \in DOMAIN shown' |-> value(shown'[i])]
           V == {value(shown[i]) : i \in DOMAIN shown}
<1>1. value(entry) = [name |-> name, under |-> under]
  OBVIOUS
<1>2. size \in Nat /\ DOMAIN shown = 1..size
  OBVIOUS
<1> HIDE DEF entry
<1>3. /\ DOMAIN shown' = 1..(size + 1) /\ \A i \in 1..size : shown'[i] = shown[i]
      /\ shown'[size + 1] = entry
  BY DEF entry
<1>4. old = Read(formatter.text).values
  BY DEF FormatsAgree
<1>5. new = Append(old, value(entry))
  <2> HIDE DEF value
  <2>1. old \in Seq(V) /\ Len(old) = size /\ \A i \in 1..size : old[i] = value(shown[i])
    <3>1. old \in [1..size -> V]
      BY <1>2
    <3> QED
      BY <1>2, <3>1
  <2>2. new = [i \in 1..(size + 1) |-> value(shown'[i])]
    BY <1>3
  <2> HIDE DEF old, new, V, size
  <2>3. \A i \in 1..size : new[i] = old[i]
    BY <1>2, <1>3, <2>1, <2>2
  <2>4. new[size + 1] = value(entry)
    BY <1>2, <1>3, <2>2
  <2>5. new = [i \in 1..(size + 1) |-> new[i]]
    BY <2>2
  <2> DEFINE W == V \cup {value(entry)}
  <2>6. new \in Seq(W) /\ Len(new) = size + 1
    <3>1. \A i \in 1..(size + 1) : new[i] \in W
      BY <1>2, <2>1, <2>3, <2>4
    <3>2. new \in [1..(size + 1) -> W] /\ size + 1 \in Nat
      BY <1>2, <2>5, <3>1
    <3> QED
      BY <3>2
  <2>7. old \in Seq(W) /\ value(entry) \in W
    BY <2>1
  <2> HIDE DEF W
  <2> QED
    BY <1>2, <2>1, <2>3, <2>4, <2>6, <2>7
<1>6. new = Read(formatter'.text).values
  BY <1>1, <1>4, <1>5
<1>7. \A e : value(e) = [name |-> e.name, under |-> PlaceIn(e.place)']
  BY SameScopes
<1> QED
  BY <1>6, SameScopes DEF FormatsAgree

\* An empty text agrees with nothing shown.
LEMMA InitDoc == Init => DocInv
<1> SUFFICES ASSUME Init PROVE DocInv
  OBVIOUS
<1>1. request.format \in Formatters /\ formatter = Create(request.format) /\ shown = <<>>
      /\ pc = "start"
  BY RequestsAssumption DEF Init
<1>2. /\ Stands(formatter, "nothing", 0, 0) /\ Judges(FALSE, formatter.text, 0, 0, 0)
      /\ Read(formatter.text).values = <<>> /\ Read(formatter.text).outside = <<>>
  BY <1>1, CreatedAt
<1>3. "nothing" \in Tops /\ Here = "nothing" /\ Deep("nothing") = 0
  BY <1>1 DEF Tops, Here, Deep
<1>4. \E top \in Tops : \E s, q, hollow :
        /\ Stands(formatter, top, s, q) /\ Judges(hollow, formatter.text, s, q, Deep(top))
        /\ pc # "thrown" => top = Here
  BY <1>2, <1>3
<1>5. FormatsAgree /\ Outside
  BY <1>1, <1>2 DEF FormatsAgree, Outside
<1> QED
  BY <1>1, <1>4, <1>5 DEF DocInv

\* The first step starts the root, and nothing comes back to it.
LEMMA StartMoves ==
  ASSUME [Next]_vars
  PROVE  /\ pc = "start" => Roots \/ UNCHANGED vars
         /\ pc # "start" => pc' # "start"
<1>1. Start => Roots
  BY DEF Start, Roots, Here, RootName
<1>2. Leave => pc' # "start"
  BY DEF Leave
<1>3. pc # "start" => pc' # "start"
  BY <1>2 DEF Next, vars, Start, StartFiles, WriteFile, EndFiles, StartInstance, End,
     WriteBuiltin,
     EndBuiltin, SkipStore, FailStore, EnterStore, WriteName, EndNames, LeaveStore, StartPackages,
     StartPackage, WritePackageProperty, EndPackage, EndPackages, EndInstance, Done, Throw
<1>4. pc = "start" => Start \/ UNCHANGED vars
  BY DEF Next, StartFiles, WriteFile, EndFiles, StartInstance, End, WriteBuiltin,
     EndBuiltin, SkipStore, FailStore, EnterStore, WriteName, EndNames, LeaveStore, StartPackages,
     StartPackage, WritePackageProperty, EndPackage, EndPackages, EndInstance, Done
<1> QED
  BY <1>1, <1>3, <1>4

\* So what is on top after a step is what the step put there.
OnTop(f, top, s, q, hollow) == Stands(f, top, s, q) /\ Judges(hollow, f.text, s, q, Deep(top))

\* The root is on top when it has started,
LEMMA RootsOnTop ==
  ASSUME request.format \in Formatters, DocInv, pc = "start", Roots
  PROVE  /\ OnTop(formatter', Here', 1, 0, FALSE)
         /\ Read(formatter'.text).values = Read(formatter.text).values
         /\ request.format = "json" => Read(formatter'.text).outside = <<"open">>
         /\ request.format = "xml" => Read(formatter'.text).outside = <<"declaration", "open">>
<1> DEFINE f == Create(request.format)
           g == StartArray(StartDocument(f), RootName)
<1>1. formatter = f /\ formatter' = g /\ Here' = "root"
  BY DEF DocInv, Roots
<1>2. /\ Stands(f, "nothing", 0, 0) /\ Judges(FALSE, f.text, 0, 0, 0)
      /\ Read(f.text).values = <<>> /\ Read(f.text).outside = <<>>
  BY CreatedAt
<1>3. RootStarted(f, g)
  <2> HIDE DEF f
  <2> QED
    BY <1>2, RootStarts
<1>4. Deep("root") = 1
  BY DEF Deep
<1>5. Append(<<>>, "open") = <<"open">>
      /\ Append(Append(<<>>, "declaration"), "open") = <<"declaration", "open">>
  <2> DEFINE S == {"declaration", "open"}
             d == Append(Append(<<>>, "declaration"), "open")
  <2>1. d \in Seq(S) /\ Len(d) = 2 /\ d[1] = "declaration" /\ d[2] = "open"
    <3>1. Append(<<>>, "declaration") \in Seq(S) /\ Len(Append(<<>>, "declaration")) = 1
          /\ Append(<<>>, "declaration")[1] = "declaration"
      OBVIOUS
    <3> DEFINE one == Append(<<>>, "declaration")
    <3> HIDE DEF one
    <3>2. one \in Seq(S) /\ Len(one) = 1 /\ one[1] = "declaration"
      BY <3>1 DEF one
    <3> QED
      BY <3>2
  <2>2. Append(<<>>, "open") = <<"open">>
    OBVIOUS
  <2> HIDE DEF d
  <2>3. d = <<"declaration", "open">>
    BY <2>1
  <2> QED
    BY <2>2, <2>3 DEF d
<1> HIDE DEF f, g
<1> QED
  BY <1>1, <1>2, <1>3, <1>4, <1>5 DEF RootStarted, OnTop

\* a scope that opens is on top, started or not,
LEMMA OpensOnTop ==
  ASSUME request.format \in Formatters, Opens, NEW s, NEW q, NEW hollow,
         OnTop(formatter, Here, s, q, hollow)
  PROVE  OnTop(formatter', Here', s, q, hollow) /\ Keeps(formatter, formatter')
<1> DEFINE f == formatter
           g == formatter'
           top == Here'
<1>1. /\ top \in Tops /\ top \notin {"nothing", "root"} /\ Here = OuterOf(top)
      /\ top \in {"packages", "package"} => request.format \in {"json", "xml"}
      /\ g = NewTop(f, top)
  BY DEF Opens
<1>2. Stands(f, OuterOf(top), s, q) /\ Judges(hollow, f.text, s, q, Deep(OuterOf(top)))
  BY <1>1 DEF OnTop
<1> HIDE DEF f, g, top
<1>3. /\ Stands(NewTop(f, top), top, s, q) /\ Keeps(f, NewTop(f, top))
      /\ Judges(hollow, NewTop(f, top).text, s, q, Deep(top))
  BY <1>1, <1>2, TopStarts
<1>4. OnTop(g, top, s, q, hollow) /\ Keeps(f, g)
  BY <1>1, <1>3 DEF OnTop
<1> QED
  BY <1>4 DEF f, g, top

\* after a property the scope on top and all around it are started,
LEMMA PutsOnTop ==
  ASSUME request.format \in Formatters, Puts, NEW s, NEW q, NEW hollow,
         OnTop(formatter, Here, s, q, hollow), NEW where, NEW name, WriteShown(where, name)
  PROVE  /\ OnTop(formatter', Here', Deep(Here), Deep(Here), hollow)
         /\ Adds(formatter, formatter', name, Here)
<1> DEFINE f == formatter
           g == formatter'
           top == Here
           size == Deep(top)
<1>1. top \in Tops /\ top # "nothing" /\ Here' = top /\ g = WriteProperty(f, name)
  BY DEF Puts, WriteShown
<1>2. Stands(f, top, s, q) /\ Judges(hollow, f.text, s, q, Deep(top))
  BY DEF OnTop
<1> HIDE DEF f, g, top, size
<1>3. /\ Stands(WriteProperty(f, name), top, Deep(top), Deep(top))
      /\ Adds(f, WriteProperty(f, name), name, top)
      /\ Judges(hollow, WriteProperty(f, name).text, Deep(top), Deep(top), Deep(top))
  BY <1>1, <1>2, PropertyAdds
<1>4. OnTop(g, top, size, size, hollow) /\ Adds(f, g, name, top)
  BY <1>1, <1>3 DEF OnTop, size
<1> QED
  BY <1>1, <1>4 DEF f, g, top, size

\* and after the end of a scope the one around it is on top.
LEMMA ClosesOnTop ==
  ASSUME request.format \in Formatters, Closes, NEW s, NEW q, NEW hollow,
         OnTop(formatter, Here, s, q, hollow), NEW size, size = Deep(Here) - 1
  PROVE  /\ OnTop(formatter', Here', AtMost(s, size), AtMost(q, size),
                  hollow \/ (q > 0 /\ s = size))
         /\ Keeps(formatter, formatter')
<1> DEFINE f == formatter
           g == formatter'
           top == Here
<1>1. top \in Tops /\ top # "nothing" /\ Here' = OuterOf(top) /\ g = EndTop(f, top)
      /\ size = Deep(top) - 1
  BY DEF Closes
<1>2. Stands(f, top, s, q) /\ Judges(hollow, f.text, s, q, Deep(top))
  BY DEF OnTop
<1> HIDE DEF f, g, top
<1>3. Ends(f, g, top, s, q, hollow)
  BY <1>1, <1>2, TopEnds
<1>4. Deep(OuterOf(top)) = size
  <2>1. Deep(top) = Deep(OuterOf(top)) + 1 /\ OuterOf(top) \in Tops
    BY <1>1, LabelsAre
  <2>2. Deep(OuterOf(top)) \in 0..4
    BY <2>1, LabelsSize
  <2> QED
    BY <1>1, <2>1, <2>2
<1>5. /\ OnTop(g, OuterOf(top), AtMost(s, size), AtMost(q, size), hollow \/ (q > 0 /\ s = size))
      /\ Keeps(f, g)
  BY <1>1, <1>3, <1>4 DEF OnTop, Ends
<1> QED
  BY <1>1, <1>5 DEF f, g, top

\* Each step keeps the text in step with the stack and with what is shown.
LEMMA NextDoc == ShowsInv /\ DocInv /\ [Next]_vars => DocInv'
<1> SUFFICES ASSUME ShowsInv, DocInv, [Next]_vars PROVE DocInv'
  OBVIOUS
<1>1. /\ request' = request /\ instances' = instances /\ request.format \in Formatters
      /\ pc # "thrown" => Moves
      /\ pc = "thrown" => UNCHANGED vars
      /\ pc = "start" => Roots \/ UNCHANGED vars
      /\ pc # "start" => pc' # "start"
  BY NextMoves, StartMoves
<1>2. /\ \A f, top, s, q : Stands(f, top, s, q)' <=> Stands(f, top, s, q)
      /\ \A hollow, text, s, q, size :
           Judges(hollow, text, s, q, size)' <=> Judges(hollow, text, s, q, size)
  BY <1>1, SameScopes
<1>3. shown \in Seq(Entries) /\ place \in Places /\ place' \in Places
  <2>1. Typed /\ Typed'
    BY NextTyped DEF ShowsInv
  <2> QED
    BY <2>1, TypedIs DEF Typed, TypeOK
<1>4. Here' \in Tops /\ Here \in Tops
  BY <1>3, HereIsTop DEF Here, Tops, Nested, Places
<1>5. PICK top \in Tops : \E s, q, hollow :
        OnTop(formatter, top, s, q, hollow) /\ (pc # "thrown" => top = Here)
  BY DEF DocInv, OnTop
<1>6. PICK s, q, hollow : OnTop(formatter, top, s, q, hollow) /\ (pc # "thrown" => top = Here)
  BY <1>5
<1>7. ASSUME UNCHANGED vars PROVE DocInv'
  <2>1. UNCHANGED <<formatter, shown, pc, Here>>
    BY <1>7 DEF vars, Here
  <2>2. FormatsAgree'
    BY <1>1, <2>1, AgreesOn DEF DocInv
  <2>3. Outside'
    BY <1>1, <2>1 DEF DocInv, Outside
  <2>4. OnTop(formatter', top, s, q, hollow) /\ (pc' # "thrown" => top = Here')
    BY <1>6, <2>1
  <2> QED
    BY <1>1, <1>2, <2>1, <2>2, <2>3, <2>4 DEF DocInv, OnTop
<1>8. ASSUME NEW t \in Tops, NEW c, NEW d, NEW h, OnTop(formatter', t, c, d, h),
             pc' # "thrown" => t = Here', FormatsAgree', Outside', pc' # "start"
      PROVE  DocInv'
  BY <1>2, <1>8 DEF DocInv, OnTop
<1>9. ASSUME Keeps(formatter, formatter'), shown' = shown, pc # "start", pc' # "start"
      PROVE  FormatsAgree' /\ Outside'
  <2>1. FormatsAgree'
    BY <1>1, <1>9, AgreesOn DEF DocInv, Keeps
  <2>2. Outside'
    BY <1>1, <1>9 DEF DocInv, Outside, Keeps
  <2> QED
    BY <2>1, <2>2
<1>10. CASE pc = "thrown" \/ UNCHANGED vars
  BY <1>1, <1>7, <1>10
<1>11. CASE pc = "start" /\ Roots
  <2>1. /\ OnTop(formatter', Here', 1, 0, FALSE)
        /\ Read(formatter'.text).values = Read(formatter.text).values
        /\ request.format = "json" => Read(formatter'.text).outside = <<"open">>
        /\ request.format = "xml" => Read(formatter'.text).outside = <<"declaration", "open">>
    BY <1>1, <1>11, RootsOnTop
  <2>2. shown' = shown /\ pc' # "start"
    <3>1. shown' = shown /\ Here' = "root"
      BY <1>11 DEF Roots
    <3> QED
      BY <3>1 DEF Here
  <2>3. FormatsAgree'
    BY <1>1, <2>1, <2>2, AgreesOn DEF DocInv
  <2>4. Outside'
    BY <1>1, <2>1, <2>2 DEF Outside
  <2> QED
    BY <1>4, <1>8, <2>1, <2>2, <2>3, <2>4
<1>12. CASE pc \notin {"start", "thrown"} /\ Rests
  <2>1. formatter' = formatter /\ shown' = shown /\ (pc' # "thrown" => Here' = Here) /\ pc' # "start"
    BY <1>1, <1>12 DEF Rests
  <2>2. Keeps(formatter, formatter')
    BY <2>1 DEF Keeps
  <2> QED
    BY <1>6, <1>8, <1>9, <1>12, <2>1, <2>2
<1>13. CASE pc \notin {"start", "thrown"} /\ Opens
  <2>1. OnTop(formatter', Here', s, q, hollow) /\ Keeps(formatter, formatter')
    BY <1>1, <1>6, <1>13, OpensOnTop
  <2> QED
    BY <1>1, <1>4, <1>8, <1>9, <1>13, <2>1 DEF Opens
<1>14. CASE pc \notin {"start", "thrown"} /\ Closes
  <2>1. PICK size : size = Deep(Here) - 1
    OBVIOUS
  <2>2. /\ OnTop(formatter', Here', AtMost(s, size), AtMost(q, size),
                 hollow \/ (q > 0 /\ s = size))
        /\ Keeps(formatter, formatter')
    BY <1>1, <1>6, <1>14, <2>1, ClosesOnTop
  <2> QED
    BY <1>1, <1>4, <1>8, <1>9, <1>14, <2>2 DEF Closes
<1>15. CASE pc \notin {"start", "thrown"} /\ Puts
  <2>1. PICK where, name : WriteShown(where, name) /\ PlaceIn(where) = HolderOf(Here)
    BY <1>15 DEF Puts
  <2>2. /\ OnTop(formatter', Here', Deep(Here), Deep(Here), hollow)
        /\ Adds(formatter, formatter', name, Here)
    BY <1>1, <1>6, <1>15, <2>1, PutsOnTop
  <2>3. FormatsAgree'
    <3> DEFINE under == HolderOf(Here)
    <3>1. /\ shown' = Append(shown, [instance |-> k, place |-> where, name |-> name])
          /\ under = PlaceIn(where)
          /\ Read(formatter'.text).values =
               Append(Read(formatter.text).values, [name |-> name, under |-> under])
      BY <2>1, <2>2 DEF WriteShown, Adds
    <3> HIDE DEF under
    <3> QED
      BY <1>1, <1>3, <3>1, AgreesAfter DEF DocInv
  <2>4. Outside'
    BY <1>1, <1>15, <2>2 DEF DocInv, Outside, Adds
  <2> QED
    BY <1>1, <1>4, <1>8, <1>15, <2>2, <2>3, <2>4
<1> QED
  BY <1>1, <1>10, <1>11, <1>12, <1>13, <1>14, <1>15 DEF Moves, Roots

\* In JSON and XML what is open in the text is what is started on the stack.
LEMMA StandsMatch ==
  ASSUME NEW top, NEW s, NEW q, Stands(formatter, top, s, q), request.format \in {"json", "xml"}
  PROVE  TextMatchesStack
<1> DEFINE text == formatter.text
           scopes == formatter.scopes
           open == [j \in {i \in DOMAIN scopes : scopes[i].started} |->
                      IF request.format = "json" THEN scopes[j].type ELSE scopes[j].name]
<1>1. CASE request.format = "json"
  <2> DEFINE labels == Types(top)
             names == NamesOf(top)
             all == JsonScopes(labels, names, s, q)
  <2>1. Tracks(text, labels, s) /\ scopes = all
    BY <1>1 DEF Stands, JsonAt, JsonLike
  <2>2. Read(text).balanced /\ Read(text).open = Initial(labels, s) /\ s \in 0..Len(labels)
        /\ Len(labels) \in Nat
    BY <2>1, InitialIs DEF Tracks
  <2>3. DOMAIN all = 1..Len(labels)
        /\ \A j \in 1..Len(labels) : (all[j].started <=> j <= s) /\ all[j].type = labels[j]
    BY JsonScopeIs DEF JsonScopes
  <2> HIDE DEF all, labels, text, scopes
  <2>4. {i \in DOMAIN scopes : scopes[i].started} = 1..s
    BY <2>1, <2>2, <2>3
  <2>5. open = [j \in 1..s |-> labels[j]]
    BY <1>1, <2>1, <2>2, <2>3, <2>4
  <2>6. Read(text).balanced /\ Read(text).open = open
    BY <2>2, <2>5 DEF Initial
  <2> QED
    BY <1>1, <2>6 DEF TextMatchesStack, text, scopes
<1>2. CASE request.format = "xml"
  <2> DEFINE labels == Elements(top)
             all == XmlScopes(labels, s)
  <2>1. Tracks(text, labels, s) /\ scopes = all
    BY <1>2 DEF Stands, XmlAt
  <2>2. Read(text).balanced /\ Read(text).open = Initial(labels, s) /\ s \in 0..Len(labels)
        /\ Len(labels) \in Nat
    BY <2>1, InitialIs DEF Tracks
  <2>3. DOMAIN all = 1..Len(labels)
        /\ \A j \in 1..Len(labels) : (all[j].started <=> j <= s) /\ all[j].name = labels[j]
    BY ScopeIs DEF XmlScopes
  <2> HIDE DEF all, labels, text, scopes
  <2>4. {i \in DOMAIN scopes : scopes[i].started} = 1..s
    BY <2>1, <2>2, <2>3
  <2>5. open = [j \in 1..s |-> labels[j]]
    BY <1>2, <2>1, <2>2, <2>3, <2>4
  <2>6. Read(text).balanced /\ Read(text).open = open
    BY <2>2, <2>5 DEF Initial
  <2> QED
    BY <1>2, <2>6 DEF TextMatchesStack, text, scopes
<1> QED
  BY <1>1, <1>2

\* When nothing is on top nothing is open.
LEMMA FinishedText ==
  ASSUME NEW s, NEW q, NEW f, Stands(f, "nothing", s, q), request.format \in {"json", "xml"}
  PROVE  Read(f.text).open = <<>> /\ Read(f.text).balanced /\ s = 0
<1>1. Tracks(f.text, <<>>, s)
  BY RootLabels DEF Stands, JsonAt, JsonLike, XmlAt
<1>2. s = 0 /\ Read(f.text).balanced /\ Read(f.text).open = Initial(<<>>, s)
  BY <1>1 DEF Tracks
<1>3. Initial(<<>>, 0) = <<>>
  BY DEF Initial
<1> QED
  BY <1>2, <1>3

\* What DocInv was made for.
LEMMA DocHolds ==
  ASSUME ShowsInv, DocInv
  PROVE  TextMatchesStack /\ FormatsAgree /\ XmlIsXml
<1>1. PICK top \in Tops : \E s, q, hollow :
        OnTop(formatter, top, s, q, hollow) /\ (pc # "thrown" => top = Here)
  BY DEF DocInv, OnTop
<1>2. PICK s, q, hollow : OnTop(formatter, top, s, q, hollow) /\ (pc # "thrown" => top = Here)
  BY <1>1
<1>3. TextMatchesStack
  BY <1>2, StandsMatch DEF OnTop, TextMatchesStack
<1>4. XmlIsXml
  <2> SUFFICES ASSUME pc = "done", request.format = "xml" PROVE IsXml(formatter.text)
    BY DEF XmlIsXml
  <2>1. Stands(formatter, "nothing", s, q)
    BY <1>2 DEF OnTop, Here
  <2>2. Read(formatter.text).open = <<>> /\ Read(formatter.text).balanced
    BY <2>1, FinishedText
  <2>3. Read(formatter.text).outside = <<"declaration", "open">>
    BY DEF DocInv, Outside
  <2> QED
    BY <2>2, <2>3 DEF IsXml, IsDocument
<1> QED
  BY <1>3, <1>4 DEF DocInv

\* Starting scopes late and ending only those started never unbalances a text: what is
\* open in it is what was started, also where an exception leaves it.
THEOREM TextFollowsStack == Spec => []TextMatchesStack
<1>1. ShowsInv /\ DocInv => TextMatchesStack
  BY DocHolds
<1> QED
  BY <1>1, InitShows, NextShows, InitDoc, NextDoc, PTL DEF Spec

\* Every format writes all that is shown, in its order, each property under its place.
THEOREM AllFormatsAgree == Spec => []FormatsAgree
<1>1. ShowsInv /\ DocInv => FormatsAgree
  BY DocHolds
<1> QED
  BY <1>1, InitShows, NextShows, InitDoc, NextDoc, PTL DEF Spec

\* A finished document is XML, whatever in it is empty.
THEOREM FinishedIsXml == Spec => []XmlIsXml
<1>1. ShowsInv /\ DocInv => XmlIsXml
  BY DocHolds
<1> QED
  BY <1>1, InitShows, NextShows, InitDoc, NextDoc, PTL DEF Spec

-----------------------------------------------------------------------------
(* What becomes of JSON                                                     *)

\* How many scopes are started: all that something is in, and the root.
Outer == IF Occurs(k) THEN 2 ELSE 1
Begun ==
  CASE pc \in {"start", "done"} -> 0
    [] pc \in {"next", "files"} -> 1
    [] pc \in {"store", "leave"} -> IF place # "own" /\ OccursIn(k, {place}) THEN 3 ELSE Outer
    [] pc = "inside" -> IF m > 1 THEN 4 ELSE IF OccursIn(k, {"packages"}) THEN 3 ELSE Outer
    [] pc = "package" -> IF OccursIn(k, {"packages"}) THEN 3 ELSE Outer
    [] OTHER -> Outer

\* After the first property all of them need a separator.
Parted == IF shown = <<>> THEN 0 ELSE Begun

\* Where the properties of the instance at hand may be from.
Before(where) ==
  CASE where = "own" -> {"builtin"}
    [] where = "catalog" -> {"builtin", "own"}
    [] where = "properties" -> {"builtin", "own", "catalog"}
Seen ==
  CASE pc = "builtin" -> {"builtin"}
    [] pc = "enter" -> Before(place)
    [] pc \in {"store", "leave"} -> Before(place) \cup {place}
    [] pc = "packages" -> {"builtin", "own", "catalog", "properties"}
    [] OTHER -> Tags
Later ==
  \A i \in DOMAIN shown :
    shown[i].instance <= k /\ (shown[i].instance = k => shown[i].place \in Seen)

\* Which packages had something in them.
Filled(c) == \E h \in 1..c : instance.packages[h] # <<>>
PackagesSeen ==
  /\ pc = "package" => instance.packages # <<>> /\ (OccursIn(k, {"packages"}) <=> Filled(n - 1))
  /\ pc = "inside" => (OccursIn(k, {"packages"}) <=> m > 1 \/ Filled(n - 1))
SeenInv ==
  /\ Later /\ PackagesSeen
  /\ pc = "leave" => Reached(instance, place)
  /\ pc = "done" => k = Len(instances)

\* An object or an array of packages without anything in it has ended after something.
HollowBefore(j) ==
  \/ HollowInstance(j)
  \/ HollowStore(j, "catalog", Before("catalog"))
  \/ HollowStore(j, "properties", Before("properties"))
  \/ HollowPackages(j)
HollowPackage(c) == \E i \in 1..c : instance.packages[i] = <<>> /\ Filled(i - 1)
HollowEarlier(c) == \E j \in 1..c : HollowBefore(j)
HollowCatalog    == HollowStore(k, "catalog", Before("catalog"))
HollowProperties == HollowStore(k, "properties", Before("properties"))
HollowSoFar ==
  /\ ~request.find
  /\ \/ HollowEarlier(IF pc \in {"next", "done"} THEN k ELSE k - 1)
     \/ /\ \/ pc \in {"enter", "store", "leave"} /\ place = "properties"
           \/ pc \in {"packages", "package", "inside", "end"}
        /\ HollowCatalog
     \/ pc \in {"packages", "package", "inside", "end"} /\ HollowProperties
     \/ pc \in {"package", "inside"} /\ HollowPackage(n - 1)
     \/ pc = "end" /\ HollowPackages(k)

\* What is written is known of the instance at hand alone.
LEMMA OccursSame ==
  ASSUME shown' = shown
  PROVE  /\ \A j, wheres : OccursIn(j, wheres)' <=> OccursIn(j, wheres)
         /\ \A j : Occurs(j)' <=> Occurs(j)
  BY DEF OccursIn, Occurs

\* What is written is of the instance at hand.
LEMMA OccursAfter ==
  ASSUME shown \in Seq(Entries), NEW where, NEW name, WriteShown(where, name)
  PROVE  /\ \A j, wheres : OccursIn(j, wheres)' <=> OccursIn(j, wheres) \/ (j = k /\ where \in wheres)
         /\ \A j : Occurs(j)' <=> Occurs(j) \/ j = k
         /\ shown' # <<>>
<1> DEFINE size == Len(shown)
           entry == [instance |-> k, place |-> where, name |-> name]
<1>1. shown' = Append(shown, entry)
  BY DEF WriteShown
<1>2. entry.instance = k /\ entry.place = where
  OBVIOUS
<1>3. size \in Nat /\ DOMAIN shown = 1..size
  OBVIOUS
<1> HIDE DEF entry
<1>4. /\ DOMAIN shown' = 1..(size + 1) /\ \A i \in 1..size : shown'[i] = shown[i]
      /\ shown'[size + 1] = entry /\ shown' # <<>>
  BY <1>1
<1> HIDE DEF size
<1>5. /\ \A i \in DOMAIN shown : i \in DOMAIN shown' /\ shown'[i] = shown[i]
      /\ size + 1 \in DOMAIN shown'
      /\ \A i \in DOMAIN shown' : i = size + 1 \/ i \in DOMAIN shown
  BY <1>3, <1>4
<1>6. ASSUME NEW j, NEW wheres
      PROVE  OccursIn(j, wheres)' <=> OccursIn(j, wheres) \/ (j = k /\ where \in wheres)
  <2>1. ASSUME OccursIn(j, wheres) PROVE OccursIn(j, wheres)'
    BY <1>5, <2>1 DEF OccursIn
  <2>2. ASSUME j = k, where \in wheres PROVE OccursIn(j, wheres)'
    BY <1>2, <1>4, <1>5, <2>2 DEF OccursIn
  <2>3. ASSUME OccursIn(j, wheres)', ~OccursIn(j, wheres) PROVE j = k /\ where \in wheres
    BY <1>2, <1>4, <1>5, <2>3 DEF OccursIn
  <2> QED
    BY <2>1, <2>2, <2>3
<1>7. ASSUME NEW j PROVE Occurs(j)' <=> Occurs(j) \/ j = k
  <2>1. ASSUME Occurs(j) PROVE Occurs(j)'
    BY <1>5, <2>1 DEF Occurs
  <2>2. ASSUME j = k PROVE Occurs(j)'
    BY <1>2, <1>4, <1>5, <2>2 DEF Occurs
  <2>3. ASSUME Occurs(j)', ~Occurs(j) PROVE j = k
    BY <1>2, <1>4, <1>5, <2>3 DEF Occurs
  <2> QED
    BY <2>1, <2>2, <2>3
<1> QED
  BY <1>4, <1>6, <1>7

\* The command line and the instances keep their meaning.
LEMMA MeaningSame ==
  ASSUME UNCHANGED rigid
  PROVE  /\ \A a, where : Reached(a, where)' <=> Reached(a, where)
         /\ \A where : Before(where)' = Before(where)
         /\ IsSpecified("packages")' <=> IsSpecified("packages")
         /\ instances' = instances /\ request' = request
<1>1. instances' = instances /\ request' = request
  BY DEF rigid
<1>2. \A a, where : Reached(a, where)' <=> Reached(a, where)
  BY SameMeaning DEF Reached, Order
<1> QED
  BY <1>1, <1>2 DEF Before, IsSpecified

\* So what is hollow does not change while nothing is written,
LEMMA HollowSame ==
  ASSUME UNCHANGED rigid, shown' = shown
  PROVE  /\ \A j, where, before : HollowStore(j, where, before)' <=> HollowStore(j, where, before)
         /\ \A j : HollowInstance(j)' <=> HollowInstance(j)
         /\ \A j : HollowPackages(j)' <=> HollowPackages(j)
         /\ \A j : HollowBefore(j)' <=> HollowBefore(j)
<1>1. \A j, where, before : HollowStore(j, where, before)' <=> HollowStore(j, where, before)
  BY MeaningSame, OccursSame DEF HollowStore
<1>2. \A j : HollowInstance(j)' <=> HollowInstance(j)
  BY OccursSame DEF HollowInstance
<1>3. \A j : HollowPackages(j)' <=> HollowPackages(j)
  BY MeaningSame, SameMeaning, OccursSame DEF HollowPackages
<1>4. \A j : HollowBefore(j)' <=> HollowBefore(j)
  BY <1>1, <1>2, <1>3, MeaningSame DEF HollowBefore
<1> QED
  BY <1>1, <1>2, <1>3, <1>4

\* or only at the instance at hand.
LEMMA HollowAfter ==
  ASSUME UNCHANGED rigid, shown \in Seq(Entries), k \in Nat,
         NEW where, NEW name, WriteShown(where, name)
  PROVE  /\ \A j, at, before : j # k \/ where \notin before \cup {at} =>
              (HollowStore(j, at, before)' <=> HollowStore(j, at, before))
         /\ \A j \in 1..(k - 1) : HollowBefore(j)' <=> HollowBefore(j)
<1>1. \A j, at, before : j # k \/ where \notin before \cup {at} =>
        (HollowStore(j, at, before)' <=> HollowStore(j, at, before))
  BY MeaningSame, OccursAfter DEF HollowStore
<1>2. ASSUME NEW j \in 1..(k - 1) PROVE HollowBefore(j)' <=> HollowBefore(j)
  <2>1. j # k /\ \A i \in 1..(j - 1) : i # k
    BY <1>2
  <2>2. HollowInstance(j)' <=> HollowInstance(j)
    BY <2>1, OccursAfter DEF HollowInstance
  <2>3. HollowPackages(j)' <=> HollowPackages(j)
    BY <2>1, MeaningSame, SameMeaning, OccursAfter DEF HollowPackages
  <2> QED
    BY <1>1, <2>1, <2>2, <2>3, MeaningSame DEF HollowBefore
<1> QED
  BY <1>1, <1>2

\* What a step that writes nothing leaves as it is, and what one that writes does.
LEMMA QuietStep ==
  ASSUME UNCHANGED rigid, shown' = shown, k' = k
  PROVE  /\ \A c : HollowEarlier(c)' <=> HollowEarlier(c)
         /\ HollowCatalog' <=> HollowCatalog
         /\ HollowProperties' <=> HollowProperties
         /\ HollowPackages(k)' <=> HollowPackages(k)
         /\ \A c : HollowPackage(c)' <=> HollowPackage(c)
         /\ \A c : Filled(c)' <=> Filled(c)
         /\ Outer' = Outer /\ \A wheres : OccursIn(k, wheres)' <=> OccursIn(k, wheres)
         /\ Occurs(k)' <=> Occurs(k)
         /\ instance' = instance /\ request' = request /\ instances' = instances
<1>1. instance' = instance /\ request' = request /\ instances' = instances
  BY DEF instance, rigid
<1>2. \A c : HollowEarlier(c)' <=> HollowEarlier(c)
  BY HollowSame DEF HollowEarlier
<1>3. /\ HollowCatalog' <=> HollowCatalog
      /\ HollowProperties' <=> HollowProperties
  BY HollowSame, MeaningSame DEF HollowCatalog, HollowProperties
<1>4. HollowPackages(k)' <=> HollowPackages(k)
  BY HollowSame
<1>5. \A c : Filled(c)' <=> Filled(c)
  BY <1>1 DEF Filled
<1>6. \A c : HollowPackage(c)' <=> HollowPackage(c)
  BY <1>1, <1>5 DEF HollowPackage
<1>7. /\ Outer' = Outer /\ \A wheres : OccursIn(k, wheres)' <=> OccursIn(k, wheres)
      /\ Occurs(k)' <=> Occurs(k)
  BY OccursSame DEF Outer
<1> QED
  BY <1>1, <1>2, <1>3, <1>4, <1>5, <1>6, <1>7

\* The same of a step that writes.
LEMMA WritingStep ==
  ASSUME UNCHANGED rigid, k' = k, shown \in Seq(Entries), k \in Nat,
         NEW where, NEW name, WriteShown(where, name)
  PROVE  /\ HollowEarlier(k - 1)' <=> HollowEarlier(k - 1)
         /\ where = "properties" => (HollowCatalog' <=> HollowCatalog)
         /\ where = "packages" =>
              (HollowCatalog' <=> HollowCatalog) /\ (HollowProperties' <=> HollowProperties)
         /\ \A c : HollowPackage(c)' <=> HollowPackage(c)
         /\ \A c : Filled(c)' <=> Filled(c)
         /\ Outer' = 2
         /\ \A wheres : OccursIn(k, wheres)' <=> OccursIn(k, wheres) \/ where \in wheres
         /\ Occurs(k)'
         /\ instance' = instance /\ request' = request /\ instances' = instances
         /\ shown' # <<>>
<1>1. instance' = instance /\ request' = request /\ instances' = instances
  BY DEF instance, rigid
<1>2. HollowEarlier(k - 1)' <=> HollowEarlier(k - 1)
  BY HollowAfter DEF HollowEarlier
<1>3. \A c : Filled(c)' <=> Filled(c)
  BY <1>1 DEF Filled
<1>4. \A c : HollowPackage(c)' <=> HollowPackage(c)
  BY <1>1, <1>3 DEF HollowPackage
<1>5. where \in {"properties", "packages"} => (HollowCatalog' <=> HollowCatalog)
  <2> SUFFICES ASSUME where \in {"properties", "packages"} PROVE HollowCatalog' <=> HollowCatalog
    OBVIOUS
  <2>1. where \notin Before("catalog") \cup {"catalog"}
    BY DEF Before
  <2> QED
    BY <2>1, HollowAfter, MeaningSame DEF HollowCatalog
<1>6. where = "packages" => (HollowProperties' <=> HollowProperties)
  <2> SUFFICES ASSUME where = "packages" PROVE HollowProperties' <=> HollowProperties
    OBVIOUS
  <2>1. where \notin Before("properties") \cup {"properties"}
    BY DEF Before
  <2> QED
    BY <2>1, HollowAfter, MeaningSame DEF HollowProperties
<1>7. /\ Outer' = 2 /\ Occurs(k)' /\ shown' # <<>>
      /\ \A wheres : OccursIn(k, wheres)' <=> OccursIn(k, wheres) \/ where \in wheres
  BY OccursAfter DEF Outer
<1> QED
  BY <1>1, <1>2, <1>3, <1>4, <1>5, <1>6, <1>7

\* Where the properties may be from is never less than where they are.
LEMMA LaterSame ==
  ASSUME Later, shown' = shown, k' = k, Seen \subseteq Seen'
  PROVE  Later'
  BY DEF Later

\* What is written is from a place that may be seen.
LEMMA LaterAfter ==
  ASSUME Later, shown \in Seq(Entries), k \in Nat, k' = k, NEW where, NEW name,
         WriteShown(where, name), Seen \subseteq Seen', where \in Seen'
  PROVE  Later'
<1> DEFINE size == Len(shown)
           entry == [instance |-> k, place |-> where, name |-> name]
<1>1. shown' = Append(shown, entry)
  BY DEF WriteShown
<1>2. entry.instance = k /\ entry.place = where
  OBVIOUS
<1> HIDE DEF entry
<1>3. \A i \in DOMAIN shown' : (i \in DOMAIN shown /\ shown'[i] = shown[i]) \/ shown'[i] = entry
  <2>1. \A i \in DOMAIN shown' : i \in 1..size \/ i = size + 1
    BY <1>1
  <2> QED
    BY <1>1, <2>1
<1> QED
  BY <1>2, <1>3 DEF Later

\* Nothing is shown from where nothing was looked at.
LEMMA NotSeen ==
  ASSUME Later, NEW wheres, wheres \cap Seen = {}
  PROVE  ~OccursIn(k, wheres)
  BY DEF Later, OccursIn

\* What the counts do in a step that calls no method or starts a scope, in one that
\* writes a property, and in one that ends a scope.
Unmoved == Begun' = Begun /\ (HollowSoFar' <=> HollowSoFar)
Written == Begun' = Deep(Here) /\ (HollowSoFar' <=> HollowSoFar)
Ended ==
  /\ Begun' = AtMost(Begun, Deep(Here) - 1)
  /\ HollowSoFar' <=> HollowSoFar \/ (Parted > 0 /\ Begun = Deep(Here) - 1)

\* Outside of packages little has to be known.
LEMMA SeenNext ==
  ASSUME Later', pc' \notin {"package", "inside", "leave", "done"}
  PROVE  SeenInv'
  BY DEF SeenInv, PackagesSeen

\* What is known of the types.
LEMMA TypesAt ==
  ASSUME ShowsInv
  PROVE  /\ shown \in Seq(Entries) /\ k \in Nat /\ place \in Places
         /\ k' = k + 1 => k' \in Nat /\ k' # k /\ k' - 1 = k
         /\ \A i \in DOMAIN shown : shown[i].instance \in Nat /\ shown[i].place \in Tags
         /\ m \in Nat /\ m > 0 /\ n \in Nat /\ n > 0
<1>1. Typed
  BY DEF ShowsInv
<1>2. shown \in Seq(Entries) /\ place \in Places /\ k \in 0..Len(instances)
      /\ m \in Nat /\ m > 0 /\ n \in Nat /\ n > 0
  BY <1>1, TypedIs DEF Typed, TypeOK
<1>3. k \in Nat
  BY <1>2
<1>4. ASSUME NEW i \in DOMAIN shown PROVE shown[i].instance \in Nat /\ shown[i].place \in Tags
  <2>1. shown[i] \in Entries
    BY <1>2
  <2> QED
    BY <2>1 DEF Entries, Tags
<1> QED
  BY <1>2, <1>3, <1>4

\* Files are not looked at: nothing ends hollow.
LEMMA FilesCount ==
  ASSUME ShowsInv, SeenInv, StartFiles \/ WriteFile \/ EndFiles, pc' # "thrown"
  PROVE  SeenInv' /\ Begun' = Begun /\ Begun = Deep(Here) /\ (HollowSoFar' <=> HollowSoFar)
<1>1. request.find /\ request' = request /\ pc \in {"next", "files"} /\ pc' \in {"next", "files"}
  BY DEF StartFiles, WriteFile, EndFiles, Throw, rigid, ShowsInv, Progress
<1>2. ~HollowSoFar /\ ~HollowSoFar'
  BY <1>1 DEF HollowSoFar
<1>3. Begun = 1 /\ Begun' = 1
  BY <1>1 DEF Begun
<1>4. Deep(Here) = 1
  BY <1>1 DEF Deep, Here
<1>5. Seen = Tags /\ Seen' = Tags
  BY <1>1 DEF Seen
<1>6. Later'
  <2>1. CASE StartFiles
    <3>1. k' = k + 1 /\ shown' = shown
      BY <1>1, <2>1 DEF StartFiles, Throw
    <3> QED
      BY <3>1, TypesAt DEF Later, SeenInv
  <2>2. CASE WriteFile
    <3>1. k' = k /\ \E name : WriteShown("files", name)
      BY <2>2 DEF WriteFile
    <3> QED
      BY <1>5, <3>1, TypesAt, LaterAfter DEF SeenInv, Tags
  <2>3. CASE EndFiles
    BY <1>5, <2>3, LaterSame DEF EndFiles, SeenInv
  <2> QED
    BY <2>1, <2>2, <2>3
<1> QED
  BY <1>1, <1>2, <1>3, <1>4, <1>6, SeenNext

\* The root,
LEMMA StartCount ==
  ASSUME ShowsInv, SeenInv, Start
  PROVE  SeenInv' /\ Begun' = 1 /\ ~HollowSoFar'
<1>1. pc = "start" /\ pc' = "next" /\ k' = k /\ shown' = shown /\ k = 0 /\ Seen = Tags /\ Seen' = Tags
  BY DEF Start, ShowsInv, Progress, Seen
<1>2. Later'
  BY <1>1, LaterSame DEF SeenInv
<1>3. ~HollowEarlier(0)'
  BY DEF HollowEarlier
<1>4. ~HollowSoFar'
  BY <1>1, <1>3 DEF HollowSoFar
<1> QED
  BY <1>1, <1>2, <1>4, SeenNext DEF Begun

\* and its end,
LEMMA EndCount ==
  ASSUME ShowsInv, SeenInv, End
  PROVE  SeenInv' /\ Ended
<1>1. /\ pc = "next" /\ pc' = "done" /\ k' = k /\ shown' = shown /\ UNCHANGED rigid
      /\ k = Len(instances) /\ Seen = Tags /\ Seen' = Tags
  BY DEF End, Seen
<1>2. Later'
  BY <1>1, LaterSame DEF SeenInv
<1>3. Begun = 1 /\ Begun' = 0 /\ Deep(Here) = 1 /\ AtMost(1, 0) = 0
  BY <1>1 DEF Begun, Deep, Here, AtMost
<1>4. HollowSoFar' <=> HollowSoFar
  BY <1>1, QuietStep DEF HollowSoFar
<1>5. SeenInv'
  BY <1>1, <1>2 DEF SeenInv, PackagesSeen, rigid
<1> QED
  BY <1>3, <1>4, <1>5 DEF Ended

\* the objects of instances,
LEMMA StartInstanceCount ==
  ASSUME ShowsInv, SeenInv, StartInstance
  PROVE  SeenInv' /\ Unmoved
<1>1. /\ pc = "next" /\ pc' = "builtin" /\ k' = k + 1 /\ shown' = shown /\ UNCHANGED rigid
  BY DEF StartInstance
<1>2. \A i \in DOMAIN shown : shown[i].instance <= k' /\ shown[i].instance # k'
  BY <1>1, TypesAt DEF SeenInv, Later
<1>3. Later'
  BY <1>1, <1>2 DEF Later
<1>4. ~Occurs(k)'
  BY <1>1, <1>2 DEF Occurs
<1>5. Begun = 1 /\ Begun' = 1
  BY <1>1, <1>4 DEF Begun, Outer
<1>6. \A c : HollowEarlier(c)' <=> HollowEarlier(c)
  BY <1>1, HollowSame DEF HollowEarlier
<1>7. HollowEarlier(k - 1)' <=> HollowEarlier(k)
  <2>1. k' - 1 = k
    BY <1>1, TypesAt
  <2> QED
    BY <1>6, <2>1
<1>8. HollowSoFar' <=> HollowSoFar
  <2>1. request' = request
    BY <1>1 DEF rigid
  <2>2. HollowSoFar' <=> ~request.find /\ HollowEarlier(k - 1)'
    BY <1>1, <2>1 DEF HollowSoFar
  <2>3. HollowSoFar <=> ~request.find /\ HollowEarlier(k)
    BY <1>1 DEF HollowSoFar
  <2> QED
    BY <1>7, <2>2, <2>3
<1> QED
  BY <1>1, <1>3, <1>5, <1>8, SeenNext DEF Unmoved

\* which end hollow when nothing of the instance is shown and something of one before is,
LEMMA EndInstanceCount ==
  ASSUME ShowsInv, SeenInv, EndInstance
  PROVE  SeenInv' /\ Ended
<1>1. /\ pc = "end" /\ pc' = "next" /\ k' = k /\ shown' = shown /\ UNCHANGED rigid
      /\ Seen = Tags /\ Seen' = Tags /\ ~request.find
  BY DEF EndInstance, Seen, ShowsInv, Progress
<1>2. Later'
  BY <1>1, LaterSame DEF SeenInv
<1>3. Begun = Outer /\ Begun' = 1 /\ Deep(Here) = 2 /\ Outer \in {1, 2}
      /\ (Outer = 1 <=> ~Occurs(k))
  BY <1>1 DEF Begun, Deep, Here, Outer
<1>4. Begun' = AtMost(Begun, Deep(Here) - 1)
  BY <1>3 DEF AtMost
<1>5. Parted > 0 /\ Begun = 1 <=> HollowInstance(k)
  <2>1. \A i \in DOMAIN shown : shown[i].instance \in 1..k
    <3>1. \A i \in DOMAIN shown : shown[i] \in Entries /\ shown[i].instance <= k
      BY TypesAt DEF SeenInv, Later
    <3>2. \A e \in Entries : e.instance \in 1..Len(instances)
      BY DEF Entries
    <3> QED
      BY <3>1, <3>2, TypesAt
  <2>2. ASSUME ~Occurs(k), shown # <<>> PROVE \E i \in 1..(k - 1) : Occurs(i)
    <3>1. 1 \in DOMAIN shown
      BY <2>2, TypesAt
    <3>2. shown[1].instance # k
      BY <2>2, <3>1 DEF Occurs
    <3>3. shown[1].instance \in 1..(k - 1)
      BY <2>1, <3>1, <3>2, TypesAt
    <3> QED
      BY <3>1, <3>3 DEF Occurs
  <2>3. ASSUME NEW i, Occurs(i) PROVE shown # <<>>
    BY <2>3 DEF Occurs
  <2>4. Parted > 0 <=> shown # <<>>
    BY <1>3 DEF Parted
  <2> QED
    BY <1>3, <2>2, <2>3, <2>4 DEF HollowInstance
<1>6. HollowEarlier(k) <=> HollowEarlier(k - 1) \/ HollowBefore(k)
  <2>1. k > 0 /\ k \in Nat
    BY <1>1, TypesAt DEF ShowsInv, Typed, TypeOK
  <2>2. \A j : j \in 1..k <=> j \in 1..(k - 1) \/ j = k
    BY <2>1
  <2> QED
    BY <2>2 DEF HollowEarlier
<1>7. HollowBefore(k) <=> HollowInstance(k) \/ HollowCatalog \/ HollowProperties \/ HollowPackages(k)
  BY DEF HollowBefore, HollowCatalog, HollowProperties
<1>8. HollowSoFar' <=> HollowEarlier(k)
  <2>1. HollowSoFar' <=> HollowEarlier(k)'
    BY <1>1, QuietStep DEF HollowSoFar
  <2> QED
    BY <1>1, <2>1, QuietStep
<1>9. HollowSoFar <=> HollowEarlier(k - 1) \/ HollowCatalog \/ HollowProperties \/ HollowPackages(k)
  BY <1>1 DEF HollowSoFar
<1>10. HollowSoFar' <=> HollowSoFar \/ (Parted > 0 /\ Begun = Deep(Here) - 1)
  BY <1>3, <1>5, <1>6, <1>7, <1>8, <1>9
<1> QED
  BY <1>1, <1>2, <1>4, <1>10, SeenNext DEF Ended

\* Nothing ends hollow that is not reached.
LEMMA NotHollow ==
  ASSUME NEW where \in Places, ~Reached(instance, where) \/ instance[where] = NoStore, NEW before
  PROVE  ~HollowStore(k, where, before)
  BY DEF HollowStore, instance

\* A place after the one that has the property is not reached.
LEMMA HasBefore ==
  ASSUME NEW where \in Places, NEW i \in 1..3, i < Rank(where), Has(instance, Order[i])
  PROVE  ~Reached(instance, where)
<1>1. i \in 1..(Rank(where) - 1)
  BY RankIs
<1> QED
  BY <1>1, ReachedIs

\* With a property every instance has, nothing else is reached.
LEMMA BuiltinHas ==
  ASSUME Has(instance, "builtin")
  PROVE  ~HollowCatalog /\ ~HollowProperties /\ ~HollowPackages(k)
<1>1. Has(instance, Order[1])
  BY OrderIs
<1>2. {"catalog", "properties"} \subseteq Places /\ 1 < Rank("catalog") /\ 1 < Rank("properties")
      /\ 1 \in 1..3
  BY DEF Places, Rank
<1>3. ~Reached(instance, "catalog") /\ ~Reached(instance, "properties")
  BY <1>1, <1>2, HasBefore
<1> QED
  BY <1>2, <1>3, NotHollow DEF HollowCatalog, HollowProperties, HollowPackages, instance

\* the properties every instance has,
LEMMA Grown ==
  ASSUME shown \in Seq(Entries), NEW where, NEW name, WriteShown(where, name)
  PROVE  shown' # shown
<1> DEFINE entry == [instance |-> k, place |-> where, name |-> name]
<1>1. shown' = Append(shown, entry)
  BY DEF WriteShown
<1> HIDE DEF entry
<1>2. Len(shown') = Len(shown) + 1 /\ Len(shown) \in Nat
  BY <1>1
<1> QED
  BY <1>2

\* In the loop over them only what is written counts.
LEMMA WriteBuiltinCount ==
  ASSUME ShowsInv, SeenInv, WriteBuiltin, pc' # "thrown"
  PROVE  SeenInv' /\ (shown' = shown => Unmoved) /\ (shown' # shown => Written)
<1>1. /\ pc = "builtin" /\ pc' = "builtin" /\ k' = k /\ UNCHANGED rigid
      /\ Seen = {"builtin"} /\ Seen' = {"builtin"}
  BY DEF WriteBuiltin, Throw, Seen
<1>2. shown' = shown \/ \E name : WriteShown("builtin", name)
  BY <1>1 DEF WriteBuiltin, Throw, WriteIfReadable
<1>3. /\ HollowSoFar <=> ~request.find /\ HollowEarlier(k - 1)
      /\ HollowSoFar' <=> ~request'.find /\ HollowEarlier(k - 1)'
      /\ Begun = Outer /\ Begun' = Outer' /\ Deep(Here) = 2
  BY <1>1 DEF HollowSoFar, Begun, Deep, Here
<1>4. ASSUME shown' = shown PROVE SeenInv' /\ Unmoved
  <2>1. Later'
    BY <1>1, <1>4, LaterSame DEF SeenInv
  <2> QED
    BY <1>1, <1>3, <1>4, <2>1, QuietStep, SeenNext DEF Unmoved
<1>5. ASSUME NEW name, WriteShown("builtin", name) PROVE SeenInv' /\ Written
  <2>1. Later'
    BY <1>1, <1>5, TypesAt, LaterAfter DEF SeenInv
  <2>2. HollowEarlier(k - 1)' <=> HollowEarlier(k - 1)
    BY <1>1, <1>5, TypesAt, WritingStep
  <2>3. Outer' = 2 /\ request' = request
    BY <1>1, <1>5, TypesAt, WritingStep
  <2> QED
    BY <1>1, <1>3, <2>1, <2>2, <2>3, SeenNext DEF Written
<1> QED
  BY <1>2, <1>4, <1>5, TypesAt, Grown

\* After it nothing is open that was not.
LEMMA EndBuiltinCount ==
  ASSUME ShowsInv, SeenInv, EndBuiltin
  PROVE  SeenInv' /\ Unmoved
<1>1. /\ pc = "builtin" /\ pc' = (IF Specified /\ found THEN "end" ELSE "enter") /\ place' = "own"
      /\ k' = k /\ UNCHANGED rigid /\ shown' = shown /\ n > Len(Builtin)
  BY DEF EndBuiltin
<1>2. Seen = {"builtin"} /\ (pc' = "enter" => Seen' = {"builtin"}) /\ (pc' = "end" => Seen' = Tags)
  BY <1>1 DEF Seen, Before
<1>3. Later'
  BY <1>1, <1>2, LaterSame DEF SeenInv, Tags
<1>4. Begun = Outer /\ Begun' = Outer'
  BY <1>1 DEF Begun
<1>5. Specified /\ found => Has(instance, "builtin")
  <2> SUFFICES ASSUME Specified, found PROVE Has(instance, "builtin")
    OBVIOUS
  <2>1. BuiltinShown
    BY <1>1 DEF ShowsInv, Progress
  <2>2. PICK j \in 1..(n - 1) : Builtin[j] = request.property
    BY <2>1 DEF BuiltinShown
  <2>3. j \in DOMAIN Builtin
    BY <1>1, <2>1, NamesAssumption, TypesAt DEF BuiltinShown
  <2> QED
    BY <2>2, <2>3 DEF Has, SoughtAt, Store, Range
<1>6. HollowSoFar <=> ~request.find /\ HollowEarlier(k - 1)
  BY <1>1 DEF HollowSoFar
<1>7. HollowSoFar' <=> ~request.find /\ HollowEarlier(k - 1)
  <2>1. CASE ~(Specified /\ found)
    BY <1>1, <2>1, QuietStep DEF HollowSoFar
  <2>2. CASE Specified /\ found
    <3>1. ~HollowCatalog' /\ ~HollowProperties' /\ ~HollowPackages(k)'
      BY <1>1, <1>5, <2>2, BuiltinHas, QuietStep
    <3> QED
      BY <1>1, <2>2, <3>1, QuietStep DEF HollowSoFar
  <2> QED
    BY <2>1, <2>2
<1> QED
  BY <1>1, <1>3, <1>4, <1>6, <1>7, QuietStep, SeenNext DEF Unmoved

\* property stores, which are passed
LEMMA LeaveCount ==
  ASSUME ShowsInv, SeenInv, pc \in {"enter", "leave"}, Leave,
         UNCHANGED rigid, k' = k, shown' = shown
  PROVE  /\ SeenInv' /\ Begun' = Outer
         /\ HollowSoFar' <=> HollowSoFar \/ (place # "own" /\ HollowStore(k, place, Before(place)))
<1>1. place \in Places /\ ~request.find
  BY DEF ShowsInv, Typed, TypeOK, Progress
<1>2. CASE place = "own"
  <2>1. pc' = "enter" /\ place' = "catalog"
    BY <1>2 DEF Leave, NextPlace
  <2>2. Seen \subseteq Seen'
    BY <1>2, <2>1 DEF Seen, Before
  <2>3. (HollowSoFar <=> HollowEarlier(k - 1)) /\ (HollowSoFar' <=> HollowEarlier(k - 1)')
    BY <1>1, <1>2, <2>1, QuietStep DEF HollowSoFar
  <2>4. Later' /\ Begun' = Outer'
    BY <2>1, <2>2, LaterSame DEF SeenInv, Begun
  <2> QED
    BY <1>2, <2>1, <2>3, <2>4, QuietStep, SeenNext
<1>3. CASE place = "catalog"
  <2>1. pc' = "enter" /\ place' = "properties"
    BY <1>3 DEF Leave, NextPlace
  <2>2. Seen \subseteq Seen'
    BY <1>3, <2>1 DEF Seen, Before
  <2>3. /\ HollowSoFar <=> HollowEarlier(k - 1)
        /\ HollowSoFar' <=> HollowEarlier(k - 1)' \/ HollowCatalog'
    BY <1>1, <1>3, <2>1, QuietStep DEF HollowSoFar
  <2>4. Later' /\ Begun' = Outer'
    BY <2>1, <2>2, LaterSame DEF SeenInv, Begun
  <2> QED
    BY <1>3, <2>1, <2>3, <2>4, QuietStep, SeenNext DEF HollowCatalog
<1>4. CASE place = "properties"
  <2>1. pc' = "packages"
    BY <1>4 DEF Leave
  <2>2. Seen \subseteq Seen'
    BY <1>4, <2>1 DEF Seen, Before
  <2>3. /\ HollowSoFar <=> HollowEarlier(k - 1) \/ HollowCatalog
        /\ HollowSoFar' <=> HollowEarlier(k - 1)' \/ HollowCatalog' \/ HollowProperties'
    BY <1>1, <1>4, <2>1, QuietStep DEF HollowSoFar
  <2>4. Later' /\ Begun' = Outer'
    BY <2>1, <2>2, LaterSame DEF SeenInv, Begun
  <2> QED
    BY <1>4, <2>1, <2>3, <2>4, QuietStep, SeenNext DEF HollowProperties
<1> QED
  BY <1>1, <1>2, <1>3, <1>4 DEF Places

\* A store that is passed has nothing in it that may end hollow.
LEMMA SkipStoreCount ==
  ASSUME ShowsInv, SeenInv, SkipStore
  PROVE  SeenInv' /\ Unmoved
<1>1. /\ pc = "enter" /\ Leave /\ k' = k /\ UNCHANGED rigid /\ shown' = shown
      /\ place \in Places
  BY DEF SkipStore, ShowsInv, Typed, TypeOK
<1>2. place # "own" => ~HollowStore(k, place, Before(place))
  <2> SUFFICES ASSUME place # "own" PROVE ~HollowStore(k, place, Before(place))
    OBVIOUS
  <2>1. CASE instance[place] = NoStore
    BY <1>1, <2>1, NotHollow
  <2>2. CASE Specified /\ found
    <3>1. FoundIn(Rank(place) - 1)
      BY <1>1 DEF ShowsInv, Progress, EnterShown
    <3>2. PICK i \in 1..(Rank(place) - 1) : Has(instance, Order[i])
      BY <2>2, <3>1 DEF FoundIn
    <3>3. i \in 1..3 /\ i < Rank(place)
      BY <1>1, RankIs
    <3> QED
      BY <1>1, <3>2, <3>3, HasBefore, NotHollow
  <2> QED
    BY <2>1, <2>2 DEF SkipStore
<1>3. Begun = Outer
  BY <1>1 DEF Begun
<1> QED
  BY <1>1, <1>2, <1>3, LeaveCount DEF Unmoved

\* entered,
LEMMA EnterStoreCount ==
  ASSUME ShowsInv, SeenInv, EnterStore
  PROVE  SeenInv' /\ Unmoved
<1>1. /\ pc = "enter" /\ pc' = "store" /\ place' = place /\ k' = k /\ UNCHANGED rigid
      /\ shown' = shown /\ place \in Places
  BY DEF EnterStore, ShowsInv, Typed, TypeOK
<1>2. Seen = Before(place) /\ Seen' = Before(place) \cup {place} /\ Before(place) \cap {place} = {}
  BY <1>1 DEF Seen, Before, Places
<1>3. Later'
  BY <1>1, <1>2, LaterSame DEF SeenInv
<1>4. ~OccursIn(k, {place})
  BY <1>2, NotSeen DEF SeenInv
<1>5. Begun = Outer /\ Begun' = Outer'
  <2>1. ~OccursIn(k, {place})'
    BY <1>1, <1>4, QuietStep
  <2> QED
    BY <1>1, <2>1 DEF Begun
<1>6. HollowSoFar' <=> HollowSoFar
  BY <1>1, QuietStep DEF HollowSoFar
<1> QED
  BY <1>1, <1>3, <1>5, <1>6, QuietStep, SeenNext DEF Unmoved

\* gone through,
LEMMA InStoreSeen ==
  ASSUME ShowsInv, SeenInv, pc = "store", pc' \in {"store", "leave"}, place' = place,
         k' = k, UNCHANGED rigid, Later'
  PROVE  SeenInv'
<1>1. place \in Places
  BY DEF ShowsInv, Typed, TypeOK
<1>2. Reached(instance, place)
  BY <1>1, ReachedIs DEF ShowsInv, Progress, StoreShown
<1>3. instance' = instance
  BY DEF instance, rigid
<1>4. Reached(instance, place)'
  BY <1>2, <1>3, MeaningSame
<1> QED
  BY <1>4 DEF SeenInv, PackagesSeen

\* Each name that is written starts its object,
LEMMA WriteNameCount ==
  ASSUME ShowsInv, SeenInv, WriteName
  PROVE  SeenInv' /\ (shown' = shown => Unmoved) /\ (shown' # shown => Written)
<1>1. /\ pc = "store" /\ pc' \in {"store", "leave"} /\ place' = place /\ k' = k /\ UNCHANGED rigid
      /\ place \in Places
  BY DEF WriteName, ShowsInv, Typed, TypeOK
<1>2. shown' = shown \/ \E name : WriteShown(place, name)
  BY DEF WriteName, WriteIfReadable
<1>3. Seen = Before(place) \cup {place} /\ Seen' = Seen
  BY <1>1 DEF Seen, Before
<1>4. /\ Begun = IF place # "own" /\ OccursIn(k, {place}) THEN 3 ELSE Outer
      /\ Begun' = IF place # "own" /\ OccursIn(k, {place})' THEN 3 ELSE Outer'
  BY <1>1 DEF Begun
<1>5. Deep(Here) = IF place = "own" THEN 2 ELSE 3
  BY <1>1 DEF Deep, Here, Places
<1>6. /\ HollowSoFar <=> ~request.find /\ (HollowEarlier(k - 1) \/ (place = "properties" /\ HollowCatalog))
      /\ HollowSoFar' <=>
           ~request'.find /\ (HollowEarlier(k - 1)' \/ (place = "properties" /\ HollowCatalog'))
  BY <1>1 DEF HollowSoFar
<1>7. ASSUME shown' = shown PROVE SeenInv' /\ Unmoved
  <2>1. Later'
    BY <1>1, <1>3, <1>7, LaterSame DEF SeenInv
  <2>2. SeenInv'
    BY <1>1, <2>1, InStoreSeen
  <2> QED
    BY <1>1, <1>4, <1>6, <1>7, <2>2, QuietStep DEF Unmoved
<1>8. ASSUME NEW name, WriteShown(place, name) PROVE SeenInv' /\ Written
  <2>1. Later'
    BY <1>1, <1>3, <1>8, TypesAt, LaterAfter DEF SeenInv
  <2>2. SeenInv'
    BY <1>1, <2>1, InStoreSeen
  <2>3. /\ HollowEarlier(k - 1)' <=> HollowEarlier(k - 1)
        /\ place = "properties" => (HollowCatalog' <=> HollowCatalog)
        /\ Outer' = 2 /\ request' = request
        /\ OccursIn(k, {place})' <=> OccursIn(k, {place}) \/ place \in {place}
    BY <1>1, <1>8, TypesAt, WritingStep
  <2> QED
    BY <1>1, <1>4, <1>5, <1>6, <2>2, <2>3 DEF Written
<1> QED
  BY <1>2, <1>7, <1>8, TypesAt, Grown

\* and one that is not found starts nothing.
LEMMA EndNamesCount ==
  ASSUME ShowsInv, SeenInv, EndNames
  PROVE  SeenInv' /\ Unmoved
<1>1. /\ pc = "store" /\ pc' = "leave" /\ place' = place /\ k' = k /\ UNCHANGED rigid
      /\ shown' = shown
  BY DEF EndNames
<1>2. Seen' = Seen
  BY <1>1 DEF Seen, Before
<1>3. SeenInv'
  BY <1>1, <1>2, LaterSame, InStoreSeen DEF SeenInv
<1>4. Begun' = Begun
  BY <1>1, QuietStep DEF Begun
<1>5. HollowSoFar' <=> HollowSoFar
  BY <1>1, QuietStep DEF HollowSoFar
<1> QED
  BY <1>3, <1>4, <1>5 DEF Unmoved

\* and left,
LEMMA LeaveStoreCount ==
  ASSUME ShowsInv, SeenInv, LeaveStore
  PROVE  SeenInv' /\ IF place = "own" THEN Unmoved ELSE Ended
<1>1. /\ pc = "leave" /\ Leave /\ k' = k /\ UNCHANGED rigid /\ shown' = shown
      /\ place \in Places /\ instance[place] # NoStore /\ ~request.find
  BY DEF LeaveStore, ShowsInv, Typed, TypeOK, Progress
<1>2. /\ SeenInv' /\ Begun' = Outer
      /\ HollowSoFar' <=> HollowSoFar \/ (place # "own" /\ HollowStore(k, place, Before(place)))
  BY <1>1, LeaveCount
<1>3. Begun = IF place # "own" /\ OccursIn(k, {place}) THEN 3 ELSE Outer
  BY <1>1 DEF Begun
<1>4. CASE place = "own"
  BY <1>2, <1>3, <1>4 DEF Unmoved
<1>5. CASE place # "own"
  <2>1. Deep(Here) = 3 /\ Deep(Here) - 1 = 2
    BY <1>1, <1>5 DEF Deep, Here, Places
  <2>2. OccursIn(k, {place}) => Occurs(k)
    BY DEF OccursIn, Occurs
  <2>3. Begun' = AtMost(Begun, 2)
    BY <1>2, <1>3, <1>5, <2>2 DEF AtMost, Outer
  <2>4. ~OccursIn(k, {place}) => (Occurs(k) <=> OccursIn(k, Before(place)))
    <3>1. Seen = Before(place) \cup {place}
      BY <1>1 DEF Seen
    <3>2. \A i \in DOMAIN shown : shown[i].instance = k => shown[i].place \in Before(place) \cup {place}
      BY <3>1 DEF SeenInv, Later
    <3> QED
      BY <3>2 DEF OccursIn, Occurs
  <2>5. HollowStore(k, place, Before(place)) <=> ~OccursIn(k, {place}) /\ OccursIn(k, Before(place))
    <3>1. Reached(instance, place)
      BY <1>1 DEF SeenInv
    <3> QED
      BY <1>1, <3>1 DEF HollowStore, instance
  <2>6. Occurs(k) => shown # <<>>
    BY DEF Occurs
  <2>7. Parted > 0 /\ Begun = 2 <=> ~OccursIn(k, {place}) /\ Occurs(k)
    BY <1>3, <1>5, <2>6 DEF Parted, Outer
  <2> QED
    BY <1>2, <1>5, <2>1, <2>3, <2>4, <2>5, <2>7 DEF Ended
<1> QED
  BY <1>2, <1>4, <1>5

\* and packages, which start after all of them,
LEMMA StartPackagesCount ==
  ASSUME ShowsInv, SeenInv, StartPackages, request.format = "json"
  PROVE  SeenInv' /\ Unmoved
<1>1. /\ pc = "packages" /\ k' = k /\ UNCHANGED rigid /\ shown' = shown /\ ~request.find
      /\ Seen = {"builtin", "own", "catalog", "properties"}
  BY DEF StartPackages, ShowsInv, Progress, Seen
<1>2. /\ HollowSoFar <=> HollowEarlier(k - 1) \/ HollowCatalog \/ HollowProperties
      /\ Begun = Outer
  BY <1>1 DEF HollowSoFar, Begun
<1>3. ~OccursIn(k, {"packages"}) /\ ~OccursIn(k, {"packages"})'
  <2>1. {"packages"} \cap Seen = {}
    BY <1>1
  <2>2. ~OccursIn(k, {"packages"})
    BY <2>1, NotSeen DEF SeenInv
  <2> QED
    BY <1>1, <2>2, QuietStep
<1>4. CASE pc' = "package" /\ n' = 1 /\ instance.packages # <<>>
  <2>1. ~Filled(n - 1)' /\ ~HollowPackage(n - 1)'
    BY <1>4 DEF Filled, HollowPackage
  <2>2. Seen' = Tags
    BY <1>4 DEF Seen
  <2>3. Later'
    BY <1>1, <2>2, LaterSame DEF SeenInv, Tags, Places
  <2>4. SeenInv'
    BY <1>1, <1>3, <1>4, <2>1, <2>3, QuietStep DEF SeenInv, PackagesSeen
  <2>5. Begun' = Outer'
    BY <1>3, <1>4 DEF Begun
  <2>6. HollowSoFar' <=> ~request'.find
                           /\ (HollowEarlier(k - 1)' \/ HollowCatalog' \/ HollowProperties')
    BY <1>4, <2>1 DEF HollowSoFar
  <2> QED
    BY <1>1, <1>2, <2>4, <2>5, <2>6, QuietStep DEF Unmoved
<1>5. CASE pc' = "end" /\ ~(WritesPackages /\ instance.packages # <<>>)
  <2>1. ~HollowPackages(k)
    BY <1>5 DEF HollowPackages, WritesPackages, SupportsPackages, instance
  <2>2. Seen' = Tags
    BY <1>5 DEF Seen
  <2>3. Later'
    BY <1>1, <2>2, LaterSame DEF SeenInv, Tags, Places
  <2>4. Begun' = Outer'
    BY <1>5 DEF Begun
  <2>5. HollowSoFar' <=> ~request'.find
          /\ (HollowEarlier(k - 1)' \/ HollowCatalog' \/ HollowProperties' \/ HollowPackages(k)')
    BY <1>5 DEF HollowSoFar
  <2> QED
    BY <1>1, <1>2, <1>5, <2>1, <2>3, <2>4, <2>5, QuietStep, SeenNext DEF Unmoved
<1> QED
  BY <1>4, <1>5 DEF StartPackages, WritesPackages

\* The object of a package is not started yet,
LEMMA StartPackageCount ==
  ASSUME ShowsInv, SeenInv, StartPackage
  PROVE  SeenInv' /\ Unmoved
<1>1. /\ pc = "package" /\ pc' = "inside" /\ k' = k /\ n' = n /\ m' = 1 /\ UNCHANGED rigid
      /\ shown' = shown /\ Seen = Tags /\ Seen' = Tags
  BY DEF StartPackage, Seen
<1>2. Later'
  BY <1>1, LaterSame DEF SeenInv
<1>3. SeenInv'
  BY <1>1, <1>2, QuietStep DEF SeenInv, PackagesSeen
<1>4. Begun' = Begun
  BY <1>1, QuietStep DEF Begun
<1>5. HollowSoFar' <=> HollowSoFar
  BY <1>1, QuietStep DEF HollowSoFar
<1> QED
  BY <1>3, <1>4, <1>5 DEF Unmoved

\* until a property of it is written.
LEMMA WritePackagePropertyCount ==
  ASSUME ShowsInv, SeenInv, WritePackageProperty
  PROVE  SeenInv' /\ Written
<1>1. /\ pc = "inside" /\ pc' = "inside" /\ k' = k /\ n' = n /\ m' = m + 1 /\ UNCHANGED rigid
      /\ Seen = Tags /\ Seen' = Tags /\ "packages" \in Tags
  BY DEF WritePackageProperty, Seen, Tags
<1>2. PICK name : WriteShown("packages", name)
  BY DEF WritePackageProperty
<1>3. Later'
  BY <1>1, <1>2, TypesAt, LaterAfter DEF SeenInv
<1>4. /\ HollowEarlier(k - 1)' <=> HollowEarlier(k - 1)
      /\ HollowCatalog' <=> HollowCatalog
      /\ HollowProperties' <=> HollowProperties
      /\ HollowPackage(n - 1)' <=> HollowPackage(n - 1)
      /\ OccursIn(k, {"packages"})' /\ request' = request
  BY <1>1, <1>2, TypesAt, WritingStep
<1>5. m' > 1
  BY <1>1, TypesAt
<1>6. SeenInv'
  BY <1>1, <1>3, <1>4, <1>5 DEF SeenInv, PackagesSeen
<1>7. Begun' = 4 /\ Deep(Here) = 4
  BY <1>1, <1>5 DEF Begun, Deep, Here
<1>8. HollowSoFar' <=> HollowSoFar
  BY <1>1, <1>4 DEF HollowSoFar
<1> QED
  BY <1>6, <1>7, <1>8 DEF Written

\* one by one,
LEMMA FilledNext ==
  ASSUME n \in Nat, n > 0
  PROVE  /\ Filled(n) <=> Filled(n - 1) \/ instance.packages[n] # <<>>
         /\ HollowPackage(n) <=> HollowPackage(n - 1) \/ (instance.packages[n] = <<>> /\ Filled(n - 1))
<1>1. \A i : i \in 1..n <=> i \in 1..(n - 1) \/ i = n
  OBVIOUS
<1> QED
  BY <1>1 DEF Filled, HollowPackage

\* It ends hollow when it has none and a package before it had one.
LEMMA EndPackageCount ==
  ASSUME ShowsInv, SeenInv, EndPackage
  PROVE  SeenInv' /\ Ended
<1>1. /\ pc = "inside" /\ pc' = "package" /\ k' = k /\ n' = n + 1 /\ UNCHANGED rigid
      /\ shown' = shown /\ Seen = Tags /\ Seen' = Tags /\ ~request.find
      /\ m > Len(instance.packages[n])
  BY DEF EndPackage, Seen, ShowsInv, Progress
<1>2. Later'
  BY <1>1, LaterSame DEF SeenInv
<1>3. m > 1 <=> instance.packages[n] # <<>>
  <2>1. m <= Len(instance.packages[n]) + 1
    BY <1>1 DEF ShowsInv, Progress, InsideShown
  <2>2. n \in 1..Len(instance.packages) /\ instance.packages \in Seq(Seq(Names))
    BY <1>1, AtPackages DEF ShowsInv, Typed, instance
  <2>3. instance.packages[n] \in Seq(Names)
    BY <2>2
  <2> DEFINE size == Len(instance.packages[n])
  <2>4. size \in Nat /\ (size = 0 <=> instance.packages[n] = <<>>)
    BY <2>3
  <2> HIDE DEF size
  <2>5. m > size /\ m <= size + 1 /\ m \in Nat
    BY <1>1, <2>1, TypesAt DEF size
  <2>6. m > 1 <=> size # 0
    BY <2>4, <2>5
  <2> QED
    BY <2>4, <2>6
<1>4. n' - 1 = n /\ n \in Nat /\ n > 0
  BY <1>1, TypesAt
<1>5. OccursIn(k, {"packages"}) <=> Filled(n)
  BY <1>1, <1>3, <1>4, FilledNext DEF SeenInv, PackagesSeen
<1>6. instance.packages # <<>>
  BY <1>1, AtPackages DEF ShowsInv, Typed, instance
<1>7. SeenInv'
  <2>1. Filled(n - 1)' <=> Filled(n)
    BY <1>1, <1>4, QuietStep
  <2>2. instance.packages' # <<>> /\ (OccursIn(k, {"packages"})' <=> Filled(n - 1)')
    BY <1>1, <1>5, <1>6, <2>1, QuietStep
  <2> QED
    BY <1>1, <1>2, <2>2 DEF SeenInv, PackagesSeen
<1>8. /\ Begun = IF m > 1 THEN 4 ELSE IF OccursIn(k, {"packages"}) THEN 3 ELSE Outer
      /\ Begun' = IF OccursIn(k, {"packages"}) THEN 3 ELSE Outer
      /\ Deep(Here) = 4 /\ Deep(Here) - 1 = 3
  BY <1>1, QuietStep DEF Begun, Deep, Here
<1>9. Begun' = AtMost(Begun, 3)
  BY <1>3, <1>4, <1>5, <1>8, FilledNext DEF AtMost, Outer
<1>10. OccursIn(k, {"packages"}) => shown # <<>>
  BY DEF OccursIn
<1>11. Parted > 0 /\ Begun = 3 <=> instance.packages[n] = <<>> /\ Filled(n - 1)
  BY <1>3, <1>4, <1>5, <1>8, <1>10, FilledNext DEF Parted, Outer
<1>12. /\ HollowSoFar <=> HollowEarlier(k - 1) \/ HollowCatalog \/ HollowProperties \/ HollowPackage(n - 1)
       /\ HollowSoFar' <=> HollowEarlier(k - 1) \/ HollowCatalog \/ HollowProperties \/ HollowPackage(n)
  <2>1. HollowPackage(n - 1)' <=> HollowPackage(n)
    BY <1>1, <1>4, QuietStep
  <2>2. HollowSoFar' <=> ~request'.find
          /\ (HollowEarlier(k - 1)' \/ HollowCatalog' \/ HollowProperties' \/ HollowPackage(n - 1)')
    BY <1>1 DEF HollowSoFar
  <2> QED
    BY <1>1, <2>1, <2>2, QuietStep DEF HollowSoFar
<1> QED
  BY <1>4, <1>7, <1>8, <1>9, <1>11, <1>12, FilledNext DEF Ended

\* The array of packages ends hollow when none of them had any.
LEMMA EndPackagesCount ==
  ASSUME ShowsInv, SeenInv, EndPackages
  PROVE  SeenInv' /\ Ended
<1>1. /\ pc = "package" /\ pc' = "end" /\ k' = k /\ UNCHANGED rigid
      /\ shown' = shown /\ Seen = Tags /\ Seen' = Tags /\ ~request.find
      /\ n > Len(instance.packages)
  BY DEF EndPackages, Seen, ShowsInv, Progress
<1>2. Later'
  BY <1>1, LaterSame DEF SeenInv
<1>3. /\ Begun = IF OccursIn(k, {"packages"}) THEN 3 ELSE Outer
      /\ Begun' = Outer /\ Deep(Here) = 3 /\ Deep(Here) - 1 = 2
  BY <1>1, QuietStep DEF Begun, Deep, Here
<1>4. OccursIn(k, {"packages"}) => Occurs(k)
  BY DEF OccursIn, Occurs
<1>5. Begun' = AtMost(Begun, 2)
  BY <1>3, <1>4 DEF AtMost, Outer
<1>6. Occurs(k) => shown # <<>>
  BY DEF Occurs
<1>7. Parted > 0 /\ Begun = 2 <=> ~OccursIn(k, {"packages"}) /\ Occurs(k)
  BY <1>3, <1>6 DEF Parted, Outer
<1>8. HollowPackages(k) <=>
        HollowPackage(n - 1) \/ (~OccursIn(k, {"packages"}) /\ Occurs(k))
  <2>1. WritesPackages /\ ~Has(instance, "builtin") /\ n <= Len(instance.packages) + 1
    BY <1>1 DEF ShowsInv, Progress, PackageShown
  <2>2. instance.packages # <<>>
    BY <1>1 DEF SeenInv, PackagesSeen
  <2>3. instance.packages \in Seq(Seq(Names)) /\ Len(instance.packages) \in Nat /\ n \in Nat
    BY <1>1, AtPackages
  <2>4. n - 1 = Len(instance.packages)
    BY <1>1, <2>1, <2>3
  <2>5. DOMAIN instance.packages = 1..(n - 1)
    BY <2>3, <2>4
  <2> QED
    BY <2>1, <2>2, <2>5 DEF HollowPackages, HollowPackage, Filled, WritesPackages, instance
<1>9. /\ HollowSoFar <=> HollowEarlier(k - 1) \/ HollowCatalog \/ HollowProperties \/ HollowPackage(n - 1)
      /\ HollowSoFar' <=> HollowEarlier(k - 1) \/ HollowCatalog \/ HollowProperties \/ HollowPackages(k)
  BY <1>1, QuietStep DEF HollowSoFar
<1> QED
  BY <1>1, <1>2, <1>3, <1>5, <1>7, <1>8, <1>9, SeenNext DEF Ended

\* What each step does to the counts, by what it does to the formatter.
Counts ==
  \/ Roots /\ Begun' = 1 /\ ~HollowSoFar'
  \/ (Rests \/ Opens) /\ shown' = shown /\ Unmoved
  \/ Puts /\ shown' # shown /\ Written
  \/ Closes /\ Ended

\* The steps of the loop over instances, and those over files.
LEMMA OuterCounts ==
  ASSUME ShowsInv, SeenInv, request.format = "json", pc # "thrown", pc' # "thrown",
         \/ Start \/ StartFiles \/ WriteFile \/ EndFiles \/ StartInstance \/ End \/ EndInstance
         \/ Done \/ UNCHANGED vars
  PROVE  SeenInv' /\ Counts
<1>1. request.format \in Formatters
  BY DEF Formatters
<1>2. CASE Start
  BY <1>1, <1>2, OuterMoves, StartCount DEF Counts
<1>3. CASE StartFiles \/ EndFiles
  BY <1>1, <1>3, OuterMoves, FilesCount DEF Counts, Unmoved, Rests
<1>4. CASE WriteFile
  <2>1. shown' # shown
    BY <1>4, TypesAt, Grown DEF WriteFile
  <2> QED
    BY <1>1, <1>4, <2>1, OuterMoves, FilesCount DEF Counts, Written
<1>5. CASE StartInstance
  BY <1>1, <1>5, OuterMoves, StartInstanceCount DEF Counts, Opens
<1>6. CASE End
  BY <1>1, <1>6, OuterMoves, EndCount DEF Counts
<1>7. CASE EndInstance
  BY <1>1, <1>7, OuterMoves, EndInstanceCount DEF Counts
<1>8. CASE Done \/ UNCHANGED vars
  <2>1. /\ k' = k /\ UNCHANGED rigid /\ shown' = shown /\ pc' = pc /\ place' = place
        /\ n' = n /\ m' = m
    BY <1>8 DEF Done, vars
  <2>2. Seen' = Seen
    BY <2>1 DEF Seen, Before
  <2>3. Later'
    BY <2>1, <2>2, LaterSame DEF SeenInv
  <2>4. SeenInv'
    BY <2>1, <2>3, QuietStep, MeaningSame DEF SeenInv, PackagesSeen
  <2>5. Begun' = Begun
    BY <2>1, QuietStep DEF Begun
  <2>6. HollowSoFar' <=> HollowSoFar
    BY <2>1, QuietStep DEF HollowSoFar
  <2> QED
    BY <1>1, <1>8, <2>1, <2>4, <2>5, <2>6, OuterMoves DEF Counts, Unmoved
<1> QED
  BY <1>2, <1>3, <1>4, <1>5, <1>6, <1>7, <1>8

\* The steps that write what every instance has, and its stores.
LEMMA InnerCounts ==
  ASSUME ShowsInv, SeenInv, request.format = "json", pc # "thrown", pc' # "thrown",
         \/ WriteBuiltin \/ EndBuiltin \/ SkipStore \/ FailStore \/ EnterStore \/ WriteName
         \/ EndNames \/ LeaveStore
  PROVE  SeenInv' /\ Counts
<1>1. request.format \in Formatters
  BY DEF Formatters
<1>2. CASE WriteBuiltin \/ WriteName
  <2>1. (Rests /\ shown' = shown) \/ (Puts /\ shown' # shown)
    BY <1>1, <1>2, StoreMoves, TypesAt, Grown DEF Rests, Puts
  <2> QED
    BY <1>2, <2>1, WriteBuiltinCount, WriteNameCount DEF Counts
<1>3. CASE EndBuiltin \/ SkipStore \/ EndNames
  BY <1>1, <1>3, StoreMoves, EndBuiltinCount, SkipStoreCount, EndNamesCount DEF Counts, Rests
<1>4. CASE FailStore
  BY <1>4 DEF FailStore, Throw
<1>5. CASE EnterStore
  BY <1>1, <1>5, StoreMoves, EnterStoreCount DEF Counts, Rests, Opens
<1>6. CASE LeaveStore
  BY <1>1, <1>6, StoreMoves, LeaveStoreCount DEF Counts, Rests
<1> QED
  BY <1>2, <1>3, <1>4, <1>5, <1>6

\* The steps that write packages.
LEMMA PackageCounts ==
  ASSUME ShowsInv, SeenInv, request.format = "json", pc # "thrown",
         StartPackages \/ StartPackage \/ WritePackageProperty \/ EndPackage \/ EndPackages
  PROVE  SeenInv' /\ Counts
<1>1. request.format \in Formatters
  BY DEF Formatters
<1>2. CASE StartPackages
  BY <1>1, <1>2, PackageMoves, StartPackagesCount DEF Counts, Rests, Opens
<1>3. CASE StartPackage
  BY <1>1, <1>3, PackageMoves, StartPackageCount DEF Counts, Opens
<1>4. CASE WritePackageProperty
  <2>1. shown' # shown
    BY <1>4, TypesAt, Grown DEF WritePackageProperty
  <2> QED
    BY <1>1, <1>4, <2>1, PackageMoves, WritePackagePropertyCount DEF Counts
<1>5. CASE EndPackage
  BY <1>1, <1>5, PackageMoves, EndPackageCount DEF Counts
<1>6. CASE EndPackages
  BY <1>1, <1>6, PackageMoves, EndPackagesCount DEF Counts
<1> QED
  BY <1>2, <1>3, <1>4, <1>5, <1>6

\* So it is for every step.
LEMMA NextCounts ==
  ASSUME ShowsInv, SeenInv, request.format = "json", pc # "thrown", pc' # "thrown", [Next]_vars
  PROVE  SeenInv' /\ Counts
  BY OuterCounts, InnerCounts, PackageCounts DEF Next

\* The counts are those of the formatter, and hollow is exactly a document that is
\* not JSON.
Exact == OnTop(formatter, Here, Begun, Parted, HollowSoFar)
ExactInv == pc # "thrown" /\ request.format = "json" => SeenInv /\ Exact

\* It matters only whether something is hollow, not how that is said.
LEMMA SameJudgement ==
  ASSUME NEW f, NEW top, NEW s, NEW q, NEW hollow, NEW other, hollow <=> other,
         OnTop(f, top, s, q, hollow)
  PROVE  OnTop(f, top, s, q, other)
  BY DEF OnTop, Judges

\* What holds of the values after a step.
LEMMA ExactAfter ==
  ASSUME request' = request, OnTop(formatter', Here', Begun', Parted', HollowSoFar')
  PROVE  Exact'
  BY SameScopes DEF Exact, OnTop

\* An empty document has nothing hollow in it.
LEMMA InitExact == Init => ExactInv
<1> SUFFICES ASSUME Init, request.format = "json" PROVE SeenInv /\ Exact
  BY DEF ExactInv
<1>1. /\ pc = "start" /\ shown = <<>> /\ k = 0 /\ formatter = Create(request.format)
  BY DEF Init
<1>2. SeenInv
  BY <1>1 DEF SeenInv, Later, PackagesSeen
<1>3. Begun = 0 /\ Parted = 0 /\ Here = "nothing" /\ Deep("nothing") = 0
  BY <1>1 DEF Begun, Parted, Here, Deep
<1>4. ~HollowSoFar
  <2>1. ~HollowEarlier(0 - 1)
    BY DEF HollowEarlier
  <2> QED
    BY <1>1, <2>1 DEF HollowSoFar
<1>5. Stands(formatter, "nothing", 0, 0) /\ Judges(FALSE, formatter.text, 0, 0, 0)
  BY <1>1, CreatedAt DEF Formatters
<1>6. OnTop(formatter, "nothing", 0, 0, FALSE)
  BY <1>3, <1>5 DEF OnTop
<1> QED
  BY <1>2, <1>3, <1>4, <1>6, SameJudgement DEF Exact

\* Each step counts as the formatter does.
LEMMA NextExact == ShowsInv /\ DocInv /\ ExactInv /\ [Next]_vars => ExactInv'
<1> SUFFICES ASSUME ShowsInv, DocInv, ExactInv, [Next]_vars, pc' # "thrown",
                    request'.format = "json"
             PROVE  SeenInv' /\ Exact'
  BY DEF ExactInv
<1>1. request' = request /\ request.format = "json" /\ request.format \in Formatters
  BY NextMoves
<1>2. pc # "thrown"
  BY NextMoves DEF vars
<1>3. SeenInv /\ Exact
  BY <1>1, <1>2 DEF ExactInv
<1>4. SeenInv' /\ Counts
  BY <1>1, <1>2, <1>3, NextCounts
<1>5. ASSUME NEW h, OnTop(formatter', Here', Begun', Parted', h), HollowSoFar' <=> h
      PROVE  Exact'
  <2>1. OnTop(formatter', Here', Begun', Parted', HollowSoFar')
    BY <1>5, SameJudgement
  <2> QED
    BY <1>1, <2>1, ExactAfter
<1>6. OnTop(formatter, Here, Begun, Parted, HollowSoFar)
  BY <1>3 DEF Exact
<1>7. CASE Roots /\ Begun' = 1 /\ ~HollowSoFar'
  <2>1. pc = "start" /\ shown' = shown /\ shown = <<>>
    BY <1>7 DEF Roots, DocInv
  <2>2. OnTop(formatter', Here', 1, 0, FALSE)
    BY <1>1, <1>7, <2>1, RootsOnTop
  <2>3. Parted' = 0
    BY <2>1 DEF Parted
  <2> QED
    BY <1>4, <1>5, <1>7, <2>2, <2>3
<1>8. CASE (Rests \/ Opens) /\ shown' = shown /\ Unmoved
  <2>1. Begun' = Begun /\ Parted' = Parted /\ (HollowSoFar' <=> HollowSoFar)
    BY <1>8 DEF Unmoved, Parted
  <2>2. OnTop(formatter', Here', Begun, Parted, HollowSoFar)
    <3>1. CASE Rests
      BY <1>6, <3>1 DEF Rests
    <3>2. CASE Opens
      BY <1>1, <1>6, <3>2, OpensOnTop
    <3> QED
      BY <1>8, <3>1, <3>2
  <2> QED
    BY <1>4, <1>5, <2>1, <2>2
<1>9. CASE Puts /\ shown' # shown /\ Written
  <2>1. PICK where, name : WriteShown(where, name)
    BY <1>9 DEF Puts
  <2>2. OnTop(formatter', Here', Deep(Here), Deep(Here), HollowSoFar)
    BY <1>1, <1>6, <1>9, <2>1, PutsOnTop
  <2>3. shown' # <<>>
    BY <2>1, TypesAt, OccursAfter
  <2>4. Begun' = Deep(Here) /\ Parted' = Deep(Here) /\ (HollowSoFar' <=> HollowSoFar)
    BY <1>9, <2>3 DEF Written, Parted
  <2> QED
    BY <1>4, <1>5, <2>2, <2>4
<1>10. CASE Closes /\ Ended
  <2> DEFINE size == Deep(Here) - 1
  <2>1. shown' = shown /\ size \in Nat
    BY <1>10 DEF Closes, Deep, Tops, Nested
  <2>2. /\ Begun' = AtMost(Begun, size)
        /\ HollowSoFar' <=> HollowSoFar \/ (Parted > 0 /\ Begun = size)
    BY <1>10 DEF Ended
  <2> HIDE DEF size
  <2>3. Parted' = AtMost(Parted, size)
    <3>1. CASE shown = <<>>
      BY <2>1, <3>1 DEF Parted, AtMost
    <3>2. CASE shown # <<>>
      BY <2>1, <2>2, <3>2 DEF Parted
    <3> QED
      BY <3>1, <3>2
  <2>4. OnTop(formatter', Here', AtMost(Begun, size), AtMost(Parted, size),
              HollowSoFar \/ (Parted > 0 /\ Begun = size))
    <3>1. size = Deep(Here) - 1
      BY DEF size
    <3> QED
      BY <1>1, <1>6, <1>10, <3>1, ClosesOnTop
  <2> QED
    BY <1>4, <1>5, <2>2, <2>3, <2>4
<1> QED
  BY <1>4, <1>7, <1>8, <1>9, <1>10 DEF Counts

\* At the end hollow is what the meaning of a finished document says.
LEMMA HollowAtEnd ==
  ASSUME pc = "done", k = Len(instances), instances \in Seq(Answers)
  PROVE  HollowSoFar <=> ~request.find /\ Hollow
<1>1. DOMAIN instances = 1..k
  OBVIOUS
<1>2. Before("catalog") = {"builtin", "own"} /\ Before("properties") = {"builtin", "own", "catalog"}
  BY DEF Before
<1>3. HollowEarlier(k) <=> Hollow
  BY <1>1, <1>2 DEF HollowEarlier, HollowBefore, Hollow
<1> QED
  BY <1>3 DEF HollowSoFar

\* A finished document of JSON is JSON exactly when no empty object, and no empty array
\* of packages, follows something in the same one.
THEOREM JsonIsKnown == Spec => []JsonUnlessHollow
<1>1. ASSUME ShowsInv, DocInv, ExactInv PROVE JsonUnlessHollow
  <2> SUFFICES ASSUME pc = "done", request.format = "json"
               PROVE  IsJson(formatter.text) <=> request.find \/ ~Hollow
    BY DEF JsonUnlessHollow
  <2>1. SeenInv /\ Exact
    BY <1>1 DEF ExactInv
  <2>2. Begun = 0 /\ Parted = 0 /\ Here = "nothing" /\ Deep("nothing") = 0
    BY DEF Begun, Parted, Here, Deep
  <2>3. Stands(formatter, "nothing", 0, 0) /\ Judges(HollowSoFar, formatter.text, 0, 0, 0)
    BY <2>1, <2>2 DEF Exact, OnTop
  <2>4. Read(formatter.text).open = <<>> /\ Read(formatter.text).balanced
    BY <2>3, FinishedText
  <2>5. Read(formatter.text).outside = <<"open">>
    BY <1>1 DEF DocInv, Outside
  <2>6. Read(formatter.text).legal <=> ~HollowSoFar
    BY <2>3 DEF Judges, Sound, Broken
  <2>7. HollowSoFar <=> ~request.find /\ Hollow
    <3>1. k = Len(instances) /\ instances \in Seq(Answers)
      BY <1>1, <2>1, MachinesAssumption DEF SeenInv, ShowsInv, Typed, TypeOK
    <3> QED
      BY <3>1, HollowAtEnd
  <2> QED
    BY <2>4, <2>5, <2>6, <2>7 DEF IsJson, IsDocument
<1> QED
  BY <1>1, InitShows, NextShows, InitDoc, NextDoc, InitExact, NextExact, PTL DEF Spec
====
