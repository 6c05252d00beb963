------------------------------- MODULE Values -------------------------------
(***************************************************************************)
(* The values of properties: the getters of m_properties ask an instance   *)
(* through its interfaces and leave the answer in one VARIANT, which the   *)
(* loop of WriteInternal uses for all of them and WriteProperty reads by   *)
(* its type; those of a property store come in a VARIANT of their own.     *)
(* LegacyInstance is one kind of instance.                                 *)
(*                                                                         *)
(* A text is a sequence of characters, which JsonFormatter escapes.        *)
(* A VARIANT has a type and two halves of data, as many bits wide as Half  *)
(* says; what is not written of it holds what was in memory before.        *)
(***************************************************************************)
EXTENDS Integers, Sequences

CONSTANTS
  Quote, Backslash, LetterN, NewLine,  \* characters, as in Escape
  Null,        \* a BSTR that is NULL
  Failure,     \* a method fails, or an interface is not there
  DateText,    \* how a date is formatted, or Failure when it throws
  Prefix,      \* the text "VisualStudio.", as one character
  Half,        \* how many numbers half a VARIANT's data holds
  Memory       \* what the other half may hold

TextMethods == {"GetInstanceId", "GetInstallationName", "GetInstallationPath",
                "GetInstallationVersion", "GetDisplayName", "GetDescription"}
ProductMethods == {"GetProductId", "GetProductPath", "ResolvePath"}
FlagMethods == {"IsComplete", "IsLaunchable", "IsPrerelease"}
Methods == TextMethods \cup ProductMethods \cup FlagMethods
             \cup {"GetInstallDate", "GetProduct", "GetState"}

\* VARIANT_TRUE; VARIANT_FALSE is 0.
True == -1
NoRebootRequired == 4

Numbers == {"I1", "I2", "I4", "I8", "UI1", "UI2", "UI4"}

VARIABLES
  pInstance,   \* the instance: its interfaces, its methods' answers, its store
  n,           \* the next property
  vtValue,     \* the local variable
  shown,       \* the properties written
  pc           \* the control point

vars == <<pInstance, n, vtValue, shown, pc>>

E == INSTANCE Escape

Empty == [vt |-> "EMPTY", low |-> 0, high |-> 0]
Variant(vt, low, high) == [vt |-> vt, low |-> low, high |-> high]

\* The template of the methods a legacy instance does not have.
NotImplemented == Failure

\* QueryInterface of a legacy instance knows ISetupInstance only.
HasInterface(interface) == interface = "ISetupInstance"

LegacyInstance(version, path) ==
  [isInstance2 |-> HasInterface("ISetupInstance2"),
   isCatalog |-> HasInterface("ISetupInstanceCatalog"),
   isLegacy |-> TRUE,
   answer |-> [method \in Methods |->
                 CASE method = "GetInstanceId" -> <<Prefix>> \o version
                   [] method = "GetInstallationPath" -> path
                   [] method = "GetInstallationVersion" -> version
                   [] OTHER -> NotImplemented],
   store |-> <<>>]

answer(method) == pInstance.answer[method]

-----------------------------------------------------------------------------
(* The getters: whether they succeed, and the VARIANT unless it is untouched *)

Failed == [ok |-> FALSE, set |-> FALSE, value |-> Empty]
Untouched == [ok |-> TRUE, set |-> FALSE, value |-> Empty]
Set(value) == [ok |-> TRUE, set |-> TRUE, value |-> value]

GetStringProperty(method) ==
  IF answer(method) = Failure THEN {Failed} ELSE {Set(Variant("BSTR", answer(method), 0))}

\* A date that cannot be formatted throws.
GetInstallDate ==
  CASE answer("GetInstallDate") = Failure -> {Failed}
    [] answer("GetInstallDate") # Failure ->
         LET text == DateText[answer("GetInstallDate")]
         IN  IF text = <<>> THEN {Untouched}
             ELSE IF text = Failure THEN {}
             ELSE {Set(Variant("BSTR", text, 0))}

\* Of an instance without a product the identifier is left as it is.
GetProductId ==
  IF ~pInstance.isInstance2 \/ answer("GetProduct") = Failure THEN {Failed}
  ELSE IF answer("GetProduct") = Null THEN {Untouched}
  ELSE GetStringProperty("GetProductId")

GetProductPath ==
  IF ~pInstance.isInstance2 \/ answer("GetProductPath") = Failure THEN {Failed}
  ELSE IF answer("GetProductPath") = Null THEN {Untouched}
  ELSE GetStringProperty("ResolvePath")

\* Only half of the VARIANT is written.
GetState ==
  IF ~pInstance.isInstance2 \/ answer("GetState") = Failure THEN {Failed}
  ELSE {Set(Variant("UI4", answer("GetState"), rest)) : rest \in Memory}

GetFlag(interface, method) ==
  IF ~interface \/ answer(method) = Failure THEN {Failed}
  ELSE {Set(Variant("BOOL", answer(method), 0))}

GetIsComplete == GetFlag(pInstance.isInstance2, "IsComplete")
GetIsLaunchable == GetFlag(pInstance.isInstance2, "IsLaunchable")
GetIsPrerelease == GetFlag(pInstance.isCatalog, "IsPrerelease")

GetIsRebootRequired ==
  IF ~pInstance.isInstance2 \/ answer("GetState") = Failure THEN {Failed}
  ELSE {Set(Variant("BOOL", IF (answer("GetState") \div NoRebootRequired) % 2 = 0 THEN True ELSE 0, 0))}

Properties ==
  <<"instanceId", "installDate", "installationName", "installationPath", "installationVersion",
    "productId", "productPath", "state", "isComplete", "isLaunchable", "isPrerelease",
    "isRebootRequired", "displayName", "description">>

Getter(property) ==
  CASE property = "instanceId"          -> GetStringProperty("GetInstanceId")
    [] property = "installDate"         -> GetInstallDate
    [] property = "installationName"    -> GetStringProperty("GetInstallationName")
    [] property = "installationPath"    -> GetStringProperty("GetInstallationPath")
    [] property = "installationVersion" -> GetStringProperty("GetInstallationVersion")
    [] property = "productId"           -> GetProductId
    [] property = "productPath"         -> GetProductPath
    [] property = "state"               -> GetState
    [] property = "isComplete"          -> GetIsComplete
    [] property = "isLaunchable"        -> GetIsLaunchable
    [] property = "isPrerelease"        -> GetIsPrerelease
    [] property = "isRebootRequired"    -> GetIsRebootRequired
    [] property = "displayName"         -> GetStringProperty("GetDisplayName")
    [] property = "description"         -> GetStringProperty("GetDescription")

-----------------------------------------------------------------------------
(* Writing                                                                  *)

\* WriteInternal of an instance: the variables are new.
Begin(instance) ==
  /\ pInstance' = instance
  /\ n' = 1
  /\ vtValue' = Empty
  /\ shown' = <<>>
  /\ pc' = "builtin"

\* What is written of a VARIANT in JSON: every number is read as both halves, and a
\* type that is not known is left out.
Written(value) ==
  CASE value.vt = "BOOL" -> <<IF value.low = True THEN 1 ELSE 0>>
    [] value.vt = "BSTR" -> <<E!Escape(value.low)>>
    [] value.vt \in Numbers -> <<value.low + Half * value.high>>
    [] OTHER -> <<>>

\* A text that is NULL ends the program.
WriteProperty(place, name, value) ==
  IF value.vt = "BSTR" /\ value.low = Null
    THEN pc' = "crashed" /\ UNCHANGED shown
    ELSE /\ shown' = shown \o [j \in DOMAIN Written(value) |->
                                 [place |-> place, name |-> name, vt |-> value.vt,
                                  value |-> Written(value)[j]]]
         /\ UNCHANGED pc

\* Faulty variant of Cleared: the VARIANT is used as it is.
ClearedNever(value) == value

\* GetAddress of a variant_t.
Cleared(value) == Empty

\* Faulty variant of WriteBuiltin: what cannot be read is an error.
WriteBuiltinThrows ==
  /\ pc = "builtin" /\ n <= Len(Properties)
  /\ \E got \in Getter(Properties[n]) :
       /\ vtValue' = IF got.set THEN got.value ELSE Cleared(vtValue)
       /\ IF got.ok THEN WriteProperty("builtin", Properties[n], vtValue')
          ELSE pc' = "thrown" /\ UNCHANGED shown
  /\ n' = n + 1
  /\ UNCHANGED pInstance

\* One turn of the loop over m_properties, without -property.
WriteBuiltin ==
  /\ pc = "builtin" /\ n <= Len(Properties)
  /\ \E got \in Getter(Properties[n]) :
       /\ vtValue' = IF got.set THEN got.value ELSE Cleared(vtValue)
       /\ IF got.ok THEN WriteProperty("builtin", Properties[n], vtValue') ELSE UNCHANGED <<shown, pc>>
  /\ n' = n + 1
  /\ UNCHANGED pInstance

ThrowDate ==
  /\ pc = "builtin" /\ n <= Len(Properties)
  /\ Getter(Properties[n]) = {}
  /\ pc' = "thrown"
  /\ UNCHANGED <<pInstance, n, vtValue, shown>>

EndBuiltin ==
  /\ pc = "builtin" /\ n > Len(Properties)
  /\ pc' = "store"
  /\ n' = 1
  /\ UNCHANGED <<pInstance, vtValue, shown>>

WriteStored ==
  /\ pc = "store" /\ n <= Len(pInstance.store)
  /\ n' = n + 1
  /\ WriteProperty("store", pInstance.store[n].name, pInstance.store[n].value)
  /\ UNCHANGED <<pInstance, vtValue>>

Next == WriteBuiltin \/ ThrowDate \/ EndBuiltin \/ WriteStored

IsWritten == pc = "store" /\ n > Len(pInstance.store)

-----------------------------------------------------------------------------
(* Properties                                                               *)

\* What each property is a text, a date, a number or a flag of.
MethodOf ==
  [instanceId |-> "GetInstanceId", installDate |-> "GetInstallDate",
   installationName |-> "GetInstallationName", installationPath |-> "GetInstallationPath",
   installationVersion |-> "GetInstallationVersion", productId |-> "GetProductId",
   productPath |-> "ResolvePath", state |-> "GetState", isComplete |-> "IsComplete",
   isLaunchable |-> "IsLaunchable", isPrerelease |-> "IsPrerelease",
   isRebootRequired |-> "GetState", displayName |-> "GetDisplayName",
   description |-> "GetDescription"]

\* JSON has no control characters in its texts, which Escape does not know.
ReadsAs(written, text) ==
  (\A j \in DOMAIN text : text[j] # NewLine) => E!JsonRead(written) = {text}

MeansAnswer(property, value) ==
  LET given == answer(MethodOf[property])
      isFlag == MethodOf[property] \in FlagMethods
  IN  /\ property = "installDate" => ReadsAs(value, DateText[given])
      /\ property = "state" => value % Half = given
      /\ property = "isRebootRequired" => (value = 1 <=> (given \div NoRebootRequired) % 2 = 0)
      /\ isFlag => (value = 1 <=> given = True)
      /\ ~isFlag /\ property \notin {"installDate", "state", "isRebootRequired"} =>
           ReadsAs(value, given)

\* The VARIANT is shared by all properties, and a getter may succeed without
\* setting it: no property is shown with the value of the one before it, nor one
\* whose method failed.
EachShowsItsOwn ==
  \A j \in DOMAIN shown : shown[j].place = "builtin" =>
    /\ answer(MethodOf[shown[j].name]) # Failure
    /\ MeansAnswer(shown[j].name, shown[j].value)

\* Escaping loses nothing: a reader of the JSON string reads the text that the
\* property store gave, whatever quotes and backslashes are in it.
TextsReadBack ==
  \A j \in DOMAIN shown : shown[j].place = "store" /\ shown[j].vt = "BSTR" =>
    \E p \in {pInstance.store[i] : i \in DOMAIN pInstance.store} :
      p.name = shown[j].name /\ ReadsAs(shown[j].value, p.value.low)

\* The usage text of -legacy: "Information is limited."  It is to what LegacyInstance
\* answers, and the methods and interfaces it does not have end nothing.
LegacyIsLimited ==
  pInstance.isLegacy =>
    /\ pc \notin {"crashed", "thrown"}
    /\ pc = "store" => [j \in DOMAIN shown |-> shown[j].name] =
                         <<"instanceId", "installationPath", "installationVersion">>
=============================================================================
