------------------------------ MODULE Vswhere ------------------------------
(***************************************************************************)
(* The whole program: Program, in which finding is the machine of          *)
(* InstanceSelector and writing that of Formatter, with the values wmain   *)
(* hands from one to the next.                                             *)
(***************************************************************************)
EXTENDS Program

CONSTANTS
  Instances, LegacyVersions, VersionTexts, ParsedVersion, TextOrder, Ids,
  NoVersion, NoProduct, EmptyId, BadId,      \* as in InstanceSelector
  Builtin, Names, ObjectOf, MemberOf, NoStore,  \* as in Formatter
  RangeOf,           \* the range ParseVersionRange reads in an argument, or none
  DefaultProducts,   \* s_Products
  PatternOf,         \* the ids a pattern of -requires matches
  InvalidPatterns,   \* the patterns of -find that Glob refuses
  Machines           \* for each instance what the selector and the formatter ask
                     \* of it, and whether it is complete

VARIABLES
  machine,           \* the instances
  helper,
  min, max, selecting, pending, current, package, unmet, tried, selected,
  mid, hole, val, matched, answer,           \* those of InstanceSelector
  instances,         \* the vector in wmain
  writing, k, place, n, m, found, formatter, shown   \* those of Formatter

selectorVars == <<min, max, selecting, pending, current, package, unmet, tried, selected,
                  mid, hole, val, matched, answer>>
formatterVars == <<writing, k, place, n, m, found, formatter, shown>>
objects == <<machine, helper, selectorVars, instances, formatterVars>>
vswhereVars == <<vars, objects>>

-----------------------------------------------------------------------------
(* What CommandArgs answers the others                                      *)

Elements(s) == {s[j] : j \in DOMAIN s}

\* The products, without which all match.
get_Products ==
  IF ~args.productsAll /\ args.products = <<>> THEN DefaultProducts ELSE Elements(args.products)

Options ==
  [prerelease |-> args.prerelease, products |-> get_Products, requires |-> args.requires,
   requiresPattern |-> [j \in DOMAIN args.requiresPattern |-> PatternOf[args.requiresPattern[j]]],
   requiresAny |-> args.requiresAny, legacy |-> args.legacy, latest |-> args.latest,
   sort |-> args.sort, range |-> RangeOf[args.version]]

get_Format == IF args.format = None THEN TextFormat ELSE args.format

Request ==
  [format |-> get_Format, property |-> args.property, packages |-> args.includePackages,
   find |-> args.find # None, badPattern |-> args.find \in InvalidPatterns]

I == INSTANCE InstanceSelector WITH
       options <- Options, installed <- [i \in DOMAIN machine |-> machine[i].attributes],
       instances <- selected, pc <- selecting, CommandLines <- {}, MachineStates <- {}

F == INSTANCE Formatter WITH
       request <- Request, instances <- [j \in DOMAIN instances |-> machine[instances[j]].answers],
       pc <- writing, Machines <- {}, Requests <- {}

-----------------------------------------------------------------------------
(* Assumptions, as far as they are about more than one of the objects: any  *)
(* argument may be an id and a name                                         *)

ASSUME SelectorAssumption ==
  /\ ParsedVersion \in [VersionTexts -> Nat \cup {-1}] /\ TextOrder \in [VersionTexts -> Nat]
  /\ NoVersion \notin VersionTexts
  /\ NoProduct \notin Ids /\ EmptyId \notin Ids /\ BadId \notin Ids
  /\ LegacyVersions \in Seq(I!Legacy)
  /\ \A i, j \in DOMAIN LegacyVersions : LegacyVersions[i] = LegacyVersions[j] => i = j
  /\ I!Legacy \cap Instances = {} /\ None \notin I!Candidates
ASSUME NamesAssumption ==
  /\ Builtin \in Seq(Names)
  /\ \A i, j \in DOMAIN Builtin : Builtin[i] = Builtin[j] => i = j
  /\ ObjectOf \in [Names -> Names \cup {None}] /\ MemberOf \in [Names -> Names \cup {None}]
  /\ None \notin Names \cup {"files", "catalog", "properties", "packages", "package"}
ASSUME WordsAssumption ==
  /\ Arguments \subseteq Ids /\ Arguments \subseteq Names
  /\ Formats \subseteq F!Formatters /\ TextFormat \in F!Formatters
  /\ DefaultProducts \subseteq Ids /\ DefaultProducts # {}
  /\ PatternOf \in [Arguments -> SUBSET Ids]

\* Without -version there is no range, and a range is ordered: theorem
\* OutputsAreOrdered of VersionRange.
ASSUME RangeAssumption ==
  /\ RangeOf \in [Arguments \cup {None} ->
                   [given : BOOLEAN, valid : BOOLEAN, min : Nat, max : Nat]]
  /\ \A text \in DOMAIN RangeOf : RangeOf[text].min <= RangeOf[text].max
  /\ ~RangeOf[None].given

\* A legacy instance has no ISetupInstance2 (LegacyInstance::QueryInterface).
ASSUME MachinesAssumption ==
  \A mach \in Machines :
    /\ mach \in [I!Candidates -> [attributes : I!Attributes, answers : F!Answers, complete : BOOLEAN]]
    /\ \A i \in I!Candidates : mach[i].attributes.legacy <=> i \in I!Legacy
    /\ \A i \in I!Legacy : ~mach[i].attributes.isInstance2

-----------------------------------------------------------------------------
SystemInit ==
  /\ Init
  /\ machine \in Machines
  /\ helper = FALSE
  /\ min = 0 /\ max = 0
  /\ selecting = "none"
  /\ pending = {} /\ current = None /\ package = 0 /\ unmet = {} /\ tried = 0
  /\ selected = <<>>
  /\ mid = 0 /\ hole = 0 /\ val = None
  /\ matched = {}
  /\ answer = I!S!Open
  /\ instances = <<>>
  /\ writing = "none"
  /\ k = 0 /\ place = "own" /\ n = 1 /\ m = 1 /\ found = FALSE
  /\ formatter = F!Create(TextFormat)
  /\ shown = <<>>

\* What wmain does before and after it finds and writes.
Frame ==
  /\ UNCHANGED objects
  /\ \/ Create
     \/ ParseStep
     \/ Parsed
     \/ InitializeConsole
     \/ Help
     \/ CatchSystemError
     \/ CatchOther

-----------------------------------------------------------------------------
(* Finding                                                                  *)

Complete == {i \in Instances : machine[i].complete}

\* Faulty variant of Enumerated: both enumerators are taken for the same.
EnumeratedAlike == {Instances}

\* What GetEnumerator's enumerator has: nothing without the query object, and
\* every instance only with -all and an ISetupConfiguration2.
Enumerated ==
  CASE query = "none" -> {{}}
    [] query = "present" -> IF args.all THEN {Complete, Instances} ELSE {Complete}

\* The ISetupHelper is asked for, or replaced by VersionRange, before.
GetEnumerator ==
  /\ pc = "ready" /\ ~args.help /\ args.path = None
  /\ selecting = "none"
  /\ helper' \in IF query = "present" THEN BOOLEAN ELSE {TRUE}
  /\ pending' \in Enumerated
  /\ selecting' = "construct"
  /\ UNCHANGED <<vars, machine, instances, formatterVars, min, max, current, package, unmet,
                 tried, selected, mid, hole, val, matched, answer>>

FailEnumerator ==
  /\ pc = "ready" /\ ~args.help /\ args.path = None
  /\ selecting = "none" /\ query = "present"
  /\ Throw("system")
  /\ UNCHANGED objects

SelectStep ==
  /\ pc = "ready"
  /\ UNCHANGED <<vars, machine, helper, instances, formatterVars>>
  /\ I!Step

Returned ==
  /\ pc = "ready" /\ selecting = "returned"
  /\ instances' = answer.list
  /\ Go("format")
  /\ UNCHANGED <<machine, helper, selectorVars, formatterVars>>

\* Faulty variant of SelectError: every error is one of the command line.
SelectErrorParameter == "parameter"

\* An invalid range is a parameter that is looked at late; the other exceptions
\* are failures of calls.
SelectError ==
  IF helper /\ Options.range.given /\ ~Options.range.valid THEN "parameter" ELSE "system"

SelectFailed ==
  /\ pc = "ready" /\ selecting = "thrown"
  /\ Throw(SelectError)
  /\ UNCHANGED objects

\* The one instance of a path, whatever else its attributes are.
FindPath ==
  /\ SelectPath
  /\ \/ UNCHANGED instances
     \/ pc' = "format" /\ \E i \in Instances : instances' = <<i>>
  /\ UNCHANGED <<machine, helper, selectorVars, formatterVars>>

-----------------------------------------------------------------------------
(* Writing                                                                  *)

StartFormatter ==
  /\ CreateFormatter
  /\ formatter' = F!Create(get_Format)
  /\ writing' = "start"
  /\ UNCHANGED <<machine, helper, selectorVars, instances, k, place, n, m, found, shown>>

WriteStep ==
  /\ pc = "write"
  /\ writing \notin {"done", "thrown"}
  /\ UNCHANGED <<vars, machine, helper, selectorVars, instances>>
  /\ F!Next

Written ==
  /\ pc = "write" /\ writing = "done"
  /\ Return(<<"document">>)
  /\ UNCHANGED objects

Break(exception) ==
  /\ output' = Append(output, "unfinished")
  /\ pc' = "catch"
  /\ thrown' = exception
  /\ UNCHANGED <<commandArgs, query, ready, code, objects>>

\* The pattern of -find is wrong, or a call failed.
WriteFailed ==
  /\ pc = "write" /\ writing = "thrown"
  /\ Break(IF Request.find THEN "parameter" ELSE "system")

\* The directories of an instance cannot be walked, which is done before its first
\* file is written.
WalkFailed ==
  /\ pc = "write" /\ writing = "files" /\ n = 1
  /\ Break("system")

Step ==
  \/ Frame
  \/ GetEnumerator
  \/ FailEnumerator
  \/ SelectStep
  \/ Returned
  \/ SelectFailed
  \/ FindPath
  \/ StartFormatter
  \/ WriteStep
  \/ Written
  \/ WriteFailed
  \/ WalkFailed

SystemNext == Step \/ (pc \in {"exited", "terminated"} /\ UNCHANGED vswhereVars)

\* The program is one thread that runs on.
SystemSpec == SystemInit /\ [][SystemNext]_vswhereVars /\ WF_vswhereVars(Step)

-----------------------------------------------------------------------------
(* Properties                                                               *)

\* What the program does is what Program allows: every exception of the selector
\* and of the formatter comes where wmain expects one of its kind.
ImplementsProgram == Spec

\* The program ends, on every command line and machine.
Ends == <>(pc \in {"exited", "terminated"})

\* The usage text: "Finds all instances even if they are incomplete", "Also searches
\* prereleases", "Also searches Visual Studio 2015 and older products", "Return only
\* the newest version".  From the words of the command line to the document, nothing
\* is shown of an instance that these words do not ask for, whichever way through
\* the objects its data took; -path alone asks for an instance as it is.
GivenWord(name) == C!Given(Len(argv), name)
Wanted(i) ==
  LET answers == machine[i].attributes
      products == Elements(C!Texts(Len(argv), "products"))
  IN  /\ answers.legacy => GivenWord("legacy")
      /\ ~answers.legacy => machine[i].complete \/ GivenWord("all")
      /\ answers.legacy \/ answers.isInstance2 => I!S!InRange(i)
      /\ answers.isInstance2 =>
           /\ answers.prerelease => GivenWord("prerelease")
           /\ \/ Star \in products
              \/ answers.product \in IF products = {} THEN DefaultProducts ELSE products
OnlyWantedIsShown ==
  shown # <<>> =>
    /\ \/ GivenWord("path")
       \/ \A j \in DOMAIN shown : Wanted(instances[shown[j].instance])
    /\ GivenWord("latest") => \A j \in DOMAIN shown : shown[j].instance = 1

\* With success no instance that Select returned is missing from the document:
\* whatever of its builtin properties can be read and was asked for is shown.
NothingFoundIsLost ==
  pc = "exited" /\ code = "success" /\ ~args.help /\ args.find = None =>
    \A j \in DOMAIN instances, name \in Elements(Builtin) :
      /\ args.property \in {None, name}
      /\ name \notin machine[instances[j]].answers.unreadable
      => \E s \in DOMAIN shown : shown[s] = [instance |-> j, place |-> "builtin", name |-> name]
=============================================================================
