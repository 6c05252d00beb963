---------------------------- MODULE CommandArgs ----------------------------
(***************************************************************************)
(* CommandArgs and its CommandParser: the command line, word by word.  The *)
(* parser first makes tokens of all the words, then Parse reads a          *)
(* parameter and the arguments that belong to it at a time, and a last     *)
(* part checks and completes what was read.  A word the parser refuses     *)
(* leaves what was read before it in place: wmain still looks at it.       *)
(*                                                                         *)
(* Names are without letter case; -? and -h are the parameter help.        *)
(***************************************************************************)
EXTENDS Integers, Sequences, FiniteSets, SequencesExt, Picking

CONSTANTS
  Arguments,      \* the words that may follow a parameter
  Star,           \* the argument *
  Wildcards,      \* the arguments with * or ?
  Malformed,      \* those that are no regular expression
  Formats,        \* the names of Formatter::Formatters
  Packages,       \* the argument of -include
  Value,          \* the name of the format for one property
  None,           \* an empty string in place of an argument
  CommandLines    \* the words after the program's name

Parameter(name) == [kind |-> "parameter", value |-> name]
Argument(text)  == [kind |-> "argument", value |-> text]
EmptyWord       == [kind |-> "empty", value |-> None]

SelectionFlags == {"all", "requiresAny", "latest", "legacy", "prerelease"}
OtherFlags     == {"sort", "nocolor", "nologo", "utf8", "help"}
Flags          == SelectionFlags \cup OtherFlags
Named          == Flags \cup {"products", "requires", "version", "path", "format",
                              "property", "include", "find"}
UnknownName    == "unknown"
Words == {Parameter(name) : name \in Named \cup {UnknownName}}
    \cup {Argument(text) : text \in Arguments} \cup {EmptyWord}

ASSUME ArgumentsAssumption ==
  /\ Star \in Wildcards /\ Wildcards \subseteq Arguments /\ Malformed \subseteq Wildcards
  /\ Formats \subseteq Arguments /\ Value \in Formats /\ Packages \in Arguments
  /\ None \notin Arguments
ASSUME CommandLinesAssumption == CommandLines \subseteq Seq(Words)

VARIABLES
  argv,           \* the words
  pc,             \* the control point
  it,             \* the next token
  args,           \* the members of CommandArgs
  hasSelection    \* an option was read that selects instances

vars == <<argv, pc, it, args, hasSelection>>

Members ==
  [all : BOOLEAN, requiresAny : BOOLEAN, latest : BOOLEAN, legacy : BOOLEAN,
   prerelease : BOOLEAN, sort : BOOLEAN, nocolor : BOOLEAN, nologo : BOOLEAN,
   utf8 : BOOLEAN, help : BOOLEAN, includePackages : BOOLEAN, productsAll : BOOLEAN,
   products : Seq(Arguments), requires : Seq(Arguments), requiresPattern : Seq(Arguments),
   version : Arguments \cup {None}, path : Arguments \cup {None},
   format : Formats \cup {None}, property : Arguments \cup {None},
   find : Arguments \cup {None}]

Defaults ==
  [all |-> FALSE, requiresAny |-> FALSE, latest |-> FALSE, legacy |-> FALSE,
   prerelease |-> FALSE, sort |-> FALSE, nocolor |-> FALSE, nologo |-> FALSE,
   utf8 |-> FALSE, help |-> FALSE, includePackages |-> FALSE, productsAll |-> FALSE,
   products |-> <<>>, requires |-> <<>>, requiresPattern |-> <<>>,
   version |-> None, path |-> None, format |-> None, property |-> None, find |-> None]

Init ==
  /\ argv \in CommandLines
  /\ pc = "tokenize"
  /\ it = 1
  /\ args = Defaults
  /\ hasSelection = FALSE

Stop(where) == pc' = where /\ UNCHANGED <<argv, it, args, hasSelection>>
Reject == Stop("rejected")

Read(count, members, selects) ==
  /\ it' = it + count
  /\ args' = members
  /\ hasSelection' = (hasSelection \/ selects)
  /\ UNCHANGED <<argv, pc>>

\* CommandParser::Parse throws for an empty word before any word has a meaning.
Tokenize ==
  /\ pc = "tokenize"
  /\ IF EmptyWord \in Range(argv) THEN Reject ELSE Stop("parse")

AtToken == pc = "parse" /\ it <= Len(argv)

\* Only the arguments of a parameter are skipped with it.
UnexpectedArgument ==
  /\ AtToken
  /\ argv[it].kind = "argument"
  /\ Reject

-----------------------------------------------------------------------------
(* Parameters                                                               *)

At(name) == AtToken /\ argv[it] = Parameter(name)

Flag(name) ==
  /\ At(name)
  /\ Read(1, [args EXCEPT ![name] = TRUE], name \in SelectionFlags)

Unknown == At(UnknownName) /\ Reject

\* The arguments after the token at k, up to the next parameter.
After(k) ==
  LET stops == {j \in (k + 1)..Len(argv) : argv[j].kind = "parameter"} \cup {Len(argv) + 1}
      stop  == CHOOSE j \in stops : \A i \in stops : j <= i
  IN  [j \in 1..(stop - k - 1) |-> argv[k + j].value]

\* ParseArgument, ParseArgumentArray and ParseRequiresArray throw without one.
ArgumentRequired ==
  /\ AtToken
  /\ argv[it].kind = "parameter" /\ argv[it].value \in Named \ Flags
  /\ After(it) = <<>>
  /\ Reject

\* ParseArgument: one argument.
First == After(it)[1]
Takes(name) == At(name) /\ After(it) # <<>>

Version == Takes("version") /\ Read(2, [args EXCEPT !.version = First], TRUE)
Path    == Takes("path") /\ Read(2, [args EXCEPT !.path = First], FALSE)

\* Faulty variant of Format: the name is looked up later.
FormatUnchecked == Takes("format") /\ Read(2, [args EXCEPT !.format = First], FALSE)

Format ==
  /\ Takes("format")
  /\ IF First \in Formats THEN Read(2, [args EXCEPT !.format = First], FALSE) ELSE Reject

\* Faulty variant of Property: only -find looks at the other.
PropertyAlways ==
  Takes("property") /\ Read(2, [args EXCEPT !.property = First], FALSE)

\* -property and -find exclude each other, whichever comes first.
Property ==
  /\ Takes("property")
  /\ IF args.find # None THEN Reject ELSE Read(2, [args EXCEPT !.property = First], FALSE)
Find ==
  /\ Takes("find")
  /\ IF args.property # None THEN Reject ELSE Read(2, [args EXCEPT !.find = First], FALSE)

\* Faulty variant of Products: a second -products replaces the first.
ProductsReplaced ==
  /\ Takes("products")
  /\ Read(1 + Len(After(it)), [args EXCEPT !.products = After(it)], TRUE)

\* ParseArgumentArray: all of them.
Products ==
  /\ Takes("products")
  /\ Read(1 + Len(After(it)), [args EXCEPT !.products = @ \o After(it)], TRUE)

\* The arguments before the first that is not supported have been looked at when
\* the exception leaves.
Include ==
  /\ Takes("include")
  /\ IF Range(After(it)) = {Packages}
       THEN Read(1 + Len(After(it)), [args EXCEPT !.includePackages = TRUE], FALSE)
       ELSE /\ pc' = "rejected"
            /\ args' = [args EXCEPT !.includePackages = @ \/ First = Packages]
            /\ UNCHANGED <<argv, it, hasSelection>>

\* ParseRequiresArray: ParseRegex may not throw, so an argument that is no regular
\* expression ends the program.  An argument goes to one list or to the other.
Literals(s) == Those(Arguments \ Wildcards, s)
Patterns(s) == Those(Wildcards, s)
Requires ==
  /\ Takes("requires")
  /\ IF Range(After(it)) \cap Malformed # {}
       THEN Stop("terminated")
       ELSE Read(1 + Len(After(it)),
                 [args EXCEPT !.requires = @ \o Literals(After(it)),
                              !.requiresPattern = @ \o Patterns(After(it))], TRUE)

-----------------------------------------------------------------------------
(* The last part                                                            *)

\* A * among the products stands for all of them: it clears the others.
ClearProducts(members) ==
  IF Star \in Range(members.products)
    THEN [members EXCEPT !.productsAll = TRUE, !.products = <<>>]
    ELSE members

\* One property, or files, are written as values unless a format was given.
DefaultFormat(members) ==
  IF (members.property # None \/ members.find # None) /\ members.format = None
    THEN [members EXCEPT !.format = Value]
    ELSE members

\* Patterns are not looked at, only the literals.
LegacyConflict(members) ==
  members.legacy /\ (members.products # <<>> \/ members.requires # <<>>)
\* Faulty variant of PathConflict: hasSelection is not looked at.
PathConflictAll(members) == members.all /\ members.path # None

PathConflict(members) == hasSelection /\ members.path # None

\* The products are cleared before, and the format is completed after, the
\* check of -legacy; -path is checked last.
Finish ==
  /\ pc = "parse"
  /\ it > Len(argv)
  /\ LET cleared == ClearProducts(args)
     IN  /\ args' = IF LegacyConflict(cleared) THEN cleared ELSE DefaultFormat(cleared)
         /\ pc' = IF LegacyConflict(cleared) \/ PathConflict(cleared)
                    THEN "rejected" ELSE "accepted"
  /\ UNCHANGED <<argv, it, hasSelection>>

\* Parse has returned, or thrown, or the program has ended.
Done == pc \in {"accepted", "rejected", "terminated"} /\ UNCHANGED vars

Next ==
  \/ Tokenize
  \/ UnexpectedArgument
  \/ \E name \in Flags : Flag(name)
  \/ Unknown
  \/ ArgumentRequired
  \/ Version
  \/ Path
  \/ Format
  \/ Property
  \/ Find
  \/ Products
  \/ Include
  \/ Requires
  \/ Finish
  \/ Done

Spec == Init /\ [][Next]_vars

-----------------------------------------------------------------------------
(* Properties                                                               *)

\* Types; a format, once there, is one that Formatter::Create finds.
TypeOK ==
  /\ argv \in Seq(Words)
  /\ pc \in {"tokenize", "parse", "accepted", "rejected", "terminated"}
  /\ it \in 1..(Len(argv) + 1)
  /\ args \in Members
  /\ hasSelection \in BOOLEAN

\* The parameter a word belongs to: the last one up to it.
Parameters(k) == {j \in 1..k : argv[j].kind = "parameter"}
Owner(k) == argv[CHOOSE j \in Parameters(k) : \A i \in Parameters(k) : i <= j].value
BelongsTo(k, name) == /\ argv[k].kind = "argument"
                      /\ Parameters(k) # {}
                      /\ Owner(k) = name
Given(n, name) == \E k \in 1..n : argv[k] = Parameter(name)
Texts(n, name) ==
  FlattenSeq([k \in 1..n |-> IF BelongsTo(k, name) THEN <<argv[k].value>> ELSE <<>>])
LastText(n, name) == IF Texts(n, name) = <<>> THEN None ELSE Last(Texts(n, name))

\* What the first n words mean, whatever the order of their parameters.
Meaning(n) ==
  [member \in DOMAIN Defaults |->
     CASE member \in Flags -> Given(n, member)
       [] member = "includePackages" -> Packages \in Range(Texts(n, "include"))
       [] member = "productsAll" -> FALSE
       [] member = "products" -> Texts(n, member)
       [] member = "requires" -> Literals(Texts(n, member))
       [] member = "requiresPattern" -> Patterns(Texts(n, "requires"))
       [] OTHER -> LastText(n, member)]

\* What a whole command line means to the rest of the program.
AnyProduct == Star \in Range(Texts(Len(argv), "products"))
WholeMeaning ==
  LET words == Meaning(Len(argv))
  IN  [words EXCEPT
         !.productsAll = AnyProduct,
         !.products = IF AnyProduct THEN <<>> ELSE @,
         !.format = IF @ = None /\ (Given(Len(argv), "property") \/ Given(Len(argv), "find"))
                      THEN Value ELSE @]

\* The members are, at every step, what the words read so far mean whatever their
\* order; an accepted line means the same to the program in every order.
MeansItsWords ==
  /\ pc = "parse" => args = Meaning(it - 1)
  /\ pc = "accepted" => args = WholeMeaning

\* The command lines the usage text allows, and those with a legacy option and
\* patterns.  A parameter has the arguments up to the next one.
Arity(k) == Cardinality({j \in (k + 1)..Len(argv) : /\ argv[j].kind = "argument"
                                                    /\ Parameters(j) = Parameters(k)})
WellFormed ==
  LET n == Len(argv)
      words == WholeMeaning
  IN  /\ EmptyWord \notin Range(argv)
      /\ \A k \in 1..n : Parameters(k) # {}
      /\ \A k \in Parameters(n) :
           /\ argv[k].value \in Named
           /\ argv[k].value \in Flags => Arity(k) = 0
           /\ argv[k].value \in {"products", "requires", "include"} => Arity(k) > 0
           /\ argv[k].value \in {"version", "path", "format", "property", "find"} => Arity(k) = 1
      /\ Range(Texts(n, "format")) \subseteq Formats
      /\ Range(Texts(n, "include")) \subseteq {Packages}
      /\ ~(Given(n, "property") /\ Given(n, "find"))
      /\ words.legacy => words.products = <<>> /\ words.requires = <<>>
      /\ Given(n, "path") =>
           \A name \in SelectionFlags \cup {"products", "requires", "version"} : ~Given(n, name)

\* Parse accepts exactly the command lines that are well formed, wherever in them
\* the mistake is; only a required pattern that is no regular expression ends the
\* program.
AcceptsWellFormed ==
  /\ pc = "accepted" => WellFormed /\ Range(args.requiresPattern) \cap Malformed = {}
  /\ pc = "rejected" => ~WellFormed
  /\ pc = "terminated" => Range(Texts(Len(argv), "requires")) \cap Malformed # {}

\* The options that exclude each other are never accepted together, although they
\* may come in any order and -products * takes back what came before it.
Selects(members) ==
  \/ \E name \in SelectionFlags : members[name]
  \/ members.products # <<>> \/ members.productsAll
  \/ members.requires # <<>> \/ members.requiresPattern # <<>>
  \/ members.version # None
Exclusive ==
  pc = "accepted" =>
    /\ args.property = None \/ args.find = None
    /\ args.legacy => args.products = <<>> /\ args.requires = <<>>
    /\ args.path # None => ~Selects(args)

\* The usage text of -legacy: "This option cannot be used with either -products or
\* -requires."
LegacyExcludesRequires ==
  pc = "accepted" => ~(Given(Len(argv), "legacy") /\ Given(Len(argv), "requires"))
=============================================================================
