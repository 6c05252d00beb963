--------------------------- MODULE VswhereProofs ---------------------------
(***************************************************************************)
(* Proofs about the program, for every command line and all machines.      *)
(*                                                                         *)
(* Program first.  What is written needs nothing of CommandArgs but that   *)
(* it is left alone once Parse has returned; the types need its theorems,  *)
(* carried over by an INSTANCE.                                            *)
(*                                                                         *)
(* Then that Vswhere implements Program.  What has to be proved is that    *)
(* the selector and the formatter throw nothing when nothing may be found: *)
(* without the setup service and -legacy the enumerator, the vector and    *)
(* the document are empty.                                                 *)
(*                                                                         *)
(* Last the way from the words to the document.  The invariants of the     *)
(* parser, of the selector and of the formatter are carried over by an     *)
(* INSTANCE each; what is new is what links them: where the selector's     *)
(* instances come from, whose the vector is, and when a formatter is done. *)
(***************************************************************************)
EXTENDS Vswhere, SequenceTheorems, TLAPS

-----------------------------------------------------------------------------
(* What Program writes                                                      *)

\* An unfinished output is made of these; what is written last tells the rest.
Beginnings == {"logo", "unfinished"}

\* What was written when wmain is where it is.
WrittenSoFar ==
  /\ pc \in {"start", "parse", "initialize", "ready", "format"} => output = <<>>
  /\ pc = "write" => output = IF ShowsLogo THEN Logo ELSE <<>>
  /\ pc = "catch" => output \in Seq(Beginnings)

\* The console is ready from its place in wmain on, and where an exception of the
\* kind comes from whose handler does not make it ready.
Readiness ==
  /\ pc \in {"ready", "format", "write"} => ready
  /\ thrown = "other" => ready
  /\ ConsoleIsReady

\* Only a program that was not asked for help finds instances.
NoHelp == pc \in {"format", "write"} => ~args.help

ProgramIInv ==
  /\ WrittenSoFar
  /\ Readiness
  /\ NoHelp
  /\ ExitCodeTells

-----------------------------------------------------------------------------
\* What the logo is made of may begin an output.
LEMMA LogoIsBeginning == Logo \in Seq(Beginnings)
<1>1. <<>> \in Seq(Beginnings) /\ <<"logo">> \in Seq(Beginnings)
  BY DEF Beginnings
<1>2. Logo = <<>> \/ Logo = <<"logo">>
  BY DEF Logo
<1> QED
  BY <1>1, <1>2

\* An error written after a beginning tells of a failure.
LEMMA ErrorTells ==
  ASSUME NEW before \in Seq(Beginnings), output' = Append(before, "error"), code' # "success"
  PROVE  ExitCodeTells'
<1>1. /\ Len(output') = Len(before) + 1
      /\ output'[Len(output')] = "error"
      /\ \A j \in 1..Len(before) : output'[j] = before[j]
  OBVIOUS
<1>2. \A j \in 1..Len(before) : before[j] \in Beginnings
  OBVIOUS
<1>3. \A j \in 1..(Len(output') - 1) : output'[j] \in Beginnings
  BY <1>1, <1>2
<1> QED
  BY <1>1, <1>3 DEF ExitCodeTells, Beginnings

\* Initially the invariant holds.
LEMMA InitProgramIInv == Init => ProgramIInv
  BY DEF Init, ProgramIInv, WrittenSoFar, Readiness, NoHelp, ExitCodeTells, ConsoleIsReady

\* An exception keeps the invariant; one of the kind "other" must come from where
\* the console is ready.
LEMMA ThrowProgramIInv ==
  ASSUME ProgramIInv, NEW exception, Throw(exception), output \in Seq(Beginnings),
         exception = "other" => ready
  PROVE  ProgramIInv'
  BY DEF Throw, ProgramIInv, WrittenSoFar, Readiness, NoHelp, ExitCodeTells, ConsoleIsReady

\* Steps before anything is written.
LEMMA EarlyProgramIInv ==
  ASSUME ProgramIInv, UNCHANGED <<thrown, ready, output>>, output = <<>>,
         pc' \in {"parse", "initialize", "terminated"}
  PROVE  ProgramIInv'
  BY DEF ProgramIInv, WrittenSoFar, Readiness, NoHelp, ExitCodeTells, ConsoleIsReady

\* Each action keeps the invariant.
LEMMA ParsingProgramIInv == ASSUME ProgramIInv, Create \/ ParseStep \/ Parsed PROVE ProgramIInv'
<1>1. output = <<>> /\ output \in Seq(Beginnings)
  <2>1. output = <<>>
    BY DEF ProgramIInv, WrittenSoFar, Create, ParseStep, Parsed
  <2> QED
    BY <2>1
<1>2. CASE Create
  <2>1. CASE Throw("system")
    BY <1>1, <2>1, ThrowProgramIInv
  <2>2. CASE pc' = "parse" /\ UNCHANGED <<thrown, ready, output>>
    BY <1>1, <2>2, EarlyProgramIInv
  <2> QED
    BY <1>2, <2>1, <2>2 DEF Create
<1>3. CASE ParseStep
  BY <1>1, <1>3, EarlyProgramIInv DEF ParseStep
<1>4. CASE Parsed
  BY <1>1, <1>4, ThrowProgramIInv, EarlyProgramIInv DEF Parsed, Go
<1> QED
  BY <1>2, <1>3, <1>4

\* wmain makes the console ready.
LEMMA InitializeConsoleProgramIInv == ASSUME ProgramIInv, InitializeConsole PROVE ProgramIInv'
  BY DEF InitializeConsole, ProgramIInv, WrittenSoFar, Readiness, NoHelp, ExitCodeTells,
     ConsoleIsReady

\* The usage text ends the program.
LEMMA HelpProgramIInv == ASSUME ProgramIInv, Help PROVE ProgramIInv'
<1>1. /\ pc = "ready" /\ args.help
      /\ output = <<>> /\ ready
      /\ output' = output \o (Logo \o <<"usage">>)
      /\ code' = "success" /\ pc' = "exited"
      /\ args' = args /\ thrown' = thrown /\ ready' = ready
  BY DEF Help, Return, ProgramIInv, WrittenSoFar, Readiness, commandArgs
<1>2. output' = Logo \o <<"usage">>
  BY <1>1 DEF Logo
<1>3. Logo' = Logo
  BY <1>1 DEF Logo
<1>4. ExitCodeTells'
  BY <1>1, <1>2, <1>3 DEF ExitCodeTells
<1> QED
  BY <1>1, <1>4 DEF ProgramIInv, WrittenSoFar, Readiness, NoHelp, ConsoleIsReady

\* Both ways of finding write nothing.
LEMMA FindingProgramIInv == ASSUME ProgramIInv, Select \/ SelectPath PROVE ProgramIInv'
<1>1. output = <<>> /\ output \in Seq(Beginnings) /\ ready /\ ~args.help
  <2>1. output = <<>>
    BY DEF Select, SelectPath, ProgramIInv, WrittenSoFar
  <2>2. ready /\ ~args.help
    BY DEF Select, SelectPath, ProgramIInv, Readiness
  <2> QED
    BY <2>1, <2>2
<1>2. ASSUME Go("format") PROVE ProgramIInv'
  <2>1. pc' = "format" /\ args' = args /\ thrown' = thrown /\ ready' = ready /\ output' = output
    BY <1>2 DEF Go, commandArgs
  <2> QED
    BY <1>1, <2>1 DEF ProgramIInv, WrittenSoFar, Readiness, NoHelp, ExitCodeTells, ConsoleIsReady
<1>3. ASSUME NEW exception \in {"system", "parameter", "other"}, Throw(exception) PROVE ProgramIInv'
  BY <1>1, <1>3, ThrowProgramIInv
<1> QED
  BY <1>2, <1>3 DEF Select, SelectPath

\* The first text is the logo.
LEMMA CreateFormatterProgramIInv == ASSUME ProgramIInv, CreateFormatter PROVE ProgramIInv'
<1>1. /\ output = <<>> /\ ready /\ ~args.help
      /\ output' = output \o IF ShowsLogo THEN Logo ELSE <<>>
      /\ pc' = "write" /\ args' = args /\ thrown' = thrown /\ ready' = ready
  BY DEF CreateFormatter, ProgramIInv, WrittenSoFar, Readiness, NoHelp, commandArgs
<1>2. output' = IF ShowsLogo THEN Logo ELSE <<>>
  BY <1>1 DEF Logo
<1>3. (ShowsLogo' <=> ShowsLogo) /\ Logo' = Logo
  BY <1>1 DEF ShowsLogo, Logo
<1> QED
  BY <1>1, <1>2, <1>3 DEF ProgramIInv, WrittenSoFar, Readiness, NoHelp, ExitCodeTells,
     ConsoleIsReady

\* A document is whole or cut short by an exception.
LEMMA WriteProgramIInv == ASSUME ProgramIInv, Write PROVE ProgramIInv'
<1>1. /\ pc = "write" /\ ready /\ ~args.help /\ args' = args /\ ready' = ready
      /\ output = IF ShowsLogo THEN Logo ELSE <<>>
  BY DEF Write, Return, ProgramIInv, WrittenSoFar, Readiness, NoHelp, commandArgs
<1>2. Logo' = Logo /\ output \in Seq(Beginnings)
  BY <1>1, LogoIsBeginning DEF Logo
<1>3. CASE Return(<<"document">>)
  <2>1. /\ output' = output \o <<"document">> /\ code' = "success" /\ pc' = "exited"
        /\ thrown' = thrown
    BY <1>3 DEF Return
  <2>2. ExitCodeTells'
    BY <1>1, <1>2, <2>1 DEF ExitCodeTells, ShowsLogo, Logo
  <2> QED
    BY <1>1, <2>1, <2>2 DEF ProgramIInv, WrittenSoFar, Readiness, NoHelp, ConsoleIsReady
<1>4. CASE pc' = "catch"
  <2>1. output' = Append(output, "unfinished") /\ thrown' \in {"system", "parameter"}
    BY <1>4 DEF Write, Return
  <2>2. output' \in Seq(Beginnings)
    BY <1>2, <2>1 DEF Beginnings
  <2> QED
    BY <1>1, <1>4, <2>1, <2>2
       DEF ProgramIInv, WrittenSoFar, Readiness, NoHelp, ExitCodeTells, ConsoleIsReady
<1> QED
  BY <1>3, <1>4 DEF Write

\* The handler makes the console ready itself.
LEMMA CatchSystemErrorProgramIInv == ASSUME ProgramIInv, CatchSystemError PROVE ProgramIInv'
<1> DEFINE before == output \o (IF thrown = "parameter" THEN Logo ELSE <<>>)
<1>1. /\ output \in Seq(Beginnings) /\ thrown \in {"parameter", "system"}
      /\ ready' /\ code' = thrown /\ pc' = "exited" /\ thrown' = thrown
      /\ output' = before \o <<"error">>
  BY DEF CatchSystemError, ProgramIInv, WrittenSoFar
<1>2. before \in Seq(Beginnings)
  BY <1>1, LogoIsBeginning
<1>3. output' = Append(before, "error")
  <2> HIDE DEF before
  <2> QED
    BY <1>1, <1>2
<1>4. ExitCodeTells'
  BY <1>1, <1>2, <1>3, ErrorTells
<1> QED
  BY <1>1, <1>4 DEF ProgramIInv, WrittenSoFar, Readiness, NoHelp, ConsoleIsReady

\* This handler relies on where its exceptions come from.
LEMMA CatchOtherProgramIInv == ASSUME ProgramIInv, CatchOther PROVE ProgramIInv'
<1>1. /\ output \in Seq(Beginnings) /\ ready /\ ready' = ready
      /\ code' = "failure" /\ pc' = "exited" /\ thrown' = thrown
      /\ output' = Append(output, "error")
  BY DEF CatchOther, ProgramIInv, WrittenSoFar, Readiness
<1>2. ExitCodeTells'
  BY <1>1, ErrorTells
<1> QED
  BY <1>1, <1>2 DEF ProgramIInv, WrittenSoFar, Readiness, NoHelp, ConsoleIsReady

\* A step that changes nothing keeps the invariant.
LEMMA UnchangedProgramIInv == ASSUME ProgramIInv, UNCHANGED vars PROVE ProgramIInv'
<1>1. /\ args' = args /\ pc' = pc /\ thrown' = thrown /\ ready' = ready
      /\ output' = output /\ code' = code
  BY DEF vars, commandArgs
<1>2. Logo' = Logo /\ (ShowsLogo' <=> ShowsLogo)
  BY <1>1 DEF Logo, ShowsLogo
<1> QED
  BY <1>1, <1>2 DEF ProgramIInv, WrittenSoFar, Readiness, NoHelp, ExitCodeTells, ConsoleIsReady

\* The invariant is inductive.
LEMMA NextProgramIInv == ProgramIInv /\ [Next]_vars => ProgramIInv'
  BY ParsingProgramIInv, InitializeConsoleProgramIInv, HelpProgramIInv, FindingProgramIInv,
     CreateFormatterProgramIInv, WriteProgramIInv,
     CatchSystemErrorProgramIInv, CatchOtherProgramIInv, UnchangedProgramIInv DEF Next, Done

\* So it holds at every step.
LEMMA ProgramInvariance == Spec => []ProgramIInv
  BY InitProgramIInv, NextProgramIInv, PTL DEF Spec

\* Console::Write is called on an initialized console only, on every path, those
\* of exceptions included.
THEOREM ConsoleIsReadyAlways == Spec => []ConsoleIsReady
<1>1. ProgramIInv => ConsoleIsReady
  BY DEF ProgramIInv, Readiness
<1> QED
  BY <1>1, ProgramInvariance, PTL

\* The exit code tells a whole document from a failure.
THEOREM ExitCodeTellsAlways == Spec => []ExitCodeTells
<1>1. ProgramIInv => ExitCodeTells
  BY DEF ProgramIInv
<1> QED
  BY <1>1, ProgramInvariance, PTL

-----------------------------------------------------------------------------
(* Types                                                                    *)

\* What is proved of the parser, about the parser of the program.
CP == INSTANCE CommandArgsProofs WITH pc <- parsing

\* The two are one machine.
LEMMA SameParser ==
  /\ C!Init <=> CP!Init
  /\ C!Next <=> CP!Next
  /\ C!vars = CP!vars
  /\ C!TypeOK <=> CP!TypeOK
  /\ C!Words = CP!Words
<1>1. C!Init <=> CP!Init
  BY DEF C!Init, CP!Init, C!Defaults, CP!Defaults
<1>2. C!Next <=> CP!Next
  BY DEF C!Next, CP!Next, C!Tokenize, CP!Tokenize, C!UnexpectedArgument,
     CP!UnexpectedArgument, C!Flag, CP!Flag, C!Unknown, CP!Unknown,
     C!ArgumentRequired, CP!ArgumentRequired, C!Version, CP!Version, C!Path,
     CP!Path, C!Format, CP!Format, C!Property, CP!Property, C!Find, CP!Find,
     C!Products, CP!Products, C!Include, CP!Include, C!Requires, CP!Requires,
     C!Finish, CP!Finish, C!Done, CP!Done, C!vars, CP!vars, C!Stop, CP!Stop,
     C!Reject, CP!Reject, C!Read, CP!Read, C!AtToken, CP!AtToken, C!At, CP!At,
     C!After, CP!After, C!First, CP!First, C!Takes, CP!Takes, C!Literals,
     CP!Literals, C!Patterns, CP!Patterns, C!Those, CP!Those, C!ClearProducts,
     CP!ClearProducts, C!DefaultFormat, CP!DefaultFormat, C!LegacyConflict,
     CP!LegacyConflict, C!PathConflict, CP!PathConflict, C!Parameter, CP!Parameter,
     C!Argument, CP!Argument, C!EmptyWord, CP!EmptyWord, C!SelectionFlags,
     CP!SelectionFlags, C!OtherFlags, CP!OtherFlags, C!Flags, CP!Flags, C!Named,
     CP!Named, C!UnknownName, CP!UnknownName, C!Range, CP!Range, C!FlattenSeq,
     CP!FlattenSeq
<1>3. C!vars = CP!vars
  BY DEF C!vars, CP!vars
<1>4. C!Words = CP!Words
  BY DEF C!Words, CP!Words, C!Parameter, CP!Parameter, C!Argument, CP!Argument,
     C!EmptyWord, CP!EmptyWord, C!Named, CP!Named, C!Flags, CP!Flags,
     C!SelectionFlags, CP!SelectionFlags, C!OtherFlags, CP!OtherFlags,
     C!UnknownName, CP!UnknownName
<1>5. C!TypeOK <=> CP!TypeOK
  BY <1>4 DEF C!TypeOK, CP!TypeOK, C!Members, CP!Members
<1> QED
  BY <1>1, <1>2, <1>3, <1>4, <1>5

\* The program parses its command line as CommandArgs does, at its own pace.
THEOREM ParsesItsCommandLine == Spec => C!Spec
<1>1. Init => C!Init
  BY DEF Init
<1>2. [Next]_vars => [C!Next]_(C!vars)
  BY DEF Next, Create, ParseStep, Parsed, InitializeConsole, Help, Select, SelectPath,
     CreateFormatter, Write, CatchSystemError, CatchOther, Done, Throw, Go, Return, vars,
     commandArgs, C!vars
<1> QED
  BY <1>1, <1>2, PTL DEF Spec, C!Spec

\* The types of the program, and what CommandArgs keeps while it parses.
Typed == CP!Typed /\ TypeOK

\* What the program writes.
Texts == {"logo", "usage", "document", "unfinished", "error"}

\* Initially.
LEMMA InitTyped == Init => Typed
<1> SUFFICES ASSUME Init PROVE Typed
  OBVIOUS
<1>1. CP!Typed
  BY SameParser, CP!InitTyped, ArgumentsAssumption, CommandLinesAssumption DEF Init
<1>2. C!TypeOK
  BY <1>1, SameParser DEF CP!Typed
<1>3. output \in Seq({"logo", "usage", "document", "unfinished", "error"})
  BY DEF Init
<1> QED
  BY <1>1, <1>2, <1>3 DEF Init, Typed, TypeOK

\* A step of the parser.
LEMMA ParseTyped == ASSUME Typed, C!Next \/ UNCHANGED commandArgs PROVE CP!Typed' /\ C!TypeOK'
<1>1. CP!Typed'
  <2>1. CP!Typed /\ [CP!Next]_(CP!vars)
    BY SameParser DEF Typed, commandArgs, CP!vars
  <2> QED
    BY <2>1, SameParser, CP!NextTyped, ArgumentsAssumption, CommandLinesAssumption
<1>2. CP!TypeOK' => C!TypeOK'
  BY SameParser DEF C!TypeOK, CP!TypeOK, C!Members, CP!Members
<1> QED
  BY <1>1, <1>2 DEF CP!Typed

\* A text at the end, after the logo or not.
LEMMA OutputTyped ==
  ASSUME NEW before \in Seq(Texts), NEW text \in Texts
  PROVE  /\ before \o Logo \in Seq(Texts)
         /\ before \o (Logo \o <<text>>) \in Seq(Texts)
         /\ before \o <<text>> \in Seq(Texts)
         /\ Append(before, text) \in Seq(Texts)
         /\ (before \o Logo) \o <<text>> \in Seq(Texts)
         /\ before \o <<>> \in Seq(Texts)
         /\ (before \o <<>>) \o <<text>> \in Seq(Texts)
<1>1. Logo \in Seq(Texts) /\ <<text>> \in Seq(Texts) /\ <<>> \in Seq(Texts)
  <2>1. <<>> \in Seq(Texts) /\ <<"logo">> \in Seq(Texts) /\ <<text>> \in Seq(Texts)
    BY DEF Texts
  <2>2. Logo = <<>> \/ Logo = <<"logo">>
    BY DEF Logo
  <2> QED
    BY <2>1, <2>2
<1>2. before \o Logo \in Seq(Texts) /\ before \o <<>> \in Seq(Texts) /\ Logo \o <<text>> \in Seq(Texts)
  BY <1>1, ConcatProperties
<1> QED
  BY <1>1, <1>2, ConcatProperties, AppendProperties

\* The types of what is not the parser's.
After(point) == point \in {"initialize", "ready", "format", "write"}
Wmain ==
  /\ pc \in {"start", "parse", "initialize", "ready", "format", "write", "catch", "exited",
             "terminated"}
  /\ After(pc) => parsing = "accepted"
  /\ query \in {"none", "present"}
  /\ thrown \in {"nothing", "parameter", "system", "other"}
  /\ ready \in BOOLEAN
  /\ output \in Seq(Texts)
  /\ code \in {"running", "success", "parameter", "system", "failure"}

\* Every step keeps them: only an accepted command line lets wmain go on.
LEMMA WmainTyped == ASSUME Typed, [Next]_vars PROVE Wmain'
<1>2. Wmain
  BY DEF Typed, TypeOK, Texts, Wmain, After
<1>3. ASSUME NEW exception \in {"parameter", "system", "other"}, Throw(exception)
      PROVE  Wmain'
  BY <1>2, <1>3 DEF Wmain, After, Throw, commandArgs
<1>4. ASSUME NEW point \in {"initialize", "terminated", "format"}, Go(point),
             After(point) => parsing = "accepted"
      PROVE  Wmain'
  BY <1>2, <1>4 DEF Wmain, After, Go, commandArgs
<1>5. CASE Create
  BY <1>2, <1>3, <1>5 DEF Wmain, After, Create, commandArgs
<1>6. CASE ParseStep
  BY <1>2, <1>6 DEF Wmain, After, ParseStep
<1>7. CASE Parsed
  BY <1>3, <1>4, <1>7 DEF Wmain, After, Parsed
<1>8. CASE InitializeConsole
  BY <1>2, <1>8 DEF Wmain, After, InitializeConsole, commandArgs
<1>9. CASE Help
  <2>1. /\ output' = output \o (Logo \o <<"usage">>) /\ code' = "success" /\ pc' = "exited"
        /\ UNCHANGED <<commandArgs, query, thrown, ready>>
    BY <1>9 DEF Wmain, After, Help, Return
  <2>2. output' \in Seq(Texts)
    BY <1>2, <2>1, OutputTyped DEF Texts, Wmain
  <2> QED
    BY <1>2, <2>1, <2>2 DEF Wmain, After
<1>10. CASE Select \/ SelectPath
  <2>1. pc = "ready"
    BY <1>10 DEF Wmain, After, Select, SelectPath
  <2> QED
    BY <1>2, <1>3, <1>4, <1>10, <2>1 DEF Wmain, After, Select, SelectPath
<1>11. CASE CreateFormatter
  <2>1. /\ output' \in {output \o Logo, output \o <<>>} /\ pc = "format" /\ pc' = "write"
        /\ UNCHANGED <<commandArgs, query, thrown, ready, code>>
    BY <1>11 DEF Wmain, After, CreateFormatter
  <2>2. output' \in Seq(Texts)
    BY <1>2, <2>1, OutputTyped DEF Texts, Wmain
  <2> QED
    BY <1>2, <2>1, <2>2 DEF Wmain, After, commandArgs
<1>12. CASE Write
  <2>1. CASE Return(<<"document">>)
    <3>1. /\ output' = output \o <<"document">> /\ code' = "success" /\ pc' = "exited"
          /\ UNCHANGED <<commandArgs, query, thrown, ready>>
      BY <2>1 DEF Wmain, After, Return
    <3>2. output' \in Seq(Texts)
      BY <1>2, <3>1, OutputTyped DEF Texts, Wmain
    <3> QED
      BY <1>2, <3>1, <3>2 DEF Wmain, After
  <2>2. CASE pc' = "catch"
    <3>1. /\ output' = Append(output, "unfinished") /\ thrown' \in {"system", "parameter"}
          /\ UNCHANGED <<commandArgs, query, ready, code>>
      BY <1>12, <2>2 DEF Wmain, After, Write, Return
    <3>2. output' \in Seq(Texts)
      BY <1>2, <3>1, OutputTyped DEF Texts, Wmain
    <3> QED
      BY <1>2, <2>2, <3>1, <3>2 DEF Wmain, After, commandArgs
  <2> QED
    BY <1>12, <2>1, <2>2 DEF Wmain, After, Write
<1>13. CASE CatchSystemError \/ CatchOther
  <2>1. /\ output' \in {(output \o Logo) \o <<"error">>, (output \o <<>>) \o <<"error">>,
                        Append(output, "error")}
        /\ code' \in {"parameter", "system", "failure"} /\ pc' = "exited" /\ ready' \in BOOLEAN
        /\ UNCHANGED <<commandArgs, query, thrown>>
    BY <1>2, <1>13 DEF Wmain, After, CatchSystemError, CatchOther
  <2>2. output' \in Seq(Texts)
    BY <1>2, <2>1, OutputTyped DEF Texts, Wmain
  <2> QED
    BY <1>2, <2>1, <2>2 DEF Wmain, After
<1>14. CASE Done \/ UNCHANGED vars
  BY <1>2, <1>14 DEF Wmain, After, Done, vars, commandArgs
<1> QED
  BY <1>5, <1>6, <1>7, <1>8, <1>9, <1>10, <1>11, <1>12, <1>13, <1>14 DEF Next

\* And so every step keeps all types.
LEMMA NextTyped == Typed /\ [Next]_vars => Typed'
<1> SUFFICES ASSUME Typed, [Next]_vars PROVE Typed'
  OBVIOUS
<1>1. CP!Typed' /\ C!TypeOK'
  <2>1. C!Next \/ UNCHANGED commandArgs
    BY DEF Next, Create, ParseStep, Parsed, InitializeConsole, Help, Select, SelectPath,
       CreateFormatter, Write, CatchSystemError, CatchOther, Done, Throw, Go, Return, vars
  <2> QED
    BY <2>1, ParseTyped
<1> QED
  BY <1>1, WmainTyped DEF Typed, TypeOK, Texts, Wmain, After

\* The variables of the program have their types, and all that comes after parsing
\* works with a command line that was accepted whole.
THEOREM TypeCorrect == Spec => []TypeOK
<1>1. Typed => TypeOK
  BY DEF Typed
<1> QED
  BY <1>1, InitTyped, NextTyped, PTL DEF Spec

-----------------------------------------------------------------------------
(* Vswhere implements Program                                               *)

Fresh == selecting = "none" /\ selected = <<>> /\ instances = <<>> /\ k = 0

BadRange == helper /\ Options.range.given /\ ~Options.range.valid

\* Where Select may be when its enumerator is empty and -legacy is not given.
Quiet ==
  /\ pending = {} /\ selected = <<>>
  /\ selecting \in {"construct", "enumerate", "legacy", "order", "returned", "thrown"}
  /\ selecting = "thrown" => BadRange
  /\ selecting = "returned" => answer.list = <<>>

Nowhere ==
  ~MayFind =>
    /\ pc = "ready" => instances = <<>> /\ k = 0 /\ (Fresh \/ Quiet)
    /\ pc \in {"format", "write"} => instances = <<>> /\ k = 0
    /\ pc = "write" => writing \in {"start", "next", "done"}

IInv ==
  /\ query \in {"none", "present"}
  /\ pc \in {"start", "parse", "initialize"} => Fresh
  /\ pc = "ready" /\ selecting # "none" => ~args.help /\ args.path = None
  /\ Nowhere

-----------------------------------------------------------------------------
\* An empty vector gives the formatter an empty one.
LEMMA EmptyAnswers ==
  ASSUME instances = <<>>
  PROVE  Len([j \in DOMAIN instances |-> machine[instances[j]].answers]) = 0
<1>1. DOMAIN instances = 1..0
  OBVIOUS
<1> QED
  BY <1>1

LEMMA InitIInv == SystemInit => IInv
  BY DEF SystemInit, Init, IInv, Fresh, Nowhere

\* The steps of Program outside of finding and writing.
LEMMA FrameIInv == IInv /\ Frame => IInv'
<1> SUFFICES ASSUME IInv, Frame PROVE IInv'
  OBVIOUS
<1> USE DEF IInv, objects, selectorVars, formatterVars, Fresh
<1>0. UNCHANGED <<machine, helper, selectorVars, instances, formatterVars>>
  BY DEF Frame
<1>1. CASE Create
  BY <1>0, <1>1 DEF Create, Throw, Nowhere
<1>2. CASE ParseStep
  BY <1>0, <1>2 DEF ParseStep, Nowhere
<1>3. CASE Parsed
  BY <1>0, <1>3 DEF Parsed, Go, Throw, Nowhere
<1>4. CASE InitializeConsole
  BY <1>0, <1>4 DEF InitializeConsole, Nowhere
<1>5. CASE Help
  BY <1>0, <1>5 DEF Help, Return, Nowhere
<1>6. CASE CatchSystemError
  BY <1>0, <1>6 DEF CatchSystemError, Nowhere
<1>7. CASE CatchOther
  BY <1>0, <1>7 DEF CatchOther, Nowhere
<1> QED
  BY <1>1, <1>2, <1>3, <1>4, <1>5, <1>6, <1>7 DEF Frame

\* A selector with nothing to find finds nothing, and throws only for the range.
LEMMA QuietStep ==
  ASSUME Quiet, ~args.legacy, I!Step, UNCHANGED <<args, helper>>
  PROVE  Quiet'
<1> USE DEF Quiet
<1>0. Options' = Options /\ Options.legacy = args.legacy
  BY DEF Options, get_Products
<1>1. CASE I!Construct
  BY <1>0, <1>1 DEF I!Construct, I!Throw, BadRange
<1>2. CASE \E i \in Instances : I!Fetch(i)
  BY <1>2 DEF I!Fetch
<1>3. CASE I!EndEnumeration
  BY <1>3 DEF I!EndEnumeration
<1>4. CASE I!TryLegacy
  BY <1>0, <1>4 DEF I!TryLegacy
<1>5. CASE I!EndLegacy
  BY <1>5 DEF I!EndLegacy
<1>6. CASE I!Order
  <2>1. ~(Len(selected) > 1)
    OBVIOUS
  <2> QED
    BY <1>6, <2>1 DEF I!Order, I!Return
<1> QED
  BY <1>1, <1>2, <1>3, <1>4, <1>5, <1>6
  DEF I!Step, I!MatchOld, I!Match, I!NoWorkload, I!ExaminePackage, I!ReadsPackages, I!EndPackages,
      I!Insert, I!Shift, I!EndSort

\* Without an instance the formatter writes none.
LEMMA EmptyStep ==
  ASSUME instances = <<>>, k = 0, writing \in {"start", "next"}, F!Next
  PROVE  k' = 0 /\ writing' \in {"start", "next", "done"}
<1>1. ~(k < Len([j \in DOMAIN instances |-> machine[instances[j]].answers]))
  BY EmptyAnswers
<1> QED
  BY <1>1
  DEF F!Next, F!Start, F!StartFiles, F!WriteFile, F!EndFiles, F!StartInstance, F!End,
      F!WriteBuiltin, F!EndBuiltin, F!SkipStore, F!FailStore, F!EnterStore, F!WriteName, F!EndNames,
      F!LeaveStore, F!StartPackages, F!StartPackage, F!WritePackageProperty, F!EndPackage,
      F!EndPackages, F!EndInstance, F!Done

\* Every step keeps the invariant.
LEMMA StepIInv == IInv /\ [SystemNext]_vswhereVars => IInv'
<1> SUFFICES ASSUME IInv, [SystemNext]_vswhereVars PROVE IInv'
  OBVIOUS
<1> USE DEF IInv, Fresh
<1>1. CASE Frame
  BY <1>1, FrameIInv
<1>2. CASE GetEnumerator
  <2>1. UNCHANGED <<pc, query, args, instances, k>> /\ selecting' = "construct" /\ selected' = selected
    BY <1>2 DEF GetEnumerator, vars, commandArgs, formatterVars
  <2>2. ~MayFind => pending' = {}
    BY <1>2 DEF GetEnumerator, Enumerated, MayFind
  <2>3. ~args.help /\ args.path = None
    BY <1>2 DEF GetEnumerator
  <2>4. pc = "ready" /\ selecting = "none"
    BY <1>2 DEF GetEnumerator
  <2> QED
    BY <2>1, <2>2, <2>3, <2>4 DEF Nowhere, Quiet, MayFind
<1>3. CASE FailEnumerator
  BY <1>3 DEF FailEnumerator, Throw, Nowhere
<1>4. CASE SelectStep
  <2>1. /\ UNCHANGED <<pc, query, args, helper, instances, k>>
        /\ pc = "ready" /\ I!Step
    BY <1>4 DEF SelectStep, vars, commandArgs, formatterVars
  <2>2. selecting # "none"
    BY <2>1
    DEF I!Step, I!Construct, I!Fetch, I!EndEnumeration, I!MatchOld, I!Match, I!NoWorkload,
        I!ExaminePackage, I!ReadsPackages, I!EndPackages, I!TryLegacy, I!EndLegacy, I!Order,
        I!Insert, I!Shift, I!EndSort
  <2>3. ~MayFind => Quiet'
    BY <2>1, <2>2, QuietStep DEF Nowhere, MayFind
  <2> QED
    BY <2>1, <2>2, <2>3 DEF Nowhere, MayFind
<1>5. CASE Returned
  <2>1. /\ pc' = "format" /\ instances' = answer.list /\ k' = k
        /\ UNCHANGED <<query, args>>
        /\ pc = "ready" /\ selecting = "returned"
    BY <1>5 DEF Returned, Go, commandArgs, formatterVars
  <2> QED
    BY <2>1 DEF Nowhere, Quiet, MayFind
<1>6. CASE SelectFailed
  BY <1>6 DEF SelectFailed, Throw, Nowhere
<1>7. CASE FindPath
  <2>1. UNCHANGED query /\ pc' \in {"catch", "format"} /\ (pc' = "format" => query = "present")
    BY <1>7 DEF FindPath, SelectPath, Throw, Go
  <2> QED
    BY <2>1 DEF Nowhere, MayFind
<1>8. CASE StartFormatter
  <2>1. /\ pc = "format" /\ pc' = "write" /\ writing' = "start"
        /\ UNCHANGED <<query, args, instances, k>>
    BY <1>8 DEF StartFormatter, CreateFormatter, commandArgs
  <2> QED
    BY <2>1 DEF Nowhere, MayFind
<1>9. CASE WriteStep
  <2>1. /\ pc = "write" /\ writing \notin {"done", "thrown"} /\ F!Next
        /\ UNCHANGED <<pc, query, args, instances>>
    BY <1>9 DEF WriteStep, vars, commandArgs
  <2>2. ~MayFind => k' = 0 /\ writing' \in {"start", "next", "done"}
    BY <2>1, EmptyStep DEF Nowhere
  <2> QED
    BY <2>1, <2>2 DEF Nowhere, MayFind
<1>10. CASE Written
  BY <1>10 DEF Written, Return, Nowhere
<1>11. CASE WriteFailed \/ WalkFailed
  BY <1>11 DEF WriteFailed, WalkFailed, Break, Nowhere
<1>12. CASE UNCHANGED vswhereVars
  BY <1>12 DEF vswhereVars, vars, commandArgs, objects, selectorVars, formatterVars, Nowhere, Quiet,
               MayFind, BadRange, Options, get_Products
<1> QED
  BY <1>1, <1>2, <1>3, <1>4, <1>5, <1>6, <1>7, <1>8, <1>9, <1>10, <1>11, <1>12
  DEF SystemNext, Step

\* Under the invariant each step is one of Program, or changes nothing of it.
LEMMA StepProgram == IInv /\ [SystemNext]_vswhereVars => [Next]_vars
<1> SUFFICES ASSUME IInv, [SystemNext]_vswhereVars PROVE [Next]_vars
  OBVIOUS
<1>1. CASE Frame
  BY <1>1 DEF Frame, Next
<1>2. CASE GetEnumerator \/ SelectStep \/ WriteStep
  BY <1>2 DEF GetEnumerator, SelectStep, WriteStep
<1>3. CASE FailEnumerator
  BY <1>3 DEF FailEnumerator, Next, Select, MayFind
<1>4. CASE Returned
  BY <1>4 DEF Returned, Next, Select, IInv
<1>5. CASE SelectFailed
  <2>1. pc = "ready" /\ selecting = "thrown" /\ Throw(SelectError)
    BY <1>5 DEF SelectFailed
  <2>2. ~args.help /\ args.path = None
    BY <2>1 DEF IInv
  <2>3. CASE BadRange
    <3>1. args.version # None
      BY <2>3, RangeAssumption DEF BadRange, Options
    <3> QED
      BY <2>1, <2>2, <2>3, <3>1 DEF SelectError, BadRange, Next, Select
  <2>4. CASE ~BadRange
    <3>1. MayFind
      BY <2>1, <2>4 DEF IInv, Nowhere, Quiet, Fresh
    <3> QED
      BY <2>1, <2>2, <2>4, <3>1 DEF SelectError, BadRange, Next, Select
  <2> QED
    BY <2>3, <2>4
<1>6. CASE FindPath
  BY <1>6 DEF FindPath, Next
<1>7. CASE StartFormatter
  BY <1>7 DEF StartFormatter, Next
<1>8. CASE Written
  BY <1>8 DEF Written, Next, Write
<1>9. CASE WriteFailed \/ WalkFailed
  <2>1. /\ pc = "write" /\ MayFind
        /\ Break("system") \/ (args.find # None /\ Break("parameter"))
    BY <1>9 DEF WriteFailed, WalkFailed, Request, IInv, Nowhere
  <2> QED
    BY <2>1 DEF Break, Write, Next
<1>10. CASE UNCHANGED vswhereVars
  BY <1>10 DEF vswhereVars
<1> QED
  BY <1>1, <1>2, <1>3, <1>4, <1>5, <1>6, <1>7, <1>8, <1>9, <1>10 DEF SystemNext, Step

\* For all machines and command lines the program with its selector and its
\* formatter does what Program allows; so what is proved of Program is true of it.
THEOREM ProgramIsImplemented == SystemSpec => ImplementsProgram
<1>1. SystemInit => Init
  BY DEF SystemInit
<1> QED
  BY <1>1, InitIInv, StepIInv, StepProgram, PTL DEF SystemSpec, ImplementsProgram, Spec

-----------------------------------------------------------------------------
(* From the words to the document                                           *)

\* What the formatter is given: what each instance of the vector answers.
Found == [j \in DOMAIN instances |-> machine[instances[j]].answers]

\* The command lines, machines and requests that both may be given.
LegalOptions == {o \in I!Options : o.range.min <= o.range.max}
LegalMachines == {mach \in [I!Candidates -> I!Attributes] :
                    \A i \in I!Candidates : mach[i].legacy <=> i \in I!Legacy}
LegalRequests == [format : F!Formatters, property : Names \cup {None}, packages : BOOLEAN,
                  find : BOOLEAN, badPattern : BOOLEAN]

\* What is proved of the selector and of the formatter, about those of the program.
SP == INSTANCE InstanceSelectorProofs WITH
       options <- Options, installed <- [i \in DOMAIN machine |-> machine[i].attributes],
       instances <- selected, pc <- selecting, CommandLines <- LegalOptions, MachineStates <- LegalMachines
FP == INSTANCE FormatterProofs WITH
       request <- Request, instances <- [j \in DOMAIN instances |-> machine[instances[j]].answers],
       pc <- writing, Machines <- Seq(F!Answers), Requests <- LegalRequests

\* What the two selectors are made of is the same.
LEMMA LegacyIs ==
  /\ I!Legacy = SP!Legacy /\ I!Candidates = SP!Candidates
  /\ I!Attributes = SP!Attributes /\ I!Options = SP!Options
  BY DEF I!Legacy, SP!Legacy, I!Candidates, SP!Candidates, I!Attributes, SP!Attributes, I!Options,
     SP!Options

\* The assumptions of InstanceSelector hold of them.
LEMMA LegalIs ==
  /\ LegalOptions \subseteq SP!Options
  /\ \A o \in LegalOptions : o.range.min <= o.range.max
  /\ \A mach \in LegalMachines :
       /\ mach \in [SP!Candidates -> SP!Attributes]
       /\ \A i \in SP!Candidates : mach[i].legacy <=> i \in SP!Legacy
  BY LegacyIs DEF LegalOptions, LegalMachines

\* The two selectors are one machine.
LEMMA SameStep == I!Step <=> SP!Step
  BY ZenonT(20) DEF I!Step, SP!Step, I!Construct, SP!Construct, I!Throw, SP!Throw, I!Fetch,
     SP!Fetch,
     I!EndEnumeration, SP!EndEnumeration, I!MatchOld, SP!MatchOld, I!Accept, SP!Accept, I!Push,
     SP!Push, I!Reject, SP!Reject, I!Match, SP!Match, I!IsHidden, SP!IsHidden, I!ProductThrows,
     SP!ProductThrows, I!IsProductMatch, SP!IsProductMatch, I!IsVersionMatch,
     SP!IsVersionMatch, I!HasVersionRange, SP!HasVersionRange, I!NoWorkload, SP!NoWorkload,
     I!ExaminePackage, SP!ExaminePackage, I!ReadsPackages, SP!ReadsPackages, I!Erased,
     SP!Erased, I!Earlier, SP!Earlier, I!EndPackages, SP!EndPackages, I!IsWorkloadMatch,
     SP!IsWorkloadMatch, I!TryLegacy, SP!TryLegacy, I!EndLegacy, SP!EndLegacy, I!Order,
     SP!Order, I!Return, SP!Return, I!Insert, SP!Insert, I!LessThrows, SP!LessThrows, I!Less,
     SP!Less, I!HasVersion, SP!HasVersion, I!Version, SP!Version, I!HasDate, SP!HasDate,
     I!Before, SP!Before, I!MoveToFront, SP!MoveToFront, I!Shift, SP!Shift, I!EndSort,
     SP!EndSort, I!Front, SP!Front, I!S!Requirements, SP!S!Requirements, I!S!Meets, SP!S!Meets,
     I!S!Sorted, SP!S!Sorted, I!S!Open, SP!S!Open, I!S!Failed, SP!S!Failed, I!rigid, SP!rigid,
     I!range, SP!range, I!match, SP!match, I!sorter, SP!sorter

\* The JSON formatters do the same.
LEMMA SameJson ==
  /\ \A f, name : F!J!StartArray(f, name) = FP!J!StartArray(f, name)
  /\ \A f, name : F!J!StartObject(f, name) = FP!J!StartObject(f, name)
  /\ \A f, name : F!J!WriteProperty(f, name) = FP!J!WriteProperty(f, name)
  /\ \A f : F!J!EndScope(f) = FP!J!EndScope(f)
<1>1. /\ \A f : F!J!WriteStart(f) = FP!J!WriteStart(f)
      /\ \A f : F!J!EndScope(f) = FP!J!EndScope(f)
  BY DEF F!J!WriteStart, FP!J!WriteStart, F!J!Unstarted, FP!J!Unstarted, F!J!StartText,
     FP!J!StartText, F!J!Separator, FP!J!Separator, F!J!Comma, FP!J!Comma, F!J!Key, FP!J!Key,
     F!J!Open, FP!J!Open, F!J!EndScope, FP!J!EndScope, F!J!Top, FP!J!Top, F!J!Close,
     FP!J!Close, F!J!FlattenSeq, FP!J!FlattenSeq, F!J!Front, FP!J!Front
<1>2. \A f, type, name : F!J!StartScope(f, type, name) = FP!J!StartScope(f, type, name)
  BY <1>1 DEF F!J!StartScope, FP!J!StartScope, F!J!Separator, FP!J!Separator, F!J!Write, FP!J!Write,
     F!J!IsRoot, FP!J!IsRoot, F!J!Top, FP!J!Top, F!J!Scope, FP!J!Scope, F!J!Comma, FP!J!Comma
<1>3. \A f, name : F!J!StartProperty(f, name) = FP!J!StartProperty(f, name)
  BY <1>1, Zenon DEF F!J!StartProperty, FP!J!StartProperty, F!J!RequireSeparator,
     FP!J!RequireSeparator,
     F!J!Separator, FP!J!Separator, F!J!Write, FP!J!Write, F!J!Top, FP!J!Top, F!J!Comma,
     FP!J!Comma, F!J!Key, FP!J!Key
<1> QED
  BY <1>1, <1>2, <1>3, Zenon DEF F!J!StartArray, FP!J!StartArray, F!J!StartObject,
     FP!J!StartObject, F!J!WriteProperty,
     FP!J!WriteProperty, F!J!Write, FP!J!Write, F!J!Text, FP!J!Text

\* So do the XML formatters.
LEMMA SameXml ==
  /\ \A f : F!X!StartDocument(f) = FP!X!StartDocument(f)
  /\ \A f, name : F!X!StartArray(f, name) = FP!X!StartArray(f, name)
  /\ \A f, name : F!X!StartObject(f, name) = FP!X!StartObject(f, name)
  /\ \A f, name : F!X!WriteProperty(f, name) = FP!X!WriteProperty(f, name)
  /\ \A f : F!X!EndScope(f) = FP!X!EndScope(f)
  BY DEF F!X!StartDocument, FP!X!StartDocument, F!X!Declaration, FP!X!Declaration, F!X!Open,
     FP!X!Open, F!X!Close, FP!X!Close, F!X!Text, FP!X!Text, F!X!Scope, FP!X!Scope, F!X!Top,
     FP!X!Top, F!X!Unstarted, FP!X!Unstarted, F!X!WriteStart, FP!X!WriteStart,
     F!X!WriteProperty, FP!X!WriteProperty, F!X!StartScope, FP!X!StartScope, F!X!StartArray,
     FP!X!StartArray, F!X!StartObject, FP!X!StartObject, F!X!EndScope, FP!X!EndScope,
     F!X!FlattenSeq, FP!X!FlattenSeq, F!X!Front, FP!X!Front

\* So do the text formatters.
LEMMA SameText ==
  /\ \A f, name : F!T!StartArray(f, name) = FP!T!StartArray(f, name)
  /\ \A f, name : F!T!StartObject(f, name) = FP!T!StartObject(f, name)
  /\ \A f, name : F!T!WriteProperty(f, name) = FP!T!WriteProperty(f, name)
  /\ \A f : F!T!EndObject(f) = FP!T!EndObject(f)
  BY DEF F!T!Text, FP!T!Text, F!T!BlankLine, FP!T!BlankLine, F!T!Prefix, FP!T!Prefix,
     F!T!StartArray, FP!T!StartArray, F!T!StartObject, FP!T!StartObject, F!T!WriteProperty,
     FP!T!WriteProperty, F!T!EndObject, FP!T!EndObject, F!T!Front, FP!T!Front, F!T!Last,
     FP!T!Last

\* And so do the virtual methods.
LEMMA SameCalls ==
  /\ \A f : F!StartDocument(f) = FP!StartDocument(f)
  /\ \A f, name : F!StartArray(f, name) = FP!StartArray(f, name)
  /\ \A f, name : F!StartObject(f, name) = FP!StartObject(f, name)
  /\ \A f, name : F!WriteProperty(f, name) = FP!WriteProperty(f, name)
  /\ \A f : F!EndObject(f) = FP!EndObject(f)
  /\ \A f : F!EndArray(f) = FP!EndArray(f)
  BY SameJson, SameXml, SameText, ZenonT(30)
  DEF F!StartDocument, FP!StartDocument, F!StartArray, FP!StartArray, F!StartObject,
     FP!StartObject, F!WriteProperty, FP!WriteProperty, F!EndObject, FP!EndObject, F!EndArray,
     FP!EndArray

\* The two formatters are one machine.
LEMMA SameNext == F!Next <=> FP!Next
<1> USE SameCalls
    DEF F!WriteShown, FP!WriteShown, F!Throw, FP!Throw, F!instance, FP!instance, F!Specified,
     FP!Specified, F!IsSpecified, FP!IsSpecified, F!WriteIfReadable, FP!WriteIfReadable,
     F!Leave, FP!Leave, F!SoughtIn, FP!SoughtIn, F!Sought, FP!Sought, F!Properties,
     FP!Properties, F!NextPlace, FP!NextPlace, F!SupportsPackages, FP!SupportsPackages,
     F!rigid, FP!rigid
<1>1. /\ F!Start <=> FP!Start
      /\ F!StartFiles <=> FP!StartFiles
      /\ F!WriteFile <=> FP!WriteFile
      /\ F!EndFiles <=> FP!EndFiles
      /\ F!StartInstance <=> FP!StartInstance
      /\ F!End <=> FP!End
  BY DEF F!Start, FP!Start, F!StartFiles, FP!StartFiles, F!WriteFile, FP!WriteFile, F!EndFiles,
     FP!EndFiles, F!StartInstance, FP!StartInstance, F!End, FP!End
<1>2. /\ F!WriteBuiltin <=> FP!WriteBuiltin
      /\ F!EndBuiltin <=> FP!EndBuiltin
      /\ F!SkipStore <=> FP!SkipStore
      /\ F!FailStore <=> FP!FailStore
      /\ F!EnterStore <=> FP!EnterStore
      /\ F!EndInstance <=> FP!EndInstance
  BY Zenon DEF F!WriteBuiltin, FP!WriteBuiltin, F!EndBuiltin, FP!EndBuiltin, F!SkipStore,
     FP!SkipStore,
     F!FailStore, FP!FailStore, F!EnterStore, FP!EnterStore, F!EndInstance, FP!EndInstance
<1>3. /\ F!WriteName <=> FP!WriteName
      /\ F!EndNames <=> FP!EndNames
      /\ F!LeaveStore <=> FP!LeaveStore
  BY Zenon DEF F!WriteName, FP!WriteName, F!EndNames, FP!EndNames, F!LeaveStore, FP!LeaveStore
<1>4. /\ F!StartPackages <=> FP!StartPackages
      /\ F!StartPackage <=> FP!StartPackage
      /\ F!WritePackageProperty <=> FP!WritePackageProperty
      /\ F!EndPackage <=> FP!EndPackage
      /\ F!EndPackages <=> FP!EndPackages
  BY DEF F!StartPackages, FP!StartPackages, F!StartPackage, FP!StartPackage,
     F!WritePackageProperty, FP!WritePackageProperty, F!EndPackage, FP!EndPackage,
     F!EndPackages, FP!EndPackages
<1>5. F!Done <=> FP!Done
  BY DEF F!Done, FP!Done, F!vars, FP!vars
<1> QED
  BY <1>1, <1>2, <1>3, <1>4, <1>5 DEF F!Next, FP!Next

\* The command line is one the selector may be given.
LEMMA OptionsLegal == ASSUME TypeOK PROVE Options \in LegalOptions
<1>1. args \in C!Members
  BY DEF TypeOK, C!TypeOK
<1>2. /\ args.products \in Seq(Arguments) /\ args.requires \in Seq(Arguments)
      /\ args.requiresPattern \in Seq(Arguments) /\ args.version \in Arguments \cup {None}
      /\ args.prerelease \in BOOLEAN /\ args.requiresAny \in BOOLEAN /\ args.legacy \in BOOLEAN
      /\ args.latest \in BOOLEAN /\ args.sort \in BOOLEAN
  BY <1>1 DEF C!Members
<1>3. get_Products \subseteq Ids
  <2>1. Elements(args.products) \subseteq Arguments
    BY <1>2 DEF Elements
  <2> QED
    BY <2>1, WordsAssumption DEF get_Products
<1>4. args.requires \in Seq(Ids)
  BY <1>2, WordsAssumption
<1>5. [j \in DOMAIN args.requiresPattern |-> PatternOf[args.requiresPattern[j]]] \in Seq(SUBSET Ids)
  <2> DEFINE s == args.requiresPattern
             p == [j \in DOMAIN s |-> PatternOf[s[j]]]
  <2>1. DOMAIN s = 1..Len(s) /\ Len(s) \in Nat /\ \A j \in 1..Len(s) : s[j] \in Arguments
    BY <1>2
  <2>2. \A j \in 1..Len(s) : PatternOf[s[j]] \in SUBSET Ids
    BY <2>1, WordsAssumption
  <2> HIDE DEF s
  <2>3. p \in [1..Len(s) -> SUBSET Ids]
    BY <2>1, <2>2
  <2> HIDE DEF p
  <2>4. \A S : p \in [1..Len(s) -> S] => p \in Seq(S)
    BY <2>1
  <2> QED
    BY <2>3, <2>4, Zenon DEF p, s
<1>6. /\ RangeOf[args.version] \in [given : BOOLEAN, valid : BOOLEAN, min : Nat, max : Nat]
      /\ RangeOf[args.version].min <= RangeOf[args.version].max
  BY <1>2, RangeAssumption
<1> QED
  BY <1>2, <1>3, <1>4, <1>5, <1>6 DEF Options, LegalOptions, I!Options

\* So is the request.
LEMMA RequestLegal == ASSUME TypeOK PROVE Request \in LegalRequests
<1>1. args \in C!Members
  BY DEF TypeOK, C!TypeOK
<1>2. /\ args.format \in Formats \cup {None} /\ args.property \in Arguments \cup {None}
      /\ args.includePackages \in BOOLEAN
  BY <1>1 DEF C!Members
<1>3. get_Format \in F!Formatters
  BY <1>2, WordsAssumption DEF get_Format
<1> QED
  BY <1>2, <1>3, WordsAssumption DEF Request, LegalRequests

\* What each instance answers.
LEMMA MachineIs ==
  ASSUME machine \in Machines
  PROVE  /\ [i \in DOMAIN machine |-> machine[i].attributes] \in LegalMachines
         /\ DOMAIN machine = I!Candidates
         /\ \A i \in I!Candidates :
              /\ machine[i].attributes \in I!Attributes /\ machine[i].answers \in F!Answers
              /\ machine[i].attributes.legacy <=> i \in I!Legacy
              /\ i \in I!Legacy => ~machine[i].attributes.isInstance2
  BY MachinesAssumption DEF LegalMachines

\* And what the instances of the vector answer.
LEMMA FoundLegal ==
  ASSUME machine \in Machines, instances \in Seq(I!Candidates)
  PROVE  /\ Found \in Seq(F!Answers) /\ Len(Found) = Len(instances) /\ DOMAIN instances = 1..Len(instances)
         /\ \A j \in 1..Len(instances) : Found[j] = machine[instances[j]].answers
  BY MachineIs DEF Found

-----------------------------------------------------------------------------
(* The objects together                                                     *)

\* What the enumerator of the command line may give.
Available == {i \in Instances : machine[i].complete \/ args.all}

\* Nothing was selected yet.
Unselected ==
  /\ min = 0 /\ max = 0
  /\ pending = {} /\ current = None /\ package = 0 /\ unmet = {} /\ tried = 0
  /\ selected = <<>>
  /\ mid = 0 /\ hole = 0 /\ val = None
  /\ matched = {}
  /\ answer = I!S!Open

\* The selector's own invariant, once it was made; and what it has came from the
\* enumerator or is legacy.
Finding ==
  /\ selecting = "none" => Unselected
  /\ selecting # "none" => SP!IInv /\ SP!Listed
  /\ pending \subseteq Available
  /\ current \in Available \cup {None}
  /\ matched \subseteq Available \cup I!Legacy

\* Nothing else is done to the selector.
LEMMA SameFinding ==
  ASSUME Finding, UNCHANGED <<args, machine, helper, selectorVars>>
  PROVE  Finding'
<1>1. UNCHANGED <<selecting, Available, SP!vars>>
  BY DEF selectorVars, Available, SP!vars, SP!rigid, SP!range, SP!match, SP!sorter, Options,
     get_Products
<1>2. SP!IInv /\ SP!Listed => SP!IInv' /\ SP!Listed'
  BY <1>1, SP!NextIInv, SP!NextListed, SelectorAssumption, LegacyIs, LegalIs
<1> QED
  BY <1>1, <1>2 DEF Finding, Unselected, selectorVars

\* A selector is made.
LEMMA GetEnumeratorFinding ==
  ASSUME Finding, TypeOK, machine \in Machines, GetEnumerator
  PROVE  Finding'
<1>1. /\ selecting = "none" /\ selecting' = "construct" /\ helper' \in BOOLEAN
      /\ UNCHANGED <<args, query, machine, min, max, current, package, unmet, tried, selected, mid, hole, val,
                     matched, answer>>
      /\ pending' \in Enumerated
  BY Zenon DEF GetEnumerator, vars, commandArgs
<1>2. Available' = Available /\ Options' = Options
  BY <1>1 DEF Available, Options, get_Products
<1>3. pending' \subseteq Available
  <2>1. query \in {"none", "present"}
    BY DEF TypeOK
  <2> QED
    BY <1>1, <2>1 DEF Enumerated, Complete, Available
<1>4. Unselected
  BY <1>1 DEF Finding
<1>5. SP!Begins'
  <2>1. Options' \in LegalOptions
    BY <1>2, OptionsLegal
  <2>2. [i \in DOMAIN machine |-> machine[i].attributes]' \in LegalMachines
    BY <1>1, MachineIs
  <2>3. pending' \subseteq Instances
    BY <1>3 DEF Available
  <2>4. I!S!Open = SP!S!Open
    BY DEF I!S!Open, SP!S!Open
  <2> QED
    BY <1>1, <1>4, <2>1, <2>2, <2>3, <2>4 DEF SP!Begins, Unselected, LegalOptions, LegalMachines
<1>6. SP!IInv'
  BY <1>5, SP!BeginsIInvNext, SelectorAssumption, LegacyIs, LegalIs
<1>7. SP!Listed'
  BY <1>1 DEF SP!Listed
<1> QED
  BY <1>1, <1>2, <1>3, <1>4, <1>6, <1>7 DEF Finding, Unselected

\* A step of the selector takes instances from the enumerator and from the
\* provider of legacy instances.
LEMMA SelectStepFinding == ASSUME Finding, SelectStep PROVE Finding'
<1>1. I!Step /\ UNCHANGED <<args, machine, helper>>
  BY DEF SelectStep, vars, commandArgs
<1>2. Available' = Available
  BY <1>1 DEF Available
<1>3. selecting # "none" /\ selecting' # "none"
  BY <1>1
  DEF I!Step, I!Construct, I!Fetch, I!EndEnumeration, I!MatchOld, I!Match, I!NoWorkload,
      I!ExaminePackage, I!ReadsPackages, I!EndPackages, I!TryLegacy, I!EndLegacy, I!Order,
      I!Insert, I!Shift, I!EndSort, I!Throw, I!Accept, I!Reject, I!Return
<1>4. SP!IInv /\ SP!Listed
  BY <1>3 DEF Finding
<1>5. SP!Next
  BY <1>1, SameStep DEF SP!Next
<1>6. SP!IInv' /\ SP!Listed'
  BY <1>4, <1>5, SP!NextIInv, SP!NextListed, SelectorAssumption, LegacyIs, LegalIs
<1>7. selecting \in {"match", "workload"} => current \in Available
  <2>1. selecting \in {"match", "workload"} => current \in Instances
    BY <1>4 DEF SP!IInv, SP!LookedAtOnce
  <2> QED
    BY <2>1, SelectorAssumption DEF Finding, I!Candidates
<1>8. LegacyVersions \in Seq(I!Legacy)
  BY SelectorAssumption
<1>9. /\ pending' \subseteq Available
      /\ current' \in Available \cup {None}
      /\ matched' \subseteq Available \cup I!Legacy
  <2>1. CASE \E i \in Instances : I!Fetch(i)
    BY <2>1 DEF Finding, I!Fetch
  <2>2. CASE I!TryLegacy
    <3>1. LegacyVersions[tried + 1] \in I!Legacy
      <4>1. tried \in 0..Len(LegacyVersions) /\ tried < Len(LegacyVersions)
        BY <1>4, <2>2 DEF SP!IInv, SP!TypeOK, I!TryLegacy
      <4> QED
        BY <1>8, <4>1
    <3> QED
      BY <2>2, <3>1 DEF Finding, I!TryLegacy, I!Push, I!Throw, I!match
  <2>3. CASE I!MatchOld \/ I!Match \/ I!NoWorkload \/ I!ExaminePackage \/ I!EndPackages
    BY <1>7, <2>3
    DEF Finding, I!MatchOld, I!Match, I!NoWorkload, I!ExaminePackage, I!ReadsPackages,
    I!EndPackages, I!Accept,
        I!Reject, I!Push, I!Throw, I!match
  <2>4. CASE I!Construct \/ I!EndEnumeration \/ I!EndLegacy \/ I!Order \/ I!Insert \/ I!Shift \/ I!EndSort
    BY <2>4
    DEF Finding, I!Construct, I!EndEnumeration, I!EndLegacy, I!Order, I!Insert, I!Shift, I!EndSort,
    I!Throw,
        I!Return, I!match
  <2> QED
    BY <1>1, <2>1, <2>2, <2>3, <2>4 DEF I!Step
<1> QED
  BY <1>2, <1>3, <1>6, <1>9 DEF Finding

\* The vector of wmain is the one instance of the path or what Select returned.
Vector ==
  /\ instances \in Seq(I!Candidates)
  /\ args.latest => Len(instances) <= 1
  /\ instances # <<>> => args.path # None \/ (selecting = "returned" /\ instances = answer.list)

\* The formatter's own invariant, once it was created, with a command line that was
\* accepted; and success comes after a whole document only.
Unwritten == k = 0 /\ place = "own" /\ n = 1 /\ m = 1 /\ found = FALSE /\ shown = <<>>
Writing ==
  /\ pc \notin {"write", "catch", "exited"} => writing = "none"
  /\ pc = "write" => writing # "none"
  /\ writing = "none" => Unwritten
  /\ writing # "none" => FP!ShowsInv /\ parsing = "accepted"
  /\ writing = "done" => k = Len(instances)
  /\ code = "success" => pc = "exited" /\ (args.help \/ writing = "done")

\* What holds of all objects at every step.
System == machine \in Machines /\ helper \in BOOLEAN /\ Finding /\ Vector /\ Writing

\* All steps but those of the formatter leave it alone, and what it was given.
LEMMA SameWriting ==
  ASSUME Writing, UNCHANGED formatterVars,
         writing # "none" => UNCHANGED <<args, parsing, machine, instances>>,
         pc' \notin {"write", "catch", "exited"} => writing = "none",
         pc' = "write" => writing # "none",
         code' = "success" => pc' = "exited" /\ (args'.help \/ writing' = "done")
  PROVE  Writing'
<1>1. Unwritten => Unwritten'
  BY DEF Unwritten, formatterVars
<1>2. CASE writing = "none"
  BY <1>1, <1>2 DEF Writing, formatterVars
<1>3. CASE writing # "none"
  <2>1. UNCHANGED FP!vars
    BY <1>3 DEF FP!vars, FP!rigid, formatterVars, Request, get_Format
  <2>2. FP!ShowsInv'
    BY <1>3, <2>1, FP!NextShows, NamesAssumption
    DEF Writing, LegalRequests, F!Answers, F!Formatters, FP!Answers, FP!Formatters
  <2> QED
    BY <1>3, <2>2 DEF Writing, formatterVars
<1> QED
  BY <1>2, <1>3

\* A formatter is created.
LEMMA StartFormatterWriting ==
  ASSUME Writing, Vector, TypeOK, machine \in Machines, StartFormatter
  PROVE  Writing'
<1>1. /\ pc = "format" /\ pc' = "write" /\ writing' = "start"
      /\ formatter' = F!Create(get_Format)
      /\ UNCHANGED <<args, parsing, code, machine, instances, k, place, n, m, found, shown>>
  BY DEF StartFormatter, CreateFormatter, commandArgs
<1>2. Unwritten /\ parsing = "accepted" /\ code # "success"
  BY <1>1 DEF Writing, TypeOK
<1>3. FP!Init'
  <2>1. Request' = Request /\ Found' = Found
    BY <1>1 DEF Request, get_Format, Found
  <2>2. Request \in LegalRequests /\ Found \in Seq(F!Answers)
    BY RequestLegal, FoundLegal DEF Vector
  <2>3. F!Create(get_Format) = FP!Create(Request.format)
    BY ZenonT(30) DEF F!Create, FP!Create, F!J!New, FP!J!New, F!X!New, FP!X!New, F!T!New, FP!T!New,
       Request
  <2> QED
    BY <1>1, <1>2, <2>1, <2>2, <2>3 DEF FP!Init, Found, Unwritten, LegalRequests, F!Answers,
       F!Formatters
<1>4. FP!ShowsInv'
  BY <1>3, FP!InitShowsNext, NamesAssumption
  DEF LegalRequests, F!Answers, F!Formatters, FP!Answers, FP!Formatters
<1> QED
  BY <1>1, <1>2, <1>4 DEF Writing

\* It writes.
LEMMA WriteStepWriting ==
  ASSUME Writing, Vector, machine \in Machines, WriteStep
  PROVE  Writing'
<1>1. /\ pc = "write" /\ F!Next
      /\ UNCHANGED <<pc, args, parsing, code, machine, instances>>
  BY DEF WriteStep, vars, commandArgs
<1>2. writing # "none" /\ FP!ShowsInv /\ parsing = "accepted" /\ code # "success"
  BY <1>1 DEF Writing
<1>3. [FP!Next]_(FP!vars)
  BY <1>1, SameNext
<1>4. FP!ShowsInv'
  BY <1>2, <1>3, FP!NextShows, NamesAssumption
  DEF LegalRequests, F!Answers, F!Formatters, FP!Answers, FP!Formatters
<1>5. writing' # "none"
  BY <1>4 DEF FP!ShowsInv, FP!Typed, FP!TypeOK
<1>6. writing' = "done" => k' = Len(instances)
  <2>1. Len(Found) = Len(instances) /\ Len(Found)' = Len(instances)
    BY <1>1, FoundLegal DEF Vector, Found
  <2>2. writing = "done" => k = Len(Found)
    BY <2>1 DEF Writing
  <2>3. writing' = "done" => k' = Len(Found)'
    BY <1>3, <2>2, FP!FinishedAtEnd, NamesAssumption
    DEF LegalRequests, F!Answers, F!Formatters, FP!Answers, FP!Formatters, Found
  <2> QED
    BY <2>1, <2>3
<1> QED
  BY <1>1, <1>2, <1>4, <1>5, <1>6 DEF Writing

\* Before the program is ready there is nothing in its objects.
LEMMA InitSystem == SystemInit => System
<1> SUFFICES ASSUME SystemInit PROVE System
  OBVIOUS
<1>1. instances \in Seq(I!Candidates) /\ Len(instances) = 0
  BY DEF SystemInit
<1>2. Finding
  BY DEF SystemInit, Finding, Unselected
<1>3. Vector /\ Writing
  BY <1>1 DEF SystemInit, Init, Vector, Writing, Unwritten
<1> QED
  BY <1>2, <1>3, Zenon DEF SystemInit, System

\* Most steps do not touch the vector.
LEMMA SameVector ==
  ASSUME Vector, UNCHANGED <<instances, args>>,
         instances = <<>> \/ (selecting = "returned" => UNCHANGED <<selecting, answer>>)
  PROVE  Vector'
  BY DEF Vector

\* It is what the selector returned.
LEMMA ReturnedVector == ASSUME Finding, Returned PROVE Vector'
<1>1. /\ selecting = "returned" /\ selecting' = selecting /\ answer' = answer /\ args' = args
      /\ instances' = answer.list
  BY DEF Returned, Go, selectorVars, commandArgs
<1>2. SP!IInv /\ SP!Listed
  BY <1>1 DEF Finding
<1>3. answer.list \in Seq(matched) /\ (args.latest => Len(answer.list) <= 1) /\ matched \subseteq I!Candidates
  BY <1>1, <1>2, LegacyIs DEF SP!Listed, Options, SP!IInv, SP!TypeOK
<1>4. answer.list \in Seq(I!Candidates)
  BY <1>3
<1> QED
  BY <1>1, <1>3, <1>4 DEF Vector

\* Or the one instance of the path.
LEMMA FindPathVector == ASSUME Vector, FindPath PROVE Vector'
<1>1. /\ UNCHANGED <<args, selecting, answer>> /\ args.path # None
      /\ UNCHANGED instances \/ \E i \in Instances : instances' = <<i>>
  BY DEF FindPath, SelectPath, Throw, Go, commandArgs, selectorVars
<1>2. CASE UNCHANGED instances
  BY <1>1, <1>2 DEF Vector
<1>3. CASE \E i \in Instances : instances' = <<i>>
  <2>1. instances' \in Seq(I!Candidates) /\ Len(instances') <= 1
    BY <1>3 DEF I!Candidates
  <2> QED
    BY <1>1, <2>1 DEF Vector
<1> QED
  BY <1>1, <1>2, <1>3

\* What wmain does before parsing is done does not touch the objects, nor what
\* comes after their words.
LEMMA FrameSystem == ASSUME System, IInv, Frame PROVE System'
<1>1. UNCHANGED <<machine, helper, selecting, answer, instances, selectorVars, formatterVars>>
  BY DEF Frame, objects, selectorVars
<1>2. (pc = "parse" /\ pc' = "parse" /\ code' = code) \/
        /\ UNCHANGED <<args, parsing>>
        /\ \/ code' \in {code, "parameter", "system", "failure"} /\ pc' # "write"
           \/ pc = "ready" /\ args.help /\ pc' = "exited"
        /\ pc' \in {"catch", "exited"} \/ pc \notin {"write", "catch", "exited"}
        /\ pc # "exited"
  BY DEF Frame, Create, ParseStep, Parsed, InitializeConsole, Help, Return, CatchSystemError,
     CatchOther,
         Throw, Go, commandArgs
<1>3. pc = "parse" => instances = <<>> /\ selecting = "none" /\ writing = "none" /\ k = 0
  BY DEF System, IInv, Fresh, Writing
<1>4. Finding'
  <2>1. CASE UNCHANGED args
    BY <1>1, <2>1, SameFinding DEF System
  <2>2. CASE pc = "parse"
    BY <1>1, <1>3, <2>2 DEF System, Finding, Unselected, selectorVars, Available
  <2> QED
    BY <1>2, <2>1, <2>2
<1>5. Vector'
  <2>1. CASE UNCHANGED args
    BY <1>1, <2>1, SameVector DEF System
  <2>2. CASE pc = "parse"
    BY <1>1, <1>3, <2>2 DEF System, Vector
  <2> QED
    BY <1>2, <2>1, <2>2
<1>6. Writing'
  <2>1. Writing /\ UNCHANGED formatterVars
    BY <1>1 DEF System
  <2>2. writing # "none" => UNCHANGED <<args, parsing, machine, instances>>
    BY <1>1, <1>2, <1>3
  <2>3. /\ pc' \notin {"write", "catch", "exited"} => writing = "none"
        /\ pc' = "write" => writing # "none"
    BY <1>2, <1>3, <2>1 DEF Writing
  <2>4. code' = "success" => pc' = "exited" /\ (args'.help \/ writing' = "done")
    BY <1>2, <1>3, <2>1 DEF Writing
  <2> QED
    BY <2>1, <2>2, <2>3, <2>4, SameWriting
<1> QED
  BY <1>1, <1>4, <1>5, <1>6 DEF System

\* Every step keeps the three of them.
LEMMA StepSystem ==
  ASSUME System, IInv, TypeOK, [SystemNext]_vswhereVars
  PROVE  System'
<1> USE DEF selectorVars, formatterVars
<1>0. Finding /\ Vector /\ Writing /\ machine \in Machines /\ helper \in BOOLEAN
  BY DEF System
<1>1. ASSUME UNCHANGED <<args, parsing, objects>>, pc # "exited",
             \/ pc \notin {"write", "catch"} /\ pc' # "write" /\ code' = code
             \/ pc = "write" /\ writing # "none" /\ writing # "done" /\ pc' = "catch" /\ code' = code
             \/ pc = "write" /\ writing = "done" /\ pc' = "exited"
      PROVE  System'
  <2>1. Finding'
    BY <1>0, <1>1, SameFinding DEF objects
  <2>2. Vector'
    BY <1>0, <1>1, SameVector DEF objects
  <2>3. Writing /\ UNCHANGED formatterVars /\ UNCHANGED <<args, parsing, machine, instances>>
    BY <1>0, <1>1 DEF objects
  <2>4. /\ pc' \notin {"write", "catch", "exited"} => writing = "none"
        /\ pc' = "write" => writing # "none"
        /\ code' = "success" => pc' = "exited" /\ (args'.help \/ writing' = "done")
    BY <1>0, <1>1 DEF Writing, objects
  <2>5. Writing'
    BY <2>3, <2>4, SameWriting
  <2> QED
    BY <1>0, <1>1, <2>1, <2>2, <2>5 DEF System, objects
<1>2. CASE Frame
  BY <1>2, FrameSystem
<1>3. CASE GetEnumerator
  <2>1. /\ pc = "ready" /\ selecting = "none" /\ helper' \in BOOLEAN
        /\ UNCHANGED <<pc, code, args, parsing, machine, instances, answer, formatterVars>>
    BY <1>3, <1>0, Zenon DEF GetEnumerator, vars, commandArgs, TypeOK, Enumerated
  <2>2. Finding'
    BY <1>0, <1>3, GetEnumeratorFinding
  <2>3. Vector'
    BY <1>0, <2>1, SameVector
  <2>4. Writing'
    <3>1. /\ UNCHANGED formatterVars /\ UNCHANGED <<args, parsing, machine, instances>>
          /\ pc' \notin {"write", "catch", "exited"} => writing = "none"
          /\ pc' = "write" => writing # "none"
          /\ code' = "success" => pc' = "exited" /\ (args'.help \/ writing' = "done")
      BY <1>0, <2>1 DEF Writing
    <3> QED
      BY <1>0, <3>1, SameWriting
  <2> QED
    BY <1>0, <2>1, <2>2, <2>3, <2>4 DEF System
<1>4. CASE SelectStep
  <2>1. /\ pc = "ready" /\ I!Step
        /\ UNCHANGED <<pc, code, args, parsing, machine, helper, instances, formatterVars>>
    BY <1>4 DEF SelectStep, vars, commandArgs
  <2>2. selecting # "returned"
    BY <2>1
    DEF I!Step, I!Construct, I!Fetch, I!EndEnumeration, I!MatchOld, I!Match, I!NoWorkload,
        I!ExaminePackage, I!ReadsPackages, I!EndPackages, I!TryLegacy, I!EndLegacy, I!Order,
        I!Insert, I!Shift, I!EndSort
  <2>3. Finding'
    BY <1>0, <1>4, SelectStepFinding
  <2>4. Vector'
    BY <1>0, <2>1, <2>2, SameVector
  <2>5. Writing'
    <3>1. /\ UNCHANGED formatterVars /\ UNCHANGED <<args, parsing, machine, instances>>
          /\ pc' \notin {"write", "catch", "exited"} => writing = "none"
          /\ pc' = "write" => writing # "none"
          /\ code' = "success" => pc' = "exited" /\ (args'.help \/ writing' = "done")
      BY <1>0, <2>1 DEF Writing
    <3> QED
      BY <1>0, <3>1, SameWriting
  <2> QED
    BY <1>0, <2>1, <2>3, <2>4, <2>5 DEF System
<1>5. CASE Returned \/ FindPath
  <2>1. /\ pc = "ready" /\ pc' \in {"catch", "format"} /\ code' = code
        /\ UNCHANGED <<args, parsing, machine, helper, selectorVars, formatterVars>>
    BY <1>5 DEF Returned, FindPath, SelectPath, Go, Throw, commandArgs
  <2>2. Finding'
    BY <1>0, <2>1, SameFinding
  <2>3. Vector'
    BY <1>0, <1>5, ReturnedVector, FindPathVector
  <2>4. Writing'
    <3>1. /\ UNCHANGED formatterVars /\ writing = "none"
          /\ pc' \notin {"write", "catch", "exited"} => writing = "none"
          /\ pc' = "write" => writing # "none"
          /\ code' = "success" => pc' = "exited" /\ (args'.help \/ writing' = "done")
      BY <1>0, <2>1 DEF Writing
    <3> QED
      BY <1>0, <3>1, SameWriting
  <2> QED
    BY <1>0, <2>1, <2>2, <2>3, <2>4 DEF System
<1>6. CASE FailEnumerator \/ SelectFailed
  BY <1>1, <1>6 DEF FailEnumerator, SelectFailed, Throw, commandArgs, objects
<1>7. CASE StartFormatter
  <2>1. UNCHANGED <<args, machine, helper, selectorVars, instances>>
    BY <1>7 DEF StartFormatter, CreateFormatter, commandArgs
  <2> QED
    BY <1>0, <1>7, <2>1, SameFinding, SameVector, StartFormatterWriting DEF System
<1>8. CASE WriteStep
  <2>1. UNCHANGED <<args, machine, helper, selectorVars, instances>>
    BY <1>8 DEF WriteStep, vars, commandArgs
  <2> QED
    BY <1>0, <1>8, <2>1, SameFinding, SameVector, WriteStepWriting DEF System
<1>9. CASE Written
  BY <1>1, <1>9 DEF Written, Return, commandArgs, objects
<1>10. CASE WriteFailed \/ WalkFailed
  <2>1. /\ pc = "write" /\ pc' = "catch" /\ code' = code /\ UNCHANGED <<args, parsing, objects>>
        /\ writing \in {"thrown", "files"}
    BY <1>10 DEF WriteFailed, WalkFailed, Break, commandArgs
  <2> QED
    BY <1>1, <2>1
<1>11. CASE UNCHANGED vswhereVars
  <2>1. UNCHANGED <<pc, code, args, parsing, machine, helper, selectorVars, instances, formatterVars>>
    BY <1>11 DEF vswhereVars, vars, commandArgs, objects
  <2>2. Writing'
    <3>1. /\ UNCHANGED formatterVars /\ UNCHANGED <<args, parsing, machine, instances>>
          /\ pc' \notin {"write", "catch", "exited"} => writing = "none"
          /\ pc' = "write" => writing # "none"
          /\ code' = "success" => pc' = "exited" /\ (args'.help \/ writing' = "done")
      BY <1>0, <2>1 DEF Writing
    <3> QED
      BY <1>0, <3>1, SameWriting
  <2> QED
    BY <1>0, <2>1, <2>2, SameFinding, SameVector DEF System
<1> QED
  BY <1>2, <1>3, <1>4, <1>5, <1>6, <1>7, <1>8, <1>9, <1>10, <1>11 DEF SystemNext, Step

\* So it holds always, with the types and with the meaning of the words.
LEMMA SystemInvariance == SystemSpec => [](System /\ TypeOK /\ CP!MeansItsWords)
<1>1. SystemSpec => []TypeOK
  BY ProgramIsImplemented, TypeCorrect, PTL DEF ImplementsProgram
<1>2. SystemSpec => []CP!MeansItsWords
  <2>1. C!Init => CP!Init
    BY SameParser
  <2>2. [C!Next]_(C!vars) => [CP!Next]_(CP!vars)
    BY SameParser DEF C!vars, CP!vars
  <2>3. CP!Spec => []CP!MeansItsWords
    BY CP!Meaningful, SameParser, ArgumentsAssumption, CommandLinesAssumption
  <2> QED
    BY <2>1, <2>2, <2>3, ProgramIsImplemented, ParsesItsCommandLine, PTL
    DEF ImplementsProgram, C!Spec, CP!Spec
<1> QED
  BY <1>1, <1>2, InitSystem, InitIInv, StepSystem, StepIInv, PTL DEF SystemSpec

\* What the words of an accepted command line say is what the objects are asked for.
LEMMA Means ==
  ASSUME TypeOK, CP!MeansItsWords, parsing = "accepted"
  PROVE  LET products == Elements(C!Texts(Len(argv), "products"))
         IN  /\ \A name \in {"all", "latest", "legacy", "prerelease"} : args[name] <=> GivenWord(name)
             /\ args.path # None => GivenWord("path")
             /\ Star \notin products =>
                  get_Products = IF products = {} THEN DefaultProducts ELSE products
<1> DEFINE c == Len(argv)
           texts == C!Texts(c, "products")
           products == Elements(texts)
           words == CP!Meaning(c)
<1>1. args = CP!WholeMeaning
  BY DEF CP!MeansItsWords
<1>2. /\ \A name : CP!Given(c, name) <=> GivenWord(name)
      /\ \A name : CP!Texts(c, name) = C!Texts(c, name)
  <2>1. \A name : CP!Given(c, name) <=> GivenWord(name)
    BY DEF CP!Given, GivenWord, C!Given, CP!Parameter, C!Parameter
  <2>2. \A name : CP!Texts(c, name) = C!Texts(c, name)
    BY DEF CP!Texts, C!Texts, CP!FlattenSeq, C!FlattenSeq, CP!BelongsTo, C!BelongsTo, CP!Owner,
       C!Owner,
       CP!Parameters, C!Parameters
  <2> QED
    BY <2>1, <2>2
<1>3. /\ DOMAIN words = DOMAIN CP!Defaults
      /\ \A name \in CP!Flags : words[name] = CP!Given(c, name)
      /\ \A name \in CP!Single : words[name] = CP!LastText(c, name)
      /\ words.productsAll = FALSE
      /\ words.products = CP!Texts(c, "products")
  BY CP!MeaningIs, ArgumentsAssumption, CommandLinesAssumption, SameParser, Zenon
<1>4. /\ \A name \in {"all", "latest", "legacy", "prerelease", "path"} : args[name] = words[name]
      /\ args.productsAll = CP!AnyProduct
      /\ args.products = IF CP!AnyProduct THEN <<>> ELSE words.products
  <2>1. {"all", "latest", "legacy", "prerelease", "path", "productsAll", "products", "format"}
          \subseteq DOMAIN words
    BY <1>3 DEF CP!Defaults
  <2> HIDE DEF words
  <2>2. args = [words EXCEPT
                  !.productsAll = CP!AnyProduct,
                  !.products = IF CP!AnyProduct THEN <<>> ELSE @,
                  !.format = IF @ = None /\ (CP!Given(c, "property") \/ CP!Given(c, "find"))
                               THEN Value ELSE @]
    BY <1>1 DEF CP!WholeMeaning, words
  <2> HIDE DEF c
  <2> QED
    BY <2>1, <2>2
<1>5. \A name \in {"all", "latest", "legacy", "prerelease"} : args[name] <=> GivenWord(name)
  BY <1>2, <1>3, <1>4 DEF CP!Flags, CP!SelectionFlags, CP!OtherFlags
<1>6. args.path # None => GivenWord("path")
  <2> SUFFICES ASSUME args.path # None PROVE CP!Given(c, "path")
    BY <1>2
  <2>1. CP!LastText(c, "path") # None
    BY <1>3, <1>4 DEF CP!Single
  <2>2. CP!Texts(Len(argv), "path") # <<>>
    BY <2>1 DEF CP!LastText
  <2>3. argv \in Seq(CP!Words)
    BY SameParser DEF TypeOK, C!TypeOK
  <2> QED
    BY <2>2, <2>3, CP!TextIsGiven, ArgumentsAssumption, CommandLinesAssumption, SameParser
<1>7. CP!AnyProduct <=> Star \in products
  BY <1>2 DEF CP!AnyProduct, CP!Range, Elements
<1>8. args.products \in Seq(Arguments)
  BY DEF TypeOK, C!TypeOK, C!Members
<1>9. ASSUME Star \notin products
      PROVE  get_Products = IF products = {} THEN DefaultProducts ELSE products
  <2>1. args.productsAll = FALSE /\ args.products = texts
    BY <1>2, <1>3, <1>4, <1>7, <1>9
  <2>2. texts = <<>> <=> products = {}
    <3>1. texts \in Seq(Arguments)
      BY <1>8, <2>1
    <3> HIDE DEF texts
    <3>2. DOMAIN texts = 1..Len(texts) /\ Len(texts) \in Nat /\ (Len(texts) = 0 <=> texts = <<>>)
      BY <3>1
    <3>3. CASE Len(texts) = 0
      BY <3>2, <3>3 DEF Elements
    <3>4. CASE Len(texts) > 0
      <4>1. 1 \in DOMAIN texts
        BY <3>2, <3>4
      <4> QED
        BY <3>2, <3>4, <4>1 DEF Elements
    <3> QED
      BY <3>2, <3>3, <3>4
  <2> HIDE DEF texts
  <2> QED
    BY <2>1, <2>2 DEF get_Products
<1> QED
  BY <1>5, <1>6, <1>9

\* What the selector matched is what the words ask for.
LEMMA MatchedIsWanted ==
  ASSUME System, TypeOK, CP!MeansItsWords, parsing = "accepted", selecting # "none", NEW i \in matched
  PROVE  Wanted(i)
<1> DEFINE a == machine[i].attributes
           products == Elements(C!Texts(Len(argv), "products"))
<1>1. SP!S!Satisfies(i) /\ i \in I!Candidates
  BY LegacyIs DEF System, Finding, SP!IInv, SP!AllSatisfy, SP!TypeOK
<1>2. /\ a \in I!Attributes
      /\ a.legacy <=> i \in I!Legacy
      /\ i \in I!Legacy => ~a.isInstance2
      /\ [j \in DOMAIN machine |-> machine[j].attributes][i] = a
  BY <1>1, MachineIs DEF System
<1>3. /\ a.legacy => args.legacy /\ SP!S!InRange(i)
      /\ a.isInstance2 =>
           /\ a.prerelease => args.prerelease
           /\ get_Products = {} \/ a.product \in get_Products
           /\ SP!S!InRange(i)
  BY <1>1, <1>2 DEF SP!S!Satisfies, Options
<1>4. ~a.legacy => machine[i].complete \/ args.all
  BY <1>1, <1>2 DEF System, Finding, Available
<1>5. SP!S!InRange(i) <=> I!S!InRange(i)
  BY DEF SP!S!InRange, I!S!InRange
<1>6. /\ args.all <=> GivenWord("all")
      /\ args.legacy <=> GivenWord("legacy")
      /\ args.prerelease <=> GivenWord("prerelease")
      /\ Star \notin products => get_Products = IF products = {} THEN DefaultProducts ELSE products
  BY Means
<1>7. Star \notin products => get_Products # {}
  BY <1>6, WordsAssumption
<1> HIDE DEF products, a
<1> QED
  BY <1>3, <1>4, <1>5, <1>6, <1>7 DEF Wanted, products, a

\* From the words of any command line to the document, for all machines: nothing is
\* shown of an instance that these words do not ask for, and only the first with
\* -latest.
THEOREM ShowsOnlyTheWanted == SystemSpec => []OnlyWantedIsShown
<1>1. ASSUME System, TypeOK, CP!MeansItsWords PROVE OnlyWantedIsShown
  <2> SUFFICES ASSUME shown # <<>>
               PROVE  /\ \/ GivenWord("path")
                         \/ \A j \in DOMAIN shown : Wanted(instances[shown[j].instance])
                      /\ GivenWord("latest") => \A j \in DOMAIN shown : shown[j].instance = 1
    BY DEF OnlyWantedIsShown
  <2>1. FP!ShowsInv /\ parsing = "accepted"
    BY <1>1 DEF System, Writing, Unwritten
  <2>2. /\ Len(Found) = Len(instances) /\ Len(instances) \in Nat /\ DOMAIN instances = 1..Len(instances)
    BY <1>1, FoundLegal DEF System, Vector
  <2>3. \A j \in DOMAIN shown : shown[j].instance \in 1..Len(instances)
    <3> DEFINE R == [instance : 1..Len(Found), name : Names,
                     place : FP!Places \cup {"builtin", "packages", "files"}]
    <3>1. shown \in Seq(R)
      BY <2>1 DEF FP!ShowsInv, FP!Typed, FP!TypeOK, Found
    <3>2. \A r \in R : r.instance \in 1..Len(instances)
      BY <2>2
    <3> HIDE DEF R
    <3> QED
      BY <3>1, <3>2
  <2>4. GivenWord("latest") => \A j \in DOMAIN shown : shown[j].instance = 1
    <3>1. args.latest <=> GivenWord("latest")
      BY <1>1, <2>1, Means
    <3> QED
      BY <1>1, <2>2, <2>3, <3>1 DEF System, Vector
  <2>5. ASSUME ~GivenWord("path"), NEW j \in DOMAIN shown PROVE Wanted(instances[shown[j].instance])
    <3> DEFINE i == shown[j].instance
    <3>1. args.path = None
      BY <1>1, <2>1, <2>5, Means
    <3>2. i \in 1..Len(instances) /\ instances # <<>>
      BY <2>2, <2>3
    <3> HIDE DEF i
    <3>3. selecting = "returned" /\ instances = answer.list
      BY <1>1, <3>1, <3>2 DEF System, Vector
    <3>4. answer.list \in Seq(matched)
      BY <1>1, <3>3 DEF System, Finding, SP!Listed
    <3>5. instances[i] \in matched
      BY <3>2, <3>3, <3>4
    <3>6. Wanted(instances[i])
      BY <1>1, <2>1, <3>3, <3>5, MatchedIsWanted
    <3> QED
      BY <3>6 DEF i
  <2> QED
    BY <2>4, <2>5
<1> QED
  BY <1>1, SystemInvariance, PTL

\* With success nothing that was found is missing from the document: of every
\* instance it shows each builtin property that can be read and was asked for.
THEOREM LosesNothing == SystemSpec => []NothingFoundIsLost
<1>1. ASSUME System, TypeOK PROVE NothingFoundIsLost
  <2> SUFFICES ASSUME pc = "exited", code = "success", ~args.help, args.find = None,
                      NEW j \in DOMAIN instances, NEW name \in Elements(Builtin),
                      args.property \in {None, name},
                      name \notin machine[instances[j]].answers.unreadable
               PROVE  \E s \in DOMAIN shown : shown[s] = [instance |-> j, place |-> "builtin", name |-> name]
    BY DEF NothingFoundIsLost
  <2>1. writing = "done" /\ k = Len(instances) /\ FP!ShowsInv
    BY <1>1 DEF System, Writing
  <2>2. /\ Found \in Seq(F!Answers) /\ Len(Found) = Len(instances) /\ j \in 1..Len(Found)
        /\ Found[j] = machine[instances[j]].answers
    BY <1>1, FoundLegal DEF System, Vector
  <2>3. shown = FP!Upto(Len(Found))
    BY <2>1, <2>2 DEF FP!ShowsInv, FP!Progress
  <2>4. PICK b \in DOMAIN Builtin : name = Builtin[b]
    BY DEF Elements
  <2>5. ~Request.find /\ Request.property \in {None, Builtin[b]} /\ Builtin[b] \notin Found[j].unreadable
    BY <2>2, <2>4, Zenon DEF Request
  <2>6. [instance |-> j, place |-> "builtin", name |-> Builtin[b]] \in FP!Range(FP!Upto(Len(Found)))
    BY <2>2, <2>5, FP!ReadableIsShown, NamesAssumption, Zenon
    DEF FP!IsSpecified, Found, LegalRequests, F!Answers, F!Formatters, FP!Answers, FP!Formatters
  <2> QED
    BY <2>3, <2>4, <2>6 DEF FP!Range
<1> QED
  BY <1>1, SystemInvariance, PTL
=============================================================================
