------------------------------ MODULE Program ------------------------------
(***************************************************************************)
(* wmain: the order in which the program creates its objects, parses its   *)
(* command line, makes the console ready, finds instances and writes them, *)
(* and what its handlers of exceptions write.  The command line is parsed  *)
(* by the machine of CommandArgs, step by step; finding (InstanceSelector) *)
(* and writing (Formatter) are reduced to how they end.                    *)
(*                                                                         *)
(* Exceptions are those the program throws and those of a NULL object;     *)
(* that memory runs out is not modelled.                                   *)
(***************************************************************************)
EXTENDS Integers, Sequences

CONSTANTS
  Arguments, Star, Wildcards, Malformed, Formats, Packages, Value, None,
  CommandLines,     \* as in CommandArgs
  TextFormat        \* the format without -format, the only one with a logo

VARIABLES
  argv, parsing, it, args, hasSelection,   \* those of CommandArgs
  pc,               \* the control point
  query,            \* the setup configuration: "none", or "present"
  thrown,           \* the exception on its way to a handler
  ready,            \* console.Initialize has run
  output,           \* what was written
  code              \* what wmain returns

commandArgs == <<argv, parsing, it, args, hasSelection>>
vars == <<commandArgs, pc, query, thrown, ready, output, code>>

C == INSTANCE CommandArgs WITH pc <- parsing

ASSUME ArgumentsAssumption ==
  /\ Star \in Wildcards /\ Wildcards \subseteq Arguments /\ Malformed \subseteq Wildcards
  /\ Formats \subseteq Arguments /\ Value \in Formats /\ Packages \in Arguments
  /\ None \notin Arguments
ASSUME CommandLinesAssumption == CommandLines \subseteq Seq(C!Words)

Init ==
  /\ C!Init
  /\ pc = "start"
  /\ query = "none"
  /\ thrown = "nothing"
  /\ ready = FALSE
  /\ output = <<>>
  /\ code = "running"

\* "parameter" is a win32_error ERROR_INVALID_PARAMETER, "system" another
\* system_error, "other" an exception of another kind.
Throw(exception) ==
  /\ pc' = "catch"
  /\ thrown' = exception
  /\ UNCHANGED <<commandArgs, query, ready, output, code>>

Go(where) ==
  /\ pc' = where
  /\ UNCHANGED <<commandArgs, query, thrown, ready, output, code>>

Return(texts) ==
  /\ output' = output \o texts
  /\ code' = "success"
  /\ pc' = "exited"
  /\ UNCHANGED <<commandArgs, query, thrown, ready>>

\* COM is initialized and the query object created; that its class is not
\* registered is no failure.
Create ==
  /\ pc = "start"
  /\ \/ Throw("system")
     \/ \E q \in {"none", "present"} :
          /\ query' = q
          /\ pc' = "parse"
          /\ UNCHANGED <<commandArgs, thrown, ready, output, code>>

\* args.Parse
ParseStep ==
  /\ pc = "parse"
  /\ parsing \in {"tokenize", "parse"}
  /\ C!Next
  /\ UNCHANGED <<pc, query, thrown, ready, output, code>>

\* Faulty variant of Parsed: what was read so far has to do.
ParsedAnyway ==
  /\ pc = "parse"
  /\ \/ parsing \in {"accepted", "rejected"} /\ Go("initialize")
     \/ parsing = "terminated" /\ Go("terminated")

Parsed ==
  /\ pc = "parse"
  /\ \/ parsing = "accepted" /\ Go("initialize")
     \/ parsing = "rejected" /\ Throw("parameter")
     \/ parsing = "terminated" /\ Go("terminated")

InitializeConsole ==
  /\ pc = "initialize"
  /\ ready' = TRUE
  /\ pc' = "ready"
  /\ UNCHANGED <<commandArgs, query, thrown, output, code>>

\* WriteLogo
Logo == IF args.nologo THEN <<>> ELSE <<"logo">>

Help == pc = "ready" /\ args.help /\ Return(Logo \o <<"usage">>)

\* Without the query object only legacy instances may be found.
MayFind == query = "present" \/ args.legacy

\* The enumerator may fail, the version range may be invalid (with a helper only),
\* and Select may throw.
Select ==
  /\ pc = "ready" /\ ~args.help
  /\ args.path = None
  /\ \/ MayFind /\ Throw("system")
     \/ args.version # None /\ Throw("parameter")
     \/ Go("format")

\* The full path may not be known; query is not asked for when it is NULL, but
\* called.  That there is no instance for the path is no failure.
SelectPath ==
  /\ pc = "ready" /\ ~args.help
  /\ args.path # None
  /\ \/ Throw("system")
     \/ query = "none" /\ Throw("other")
     \/ query = "present" /\ Go("format")

\* Faulty variant of ShowsLogo: the method is not overridden.
ShowsLogoAlways == TRUE

ShowsLogo == args.format \in {None, TextFormat}

CreateFormatter ==
  /\ pc = "format"
  /\ output' = output \o IF ShowsLogo THEN Logo ELSE <<>>
  /\ pc' = "write"
  /\ UNCHANGED <<commandArgs, query, thrown, ready, code>>

\* A pattern of -find is only looked at for an instance with a path, after the
\* document was begun.
Write ==
  /\ pc = "write"
  /\ \/ Return(<<"document">>)
     \/ \E exception \in {"system"} \cup (IF args.find = None THEN {} ELSE {"parameter"}) :
          /\ MayFind
          /\ output' = Append(output, "unfinished")
          /\ pc' = "catch"
          /\ thrown' = exception
          /\ UNCHANGED <<commandArgs, query, ready, code>>

\* Faulty variant of CatchSystemError: the console is not initialized there.
CatchUninitialized ==
  /\ pc = "catch"
  /\ thrown \in {"parameter", "system"}
  /\ output' = output \o (IF thrown = "parameter" THEN Logo ELSE <<>>) \o <<"error">>
  /\ code' = thrown
  /\ pc' = "exited"
  /\ UNCHANGED <<commandArgs, query, thrown, ready>>

\* The logo depends on the options read before the exception.
CatchSystemError ==
  /\ pc = "catch"
  /\ thrown \in {"parameter", "system"}
  /\ ready' = TRUE
  /\ output' = output \o (IF thrown = "parameter" THEN Logo ELSE <<>>) \o <<"error">>
  /\ code' = thrown
  /\ pc' = "exited"
  /\ UNCHANGED <<commandArgs, query, thrown>>

\* The handlers of every other exception do not initialize the console.
CatchOther ==
  /\ pc = "catch"
  /\ thrown = "other"
  /\ output' = Append(output, "error")
  /\ code' = "failure"
  /\ pc' = "exited"
  /\ UNCHANGED <<commandArgs, query, thrown, ready>>

Done == pc \in {"exited", "terminated"} /\ UNCHANGED vars

Next ==
  \/ Create
  \/ ParseStep
  \/ Parsed
  \/ InitializeConsole
  \/ Help
  \/ Select
  \/ SelectPath
  \/ CreateFormatter
  \/ Write
  \/ CatchSystemError
  \/ CatchOther
  \/ Done

Spec == Init /\ [][Next]_vars

-----------------------------------------------------------------------------
(* Properties                                                               *)

\* Types; and everything after parsing relies on a command line accepted whole.
TypeOK ==
  /\ C!TypeOK
  /\ pc \in {"start", "parse", "initialize", "ready", "format", "write", "catch", "exited",
             "terminated"}
  /\ pc \in {"initialize", "ready", "format", "write"} => parsing = "accepted"
  /\ query \in {"none", "present"}
  /\ thrown \in {"nothing", "parameter", "system", "other"}
  /\ ready \in BOOLEAN
  /\ output \in Seq({"logo", "usage", "document", "unfinished", "error"})
  /\ code \in {"running", "success", "parameter", "system", "failure"}

\* The assertion in Console::Write: nothing is written before the console is ready,
\* on whatever path the exception came.
ConsoleIsReady == output # <<>> => ready

\* The exit code tells a caller what is in the output: with success, in a format
\* for programs, a whole document and nothing else; otherwise an error at the end
\* and no document that is whole.
ExitCodeTells ==
  pc = "exited" =>
    IF code = "success"
      THEN output = IF args.help THEN Logo \o <<"usage">>
                    ELSE IF args.format \in {None, TextFormat} THEN Logo \o <<"document">>
                    ELSE <<"document">>
      ELSE /\ output[Len(output)] = "error"
           /\ \A j \in 1..(Len(output) - 1) : output[j] \in {"logo", "unfinished"}
=============================================================================
