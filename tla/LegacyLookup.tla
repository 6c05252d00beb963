---------------------------- MODULE LegacyLookup ----------------------------
(***************************************************************************)
(* What a caller may expect of TryGetLegacyInstance, asked for one version *)
(* after the other: the answer of a single look into the registry, at some *)
(* moment of the call.  Only when another program changes the value during *)
(* the call may the call fail, or take data that is no text for a path.    *)
(***************************************************************************)
EXTENDS Integers, Sequences

CONSTANTS
  Versions,   \* the versions asked for, in their order
  Strings,    \* values of the registry of type REG_SZ
  Others,     \* values of other types
  Absent      \* there is no value

VARIABLES
  registry,   \* the value of each version
  changed,    \* the value asked for was changed during the call
  answers,    \* those given
  failed      \* the last call threw an exception

vars == <<registry, changed, answers, failed>>

Data == Strings \cup Others
Nothing == [found |-> FALSE, path |-> Absent]
Found(path) == [found |-> TRUE, path |-> path]

Registries == [1..Len(Versions) -> Data \cup {Absent}]
asked == Len(answers) + 1

Init ==
  /\ registry \in Registries
  /\ changed = FALSE
  /\ answers = <<>>
  /\ failed = FALSE

Write ==
  /\ registry' \in Registries
  /\ changed' \in BOOLEAN
  /\ changed => changed'
  /\ changed' => changed \/ (asked <= Len(Versions) /\ registry'[asked] # registry[asked])
  /\ UNCHANGED <<answers, failed>>

Answer(a) ==
  /\ ~failed /\ asked <= Len(Versions)
  /\ answers' = Append(answers, a)
  /\ changed' = FALSE
  /\ UNCHANGED <<registry, failed>>

AnswerNothing == registry[asked] \notin Strings /\ Answer(Nothing)

AnswerFound ==
  /\ registry[asked] \in Strings \/ (changed /\ registry[asked] \in Others)
  /\ Answer(Found(registry[asked]))

Fail ==
  /\ ~failed /\ asked <= Len(Versions)
  /\ changed
  /\ failed' = TRUE
  /\ UNCHANGED <<registry, changed, answers>>

Next == Write \/ AnswerNothing \/ AnswerFound \/ Fail

Spec == Init /\ [][Next]_vars
=============================================================================
