--------------------------- MODULE LegacyProvider ---------------------------
(***************************************************************************)
(* LegacyProvider: TryGetLegacyInstance reads a value of the registry      *)
(* twice, first its type and size and then its data, for each of the       *)
(* versions Select asks for; other programs may write the registry at any  *)
(* time.  Select does not ask when the key was not there at the start.     *)
(***************************************************************************)
EXTENDS Integers, Sequences

CONSTANTS
  Characters,  \* those of the texts
  Versions,    \* the versions Select asks for
  Strings,     \* values of type REG_SZ
  Others,      \* values of other types
  Absent,      \* there is no value
  Size,        \* the size of the data of a value
  MaxWrites    \* how often other programs write

Data == Strings \cup Others

ASSUME ValuesAssumption ==
  /\ Versions \in Seq(Seq(Characters))
  /\ Strings \cap Others = {} /\ Absent \notin Data
  /\ Size \in [Data -> Nat]
  /\ MaxWrites \in Nat

VARIABLES
  registry,   \* the value of each version; all are absent when the key is deleted
  writes,     \* how often it was written
  pc,         \* the control point
  hasKey,     \* m_hKey
  cbData,     \* the size read first
  answers,    \* what TryGetLegacyInstance answered so far
  changed     \* history: the value asked for was written since its size was read

vars == <<registry, writes, pc, hasKey, cbData, answers, changed>>

Nothing == [found |-> FALSE, path |-> Absent]
Found(path) == [found |-> TRUE, path |-> path]

Registries == [1..Len(Versions) -> Data \cup {Absent}]
asked == Len(answers) + 1
value == registry[asked]

Init ==
  /\ registry \in Registries
  /\ writes = 0
  /\ pc = "construct"
  /\ hasKey = FALSE
  /\ cbData = 0
  /\ answers = <<>>
  /\ changed = FALSE

-----------------------------------------------------------------------------
(* Other programs                                                           *)

Write ==
  /\ writes < MaxWrites
  /\ \E j \in 1..Len(Versions), v \in Data \cup {Absent} :
       /\ registry' = [registry EXCEPT ![j] = v]
       /\ changed' = (changed \/ (pc = "value" /\ j = asked /\ v # value))
  /\ writes' = writes + 1
  /\ UNCHANGED <<pc, hasKey, cbData, answers>>

\* With the key go all its values; an open handle of it does not see a new one.
DeleteKey ==
  /\ writes < MaxWrites
  /\ registry' = [j \in 1..Len(Versions) |-> Absent]
  /\ writes' = MaxWrites
  /\ changed' = (changed \/ (pc = "value" /\ value # Absent))
  /\ UNCHANGED <<pc, hasKey, cbData, answers>>

-----------------------------------------------------------------------------
(* The provider                                                             *)

\* The constructor runs before wmain: nobody catches what it throws, unless the
\* key is merely absent.
Construct ==
  /\ pc = "construct"
  /\ \/ pc' = "terminated" /\ UNCHANGED hasKey
     \/ pc' = "select" /\ hasKey' \in BOOLEAN
  /\ UNCHANGED <<registry, writes, cbData, answers, changed>>

\* HasLegacyInstances, and the loop of Select.
AskNext ==
  /\ pc = "select"
  /\ pc' = IF hasKey /\ asked <= Len(Versions) THEN "size" ELSE "done"
  /\ UNCHANGED <<registry, writes, hasKey, cbData, answers, changed>>

Return(a) ==
  /\ answers' = Append(answers, a)
  /\ changed' = FALSE
  /\ pc' = "select"
  /\ UNCHANGED <<registry, writes, hasKey, cbData>>

\* Faulty variant of ReadSize: any value will do.
ReadSizeOfAny ==
  /\ pc = "size"
  /\ \/ value \notin Data /\ Return(Nothing)
     \/ /\ value \in Data
        /\ cbData' = Size[value]
        /\ pc' = "value"
        /\ UNCHANGED <<registry, writes, hasKey, answers, changed>>

\* The first call of RegQueryValueEx; the type stays 0 when it fails.
ReadSize ==
  /\ pc = "size"
  /\ \/ value \notin Strings /\ Return(Nothing)
     \/ /\ value \in Strings
        /\ cbData' = Size[value]
        /\ pc' = "value"
        /\ UNCHANGED <<registry, writes, hasKey, answers, changed>>

Fits == value \in Data /\ Size[value] <= cbData

\* Faulty variant of ReadValue: that the data became larger is not looked at, and
\* the buffer stays as it was.
ReadValueAnyway ==
  /\ pc = "value"
  /\ Return(Found(IF Fits THEN value ELSE Absent))

\* The second call.  It does not ask for the type, and fails when the value is
\* gone or does not fit; shorter data end at the first zero of the buffer.
ReadValue ==
  /\ pc = "value"
  /\ \/ Fits /\ Return(Found(value))
     \/ /\ ~Fits
        /\ pc' = "thrown"
        /\ UNCHANGED <<registry, writes, hasKey, cbData, answers, changed>>

Done == pc \in {"done", "thrown", "terminated"} /\ UNCHANGED vars

Next == Write \/ DeleteKey \/ Construct \/ AskNext \/ ReadSize \/ ReadValue \/ Done

Spec == Init /\ [][Next]_vars

-----------------------------------------------------------------------------
(* Properties                                                               *)

\* Types; and a size that was read is that of a text there was, and still is
\* unless the value was written since.
TypeOK ==
  /\ registry \in Registries
  /\ writes \in Nat
  /\ pc \in {"construct", "terminated", "select", "size", "value", "done", "thrown"}
  /\ hasKey \in BOOLEAN /\ changed \in BOOLEAN
  /\ answers \in Seq({Nothing} \cup {Found(path) : path \in Data})
  /\ pc \in {"size", "value"} => hasKey /\ asked <= Len(Versions)
  /\ pc = "value" /\ ~changed => value \in Strings /\ cbData = Size[value]

Lookup == INSTANCE LegacyLookup WITH failed <- pc = "thrown"

\* The two reads answer as one would: each path is the whole data the value had at
\* one moment of the call, and there is none only when it was no text then.  Only
\* a write between the reads makes the call fail, or be given other data.
LooksUpAtOnce == Lookup!Spec
=============================================================================
