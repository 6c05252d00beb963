------------------------------ MODULE Listing ------------------------------
(***************************************************************************)
(* From the registry to the document: LegacyProvider looks the versions    *)
(* up, and each that was found is a LegacyInstance, whose properties are   *)
(* written as Values describes.  An instance of the setup service is       *)
(* written the same way; the registry is then empty.                       *)
(***************************************************************************)
EXTENDS LegacyProvider

CONSTANTS
  Quote, Backslash, LetterN, NewLine, Null, Failure, DateText, Prefix, Half, Memory,
  Instances    \* those of the setup service: one of them may be written

VARIABLES
  pInstance, n, vtValue, shown,   \* those of Values
  writing,                        \* its control point, "idle" before there is an instance
  listed                          \* how many answers of the provider are written

valueVars == <<pInstance, n, vtValue, shown, writing>>
providerVars == <<registry, writes, pc, hasKey, cbData, answers, changed>>
listingVars == <<providerVars, valueVars, listed>>

V == INSTANCE Values WITH pc <- writing

\* What an instance may answer: a text, no text, or a failure; a state is half as wide
\* as the data of a VARIANT.
Texts == Seq(Characters \cup {Prefix})
IsInstance(i) ==
  /\ \A method \in V!TextMethods \cup {"GetProductId", "ResolvePath"} :
       i.answer[method] \in Texts \cup {Null, Failure}
  /\ i.answer["GetInstallDate"] # Failure =>
       DateText[i.answer["GetInstallDate"]] \in Texts \cup {Failure}
  /\ i.answer["GetState"] \in (0..(Half - 1)) \cup {Failure}
  /\ \A p \in {i.store[j] : j \in DOMAIN i.store} :
       p.value.vt = "BSTR" => p.value.low \in Texts \cup {Null}

\* RegQueryValueEx gives the caller the bytes of data of another type, which are read
\* as a text, too.
ASSUME TextsAssumption ==
  /\ Data \subseteq Texts /\ Null \notin Texts /\ Failure \notin Texts
  /\ Quote # Backslash /\ NewLine \notin {Quote, Backslash} /\ LetterN \notin {Quote, Backslash}
ASSUME HalfAssumption == Half \in Nat \ {0} /\ Memory \subseteq Nat
ASSUME InstancesAssumption ==
  \A i \in Instances :
    /\ i # Null /\ ~i.isLegacy /\ IsInstance(i)
    /\ i.store \in Seq({i.store[j] : j \in DOMAIN i.store})

ListingInit ==
  /\ Init
  /\ n = 1 /\ vtValue = V!Empty /\ shown = <<>>
  /\ listed = 0
  /\ \/ pInstance = Null /\ writing = "idle"
     \/ /\ pInstance \in Instances /\ writing = "builtin"
        /\ registry = [j \in 1..Len(Versions) |-> Absent]

\* Select has its answers before anything is written.
Provide ==
  /\ writing = "idle" /\ listed = 0
  /\ \/ Write
     \/ DeleteKey
     \/ Construct
     \/ AskNext
     \/ ReadSize
     \/ ReadValue
  /\ UNCHANGED <<valueVars, listed>>

IsIdle == writing = "idle" \/ V!IsWritten

\* The next legacy version; one that was not found is no instance.
StartLegacy ==
  /\ pc = "done" /\ IsIdle
  /\ listed < Len(answers)
  /\ listed' = listed + 1
  /\ IF answers[listed + 1].found
       THEN V!Begin(V!LegacyInstance(Versions[listed + 1], answers[listed + 1].path))
       ELSE UNCHANGED valueVars
  /\ UNCHANGED providerVars

WriteValue ==
  /\ V!Next
  /\ UNCHANGED <<providerVars, listed>>

Listed ==
  \/ pc \in {"thrown", "terminated"}
  \/ writing \in {"crashed", "thrown"}
  \/ pc = "done" /\ IsIdle /\ listed = Len(answers)
  \/ V!IsWritten /\ ~pInstance.isLegacy

ListingNext ==
  \/ Provide
  \/ StartLegacy
  \/ WriteValue
  \/ Listed /\ UNCHANGED listingVars

ListingSpec == ListingInit /\ [][ListingNext]_listingVars

-----------------------------------------------------------------------------
(* Properties                                                               *)

\* The properties of Values, of the instance that is being written.
HasInstance == pInstance # Null

\* One VARIANT holds the answers for all properties, and some getters succeed
\* without setting it: each property shows what its own method answered, and none is
\* shown whose method failed.
EachShowsItsOwn == HasInstance => V!EachShowsItsOwn

\* A reader of the JSON text of a property reads the text the store gave, whatever
\* quotes and backslashes are in it.
TextsReadBack == HasInstance => V!TextsReadBack

\* The usage text of -legacy: "Information is limited."  Every instance found in the
\* registry is shown with its id, its version and its path, and what it does not
\* implement fails nothing.
LegacyIsLimited == HasInstance => V!LegacyIsLimited
=============================================================================
