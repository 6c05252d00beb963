-------------------------- MODULE InstanceSelector --------------------------
(***************************************************************************)
(* InstanceSelector: its constructor and Select, step by step.  Select     *)
(* enumerates the instances of the setup service, keeps those IsMatch      *)
(* accepts, appends the legacy ones, and orders the vector with std::sort  *)
(* and the comparator !Less, as the MSVC library does for a vector of at   *)
(* most 32 elements: by insertion.                                         *)
(*                                                                         *)
(* A call the program makes to a COM object may fail; a failure of a       *)
(* getter is a value of "installed".  An exception ends the run of Select. *)
(***************************************************************************)
EXTENDS Integers, Sequences

CONSTANTS
  Instances,       \* the instances the setup service may enumerate
  LegacyVersions,  \* the legacy versions tried, in their order: an instance each
  VersionTexts,    \* the texts an instance may give as its version
  ParsedVersion,   \* the number ISetupHelper::ParseVersion reads in a text, or -1
  TextOrder,       \* the place of a text in the order of ci_less
  Ids,             \* product and package ids, without their letter case
  NoVersion,       \* GetInstallationVersion fails
  NoProduct,       \* GetProduct fails or gives no product
  EmptyId,         \* a product whose id is the empty string
  BadId,           \* a package reference whose GetId fails
  None,            \* no instance
  MachineStates,   \* what may be installed: what each candidate answers
  CommandLines     \* what CommandArgs may hold

Legacy     == {LegacyVersions[k] : k \in DOMAIN LegacyVersions}
Candidates == Instances \cup Legacy

Attributes ==
  [legacy : BOOLEAN,                             \* comes from the LegacyProvider
   isInstance2 : BOOLEAN,                        \* has ISetupInstance2
   prerelease : BOOLEAN,                         \* its catalog says so
   product : Ids \cup {NoProduct, EmptyId, BadId},
   version : VersionTexts \cup {NoVersion},
   date : Nat \cup {-1},                         \* -1 when GetInstallDate fails
   hasPackages : BOOLEAN,                        \* GetPackages succeeds
   packages : Seq(Ids \cup {BadId})]

\* The range is the text of -version, as ParseVersionRange reads it.
Options ==
  [prerelease : BOOLEAN, products : SUBSET Ids,
   requires : Seq(Ids), requiresPattern : Seq(SUBSET Ids), requiresAny : BOOLEAN,
   legacy : BOOLEAN, latest : BOOLEAN, sort : BOOLEAN,
   range : [given : BOOLEAN, valid : BOOLEAN, min : Nat, max : Nat]]

ASSUME VersionsAssumption ==
  /\ ParsedVersion \in [VersionTexts -> Nat \cup {-1}]
  /\ TextOrder \in [VersionTexts -> Nat]
  /\ NoVersion \notin VersionTexts
ASSUME IdsAssumption ==
  /\ NoProduct \notin Ids /\ EmptyId \notin Ids /\ BadId \notin Ids
ASSUME LegacyAssumption ==
  /\ LegacyVersions \in Seq(Legacy)
  /\ \A j, k \in DOMAIN LegacyVersions : LegacyVersions[j] = LegacyVersions[k] => j = k
  /\ Legacy \cap Instances = {} /\ None \notin Candidates
ASSUME MachineStatesAssumption ==
  \A m \in MachineStates :
    /\ m \in [Candidates -> Attributes]
    /\ \A i \in Candidates : m[i].legacy <=> i \in Legacy
\* A valid range is ordered: theorem OutputsAreOrdered of VersionRange.
ASSUME CommandLinesAssumption ==
  /\ CommandLines \subseteq Options
  /\ \A o \in CommandLines : o.range.min <= o.range.max

-----------------------------------------------------------------------------
VARIABLES
  options,         \* m_args
  helper,          \* m_helper is not NULL
  installed,       \* the machine
  min, max,        \* m_ullMinimumVersion and m_ullMaximumVersion
  pc,              \* the control point
  pending,         \* the instances pEnum has not returned yet
  current,         \* the instance Next returned last
  package,         \* the next element of its packages
  unmet,           \* the copies of the requirements, less what was erased
  tried,           \* how many legacy versions were tried
  instances,       \* the vector
  mid, hole, val,  \* std::sort: the element inserted, the hole, its value
  matched,         \* history: the instances pushed so far
  answer           \* what Select returns

rigid  == <<options, helper, installed>>
range  == <<min, max>>
match  == <<current, package, unmet>>
sorter == <<mid, hole, val>>
vars   == <<rigid, range, pc, pending, match, tried, instances, sorter, matched, answer>>

S == INSTANCE Selection

Init ==
  /\ options \in CommandLines
  /\ helper \in BOOLEAN
  /\ installed \in MachineStates
  /\ min = 0 /\ max = 0
  /\ pc = "construct"
  /\ pending = Instances
  /\ current = None /\ package = 0 /\ unmet = {}
  /\ tried = 0
  /\ instances = <<>>
  /\ mid = 0 /\ hole = 0 /\ val = None
  /\ matched = {}
  /\ answer = S!Open

Throw ==
  /\ pc' = "thrown"
  /\ answer' = S!Failed
  /\ UNCHANGED <<rigid, range, pending, match, tried, instances, sorter, matched>>

Push(i) ==
  /\ instances' = Append(instances, i)
  /\ matched' = matched \cup {i}

\* InstanceSelector(args, provider, pHelper)
Construct ==
  /\ pc = "construct"
  /\ \/ /\ helper /\ options.range.given /\ ~options.range.valid
        /\ Throw
     \/ /\ ~(helper /\ options.range.given /\ ~options.range.valid)
        /\ IF helper /\ options.range.given
             THEN min' = options.range.min /\ max' = options.range.max
             ELSE UNCHANGED range
        /\ pc' = "enumerate"
        /\ UNCHANGED <<rigid, pending, match, tried, instances, sorter, matched, answer>>

-----------------------------------------------------------------------------
(* Enumerating and matching                                                 *)

\* pEnum->Next gives one instance, in whatever order the service has.
Fetch(i) ==
  /\ pc = "enumerate"
  /\ i \in pending
  /\ pending' = pending \ {i}
  /\ current' = i
  /\ pc' = "match"
  /\ UNCHANGED <<rigid, range, package, unmet, tried, instances, sorter, matched, answer>>

\* Faulty variant of EndEnumeration: the loop runs on while the call succeeds or
\* gives something, and a call that gives nothing succeeds.
EndEnumerationOr ==
  /\ pc = "enumerate"
  /\ pc' = IF pending = {} THEN "enumerate" ELSE "legacy"
  /\ UNCHANGED <<rigid, range, pending, match, tried, instances, sorter, matched, answer>>

\* Faulty variant of EndEnumeration: celtFetched is not reset, so a call that
\* gives nothing gives the instance of the call before.
EndEnumerationStale ==
  /\ pc = "enumerate"
  /\ pc' = IF current = None THEN "legacy" ELSE "match"
  /\ UNCHANGED <<rigid, range, pending, match, tried, instances, sorter, matched, answer>>

\* There is no enumerator, Next gives nothing, or Next fails: all three end the
\* loop alike, whatever is still pending.
EndEnumeration ==
  /\ pc = "enumerate"
  /\ pc' = "legacy"
  /\ UNCHANGED <<rigid, range, pending, match, tried, instances, sorter, matched, answer>>

HasVersionRange == min # 0 /\ max # 0

IsVersionMatch(i) ==
  HasVersionRange =>
    LET version == installed[i].version
    IN  /\ version # NoVersion
        /\ ParsedVersion[version] # -1
        /\ min <= ParsedVersion[version] /\ ParsedVersion[version] <= max

\* GetId is only called when products were named.
ProductThrows(i) == options.products # {} /\ installed[i].product = BadId
IsProductMatch(i) ==
  /\ installed[i].product # NoProduct
  /\ options.products = {} \/ installed[i].product \in options.products

IsHidden(i) == installed[i].prerelease /\ ~options.prerelease

Reject ==
  /\ pc' = "enumerate"
  /\ UNCHANGED <<rigid, range, pending, match, tried, instances, sorter, matched, answer>>

Accept ==
  /\ Push(current)
  /\ pc' = "enumerate"
  /\ UNCHANGED <<rigid, range, pending, match, tried, sorter, answer>>

\* IsMatch for an instance that has no ISetupInstance2.
MatchOld ==
  /\ pc = "match"
  /\ ~installed[current].isInstance2
  /\ IF options.requires = <<>> THEN Accept ELSE Reject

\* IsMatch up to IsWorkloadMatch: the catalog, the product, the version.
Match ==
  /\ pc = "match"
  /\ installed[current].isInstance2
  /\ \/ /\ IsHidden(current)
        /\ Reject
     \/ /\ ~IsHidden(current) /\ ProductThrows(current)
        /\ Throw
     \/ /\ ~IsHidden(current) /\ ~ProductThrows(current)
        /\ ~(IsProductMatch(current) /\ IsVersionMatch(current))
        /\ Reject
     \/ /\ ~IsHidden(current) /\ ~ProductThrows(current)
        /\ IsProductMatch(current) /\ IsVersionMatch(current)
        /\ pc' = "workload"
        /\ unmet' = S!Requirements
        /\ package' = 1
        /\ UNCHANGED <<rigid, range, pending, current, tried, instances, sorter, matched, answer>>

\* IsWorkloadMatch: without requirements every instance matches, and the packages
\* are not even read.
NoWorkload ==
  /\ pc = "workload" /\ package = 1
  /\ \/ S!Requirements = {} /\ Accept
     \/ S!Requirements # {} /\ ~installed[current].hasPackages /\ Reject

ReadsPackages == /\ pc = "workload"
                 /\ S!Requirements # {} /\ installed[current].hasPackages

\* The order in which the copies are searched: literals, then patterns.
Earlier(r, s) == \/ r[1] = "literal" /\ s[1] = "pattern"
                 \/ r[1] = s[1] /\ r[2] < s[2]

\* What a package with this id erases: the first requirement it meets.
Erased(id, r) ==
  /\ S!Meets(r, id)
  /\ \A s \in unmet : Earlier(s, r) => ~S!Meets(s, id)

\* One turn of the loop over the packages.
ExaminePackage ==
  /\ ReadsPackages
  /\ package <= Len(installed[current].packages)
  /\ LET id == installed[current].packages[package]
     IN  \/ id = BadId /\ Throw
         \/ /\ id # BadId
            /\ unmet' = {r \in unmet : ~Erased(id, r)}
            /\ package' = package + 1
            /\ UNCHANGED <<rigid, range, pc, pending, current, tried, instances, sorter, matched, answer>>

\* Faulty variant of IsWorkloadMatch: -requiresAny is ignored.
IsWorkloadMatchAll == unmet = {}

IsWorkloadMatch == IF options.requiresAny THEN unmet # S!Requirements ELSE unmet = {}

EndPackages ==
  /\ ReadsPackages
  /\ package > Len(installed[current].packages)
  /\ IF IsWorkloadMatch THEN Accept ELSE Reject

-----------------------------------------------------------------------------
(* Legacy instances                                                         *)

\* TryGetLegacyInstance reads the registry: the version may be there or not, and
\* the read may throw.  Only the version is matched.
TryLegacy ==
  /\ pc = "legacy"
  /\ options.legacy
  /\ tried < Len(LegacyVersions)
  /\ LET i == LegacyVersions[tried + 1]
     IN  \/ Throw
         \/ /\ tried' = tried + 1
            /\ \/ UNCHANGED <<instances, matched>>
               \/ IsVersionMatch(i) /\ Push(i)
            /\ UNCHANGED <<rigid, range, pc, pending, match, sorter, answer>>

\* All were tried, or -legacy is not given, or the provider has none.
EndLegacy ==
  /\ pc = "legacy"
  /\ ~options.legacy \/ tried \in {0, Len(LegacyVersions)}
  /\ pc' = "order"
  /\ UNCHANGED <<rigid, range, pending, match, tried, instances, sorter, matched, answer>>

-----------------------------------------------------------------------------
(* Ordering                                                                 *)

HasVersion(i) == installed[i].version # NoVersion
Version(i)    == ParsedVersion[installed[i].version]
HasDate(i)    == installed[i].date # -1

\* Faulty variant of LessThrows: two missing dates are equal dates.
LessThrowsUndated(a, b) ==
  /\ HasVersion(a) /\ HasVersion(b)
  /\ helper
  /\ Version(a) # -1 /\ Version(b) # -1
  /\ Version(a) = Version(b)
  /\ installed[a].date = installed[b].date

\* Less(a, b) throws E_UNEXPECTED.
LessThrows(a, b) ==
  /\ HasVersion(a) /\ HasVersion(b)
  /\ helper
  /\ Version(a) # -1 /\ Version(b) # -1
  /\ Version(a) = Version(b)
  /\ HasDate(a) /\ HasDate(b)
  /\ installed[a].date = installed[b].date

\* Faulty variant of Less: what is missing in b is not less than what a has.
LessMissing(a, b) ==
  IF ~(HasVersion(a) /\ HasVersion(b)) THEN ~HasVersion(b)
  ELSE IF ~helper THEN TextOrder[installed[a].version] < TextOrder[installed[b].version]
  ELSE IF Version(a) = -1 \/ Version(b) = -1 THEN Version(b) # -1
  ELSE IF Version(a) # Version(b) THEN Version(a) < Version(b)
  ELSE IF ~(HasDate(a) /\ HasDate(b)) THEN HasDate(b)
  ELSE installed[a].date < installed[b].date

\* What Less(a, b) returns when it does not throw.
Less(a, b) ==
  IF ~(HasVersion(a) /\ HasVersion(b)) THEN HasVersion(b)
  ELSE IF ~helper THEN TextOrder[installed[a].version] < TextOrder[installed[b].version]
  ELSE IF Version(a) = -1 \/ Version(b) = -1 THEN Version(b) # -1
  ELSE IF Version(a) # Version(b) THEN Version(a) < Version(b)
  ELSE IF ~(HasDate(a) /\ HasDate(b)) THEN HasDate(b)
  ELSE installed[a].date < installed[b].date

Return(list) ==
  /\ answer' = [outcome |-> "listed", list |-> list]
  /\ pc' = "returned"
  /\ UNCHANGED <<rigid, range, pending, match, tried, instances, sorter, matched>>

\* Only two instances or more are sorted, with -sort or -latest.
Order ==
  /\ pc = "order"
  /\ \/ /\ ~S!Sorted \/ Len(instances) <= 1
        /\ Return(instances)
     \/ /\ S!Sorted /\ Len(instances) > 1
        /\ mid' = 2
        /\ pc' = "insert"
        /\ UNCHANGED <<rigid, range, pending, match, tried, instances, hole, val, matched, answer>>

\* The comparator given to std::sort: it is true of two equal elements.
Before(a, b) == ~Less(a, b)

MoveToFront(s, n) == [k \in DOMAIN s |-> IF k = 1 THEN s[n] ELSE IF k <= n THEN s[k - 1] ELSE s[k]]

\* std::sort takes the next element: one that goes before the first is moved
\* there at once, so that the search for another's place needs no bound.
Insert ==
  /\ pc = "insert"
  /\ mid <= Len(instances)
  /\ LET new == instances[mid]
     IN  \/ LessThrows(new, instances[1]) /\ Throw
         \/ /\ ~LessThrows(new, instances[1]) /\ Before(new, instances[1])
            /\ instances' = MoveToFront(instances, mid)
            /\ mid' = mid + 1
            /\ UNCHANGED <<rigid, range, pc, pending, match, tried, hole, val, matched, answer>>
         \/ /\ ~LessThrows(new, instances[1]) /\ ~Before(new, instances[1])
            /\ val' = new
            /\ hole' = mid
            /\ pc' = "shift"
            /\ UNCHANGED <<rigid, range, pending, match, tried, instances, mid, matched, answer>>

\* Its place is searched from the right, moving what goes after it.
Shift ==
  /\ pc = "shift"
  /\ LET previous == instances[hole - 1]
     IN  \/ LessThrows(val, previous) /\ Throw
         \/ /\ ~LessThrows(val, previous) /\ Before(val, previous)
            /\ instances' = [instances EXCEPT ![hole] = previous]
            /\ hole' = hole - 1
            /\ UNCHANGED <<rigid, range, pc, pending, match, tried, mid, val, matched, answer>>
         \/ /\ ~LessThrows(val, previous) /\ ~Before(val, previous)
            /\ instances' = [instances EXCEPT ![hole] = val]
            /\ mid' = mid + 1
            /\ pc' = "insert"
            /\ UNCHANGED <<rigid, range, pending, match, tried, hole, val, matched, answer>>

\* Faulty variant of Front: the element inserted last.
FrontInserted(s) == <<val>>

\* -latest.
Front(s) == <<s[1]>>

EndSort ==
  /\ pc = "insert"
  /\ mid > Len(instances)
  /\ Return(IF options.latest THEN Front(instances) ELSE instances)

\* Select has returned or thrown.
Done == pc \in {"returned", "thrown"} /\ UNCHANGED vars

Step ==
  \/ Construct
  \/ \E i \in Instances : Fetch(i)
  \/ EndEnumeration
  \/ MatchOld
  \/ Match
  \/ NoWorkload
  \/ ExaminePackage
  \/ EndPackages
  \/ TryLegacy
  \/ EndLegacy
  \/ Order
  \/ Insert
  \/ Shift
  \/ EndSort

Next == Step \/ Done

\* Select is one thread that runs on.
Spec == Init /\ [][Next]_vars /\ WF_vars(Step)

-----------------------------------------------------------------------------
(* Properties                                                               *)

ControlPoints == {"construct", "enumerate", "match", "workload", "legacy", "order",
                  "insert", "shift", "returned", "thrown"}

\* Types, and that the indices of the loops stay where the code may use them.
TypeOK ==
  /\ options \in CommandLines /\ helper \in BOOLEAN /\ installed \in MachineStates
  /\ min \in Nat /\ max \in Nat
  /\ pc \in ControlPoints
  /\ pending \subseteq Instances
  /\ current \in Instances \cup {None}
  /\ package \in Nat
  /\ unmet \subseteq S!Requirements
  /\ tried \in 0..Len(LegacyVersions)
  /\ instances \in Seq(Candidates)
  /\ mid \in Nat /\ hole \in Nat /\ val \in Candidates \cup {None}
  /\ matched \subseteq Candidates
  /\ answer \in [outcome : {"open", "listed", "failed"}, list : Seq(Candidates)]

\* The vector, with the value being inserted back in the hole.
Filled == IF pc = "shift" THEN [instances EXCEPT ![hole] = val] ELSE instances

\* No instance is lost, none is listed twice: at every step of the enumeration
\* and of the sort the vector, its hole filled, holds exactly those matched.  (An
\* exception in the sort leaves the hole, in a vector nobody reads again.)
NoInstanceLost == pc # "thrown" => S!IsListOf(Filled, matched)

\* The unguarded search of std::sort never runs off the front of the vector,
\* although the comparator !Less is true of equal elements.
SortStaysInside == pc = "shift" => hole \in 2..mid /\ mid <= Len(instances)

\* Sorting fails, for two installs of one version at one time, only when two of
\* the instances to sort are such.
FailsOnlyOnConflict == pc = "thrown" /\ mid > 0 => ~S!Consistent(matched)

\* Requirements that do not compete for a package: each package meets one at most.
NoCompetition(i) ==
  \A p \in DOMAIN installed[i].packages, r, s \in S!Requirements :
    /\ S!Meets(r, installed[i].packages[p])
    /\ S!Meets(s, installed[i].packages[p])
    => r = s

\* The instances IsMatch has decided on.
Decided == Instances \ (pending \cup IF pc \in {"match", "workload", "thrown"} THEN {current} ELSE {})

\* An instance IsMatch has no reason to reject: it satisfies the command line, its
\* getters work, and either any requirement will do or none competes with another.
Acceptable(i) ==
  /\ S!Satisfies(i)
  /\ installed[i].isInstance2 => installed[i].product # NoProduct
  /\ S!Requirements # {} => installed[i].hasPackages
  /\ options.requiresAny \/ NoCompetition(i)

\* IsMatch rejects no such instance.
NothingLostInMatching == \A i \in Decided : Acceptable(i) => i \in matched

\* The usage text: "-version arg  A version range for instances to find".  So
\* every instance found has a version in the range that was given.
RangeIsHonoured ==
  helper /\ options.range.given /\ options.range.valid =>
    \A i \in matched : installed[i].isInstance2 =>
      /\ installed[i].version # NoVersion
      /\ ParsedVersion[installed[i].version] \in options.range.min..options.range.max

\* The usage text of -requires: "All specified IDs must be installed".  So an
\* instance is found that has a package of its own for every requirement.
EveryRequirementInstalledMatches ==
  \A i \in Decided :
    /\ installed[i].isInstance2 /\ installed[i].hasPackages
    /\ ~options.range.given /\ installed[i].product # NoProduct
    /\ S!Satisfies(i)
    => i \in matched

\* Select implements the abstract specification: what it lists satisfies the
\* command line, sorted lists are newest first, and a conflict of dates is never
\* listed in some order but fails.
Implements == S!Spec

\* Select returns or throws: every loop ends.
Terminates == <>(pc \in {"returned", "thrown"})
=============================================================================
