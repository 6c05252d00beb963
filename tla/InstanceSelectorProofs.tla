----------------------- MODULE InstanceSelectorProofs -----------------------
(***************************************************************************)
(* Proofs about InstanceSelector, for every machine, every command line    *)
(* and vectors of any length.                                              *)
(***************************************************************************)
EXTENDS InstanceSelector, TLAPS

Lemmas == INSTANCE SequenceLemmas

-----------------------------------------------------------------------------
(* The inductive invariant                                                  *)

\* The bounds are those of the range given, unless the constructor threw.
RangeKept ==
  /\ pc = "construct" => min = 0 /\ max = 0
  /\ pc \notin {"construct", "thrown"} =>
       IF helper /\ options.range.given
         THEN min = options.range.min /\ max = options.range.max
         ELSE min = 0 /\ max = 0

\* Every candidate is looked at once: what is matched is no longer pending, and
\* the legacy versions come in their order.
LookedAtOnce ==
  /\ matched \cap pending = {}
  /\ pc \in {"match", "workload"} => current \in Instances \ (pending \cup matched)
  /\ pc \in {"construct", "enumerate", "match", "workload"} => tried = 0
  /\ \A k \in DOMAIN LegacyVersions : LegacyVersions[k] \in matched => k <= tried

\* What was established of the instance whose packages are examined.
PassedSoFar(i) ==
  /\ ~installed[i].legacy /\ installed[i].isInstance2
  /\ installed[i].prerelease => options.prerelease
  /\ options.products = {} \/ installed[i].product \in options.products
  /\ S!InRange(i)

\* Every requirement erased was met by a package of its own among those examined.
ErasedWereMet(i) ==
  \E by \in [S!Requirements \ unmet -> 1..(package - 1)] :
    /\ \A r \in S!Requirements \ unmet : S!Meets(r, installed[i].packages[by[r]])
    /\ \A r, s \in S!Requirements \ unmet : by[r] = by[s] => r = s

Examining ==
  pc = "workload" =>
    /\ PassedSoFar(current)
    /\ package \in 1..(Len(installed[current].packages) + 1)
    /\ ErasedWereMet(current)

AllSatisfy == \A i \in matched : S!Satisfies(i)

\* The elements placed so far, without the hole.
Placed == CASE pc = "insert" -> 1..(mid - 1)
            [] pc = "shift"  -> (1..mid) \ {hole}
            [] OTHER -> {}

Sorting ==
  /\ pc \in {"insert", "shift"} =>
       /\ S!Sorted
       /\ mid \in 2..(Len(instances) + 1)
       /\ \A j, k \in Placed : j < k =>
            /\ ~S!Newer(instances[k], instances[j])
            /\ ~S!SameInstall(instances[j], instances[k])
  /\ pc = "shift" =>
       /\ mid <= Len(instances)
       /\ hole \in 2..mid
       /\ val \in Candidates
       /\ S!Newer(instances[1], val)
       /\ \A k \in (hole + 1)..mid :
            /\ ~S!Newer(instances[k], val)
            /\ ~S!SameInstall(val, instances[k])

\* What was returned is a list Select may return.
Answered ==
  /\ pc \notin {"returned", "thrown"} => answer = S!Open
  /\ pc = "thrown" => answer = S!Failed

IInv == /\ TypeOK
        /\ RangeKept
        /\ LookedAtOnce
        /\ Examining
        /\ AllSatisfy
        /\ NoInstanceLost
        /\ Sorting
        /\ Answered

-----------------------------------------------------------------------------
(* The order of instances                                                   *)

\* What a candidate answers.
LEMMA Answers ==
  ASSUME TypeOK, NEW i \in Candidates
  PROVE  /\ installed[i] \in Attributes
         /\ installed[i].version \in VersionTexts \cup {NoVersion}
         /\ installed[i].date \in Nat \cup {-1}
         /\ installed[i].legacy <=> i \in Legacy
<1>1. installed[i] \in Attributes /\ (installed[i].legacy <=> i \in Legacy)
  BY MachineStatesAssumption DEF TypeOK
<1> QED
  BY <1>1 DEF Attributes

\* The keys instances are ordered by are integers.
LEMMA KeyTypes ==
  ASSUME TypeOK, NEW i \in Candidates
  PROVE  S!Grade(i) \in Int /\ S!VersionKey(i) \in Int /\ S!DateKey(i) \in Int
<1>1. installed[i].version \in VersionTexts \cup {NoVersion} /\ installed[i].date \in Nat \cup {-1}
  BY Answers
<1>2. S!Grade(i) \in {0, 1, 2}
  BY DEF S!Grade
<1>3. S!Grade(i) = 2 => installed[i].version \in VersionTexts
  BY <1>1 DEF S!Grade
<1>4. S!VersionKey(i) \in Int
  BY <1>2, <1>3, VersionsAssumption DEF S!VersionKey
<1>5. S!DateKey(i) \in Int
  BY <1>1 DEF S!DateKey
<1> QED
  BY <1>2, <1>4, <1>5

\* Newer is a strict weak order of the candidates.
LEMMA NewerIsOrder ==
  ASSUME TypeOK, NEW a \in Candidates, NEW b \in Candidates, NEW c \in Candidates
  PROVE  /\ ~S!Newer(a, a)
         /\ S!Newer(a, b) => ~S!Newer(b, a)
         /\ S!Newer(a, c) => S!Newer(a, b) \/ S!Newer(b, c)
         /\ S!Newer(a, b) /\ S!Newer(b, c) => S!Newer(a, c)
<1>1. /\ S!Grade(a) \in Int /\ S!VersionKey(a) \in Int /\ S!DateKey(a) \in Int
      /\ S!Grade(b) \in Int /\ S!VersionKey(b) \in Int /\ S!DateKey(b) \in Int
      /\ S!Grade(c) \in Int /\ S!VersionKey(c) \in Int /\ S!DateKey(c) \in Int
  BY KeyTypes
<1> QED
  BY <1>1 DEF S!Newer

\* Of two installs of one version at one time neither is newer, and whatever is
\* neither older nor newer than one of them is the same install as both.
LEMMA SameInstallIsEqual ==
  ASSUME TypeOK, NEW a \in Candidates, NEW b \in Candidates, NEW c \in Candidates
  PROVE  /\ S!SameInstall(a, b) => S!SameInstall(b, a)
         /\ S!SameInstall(a, b) => ~S!Newer(a, b) /\ ~S!Newer(b, a)
         /\ S!SameInstall(a, b) /\ ~S!Newer(a, c) /\ ~S!Newer(c, a) => S!SameInstall(b, c)
<1>1. /\ S!Grade(a) \in Int /\ S!VersionKey(a) \in Int /\ S!DateKey(a) \in Int
      /\ S!Grade(b) \in Int /\ S!VersionKey(b) \in Int /\ S!DateKey(b) \in Int
      /\ S!Grade(c) \in Int /\ S!VersionKey(c) \in Int /\ S!DateKey(c) \in Int
  BY KeyTypes
<1> QED
  BY <1>1 DEF S!Newer, S!SameInstall

\* InstanceSelector::Less throws exactly on two installs of one version at one
\* time.
LEMMA LessThrowsOnSameInstall ==
  ASSUME TypeOK, NEW a \in Candidates, NEW b \in Candidates
  PROVE  LessThrows(a, b) <=> S!SameInstall(a, b)
<1>1. /\ installed[a].version \in VersionTexts \cup {NoVersion} /\ installed[a].date \in Nat \cup {-1}
      /\ installed[b].version \in VersionTexts \cup {NoVersion} /\ installed[b].date \in Nat \cup {-1}
  BY Answers
<1>2. helper \in BOOLEAN
  BY DEF TypeOK
<1> QED
  BY <1>1, <1>2 DEF LessThrows, HasVersion, HasDate, Version, S!SameInstall, S!Grade,
                    S!VersionKey, S!DateKey

\* Elsewhere InstanceSelector::Less is the strict weak order "older", although it
\* compares missing versions, texts and dates by different rules.
LEMMA LessIsOlder ==
  ASSUME TypeOK, NEW a \in Candidates, NEW b \in Candidates, ~LessThrows(a, b)
  PROVE  Less(a, b) <=> S!Newer(b, a)
<1>1. /\ installed[a].version \in VersionTexts \cup {NoVersion} /\ installed[a].date \in Nat \cup {-1}
      /\ installed[b].version \in VersionTexts \cup {NoVersion} /\ installed[b].date \in Nat \cup {-1}
  BY Answers
<1>2. helper \in BOOLEAN
  BY DEF TypeOK
<1>3. CASE ~(HasVersion(a) /\ HasVersion(b))
  BY <1>1, <1>3 DEF Less, HasVersion, S!Newer, S!Grade, S!VersionKey, S!DateKey
<1>4. CASE HasVersion(a) /\ HasVersion(b) /\ ~helper
  <2>1. TextOrder[installed[a].version] \in Int /\ TextOrder[installed[b].version] \in Int
    BY <1>1, <1>4, VersionsAssumption DEF HasVersion
  <2> QED
    BY <1>4, <2>1 DEF Less, HasVersion, S!Newer, S!Grade, S!VersionKey, S!DateKey
<1>5. CASE HasVersion(a) /\ HasVersion(b) /\ helper
  <2>1. Version(a) \in Nat \cup {-1} /\ Version(b) \in Nat \cup {-1}
    BY <1>1, <1>5, VersionsAssumption DEF HasVersion, Version
  <2>2. CASE Version(a) = -1 \/ Version(b) = -1
    BY <1>5, <2>1, <2>2 DEF Less, HasVersion, Version, S!Newer, S!Grade, S!VersionKey, S!DateKey
  <2>3. CASE Version(a) # -1 /\ Version(b) # -1
    BY <1>1, <1>5, <2>1, <2>3 DEF Less, LessThrows, HasVersion, HasDate, Version,
                                  S!Newer, S!Grade, S!VersionKey, S!DateKey
  <2> QED
    BY <2>2, <2>3
<1> QED
  BY <1>2, <1>3, <1>4, <1>5

-----------------------------------------------------------------------------
(* Vectors that list a set                                                  *)

\* push_back of an element the vector does not have.
LEMMA AppendLists ==
  ASSUME NEW C, NEW v \in Seq(C), NEW M, S!IsListOf(v, M), NEW i \in C, i \notin M
  PROVE  S!IsListOf(Append(v, i), M \cup {i})
<1> DEFINE w == Append(v, i)
<1>1. /\ Len(v) \in Nat /\ DOMAIN v = 1..Len(v) /\ DOMAIN w = 1..(Len(v) + 1)
      /\ w[Len(v) + 1] = i /\ \A k \in 1..Len(v) : w[k] = v[k]
  OBVIOUS
<1> HIDE DEF w
<1>2. \A k \in DOMAIN v : v[k] \in M /\ v[k] # i
  BY DEF S!IsListOf
<1>3. \A j \in M \cup {i} : \E k \in DOMAIN w : w[k] = j
  BY <1>1 DEF S!IsListOf
<1>4. \A k \in DOMAIN w : w[k] \in M \cup {i}
  <2> TAKE k \in DOMAIN w
  <2>1. k = Len(v) + 1 \/ k \in 1..Len(v)
    BY <1>1
  <2> QED
    BY <1>1, <1>2, <2>1
<1>5. \A j, k \in DOMAIN w : w[j] = w[k] => j = k
  <2> TAKE j, k \in DOMAIN w
  <2>1. /\ j = Len(v) + 1 \/ j \in 1..Len(v)
        /\ k = Len(v) + 1 \/ k \in 1..Len(v)
    BY <1>1
  <2> QED
    BY <1>1, <1>2, <2>1 DEF S!IsListOf
<1> QED
  BY <1>3, <1>4, <1>5 DEF S!IsListOf, w

\* A move of std::sort: the hole and its left neighbour change places.
LEMMA ShiftLists ==
  ASSUME NEW C, NEW v \in Seq(C), NEW M, NEW x \in C, NEW h \in 2..Len(v),
         S!IsListOf([v EXCEPT ![h] = x], M)
  PROVE  S!IsListOf([[v EXCEPT ![h] = v[h - 1]] EXCEPT ![h - 1] = x], M)
<1> DEFINE u == [v EXCEPT ![h] = x]
           w == [[v EXCEPT ![h] = v[h - 1]] EXCEPT ![h - 1] = x]
           other(k) == IF k = h THEN h - 1 ELSE IF k = h - 1 THEN h ELSE k
<1>1. /\ Len(v) \in Nat /\ DOMAIN u = 1..Len(v) /\ DOMAIN w = 1..Len(v)
      /\ \A k \in 1..Len(v) : w[k] = u[other(k)]
      /\ \A k \in 1..Len(v) : u[k] = w[other(k)]
      /\ \A k \in 1..Len(v) : other(k) \in 1..Len(v)
      /\ \A j, k \in 1..Len(v) : other(j) = other(k) => j = k
  OBVIOUS
<1> HIDE DEF u, w, other
<1>2. S!IsListOf(u, M)
  BY DEF u
<1>3. S!IsListOf(w, M)
  BY <1>1, <1>2 DEF S!IsListOf
<1> QED
  BY <1>3 DEF w

\* A rotation of std::sort: the first n elements, the last of them in front.
LEMMA MoveLists ==
  ASSUME NEW C, NEW v \in Seq(C), NEW M, NEW n \in 1..Len(v), S!IsListOf(v, M)
  PROVE  S!IsListOf(MoveToFront(v, n), M) /\ MoveToFront(v, n) \in Seq(C)
         /\ Len(MoveToFront(v, n)) = Len(v)
<1> DEFINE w == MoveToFront(v, n)
           to(k)  == IF k = n THEN 1 ELSE IF k < n THEN k + 1 ELSE k
           of(k)  == IF k = 1 THEN n ELSE IF k <= n THEN k - 1 ELSE k
<1>1. Len(v) \in Nat /\ DOMAIN v = 1..Len(v) /\ DOMAIN w = 1..Len(v)
  BY DEF MoveToFront
<1>2. w = [k \in 1..Len(v) |-> v[of(k)]]
  BY <1>1 DEF MoveToFront
<1>3. \A k \in 1..Len(v) : to(k) \in 1..Len(v) /\ of(k) \in 1..Len(v) /\ of(to(k)) = k
  BY <1>1
<1>4. \A j, k \in 1..Len(v) : of(j) = of(k) => j = k
  BY <1>1
<1> HIDE DEF w, to, of
<1>5. \A k \in 1..Len(v) : v[k] = w[to(k)]
  BY <1>2, <1>3
<1>6. S!IsListOf(w, M)
  <2>1. \A k \in 1..Len(v) : w[k] = v[of(k)]
    BY <1>2
  <2>2. \A i \in M : \E k \in 1..Len(v) : w[k] = i
    BY <1>1, <1>3, <1>5 DEF S!IsListOf
  <2>3. \A k \in 1..Len(v) : w[k] \in M
    BY <1>1, <1>3, <2>1 DEF S!IsListOf
  <2>4. \A j, k \in 1..Len(v) : w[j] = w[k] => j = k
    BY <1>1, <1>3, <1>4, <2>1 DEF S!IsListOf
  <2> QED
    BY <1>1, <2>2, <2>3, <2>4 DEF S!IsListOf
<1>7. w \in [1..Len(v) -> C]
  <2>1. \A k \in 1..Len(v) : v[k] \in C
    OBVIOUS
  <2> QED
    BY <1>2, <1>3, <2>1
<1>8. w \in Seq(C) /\ Len(w) = Len(v)
  BY <1>1, <1>7
<1> QED
  BY <1>6, <1>8 DEF w

-----------------------------------------------------------------------------
(* Steps                                                                    *)

\* The order and the requirements depend on the command line and the machine only.
LEMMA RigidFrame ==
  ASSUME UNCHANGED rigid
  PROVE  /\ S!Requirements' = S!Requirements
         /\ S!Sorted' = S!Sorted
         /\ \A i, j : S!Newer(i, j)' <=> S!Newer(i, j)
         /\ \A i, j : S!SameInstall(i, j)' <=> S!SameInstall(i, j)
         /\ \A i : S!InRange(i)' <=> S!InRange(i)
         /\ \A r, id : S!Meets(r, id)' <=> S!Meets(r, id)
         /\ \A i : S!RequirementsMet(i)' <=> S!RequirementsMet(i)
         /\ \A i : S!Satisfies(i)' <=> S!Satisfies(i)
<1>1. options' = options /\ helper' = helper /\ installed' = installed
  BY DEF rigid
<1>2. S!Requirements' = S!Requirements /\ S!Sorted' = S!Sorted
  BY <1>1 DEF S!Requirements, S!Sorted
<1>3. /\ \A i : S!Grade(i)' = S!Grade(i)
      /\ \A i : S!VersionKey(i)' = S!VersionKey(i)
      /\ \A i : S!DateKey(i)' = S!DateKey(i)
  BY <1>1 DEF S!Grade, S!VersionKey, S!DateKey
<1>4. \A i, j : S!Newer(i, j)' <=> S!Newer(i, j)
  BY <1>3 DEF S!Newer
<1>5. \A i, j : S!SameInstall(i, j)' <=> S!SameInstall(i, j)
  BY <1>3 DEF S!SameInstall
<1>6. \A i : S!InRange(i)' <=> S!InRange(i)
  BY <1>1 DEF S!InRange
<1>7. \A r, id : S!Meets(r, id)' <=> S!Meets(r, id)
  BY <1>1 DEF S!Meets
<1>8. \A i : S!RequirementsMet(i)' <=> S!RequirementsMet(i)
  BY <1>1, <1>2, <1>7 DEF S!RequirementsMet
<1>9. \A i : S!Satisfies(i)' <=> S!Satisfies(i)
  BY <1>1, <1>6, <1>8 DEF S!Satisfies
<1> QED
  BY <1>2, <1>4, <1>5, <1>6, <1>7, <1>8, <1>9

\* A selector that was made, of whatever instances the enumerator may give.
Begins ==
  /\ options \in CommandLines /\ helper \in BOOLEAN /\ installed \in MachineStates
  /\ min = 0 /\ max = 0
  /\ pc = "construct"
  /\ pending \subseteq Instances
  /\ current = None /\ package = 0 /\ unmet = {}
  /\ tried = 0
  /\ instances = <<>>
  /\ mid = 0 /\ hole = 0 /\ val = None
  /\ matched = {}
  /\ answer = S!Open

\* There the invariant holds.
LEMMA BeginsIInv == Begins => IInv
<1> SUFFICES ASSUME Begins PROVE IInv
  OBVIOUS
<1> USE DEF Begins
<1>1. TypeOK
  <2>1. answer \in [outcome : {"open", "listed", "failed"}, list : Seq(Candidates)]
    BY DEF S!Open
  <2>2. instances \in Seq(Candidates) /\ Len(LegacyVersions) \in Nat
    BY LegacyAssumption
  <2> QED
    BY <2>1, <2>2 DEF TypeOK, ControlPoints
<1>2. RangeKept /\ Examining /\ Answered /\ Sorting
  BY DEF RangeKept, Examining, Answered, Sorting
<1>3. LookedAtOnce /\ AllSatisfy
  BY DEF LookedAtOnce, AllSatisfy
<1>4. NoInstanceLost
  BY DEF NoInstanceLost, Filled, S!IsListOf
<1> QED
  BY <1>1, <1>2, <1>3, <1>4 DEF IInv

\* So it is when the selector is made by a step of the program.
LEMMA BeginsIInvNext == Begins' => IInv'
  BY BeginsIInv, PTL

\* Initially it is made.
LEMMA InitIInv == Init => IInv
  BY BeginsIInv DEF Init, Begins

\* An exception leaves everything but the answer as it is.
LEMMA ThrowIInv == IInv /\ Throw => IInv'
<1> SUFFICES ASSUME IInv, Throw PROVE IInv'
  OBVIOUS
<1> USE DEF IInv, Throw
<1>1. TypeOK'
  <2>1. answer' \in [outcome : {"open", "listed", "failed"}, list : Seq(Candidates)]
    BY DEF S!Failed
  <2> QED
    BY <2>1, RigidFrame DEF TypeOK, ControlPoints, rigid, range, match, sorter
<1>2. RangeKept' /\ LookedAtOnce' /\ Examining'
  BY DEF range, RangeKept, LookedAtOnce, Examining
<1>3. AllSatisfy'
  BY RigidFrame DEF AllSatisfy
<1>4. NoInstanceLost' /\ Sorting' /\ Answered'
  BY DEF NoInstanceLost, Sorting, Answered, S!Failed
<1> QED
  BY <1>1, <1>2, <1>3, <1>4

\* The steps before the sort that push nothing and examine no package.
LEMMA IdleIInv ==
  ASSUME IInv, UNCHANGED <<rigid, instances, matched, answer>>, TypeOK', RangeKept', LookedAtOnce',
         pc' \notin {"workload", "insert", "shift", "returned", "thrown"},
         pc \notin {"shift", "returned", "thrown"}
  PROVE  IInv'
<1>1. Examining' /\ Sorting'
  BY DEF Examining, Sorting
<1>2. AllSatisfy'
  BY RigidFrame DEF AllSatisfy, IInv
<1>3. NoInstanceLost'
  BY DEF NoInstanceLost, Filled, S!IsListOf, IInv
<1>4. Answered'
  BY DEF Answered, IInv, S!Open
<1> QED
  BY <1>1, <1>2, <1>3, <1>4 DEF IInv

LEMMA ConstructIInv == IInv /\ Construct => IInv'
<1> SUFFICES ASSUME IInv, Construct, ~Throw PROVE IInv'
  BY ThrowIInv
<1> USE DEF IInv
<1>1. options.range \in [given : BOOLEAN, valid : BOOLEAN, min : Nat, max : Nat]
  BY CommandLinesAssumption DEF TypeOK, Options
<1>2. /\ pc = "construct" /\ pc' = "enumerate"
      /\ UNCHANGED <<rigid, pending, match, tried, instances, sorter, matched, answer>>
      /\ IF helper /\ options.range.given
           THEN min' = options.range.min /\ max' = options.range.max
           ELSE UNCHANGED range
  BY DEF Construct
<1>3. min' \in Nat /\ max' \in Nat
  BY <1>1, <1>2 DEF TypeOK, range
<1>4. TypeOK'
  BY <1>2, <1>3, RigidFrame DEF TypeOK, ControlPoints, rigid, match, sorter
<1>5. RangeKept'
  BY <1>2, TypeOK DEF RangeKept, rigid, range
<1>6. LookedAtOnce'
  BY <1>2 DEF LookedAtOnce
<1> QED
  BY <1>2, <1>4, <1>5, <1>6, IdleIInv

\* IsVersionMatch holds an instance to the range, once the constructor stored it.
LEMMA VersionMatchIsInRange ==
  ASSUME IInv, pc \notin {"construct", "thrown"}, NEW i \in Candidates, IsVersionMatch(i)
  PROVE  S!InRange(i)
<1>1. /\ options.range.min \in Nat /\ options.range.max \in Nat
      /\ options.range.min <= options.range.max
  <2>1. options \in Options /\ options.range.min <= options.range.max
    BY CommandLinesAssumption DEF IInv, TypeOK
  <2> QED
    BY <2>1 DEF Options
<1>2. ASSUME helper /\ options.range.given /\ options.range.min > 0
      PROVE  HasVersionRange /\ min = options.range.min /\ max = options.range.max
  BY <1>1, <1>2 DEF IInv, RangeKept, HasVersionRange
<1> QED
  BY <1>1, <1>2 DEF IsVersionMatch, S!InRange

LEMMA FetchIInv == ASSUME IInv, NEW i \in Instances, Fetch(i) PROVE IInv'
<1>1. /\ pc = "enumerate" /\ pc' = "match" /\ i \in pending
      /\ pending' = pending \ {i} /\ current' = i
      /\ UNCHANGED <<rigid, range, package, unmet, tried, instances, sorter, matched, answer>>
  BY DEF Fetch
<1>2. TypeOK'
  BY <1>1, RigidFrame DEF IInv, TypeOK, ControlPoints, rigid, range, sorter
<1>3. RangeKept'
  BY <1>1 DEF IInv, RangeKept, rigid, range
<1>4. LookedAtOnce'
  BY <1>1 DEF IInv, TypeOK, LookedAtOnce
<1> QED
  BY <1>1, <1>2, <1>3, <1>4, IdleIInv

LEMMA EndEnumerationIInv == ASSUME IInv, EndEnumeration PROVE IInv'
<1>1. /\ pc = "enumerate" /\ pc' = "legacy"
      /\ UNCHANGED <<rigid, range, pending, match, tried, instances, sorter, matched, answer>>
  BY DEF EndEnumeration
<1>2. TypeOK'
  BY <1>1, RigidFrame DEF IInv, TypeOK, ControlPoints, rigid, range, match, sorter
<1>3. RangeKept' /\ LookedAtOnce'
  BY <1>1 DEF IInv, RangeKept, LookedAtOnce, rigid, range
<1> QED
  BY <1>1, <1>2, <1>3, IdleIInv

LEMMA RejectIInv == ASSUME IInv, Reject, pc \in {"match", "workload"} PROVE IInv'
<1>1. /\ pc' = "enumerate"
      /\ UNCHANGED <<rigid, range, pending, match, tried, instances, sorter, matched, answer>>
  BY DEF Reject
<1>2. TypeOK'
  BY <1>1, RigidFrame DEF IInv, TypeOK, ControlPoints, rigid, range, match, sorter
<1>3. RangeKept' /\ LookedAtOnce'
  BY <1>1 DEF IInv, RangeKept, LookedAtOnce, rigid, range
<1> QED
  BY <1>1, <1>2, <1>3, IdleIInv

\* Pushing an instance that satisfies the command line and was not pushed before.
LEMMA PushIInv ==
  ASSUME IInv, NEW i \in Candidates, Push(i), i \notin matched, S!Satisfies(i),
         UNCHANGED <<rigid, answer>>, TypeOK', RangeKept', LookedAtOnce',
         pc' \notin {"workload", "insert", "shift", "returned", "thrown"},
         pc \notin {"shift", "returned", "thrown"}
  PROVE  IInv'
<1>1. Examining' /\ Sorting'
  BY DEF Examining, Sorting
<1>2. AllSatisfy'
  BY RigidFrame DEF AllSatisfy, IInv, Push
<1>3. NoInstanceLost'
  <2>1. S!IsListOf(instances, matched) /\ instances \in Seq(Candidates)
    BY DEF IInv, NoInstanceLost, Filled, TypeOK
  <2>2. S!IsListOf(Append(instances, i), matched \cup {i})
    BY <2>1, AppendLists
  <2>3. S!IsListOf(instances', matched')
    BY <2>2 DEF Push
  <2> QED
    BY <2>3 DEF NoInstanceLost, Filled, S!IsListOf
<1>4. Answered'
  BY DEF Answered, IInv, S!Open
<1> QED
  BY <1>1, <1>2, <1>3, <1>4 DEF IInv

LEMMA AcceptIInv ==
  ASSUME IInv, Accept, pc \in {"match", "workload"}, S!Satisfies(current)
  PROVE  IInv'
<1>1. /\ pc' = "enumerate" /\ Push(current)
      /\ UNCHANGED <<rigid, range, pending, match, tried, sorter, answer>>
  BY DEF Accept
<1>2. current \in Instances /\ current \notin pending /\ current \notin matched /\ tried = 0
  BY DEF IInv, LookedAtOnce
<1>3. current \in Candidates /\ current \notin Legacy
  BY <1>2, LegacyAssumption DEF Candidates
<1>4. instances' \in Seq(Candidates) /\ matched' \subseteq Candidates
  BY <1>1, <1>3 DEF IInv, TypeOK, Push
<1>5. TypeOK'
  BY <1>1, <1>4, RigidFrame DEF IInv, TypeOK, ControlPoints, rigid, range, match, sorter
<1>6. RangeKept'
  BY <1>1 DEF IInv, RangeKept, rigid, range
<1>7. LookedAtOnce'
  <2>1. matched' \cap pending' = {}
    BY <1>1, <1>2 DEF IInv, LookedAtOnce, Push
  <2>2. \A k \in DOMAIN LegacyVersions : LegacyVersions[k] \in matched' => k <= tried'
    BY <1>1, <1>3 DEF IInv, LookedAtOnce, Push, Legacy
  <2> QED
    BY <1>1, <1>2, <2>1, <2>2 DEF LookedAtOnce
<1> QED
  BY <1>1, <1>2, <1>3, <1>5, <1>6, <1>7, PushIInv

LEMMA MatchOldIInv == ASSUME IInv, MatchOld PROVE IInv'
<1>1. pc = "match" /\ ~installed[current].isInstance2
  BY DEF MatchOld
<1>2. CASE options.requires = <<>>
  <2>1. current \in Candidates /\ current \notin Legacy
    BY <1>1, LegacyAssumption DEF IInv, LookedAtOnce, Candidates
  <2>2. S!Satisfies(current)
    BY <1>1, <1>2, <2>1, Answers DEF IInv, S!Satisfies
  <2>3. Accept
    BY <1>2 DEF MatchOld
  <2> QED
    BY <1>1, <2>2, <2>3, AcceptIInv
<1>3. CASE options.requires # <<>>
  BY <1>1, <1>3, RejectIInv DEF MatchOld
<1> QED
  BY <1>2, <1>3

LEMMA MatchIInv == ASSUME IInv, Match PROVE IInv'
<1>1. pc = "match" /\ installed[current].isInstance2
  BY DEF Match
<1>2. CASE Reject
  BY <1>1, <1>2, RejectIInv
<1>3. CASE Throw
  BY <1>3, ThrowIInv
<1>4. CASE ~Reject /\ ~Throw
  <2>1. /\ ~IsHidden(current) /\ IsProductMatch(current) /\ IsVersionMatch(current)
        /\ pc' = "workload" /\ unmet' = S!Requirements /\ package' = 1
        /\ UNCHANGED <<rigid, range, pending, current, tried, instances, sorter, matched, answer>>
    BY <1>4 DEF Match
  <2>2. current \in Candidates /\ current \notin Legacy
    BY <1>1, LegacyAssumption DEF IInv, LookedAtOnce, Candidates
  <2>3. TypeOK'
    BY <2>1, RigidFrame DEF IInv, TypeOK, ControlPoints, rigid, range, sorter
  <2>4. RangeKept' /\ LookedAtOnce'
    BY <1>1, <2>1 DEF IInv, RangeKept, LookedAtOnce, rigid, range
  <2>5. Examining'
    <3>1. PassedSoFar(current)
      BY <1>1, <2>1, <2>2, Answers, VersionMatchIsInRange
      DEF IInv, PassedSoFar, IsHidden, IsProductMatch
    <3>2. PassedSoFar(current)'
      BY <2>1, <3>1, RigidFrame DEF PassedSoFar, rigid
    <3>3. Len(installed[current].packages) \in Nat
      BY <2>2, Answers DEF IInv, Attributes
    <3>4. ErasedWereMet(current)'
      <4>1. S!Requirements' \ unmet' = {}
        BY <2>1, RigidFrame
      <4> DEFINE none == [r \in {} |-> 1]
      <4>2. none \in [S!Requirements' \ unmet' -> 1..(package' - 1)]
        BY <4>1
      <4> QED
        BY <4>1, <4>2 DEF ErasedWereMet
    <3> QED
      BY <2>1, <3>2, <3>3, <3>4 DEF Examining, rigid
  <2>6. AllSatisfy'
    BY <2>1, RigidFrame DEF AllSatisfy, IInv
  <2>7. NoInstanceLost'
    BY <1>1, <2>1 DEF NoInstanceLost, Filled, S!IsListOf, IInv
  <2>8. Sorting' /\ Answered'
    BY <1>1, <2>1 DEF Sorting, Answered, IInv, S!Open
  <2> QED
    BY <2>3, <2>4, <2>5, <2>6, <2>7, <2>8 DEF IInv
<1> QED
  BY <1>2, <1>3, <1>4

LEMMA NoWorkloadIInv == ASSUME IInv, NoWorkload PROVE IInv'
<1>1. pc = "workload"
  BY DEF NoWorkload
<1>2. CASE S!Requirements = {} /\ Accept
  <2>1. S!RequirementsMet(current)
    BY <1>2 DEF S!RequirementsMet
  <2>2. S!Satisfies(current)
    BY <1>1, <2>1 DEF IInv, Examining, PassedSoFar, S!Satisfies
  <2> QED
    BY <1>1, <1>2, <2>2, AcceptIInv
<1>3. CASE Reject
  BY <1>1, <1>3, RejectIInv
<1> QED
  BY <1>2, <1>3 DEF NoWorkload

\* A package erases one requirement at most: they are searched in an order.
LEMMA ErasesOne ==
  ASSUME TypeOK, NEW id, NEW r \in unmet, NEW s \in unmet, Erased(id, r), Erased(id, s)
  PROVE  r = s
<1>1. options.requires \in Seq(Ids) /\ options.requiresPattern \in Seq(SUBSET Ids)
  BY CommandLinesAssumption DEF TypeOK, Options
<1>2. r \in S!Requirements /\ s \in S!Requirements
  BY DEF TypeOK
<1>3. \A q \in S!Requirements : q = <<q[1], q[2]>> /\ q[1] \in {"literal", "pattern"} /\ q[2] \in Int
  BY <1>1 DEF S!Requirements
<1>4. ~Earlier(r, s) /\ ~Earlier(s, r)
  BY DEF Erased
<1>5. r[1] = s[1] /\ r[2] = s[2]
  BY <1>2, <1>3, <1>4 DEF Earlier
<1> QED
  BY <1>2, <1>3, <1>5

LEMMA ExaminePackageIInv == ASSUME IInv, ExaminePackage PROVE IInv'
<1> DEFINE packages == installed[current].packages
           id == packages[package]
<1>1. pc = "workload" /\ package <= Len(packages)
  BY DEF ExaminePackage, ReadsPackages
<1>2. CASE Throw
  BY <1>2, ThrowIInv
<1>3. CASE ~Throw
  <2>1. /\ unmet' = {r \in unmet : ~Erased(id, r)} /\ package' = package + 1
        /\ UNCHANGED <<rigid, range, pc, pending, current, tried, instances, sorter, matched, answer>>
    BY <1>3 DEF ExaminePackage
  <2>2. current \in Candidates
    BY <1>1 DEF IInv, LookedAtOnce, Candidates
  <2>3. Len(packages) \in Nat
    BY <2>2, Answers DEF IInv, Attributes
  <2>4. TypeOK'
    BY <2>1, RigidFrame DEF IInv, TypeOK, ControlPoints, rigid, range, sorter
  <2>5. RangeKept' /\ LookedAtOnce'
    BY <2>1 DEF IInv, RangeKept, LookedAtOnce, rigid, range
  <2>6. PassedSoFar(current)'
    BY <1>1, <2>1, RigidFrame DEF IInv, Examining, PassedSoFar, rigid
  <2>7. package \in 1..Len(packages)
    BY <1>1, <2>3 DEF IInv, Examining
  <2>8. ErasedWereMet(current)'
    <3> DEFINE erased == S!Requirements \ unmet
               now == S!Requirements \ unmet'
    <3>1. PICK by \in [erased -> 1..(package - 1)] :
            /\ \A r \in erased : S!Meets(r, packages[by[r]])
            /\ \A r, s \in erased : by[r] = by[s] => r = s
      BY <1>1 DEF IInv, Examining, ErasedWereMet
    <3>2. \A r \in now : r \in erased \/ (r \in unmet /\ Erased(id, r))
      BY <2>1
    <3>3. \A r \in erased : r \in now /\ r \notin unmet
      BY <2>1
    <3> DEFINE extended == [r \in now |-> IF r \in erased THEN by[r] ELSE package]
    <3>4. \A r \in now : extended[r] = IF r \in erased THEN by[r] ELSE package
      OBVIOUS
    <3>5. extended \in [now -> 1..package]
      BY <2>7, <3>1
    <3>6. \A r \in erased : by[r] # package
      BY <2>7, <3>1
    <3>7. \A r \in now : S!Meets(r, packages[extended[r]])
      BY <3>1, <3>2, <3>4 DEF Erased
    <3>8. ASSUME NEW r \in now, NEW s \in now, extended[r] = extended[s] PROVE r = s
      <4>1. CASE r \in erased /\ s \in erased
        BY <3>1, <3>4, <3>8, <4>1
      <4>2. CASE r \notin erased /\ s \notin erased
        BY <3>2, <4>2, ErasesOne DEF IInv
      <4>3. CASE (r \in erased) # (s \in erased)
        BY <3>4, <3>6, <3>8, <4>3
      <4> QED
        BY <4>1, <4>2, <4>3
    <3>9. S!Requirements' \ unmet' = now /\ 1..(package' - 1) = 1..package
      BY <2>1, <2>7, RigidFrame
    <3> HIDE DEF extended, now, erased
    <3>10. \E f \in [now -> 1..package] :
             /\ \A r \in now : S!Meets(r, packages[f[r]])
             /\ \A r, s \in now : f[r] = f[s] => r = s
      BY <3>5, <3>7, <3>8
    <3>11. \E f \in [S!Requirements' \ unmet' -> 1..(package' - 1)] :
             /\ \A r \in S!Requirements' \ unmet' : S!Meets(r, packages[f[r]])
             /\ \A r, s \in S!Requirements' \ unmet' : f[r] = f[s] => r = s
      BY <3>9, <3>10
    <3>12. options' = options /\ installed' = installed /\ current' = current
      BY <2>1 DEF rigid
    <3> QED
      BY <3>11, <3>12 DEF ErasedWereMet, S!Meets
  <2>9. Examining'
    BY <2>1, <2>3, <2>6, <2>7, <2>8 DEF Examining, rigid
  <2>10. AllSatisfy'
    BY <2>1, RigidFrame DEF AllSatisfy, IInv
  <2>11. NoInstanceLost'
    BY <1>1, <2>1 DEF NoInstanceLost, Filled, S!IsListOf, IInv
  <2>12. Sorting' /\ Answered'
    BY <1>1, <2>1 DEF Sorting, Answered, IInv, S!Open
  <2> QED
    BY <2>4, <2>5, <2>9, <2>10, <2>11, <2>12 DEF IInv
<1> QED
  BY <1>2, <1>3

LEMMA EndPackagesIInv == ASSUME IInv, EndPackages PROVE IInv'
<1> DEFINE packages == installed[current].packages
           erased == S!Requirements \ unmet
<1>1. pc = "workload" /\ package > Len(packages)
  BY DEF EndPackages, ReadsPackages
<1>2. CASE IsWorkloadMatch
  <2>1. current \in Candidates /\ options.requiresAny \in BOOLEAN
    BY <1>1, CommandLinesAssumption DEF IInv, LookedAtOnce, Candidates, TypeOK, Options
  <2>2. packages \in Seq(Ids \cup {BadId})
    BY <2>1, Answers DEF IInv, Attributes
  <2>3. package - 1 = Len(packages) /\ DOMAIN packages = 1..(package - 1)
    BY <1>1, <2>2 DEF IInv, Examining
  <2>4. PICK by \in [erased -> DOMAIN packages] :
          /\ \A r \in erased : S!Meets(r, packages[by[r]])
          /\ \A r, s \in erased : by[r] = by[s] => r = s
    BY <1>1, <2>3 DEF IInv, Examining, ErasedWereMet
  <2>5. S!RequirementsMet(current)
    <3>1. CASE options.requiresAny
      <4>1. PICK r \in S!Requirements : r \in erased
        BY <1>2, <3>1 DEF IsWorkloadMatch, IInv, TypeOK
      <4> QED
        BY <2>4, <3>1, <4>1 DEF S!RequirementsMet
    <3>2. CASE ~options.requiresAny
      <4>1. erased = S!Requirements
        BY <1>2, <3>2 DEF IsWorkloadMatch
      <4> QED
        BY <2>4, <3>2, <4>1 DEF S!RequirementsMet
    <3> QED
      BY <3>1, <3>2
  <2>6. S!Satisfies(current)
    BY <1>1, <2>5 DEF IInv, Examining, PassedSoFar, S!Satisfies
  <2> QED
    BY <1>1, <1>2, <2>6, AcceptIInv DEF EndPackages
<1>3. CASE ~IsWorkloadMatch
  BY <1>1, <1>3, RejectIInv DEF EndPackages
<1> QED
  BY <1>2, <1>3

LEMMA TryLegacyIInv == ASSUME IInv, TryLegacy PROVE IInv'
<1> DEFINE i == LegacyVersions[tried + 1]
<1>1. pc = "legacy" /\ options.legacy /\ tried < Len(LegacyVersions)
  BY DEF TryLegacy
<1>2. tried \in Nat /\ Len(LegacyVersions) \in Nat /\ tried + 1 \in DOMAIN LegacyVersions
  BY <1>1, LegacyAssumption DEF IInv, TypeOK
<1>3. i \in Legacy /\ i \in Candidates /\ i \notin matched
  BY <1>2 DEF Legacy, Candidates, IInv, LookedAtOnce
<1>4. CASE Throw
  BY <1>4, ThrowIInv
<1>5. CASE ~Throw
  <2>1. /\ tried' = tried + 1
        /\ UNCHANGED <<instances, matched>> \/ (IsVersionMatch(i) /\ Push(i))
        /\ UNCHANGED <<rigid, range, pc, pending, match, sorter, answer>>
    BY <1>5 DEF TryLegacy
  <2> HIDE DEF i
  <2>2. instances' \in Seq(Candidates) /\ matched' \subseteq Candidates
    <3>1. instances \in Seq(Candidates) /\ matched \subseteq Candidates
      BY DEF IInv, TypeOK
    <3> QED
      BY <1>3, <2>1, <3>1 DEF Push
  <2>3. TypeOK'
    BY <1>2, <2>1, <2>2, RigidFrame DEF IInv, TypeOK, ControlPoints, rigid, range, match, sorter
  <2>4. RangeKept'
    BY <2>1 DEF IInv, RangeKept, rigid, range
  <2>5. LookedAtOnce'
    <3>1. matched' \subseteq matched \cup {i}
      BY <2>1 DEF Push
    <3>2. matched' \cap pending' = {}
      BY <1>3, <2>1, <3>1, LegacyAssumption DEF IInv, LookedAtOnce, TypeOK
    <3>3. ASSUME NEW k \in DOMAIN LegacyVersions, LegacyVersions[k] \in matched'
          PROVE  k <= tried'
      <4>1. CASE LegacyVersions[k] \in matched
        <5>1. k <= tried
          BY <4>1 DEF IInv, LookedAtOnce
        <5> QED
          BY <1>2, <2>1, <5>1, LegacyAssumption
      <4>2. CASE LegacyVersions[k] = i
        BY <1>2, <2>1, <4>2, LegacyAssumption DEF i
      <4> QED
        BY <3>1, <3>3, <4>1, <4>2
    <3> QED
      BY <1>1, <2>1, <3>2, <3>3 DEF LookedAtOnce
  <2>6. CASE UNCHANGED <<instances, matched>>
    BY <1>1, <2>1, <2>3, <2>4, <2>5, <2>6, IdleIInv
  <2>7. CASE IsVersionMatch(i) /\ Push(i)
    <3>1. S!Satisfies(i)
      BY <1>1, <1>3, <2>7, VersionMatchIsInRange, Answers DEF IInv, S!Satisfies
    <3> QED
      BY <1>1, <1>3, <2>1, <2>3, <2>4, <2>5, <2>7, <3>1, PushIInv
  <2> QED
    BY <2>1, <2>6, <2>7
<1> QED
  BY <1>4, <1>5

LEMMA EndLegacyIInv == ASSUME IInv, EndLegacy PROVE IInv'
<1>1. /\ pc = "legacy" /\ pc' = "order"
      /\ UNCHANGED <<rigid, range, pending, match, tried, instances, sorter, matched, answer>>
  BY DEF EndLegacy
<1>2. TypeOK'
  BY <1>1, RigidFrame DEF IInv, TypeOK, ControlPoints, rigid, range, match, sorter
<1>3. RangeKept' /\ LookedAtOnce'
  BY <1>1 DEF IInv, RangeKept, LookedAtOnce, rigid, range
<1> QED
  BY <1>1, <1>2, <1>3, IdleIInv

\* Returning a list, before the sort or after it.
LEMMA ReturnIInv ==
  ASSUME IInv, NEW list \in Seq(Candidates), Return(list), pc \in {"order", "insert"}
  PROVE  IInv'
<1>1. /\ pc' = "returned" /\ answer' = [outcome |-> "listed", list |-> list]
      /\ UNCHANGED <<rigid, range, pending, match, tried, instances, sorter, matched>>
  BY DEF Return
<1>2. answer' \in [outcome : {"open", "listed", "failed"}, list : Seq(Candidates)]
  BY <1>1
<1>3. TypeOK'
  BY <1>1, <1>2, RigidFrame DEF IInv, TypeOK, ControlPoints, rigid, range, match, sorter
<1>4. RangeKept' /\ LookedAtOnce'
  BY <1>1 DEF IInv, RangeKept, LookedAtOnce, rigid, range
<1>5. Examining' /\ Sorting' /\ Answered'
  BY <1>1 DEF Examining, Sorting, Answered
<1>6. AllSatisfy'
  BY <1>1, RigidFrame DEF AllSatisfy, IInv
<1>7. NoInstanceLost'
  BY <1>1 DEF NoInstanceLost, Filled, S!IsListOf, IInv
<1> QED
  BY <1>3, <1>4, <1>5, <1>6, <1>7 DEF IInv

\* The steps of the sort change the vector and their own variables only.
LEMMA SortIInv ==
  ASSUME IInv, UNCHANGED <<rigid, range, pending, match, tried, matched, answer>>,
         instances' \in Seq(Candidates), mid' \in Nat, hole' \in Nat,
         val' \in Candidates \cup {None}, NoInstanceLost', Sorting',
         pc \in {"order", "insert", "shift"}, pc' \in {"insert", "shift"}
  PROVE  IInv'
<1>1. TypeOK'
  BY RigidFrame DEF IInv, TypeOK, ControlPoints, rigid, range, match
<1>2. RangeKept' /\ LookedAtOnce'
  BY DEF IInv, RangeKept, LookedAtOnce, rigid, range
<1>3. Examining' /\ Answered'
  BY DEF IInv, Examining, Answered, S!Open
<1>4. AllSatisfy'
  BY RigidFrame DEF AllSatisfy, IInv
<1> QED
  BY <1>1, <1>2, <1>3, <1>4 DEF IInv

LEMMA OrderIInv == ASSUME IInv, Order PROVE IInv'
<1>1. pc = "order" /\ instances \in Seq(Candidates)
  BY DEF IInv, TypeOK, Order
<1>2. CASE Return(instances)
  BY <1>1, <1>2, ReturnIInv
<1>3. CASE ~Return(instances)
  <2>1. /\ S!Sorted /\ Len(instances) > 1 /\ mid' = 2 /\ pc' = "insert"
        /\ UNCHANGED <<rigid, range, pending, match, tried, instances, hole, val, matched, answer>>
    BY <1>3 DEF Order
  <2>2. Sorting'
    <3>1. Placed' = {1}
      BY <2>1 DEF Placed
    <3>2. mid' \in 2..(Len(instances') + 1)
      BY <1>1, <2>1
    <3>3. S!Sorted'
      BY <2>1, RigidFrame
    <3> QED
      BY <2>1, <3>1, <3>2, <3>3 DEF Sorting
  <2>3. NoInstanceLost'
    BY <1>1, <2>1 DEF NoInstanceLost, Filled, S!IsListOf, IInv
  <2> QED
    BY <1>1, <2>1, <2>2, <2>3, SortIInv DEF IInv, TypeOK
<1> QED
  BY <1>2, <1>3

\* What the comparator of the sort says, when it does not throw.
LEMMA BeforeIsNotOlder ==
  ASSUME TypeOK, NEW a \in Candidates, NEW b \in Candidates, ~LessThrows(a, b)
  PROVE  /\ Before(a, b) => ~S!Newer(b, a) /\ ~S!SameInstall(a, b)
         /\ ~Before(a, b) => S!Newer(b, a)
BY LessIsOlder, LessThrowsOnSameInstall DEF Before

\* What goes before the first of an ordered pair goes before the second, too.
LEMMA BeforeTheFirst ==
  ASSUME TypeOK, NEW x \in Candidates, NEW a \in Candidates, NEW b \in Candidates,
         ~S!Newer(a, x), ~S!SameInstall(x, a), ~S!Newer(b, a), ~S!SameInstall(a, b)
  PROVE  ~S!Newer(b, x) /\ ~S!SameInstall(x, b)
<1>1. ~S!Newer(b, x)
  BY NewerIsOrder
<1>2. ASSUME S!SameInstall(x, b) PROVE FALSE
  <2>1. ~S!Newer(x, b)
    BY <1>2, SameInstallIsEqual
  <2>2. ~S!Newer(x, a)
    BY <2>1, NewerIsOrder
  <2>3. S!SameInstall(b, a)
    BY <1>2, <2>2, SameInstallIsEqual
  <2> QED
    BY <2>3, SameInstallIsEqual
<1> QED
  BY <1>1, <1>2

LEMMA InsertIInv == ASSUME IInv, Insert PROVE IInv'
<1> DEFINE new == instances[mid]
<1>1. pc = "insert" /\ mid <= Len(instances) /\ instances \in Seq(Candidates)
  BY DEF IInv, TypeOK, Insert
<1>2. mid \in 2..Len(instances) /\ S!Sorted /\ Placed = 1..(mid - 1)
  BY <1>1 DEF IInv, Sorting, Placed
<1>3. /\ \A k \in 1..Len(instances) : instances[k] \in Candidates
      /\ DOMAIN instances = 1..Len(instances) /\ Len(instances) \in Nat
  BY <1>1
<1>4. \A j, k \in 1..(mid - 1) : j < k =>
        ~S!Newer(instances[k], instances[j]) /\ ~S!SameInstall(instances[j], instances[k])
  BY <1>1, <1>2 DEF IInv, Sorting
<1>5. new \in Candidates /\ instances[1] \in Candidates
  BY <1>2, <1>3
<1>6. CASE Throw
  BY <1>6, ThrowIInv
<1>7. CASE ~Throw /\ Before(new, instances[1])
  <2>1. /\ ~LessThrows(new, instances[1])
        /\ instances' = MoveToFront(instances, mid) /\ mid' = mid + 1
        /\ UNCHANGED <<rigid, range, pc, pending, match, tried, hole, val, matched, answer>>
    BY <1>7 DEF Insert
  <2>2. ~S!Newer(instances[1], new) /\ ~S!SameInstall(new, instances[1])
    BY <1>5, <1>7, <2>1, BeforeIsNotOlder DEF IInv
  <2>3. S!IsListOf(instances, matched)
    BY <1>1 DEF IInv, NoInstanceLost, Filled
  <2>4. /\ S!IsListOf(instances', matched) /\ instances' \in Seq(Candidates)
        /\ Len(instances') = Len(instances)
    BY <1>1, <1>2, <2>1, <2>3, MoveLists
  <2>5. NoInstanceLost'
    BY <1>1, <2>1, <2>4 DEF NoInstanceLost, Filled, S!IsListOf
  <2>6. \A k \in 2..Len(instances) :
          /\ ~(k > mid) => instances'[k] = instances[k - 1]
          /\ k > mid => instances'[k] = instances[k]
    BY <1>2, <1>3, <2>1 DEF MoveToFront
  <2>7. instances'[1] = new
    BY <1>2, <1>3, <2>1 DEF MoveToFront
  <2>8. ASSUME NEW j \in 1..mid, NEW k \in 1..mid, j < k
        PROVE  ~S!Newer(instances'[k], instances'[j]) /\ ~S!SameInstall(instances'[j], instances'[k])
    <3> HIDE DEF new
    <3>1. instances'[k] = instances[k - 1] /\ k - 1 \in 1..(mid - 1)
      BY <1>2, <2>6, <2>8
    <3>2. CASE j > 1
      <4>1. instances'[j] = instances[j - 1] /\ j - 1 \in 1..(mid - 1)
        BY <1>2, <2>6, <3>2
      <4>2. j - 1 < k - 1
        BY <2>8
      <4> QED
        BY <1>4, <3>1, <4>1, <4>2
    <3>3. CASE j = 1 /\ k = 2
      BY <2>2, <2>7, <3>1, <3>3
    <3>4. CASE j = 1 /\ k > 2
      <4>1. ~S!Newer(instances[k - 1], instances[1]) /\ ~S!SameInstall(instances[1], instances[k - 1])
        BY <1>2, <1>4, <3>1, <3>4
      <4>2. instances[k - 1] \in Candidates
        BY <1>2, <1>3, <3>1
      <4> QED
        BY <1>5, <2>2, <2>7, <3>1, <3>4, <4>1, <4>2, BeforeTheFirst DEF IInv
    <3> QED
      BY <2>8, <3>2, <3>3, <3>4
  <2>9. Sorting'
    <3>1. Placed' = 1..mid /\ pc' = "insert"
      BY <1>1, <1>2, <2>1 DEF Placed
    <3>2. mid' \in 2..(Len(instances') + 1) /\ S!Sorted'
      BY <1>2, <2>1, <2>4, RigidFrame
    <3>3. \A j, k \in 1..mid : j < k =>
            ~S!Newer(instances[k], instances[j])' /\ ~S!SameInstall(instances[j], instances[k])'
      BY <2>1, <2>8, RigidFrame
    <3> QED
      BY <3>1, <3>2, <3>3 DEF Sorting
  <2> QED
    BY <1>1, <1>2, <2>1, <2>4, <2>5, <2>9, SortIInv DEF IInv, TypeOK
<1>8. CASE ~Throw /\ ~Before(new, instances[1])
  <2>1. /\ ~LessThrows(new, instances[1])
        /\ val' = new /\ hole' = mid /\ pc' = "shift"
        /\ UNCHANGED <<rigid, range, pending, match, tried, instances, mid, matched, answer>>
    BY <1>8 DEF Insert
  <2>2. S!Newer(instances[1], new)
    BY <1>5, <1>8, <2>1, BeforeIsNotOlder DEF IInv
  <2>3. NoInstanceLost'
    <3>1. [instances EXCEPT ![mid] = new] = instances
      BY <1>1, <1>2
    <3>2. Filled' = instances
      BY <2>1, <3>1 DEF Filled
    <3>3. S!IsListOf(instances, matched)
      BY <1>1 DEF IInv, NoInstanceLost, Filled
    <3> QED
      BY <2>1, <3>2, <3>3 DEF NoInstanceLost, S!IsListOf
  <2>4. Sorting'
    <3>1. Placed' = 1..(mid - 1)
      BY <1>2, <2>1 DEF Placed
    <3>2. S!Sorted' /\ mid' \in 2..(Len(instances') + 1) /\ mid' <= Len(instances')
          /\ hole' \in 2..mid' /\ val' \in Candidates
      BY <1>1, <1>2, <1>5, <2>1, RigidFrame
    <3>3. S!Newer(instances[1], val)'
      BY <2>1, <2>2, RigidFrame
    <3>4. \A j, k \in Placed' : j < k =>
            ~S!Newer(instances[k], instances[j])' /\ ~S!SameInstall(instances[j], instances[k])'
      BY <1>4, <2>1, <3>1, RigidFrame
    <3>5. (hole' + 1)..mid' = {}
      BY <1>2, <2>1
    <3> QED
      BY <2>1, <3>2, <3>3, <3>4, <3>5 DEF Sorting
  <2> QED
    BY <1>1, <1>2, <1>5, <2>1, <2>3, <2>4, SortIInv DEF IInv, TypeOK
<1> QED
  BY <1>6, <1>7, <1>8

LEMMA ShiftIInv == ASSUME IInv, Shift PROVE IInv'
<1> DEFINE previous == instances[hole - 1]
<1>1. pc = "shift" /\ instances \in Seq(Candidates)
  BY DEF IInv, TypeOK, Shift
<1>2. /\ mid \in 2..Len(instances) /\ S!Sorted /\ Placed = (1..mid) \ {hole}
      /\ hole \in 2..mid /\ val \in Candidates /\ S!Newer(instances[1], val)
  BY <1>1 DEF IInv, Sorting, Placed
<1>3. /\ \A k \in 1..Len(instances) : instances[k] \in Candidates
      /\ DOMAIN instances = 1..Len(instances) /\ Len(instances) \in Nat
  BY <1>1
<1>4. \A j, k \in (1..mid) \ {hole} : j < k =>
        ~S!Newer(instances[k], instances[j]) /\ ~S!SameInstall(instances[j], instances[k])
  BY <1>1, <1>2 DEF IInv, Sorting
<1>5. \A k \in (hole + 1)..mid : ~S!Newer(instances[k], val) /\ ~S!SameInstall(val, instances[k])
  BY <1>1 DEF IInv, Sorting
<1>6. previous \in Candidates /\ hole - 1 \in 1..(mid - 1)
  BY <1>2, <1>3
<1>7. S!IsListOf([instances EXCEPT ![hole] = val], matched)
  BY <1>1 DEF IInv, NoInstanceLost, Filled
<1>8. CASE Throw
  BY <1>8, ThrowIInv
<1>9. CASE ~Throw /\ Before(val, previous)
  <2>1. /\ ~LessThrows(val, previous)
        /\ instances' = [instances EXCEPT ![hole] = previous] /\ hole' = hole - 1
        /\ UNCHANGED <<rigid, range, pc, pending, match, tried, mid, val, matched, answer>>
    BY <1>9 DEF Shift
  <2>2. ~S!Newer(previous, val) /\ ~S!SameInstall(val, previous)
    BY <1>2, <1>6, <1>9, <2>1, BeforeIsNotOlder DEF IInv
  <2>3. hole - 1 # 1
    BY <1>2, <2>2
  <2>4. instances' \in Seq(Candidates) /\ Len(instances') = Len(instances)
    BY <1>1, <1>2, <1>6, <2>1
  <2>5. NoInstanceLost'
    <3>1. hole \in 2..Len(instances)
      BY <1>2
    <3>2. S!IsListOf([[instances EXCEPT ![hole] = previous] EXCEPT ![hole - 1] = val], matched)
      BY <1>1, <1>2, <1>7, <3>1, ShiftLists
    <3>3. Filled' = [[instances EXCEPT ![hole] = previous] EXCEPT ![hole - 1] = val]
      BY <1>1, <2>1 DEF Filled
    <3> QED
      BY <2>1, <3>2, <3>3 DEF NoInstanceLost, S!IsListOf
  <2>6. \A k \in 1..Len(instances) : instances'[k] = IF k = hole THEN previous ELSE instances[k]
    BY <1>3, <2>1
  <2>7. ASSUME NEW j \in (1..mid) \ {hole - 1}, NEW k \in (1..mid) \ {hole - 1}, j < k
        PROVE  ~S!Newer(instances'[k], instances'[j]) /\ ~S!SameInstall(instances'[j], instances'[k])
    <3>1. instances'[j] = instances[IF j = hole THEN hole - 1 ELSE j]
      BY <1>2, <2>6
    <3>2. instances'[k] = instances[IF k = hole THEN hole - 1 ELSE k]
      BY <1>2, <2>6
    <3>3. (IF j = hole THEN hole - 1 ELSE j) < (IF k = hole THEN hole - 1 ELSE k)
      BY <1>2, <2>7
    <3>4. /\ (IF j = hole THEN hole - 1 ELSE j) \in (1..mid) \ {hole}
          /\ (IF k = hole THEN hole - 1 ELSE k) \in (1..mid) \ {hole}
      BY <1>2
    <3> QED
      BY <1>4, <3>1, <3>2, <3>3, <3>4
  <2>8. ASSUME NEW k \in hole..mid
        PROVE  ~S!Newer(instances'[k], val) /\ ~S!SameInstall(val, instances'[k])
    BY <1>2, <1>5, <2>2, <2>6
  <2>9. Sorting'
    <3>1. Placed' = (1..mid) \ {hole - 1} /\ pc' = "shift"
      BY <1>1, <2>1 DEF Placed
    <3>2. /\ S!Sorted' /\ mid' \in 2..(Len(instances') + 1) /\ mid' <= Len(instances')
          /\ hole' \in 2..mid' /\ val' \in Candidates
      BY <1>2, <2>1, <2>3, <2>4, RigidFrame
    <3>3. instances'[1] = instances[1]
      BY <1>2, <2>6
    <3>4. S!Newer(instances[1], val)'
      BY <1>2, <2>1, <3>3, RigidFrame
    <3>5. \A j, k \in Placed' : j < k =>
            ~S!Newer(instances[k], instances[j])' /\ ~S!SameInstall(instances[j], instances[k])'
      BY <2>1, <2>7, <3>1, RigidFrame
    <3>6. (hole' + 1)..mid' = hole..mid
      BY <1>2, <2>1
    <3>7. \A k \in (hole' + 1)..mid' : ~S!Newer(instances[k], val)' /\ ~S!SameInstall(val, instances[k])'
      BY <2>1, <2>8, <3>6, RigidFrame
    <3> QED
      BY <3>1, <3>2, <3>4, <3>5, <3>7 DEF Sorting
  <2> QED
    BY <1>1, <1>2, <2>1, <2>4, <2>5, <2>9, SortIInv DEF IInv, TypeOK
<1>10. CASE ~Throw /\ ~Before(val, previous)
  <2>1. /\ ~LessThrows(val, previous)
        /\ instances' = [instances EXCEPT ![hole] = val] /\ mid' = mid + 1 /\ pc' = "insert"
        /\ UNCHANGED <<rigid, range, pending, match, tried, hole, val, matched, answer>>
    BY <1>10 DEF Shift
  <2>2. S!Newer(previous, val)
    BY <1>2, <1>6, <1>10, <2>1, BeforeIsNotOlder DEF IInv
  <2>3. instances' \in Seq(Candidates) /\ Len(instances') = Len(instances)
    BY <1>1, <1>2, <2>1
  <2>4. NoInstanceLost'
    BY <1>7, <2>1 DEF NoInstanceLost, Filled, S!IsListOf
  <2>5. \A k \in 1..Len(instances) : instances'[k] = IF k = hole THEN val ELSE instances[k]
    BY <1>3, <2>1
  <2>6. ASSUME NEW j \in 1..(hole - 1)
        PROVE  ~S!Newer(val, instances[j]) /\ ~S!SameInstall(instances[j], val)
    <3>1. instances[j] \in Candidates
      BY <1>2, <1>3
    <3>2. j = hole - 1 \/ ~S!Newer(previous, instances[j])
      BY <1>2, <1>4, <1>6
    <3>3. S!Newer(instances[j], val)
      BY <1>2, <1>6, <2>2, <3>1, <3>2, NewerIsOrder DEF IInv
    <3> QED
      BY <1>2, <3>1, <3>3, NewerIsOrder, SameInstallIsEqual DEF IInv
  <2>7. ASSUME NEW j \in 1..mid, NEW k \in 1..mid, j < k
        PROVE  ~S!Newer(instances'[k], instances'[j]) /\ ~S!SameInstall(instances'[j], instances'[k])
    <3>1. CASE j # hole /\ k # hole
      BY <1>2, <1>4, <2>5, <2>7, <3>1
    <3>2. CASE k = hole
      <4>1. j \in 1..(hole - 1) /\ instances'[j] = instances[j] /\ instances'[k] = val
        BY <1>2, <2>5, <2>7, <3>2
      <4> QED
        BY <2>6, <4>1
    <3>3. CASE j = hole
      <4>1. k \in (hole + 1)..mid /\ instances'[k] = instances[k] /\ instances'[j] = val
        BY <1>2, <2>5, <2>7, <3>3
      <4> QED
        BY <1>5, <4>1
    <3> QED
      BY <3>1, <3>2, <3>3
  <2>8. Sorting'
    <3>1. Placed' = 1..mid
      BY <1>2, <2>1 DEF Placed
    <3>2. S!Sorted' /\ mid' \in 2..(Len(instances') + 1)
      BY <1>2, <2>1, <2>3, RigidFrame
    <3>3. \A j, k \in Placed' : j < k =>
            ~S!Newer(instances[k], instances[j])' /\ ~S!SameInstall(instances[j], instances[k])'
      BY <2>1, <2>7, <3>1, RigidFrame
    <3> QED
      BY <2>1, <3>2, <3>3 DEF Sorting
  <2> QED
    BY <1>1, <1>2, <2>1, <2>3, <2>4, <2>8, SortIInv DEF IInv, TypeOK
<1> QED
  BY <1>8, <1>9, <1>10

\* Front takes the first element of a vector that is not empty.
LEMMA FrontIsFirst ==
  ASSUME NEW C, NEW s \in Seq(C), Len(s) >= 1
  PROVE  Front(s) \in Seq(C) /\ Front(s) = <<s[1]>> /\ s[1] \in C
BY DEF Front

LEMMA EndSortIInv == ASSUME IInv, EndSort PROVE IInv'
<1>1. /\ pc = "insert" /\ instances \in Seq(Candidates)
      /\ Return(IF options.latest THEN Front(instances) ELSE instances)
  BY DEF EndSort, IInv, TypeOK
<1>2. Len(instances) >= 1
  BY <1>1 DEF IInv, Sorting
<1>3. (IF options.latest THEN Front(instances) ELSE instances) \in Seq(Candidates)
  BY <1>1, <1>2, FrontIsFirst
<1> QED
  BY <1>1, <1>3, ReturnIInv

LEMMA UnchangedIInv == ASSUME IInv, UNCHANGED vars PROVE IInv'
<1>1. /\ UNCHANGED <<rigid, range, pc, pending, match, tried, instances, sorter, matched, answer>>
      /\ UNCHANGED <<options, helper, installed>>
  BY DEF vars, rigid
<1>2. TypeOK'
  BY <1>1, RigidFrame DEF IInv, TypeOK, range, match, sorter
<1>3. RangeKept' /\ LookedAtOnce'
  BY <1>1 DEF IInv, RangeKept, LookedAtOnce, range, match
<1>4. Examining'
  <2>1. /\ options' = options /\ installed' = installed /\ pc' = pc
        /\ current' = current /\ package' = package /\ unmet' = unmet
    BY <1>1 DEF match
  <2>2. PassedSoFar(current)' <=> PassedSoFar(current)
    BY <1>1, <2>1, RigidFrame DEF PassedSoFar
  <2>3. ErasedWereMet(current)' <=> ErasedWereMet(current)
    BY <2>1 DEF ErasedWereMet, S!Requirements, S!Meets
  <2> QED
    BY <2>1, <2>2, <2>3 DEF IInv, Examining
<1>5. AllSatisfy'
  BY <1>1, RigidFrame DEF AllSatisfy, IInv
<1>6. NoInstanceLost'
  BY <1>1 DEF NoInstanceLost, Filled, S!IsListOf, IInv, sorter
<1>7. Sorting'
  <2>1. /\ pc' = pc /\ mid' = mid /\ hole' = hole /\ val' = val
        /\ instances' = instances
    BY <1>1 DEF sorter
  <2>2. Placed' = Placed
    BY <2>1 DEF Placed
  <2>3. /\ S!Sorted' = S!Sorted
        /\ \A i, j : S!Newer(i, j)' <=> S!Newer(i, j)
        /\ \A i, j : S!SameInstall(i, j)' <=> S!SameInstall(i, j)
    BY <1>1, RigidFrame
  <2>4. Sorting
    BY DEF IInv
  <2>5. pc' \in {"insert", "shift"} =>
          /\ S!Sorted'
          /\ mid' \in 2..(Len(instances') + 1)
          /\ \A j, k \in Placed' : j < k =>
               /\ ~S!Newer(instances[k], instances[j])'
               /\ ~S!SameInstall(instances[j], instances[k])'
    BY <2>1, <2>2, <2>3, <2>4 DEF Sorting
  <2>6. pc' = "shift" =>
          /\ mid' <= Len(instances')
          /\ hole' \in 2..mid'
          /\ val' \in Candidates
          /\ S!Newer(instances[1], val)'
          /\ \A k \in (hole' + 1)..mid' :
               /\ ~S!Newer(instances[k], val)'
               /\ ~S!SameInstall(val, instances[k])'
    BY <2>1, <2>3, <2>4 DEF Sorting
  <2> QED
    BY <2>5, <2>6 DEF Sorting
<1>8. Answered'
  BY <1>1 DEF Answered, IInv, S!Open, S!Failed
<1> QED
  BY <1>2, <1>3, <1>4, <1>5, <1>6, <1>7, <1>8 DEF IInv

\* The invariant is inductive.
LEMMA NextIInv == IInv /\ [Next]_vars => IInv'
<1> SUFFICES ASSUME IInv, [Next]_vars PROVE IInv'
  OBVIOUS
<1>1. CASE Construct
  BY <1>1, ConstructIInv
<1>2. CASE \E i \in Instances : Fetch(i)
  BY <1>2, FetchIInv
<1>3. CASE EndEnumeration
  BY <1>3, EndEnumerationIInv
<1>4. CASE MatchOld
  BY <1>4, MatchOldIInv
<1>5. CASE Match
  BY <1>5, MatchIInv
<1>6. CASE NoWorkload
  BY <1>6, NoWorkloadIInv
<1>7. CASE ExaminePackage
  BY <1>7, ExaminePackageIInv
<1>8. CASE EndPackages
  BY <1>8, EndPackagesIInv
<1>9. CASE TryLegacy
  BY <1>9, TryLegacyIInv
<1>10. CASE EndLegacy
  BY <1>10, EndLegacyIInv
<1>11. CASE Order
  BY <1>11, OrderIInv
<1>12. CASE Insert
  BY <1>12, InsertIInv
<1>13. CASE Shift
  BY <1>13, ShiftIInv
<1>14. CASE EndSort
  BY <1>14, EndSortIInv
<1>15. CASE UNCHANGED vars
  BY <1>15, UnchangedIInv
<1> QED
  BY <1>1, <1>2, <1>3, <1>4, <1>5, <1>6, <1>7, <1>8, <1>9, <1>10, <1>11, <1>12, <1>13,
     <1>14, <1>15 DEF Next, Step, Done

\* A list that was returned has only instances that matched, and one at most when
\* the newest was asked for.
Listed ==
  pc = "returned" => answer.list \in Seq(matched) /\ (options.latest => Len(answer.list) <= 1)

\* Every step keeps that.
LEMMA NextListed == ASSUME IInv, Listed, [Next]_vars PROVE Listed'
<1>1. ASSUME pc \in {"order", "insert"}
      PROVE  instances \in Seq(matched)
  <2>1. instances \in Seq(Candidates) /\ S!IsListOf(instances, matched)
    BY <1>1 DEF IInv, TypeOK, NoInstanceLost, Filled
  <2>2. Len(instances) \in Nat /\ DOMAIN instances = 1..Len(instances)
    BY <2>1
  <2> QED
    BY <2>1, <2>2 DEF S!IsListOf
<1>2. ASSUME NEW list, Return(list), list \in Seq(matched), options.latest => Len(list) <= 1
      PROVE  Listed'
  <2>1. answer'.list = list /\ matched' = matched /\ options' = options
    BY <1>2 DEF Return, rigid
  <2> QED
    BY <1>2, <2>1 DEF Listed
<1>3. CASE Order
  <2>1. CASE Return(instances) /\ (~S!Sorted \/ Len(instances) <= 1)
    BY <1>1, <1>2, <1>3, <2>1 DEF Order, S!Sorted
  <2>2. CASE pc' = "insert"
    BY <2>2 DEF Listed
  <2> QED
    BY <1>3, <2>1, <2>2 DEF Order
<1>4. CASE EndSort
  <2>1. pc = "insert" /\ instances \in Seq(matched) /\ Return(IF options.latest THEN Front(instances) ELSE instances)
    BY <1>1, <1>4 DEF EndSort
  <2>2. Len(instances) \in Nat /\ Len(instances) > 0
    BY <2>1 DEF IInv, Sorting, S!Sorted, NoInstanceLost, TypeOK
  <2>3. Front(instances) \in Seq(matched) /\ Len(Front(instances)) <= 1
    <3>1. instances[1] \in matched
      BY <2>1, <2>2
    <3> QED
      BY <3>1 DEF Front
  <2> QED
    BY <1>2, <2>1, <2>3
<1>5. CASE UNCHANGED vars
  BY <1>5 DEF vars, rigid, Listed
<1>6. CASE Step /\ ~Order /\ ~EndSort
  <2>1. pc' # "returned"
    BY <1>6
    DEF Step, Construct, Throw, Fetch, EndEnumeration, MatchOld, Match, Accept, Reject, NoWorkload,
        ExaminePackage, EndPackages, ReadsPackages, TryLegacy, EndLegacy, Insert, Shift
  <2> QED
    BY <2>1 DEF Listed
<1> QED
  BY <1>3, <1>4, <1>5, <1>6 DEF Next, Done

\* The invariant holds in every state of every behaviour.
LEMMA Invariance == Spec => []IInv
<1>1. Init => IInv
  BY InitIInv
<1>2. IInv /\ [Next]_vars => IInv'
  BY NextIInv
<1> QED
  BY <1>1, <1>2, PTL DEF Spec

-----------------------------------------------------------------------------
(* Theorems                                                                 *)

\* The indices of the loops of Select stay where the code may use them, for every
\* machine and every command line.
THEOREM TypeCorrect == Spec => []TypeOK
<1>1. IInv => TypeOK
  BY DEF IInv
<1> QED
  BY <1>1, Invariance, PTL

\* The vector of Select and std::sort never lose or duplicate an instance that
\* IsMatch accepted, however many there are.
THEOREM NothingIsLost == Spec => []NoInstanceLost
<1>1. IInv => NoInstanceLost
  BY DEF IInv
<1> QED
  BY <1>1, Invariance, PTL

\* std::sort never reads before the vector, although its comparator !Less is
\* no strict order, for vectors of every length.
THEOREM SortIsInside == Spec => []SortStaysInside
<1>1. IInv => SortStaysInside
  BY DEF IInv, Sorting, SortStaysInside
<1> QED
  BY <1>1, Invariance, PTL

\* What the vector holds during the sort was matched, and holds it once.
LEMMA VectorIsMatched ==
  ASSUME IInv, pc # "thrown"
  PROVE  /\ \A k \in DOMAIN Filled : Filled[k] \in matched
         /\ \A j, k \in DOMAIN Filled : Filled[j] = Filled[k] => j = k
BY DEF IInv, NoInstanceLost, S!IsListOf

\* An exception of Less is one of two different instances.
LEMMA LessThrowsOnConflict ==
  ASSUME IInv, pc # "thrown", NEW j \in DOMAIN Filled, NEW k \in DOMAIN Filled, j # k,
         LessThrows(Filled[j], Filled[k])
  PROVE  ~S!Consistent(matched)
<1>1. Filled[j] \in matched /\ Filled[k] \in matched /\ Filled[j] # Filled[k]
  BY VectorIsMatched
<1>2. S!SameInstall(Filled[j], Filled[k])
  BY <1>1, LessThrowsOnSameInstall DEF IInv, TypeOK
<1> QED
  BY <1>1, <1>2 DEF S!Consistent

\* The sort has its index only once the vector is complete.
SortIndex == pc \notin {"insert", "shift", "returned", "thrown"} => mid = 0

\* A sort fails only when two of its instances are one install.
THEOREM SortFailsOnConflict == Spec => []FailsOnlyOnConflict
<1> DEFINE J == SortIndex /\ FailsOnlyOnConflict
<1>1. Init => J
  BY DEF Init, SortIndex, FailsOnlyOnConflict
<1>2. IInv /\ J /\ [Next]_vars => J'
  <2> SUFFICES ASSUME IInv, J, [Next]_vars PROVE J'
    OBVIOUS
  <2> USE DEF SortIndex, FailsOnlyOnConflict
  <2>1. CASE Throw /\ mid = 0
    BY <2>1 DEF Throw, sorter
  <2>2. CASE Throw /\ ~S!Consistent(matched)
    <3>1. S!Consistent(matched)' <=> S!Consistent(matched)
      BY <2>2 DEF Throw, rigid, S!Consistent, S!SameInstall, S!Grade, S!VersionKey, S!DateKey
    <3> QED
      BY <2>2, <3>1 DEF Throw
  <2>3. CASE Insert
    <3>1. CASE Throw
      <4>1. pc = "insert" /\ LessThrows(instances[mid], instances[1])
        BY <2>3, <3>1 DEF Insert, Throw
      <4>2. mid \in 2..Len(instances) /\ 1 \in DOMAIN instances /\ mid \in DOMAIN instances
        BY <2>3, <4>1 DEF IInv, TypeOK, Sorting, Insert
      <4>3. Filled = instances
        BY <4>1 DEF Filled
      <4>4. ~S!Consistent(matched)
        BY <4>1, <4>2, <4>3, LessThrowsOnConflict
      <4> QED
        BY <2>2, <3>1, <4>4
    <3>2. CASE ~Throw
      BY <2>3, <3>2 DEF Insert
    <3> QED
      BY <3>1, <3>2
  <2>4. CASE Shift
    <3>1. CASE Throw
      <4>1. pc = "shift" /\ LessThrows(val, instances[hole - 1])
        BY <2>4, <3>1 DEF Shift, Throw
      <4>2. hole \in 2..mid /\ mid <= Len(instances) /\ instances \in Seq(Candidates) /\ mid \in Nat
        BY <4>1 DEF IInv, TypeOK, Sorting
      <4>3. Filled = [instances EXCEPT ![hole] = val]
        BY <4>1 DEF Filled
      <4>4. /\ hole \in DOMAIN Filled /\ hole - 1 \in DOMAIN Filled
            /\ Filled[hole] = val /\ Filled[hole - 1] = instances[hole - 1]
        BY <4>2, <4>3
      <4>5. hole # hole - 1
        BY <4>2
      <4>6. ~S!Consistent(matched)
        BY <4>1, <4>4, <4>5, LessThrowsOnConflict
      <4> QED
        BY <2>2, <3>1, <4>6
    <3>2. CASE ~Throw
      BY <2>4, <3>2 DEF Shift
    <3> QED
      BY <3>1, <3>2
  <2>5. CASE UNCHANGED vars
    BY <2>5 DEF vars, rigid, sorter, S!Consistent, S!SameInstall, S!Grade, S!VersionKey, S!DateKey
  <2>6. CASE Construct \/ (\E i \in Instances : Fetch(i)) \/ EndEnumeration \/ MatchOld
    BY <2>1, <2>6 DEF Construct, Fetch, EndEnumeration, MatchOld, Accept, Reject, sorter
  <2>7. CASE Match
    BY <2>1, <2>7 DEF Match, Reject, sorter
  <2>8. CASE NoWorkload \/ ExaminePackage \/ EndPackages
    BY <2>1, <2>8 DEF NoWorkload, ExaminePackage, EndPackages, ReadsPackages, Accept, Reject, sorter
  <2>9. CASE TryLegacy
    BY <2>1, <2>9 DEF TryLegacy, sorter
  <2>10. CASE EndLegacy \/ Order \/ EndSort
    BY <2>10 DEF EndLegacy, Order, EndSort, Return, sorter
  <2> QED
    BY <2>3, <2>4, <2>5, <2>6, <2>7, <2>8, <2>9, <2>10 DEF Next, Step, Done
<1> QED
  <2>1. J => FailsOnlyOnConflict
    OBVIOUS
  <2> QED
    BY <1>1, <1>2, <2>1, Invariance, PTL DEF Spec

-----------------------------------------------------------------------------
(* Nothing is lost in matching                                              *)

\* Among requirements that a package meets there is one that is searched first.
LEMMA FirstMet ==
  ASSUME TypeOK, NEW id, NEW q \in S!Requirements, S!Meets(q, id)
  PROVE  \E r \in S!Requirements :
           /\ S!Meets(r, id)
           /\ \A s \in S!Requirements : Earlier(s, r) => ~S!Meets(s, id)
<1>1. /\ Len(options.requires) \in Nat /\ Len(options.requiresPattern) \in Nat
  BY CommandLinesAssumption DEF TypeOK, Options
<1> DEFINE Of(kind) == {k \in Nat : <<kind, k>> \in S!Requirements /\ S!Meets(<<kind, k>>, id)}
<1>2. \A r \in S!Requirements : /\ r = <<r[1], r[2]>> /\ r[2] \in Nat
                                /\ r[1] = "literal" \/ r[1] = "pattern"
  BY <1>1 DEF S!Requirements
<1>3. \A r \in S!Requirements : S!Meets(r, id) => r[2] \in Of(r[1])
  BY <1>2
<1>4. \A kind : \A k \in Of(kind) : <<kind, k>> \in S!Requirements /\ S!Meets(<<kind, k>>, id)
  OBVIOUS
<1>5. \A kind : Of(kind) # {} => \E k \in Of(kind) : \A j \in Of(kind) : k <= j
  <2> TAKE kind
  <2>1. Of(kind) \subseteq Nat
    OBVIOUS
  <2> QED
    BY <2>1, Lemmas!Least
<1>6. \A kind : Of(kind) \subseteq Nat
  OBVIOUS
<1> HIDE DEF Of
<1>7. CASE Of("literal") # {}
  <2>1. PICK k \in Of("literal") : \A j \in Of("literal") : k <= j
    BY <1>5, <1>7
  <2>2. <<"literal", k>> \in S!Requirements /\ S!Meets(<<"literal", k>>, id) /\ k \in Nat
    BY <1>4, <1>6, <2>1
  <2>3. ASSUME NEW s \in S!Requirements, Earlier(s, <<"literal", k>>), S!Meets(s, id) PROVE FALSE
    <3>1. s[1] = "literal" /\ s[2] < k /\ s[2] \in Nat
      BY <1>2, <2>3 DEF Earlier
    <3>2. k <= s[2]
      BY <1>3, <2>1, <2>3, <3>1
    <3> QED
      BY <2>2, <3>1, <3>2
  <2> QED
    BY <2>2, <2>3
<1>8. CASE Of("literal") = {}
  <2>1. Of("pattern") # {}
    BY <1>2, <1>3, <1>8
  <2>2. PICK k \in Of("pattern") : \A j \in Of("pattern") : k <= j
    BY <1>5, <2>1
  <2>3. <<"pattern", k>> \in S!Requirements /\ S!Meets(<<"pattern", k>>, id) /\ k \in Nat
    BY <1>4, <1>6, <2>2
  <2>4. ASSUME NEW s \in S!Requirements, Earlier(s, <<"pattern", k>>), S!Meets(s, id) PROVE FALSE
    <3>1. s[1] = "pattern"
      BY <1>2, <1>3, <1>8, <2>4
    <3>2. s[2] < k /\ s[2] \in Nat
      BY <1>2, <2>4, <3>1 DEF Earlier
    <3>3. k <= s[2]
      BY <1>3, <2>2, <2>4, <3>1
    <3> QED
      BY <2>3, <3>2, <3>3
  <2> QED
    BY <2>3, <2>4
<1> QED
  BY <1>7, <1>8

\* What the packages examined have erased: a requirement that competes with none
\* for a package, as soon as a package meets it; and some requirement, as soon as a
\* package meets any.
Erasing ==
  pc = "workload" =>
    /\ NoCompetition(current) =>
         \A p \in 1..(package - 1), r \in S!Requirements :
           S!Meets(r, installed[current].packages[p]) => r \notin unmet
    /\ unmet = S!Requirements =>
         \A p \in 1..(package - 1), r \in S!Requirements :
           ~S!Meets(r, installed[current].packages[p])

\* The step of the loop over the packages keeps that.
LEMMA ExaminePackageErases ==
  ASSUME IInv, Erasing, ExaminePackage
  PROVE  Erasing'
<1> DEFINE packages == installed[current].packages
           id == packages[package]
<1>1. pc = "workload" /\ package <= Len(packages)
  BY DEF ExaminePackage, ReadsPackages
<1>2. CASE Throw
  BY <1>2 DEF Throw, Erasing
<1>3. CASE ~Throw
  <2>1. /\ unmet' = {r \in unmet : ~Erased(id, r)} /\ package' = package + 1
        /\ UNCHANGED <<options, installed, pc, current>> /\ UNCHANGED rigid
    BY <1>3 DEF ExaminePackage, rigid
  <2>2. /\ S!Requirements' = S!Requirements
        /\ \A r, x : S!Meets(r, x)' <=> S!Meets(r, x)
    BY <2>1, RigidFrame
  <2>3. NoCompetition(current)' <=> NoCompetition(current)
    BY <2>1, <2>2 DEF NoCompetition
  <2>4. package \in 1..Len(packages) /\ package \in DOMAIN packages
    <3>1. current \in Candidates
      BY <1>1 DEF IInv, LookedAtOnce, Candidates
    <3>2. packages \in Seq(Ids \cup {BadId}) /\ Len(packages) \in Nat
      BY <3>1, Answers DEF IInv, Attributes
    <3>3. package \in 1..Len(packages)
      BY <1>1, <3>2 DEF IInv, Examining
    <3> QED
      BY <3>2, <3>3
  <2>5. unmet \subseteq S!Requirements
    BY DEF IInv, TypeOK
  <2>6. \A p \in 1..(package' - 1) : p = package \/ p \in 1..(package - 1)
    BY <2>1, <2>4
  <2> HIDE DEF packages, id
  <2>7. ASSUME NoCompetition(current), NEW r \in S!Requirements, S!Meets(r, id) PROVE r \notin unmet'
    <3>1. \A s \in S!Requirements : S!Meets(s, id) => s = r
      BY <2>4, <2>7 DEF NoCompetition, packages, id
    <3>2. ~Earlier(r, r)
      <4>1. r[1] # "pattern" \/ r[1] # "literal"
        OBVIOUS
      <4>2. r[2] \in Int
        BY CommandLinesAssumption DEF IInv, TypeOK, S!Requirements, Options
      <4> QED
        BY <4>1, <4>2 DEF Earlier
    <3>3. Erased(id, r)
      BY <2>5, <2>7, <3>1, <3>2 DEF Erased
    <3> QED
      BY <2>1, <3>3
  <2>8. ASSUME unmet' = S!Requirements, NEW r \in S!Requirements, S!Meets(r, id) PROVE FALSE
    <3>1. PICK s \in S!Requirements :
            S!Meets(s, id) /\ \A q \in S!Requirements : Earlier(q, s) => ~S!Meets(q, id)
      BY <2>8, FirstMet DEF IInv
    <3>2. Erased(id, s)
      BY <2>5, <3>1 DEF Erased
    <3> QED
      BY <2>1, <2>8, <3>1, <3>2
  <2>9. unmet' = S!Requirements => unmet = S!Requirements
    BY <2>1, <2>5
  <2>10. \A r : r \in unmet' => r \in unmet
    BY <2>1
  <2>11. ASSUME NoCompetition(current), NEW p \in 1..(package' - 1), NEW r \in S!Requirements,
                S!Meets(r, packages[p])
         PROVE  r \notin unmet'
    <3>1. CASE p = package
      BY <2>7, <2>11, <3>1 DEF id
    <3>2. CASE p \in 1..(package - 1)
      BY <1>1, <2>10, <2>11, <3>2 DEF Erasing, packages
    <3> QED
      BY <2>6, <3>1, <3>2
  <2>12. ASSUME unmet' = S!Requirements, NEW p \in 1..(package' - 1), NEW r \in S!Requirements,
                S!Meets(r, packages[p])
         PROVE  FALSE
    <3>1. CASE p = package
      BY <2>8, <2>12, <3>1 DEF id
    <3>2. CASE p \in 1..(package - 1)
      BY <1>1, <2>9, <2>12, <3>2 DEF Erasing, packages
    <3> QED
      BY <2>6, <3>1, <3>2
  <2>13. \A p, r : S!Meets(r, installed[current].packages[p])' <=> S!Meets(r, packages[p])
    BY <2>1, <2>2 DEF packages
  <2> QED
    BY <2>2, <2>3, <2>11, <2>12, <2>13 DEF Erasing
<1> QED
  BY <1>2, <1>3

\* So does every other one: the copies of the requirements are made anew for each
\* instance, and only the loop erases in them.
LEMMA NextErases == ASSUME IInv, Erasing, [Next]_vars PROVE Erasing'
<1>1. CASE ExaminePackage
  BY <1>1, ExaminePackageErases
<1>2. CASE pc' # "workload"
  BY <1>2 DEF Erasing
<1>3. CASE pc' = "workload" /\ Match
  <2>1. package' = 1
    BY <1>3 DEF Match, Reject, Throw
  <2> QED
    BY <2>1 DEF Erasing
<1>4. CASE UNCHANGED vars
  <2>1. UNCHANGED <<options, installed, pc, current, package, unmet>> /\ UNCHANGED rigid
    BY <1>4 DEF vars, rigid, match
  <2>2. /\ S!Requirements' = S!Requirements
        /\ \A r, x : S!Meets(r, x)' <=> S!Meets(r, x)
    BY <2>1, RigidFrame
  <2>3. NoCompetition(current)' <=> NoCompetition(current)
    BY <2>1, <2>2 DEF NoCompetition
  <2> QED
    BY <2>1, <2>2, <2>3 DEF Erasing
<1>5. ASSUME pc' = "workload", ~Match, ~ExaminePackage PROVE UNCHANGED vars
  BY <1>5
  DEF Next, Step, Done, Construct, Throw, Fetch, EndEnumeration, MatchOld, Accept, Reject,
      NoWorkload, EndPackages, ReadsPackages, TryLegacy, EndLegacy, Order, Return, Insert, Shift,
      EndSort
<1> QED
  BY <1>1, <1>2, <1>3, <1>4, <1>5

\* Being acceptable depends on the command line and the machine only.
LEMMA AcceptableFrame ==
  ASSUME UNCHANGED rigid PROVE \A i : Acceptable(i)' <=> Acceptable(i)
<1>1. options' = options /\ installed' = installed
  BY DEF rigid
<1>2. /\ S!Requirements' = S!Requirements
      /\ \A r, id : S!Meets(r, id)' <=> S!Meets(r, id)
      /\ \A i : S!Satisfies(i)' <=> S!Satisfies(i)
  BY RigidFrame
<1>3. \A i : NoCompetition(i)' <=> NoCompetition(i)
  BY <1>1, <1>2 DEF NoCompetition
<1> QED
  BY <1>1, <1>2, <1>3 DEF Acceptable

\* A step that decides on nothing.
LEMMA Undecided ==
  ASSUME NothingLostInMatching, UNCHANGED rigid, matched \subseteq matched',
         Decided' \subseteq Decided
  PROVE  NothingLostInMatching'
BY AcceptableFrame DEF NothingLostInMatching

\* A step that decides on the current instance alone.
LEMMA DecidesOn ==
  ASSUME NothingLostInMatching, UNCHANGED <<rigid, pending, current>>, matched \subseteq matched',
         Acceptable(current) => current \in matched'
  PROVE  NothingLostInMatching'
<1>1. Decided' \subseteq Decided \cup {current}
  BY DEF Decided
<1> QED
  BY <1>1, AcceptableFrame DEF NothingLostInMatching

LEMMA ThrowKeeps == ASSUME NothingLostInMatching, Throw PROVE NothingLostInMatching'
<1>1. Decided' \subseteq Decided
  BY DEF Throw, match, Decided
<1> QED
  BY <1>1, Undecided DEF Throw

LEMMA AcceptKeeps == ASSUME NothingLostInMatching, Accept PROVE NothingLostInMatching'
<1>1. matched' = matched \cup {current} /\ UNCHANGED <<rigid, pending, current>>
  BY DEF Accept, Push, match
<1> QED
  BY <1>1, DecidesOn

LEMMA RejectKeeps ==
  ASSUME NothingLostInMatching, Reject, ~Acceptable(current)
  PROVE  NothingLostInMatching'
<1>1. matched' = matched /\ UNCHANGED <<rigid, pending, current>>
  BY DEF Reject, match
<1> QED
  BY <1>1, DecidesOn

\* IsVersionMatch asks for no more than the range that was given.
LEMMA InRangeIsVersionMatch ==
  ASSUME IInv, pc = "match", S!InRange(current)
  PROVE  IsVersionMatch(current)
<1>1. options.range.min \in Nat
  BY CommandLinesAssumption DEF IInv, TypeOK, Options
<1>2. CASE HasVersionRange
  <2>1. /\ helper /\ options.range.given /\ options.range.min > 0
        /\ min = options.range.min /\ max = options.range.max
    BY <1>1, <1>2 DEF IInv, RangeKept, HasVersionRange
  <2>2. /\ installed[current].version # NoVersion
        /\ ParsedVersion[installed[current].version] >= min
        /\ ParsedVersion[installed[current].version] <= max
    BY <2>1 DEF S!InRange
  <2> QED
    BY <1>1, <2>1, <2>2 DEF IsVersionMatch
<1> QED
  BY <1>2 DEF IsVersionMatch

LEMMA MatchKeeps ==
  ASSUME IInv, NothingLostInMatching, MatchOld \/ Match
  PROVE  NothingLostInMatching'
<1>1. pc = "match" /\ current \in Candidates /\ current \notin Legacy
  BY LegacyAssumption DEF MatchOld, Match, IInv, LookedAtOnce, Candidates
<1>2. ~installed[current].legacy
  BY <1>1, Answers DEF IInv
<1>3. CASE Throw \/ Accept
  BY <1>3, ThrowKeeps, AcceptKeeps
<1>4. CASE MatchOld /\ ~Accept
  <2>1. Reject /\ ~Acceptable(current)
    BY <1>2, <1>4 DEF MatchOld, Acceptable, S!Satisfies
  <2> QED
    BY <2>1, RejectKeeps
<1>5. CASE Match /\ Reject
  <2>1. /\ installed[current].isInstance2
        /\ \/ IsHidden(current)
           \/ ~(IsProductMatch(current) /\ IsVersionMatch(current))
    BY <1>1, <1>5 DEF Match, Reject, Throw
  <2>2. S!Satisfies(current) =>
          /\ ~IsHidden(current) /\ IsVersionMatch(current)
          /\ options.products = {} \/ installed[current].product \in options.products
    BY <1>1, <1>2, <2>1, InRangeIsVersionMatch DEF S!Satisfies, IsHidden
  <2>3. ~Acceptable(current)
    BY <2>1, <2>2 DEF Acceptable, IsProductMatch
  <2> QED
    BY <1>5, <2>3, RejectKeeps
<1>6. CASE Match /\ pc' = "workload"
  <2>1. UNCHANGED <<rigid, pending, current, matched>>
    BY <1>6 DEF Match, Reject, Throw
  <2>2. Decided' \subseteq Decided
    BY <1>1, <1>6, <2>1 DEF Decided
  <2> QED
    BY <2>1, <2>2, Undecided
<1> QED
  BY <1>3, <1>4, <1>5, <1>6 DEF Match

\* When all packages were examined a requirement that can be met was met.
LEMMA WorkloadIsMatched ==
  ASSUME IInv, Erasing, ReadsPackages, package > Len(installed[current].packages),
         Acceptable(current)
  PROVE  IsWorkloadMatch
<1> DEFINE packages == installed[current].packages
<1>1. pc = "workload" /\ S!Requirements # {}
  BY DEF ReadsPackages
<1>2. /\ package - 1 = Len(packages) /\ DOMAIN packages = 1..(package - 1)
  <2>1. current \in Candidates
    BY <1>1 DEF IInv, LookedAtOnce, Candidates
  <2>2. packages \in Seq(Ids \cup {BadId})
    BY <2>1, Answers DEF IInv, Attributes
  <2> QED
    BY <1>1, <2>2 DEF IInv, Examining
<1> HIDE DEF packages
<1>3. S!RequirementsMet(current)
  BY <1>1 DEF Acceptable, S!Satisfies, IInv, Examining, PassedSoFar
<1>4. CASE options.requiresAny
  <2>1. \E r \in S!Requirements, p \in DOMAIN packages : S!Meets(r, packages[p])
    BY <1>1, <1>3, <1>4 DEF S!RequirementsMet, packages
  <2>2. unmet # S!Requirements
    BY <1>1, <1>2, <2>1 DEF Erasing, packages
  <2> QED
    BY <1>4, <2>2 DEF IsWorkloadMatch
<1>5. CASE ~options.requiresAny
  <2>1. PICK by \in [S!Requirements -> DOMAIN packages] :
          \A r \in S!Requirements : S!Meets(r, packages[by[r]])
    BY <1>1, <1>3, <1>5 DEF S!RequirementsMet, packages
  <2>2. NoCompetition(current)
    BY <1>5 DEF Acceptable
  <2>3. \A r \in S!Requirements : by[r] \in 1..(package - 1)
    BY <1>2, <2>1
  <2>4. \A r \in S!Requirements : r \notin unmet
    BY <1>1, <2>1, <2>2, <2>3 DEF Erasing, packages
  <2> QED
    BY <1>5, <2>4 DEF IsWorkloadMatch, IInv, TypeOK
<1> QED
  BY <1>4, <1>5

LEMMA WorkloadKeeps ==
  ASSUME IInv, Erasing, NothingLostInMatching, NoWorkload \/ ExaminePackage \/ EndPackages
  PROVE  NothingLostInMatching'
<1>1. CASE Throw \/ Accept
  BY <1>1, ThrowKeeps, AcceptKeeps
<1>2. CASE NoWorkload /\ ~Accept
  <2>1. Reject /\ S!Requirements # {} /\ ~installed[current].hasPackages
    BY <1>2 DEF NoWorkload
  <2> QED
    BY <2>1, RejectKeeps DEF Acceptable
<1>3. CASE ExaminePackage /\ ~Throw
  <2>1. UNCHANGED <<rigid, pc, pending, current, matched>>
    BY <1>3 DEF ExaminePackage
  <2> QED
    BY <2>1, Undecided DEF Decided
<1>4. CASE EndPackages /\ ~Accept
  <2>1. Reject /\ ~Acceptable(current)
    BY <1>4, WorkloadIsMatched DEF EndPackages
  <2> QED
    BY <2>1, RejectKeeps
<1> QED
  BY <1>1, <1>2, <1>3, <1>4

LEMMA NextKeeps ==
  ASSUME IInv, Erasing, NothingLostInMatching, [Next]_vars
  PROVE  NothingLostInMatching'
<1>1. CASE Throw
  BY <1>1, ThrowKeeps
<1>2. CASE \E i \in Instances : Fetch(i)
  <2>1. UNCHANGED <<rigid, matched>> /\ Decided' \subseteq Decided
    BY <1>2 DEF Fetch, Decided, IInv, TypeOK
  <2> QED
    BY <2>1, Undecided
<1>3. CASE MatchOld \/ Match
  BY <1>3, MatchKeeps
<1>4. CASE NoWorkload \/ ExaminePackage \/ EndPackages
  BY <1>4, WorkloadKeeps
<1>5. CASE UNCHANGED vars
  BY <1>5, Undecided DEF vars, match, Decided
<1>6. CASE /\ ~Throw
           /\ \/ Construct \/ EndEnumeration \/ TryLegacy \/ EndLegacy
              \/ Order \/ Insert \/ Shift \/ EndSort
  <2>1. /\ UNCHANGED <<rigid, pending, current>> /\ matched \subseteq matched'
        /\ pc \notin {"match", "workload", "thrown"}
    BY <1>6
    DEF Construct, EndEnumeration, TryLegacy, Push, EndLegacy, Order, Return, Insert, Shift,
        EndSort, match
  <2>2. Decided' \subseteq Decided
    BY <2>1 DEF Decided
  <2> QED
    BY <2>1, <2>2, Undecided
<1> QED
  BY <1>1, <1>2, <1>3, <1>4, <1>5, <1>6 DEF Next, Step, Done

\* IsMatch rejects no instance that satisfies the command line, whatever packages
\* it has and in whatever order, when GetPackages works and either any requirement
\* will do or none competes with another.
THEOREM MatchingLosesNothing == Spec => []NothingLostInMatching
<1>1. Init => Erasing /\ NothingLostInMatching
  BY DEF Init, Erasing, NothingLostInMatching, Decided
<1>2. IInv /\ Erasing /\ NothingLostInMatching /\ [Next]_vars => (Erasing /\ NothingLostInMatching)'
  BY NextErases, NextKeeps
<1> QED
  BY <1>1, <1>2, Invariance, PTL DEF Spec

-----------------------------------------------------------------------------
(* Select implements Selection                                              *)

\* An exception is the failure of Selection.
LEMMA ThrowFails == ASSUME IInv, Throw, pc \notin {"returned", "thrown"} PROVE S!Fail
BY DEF Throw, IInv, Answered, rigid, S!Fail

\* Pushing an instance that satisfies the command line is a match.
LEMMA PushMatches ==
  ASSUME IInv, NEW i \in Candidates, Push(i), i \notin matched, S!Satisfies(i),
         UNCHANGED <<rigid, answer>>, pc \notin {"returned", "thrown"}
  PROVE  S!Match(i)
BY DEF Push, IInv, Answered, rigid, S!Match

LEMMA AcceptMatches ==
  ASSUME IInv, IInv', Accept, pc \in {"match", "workload"}
  PROVE  S!Match(current)
<1>1. Push(current) /\ UNCHANGED <<rigid, answer>>
  BY DEF Accept
<1>2. current \in Candidates /\ current \notin matched
  BY DEF IInv, LookedAtOnce, Candidates
<1>3. S!Satisfies(current)
  <2>1. current \in matched' /\ UNCHANGED current
    BY <1>1 DEF Accept, Push, match
  <2>2. \A i \in matched' : S!Satisfies(i)
    <3>1. \A i \in matched' : S!Satisfies(i)'
      BY DEF IInv, AllSatisfy
    <3> QED
      BY <1>1, <3>1, RigidFrame
  <2> QED
    BY <2>1, <2>2
<1> QED
  BY <1>1, <1>2, <1>3, PushMatches

\* Selection may list a vector that was not sorted, or that has one element or none.
LEMMA MayListUnsorted ==
  ASSUME IInv, NEW v \in Seq(Candidates), S!IsListOf(v, matched), ~S!Sorted \/ Len(v) <= 1
  PROVE  S!MayList(v, matched) /\ (S!Sorted => S!Consistent(matched)) /\ v \in Seq(matched)
<1>1. Len(v) \in Nat /\ DOMAIN v = 1..Len(v)
  OBVIOUS
<1>2. v \in Seq(matched)
  BY <1>1 DEF S!IsListOf
<1>3. CASE ~S!Sorted
  BY <1>2, <1>3 DEF S!Sorted, S!MayList
<1>4. CASE Len(v) = 0
  <2>1. matched = {} /\ v = <<>>
    BY <1>1, <1>4 DEF S!IsListOf
  <2> QED
    BY <1>2, <1>4, <2>1 DEF S!MayList, S!Consistent, S!IsListOf, S!NewestFirst
<1>5. CASE Len(v) = 1
  <2>1. v = <<v[1]>> /\ v[1] \in matched /\ \A i \in matched : i = v[1]
    BY <1>1, <1>5 DEF S!IsListOf
  <2>2. v[1] \in Candidates
    BY <2>1 DEF IInv, TypeOK
  <2>3. \A i \in matched : ~S!Newer(i, v[1])
    BY <2>1, <2>2, NewerIsOrder DEF IInv
  <2>4. S!Consistent(matched)
    BY <2>1 DEF S!Consistent
  <2>5. S!NewestFirst(v)
    BY <1>1, <1>5 DEF S!NewestFirst
  <2> QED
    BY <1>2, <2>1, <2>3, <2>4, <2>5 DEF S!MayList
<1> QED
  BY <1>1, <1>3, <1>4, <1>5

\* Selection may list the vector that std::sort leaves, or its first element.
LEMMA MayListSorted ==
  ASSUME IInv, NEW v \in Seq(Candidates), S!IsListOf(v, matched), S!Sorted, Len(v) >= 1,
         \A j, k \in 1..Len(v) : j < k => ~S!Newer(v[k], v[j]) /\ ~S!SameInstall(v[j], v[k])
  PROVE  LET list == IF options.latest THEN Front(v) ELSE v
         IN  S!MayList(list, matched) /\ S!Consistent(matched) /\ list \in Seq(matched)
<1>1. Len(v) \in Nat /\ DOMAIN v = 1..Len(v) /\ 1 \in DOMAIN v
  OBVIOUS
<1>2. /\ v \in Seq(matched) /\ Front(v) = <<v[1]>> /\ v[1] \in matched
      /\ \A i \in matched : \E k \in 1..Len(v) : v[k] = i
  BY <1>1 DEF S!IsListOf, Front
<1>3. S!Consistent(matched)
  <2> SUFFICES ASSUME NEW a \in matched, NEW b \in matched, S!SameInstall(a, b), a # b PROVE FALSE
    BY DEF S!Consistent
  <2>1. PICK j \in 1..Len(v), k \in 1..Len(v) : v[j] = a /\ v[k] = b
    BY <1>2
  <2>2. a \in Candidates /\ b \in Candidates /\ S!SameInstall(b, a)
    BY SameInstallIsEqual DEF IInv, TypeOK
  <2>3. j < k \/ k < j
    BY <2>1
  <2> QED
    BY <2>1, <2>2, <2>3
<1>4. S!NewestFirst(v)
  BY <1>1 DEF S!NewestFirst
<1>5. \A i \in matched : ~S!Newer(i, v[1])
  <2> TAKE i \in matched
  <2>1. PICK k \in 1..Len(v) : v[k] = i
    BY <1>2
  <2>2. i \in Candidates
    BY DEF IInv, TypeOK
  <2> QED
    BY <1>1, <2>1, <2>2, NewerIsOrder DEF IInv
<1>6. matched # {} /\ Front(v) \in Seq(matched)
  BY <1>2
<1> QED
  BY <1>2, <1>3, <1>4, <1>5, <1>6 DEF S!MayList, S!Sorted

\* Returning a list that Selection may list.
LEMMA ReturnLists ==
  ASSUME IInv, NEW list, Return(list), pc \in {"order", "insert"}, list \in Seq(matched),
         S!MayList(list, matched), S!Sorted => S!Consistent(matched)
  PROVE  S!List
<1>1. answer = S!Open
  BY DEF IInv, Answered
<1>2. answer' = [outcome |-> "listed", list |-> list] /\ answer'.list = list
  BY DEF Return
<1>3. UNCHANGED <<options, helper, installed, matched>>
  BY DEF Return, rigid
<1> QED
  BY <1>1, <1>2, <1>3 DEF S!List

\* Steps that Selection does not see.
LEMMA Stutter ==
  ASSUME UNCHANGED <<rigid, matched, answer>> PROVE UNCHANGED S!vars
BY DEF rigid, S!vars

\* Every step of Select is a step of Selection, or none.
LEMMA StepSimulation == IInv /\ IInv' /\ [Next]_vars => [S!Next]_(S!vars)
<1> SUFFICES ASSUME IInv, IInv', [Next]_vars PROVE [S!Next]_(S!vars)
  OBVIOUS
<1>1. CASE Throw /\ pc \notin {"returned", "thrown"}
  BY <1>1, ThrowFails DEF S!Next
<1>2. CASE Accept /\ pc \in {"match", "workload"}
  <2>1. current \in Candidates
    BY <1>2 DEF IInv, LookedAtOnce, Candidates
  <2> QED
    BY <1>2, <2>1, AcceptMatches DEF S!Next
<1>3. CASE UNCHANGED <<rigid, matched, answer>>
  BY <1>3, Stutter
<1>4. CASE Construct \/ (\E i \in Instances : Fetch(i)) \/ EndEnumeration \/ EndLegacy
  BY <1>1, <1>3, <1>4 DEF Construct, Fetch, EndEnumeration, EndLegacy
<1>5. CASE MatchOld \/ Match
  BY <1>1, <1>2, <1>3, <1>5 DEF MatchOld, Match, Reject
<1>6. CASE NoWorkload \/ ExaminePackage \/ EndPackages
  BY <1>1, <1>2, <1>3, <1>6 DEF NoWorkload, ExaminePackage, EndPackages, ReadsPackages, Reject
<1>7. CASE TryLegacy
  <2> DEFINE i == LegacyVersions[tried + 1]
  <2>1. pc = "legacy" /\ tried < Len(LegacyVersions)
    BY <1>7 DEF TryLegacy
  <2>2. CASE IsVersionMatch(i) /\ Push(i) /\ UNCHANGED <<rigid, answer>>
    <3>1. tried + 1 \in DOMAIN LegacyVersions /\ ~(tried + 1 <= tried)
      BY <2>1, LegacyAssumption DEF IInv, TypeOK
    <3>2. i \in Candidates /\ i \notin matched
      BY <3>1 DEF Candidates, Legacy, IInv, LookedAtOnce
    <3>3. S!Satisfies(i)
      <4>1. i \in matched'
        BY <2>2 DEF Push
      <4>2. \A c \in matched' : S!Satisfies(c)'
        BY DEF IInv, AllSatisfy
      <4> QED
        BY <2>2, <4>1, <4>2, RigidFrame
    <3> HIDE DEF i
    <3>4. S!Match(i)
      BY <2>1, <2>2, <3>2, <3>3, PushMatches
    <3> QED
      BY <3>2, <3>4 DEF S!Next
  <2> QED
    BY <1>1, <1>3, <1>7, <2>1, <2>2 DEF TryLegacy
<1>8. CASE Order
  <2>1. pc = "order" /\ instances \in Seq(Candidates) /\ S!IsListOf(instances, matched)
    BY <1>8 DEF Order, IInv, TypeOK, NoInstanceLost, Filled
  <2>2. CASE (~S!Sorted \/ Len(instances) <= 1) /\ Return(instances)
    <3>1. S!List
      BY <2>1, <2>2, MayListUnsorted, ReturnLists
    <3> QED
      BY <3>1 DEF S!Next
  <2> QED
    BY <1>3, <1>8, <2>2 DEF Order
<1>9. CASE Insert \/ Shift
  BY <1>1, <1>3, <1>9 DEF Insert, Shift
<1>10. CASE EndSort
  <2> DEFINE list == IF options.latest THEN Front(instances) ELSE instances
  <2>1. pc = "insert" /\ mid > Len(instances) /\ Return(list)
    BY <1>10 DEF EndSort
  <2>2. instances \in Seq(Candidates) /\ S!IsListOf(instances, matched)
    BY <2>1 DEF IInv, TypeOK, NoInstanceLost, Filled
  <2>3. S!Sorted /\ mid = Len(instances) + 1 /\ Len(instances) >= 1
    BY <2>1, <2>2 DEF IInv, Sorting
  <2>4. Placed = 1..Len(instances)
    BY <2>1, <2>2, <2>3 DEF Placed
  <2>5. \A j, k \in 1..Len(instances) : j < k =>
          ~S!Newer(instances[k], instances[j]) /\ ~S!SameInstall(instances[j], instances[k])
    BY <2>1, <2>4 DEF IInv, Sorting
  <2>6. S!MayList(list, matched) /\ S!Consistent(matched) /\ list \in Seq(matched)
    BY <2>2, <2>3, <2>5, MayListSorted
  <2> HIDE DEF list
  <2>7. S!List
    BY <2>1, <2>6, ReturnLists
  <2> QED
    BY <2>7 DEF S!Next
<1>11. CASE UNCHANGED vars
  BY <1>3, <1>11 DEF vars
<1> QED
  BY <1>4, <1>5, <1>6, <1>7, <1>8, <1>9, <1>10, <1>11 DEF Next, Step, Done

\* For every machine, command line and number of instances: what Select lists
\* satisfies the command line and was installed, sorted lists are newest first,
\* -latest gives an instance no other is newer than, and two installs of one
\* version at one time are never listed in some order.
THEOREM SelectImplementsSelection == Spec => Implements
<1>1. Init => S!Init
  BY DEF Init, S!Init
<1>2. IInv /\ IInv' /\ [Next]_vars => [S!Next]_(S!vars)
  BY StepSimulation
<1> QED
  BY <1>1, <1>2, Invariance, PTL DEF Spec, S!Spec, Implements
=============================================================================
