----------------------------- MODULE Selection ------------------------------
(***************************************************************************)
(* What InstanceSelector::Select promises, without saying how: it collects *)
(* instances that satisfy the command line, then lists them, newest first  *)
(* when asked to, or only the newest, or it fails and lists nothing.       *)
(* InstanceSelector implements this specification.                         *)
(***************************************************************************)
EXTENDS Integers, Sequences

CONSTANTS
  Candidates,      \* every instance there may be, legacy ones included
  VersionTexts,    \* the texts an instance may give as its version
  ParsedVersion,   \* the number ISetupHelper::ParseVersion reads in a text, or -1
  TextOrder,       \* the place of a text in the order of ci_less
  NoVersion        \* GetInstallationVersion fails

VARIABLES
  options,     \* the command line, as CommandArgs leaves it; never changes
  helper,      \* an ISetupHelper is available; never changes
  installed,   \* what each candidate answers; never changes
  matched,     \* the instances found to satisfy the command line
  answer       \* what Select returns

\* A date is a number, or -1 when GetInstallDate fails.
Open       == [outcome |-> "open",   list |-> <<>>]
Failed     == [outcome |-> "failed", list |-> <<>>]

-----------------------------------------------------------------------------
(* Newer: by version, and by install date among equal versions.            *)

Grade(i) ==
  IF installed[i].version = NoVersion THEN 0
  ELSE IF helper /\ ParsedVersion[installed[i].version] = -1 THEN 1
  ELSE 2

VersionKey(i) ==
  IF Grade(i) < 2 THEN 0
  ELSE IF helper THEN ParsedVersion[installed[i].version]
  ELSE TextOrder[installed[i].version]

\* Without the helper only the texts are compared.
DateKey(i) == IF Grade(i) = 2 /\ helper THEN installed[i].date + 1 ELSE 0

Newer(i, j) ==
  \/ Grade(i) > Grade(j)
  \/ Grade(i) = Grade(j) /\ VersionKey(i) > VersionKey(j)
  \/ Grade(i) = Grade(j) /\ VersionKey(i) = VersionKey(j) /\ DateKey(i) > DateKey(j)

\* Two installs of one version at one time: an inconsistency of the machine.
SameInstall(i, j) ==
  /\ Grade(i) = 2 /\ Grade(j) = 2
  /\ VersionKey(i) = VersionKey(j)
  /\ DateKey(i) = DateKey(j) /\ DateKey(i) > 0

-----------------------------------------------------------------------------
(* Satisfying the command line                                              *)

Requirements == ({"literal"} \X (1..Len(options.requires)))
           \cup ({"pattern"} \X (1..Len(options.requiresPattern)))

Meets(r, id) == IF r[1] = "literal" THEN options.requires[r[2]] = id
                                    ELSE id \in options.requiresPattern[r[2]]

\* All requirements by packages of their own, or any one with -requiresAny.
RequirementsMet(i) ==
  LET packages == installed[i].packages
  IN  \/ Requirements = {}
      \/ /\ options.requiresAny
         /\ \E r \in Requirements, p \in DOMAIN packages : Meets(r, packages[p])
      \/ /\ ~options.requiresAny
         /\ \E by \in [Requirements -> DOMAIN packages] :
              /\ \A r \in Requirements : Meets(r, packages[by[r]])
              /\ \A r, s \in Requirements : by[r] = by[s] => r = s

InRange(i) ==
  (helper /\ options.range.given /\ options.range.min > 0) =>
    /\ installed[i].version # NoVersion
    /\ ParsedVersion[installed[i].version] >= options.range.min
    /\ ParsedVersion[installed[i].version] <= options.range.max

\* An instance older than ISetupInstance2 is taken when no package is named;
\* a legacy one when its version is in the range.
Satisfies(i) ==
  IF installed[i].legacy THEN options.legacy /\ InRange(i)
  ELSE IF ~installed[i].isInstance2 THEN options.requires = <<>>
  ELSE /\ installed[i].prerelease => options.prerelease
       /\ options.products = {} \/ installed[i].product \in options.products
       /\ InRange(i)
       /\ RequirementsMet(i)

-----------------------------------------------------------------------------
Sorted == options.latest \/ options.sort

IsListOf(s, S) ==
  /\ \A i \in S : \E k \in DOMAIN s : s[k] = i
  /\ \A k \in DOMAIN s : s[k] \in S
  /\ \A j, k \in DOMAIN s : s[j] = s[k] => j = k

NewestFirst(s) == \A j, k \in DOMAIN s : j < k => ~Newer(s[k], s[j])

\* A list of the instances in S that Select may return.
MayList(s, S) ==
  IF options.latest
    THEN IF S = {} THEN s = <<>>
         ELSE \E i \in S : s = <<i>> /\ \A j \in S : ~Newer(j, i)
    ELSE IsListOf(s, S) /\ (options.sort => NewestFirst(s))

Consistent(S) == \A i, j \in S : SameInstall(i, j) => i = j

Init ==
  /\ matched = {}
  /\ answer = Open

Match(i) ==
  /\ answer = Open
  /\ i \notin matched
  /\ Satisfies(i)
  /\ matched' = matched \cup {i}
  /\ UNCHANGED <<options, helper, installed, answer>>

\* A sorted list is only given when no two of the instances are one install.
List ==
  /\ answer = Open
  /\ Sorted => Consistent(matched)
  /\ answer' \in [outcome : {"listed"}, list : Seq(matched)]
  /\ MayList(answer'.list, matched)
  /\ UNCHANGED <<options, helper, installed, matched>>

Fail ==
  /\ answer = Open
  /\ answer' = Failed
  /\ UNCHANGED <<options, helper, installed, matched>>

Next ==
  \/ \E i \in Candidates : Match(i)
  \/ List
  \/ Fail

vars == <<options, helper, installed, matched, answer>>

Spec == Init /\ [][Next]_vars
=============================================================================
