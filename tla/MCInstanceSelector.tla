------------------------- MODULE MCInstanceSelector -------------------------
(***************************************************************************)
(* InstanceSelector on small machines.  Two families: machines whose       *)
(* instances differ in version and date, for the order of the list, and    *)
(* machines whose instances differ in what IsMatch looks at.               *)
(***************************************************************************)
EXTENDS InstanceSelector

CONSTANTS i1, i2, i3, legacy12, legacy10

MCVersionTexts == {"9", "10", "preview"}
MCParsedVersion == [t \in MCVersionTexts |-> CASE t = "9" -> 9 [] t = "10" -> 10 [] t = "preview" -> -1]
\* Letter by letter "10" comes before "9".
MCTextOrder == [t \in MCVersionTexts |-> CASE t = "10" -> 1 [] t = "9" -> 2 [] t = "preview" -> 3]
MCIds == {"Editor", "Workload", "WorkloadX"}

Instance2 == [legacy |-> FALSE, isInstance2 |-> TRUE, prerelease |-> FALSE,
              product |-> "Editor", version |-> "9", date |-> 1,
              hasPackages |-> TRUE, packages |-> <<>>]
LegacyInstance(v) == [Instance2 EXCEPT !.legacy = TRUE, !.isInstance2 = FALSE,
                        !.product = NoProduct, !.version = v, !.date = -1,
                        !.hasPackages = FALSE]
NoOptions == [prerelease |-> FALSE, products |-> {}, requires |-> <<>>,
              requiresPattern |-> <<>>, requiresAny |-> FALSE,
              legacy |-> FALSE, latest |-> FALSE, sort |-> FALSE,
              range |-> [given |-> FALSE, valid |-> FALSE, min |-> 0, max |-> 0]]
NoRange     == NoOptions.range
BadRange    == [given |-> TRUE, valid |-> FALSE, min |-> 0, max |-> 0]
Range(a, b) == [given |-> TRUE, valid |-> TRUE, min |-> a, max |-> b]

OneLegacy == <<legacy12>>
TwoLegacy == <<legacy12, legacy10>>
MachinesOf(kinds, legacyVersions) ==
  {m \in [Candidates -> kinds \cup {LegacyInstance(v) : v \in legacyVersions}] :
     \A i \in Candidates : IF i \in Legacy THEN m[i].legacy ELSE m[i] \in kinds}

-----------------------------------------------------------------------------
(* The order of the list                                                    *)

Versioned == {[Instance2 EXCEPT !.date = d] : d \in {-1, 1, 2}}
        \cup {[Instance2 EXCEPT !.version = v] : v \in {"10", NoVersion, "preview"}}

OrderMachines == MachinesOf(Versioned, {"10"})
OrderOptions ==
  {[NoOptions EXCEPT !.sort = s, !.latest = l, !.legacy = TRUE] :
     s \in BOOLEAN, l \in BOOLEAN}

-----------------------------------------------------------------------------
(* Matching                                                                 *)

Packages == {<<>>, <<"Workload">>, <<"WorkloadX", "Workload">>, <<"Workload", "WorkloadX">>,
             <<"Editor", "WorkloadX">>, <<"Workload", BadId>>}
Old == [Instance2 EXCEPT !.isInstance2 = FALSE]
Matching ==
  {[Instance2 EXCEPT !.packages = p, !.prerelease = b] : p \in Packages, b \in BOOLEAN}
  \cup {[Instance2 EXCEPT !.product = p] : p \in {NoProduct, EmptyId, BadId, "Workload"}}
  \cup {[Instance2 EXCEPT !.version = v] : v \in {NoVersion, "10", "preview"}}
  \cup {[Instance2 EXCEPT !.hasPackages = FALSE],
        Old}

\* The others are old instances, of which IsMatch looks at nothing.
MatchMachines ==
  {[i \in Candidates |->
      CASE i = i1 -> kind
        [] i = legacy12 -> LegacyInstance(v)
        [] i = legacy10 -> LegacyInstance(w)
        [] OTHER -> Old] : kind \in Matching, v \in {"9", "10"}, w \in {"9", "10"}}
MatchOptions ==
  {[NoOptions EXCEPT !.requires = q, !.requiresPattern = p, !.requiresAny = a] :
     q \in {<<>>, <<"Workload">>, <<"Editor", "Workload">>},
     p \in {<<>>, <<{"Workload", "WorkloadX"}>>, <<{"Workload", "WorkloadX"}, {"WorkloadX"}>>},
     a \in BOOLEAN}
  \cup {[NoOptions EXCEPT !.products = p, !.prerelease = b, !.legacy = TRUE, !.range = v] :
          p \in {{}, {"Editor"}}, b \in BOOLEAN,
          v \in {NoRange, BadRange, Range(0, 9), Range(9, 9), Range(10, 20)}}

-----------------------------------------------------------------------------
(* Both: machines of the one family are not met by options of the other.    *)

MCMachineStates == OrderMachines \cup MatchMachines
MCCommandLines == OrderOptions \cup MatchOptions

MCInit ==
  /\ Init
  /\ \/ options \in OrderOptions /\ installed \in OrderMachines
     \/ options \in MatchOptions /\ installed \in MatchMachines

MCSpec == MCInit /\ [][Next]_vars /\ WF_vars(Step)
=============================================================================
