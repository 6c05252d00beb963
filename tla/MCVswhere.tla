----------------------------- MODULE MCVswhere -----------------------------
(***************************************************************************)
(* Vswhere with two instances of the setup service and a legacy one, for   *)
(* every command line of up to two options out of a pool and for some of   *)
(* three.                                                                  *)
(***************************************************************************)
EXTENDS Vswhere, TLC

CONSTANTS i1, i2, legacy14

Option(name, texts) ==
  <<[kind |-> "parameter", value |-> name]>>
    \o [j \in DOMAIN texts |-> [kind |-> "argument", value |-> texts[j]]]
Pool ==
  {Option(name, <<>>) :
     name \in {"help", "nologo", "unknown", "all", "prerelease", "legacy", "latest", "sort"}}
  \cup {Option("format", <<f>>) : f \in {"json", "name"}}
  \cup {Option("version", <<v>>) : v \in {"[1,2]", "[2,1]"}}
  \cup {Option("find", <<f>>) : f \in {"name", "***"}}
  \cup {Option("products", <<p>>) : p \in {"buildtools", "*"}}
  \cup {Option("requires", <<r>>) : r \in {"*", "["}}
  \cup {Option("path", <<"name">>), Option("property", <<"name">>)}

MCArguments == {"name", "buildtools", "json", "text", "value", "packages", "*", "[", "***",
                "[1,2]", "[2,1]"}
MCCommandLines ==
  {x \o y : x \in Pool \cup {<<>>}, y \in Pool \cup {<<>>}}
  \cup {Option("all", <<>>) \o Option(name, <<>>) \o z :
          name \in {"latest", "prerelease", "legacy"},
          z \in {Option("products", <<"*">>), Option("latest", <<>>), Option("property", <<"name">>)}}

NoRange == [given |-> FALSE, valid |-> FALSE, min |-> 0, max |-> 0]
MCRangeOf ==
  [v \in MCArguments \cup {None} |->
     CASE v = None -> NoRange
       [] v = "[1,2]" -> [given |-> TRUE, valid |-> TRUE, min |-> 1, max |-> 2]
       [] OTHER -> [NoRange EXCEPT !.given = TRUE]]
MCIds == MCArguments \cup {"community"}
MCPatternOf == [v \in MCArguments |-> IF v \in {"*", "["} THEN {"community", "buildtools"} ELSE {v}]
MCVersionTexts == {"1", "2", "3"}
MCParsedVersion == ("1" :> 1) @@ ("2" :> 2) @@ ("3" :> 3)
MCLegacyVersions == <<legacy14>>
MCNames == MCArguments \cup {"path"}
MCObjectOf == [name \in MCNames |-> None]
MCBuiltin == <<"name", "path">>

Attributes(version, prerelease, product) ==
  [legacy |-> FALSE, isInstance2 |-> TRUE, prerelease |-> prerelease, product |-> product,
   version |-> version, date |-> 1, hasPackages |-> TRUE, packages |-> <<>>]
Answers ==
  [unreadable |-> {}, throwing |-> {}, noInterface |-> FALSE,
   own |-> NoStore, catalog |-> <<"name">>, properties |-> NoStore,
   packages |-> <<>>, files |-> <<"path">>]
Plain == [attributes |-> Attributes("2", FALSE, "community"), answers |-> Answers, complete |-> TRUE]
Legacy14 ==
  [attributes |-> [Plain.attributes EXCEPT !.legacy = TRUE, !.isInstance2 = FALSE, !.version = "1",
                     !.product = NoProduct, !.date = -1, !.hasPackages = FALSE],
   answers |-> [Answers EXCEPT !.unreadable = {"name"}, !.catalog = NoStore],
   complete |-> TRUE]

Kinds ==
  {Plain,
   [Plain EXCEPT !.attributes.prerelease = TRUE, !.attributes.packages = <<"buildtools">>,
                 !.complete = FALSE],
   [Plain EXCEPT !.attributes.version = "3", !.complete = FALSE, !.answers.noInterface = TRUE],
   [Plain EXCEPT !.attributes.product = "buildtools", !.answers.unreadable = {"path"},
                 !.answers.files = NoStore]}
MCMachines ==
  {(i1 :> one) @@ (i2 :> other) @@ (legacy14 :> Legacy14) : one, other \in Kinds}
=============================================================================
