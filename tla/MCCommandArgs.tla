--------------------------- MODULE MCCommandArgs ---------------------------
(***************************************************************************)
(* CommandArgs on every command line of up to three options out of a pool  *)
(* that has each kind of option, right and wrong.                          *)
(***************************************************************************)
EXTENDS CommandArgs

CONSTANTS a, b, star, pattern, broken, json, value, packages

\* A parameter with its arguments.
Option(name, texts) == <<Parameter(name)>> \o [k \in DOMAIN texts |-> Argument(texts[k])]

Pool ==
  {Option(name, <<>>) : name \in {"all", "requiresAny", "legacy", "nologo", UnknownName}}
  \cup {Option("products", s) : s \in {<<>>, <<a>>, <<b, star>>}}
  \cup {Option("requires", s) : s \in {<<a, pattern>>, <<pattern>>, <<a, broken>>}}
  \cup {Option("version", s) : s \in {<<>>, <<a>>, <<a, b>>}}
  \cup {Option("path", <<a>>)}
  \cup {Option("format", <<f>>) : f \in {a, json}}
  \cup {Option("property", <<a>>), Option("find", <<pattern>>)}
  \cup {Option("include", s) : s \in {<<packages>>, <<packages, a>>, <<a>>}}
  \cup {<<Argument(a)>>, <<EmptyWord>>}

MCCommandLines == {x \o y \o z : x \in Pool \cup {<<>>}, y \in Pool \cup {<<>>}, z \in Pool}
=============================================================================
