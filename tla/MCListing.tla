----------------------------- MODULE MCListing -----------------------------
(***************************************************************************)
(* Listing for two versions, with a short and a long path and data of      *)
(* another type of each of two sizes; and instances of the setup service   *)
(* each method of which may answer, fail, or succeed with nothing where    *)
(* the code looks for that.                                                *)
(***************************************************************************)
EXTENDS Listing, TLC

CONSTANTS a, letterN, quote, backslash, newLine, prefix, null, failure, today, never, broken

Text(c) == <<c>>
Path == <<a, backslash>>
LongPath == <<a, backslash, letterN, quote>>

MCCharacters == {a, letterN, quote, backslash, newLine}
MCVersions == <<Text(a), Text(letterN)>>
MCStrings == {Path, LongPath}
MCOthers == {Text(newLine), <<a, a, a, a, a>>}
MCSize == (Path :> 2) @@ (LongPath :> 4) @@ (Text(newLine) :> 2) @@ (<<a, a, a, a, a>> :> 5)
MCDateText == (today :> Text(a)) @@ (never :> <<>>) @@ (broken :> failure)

TextsUpTo(size) == UNION {[1..length -> MCCharacters] : length \in 0..size}

Plain(text) ==
  [method \in V!Methods |-> IF method \in V!TextMethods THEN text ELSE failure]

Stores ==
  {<<[name |-> "x", value |-> V!Variant("BSTR", Path, 0)],
     [name |-> "y", value |-> V!Variant("I8", 1, 1)]>>,
   <<[name |-> "x", value |-> V!Variant("I4", 7, 7)], [name |-> "y", value |-> V!Variant("UI8", 1, 0)],
     [name |-> "z", value |-> V!Variant("BOOL", 1, 0)]>>}
  \cup {<<[name |-> "x", value |-> V!Variant("BSTR", text, 0)]>> : text \in TextsUpTo(3) \cup {null}}

Instance(two, catalog, answer, store) ==
  [isInstance2 |-> two, isCatalog |-> catalog, isLegacy |-> FALSE, answer |-> answer, store |-> store]

MCInstances ==
  {Instance(FALSE, FALSE, Plain(Path), store) : store \in Stores}
  \cup {Instance(FALSE, FALSE, Plain(text), <<>>) : text \in {null, failure}}
  \cup {Instance(two, catalog,
          [Plain(Text(a)) EXCEPT
             !["GetInstallDate"] = date, !["GetProduct"] = product, !["GetProductId"] = Path,
             !["GetProductPath"] = path, !["ResolvePath"] = LongPath, !["GetState"] = state,
             !["IsComplete"] = flag, !["IsLaunchable"] = V!True, !["IsPrerelease"] = flag],
          <<>>) :
          two \in BOOLEAN, catalog \in BOOLEAN, date \in {today, never, broken, failure},
          product \in {a, null, failure}, path \in {a, null, failure},
          state \in {0, 4, 7, failure}, flag \in {V!True, 0, 1, failure}}
=============================================================================
