-------------------------- MODULE CommandArgsProofs --------------------------
(***************************************************************************)
(* Proofs about CommandArgs, for every command line of any words: types,   *)
(* options that exclude each other, that an accepted line means what its   *)
(* words mean in any order, and that exactly the well-formed lines are     *)
(* accepted.                                                               *)
(***************************************************************************)
EXTENDS CommandArgs, SequenceLemmas, FiniteSetTheorems

-----------------------------------------------------------------------------
(* Options that exclude each other                                          *)

\* What Parse keeps while it reads: the members there are, that -property and -find
\* are not both there, and that hasSelection is set by every option that selects.
Reading ==
  /\ DOMAIN args = DOMAIN Defaults
  /\ args.property = None \/ args.find = None
  /\ Selects(args) => hasSelection

\* With it Exclusive is inductive.
IInv == Reading /\ Exclusive

-----------------------------------------------------------------------------
\* Initially no option was read.
LEMMA InitIInv == Init => IInv
<1> SUFFICES ASSUME Init PROVE IInv
  OBVIOUS
<1>1. args = Defaults /\ pc = "tokenize"
  BY DEF Init
<1>2. ~Selects(args)
  BY <1>1 DEF Selects, Defaults, SelectionFlags
<1> QED
  BY <1>1, <1>2 DEF IInv, Reading, Exclusive, Defaults

\* A step that leaves the members alone and does not accept.
LEMMA StopIInv ==
  ASSUME IInv, UNCHANGED <<args, hasSelection>>, pc' # "accepted"
  PROVE  IInv'
<1>1. Reading'
  BY DEF IInv, Reading, Selects
<1> QED
  BY <1>1 DEF IInv, Exclusive

\* A step that reads an option keeps what is said of the members if the new ones do.
LEMMA ReadIInv ==
  ASSUME pc = "parse", NEW n, NEW members, NEW selects, Read(n, members, selects),
         DOMAIN members = DOMAIN Defaults,
         members.property = None \/ members.find = None,
         Selects(members) => hasSelection \/ selects
  PROVE  IInv'
<1>1. args' = members /\ (hasSelection' <=> hasSelection \/ selects) /\ pc' = "parse"
  BY DEF Read
<1>2. Selects(args)' <=> Selects(members)
  BY <1>1 DEF Selects
<1> QED
  BY <1>1, <1>2 DEF IInv, Reading, Exclusive

-----------------------------------------------------------------------------
(* The options                                                              *)

\* Setting a member that neither selects nor is -property or -find.
LEMMA OtherMember ==
  ASSUME IInv, NEW member \in DOMAIN Defaults, NEW value,
         member \notin SelectionFlags \cup {"products", "productsAll", "requires",
                                            "requiresPattern", "version", "property", "find"}
  PROVE  LET members == [args EXCEPT ![member] = value]
         IN  /\ DOMAIN members = DOMAIN Defaults
             /\ members.property = args.property /\ members.find = args.find
             /\ Selects(members) <=> Selects(args)
  BY DEF IInv, Reading, Defaults, Selects, SelectionFlags

\* Each option keeps the invariant.
LEMMA FlagIInv == ASSUME IInv, NEW name \in Flags, Flag(name) PROVE IInv'
<1> DEFINE members == [args EXCEPT ![name] = TRUE]
<1>1. pc = "parse" /\ Read(1, members, name \in SelectionFlags)
  BY DEF Flag, At, AtToken
<1>2. name \in DOMAIN Defaults
  BY DEF Flags, SelectionFlags, OtherFlags, Defaults
<1>3. /\ DOMAIN members = DOMAIN Defaults
      /\ members.property = args.property /\ members.find = args.find
  <2>1. DOMAIN args = DOMAIN Defaults /\ {"property", "find"} \subseteq DOMAIN Defaults
    BY DEF IInv, Reading, Defaults
  <2>2. name # "property" /\ name # "find"
    BY DEF Flags, SelectionFlags, OtherFlags
  <2> QED
    BY <2>1, <2>2
<1>4. CASE name \in SelectionFlags
  BY <1>1, <1>3, <1>4, ReadIInv DEF IInv, Reading
<1>5. CASE name \notin SelectionFlags
  <2>1. Selects(members) <=> Selects(args)
    BY <1>2, <1>5, OtherMember DEF Flags, OtherFlags
  <2> QED
    BY <1>1, <1>3, <2>1, ReadIInv DEF IInv, Reading
<1> QED
  BY <1>4, <1>5

\* -version selects instances.
LEMMA VersionIInv == ASSUME IInv, Version PROVE IInv'
<1> DEFINE members == [args EXCEPT !.version = First]
<1>1. pc = "parse" /\ Read(2, members, TRUE)
  BY DEF Version, Takes, At, AtToken
<1>2. /\ DOMAIN members = DOMAIN Defaults
      /\ members.property = args.property /\ members.find = args.find
  BY DEF IInv, Reading
<1> QED
  BY <1>1, <1>2, ReadIInv DEF IInv, Reading

\* -path selects nothing.
LEMMA PathIInv == ASSUME IInv, Path PROVE IInv'
<1> DEFINE members == [args EXCEPT !.path = First]
<1>1. pc = "parse" /\ Read(2, members, FALSE)
  BY DEF Path, Takes, At, AtToken
<1>2. /\ DOMAIN members = DOMAIN Defaults
      /\ members.property = args.property /\ members.find = args.find
      /\ Selects(members) <=> Selects(args)
  BY OtherMember DEF Defaults, SelectionFlags
<1> QED
  BY <1>1, <1>2, ReadIInv DEF IInv, Reading

\* Refusing an option keeps the invariant.
LEMMA RejectIInv == ASSUME IInv, Reject PROVE IInv'
  BY StopIInv DEF Reject, Stop

\* -format selects nothing.
LEMMA FormatIInv == ASSUME IInv, Format PROVE IInv'
<1> DEFINE members == [args EXCEPT !.format = First]
<1>1. CASE First \notin Formats
  BY <1>1, RejectIInv DEF Format
<1>2. CASE First \in Formats
  <2>1. pc = "parse" /\ Read(2, members, FALSE)
    BY <1>2 DEF Format, Takes, At, AtToken
  <2>2. /\ DOMAIN members = DOMAIN Defaults
        /\ members.property = args.property /\ members.find = args.find
        /\ Selects(members) <=> Selects(args)
    BY OtherMember DEF Defaults, SelectionFlags
  <2> QED
    BY <2>1, <2>2, ReadIInv DEF IInv, Reading
<1> QED
  BY <1>1, <1>2

\* -property refuses when -find is there.
LEMMA PropertyIInv == ASSUME IInv, Property PROVE IInv'
<1> DEFINE members == [args EXCEPT !.property = First]
<1>1. CASE args.find # None
  BY <1>1, RejectIInv DEF Property
<1>2. CASE args.find = None
  <2>1. pc = "parse" /\ Read(2, members, FALSE)
    BY <1>2 DEF Property, Takes, At, AtToken
  <2>2. DOMAIN members = DOMAIN Defaults /\ members.find = None
    BY <1>2 DEF IInv, Reading, Defaults
  <2>3. Selects(members) <=> Selects(args)
    BY DEF IInv, Reading, Selects, SelectionFlags, Defaults
  <2> QED
    BY <2>1, <2>2, <2>3, ReadIInv DEF IInv, Reading
<1> QED
  BY <1>1, <1>2

\* And so does -find.
LEMMA FindIInv == ASSUME IInv, Find PROVE IInv'
<1> DEFINE members == [args EXCEPT !.find = First]
<1>1. CASE args.property # None
  BY <1>1, RejectIInv DEF Find
<1>2. CASE args.property = None
  <2>1. pc = "parse" /\ Read(2, members, FALSE)
    BY <1>2 DEF Find, Takes, At, AtToken
  <2>2. DOMAIN members = DOMAIN Defaults /\ members.property = None
    BY <1>2 DEF IInv, Reading, Defaults
  <2>3. Selects(members) <=> Selects(args)
    BY DEF IInv, Reading, Selects, SelectionFlags, Defaults
  <2> QED
    BY <2>1, <2>2, <2>3, ReadIInv DEF IInv, Reading
<1> QED
  BY <1>1, <1>2

\* -products selects instances.
LEMMA ProductsIInv == ASSUME IInv, Products PROVE IInv'
<1> DEFINE members == [args EXCEPT !.products = @ \o After(it)]
<1>1. pc = "parse" /\ Read(1 + Len(After(it)), members, TRUE)
  BY DEF Products, Takes, At, AtToken
<1>2. /\ DOMAIN members = DOMAIN Defaults
      /\ members.property = args.property /\ members.find = args.find
  BY DEF IInv, Reading
<1> QED
  BY <1>1, <1>2, ReadIInv DEF IInv, Reading

\* -include selects nothing, also when it is refused half way.
LEMMA IncludeIInv == ASSUME IInv, Include PROVE IInv'
<1> DEFINE seen == args.includePackages \/ First = Packages
           members(value) == [args EXCEPT !.includePackages = value]
<1>1. /\ DOMAIN members(TRUE) = DOMAIN Defaults
      /\ members(TRUE).property = args.property /\ members(TRUE).find = args.find
      /\ Selects(members(TRUE)) <=> Selects(args)
  BY OtherMember DEF Defaults, SelectionFlags
<1>2. CASE Range(After(it)) = {Packages}
  <2>1. pc = "parse" /\ Read(1 + Len(After(it)), members(TRUE), FALSE)
    BY <1>2 DEF Include, Takes, At, AtToken
  <2> QED
    BY <1>1, <2>1, ReadIInv DEF IInv, Reading
<1>3. CASE Range(After(it)) # {Packages}
  <2>1. /\ pc' = "rejected" /\ args' = members(seen) /\ hasSelection' = hasSelection
    BY <1>3 DEF Include
  <2>2. /\ DOMAIN members(seen) = DOMAIN Defaults
        /\ members(seen).property = args.property /\ members(seen).find = args.find
        /\ Selects(members(seen)) <=> Selects(args)
    BY OtherMember DEF Defaults, SelectionFlags
  <2>3. Selects(args)' <=> Selects(members(seen))
    BY <2>1 DEF Selects
  <2> QED
    BY <2>1, <2>2, <2>3 DEF IInv, Reading, Exclusive
<1> QED
  BY <1>2, <1>3

\* -requires selects instances.
LEMMA RequiresIInv == ASSUME IInv, Requires PROVE IInv'
<1> DEFINE members == [args EXCEPT !.requires = @ \o Literals(After(it)),
                                   !.requiresPattern = @ \o Patterns(After(it))]
<1>1. CASE Range(After(it)) \cap Malformed # {}
  <2>1. Stop("terminated")
    BY <1>1 DEF Requires
  <2> QED
    BY <2>1, StopIInv DEF Stop
<1>2. CASE Range(After(it)) \cap Malformed = {}
  <2>1. pc = "parse" /\ Read(1 + Len(After(it)), members, TRUE)
    BY <1>2 DEF Requires, Takes, At, AtToken
  <2>2. /\ DOMAIN members = DOMAIN Defaults
        /\ members.property = args.property /\ members.find = args.find
    BY DEF IInv, Reading
  <2> QED
    BY <2>1, <2>2, ReadIInv DEF IInv, Reading
<1> QED
  BY <1>1, <1>2

-----------------------------------------------------------------------------
(* The last part                                                            *)

\* Clearing the products does not hide that some were named.
LEMMA ClearedSelects ==
  ASSUME IInv
  PROVE  LET cleared == ClearProducts(args)
         IN  /\ DOMAIN cleared = DOMAIN Defaults
             /\ cleared.property = args.property /\ cleared.find = args.find
             /\ cleared.path = args.path
             /\ Selects(cleared) => hasSelection
<1>1. CASE Star \notin Range(args.products)
  BY <1>1 DEF IInv, Reading, ClearProducts
<1>2. CASE Star \in Range(args.products)
  <2>1. args.products # <<>>
    BY <1>2 DEF Range
  <2>2. hasSelection
    BY <2>1 DEF IInv, Reading, Selects
  <2> QED
    BY <1>2, <2>2 DEF IInv, Reading, ClearProducts
<1> QED
  BY <1>1, <1>2

\* Completing the format does nothing to the others.
LEMMA FormatIsOther ==
  ASSUME NEW members, DOMAIN members = DOMAIN Defaults
  PROVE  LET completed == DefaultFormat(members)
         IN  /\ DOMAIN completed = DOMAIN Defaults
             /\ \A member \in DOMAIN Defaults \ {"format"} : completed[member] = members[member]
             /\ Selects(completed) <=> Selects(members)
  BY DEF DefaultFormat, Selects, SelectionFlags, Defaults

\* The last part refuses what excludes each other.
LEMMA FinishIInv == ASSUME IInv, Finish PROVE IInv'
<1> DEFINE cleared == ClearProducts(args)
           completed == DefaultFormat(cleared)
<1>1. /\ args' = IF LegacyConflict(cleared) THEN cleared ELSE completed
      /\ pc' = IF LegacyConflict(cleared) \/ PathConflict(cleared)
                 THEN "rejected" ELSE "accepted"
      /\ hasSelection' = hasSelection
  BY DEF Finish
<1>2. /\ DOMAIN cleared = DOMAIN Defaults
      /\ cleared.property = args.property /\ cleared.find = args.find
      /\ Selects(cleared) => hasSelection
  BY ClearedSelects
<1>3. /\ DOMAIN completed = DOMAIN Defaults
      /\ completed.property = args.property /\ completed.find = args.find
      /\ completed.path = cleared.path /\ completed.legacy = cleared.legacy
      /\ completed.products = cleared.products /\ completed.requires = cleared.requires
      /\ Selects(completed) <=> Selects(cleared)
  <2> HIDE DEF cleared
  <2> QED
    BY <1>2, FormatIsOther DEF Defaults
<1> HIDE DEF cleared, completed
<1>4. Reading'
  <2>1. DOMAIN args' = DOMAIN Defaults /\ args'.property = args.property /\ args'.find = args.find
    BY <1>1, <1>2, <1>3
  <2>2. Selects(args)' <=> Selects(args')
    BY DEF Selects
  <2>3. Selects(args') => hasSelection
    BY <1>1, <1>2, <1>3
  <2> QED
    BY <1>1, <2>1, <2>2, <2>3 DEF IInv, Reading
<1>5. Exclusive'
  <2> SUFFICES ASSUME pc' = "accepted"
               PROVE  /\ args'.property = None \/ args'.find = None
                      /\ args'.legacy => args'.products = <<>> /\ args'.requires = <<>>
                      /\ args'.path # None => ~Selects(args)'
    BY DEF Exclusive
  <2>1. ~LegacyConflict(cleared) /\ ~PathConflict(cleared) /\ args' = completed
    BY <1>1
  <2>2. args'.legacy => args'.products = <<>> /\ args'.requires = <<>>
    BY <1>3, <2>1 DEF LegacyConflict
  <2>3. args'.path # None => ~hasSelection
    BY <1>3, <2>1 DEF PathConflict
  <2> QED
    BY <1>1, <1>4, <2>2, <2>3 DEF Reading
<1> QED
  BY <1>4, <1>5 DEF IInv

-----------------------------------------------------------------------------
\* The invariant is inductive.
LEMMA NextIInv == IInv /\ [Next]_vars => IInv'
<1> SUFFICES ASSUME IInv, [Next]_vars PROVE IInv'
  OBVIOUS
<1>1. CASE Tokenize
  BY <1>1, RejectIInv, StopIInv DEF Tokenize, Stop
<1>2. CASE UnexpectedArgument \/ Unknown \/ ArgumentRequired
  BY <1>2, RejectIInv DEF UnexpectedArgument, Unknown, ArgumentRequired
<1>3. CASE \E name \in Flags : Flag(name)
  BY <1>3, FlagIInv
<1>4. CASE Version \/ Path \/ Format \/ Property \/ Find
  BY <1>4, VersionIInv, PathIInv, FormatIInv, PropertyIInv, FindIInv
<1>5. CASE Products \/ Include \/ Requires
  BY <1>5, ProductsIInv, IncludeIInv, RequiresIInv
<1>6. CASE Finish
  BY <1>6, FinishIInv
<1>7. CASE Done \/ UNCHANGED vars
  BY <1>7 DEF Done, vars, IInv, Reading, Exclusive, Selects
<1> QED
  BY <1>1, <1>2, <1>3, <1>4, <1>5, <1>6, <1>7 DEF Next

\* Options that exclude each other are never accepted together, however many
\* options there are and whatever their order.
THEOREM OptionsAreExclusive == Spec => []Exclusive
<1>1. IInv => Exclusive
  BY DEF IInv
<1> QED
  BY <1>1, InitIInv, NextIInv, PTL DEF Spec

-----------------------------------------------------------------------------
(* Tokens                                                                   *)

\* The words that Parse reads: parameters and arguments, none of them empty.
Tokens == argv \in Seq(Words) /\ EmptyWord \notin Range(argv)

\* A token is a parameter with a known or the unknown name, or an argument.
LEMMA TokenIs ==
  ASSUME Tokens, NEW k \in 1..Len(argv)
  PROVE  \/ \E name \in Named \cup {UnknownName} : argv[k] = Parameter(name)
         \/ \E text \in Arguments : argv[k] = Argument(text)
<1>1. argv[k] \in Words /\ argv[k] # EmptyWord
  BY DEF Tokens, Range
<1> QED
  BY <1>1 DEF Words

\* The same by the kind of the token.
LEMMA TokenKind ==
  ASSUME Tokens, NEW k \in 1..Len(argv)
  PROVE  /\ argv[k].kind \in {"parameter", "argument"}
         /\ argv[k].kind = "parameter" =>
              argv[k].value \in Named \cup {UnknownName} /\ argv[k] = Parameter(argv[k].value)
         /\ argv[k].kind = "argument" =>
              argv[k].value \in Arguments /\ argv[k] = Argument(argv[k].value)
<1>1. CASE \E name \in Named \cup {UnknownName} : argv[k] = Parameter(name)
  BY <1>1 DEF Parameter
<1>2. CASE \E text \in Arguments : argv[k] = Argument(text)
  BY <1>2 DEF Argument
<1> QED
  BY <1>1, <1>2, TokenIs

\* After(k) is the arguments that follow k, all of them.
LEMMA AfterIs ==
  ASSUME Tokens, NEW k \in 1..Len(argv)
  PROVE  /\ After(k) \in Seq(Arguments)
         /\ k + Len(After(k)) <= Len(argv)
         /\ \A j \in 1..Len(After(k)) :
              argv[k + j].kind = "argument" /\ argv[k + j].value = After(k)[j]
         /\ k + Len(After(k)) < Len(argv) =>
              argv[k + Len(After(k)) + 1].kind = "parameter"
<1> DEFINE stops == {j \in (k + 1)..Len(argv) : argv[j].kind = "parameter"} \cup {Len(argv) + 1}
           stop == CHOOSE j \in stops : \A i \in stops : j <= i
<1>1. Len(argv) \in Nat
  BY DEF Tokens
<1>2. stop \in stops /\ \A i \in stops : stop <= i
  <2>1. stops \subseteq Nat /\ stops # {}
    BY <1>1
  <2>2. \E j \in stops : \A i \in stops : j <= i
    <3> HIDE DEF stops
    <3> QED
      BY <2>1, Least
  <2> HIDE DEF stops
  <2> QED
    BY <2>2
<1>3. After(k) = [j \in 1..(stop - k - 1) |-> argv[k + j].value]
  BY DEF After
<1> HIDE DEF stop
<1>4. stop \in (k + 1)..(Len(argv) + 1) /\ stop - k - 1 \in Nat
  BY <1>1, <1>2
<1>5. ASSUME NEW j \in 1..(stop - k - 1)
      PROVE  argv[k + j].kind = "argument" /\ argv[k + j].value \in Arguments
  <2>1. k + j \in (k + 1)..Len(argv) /\ k + j < stop
    BY <1>1, <1>4
  <2>2. argv[k + j].kind # "parameter"
    BY <1>1, <1>2, <1>4, <2>1
  <2>3. k + j \in 1..Len(argv)
    BY <1>1, <2>1
  <2> QED
    BY <2>2, <2>3, TokenKind
<1>6. After(k) \in Seq(Arguments) /\ Len(After(k)) = stop - k - 1
  <2> DEFINE n == stop - k - 1
  <2>1. n \in Nat /\ \A j \in 1..n : argv[k + j].value \in Arguments
    BY <1>4, <1>5
  <2>2. After(k) = [j \in 1..n |-> argv[k + j].value]
    BY <1>3
  <2> HIDE DEF n
  <2>3. After(k) \in Seq(Arguments) /\ Len(After(k)) = n
    BY <2>1, <2>2
  <2> QED
    BY <2>3 DEF n
<1>7. k + Len(After(k)) <= Len(argv)
  BY <1>1, <1>4, <1>6
<1>8. \A j \in 1..Len(After(k)) :
        argv[k + j].kind = "argument" /\ argv[k + j].value = After(k)[j]
  BY <1>3, <1>5, <1>6
<1>9. k + Len(After(k)) < Len(argv) => argv[k + Len(After(k)) + 1].kind = "parameter"
  <2> SUFFICES ASSUME k + Len(After(k)) < Len(argv) PROVE argv[stop].kind = "parameter"
    BY <1>1, <1>4, <1>6
  <2>1. stop # Len(argv) + 1
    BY <1>1, <1>4, <1>6
  <2> QED
    BY <1>2, <2>1
<1> QED
  BY <1>6, <1>7, <1>8, <1>9

-----------------------------------------------------------------------------
(* Types                                                                    *)

\* Type correctness, and that Parse reads no empty word: the tokens are made of all
\* the words before the first is read.
Typed == TypeOK /\ (pc = "parse" => EmptyWord \notin Range(argv))

\* Initially the members are the defaults.
LEMMA InitTyped == Init => Typed
<1> SUFFICES ASSUME Init PROVE Typed
  OBVIOUS
<1>1. argv \in Seq(Words) /\ it \in 1..(Len(argv) + 1)
  BY CommandLinesAssumption DEF Init
<1>2. Defaults \in Members
  BY DEF Defaults, Members
<1> QED
  BY <1>1, <1>2 DEF Init, Typed, TypeOK

\* A step that only moves the control point.
LEMMA StopTyped ==
  ASSUME Typed, NEW where \in {"parse", "accepted", "rejected", "terminated"}, Stop(where),
         where = "parse" => EmptyWord \notin Range(argv)
  PROVE  Typed'
  BY DEF Typed, TypeOK, Stop

\* A step that reads, and not past the end.
LEMMA ReadTyped ==
  ASSUME Typed, AtToken, NEW count \in Nat, NEW members \in Members, NEW selects \in BOOLEAN,
         Read(count, members, selects), it + count <= Len(argv) + 1
  PROVE  Typed'
<1>1. Len(argv) \in Nat /\ it \in Nat
  BY DEF Typed, TypeOK
<1>2. it' \in 1..(Len(argv) + 1)
  BY <1>1 DEF Read, Typed, TypeOK
<1> QED
  BY <1>2 DEF Typed, TypeOK, Read, AtToken

\* What an option takes is after it, and is one argument at least.
LEMMA TakesTyped ==
  ASSUME Typed, NEW name, Takes(name)
  PROVE  /\ AtToken /\ Tokens /\ it \in 1..Len(argv)
         /\ After(it) \in Seq(Arguments) /\ Len(After(it)) \in Nat /\ Len(After(it)) > 0
         /\ it + Len(After(it)) <= Len(argv)
         /\ First \in Arguments
<1>1. AtToken /\ Tokens /\ it \in 1..Len(argv)
  BY DEF Takes, At, AtToken, Tokens, Typed, TypeOK
<1>2. After(it) \in Seq(Arguments) /\ it + Len(After(it)) <= Len(argv) /\ After(it) # <<>>
  BY <1>1, AfterIs DEF Takes
<1>3. Len(After(it)) \in Nat /\ Len(After(it)) > 0 /\ After(it)[1] \in Arguments
  BY <1>2
<1> QED
  BY <1>1, <1>2, <1>3 DEF First

\* A flag.
LEMMA FlagTyped == ASSUME Typed, NEW name \in Flags, Flag(name) PROVE Typed'
<1> DEFINE selects == name \in SelectionFlags
<1>1. AtToken /\ Read(1, [args EXCEPT ![name] = TRUE], selects) /\ selects \in BOOLEAN
  BY DEF Flag, At
<1>2. [args EXCEPT ![name] = TRUE] \in Members
  <2>1. args \in Members
    BY DEF Typed, TypeOK
  <2> QED
    BY <2>1 DEF Members, Flags, SelectionFlags, OtherFlags
<1>3. it + 1 <= Len(argv) + 1
  BY <1>1 DEF AtToken, Typed, TypeOK
<1> HIDE DEF selects
<1> QED
  BY <1>1, <1>2, <1>3, ReadTyped

\* An option with one argument.
LEMMA ArgumentTyped ==
  ASSUME Typed, NEW name \in {"version", "path", "property", "find"}, Takes(name),
         NEW selects \in BOOLEAN, Read(2, [args EXCEPT ![name] = First], selects)
  PROVE  Typed'
<1>1. [args EXCEPT ![name] = First] \in Members
  <2>1. args \in Members /\ First \in Arguments
    BY TakesTyped DEF Typed, TypeOK
  <2> QED
    BY <2>1 DEF Members
<1>2. it + 2 <= Len(argv) + 1
  <2>1. it \in Nat /\ Len(argv) \in Nat
    BY DEF Typed, TypeOK
  <2> QED
    BY <2>1, TakesTyped
<1> QED
  BY <1>1, <1>2, TakesTyped, ReadTyped

\* -format: only the name of a formatter is stored.
LEMMA FormatTyped == ASSUME Typed, Format PROVE Typed'
<1>1. CASE First \notin Formats
  BY <1>1, StopTyped DEF Format, Reject
<1>2. CASE First \in Formats
  <2>1. Takes("format") /\ Read(2, [args EXCEPT !.format = First], FALSE)
    BY <1>2 DEF Format
  <2>2. [args EXCEPT !.format = First] \in Members
    <3>1. args \in Members
      BY DEF Typed, TypeOK
    <3> QED
      BY <1>2, <3>1 DEF Members
  <2>3. it + 2 <= Len(argv) + 1
    <3>1. it \in Nat /\ Len(argv) \in Nat
      BY DEF Typed, TypeOK
    <3> QED
      BY <2>1, <3>1, TakesTyped
  <2> QED
    BY <2>1, <2>2, <2>3, TakesTyped, ReadTyped
<1> QED
  BY <1>1, <1>2

\* -products: all the arguments are appended.
LEMMA ProductsTyped == ASSUME Typed, Products PROVE Typed'
<1> DEFINE members == [args EXCEPT !.products = @ \o After(it)]
<1>1. Takes("products") /\ Read(1 + Len(After(it)), members, TRUE)
  BY DEF Products
<1>2. members \in Members
  <2>1. args \in Members /\ After(it) \in Seq(Arguments) /\ args.products \in Seq(Arguments)
    BY <1>1, TakesTyped DEF Typed, TypeOK, Members
  <2>2. args.products \o After(it) \in Seq(Arguments)
    BY <2>1
  <2> QED
    BY <2>1, <2>2 DEF Members
<1>3. 1 + Len(After(it)) \in Nat /\ it + (1 + Len(After(it))) <= Len(argv) + 1
  <2>1. it \in Nat /\ Len(argv) \in Nat
    BY DEF Typed, TypeOK
  <2> QED
    BY <1>1, <2>1, TakesTyped
<1> HIDE DEF members
<1> QED
  BY <1>1, <1>2, <1>3, TakesTyped, ReadTyped

\* -include, accepted or not.
LEMMA IncludeTyped == ASSUME Typed, Include PROVE Typed'
<1> DEFINE members(value) == [args EXCEPT !.includePackages = value]
<1>1. Takes("include") /\ \A value \in BOOLEAN : members(value) \in Members
  <2>1. args \in Members
    BY DEF Typed, TypeOK
  <2> QED
    BY <2>1 DEF Include, Members
<1>2. CASE Range(After(it)) = {Packages}
  <2>1. Read(1 + Len(After(it)), members(TRUE), FALSE)
    BY <1>2 DEF Include
  <2>2. 1 + Len(After(it)) \in Nat /\ it + (1 + Len(After(it))) <= Len(argv) + 1
    <3>1. it \in Nat /\ Len(argv) \in Nat
      BY DEF Typed, TypeOK
    <3> QED
      BY <1>1, <3>1, TakesTyped
  <2>3. members(TRUE) \in Members
    BY <1>1
  <2> HIDE DEF members
  <2> QED
    BY <1>1, <2>1, <2>2, <2>3, TakesTyped, ReadTyped
<1>3. CASE Range(After(it)) # {Packages}
  <2>1. pc' = "rejected" /\ UNCHANGED <<argv, it, hasSelection>>
        /\ args' = members(args.includePackages \/ First = Packages)
    BY <1>3 DEF Include
  <2>2. args' \in Members
    BY <1>1, <2>1
  <2> QED
    BY <2>1, <2>2 DEF Typed, TypeOK
<1> QED
  BY <1>2, <1>3

\* -requires: the literals and the patterns.
LEMMA RequiresTyped == ASSUME Typed, Requires PROVE Typed'
<1> DEFINE literals == Literals(After(it))
           patterns == Patterns(After(it))
           members == [args EXCEPT !.requires = @ \o literals, !.requiresPattern = @ \o patterns]
<1>1. CASE Range(After(it)) \cap Malformed # {}
  <2>1. Stop("terminated")
    BY <1>1 DEF Requires
  <2> QED
    BY <2>1, StopTyped
<1>2. CASE Range(After(it)) \cap Malformed = {}
  <2>1. Takes("requires") /\ Read(1 + Len(After(it)), members, TRUE)
    BY <1>2 DEF Requires
  <2>2. members \in Members
    <3>1. /\ args \in Members /\ After(it) \in Seq(Arguments)
          /\ args.requires \in Seq(Arguments) /\ args.requiresPattern \in Seq(Arguments)
      BY <2>1, TakesTyped DEF Typed, TypeOK, Members
    <3>2. literals \in Seq(Arguments) /\ patterns \in Seq(Arguments)
      BY <3>1, ThoseType DEF Literals, Patterns
    <3> HIDE DEF literals, patterns
    <3>3. args.requires \o literals \in Seq(Arguments) /\ args.requiresPattern \o patterns \in Seq(Arguments)
      BY <3>1, <3>2
    <3> QED
      BY <3>1, <3>3 DEF Members
  <2>3. 1 + Len(After(it)) \in Nat /\ it + (1 + Len(After(it))) <= Len(argv) + 1
    <3>1. it \in Nat /\ Len(argv) \in Nat
      BY DEF Typed, TypeOK
    <3> QED
      BY <2>1, <3>1, TakesTyped
  <2> HIDE DEF members
  <2> QED
    BY <2>1, <2>2, <2>3, TakesTyped, ReadTyped
<1> QED
  BY <1>1, <1>2

\* The last part completes the members.
LEMMA FinishTyped == ASSUME Typed, Finish PROVE Typed'
<1> DEFINE cleared == ClearProducts(args)
<1>1. args \in Members
  BY DEF Typed, TypeOK
<1>2. cleared \in Members
  <2>1. <<>> \in Seq(Arguments)
    OBVIOUS
  <2>2. CASE Star \in Range(args.products)
    BY <1>1, <2>1, <2>2 DEF ClearProducts, Members
  <2>3. CASE Star \notin Range(args.products)
    BY <1>1, <2>3 DEF ClearProducts
  <2> QED
    BY <2>2, <2>3
<1>3. DefaultFormat(cleared) \in Members
  <2> HIDE DEF cleared
  <2> QED
    BY <1>2, ArgumentsAssumption DEF DefaultFormat, Members
<1>4. /\ args' \in {cleared, DefaultFormat(cleared)}
      /\ pc' \in {"rejected", "accepted"}
      /\ UNCHANGED <<argv, it, hasSelection>>
  BY DEF Finish
<1>5. args' \in Members
  BY <1>2, <1>3, <1>4
<1> QED
  BY <1>4, <1>5 DEF Typed, TypeOK

\* Every step keeps the types.
LEMMA NextTyped == Typed /\ [Next]_vars => Typed'
<1> SUFFICES ASSUME Typed, [Next]_vars PROVE Typed'
  OBVIOUS
<1>1. CASE Tokenize
  BY <1>1, StopTyped DEF Tokenize, Reject
<1>2. CASE UnexpectedArgument \/ Unknown \/ ArgumentRequired
  BY <1>2, StopTyped DEF UnexpectedArgument, Unknown, ArgumentRequired, Reject
<1>3. CASE \E name \in Flags : Flag(name)
  BY <1>3, FlagTyped
<1>4. CASE Version
  BY <1>4, ArgumentTyped DEF Version
<1>5. CASE Path
  BY <1>5, ArgumentTyped DEF Path
<1>6. CASE Property
  BY <1>6, ArgumentTyped, StopTyped DEF Property, Reject
<1>7. CASE Find
  BY <1>7, ArgumentTyped, StopTyped DEF Find, Reject
<1>8. CASE Format \/ Products \/ Include \/ Requires \/ Finish
  BY <1>8, FormatTyped, ProductsTyped, IncludeTyped, RequiresTyped, FinishTyped
<1>9. CASE Done \/ UNCHANGED vars
  BY <1>9 DEF Done, vars, Typed, TypeOK
<1> QED
  BY <1>1, <1>2, <1>3, <1>4, <1>5, <1>6, <1>7, <1>8, <1>9 DEF Next

\* The variables of the parser have their types: what it stores as a format is the
\* name of a formatter, and it never reads past the last token.
THEOREM TypeCorrect == Spec => []TypeOK
<1>1. Typed => TypeOK
  BY DEF Typed
<1> QED
  BY <1>1, InitTyped, NextTyped, PTL DEF Spec

-----------------------------------------------------------------------------
(* The arguments of an option                                               *)

\* The texts of a name, one word more.
LEMMA TextsStep ==
  ASSUME Tokens, NEW name
  PROVE  /\ Texts(0, name) = <<>>
         /\ \A k \in 1..Len(argv) :
              /\ Texts(k - 1, name) \in Seq(Arguments)
              /\ Texts(k, name) = Texts(k - 1, name) \o
                                    (IF BelongsTo(k, name) THEN <<argv[k].value>> ELSE <<>>)
<1> DEFINE part(k) == IF BelongsTo(k, name) THEN <<argv[k].value>> ELSE <<>>
           parts(n) == [k \in 1..n |-> part(k)]
<1>1. Len(argv) \in Nat
  BY DEF Tokens
<1>2. ASSUME NEW k \in 1..Len(argv) PROVE part(k) \in Seq(Arguments)
  <2>1. CASE BelongsTo(k, name)
    BY <2>1, TokenKind DEF BelongsTo
  <2>2. CASE ~BelongsTo(k, name)
    BY <2>2
  <2> QED
    BY <2>1, <2>2
<1>3. \A n : Texts(n, name) = FlattenSeq(parts(n))
  BY DEF Texts
<1> HIDE DEF part
<1>4. Texts(0, name) = <<>>
  <2>1. parts(0) = <<>>
    OBVIOUS
  <2> QED
    BY <1>3, <2>1, FlattenEmpty
<1>5. ASSUME NEW k \in 1..Len(argv)
      PROVE  /\ Texts(k - 1, name) \in Seq(Arguments)
             /\ Texts(k, name) = Texts(k - 1, name) \o part(k)
  <2> DEFINE W == Seq(Arguments)
             p == parts(k - 1)
  <2>1. p \in Seq(W)
    BY <1>1, <1>2
  <2>2. parts(k) = Append(p, part(k))
    <3> DEFINE m == k - 1
    <3>1. m \in Nat /\ k = m + 1
      BY <1>1
    <3> HIDE DEF m
    <3>2. parts(m + 1) = Append(parts(m), part(m + 1))
      BY <3>1
    <3> QED
      BY <3>1, <3>2 DEF m
  <2>3. FlattenSeq(p) \in Seq(Arguments) /\ FlattenSeq(Append(p, part(k))) = FlattenSeq(p) \o part(k)
    <3>1. p \in Seq(Seq(Arguments)) /\ part(k) \in Seq(Arguments)
      BY <1>2, <2>1
    <3> HIDE DEF p, W
    <3> QED
      BY <3>1, FlattenAppend
  <2> QED
    BY <1>3, <2>2, <2>3
<1> QED
  BY <1>4, <1>5 DEF part

\* The texts of a name are arguments.
LEMMA TextsType ==
  ASSUME Tokens, NEW name, NEW n \in 0..Len(argv)
  PROVE  Texts(n, name) \in Seq(Arguments)
<1>1. Len(argv) \in Nat /\ <<>> \in Seq(Arguments)
  BY DEF Tokens
<1>2. CASE n = 0
  BY <1>1, <1>2, TextsStep
<1>3. CASE n \in 1..Len(argv)
  <2>1. Texts(n - 1, name) \in Seq(Arguments)
    BY <1>3, TextsStep
  <2>2. (IF BelongsTo(n, name) THEN <<argv[n].value>> ELSE <<>>) \in Seq(Arguments)
    <3>1. CASE BelongsTo(n, name)
      BY <1>3, <3>1, TokenKind DEF BelongsTo
    <3>2. CASE ~BelongsTo(n, name)
      BY <3>2
    <3> QED
      BY <3>1, <3>2
  <2>3. Texts(n, name) = Texts(n - 1, name) \o (IF BelongsTo(n, name) THEN <<argv[n].value>> ELSE <<>>)
    BY <1>3, TextsStep
  <2> QED
    BY <2>1, <2>2, <2>3, ConcatProperties
<1> QED
  BY <1>1, <1>2, <1>3

\* The arguments after a parameter belong to it; the parameter belongs to none.
LEMMA Belonging ==
  ASSUME Tokens, NEW k \in 1..Len(argv), argv[k].kind = "parameter"
  PROVE  /\ \A name : ~BelongsTo(k, name)
         /\ \A j \in (k + 1)..(k + Len(After(k))) : 
              /\ argv[j].kind = "argument"
              /\ Parameters(j) = Parameters(k)
              /\ \A name : BelongsTo(j, name) <=> name = argv[k].value
<1>1. Len(argv) \in Nat /\ Len(After(k)) \in Nat /\ k + Len(After(k)) <= Len(argv)
  <2>1. Len(argv) \in Nat
    BY DEF Tokens
  <2>2. After(k) \in Seq(Arguments) /\ k + Len(After(k)) <= Len(argv)
    BY AfterIs
  <2> QED
    BY <2>1, <2>2
<1>2. \A name : ~BelongsTo(k, name)
  BY DEF BelongsTo
<1>3. ASSUME NEW j \in (k + 1)..(k + Len(After(k)))
      PROVE  argv[j].kind = "argument"
  <2> DEFINE i == j - k
  <2>1. i \in 1..Len(After(k)) /\ k + i = j
    BY <1>1
  <2> HIDE DEF i
  <2>2. argv[k + i].kind = "argument"
    BY <2>1, AfterIs
  <2> QED
    BY <2>1, <2>2
<1>4. ASSUME NEW j \in (k + 1)..(k + Len(After(k)))
      PROVE  Parameters(j) = Parameters(k)
  <2>1. ASSUME NEW i \in 1..j, argv[i].kind = "parameter" PROVE i <= k
    BY <1>1, <1>3, <2>1
  <2> QED
    BY <1>1, <2>1 DEF Parameters
<1>5. ASSUME NEW j \in (k + 1)..(k + Len(After(k))), NEW name
      PROVE  BelongsTo(j, name) <=> name = argv[k].value
  <2>1. k \in Parameters(k) /\ \A i \in Parameters(k) : i \in Nat /\ i <= k
    BY <1>1 DEF Parameters
  <2>2. (CHOOSE i \in Parameters(k) : \A h \in Parameters(k) : h <= i) = k
    BY <1>1, <2>1
  <2>3. Owner(j) = argv[k].value
    BY <1>4, <2>2 DEF Owner
  <2> QED
    BY <1>3, <1>4, <2>1, <2>3 DEF BelongsTo
<1> QED
  BY <1>2, <1>3, <1>4, <1>5

\* Reading a parameter and c of the arguments after it.
LEMMA TextsAdvance ==
  ASSUME Tokens, NEW k \in 1..Len(argv), argv[k].kind = "parameter",
         NEW c \in 0..Len(After(k)), NEW name
  PROVE  Texts(k + c, name) =
           IF name = argv[k].value THEN Texts(k - 1, name) \o SubSeq(After(k), 1, c)
                                   ELSE Texts(k - 1, name)
<1> DEFINE Taken(n) == SubSeq(After(k), 1, n)
           Result(n) == IF name = argv[k].value THEN Texts(k - 1, name) \o Taken(n)
                                                ELSE Texts(k - 1, name)
           T == {n \in Nat : n <= Len(After(k)) => Texts(k + n, name) = Result(n)}
<1>1. /\ After(k) \in Seq(Arguments) /\ Len(After(k)) \in Nat /\ Len(argv) \in Nat
      /\ k + Len(After(k)) <= Len(argv) /\ k \in Nat
  <2>1. Len(argv) \in Nat
    BY DEF Tokens
  <2>2. After(k) \in Seq(Arguments) /\ k + Len(After(k)) <= Len(argv)
    BY AfterIs
  <2> QED
    BY <2>1, <2>2
<1>2. Texts(k - 1, name) \in Seq(Arguments)
  BY <1>1, TextsStep
<1>3. 0 \in T
  <2>1. Taken(0) = <<>>
    BY SubSeqEmpty
  <2>2. Texts(k - 1, name) \o <<>> = Texts(k - 1, name)
    BY <1>2, ConcatEmptySeq
  <2>3. Texts(k, name) = Texts(k - 1, name)
    BY <2>2, TextsStep, Belonging
  <2>4. k + 0 = k
    BY <1>1
  <2>6. Result(0) = Texts(k - 1, name)
    <3> HIDE DEF T, Taken
    <3> QED
      BY <2>1, <2>2
  <2>5. Texts(k + 0, name) = Result(0)
    BY <2>3, <2>4, <2>6
  <2> HIDE DEF Result
  <2> QED
    BY <2>5
<1>4. ASSUME NEW n \in Nat, n \in T PROVE n + 1 \in T
  <2> SUFFICES ASSUME n + 1 <= Len(After(k)) PROVE Texts(k + (n + 1), name) = Result(n + 1)
    OBVIOUS
  <2> DEFINE j == k + (n + 1)
  <2>1. /\ j \in (k + 1)..(k + Len(After(k))) /\ j \in 1..Len(argv) /\ j - 1 = k + n
        /\ n + 1 \in 1..Len(After(k))
    <3> DEFINE len == Len(After(k))
               all == Len(argv)
    <3>1. len \in Nat /\ all \in Nat /\ k + len <= all /\ k \in 1..all /\ n + 1 <= len
      BY <1>1
    <3> HIDE DEF T, Result, len, all
    <3>2. /\ j \in (k + 1)..(k + len) /\ j \in 1..all /\ j - 1 = k + n /\ n + 1 \in 1..len
      BY <3>1
    <3> QED
      BY <3>2 DEF len, all
  <2>2. argv[j].value = After(k)[n + 1] /\ After(k)[n + 1] \in Arguments
    BY <1>1, <2>1, AfterIs
  <2>3. Texts(k + n, name) = Result(n)
    BY <1>1, <1>4
  <2> HIDE DEF j
  <2>4. Texts(j, name) = Texts(k + n, name) \o
                           (IF BelongsTo(j, name) THEN <<argv[j].value>> ELSE <<>>)
    BY <2>1, TextsStep
  <2>5. BelongsTo(j, name) <=> name = argv[k].value
    BY <2>1, Belonging
  <2>6. CASE name # argv[k].value
    <3>1. Texts(j, name) = Texts(k - 1, name) \o <<>>
      BY <2>3, <2>4, <2>5, <2>6
    <3> QED
      BY <1>2, <2>6, <3>1, ConcatEmptySeq DEF j
  <2>7. CASE name = argv[k].value
    <3>1. Texts(j, name) = (Texts(k - 1, name) \o Taken(n)) \o <<After(k)[n + 1]>>
      BY <2>2, <2>3, <2>4, <2>5, <2>7
    <3>2. Taken(n + 1) = Taken(n) \o <<After(k)[n + 1]>> /\ Taken(n) \in Seq(Arguments)
      BY <1>1, <2>1
    <3>3. (Texts(k - 1, name) \o Taken(n)) \o <<After(k)[n + 1]>>
            = Texts(k - 1, name) \o (Taken(n) \o <<After(k)[n + 1]>>)
      <4>1. \A x, y, z \in Seq(Arguments) : (x \o y) \o z = x \o (y \o z)
        OBVIOUS
      <4>2. <<After(k)[n + 1]>> \in Seq(Arguments)
        BY <2>2
      <4> QED
        BY <1>2, <3>2, <4>1, <4>2
    <3> HIDE DEF Taken
    <3> QED
      BY <2>7, <3>1, <3>2, <3>3 DEF j
  <2> QED
    BY <2>6, <2>7
<1>5. c \in T
  <2>1. c \in Nat
    BY <1>1
  <2> HIDE DEF T
  <2> QED
    BY <2>1, <1>3, <1>4, SetInduction
<1> QED
  BY <1>5

\* The names given when a parameter and c arguments after it are read.
LEMMA GivenAdvance ==
  ASSUME Tokens, NEW k \in 1..Len(argv), argv[k].kind = "parameter",
         NEW c \in 0..Len(After(k)), NEW name
  PROVE  Given(k + c, name) <=> Given(k - 1, name) \/ name = argv[k].value
<1>1. Len(After(k)) \in Nat /\ Len(argv) \in Nat
  BY AfterIs DEF Tokens
<1>2. \A j \in (k + 1)..(k + c) : argv[j].kind = "argument"
  BY <1>1, Belonging
<1>3. \A j \in (k + 1)..(k + c) : argv[j] # Parameter(name)
  BY <1>2 DEF Parameter
<1>4. argv[k] = Parameter(name) <=> name = argv[k].value
  BY TokenKind DEF Parameter
<1> QED
  BY <1>1, <1>3, <1>4 DEF Given

-----------------------------------------------------------------------------
(* Meaning                                                                  *)

\* The options by the number of their arguments.
Several == {"products", "requires", "include"}
Single  == {"version", "path", "format", "property", "find"}

\* Every name is of one of three kinds, and the unknown one of none.
LEMMA NamedIs ==
  /\ Named = Flags \cup Several \cup Single
  /\ Flags \cap (Several \cup Single) = {} /\ Several \cap Single = {}
  /\ UnknownName \notin Named
  BY DEF Named, Flags, SelectionFlags, OtherFlags, Several, Single, UnknownName

\* The members of a meaning, by name.
LEMMA MeaningIs ==
  ASSUME NEW n
  PROVE  /\ DOMAIN Meaning(n) = DOMAIN Defaults
         /\ \A name \in Flags : Meaning(n)[name] = Given(n, name)
         /\ \A name \in Single : Meaning(n)[name] = LastText(n, name)
         /\ Meaning(n).includePackages = (Packages \in Range(Texts(n, "include")))
         /\ Meaning(n).productsAll = FALSE
         /\ Meaning(n).products = Texts(n, "products")
         /\ Meaning(n).requires = Literals(Texts(n, "requires"))
         /\ Meaning(n).requiresPattern = Patterns(Texts(n, "requires"))
<1>1. DOMAIN Meaning(n) = DOMAIN Defaults
  BY DEF Meaning
<1>2. \A name \in Flags : Meaning(n)[name] = Given(n, name)
  BY DEF Meaning, Flags, SelectionFlags, OtherFlags, Defaults
<1>3. \A name \in Single : Meaning(n)[name] = LastText(n, name)
  BY DEF Meaning, Flags, SelectionFlags, OtherFlags, Defaults, Single
<1>4. /\ Meaning(n).includePackages = (Packages \in Range(Texts(n, "include")))
      /\ Meaning(n).productsAll = FALSE
  BY DEF Meaning, Flags, SelectionFlags, OtherFlags, Defaults
<1>5. /\ Meaning(n).products = Texts(n, "products")
      /\ Meaning(n).requires = Literals(Texts(n, "requires"))
      /\ Meaning(n).requiresPattern = Patterns(Texts(n, "requires"))
  BY DEF Meaning, Flags, SelectionFlags, OtherFlags, Defaults
<1> QED
  BY <1>1, <1>2, <1>3, <1>4, <1>5

\* The members, by the kind of option that sets them.
LEMMA MembersAre ==
  DOMAIN Defaults = Flags \cup Single \cup {"includePackages", "productsAll", "products",
                                            "requires", "requiresPattern"}
  BY DEF Defaults, Flags, SelectionFlags, OtherFlags, Single

\* The members that an option changes.
Touched(name) ==
  IF name = "include" THEN {"includePackages"}
  ELSE IF name = "requires" THEN {"requires", "requiresPattern"} ELSE {name}

\* Reading an option keeps the meaning of the members it does not touch.
LEMMA MeaningKept ==
  ASSUME Tokens, NEW k \in 1..Len(argv), argv[k].kind = "parameter",
         NEW c \in 0..Len(After(k)),
         NEW member \in DOMAIN Defaults \ Touched(argv[k].value)
  PROVE  Meaning(k + c)[member] = Meaning(k - 1)[member]
<1>1. \A name : name # argv[k].value => /\ Texts(k + c, name) = Texts(k - 1, name)
                                        /\ Given(k + c, name) <=> Given(k - 1, name)
  BY TextsAdvance, GivenAdvance
<1>2. CASE member \in Flags
  <2>1. member # argv[k].value
    BY <1>2 DEF Touched, Flags, SelectionFlags, OtherFlags
  <2>2. Given(k + c, member) <=> Given(k - 1, member)
    BY <1>1, <2>1
  <2>3. Given(k + c, member) = Given(k - 1, member)
    BY <2>2 DEF Given
  <2>4. Meaning(k + c)[member] = Given(k + c, member) /\ Meaning(k - 1)[member] = Given(k - 1, member)
    BY <1>2, MeaningIs, Zenon
  <2> QED
    BY <2>3, <2>4, Zenon
<1>3. CASE member \in Single
  <2>1. member # argv[k].value
    BY <1>3 DEF Touched, Single
  <2>2. Texts(k + c, member) = Texts(k - 1, member)
    BY <1>1, <2>1
  <2>3. Meaning(k + c)[member] = LastText(k + c, member) /\ Meaning(k - 1)[member] = LastText(k - 1, member)
    BY <1>3, MeaningIs, Zenon
  <2> QED
    BY <2>2, <2>3 DEF LastText
<1>4. CASE member = "includePackages"
  <2>1. "include" # argv[k].value
    BY <1>4 DEF Touched
  <2>2. Texts(k + c, "include") = Texts(k - 1, "include")
    BY <1>1, <2>1
  <2>3. \A n : Meaning(n).includePackages = (Packages \in Range(Texts(n, "include")))
    BY MeaningIs, Zenon
  <2> QED
    BY <1>4, <2>2, <2>3, Zenon
<1>5. CASE member = "productsAll"
  <2>1. \A n : Meaning(n).productsAll = FALSE
    BY MeaningIs, Zenon
  <2> QED
    BY <1>5, <2>1, Zenon
<1>6. CASE member = "products"
  <2>1. "products" # argv[k].value
    BY <1>6 DEF Touched
  <2>2. \A n : Meaning(n).products = Texts(n, "products")
    BY MeaningIs, Zenon
  <2> QED
    BY <1>1, <1>6, <2>1, <2>2
<1>7. CASE member \in {"requires", "requiresPattern"}
  <2>1. "requires" # argv[k].value
    BY <1>7 DEF Touched
  <2>2. \A n : /\ Meaning(n).requires = Literals(Texts(n, "requires"))
               /\ Meaning(n).requiresPattern = Patterns(Texts(n, "requires"))
    BY MeaningIs, Zenon
  <2>3. Texts(k + c, "requires") = Texts(k - 1, "requires")
    BY <1>1, <2>1
  <2> QED
    BY <1>7, <2>2, <2>3
<1> QED
  BY <1>2, <1>3, <1>4, <1>5, <1>6, <1>7, MembersAre

\* Members that are the meaning at each name are the meaning.
LEMMA IsMeaning ==
  ASSUME NEW members, NEW n, NEW S, members = [member \in DOMAIN Defaults |-> members[member]],
         \A member \in DOMAIN Defaults \ S : members[member] = Meaning(n)[member],
         \A member \in S : members[member] = Meaning(n)[member]
  PROVE  members = Meaning(n)
<1>1. \A member \in DOMAIN Defaults : members[member] = Meaning(n)[member]
  OBVIOUS
<1>2. Meaning(n) = [member \in DOMAIN Defaults |-> Meaning(n)[member]]
  BY DEF Meaning
<1> QED
  BY <1>1, <1>2, Zenon

-----------------------------------------------------------------------------
(* One option more                                                          *)

\* The options that select instances.
SelectingNames == SelectionFlags \cup {"products", "requires", "version"}

\* What has been read are whole options of a well-formed command line: every word
\* belongs to a parameter,
Owned(n) == \A k \in 1..n : Parameters(k) # {}

\* every parameter has its arguments, except that of the last one an argument too
\* many may be left,
Whole(k, n) ==
  /\ argv[k].value \in Named
  /\ argv[k].value \in Flags => k = n \/ After(k) = <<>>
  /\ argv[k].value \in Several => After(k) # <<>> /\ k + Len(After(k)) <= n
  /\ argv[k].value \in Single => /\ After(k) # <<>> /\ k + 1 <= n
                                 /\ k + 1 = n \/ Len(After(k)) = 1
Options(n) == \A k \in Parameters(n) : Whole(k, n)

\* the arguments are allowed and nothing is given that excludes another,
Allowed(n) ==
  /\ Range(Texts(n, "format")) \subseteq Formats
  /\ Range(Texts(n, "include")) \subseteq {Packages}
  /\ Range(Texts(n, "requires")) \cap Malformed = {}
  /\ ~(Given(n, "property") /\ Given(n, "find"))

\* and an option that takes arguments has some if it is given.
Supplied(n) == \A name \in Several \cup Single : Given(n, name) <=> Texts(n, name) # <<>>

\* A parameter and those of its arguments that are read.
OptionAt(k, c) ==
  /\ k \in 1..Len(argv) /\ argv[k].kind = "parameter" /\ argv[k].value \in Named
  /\ c \in 0..Len(After(k))
  /\ argv[k].value \in Flags => c = 0
  /\ argv[k].value \in Single => c = 1
  /\ argv[k].value \in Several => c = Len(After(k)) /\ c > 0

\* The bounds of an option.
LEMMA OptionBounds ==
  ASSUME Tokens, NEW k, NEW c, OptionAt(k, c)
  PROVE  /\ k \in Nat /\ k > 0 /\ c \in Nat /\ Len(argv) \in Nat /\ Len(After(k)) \in Nat
         /\ c <= Len(After(k)) /\ k + Len(After(k)) <= Len(argv)
         /\ After(k) \in Seq(Arguments)
<1>1. k \in 1..Len(argv) /\ c \in 0..Len(After(k))
  BY DEF OptionAt
<1>2. Len(argv) \in Nat
  BY DEF Tokens
<1>3. After(k) \in Seq(Arguments) /\ k + Len(After(k)) <= Len(argv)
  BY <1>1, AfterIs
<1> QED
  BY <1>1, <1>2, <1>3

\* Every word read belongs to a parameter.
LEMMA OwnedAdvance ==
  ASSUME Tokens, NEW k, NEW c, OptionAt(k, c), Owned(k - 1)
  PROVE  Owned(k + c)
<1>1. ASSUME NEW j \in 1..(k + c) PROVE Parameters(j) # {}
  <2>1. CASE j < k
    BY <2>1, OptionBounds DEF Owned
  <2>2. CASE j >= k
    <3>1. k \in Parameters(j)
      BY <2>2, OptionBounds DEF Parameters, OptionAt
    <3> QED
      BY <3>1
  <2> QED
    BY <2>1, <2>2, OptionBounds
<1> QED
  BY <1>1 DEF Owned

\* Where the next token is a parameter no argument is too many.
LEMMA AfterEnds ==
  ASSUME Tokens, NEW k \in 1..Len(argv), NEW j \in 1..Len(argv), k < j,
         argv[j].kind = "parameter"
  PROVE  k + Len(After(k)) < j
<1>1. Len(After(k)) \in Nat
  BY AfterIs
<1> SUFFICES ASSUME k + Len(After(k)) >= j PROVE FALSE
  BY <1>1
<1> DEFINE i == j - k
<1>2. i \in 1..Len(After(k)) /\ k + i = j
  BY <1>1
<1> HIDE DEF i
<1>3. argv[k + i].kind = "argument"
  BY <1>2, AfterIs
<1> QED
  BY <1>2, <1>3

\* The options read before are whole, and so is the new one.
LEMMA OptionsAdvance ==
  ASSUME Tokens, NEW k, NEW c, OptionAt(k, c), Options(k - 1)
  PROVE  Options(k + c)
<1> DEFINE n == k - 1
           m == k + c
<1>1. /\ k \in Nat /\ k > 0 /\ c \in Nat /\ Len(argv) \in Nat /\ Len(After(k)) \in Nat
      /\ c <= Len(After(k)) /\ k + Len(After(k)) <= Len(argv) /\ k \in 1..Len(argv)
  BY OptionBounds
<1>2. \A j \in (k + 1)..m : argv[j].kind = "argument"
  BY <1>1, Belonging DEF OptionAt
<1>3. ASSUME NEW j \in Parameters(m) PROVE j \in Parameters(n) \/ j = k
  <2>1. j \in 1..m /\ argv[j].kind = "parameter"
    BY DEF Parameters
  <2>2. ~(j > k)
    BY <1>1, <1>2, <2>1
  <2> QED
    BY <1>1, <2>1, <2>2 DEF Parameters
<1>4. ASSUME NEW j \in Parameters(n) PROVE Whole(j, m)
  <2>1. Whole(j, n)
    BY DEF Options
  <2>2. j \in 1..n /\ j \in 1..Len(argv) /\ j < k /\ argv[j].kind = "parameter"
    BY <1>1 DEF Parameters
  <2>3. j + Len(After(j)) < k /\ After(j) \in Seq(Arguments) /\ Len(After(j)) \in Nat
    <3>1. k \in 1..Len(argv) /\ argv[k].kind = "parameter"
      BY DEF OptionAt
    <3>2. j + Len(After(j)) < k
      BY <2>2, <3>1, AfterEnds
    <3>3. After(j) \in Seq(Arguments)
      BY <2>2, AfterIs
    <3> QED
      BY <3>2, <3>3
  <2>4. argv[j].value \in Named
    BY <2>1 DEF Whole
  <2>5. argv[j].value \in Flags => After(j) = <<>>
    BY <1>1, <2>1, <2>2, <2>3 DEF Whole
  <2>6. argv[j].value \in Several => After(j) # <<>> /\ j + Len(After(j)) <= m
    BY <1>1, <2>1, <2>3, <2>2 DEF Whole
  <2>7. argv[j].value \in Single => After(j) # <<>> /\ j + 1 <= m /\ Len(After(j)) = 1
    <3> SUFFICES ASSUME argv[j].value \in Single
                 PROVE  After(j) # <<>> /\ j + 1 <= m /\ Len(After(j)) = 1
      OBVIOUS
    <3>1. After(j) # <<>> /\ j + 1 <= n /\ (j + 1 = n \/ Len(After(j)) = 1)
      BY <2>1 DEF Whole
    <3>2. Len(After(j)) > 0
      BY <2>3, <3>1
    <3>3. j \in Nat
      BY <2>2
    <3> DEFINE len == Len(After(j))
    <3>4. len \in Nat /\ len > 0 /\ j + len < k /\ k \in Nat
      BY <1>1, <2>3, <3>2
    <3>5. j + 1 <= m
      BY <1>1, <3>1, <3>3
    <3>6. j + 1 = n \/ len = 1
      BY <3>1
    <3> HIDE DEF len
    <3>7. len = 1
      BY <3>3, <3>4, <3>6
    <3> QED
      BY <3>1, <3>5, <3>7 DEF len
  <2> QED
    BY <2>4, <2>5, <2>6, <2>7 DEF Whole
<1>5. Whole(k, m)
  <2>1. argv[k].value \in Flags => k = m
    BY <1>1 DEF OptionAt
  <2>2. argv[k].value \in Several => After(k) # <<>> /\ k + Len(After(k)) <= m
    BY <1>1 DEF OptionAt
  <2>3. argv[k].value \in Single => After(k) # <<>> /\ k + 1 = m
    BY <1>1 DEF OptionAt
  <2> QED
    BY <1>1, <2>1, <2>2, <2>3 DEF Whole, OptionAt
<1> QED
  BY <1>3, <1>4, <1>5 DEF Options

\* The texts of the option that is read.
LEMMA OptionTexts ==
  ASSUME Tokens, NEW k, NEW c, OptionAt(k, c), NEW name
  PROVE  /\ Texts(k - 1, name) \in Seq(Arguments)
         /\ name # argv[k].value => Texts(k + c, name) = Texts(k - 1, name)
         /\ name = argv[k].value /\ name \in Single =>
              Texts(k + c, name) = Texts(k - 1, name) \o <<After(k)[1]>>
         /\ name = argv[k].value /\ name \in Several =>
              Texts(k + c, name) = Texts(k - 1, name) \o After(k)
         /\ Given(k + c, name) <=> Given(k - 1, name) \/ name = argv[k].value
<1>1. /\ k \in Nat /\ k > 0 /\ c \in Nat /\ Len(argv) \in Nat /\ Len(After(k)) \in Nat
      /\ c <= Len(After(k)) /\ After(k) \in Seq(Arguments)
      /\ k \in 1..Len(argv) /\ c \in 0..Len(After(k)) /\ argv[k].kind = "parameter"
  BY OptionBounds DEF OptionAt
<1>2. Texts(k - 1, name) \in Seq(Arguments)
  BY <1>1, TextsType
<1>3. Texts(k + c, name) =
           IF name = argv[k].value THEN Texts(k - 1, name) \o SubSeq(After(k), 1, c)
                                   ELSE Texts(k - 1, name)
  BY <1>1, TextsAdvance
<1>4. Given(k + c, name) <=> Given(k - 1, name) \/ name = argv[k].value
  BY <1>1, GivenAdvance
<1>5. name = argv[k].value /\ name \in Single => SubSeq(After(k), 1, c) = <<After(k)[1]>>
  <2> SUFFICES ASSUME name = argv[k].value, name \in Single
               PROVE  SubSeq(After(k), 1, c) = <<After(k)[1]>>
    OBVIOUS
  <2>1. c = 1 /\ Len(After(k)) >= 1
    BY <1>1 DEF OptionAt
  <2> QED
    BY <1>1, <2>1, FirstOf
<1>6. name = argv[k].value /\ name \in Several => SubSeq(After(k), 1, c) = After(k)
  BY <1>1, SubSeqFull DEF OptionAt
<1> QED
  BY <1>2, <1>3, <1>4, <1>5, <1>6

\* The option that is read is given together with its arguments.
LEMMA SuppliedAdvance ==
  ASSUME Tokens, NEW k, NEW c, OptionAt(k, c), Supplied(k - 1)
  PROVE  Supplied(k + c)
<1> SUFFICES ASSUME NEW name \in Several \cup Single
             PROVE  Given(k + c, name) <=> Texts(k + c, name) # <<>>
  BY DEF Supplied
<1>0. Given(k + c, name) <=> Given(k - 1, name) \/ name = argv[k].value
  BY OptionTexts
<1>1. Texts(k - 1, name) \in Seq(Arguments)
  BY OptionTexts
<1>2. CASE name # argv[k].value
  <2>1. Texts(k + c, name) = Texts(k - 1, name)
    BY <1>2, OptionTexts
  <2> QED
    BY <1>0, <1>2, <2>1 DEF Supplied
<1>3. CASE name = argv[k].value /\ name \in Single
  <2>1. Texts(k + c, name) = Texts(k - 1, name) \o <<After(k)[1]>>
    BY <1>3, OptionTexts
  <2>2. Len(Texts(k - 1, name)) \in Nat
    BY <1>1
  <2>3. After(k)[1] \in Arguments
    BY <1>3, OptionBounds DEF OptionAt
  <2> QED
    BY <1>0, <1>1, <1>3, <2>1, <2>2, <2>3
<1>4. CASE name = argv[k].value /\ name \in Several
  <2>1. Texts(k + c, name) = Texts(k - 1, name) \o After(k)
    BY <1>4, OptionTexts
  <2>2. Len(After(k)) > 0 /\ After(k) \in Seq(Arguments)
    BY <1>4, OptionBounds DEF OptionAt
  <2> QED
    BY <1>0, <1>1, <1>4, <2>1, <2>2
<1> QED
  BY <1>2, <1>3, <1>4

\* The arguments of the option that is read are allowed.
LEMMA AllowedAdvance ==
  ASSUME Tokens, NEW k, NEW c, OptionAt(k, c), Allowed(k - 1),
         argv[k].value = "format" => After(k)[1] \in Formats,
         argv[k].value = "include" => Range(After(k)) \subseteq {Packages},
         argv[k].value = "requires" => Range(After(k)) \cap Malformed = {},
         argv[k].value = "property" => ~Given(k - 1, "find"),
         argv[k].value = "find" => ~Given(k - 1, "property")
  PROVE  Allowed(k + c)
<1>1. \A name : Texts(k - 1, name) \in Seq(Arguments)
  BY OptionTexts
<1>2. Range(Texts(k + c, "format")) \subseteq Formats
  <2>1. CASE argv[k].value # "format"
    BY <2>1, OptionTexts DEF Allowed
  <2>2. CASE argv[k].value = "format"
    <3>1. Texts(k + c, "format") = Texts(k - 1, "format") \o <<After(k)[1]>>
      BY <2>2, OptionTexts DEF Single
    <3>2. <<After(k)[1]>> \in Seq(Arguments) /\ Range(<<After(k)[1]>>) = {After(k)[1]}
      BY <2>2, ArgumentsAssumption DEF Range
    <3> DEFINE s == Texts(k - 1, "format")
               t == <<After(k)[1]>>
    <3>3. s \in Seq(Arguments) /\ t \in Seq(Arguments)
      BY <1>1, <3>2
    <3> HIDE DEF s, t
    <3>4. Range(s \o t) = Range(s) \cup Range(t)
      BY <3>3, RangeConcat
    <3>5. Range(Texts(k + c, "format")) = Range(Texts(k - 1, "format")) \cup {After(k)[1]}
      BY <3>1, <3>2, <3>4 DEF s, t
    <3> QED
      BY <2>2, <3>5 DEF Allowed
  <2> QED
    BY <2>1, <2>2
<1>3. ASSUME NEW name \in {"include", "requires"}, argv[k].value = name
      PROVE  Range(Texts(k + c, name)) = Range(Texts(k - 1, name)) \cup Range(After(k))
  <2>1. Texts(k + c, name) = Texts(k - 1, name) \o After(k)
    BY <1>3, OptionTexts DEF Several
  <2> DEFINE s == Texts(k - 1, name)
             t == After(k)
  <2>2. s \in Seq(Arguments) /\ t \in Seq(Arguments)
    BY <1>1, OptionBounds
  <2> HIDE DEF s, t
  <2>3. Range(s \o t) = Range(s) \cup Range(t)
    BY <2>2, RangeConcat
  <2> QED
    BY <2>1, <2>3 DEF s, t
<1>4. Range(Texts(k + c, "include")) \subseteq {Packages}
  BY <1>3, OptionTexts DEF Allowed
<1>5. Range(Texts(k + c, "requires")) \cap Malformed = {}
  BY <1>3, OptionTexts DEF Allowed
<1>6. ~(Given(k + c, "property") /\ Given(k + c, "find"))
  BY OptionTexts DEF Allowed
<1> QED
  BY <1>2, <1>4, <1>5, <1>6 DEF Allowed

-----------------------------------------------------------------------------
(* The words read so far                                                    *)

\* What Parse has made of the first n words.
HasRead(n, members, selection) ==
  /\ members = Meaning(n)
  /\ selection <=> \E name \in SelectingNames : Given(n, name)
  /\ Owned(n) /\ Options(n) /\ Allowed(n) /\ Supplied(n)
\* While Parse reads, the members are what the tokens before it make of them.
Meant == pc = "parse" => HasRead(it - 1, args, hasSelection)

\* The words do not change, and what is said of them alone does not either.
LEMMA SameWords ==
  ASSUME argv' = argv
  PROVE  /\ \A n : Meaning(n)' = Meaning(n)
         /\ \A n, members, selection :
              HasRead(n, members, selection)' <=> HasRead(n, members, selection)
         /\ WholeMeaning' = WholeMeaning
         /\ WellFormed' <=> WellFormed
         /\ Texts(Len(argv), "requires")' = Texts(Len(argv), "requires")
<1>1. \A n, name : Texts(n, name)' = Texts(n, name)
  BY DEF Texts, BelongsTo, Owner, Parameters
<1>2. \A n, name : Given(n, name)' <=> Given(n, name)
  BY DEF Given
<1>3. \A n : Meaning(n)' = Meaning(n)
  BY SMT DEF Meaning, Given, LastText, Texts, BelongsTo, Owner, Parameters
<1>4. \A n : (Owned(n)' <=> Owned(n)) /\ (Options(n)' <=> Options(n))
  BY DEF Owned, Options, Whole, After, Parameters
<1>5. \A n : (Allowed(n)' <=> Allowed(n)) /\ (Supplied(n)' <=> Supplied(n))
  BY DEF Allowed, Supplied, Given, Texts, BelongsTo, Owner, Parameters
<1>6. WholeMeaning' = WholeMeaning
  BY SMT DEF WholeMeaning, AnyProduct, Meaning, Given, LastText, Texts, BelongsTo, Owner, Parameters
<1>7. \A k : Arity(k)' = Arity(k) /\ Parameters(k)' = Parameters(k)
  BY DEF Arity, Parameters
<1>8. \A n, members, selection :
        HasRead(n, members, selection)' <=> HasRead(n, members, selection)
  BY <1>2, <1>3, <1>4, <1>5 DEF HasRead
<1>9. WellFormed' <=> WellFormed
  BY <1>1, <1>2, <1>6, <1>7 DEF WellFormed
<1>10. Texts(Len(argv), "requires")' = Texts(Len(argv), "requires")
  BY DEF Texts, BelongsTo, Owner, Parameters
<1> QED
  BY <1>3, <1>6, <1>8, <1>9, <1>10

\* So it is enough to look at what is read of the same words.
LEMMA SameMeant ==
  ASSUME argv' = argv
  PROVE  Meant' <=> (pc' = "parse" => HasRead(it' - 1, args', hasSelection'))
  BY SameWords DEF Meant

-----------------------------------------------------------------------------
(* An option is read as what it means                                       *)

\* The token at it, as the option of which c arguments are read.
LEMMA OptionRead ==
  ASSUME Typed, NEW name, At(name)
  PROVE  /\ Tokens /\ it \in 1..Len(argv) /\ Len(argv) \in Nat
         /\ argv[it].kind = "parameter" /\ argv[it].value = name
         /\ name \in Flags => OptionAt(it, 0)
         /\ After(it) # <<>> /\ name \in Single => OptionAt(it, 1)
         /\ After(it) # <<>> /\ name \in Several => OptionAt(it, Len(After(it)))
<1>1. Tokens /\ it \in 1..Len(argv) /\ Len(argv) \in Nat
  BY DEF At, AtToken, Typed, TypeOK, Tokens
<1>2. argv[it].kind = "parameter" /\ argv[it].value = name
  BY DEF At, Parameter
<1>3. After(it) \in Seq(Arguments) /\ Len(After(it)) \in Nat
  BY <1>1, AfterIs
<1>4. After(it) # <<>> => Len(After(it)) > 0
  BY <1>3
<1>5. name \in Flags => OptionAt(it, 0)
  BY <1>1, <1>2, <1>3, NamedIs DEF OptionAt
<1>6. After(it) # <<>> /\ name \in Single => OptionAt(it, 1)
  BY <1>1, <1>2, <1>3, <1>4, NamedIs DEF OptionAt
<1>7. After(it) # <<>> /\ name \in Several => OptionAt(it, Len(After(it)))
  BY <1>1, <1>2, <1>3, <1>4, NamedIs DEF OptionAt
<1> QED
  BY <1>1, <1>2, <1>5, <1>6, <1>7

\* Reading an option: it is enough that the members it touches are what they mean.
LEMMA ReadMeant ==
  ASSUME Typed, Meant, AtToken, NEW c, OptionAt(it, c), NEW count, count = 1 + c,
         NEW members \in Members, NEW selects \in BOOLEAN, Read(count, members, selects),
         selects <=> argv[it].value \in SelectingNames,
         \A member \in DOMAIN Defaults \ Touched(argv[it].value) : members[member] = args[member],
         \A member \in Touched(argv[it].value) : members[member] = Meaning(it + c)[member],
         argv[it].value = "format" => After(it)[1] \in Formats,
         argv[it].value = "include" => Range(After(it)) \subseteq {Packages},
         argv[it].value = "requires" => Range(After(it)) \cap Malformed = {},
         argv[it].value = "property" => ~Given(it - 1, "find"),
         argv[it].value = "find" => ~Given(it - 1, "property")
  PROVE  Meant'
<1>1. /\ Tokens /\ pc = "parse" /\ it \in 1..Len(argv) /\ argv[it].kind = "parameter"
      /\ c \in 0..Len(After(it)) /\ it \in Nat /\ c \in Nat
  <2>1. Tokens /\ pc = "parse"
    BY DEF AtToken, Typed, TypeOK, Tokens
  <2> QED
    BY <2>1, OptionBounds DEF OptionAt
<1>2. HasRead(it - 1, args, hasSelection)
  BY <1>1 DEF Meant
<1>3. members = Meaning(it + c)
  <2>1. \A member \in DOMAIN Defaults \ Touched(argv[it].value) :
          members[member] = Meaning(it + c)[member]
    BY <1>1, <1>2, MeaningKept DEF HasRead
  <2>2. members = [member \in DOMAIN Defaults |-> members[member]]
    BY DEF Members, Defaults
  <2> QED
    BY <2>1, <2>2, IsMeaning
<1>4. hasSelection \/ selects <=> \E name \in SelectingNames : Given(it + c, name)
  <2>1. \A name : Given(it + c, name) <=> Given(it - 1, name) \/ name = argv[it].value
    BY <1>1, OptionTexts
  <2>2. hasSelection <=> \E name \in SelectingNames : Given(it - 1, name)
    BY <1>2 DEF HasRead
  <2> QED
    BY <2>1, <2>2, Zenon
<1>5. Owned(it - 1) /\ Options(it - 1) /\ Allowed(it - 1) /\ Supplied(it - 1)
  BY <1>2 DEF HasRead
<1>6. Owned(it + c) /\ Options(it + c) /\ Allowed(it + c) /\ Supplied(it + c)
  BY <1>1, <1>5, OwnedAdvance, OptionsAdvance, AllowedAdvance, SuppliedAdvance
<1>7. HasRead(it + c, members, hasSelection \/ selects)
  BY <1>3, <1>4, <1>6 DEF HasRead
<1>8. argv' = argv /\ it' - 1 = it + c /\ args' = members /\ hasSelection' = (hasSelection \/ selects)
  BY <1>1 DEF Read
<1> QED
  BY <1>7, <1>8, SameMeant

\* A flag is read as given.
LEMMA FlagMeant == ASSUME Typed, Meant, NEW name \in Flags, Flag(name) PROVE Meant'
<1> DEFINE selects == name \in SelectionFlags
           members == [args EXCEPT ![name] = TRUE]
<1>1. At(name) /\ Read(1, members, selects) /\ selects \in BOOLEAN
  BY DEF Flag
<1>2. OptionAt(it, 0) /\ argv[it].value = name /\ Tokens /\ AtToken
  BY <1>1, OptionRead DEF At
<1>3. args \in Members /\ members \in Members
  <2>1. args \in Members
    BY DEF Typed, TypeOK
  <2> QED
    BY <2>1 DEF Members, Flags, SelectionFlags, OtherFlags
<1>4. Touched(name) = {name} /\ name \in DOMAIN Defaults
  BY DEF Touched, Flags, SelectionFlags, OtherFlags, Defaults
<1>5. \A member \in DOMAIN Defaults \ Touched(name) : members[member] = args[member]
  BY <1>3, <1>4 DEF Members, Defaults
<1>6. members[name] = TRUE
  BY <1>3, <1>4 DEF Members, Defaults
<1>7. Meaning(it + 0)[name] = TRUE
  <2>1. Given(it + 0, name)
    BY <1>2, OptionTexts
  <2>2. Given(it + 0, name) = TRUE
    BY <2>1 DEF Given
  <2> QED
    BY <2>2, MeaningIs, Zenon
<1>8. selects <=> argv[it].value \in SelectingNames
  BY <1>2 DEF SelectingNames, Flags, SelectionFlags, OtherFlags
<1>9. /\ name # "format" /\ name # "include" /\ name # "requires"
      /\ name # "property" /\ name # "find"
  BY DEF Flags, SelectionFlags, OtherFlags
<1>10. 1 = 1 + 0
  OBVIOUS
<1> HIDE DEF selects, members
<1>11. /\ \A member \in DOMAIN Defaults \ Touched(argv[it].value) : members[member] = args[member]
       /\ \A member \in Touched(argv[it].value) : members[member] = Meaning(it + 0)[member]
  BY <1>2, <1>4, <1>5, <1>6, <1>7, Zenon
<1>12. /\ argv[it].value # "format" /\ argv[it].value # "include" /\ argv[it].value # "requires"
       /\ argv[it].value # "property" /\ argv[it].value # "find"
  BY <1>2, <1>9, Zenon
<1> QED
  BY <1>1, <1>2, <1>3, <1>8, <1>10, <1>11, <1>12, ReadMeant

\* An option with one argument.
LEMMA ArgumentMeant ==
  ASSUME Typed, Meant, NEW name \in Single, Takes(name), NEW members,
         members = [args EXCEPT ![name] = First], members \in Members,
         NEW selects \in BOOLEAN, Read(2, members, selects),
         selects <=> name = "version",
         name = "format" => First \in Formats,
         name = "property" => ~Given(it - 1, "find"),
         name = "find" => ~Given(it - 1, "property")
  PROVE  Meant'
<1>1. /\ OptionAt(it, 1) /\ argv[it].value = name /\ Tokens /\ AtToken
      /\ First = After(it)[1] /\ First \in Arguments
  BY OptionRead, TakesTyped DEF At, Takes, First
<1>2. Touched(name) = {name} /\ name \in DOMAIN Defaults
  BY DEF Touched, Single, Defaults
<1>3. args \in Members
  BY DEF Typed, TypeOK
<1>4. \A member \in DOMAIN Defaults \ Touched(name) : members[member] = args[member]
  BY <1>2, <1>3 DEF Members, Defaults
<1>5. members[name] = First
  BY <1>2, <1>3 DEF Members, Defaults
<1>6. Meaning(it + 1)[name] = First
  <2>1. /\ Texts(it - 1, name) \in Seq(Arguments)
        /\ Texts(it + 1, name) = Texts(it - 1, name) \o <<First>>
    BY <1>1, OptionTexts
  <2> DEFINE s == Texts(it - 1, name)
  <2> HIDE DEF s
  <2>4. s \o <<First>> # <<>> /\ Last(s \o <<First>>) = First
    BY <1>1, <2>1, LastAppended DEF s
  <2>2. Texts(it + 1, name) # <<>> /\ Last(Texts(it + 1, name)) = First
    BY <2>1, <2>4 DEF s
  <2>3. LastText(it + 1, name) = First
    BY <2>2 DEF LastText
  <2> QED
    BY <2>3, MeaningIs, Zenon
<1>7. selects <=> argv[it].value \in SelectingNames
  BY <1>1 DEF SelectingNames, Single, SelectionFlags
<1>8. name # "include" /\ name # "requires" /\ 2 = 1 + 1
  BY DEF Single
<1>9. /\ \A member \in DOMAIN Defaults \ Touched(argv[it].value) : members[member] = args[member]
      /\ \A member \in Touched(argv[it].value) : members[member] = Meaning(it + 1)[member]
  BY <1>1, <1>2, <1>4, <1>5, <1>6, Zenon
<1>10. /\ argv[it].value = "format" => After(it)[1] \in Formats
       /\ argv[it].value # "include" /\ argv[it].value # "requires"
       /\ argv[it].value = "property" => ~Given(it - 1, "find")
       /\ argv[it].value = "find" => ~Given(it - 1, "property")
  BY <1>1, <1>8, Zenon
<1> QED
  BY <1>1, <1>7, <1>8, <1>9, <1>10, ReadMeant

\* A single argument that was read is there, and no other.
LEMMA SingleGiven ==
  ASSUME Typed, NEW n \in 0..Len(argv), Tokens, Supplied(n), NEW name \in Single
  PROVE  Meaning(n)[name] # None <=> Given(n, name)
<1>1. Meaning(n)[name] = LastText(n, name)
  BY MeaningIs, Zenon
<1>2. Texts(n, name) \in Seq(Arguments)
  BY TextsType
<1>3. Texts(n, name) # <<>> => Last(Texts(n, name)) \in Arguments
  <2> SUFFICES ASSUME Texts(n, name) # <<>> PROVE Last(Texts(n, name)) \in Arguments
    OBVIOUS
  <2>1. Len(Texts(n, name)) \in 1..Len(Texts(n, name))
    BY <1>2
  <2> QED
    BY <1>2, <2>1 DEF Last
<1>4. LastText(n, name) # None <=> Texts(n, name) # <<>>
  BY <1>3, ArgumentsAssumption DEF LastText
<1> QED
  BY <1>1, <1>4 DEF Supplied

\* The options with one argument: the last one given counts.
LEMMA SinglesMeant ==
  ASSUME Typed, Meant, Version \/ Path \/ Format \/ Property \/ Find, pc' = "parse"
  PROVE  Meant'
<1>1. args \in Members
  BY DEF Typed, TypeOK
<1>2. ASSUME Takes("property") \/ Takes("find")
      PROVE  /\ args.find = None => ~Given(it - 1, "find")
             /\ args.property = None => ~Given(it - 1, "property")
  <2>1. pc = "parse" /\ it - 1 \in 0..Len(argv) /\ Tokens
    BY <1>2 DEF Takes, At, AtToken, Typed, TypeOK, Tokens
  <2>2. args = Meaning(it - 1) /\ Supplied(it - 1)
    BY <2>1 DEF Meant, HasRead
  <2>3. "property" \in Single /\ "find" \in Single
    BY DEF Single
  <2>4. \A name \in Single : Meaning(it - 1)[name] # None <=> Given(it - 1, name)
    BY <2>1, <2>2, SingleGiven
  <2> QED
    BY <2>2, <2>3, <2>4
<1>3. ASSUME NEW name \in Single, Takes(name), name # "format"
      PROVE  [args EXCEPT ![name] = First] \in Members
  <2>1. First \in Arguments /\ name \in {"version", "path", "property", "find"}
    BY <1>3, TakesTyped DEF Single
  <2> QED
    BY <1>1, <2>1 DEF Members
<1>4. CASE Version
  BY <1>3, <1>4, ArgumentMeant DEF Version, Single
<1>5. CASE Path
  BY <1>3, <1>5, ArgumentMeant DEF Path, Single
<1>6. CASE Format
  <2>1. Takes("format") /\ First \in Formats /\ Read(2, [args EXCEPT !.format = First], FALSE)
    BY <1>6 DEF Format, Reject, Stop
  <2>2. [args EXCEPT !.format = First] \in Members
    BY <1>1, <2>1 DEF Members
  <2> QED
    BY <2>1, <2>2, ArgumentMeant DEF Single
<1>7. CASE Property
  <2>1. /\ Takes("property") /\ args.find = None
        /\ Read(2, [args EXCEPT !.property = First], FALSE)
    BY <1>7 DEF Property, Reject, Stop
  <2> QED
    BY <1>2, <1>3, <2>1, ArgumentMeant DEF Single
<1>8. CASE Find
  <2>1. /\ Takes("find") /\ args.property = None
        /\ Read(2, [args EXCEPT !.find = First], FALSE)
    BY <1>8 DEF Find, Reject, Stop
  <2> QED
    BY <1>2, <1>3, <2>1, ArgumentMeant DEF Single
<1> QED
  BY <1>4, <1>5, <1>6, <1>7, <1>8

\* What ReadMeant asks of an option with several arguments.
LEMMA SeveralMeant ==
  ASSUME Typed, Meant, NEW name \in Several, Takes(name), NEW members \in Members,
         NEW selects \in BOOLEAN, Read(1 + Len(After(it)), members, selects),
         selects <=> name # "include",
         \A member \in DOMAIN Defaults \ Touched(name) : members[member] = args[member],
         \A member \in Touched(name) : members[member] = Meaning(it + Len(After(it)))[member],
         name = "include" => Range(After(it)) \subseteq {Packages},
         name = "requires" => Range(After(it)) \cap Malformed = {}
  PROVE  Meant'
<1>1. OptionAt(it, Len(After(it))) /\ argv[it].value = name /\ AtToken
  BY OptionRead DEF At, Takes
<1>2. selects <=> argv[it].value \in SelectingNames
  BY <1>1 DEF SelectingNames, Several, SelectionFlags
<1>3. /\ name # "format" /\ name # "property" /\ name # "find"
  BY DEF Several
<1>4. /\ \A member \in DOMAIN Defaults \ Touched(argv[it].value) : members[member] = args[member]
      /\ \A member \in Touched(argv[it].value) :
           members[member] = Meaning(it + Len(After(it)))[member]
      /\ argv[it].value # "format" /\ argv[it].value # "property" /\ argv[it].value # "find"
      /\ argv[it].value = "include" => Range(After(it)) \subseteq {Packages}
      /\ argv[it].value = "requires" => Range(After(it)) \cap Malformed = {}
  BY <1>1, <1>3, Zenon
<1> DEFINE c == Len(After(it))
           count == 1 + c
<1>5. OptionAt(it, c) /\ Read(count, members, selects) /\ count = 1 + c
      /\ \A member \in Touched(argv[it].value) : members[member] = Meaning(it + c)[member]
  BY <1>1, <1>4
<1> HIDE DEF c, count
<1> QED
  BY <1>1, <1>2, <1>4, <1>5, ReadMeant

\* The texts before an option with several arguments, and with them.
LEMMA SeveralTexts ==
  ASSUME Typed, Meant, NEW name \in Several, Takes(name)
  PROVE  /\ args = Meaning(it - 1) /\ args \in Members
         /\ Texts(it - 1, name) \in Seq(Arguments) /\ After(it) \in Seq(Arguments)
         /\ Texts(it + Len(After(it)), name) = Texts(it - 1, name) \o After(it)
<1>1. OptionAt(it, Len(After(it))) /\ argv[it].value = name /\ pc = "parse" /\ Tokens
  BY OptionRead DEF At, Takes, AtToken
<1>2. args = Meaning(it - 1) /\ args \in Members
  BY <1>1 DEF Meant, HasRead, Typed, TypeOK
<1>3. After(it) \in Seq(Arguments)
  BY <1>1, TakesTyped
<1>4. /\ Texts(it - 1, name) \in Seq(Arguments)
      /\ Texts(it + Len(After(it)), name) = Texts(it - 1, name) \o After(it)
  BY <1>1, OptionTexts
<1> QED
  BY <1>2, <1>3, <1>4

\* -products: the texts of every -products, one after the other.
LEMMA ProductsMeant == ASSUME Typed, Meant, Products PROVE Meant'
<1> DEFINE members == [args EXCEPT !.products = @ \o After(it)]
<1>1. Takes("products") /\ Read(1 + Len(After(it)), members, TRUE)
  BY DEF Products
<1>2. "products" \in Several /\ Touched("products") = {"products"}
  BY DEF Several, Touched
<1>3. /\ args = Meaning(it - 1) /\ args \in Members /\ After(it) \in Seq(Arguments)
      /\ Texts(it + Len(After(it)), "products") = Texts(it - 1, "products") \o After(it)
  BY <1>1, <1>2, SeveralTexts
<1>4. args.products \o After(it) \in Seq(Arguments)
  <2>1. args.products \in Seq(Arguments)
    BY <1>3 DEF Members
  <2> QED
    BY <1>3, <2>1
<1>5. members \in Members /\ members.products = args.products \o After(it)
  BY <1>3, <1>4 DEF Members
<1>6. \A member \in DOMAIN Defaults \ {"products"} : members[member] = args[member]
  BY <1>3 DEF Members, Defaults
<1>7. \A n : Meaning(n).products = Texts(n, "products")
  BY MeaningIs, Zenon
<1>8. members.products = Meaning(it + Len(After(it))).products
  BY <1>3, <1>5, <1>7
<1>9. /\ \A member \in DOMAIN Defaults \ Touched("products") : members[member] = args[member]
      /\ \A member \in Touched("products") : members[member] = Meaning(it + Len(After(it)))[member]
  BY <1>2, <1>6, <1>8
<1> HIDE DEF members
<1> QED
  BY <1>1, <1>2, <1>5, <1>9, SeveralMeant

\* -include packages.
LEMMA IncludeMeant == ASSUME Typed, Meant, Include, pc' = "parse" PROVE Meant'
<1> DEFINE members == [args EXCEPT !.includePackages = TRUE]
<1>1. /\ Takes("include") /\ Range(After(it)) = {Packages}
      /\ Read(1 + Len(After(it)), members, FALSE)
  BY DEF Include
<1>2. "include" \in Several /\ Touched("include") = {"includePackages"}
  BY DEF Several, Touched
<1>3. /\ args = Meaning(it - 1) /\ args \in Members /\ After(it) \in Seq(Arguments)
      /\ Texts(it - 1, "include") \in Seq(Arguments)
      /\ Texts(it + Len(After(it)), "include") = Texts(it - 1, "include") \o After(it)
  BY <1>1, <1>2, SeveralTexts
<1>4. Packages \in Range(Texts(it + Len(After(it)), "include"))
  <2> DEFINE s == Texts(it - 1, "include")
             t == After(it)
  <2> HIDE DEF s, t
  <2>1. Range(s \o t) = Range(s) \cup Range(t)
    BY <1>3, RangeConcat DEF s, t
  <2> QED
    BY <1>1, <1>3, <2>1 DEF s, t
<1>5. members \in Members /\ members.includePackages = TRUE
  BY <1>3 DEF Members
<1>6. \A member \in DOMAIN Defaults \ {"includePackages"} : members[member] = args[member]
  BY <1>3 DEF Members, Defaults
<1>7. \A n : Meaning(n).includePackages = (Packages \in Range(Texts(n, "include")))
  BY MeaningIs, Zenon
<1>8. members.includePackages = Meaning(it + Len(After(it))).includePackages
  BY <1>4, <1>5, <1>7
<1>9. /\ \A member \in DOMAIN Defaults \ Touched("include") : members[member] = args[member]
      /\ \A member \in Touched("include") : members[member] = Meaning(it + Len(After(it)))[member]
  BY <1>2, <1>6, <1>8
<1> HIDE DEF members
<1> QED
  BY <1>1, <1>2, <1>5, <1>9, SeveralMeant

\* -requires: the literals and the patterns of every -requires.
LEMMA RequiresMeant == ASSUME Typed, Meant, Requires, pc' = "parse" PROVE Meant'
<1> DEFINE literals == Literals(After(it))
           patterns == Patterns(After(it))
           members == [args EXCEPT !.requires = @ \o literals, !.requiresPattern = @ \o patterns]
           n == it + Len(After(it))
           s == Texts(it - 1, "requires")
           t == After(it)
<1>1. /\ Takes("requires") /\ Range(After(it)) \cap Malformed = {}
      /\ Read(1 + Len(After(it)), members, TRUE)
  BY DEF Requires, Stop
<1>2. "requires" \in Several /\ Touched("requires") = {"requires", "requiresPattern"}
  BY DEF Several, Touched
<1>3. /\ args = Meaning(it - 1) /\ args \in Members /\ t \in Seq(Arguments)
      /\ s \in Seq(Arguments) /\ Texts(n, "requires") = s \o t
  BY <1>1, <1>2, SeveralTexts
<1> HIDE DEF n, s, t
<1>4. \A m : /\ Meaning(m).requires = Literals(Texts(m, "requires"))
             /\ Meaning(m).requiresPattern = Patterns(Texts(m, "requires"))
  BY MeaningIs, Zenon
<1>5. /\ Literals(s \o t) = Literals(s) \o Literals(t)
      /\ Patterns(s \o t) = Patterns(s) \o Patterns(t)
  BY <1>3, ThoseConcat DEF Literals, Patterns
<1>6. /\ literals = Literals(t) /\ patterns = Patterns(t)
      /\ literals \in Seq(Arguments) /\ patterns \in Seq(Arguments)
  <2>1. Literals(t) \in Seq(Arguments) /\ Patterns(t) \in Seq(Arguments)
    BY <1>3, ThoseType DEF Literals, Patterns
  <2> QED
    BY <2>1 DEF t
<1> HIDE DEF literals, patterns
<1>7. args.requires = Literals(s) /\ args.requiresPattern = Patterns(s)
  BY <1>3, <1>4 DEF s
<1>8. args.requires \o literals \in Seq(Arguments) /\ args.requiresPattern \o patterns \in Seq(Arguments)
  <2>1. args.requires \in Seq(Arguments) /\ args.requiresPattern \in Seq(Arguments)
    BY <1>3 DEF Members
  <2> QED
    BY <1>6, <2>1
<1>9. /\ members \in Members /\ members.requires = args.requires \o literals
      /\ members.requiresPattern = args.requiresPattern \o patterns
  BY <1>3, <1>8 DEF Members
<1>10. \A member \in DOMAIN Defaults \ {"requires", "requiresPattern"} : members[member] = args[member]
  BY <1>3 DEF Members, Defaults
<1> HIDE DEF members
<1>11. members.requires = Meaning(n).requires /\ members.requiresPattern = Meaning(n).requiresPattern
  BY <1>3, <1>4, <1>5, <1>6, <1>7, <1>9
<1>12. /\ \A member \in DOMAIN Defaults \ Touched("requires") : members[member] = args[member]
       /\ \A member \in Touched("requires") : members[member] = Meaning(it + Len(After(it)))[member]
  BY <1>2, <1>10, <1>11 DEF n
<1> QED
  BY <1>1, <1>2, <1>9, <1>12, SeveralMeant

-----------------------------------------------------------------------------
(* Why a line is refused                                                    *)

\* The text of an argument is among the texts of the name it belongs to.
LEMMA InTexts ==
  ASSUME Tokens, NEW name, NEW j \in 1..Len(argv), BelongsTo(j, name)
  PROVE  argv[j].value \in Range(Texts(Len(argv), name))
<1> DEFINE v == argv[j].value
           T == {n \in Nat : j + n <= Len(argv) => v \in Range(Texts(j + n, name))}
<1>1. Len(argv) \in Nat /\ j \in Nat /\ v \in Arguments
  <2>1. Len(argv) \in Nat
    BY DEF Tokens
  <2>2. v \in Arguments
    BY TokenKind DEF BelongsTo
  <2> QED
    BY <2>1, <2>2
<1> HIDE DEF v
<1>2. ASSUME NEW n \in 1..Len(argv)
      PROVE  /\ Texts(n - 1, name) \in Seq(Arguments)
             /\ Range(Texts(n - 1, name)) \subseteq Range(Texts(n, name))
             /\ BelongsTo(n, name) => argv[n].value \in Range(Texts(n, name))
  <2> DEFINE s == Texts(n - 1, name)
             t == IF BelongsTo(n, name) THEN <<argv[n].value>> ELSE <<>>
  <2>1. s \in Seq(Arguments) /\ Texts(n, name) = s \o t
    BY TextsStep
  <2>2. t \in Seq(Arguments)
    <3>1. BelongsTo(n, name) => argv[n].value \in Arguments
      BY TokenKind DEF BelongsTo
    <3> QED
      BY <3>1
  <2>3. BelongsTo(n, name) => argv[n].value \in Range(t)
    BY DEF Range
  <2> HIDE DEF s, t
  <2>4. Range(s \o t) = Range(s) \cup Range(t)
    BY <2>1, <2>2, RangeConcat
  <2> QED
    BY <2>1, <2>3, <2>4 DEF s
<1>3. 0 \in T
  <2>1. v \in Range(Texts(j, name))
    BY <1>2 DEF v
  <2> QED
    BY <1>1, <2>1
<1>4. ASSUME NEW n \in Nat, n \in T PROVE n + 1 \in T
  <2> SUFFICES ASSUME j + (n + 1) <= Len(argv) PROVE v \in Range(Texts(j + (n + 1), name))
    OBVIOUS
  <2>1. v \in Range(Texts(j + n, name))
    BY <1>1, <1>4
  <2> DEFINE m == j + (n + 1)
  <2>2. m \in 1..Len(argv) /\ m - 1 = j + n
    BY <1>1
  <2> HIDE DEF m, T
  <2>3. Range(Texts(m - 1, name)) \subseteq Range(Texts(m, name))
    BY <1>2, <2>2
  <2> QED
    BY <2>1, <2>2, <2>3 DEF m
<1> DEFINE last == Len(argv) - j
<1>5. last \in Nat /\ j + last = Len(argv)
  BY <1>1
<1>6. last \in T
  <2> HIDE DEF T, last
  <2> QED
    BY <1>3, <1>4, <1>5, SetInduction
<1> QED
  BY <1>5, <1>6 DEF v

\* The arguments after an option are among its texts in the whole line.
LEMMA AfterInTexts ==
  ASSUME Tokens, NEW k \in 1..Len(argv), argv[k].kind = "parameter"
  PROVE  Range(After(k)) \subseteq Range(Texts(Len(argv), argv[k].value))
<1> SUFFICES ASSUME NEW i \in 1..Len(After(k))
             PROVE  After(k)[i] \in Range(Texts(Len(argv), argv[k].value))
  <2>1. DOMAIN After(k) = 1..Len(After(k))
    BY AfterIs
  <2> QED
    BY <2>1 DEF Range
<1> DEFINE j == k + i
<1>1. /\ After(k) \in Seq(Arguments) /\ k + Len(After(k)) <= Len(argv)
      /\ argv[j].value = After(k)[i]
  BY AfterIs
<1>2. j \in 1..Len(argv) /\ j \in (k + 1)..(k + Len(After(k)))
  <2>1. Len(argv) \in Nat /\ Len(After(k)) \in Nat
    BY <1>1 DEF Tokens
  <2> QED
    BY <1>1, <2>1
<1> HIDE DEF j
<1>3. BelongsTo(j, argv[k].value)
  BY <1>2, Belonging
<1> QED
  BY <1>1, <1>2, <1>3, InTexts

\* A parameter has as many arguments as follow it.
LEMMA ArityIs ==
  ASSUME Tokens, NEW k \in 1..Len(argv), argv[k].kind = "parameter"
  PROVE  Arity(k) = Len(After(k))
<1> DEFINE len == Len(After(k))
<1>1. len \in Nat /\ k + len <= Len(argv) /\ Len(argv) \in Nat
  <2>1. Len(argv) \in Nat
    BY DEF Tokens
  <2>2. After(k) \in Seq(Arguments) /\ k + Len(After(k)) <= Len(argv)
    BY AfterIs
  <2> QED
    BY <2>1, <2>2
<1>2. ASSUME NEW j \in (k + 1)..Len(argv), Parameters(j) = Parameters(k)
      PROVE  j <= k + len
  <2> SUFFICES ASSUME j > k + len PROVE FALSE
    BY <1>1
  <2> DEFINE p == k + len + 1
  <2>1. argv[p].kind = "parameter" /\ p \in 1..j /\ p > k
    <3>1. k + len < Len(argv)
      BY <1>1
    <3>2. argv[p].kind = "parameter"
      BY <3>1, AfterIs
    <3> QED
      BY <1>1, <3>2
  <2>2. p \in Parameters(j) /\ p \notin Parameters(k)
    BY <1>1, <2>1 DEF Parameters
  <2> QED
    BY <1>2, <2>2
<1>3. \A j \in (k + 1)..(k + len) : argv[j].kind = "argument" /\ Parameters(j) = Parameters(k)
  BY Belonging
<1>4. {j \in (k + 1)..Len(argv) : argv[j].kind = "argument" /\ Parameters(j) = Parameters(k)}
        = (k + 1)..(k + len)
  <2> HIDE DEF len
  <2> QED
    BY <1>1, <1>2, <1>3
<1>5. Cardinality((k + 1)..(k + len)) = len
  <2> HIDE DEF len
  <2>1. k + 1 \in Int /\ k + len \in Int
    BY <1>1
  <2> DEFINE a == k + 1
             b == k + len
  <2>2. a \in Int /\ b \in Int
    BY <2>1
  <2> HIDE DEF a, b
  <2>3. Cardinality(a..b) = IF a > b THEN 0 ELSE b - a + 1
    BY <2>2, FS_Interval
  <2> QED
    BY <1>1, <2>3 DEF a, b
<1> QED
  BY <1>4, <1>5 DEF Arity

\* Every parameter of the line is one of Parameters(Len(argv)).
LEMMA ParameterOf ==
  ASSUME Tokens, NEW k \in 1..Len(argv), argv[k].kind = "parameter"
  PROVE  k \in Parameters(Len(argv))
<1>1. Len(argv) \in Nat
  BY DEF Tokens
<1> QED
  BY <1>1 DEF Parameters

\* What WellFormed says of the parameters, by the arguments that follow them.
LEMMA WellFormedOption ==
  ASSUME Tokens, WellFormed, NEW k \in 1..Len(argv), argv[k].kind = "parameter"
  PROVE  /\ argv[k].value \in Named
         /\ argv[k].value \in Flags => Len(After(k)) = 0
         /\ argv[k].value \in Several => Len(After(k)) > 0
         /\ argv[k].value \in Single => Len(After(k)) = 1
<1>1. k \in Parameters(Len(argv)) /\ Arity(k) = Len(After(k))
  BY ParameterOf, ArityIs
<1>2. /\ argv[k].value \in Named
      /\ argv[k].value \in Flags => Arity(k) = 0
      /\ argv[k].value \in Several => Arity(k) > 0
      /\ argv[k].value \in Single => Arity(k) = 1
  BY <1>1, Zenon DEF WellFormed, Several, Single
<1> QED
  BY <1>1, <1>2

\* A parameter whose name nobody knows, or without the argument it needs.
LEMMA BadParameter == ASSUME Typed, Unknown \/ ArgumentRequired PROVE ~WellFormed
<1>1. Tokens /\ it \in 1..Len(argv) /\ argv[it].kind = "parameter"
  <2>1. Tokens /\ it \in 1..Len(argv)
    BY DEF Unknown, ArgumentRequired, At, AtToken, Typed, TypeOK, Tokens
  <2> QED
    BY <2>1 DEF Unknown, ArgumentRequired, At, Parameter
<1> SUFFICES ASSUME WellFormed PROVE FALSE
  OBVIOUS
<1>2. /\ argv[it].value \in Named
      /\ argv[it].value \in Several \cup Single => Len(After(it)) > 0
  BY <1>1, WellFormedOption
<1>3. CASE Unknown
  BY <1>2, <1>3, NamedIs DEF Unknown, At, Parameter
<1>4. CASE ArgumentRequired
  <2>1. argv[it].value \in Several \cup Single /\ After(it) = <<>>
    BY <1>4, NamedIs DEF ArgumentRequired
  <2> QED
    BY <1>2, <2>1
<1> QED
  BY <1>3, <1>4

\* An argument where a parameter is expected is one too many for the option before
\* it, or there is no option before it.
LEMMA TooManyArguments == ASSUME Typed, Meant, UnexpectedArgument PROVE ~WellFormed
<1>1. Tokens /\ it \in 1..Len(argv) /\ it \in Nat /\ Len(argv) \in Nat /\ argv[it].kind = "argument"
      /\ pc = "parse"
  BY DEF UnexpectedArgument, AtToken, Typed, TypeOK, Tokens
<1> SUFFICES ASSUME WellFormed PROVE FALSE
  OBVIOUS
<1>2. Parameters(it) # {} /\ Parameters(it) \subseteq Nat
  BY <1>1 DEF WellFormed, Parameters
<1>3. PICK k \in Parameters(it) : \A i \in Parameters(it) : i <= k
  <2> DEFINE S == {it - i : i \in Parameters(it)}
  <2>1. S \subseteq Nat /\ S # {}
    BY <1>1, <1>2 DEF Parameters
  <2>2. PICK d \in S : \A e \in S : d <= e
    <3> HIDE DEF S
    <3> QED
      BY <2>1, Least
  <2>3. PICK k \in Parameters(it) : d = it - k
    BY <2>2
  <2>4. ASSUME NEW i \in Parameters(it) PROVE i <= k
    <3>1. it - k <= it - i
      BY <2>2, <2>3
    <3> QED
      BY <1>1, <1>2, <3>1
  <2> QED
    BY <2>4
<1>4. k \in 1..Len(argv) /\ k < it /\ argv[k].kind = "parameter" /\ k \in Parameters(it - 1) /\ k \in Nat
  BY <1>1 DEF Parameters
<1> DEFINE len == Len(After(k))
<1>5. len \in Nat /\ k + len <= Len(argv)
  <2>1. After(k) \in Seq(Arguments) /\ k + Len(After(k)) <= Len(argv)
    BY <1>1, <1>4, AfterIs
  <2> QED
    BY <2>1
<1>6. it <= k + len
  <2> SUFFICES ASSUME k + len < it PROVE FALSE
    BY <1>1, <1>4, <1>5
  <2> DEFINE p == k + len + 1
  <2>1. argv[p].kind = "parameter"
    BY <1>1, <1>4, <1>5, AfterIs
  <2>2. p \in 1..it /\ p > k
    BY <1>1, <1>4, <1>5
  <2>3. p \in Parameters(it)
    BY <2>1, <2>2 DEF Parameters
  <2> HIDE DEF p
  <2> QED
    BY <1>3, <1>4, <2>2, <2>3
<1>7. /\ argv[k].value \in Named
      /\ argv[k].value \in Flags => len = 0
      /\ argv[k].value \in Single => len = 1
  BY <1>1, <1>4, WellFormedOption
<1>8. Whole(k, it - 1)
  BY <1>1, <1>4 DEF Meant, HasRead, Options
<1>9. CASE argv[k].value \in Flags
  BY <1>1, <1>4, <1>6, <1>7, <1>9
<1>10. CASE argv[k].value \in Several
  <2>1. k + len <= it - 1
    BY <1>8, <1>10 DEF Whole
  <2> QED
    BY <1>1, <1>4, <1>5, <1>6, <2>1
<1>11. CASE argv[k].value \in Single
  <2>1. k + 1 <= it - 1 /\ len = 1
    BY <1>7, <1>8, <1>11 DEF Whole
  <2> QED
    BY <1>1, <1>4, <1>6, <2>1
<1> QED
  BY <1>7, <1>9, <1>10, <1>11, NamedIs

\* An argument that the option before it does not allow.
LEMMA BadArgument ==
  ASSUME Typed, Meant, Format \/ Property \/ Find \/ Include, pc' = "rejected"
  PROVE  ~WellFormed
<1> SUFFICES ASSUME WellFormed PROVE FALSE
  OBVIOUS
<1>1. PICK name \in {"format", "property", "find", "include"} : Takes(name)
  BY DEF Format, Property, Find, Include
<1>2. /\ Tokens /\ it \in 1..Len(argv) /\ argv[it] = Parameter(name) /\ pc = "parse"
      /\ argv[it].kind = "parameter" /\ argv[it].value = name /\ it \in Nat /\ Len(argv) \in Nat
  BY <1>1, OptionRead DEF Takes, At, AtToken
<1>3. Range(After(it)) \subseteq Range(Texts(Len(argv), name))
  BY <1>2, AfterInTexts
<1>4. After(it) \in Seq(Arguments) /\ Len(After(it)) > 0 /\ First \in Range(After(it))
  <2>1. After(it) \in Seq(Arguments) /\ Len(After(it)) > 0
    BY <1>1, TakesTyped
  <2>2. 1 \in DOMAIN After(it)
    BY <2>1
  <2> QED
    BY <2>1, <2>2 DEF First, Range
<1>5. CASE Format
  <2>1. At("format") /\ First \notin Formats
    BY <1>2, <1>5 DEF Format, Read, Takes
  <2>2. name = "format"
    BY <1>2, <2>1 DEF At, Parameter
  <2>3. Range(Texts(Len(argv), "format")) \subseteq Formats
    BY Zenon DEF WellFormed
  <2> QED
    BY <1>3, <1>4, <2>1, <2>2, <2>3
<1>6. CASE Include
  <2>1. At("include") /\ Range(After(it)) # {Packages}
    BY <1>2, <1>6 DEF Include, Read, Takes
  <2>2. name = "include"
    BY <1>2, <2>1 DEF At, Parameter
  <2>3. Range(Texts(Len(argv), "include")) \subseteq {Packages}
    BY Zenon DEF WellFormed
  <2> QED
    BY <1>3, <1>4, <2>1, <2>2, <2>3
<1>7. it - 1 \in 0..Len(argv) /\ args = Meaning(it - 1) /\ Supplied(it - 1)
  BY <1>2 DEF Meant, HasRead
<1>8. ASSUME NEW other \in {"property", "find"}, args[other] # None
      PROVE  Given(Len(argv), other)
  <2>1. Given(it - 1, other)
    BY <1>2, <1>7, <1>8, SingleGiven DEF Single
  <2> QED
    BY <1>2, <2>1 DEF Given
<1>9. ~(Given(Len(argv), "property") /\ Given(Len(argv), "find"))
  BY Zenon DEF WellFormed
<1>10. Given(Len(argv), name)
  BY <1>2 DEF Given
<1>11. CASE Property
  <2>1. At("property") /\ args.find # None
    BY <1>2, <1>11 DEF Property, Read, Takes
  <2>2. name = "property"
    BY <1>2, <2>1 DEF At, Parameter
  <2> QED
    BY <1>8, <1>9, <1>10, <2>1, <2>2
<1>12. CASE Find
  <2>1. At("find") /\ args.property # None
    BY <1>2, <1>12 DEF Find, Read, Takes
  <2>2. name = "find"
    BY <1>2, <2>1 DEF At, Parameter
  <2> QED
    BY <1>8, <1>9, <1>10, <2>1, <2>2
<1> QED
  BY <1>5, <1>6, <1>11, <1>12

\* A required pattern that is no regular expression.
LEMMA BadPattern ==
  ASSUME Typed, Requires, pc' = "terminated"
  PROVE  Range(Texts(Len(argv), "requires")) \cap Malformed # {}
<1>1. Takes("requires") /\ AtToken /\ pc = "parse" /\ Range(After(it)) \cap Malformed # {}
  BY DEF Requires, Read, Takes, At, AtToken
<1>2. /\ Tokens /\ it \in 1..Len(argv) /\ argv[it].kind = "parameter"
      /\ argv[it].value = "requires"
  BY <1>1, OptionRead DEF Takes
<1>3. Range(After(it)) \subseteq Range(Texts(Len(argv), "requires"))
  BY <1>2, AfterInTexts
<1> QED
  BY <1>1, <1>3

-----------------------------------------------------------------------------
(* The last part                                                            *)

\* After the last word the members are completed to what the whole line means.
LEMMA CompletedIsWhole ==
  ASSUME Typed, Tokens, HasRead(Len(argv), args, hasSelection)
  PROVE  /\ DefaultFormat(ClearProducts(args)) = WholeMeaning
         /\ LegacyConflict(ClearProducts(args)) <=>
              /\ WholeMeaning.legacy
              /\ WholeMeaning.products # <<>> \/ WholeMeaning.requires # <<>>
         /\ WholeMeaning.requiresPattern = args.requiresPattern
<1> DEFINE n == Len(argv)
<1>1. n \in 0..Len(argv) /\ args = Meaning(n) /\ args \in Members /\ Supplied(n)
  BY DEF HasRead, Typed, TypeOK
<1>2. /\ args.productsAll = FALSE /\ args.products = Texts(n, "products")
  BY <1>1, MeaningIs, Zenon
<1>3. /\ args.property # None <=> Given(n, "property")
      /\ args.find # None <=> Given(n, "find")
  BY <1>1, SingleGiven DEF Single
<1>4. AnyProduct <=> Star \in Range(args.products)
  BY <1>2 DEF AnyProduct
<1> DEFINE any == Star \in Range(args.products)
           value == args.format = None /\ (args.property # None \/ args.find # None)
           cleared == [args EXCEPT !.productsAll = TRUE, !.products = <<>>]
<1>5. WholeMeaning = [args EXCEPT !.productsAll = any,
                                  !.products = IF any THEN <<>> ELSE args.products,
                                  !.format = IF value THEN Value ELSE args.format]
  <2>1. AnyProduct = any
    BY <1>4 DEF AnyProduct
  <2>2. (args.format = None /\ (Given(n, "property") \/ Given(n, "find"))) <=> value
    BY <1>3
  <2> HIDE DEF any, value
  <2>3. WholeMeaning =
          [args EXCEPT !.productsAll = AnyProduct,
                       !.products = IF AnyProduct THEN <<>> ELSE args.products,
                       !.format = IF args.format = None /\ (Given(n, "property") \/ Given(n, "find"))
                                    THEN Value ELSE args.format]
    BY <1>1 DEF WholeMeaning
  <2> QED
    BY <2>1, <2>2, <2>3
<1>6. ClearProducts(args) = IF any THEN cleared ELSE args
  BY DEF ClearProducts
<1> HIDE DEF n
<1>7. CASE any
  <2>1. WholeMeaning = [args EXCEPT !.productsAll = TRUE, !.products = <<>>,
                                    !.format = IF value THEN Value ELSE args.format]
    BY <1>5, <1>7
  <2>2. ClearProducts(args) = cleared
    BY <1>6, <1>7
  <2>3. cleared.property = args.property /\ cleared.find = args.find /\ cleared.format = args.format
        /\ cleared.products = <<>> /\ cleared.legacy = args.legacy /\ cleared.requires = args.requires
        /\ DOMAIN cleared = DOMAIN args
    BY <1>1 DEF Members
  <2>4. DefaultFormat(cleared) = IF value THEN [cleared EXCEPT !.format = Value] ELSE cleared
    <3> HIDE DEF cleared
    <3> QED
      BY <2>3 DEF DefaultFormat
  <2>5. DefaultFormat(cleared) = WholeMeaning
    <3> HIDE DEF value, any
    <3> QED
      BY <1>1, <2>1, <2>4 DEF Members
  <2>6. /\ WholeMeaning.legacy = args.legacy /\ WholeMeaning.products = <<>>
        /\ WholeMeaning.requires = args.requires
        /\ WholeMeaning.requiresPattern = args.requiresPattern
    <3> HIDE DEF value, any
    <3> QED
      BY <1>1, <2>1 DEF Members
  <2> HIDE DEF cleared
  <2> QED
    BY <2>2, <2>3, <2>5, <2>6 DEF LegacyConflict
<1>8. CASE ~any
  <2>1. WholeMeaning = [args EXCEPT !.productsAll = FALSE, !.products = args.products,
                                    !.format = IF value THEN Value ELSE args.format]
    <3>1. any = FALSE
      BY <1>8
    <3> HIDE DEF any, value
    <3> QED
      BY <1>5, <3>1
  <2>2. ClearProducts(args) = args
    BY <1>6, <1>8
  <2>4. DefaultFormat(args) = IF value THEN [args EXCEPT !.format = Value] ELSE args
    BY DEF DefaultFormat
  <2>5. DefaultFormat(args) = WholeMeaning
    <3>1. args = [member \in DOMAIN args |-> args[member]] /\ args.productsAll = FALSE
      BY <1>1, <1>2 DEF Members
    <3>2. \A f : [args EXCEPT !.productsAll = FALSE, !.products = args.products, !.format = f]
                   = [args EXCEPT !.format = f]
      BY <3>1
    <3>3. [args EXCEPT !.format = args.format] = args
      BY <3>1
    <3> HIDE DEF value, any
    <3>4. WholeMeaning = [args EXCEPT !.format = IF value THEN Value ELSE args.format]
      BY <2>1, <3>2
    <3> QED
      BY <2>4, <3>3, <3>4
  <2>6. /\ WholeMeaning.legacy = args.legacy /\ WholeMeaning.products = args.products
        /\ WholeMeaning.requires = args.requires
        /\ WholeMeaning.requiresPattern = args.requiresPattern
    <3> HIDE DEF value, any
    <3> QED
      BY <1>1, <2>1 DEF Members
  <2> QED
    BY <2>2, <2>5, <2>6 DEF LegacyConflict
<1> QED
  BY <1>7, <1>8

\* The end of the line is reached with whole options only.
LEMMA WholeOption ==
  ASSUME Tokens, Options(Len(argv)), NEW k \in Parameters(Len(argv))
  PROVE  /\ argv[k].value \in Named
         /\ argv[k].value \in Flags => Arity(k) = 0
         /\ argv[k].value \in Several => Arity(k) > 0
         /\ argv[k].value \in Single => Arity(k) = 1
<1> DEFINE len == Len(After(k))
           all == Len(argv)
<1>1. k \in 1..Len(argv) /\ argv[k].kind = "parameter" /\ Whole(k, all)
  BY DEF Parameters, Options
<1>2. After(k) \in Seq(Arguments) /\ k + Len(After(k)) <= Len(argv) /\ Arity(k) = Len(After(k))
  BY <1>1, AfterIs, ArityIs
<1>3. /\ len \in Nat /\ all \in Nat /\ k \in Nat /\ k + len <= all /\ Arity(k) = len
      /\ After(k) = <<>> <=> len = 0
  BY <1>1, <1>2 DEF Tokens
<1>4. /\ argv[k].value \in Named
      /\ argv[k].value \in Flags => k = all \/ After(k) = <<>>
      /\ argv[k].value \in Several => After(k) # <<>>
      /\ argv[k].value \in Single => After(k) # <<>> /\ k + 1 <= all /\ (k + 1 = all \/ len = 1)
  BY <1>1 DEF Whole
<1> HIDE DEF len, all
<1> QED
  BY <1>3, <1>4

\* The last part accepts exactly the well-formed lines, as what they mean.
LEMMA FinishMeant ==
  ASSUME Typed, Meant, Finish
  PROVE  /\ pc' = "accepted" => /\ args' = WholeMeaning /\ WellFormed
                                /\ Range(args'.requiresPattern) \cap Malformed = {}
         /\ pc' = "rejected" => ~WellFormed
<1> DEFINE n == Len(argv)
<1>1. /\ Tokens /\ pc = "parse" /\ it - 1 = n /\ n \in 0..n
      /\ args \in Members
  BY DEF Finish, Typed, TypeOK, Tokens
<1>2. HasRead(n, args, hasSelection)
  BY <1>1 DEF Meant
<1>3. /\ DefaultFormat(ClearProducts(args)) = WholeMeaning
      /\ LegacyConflict(ClearProducts(args)) <=>
           WholeMeaning.legacy /\ (WholeMeaning.products # <<>> \/ WholeMeaning.requires # <<>>)
      /\ WholeMeaning.requiresPattern = args.requiresPattern
  BY <1>1, <1>2, CompletedIsWhole
<1> DEFINE cleared == ClearProducts(args)
<1>4. /\ args' = IF LegacyConflict(cleared) THEN cleared ELSE DefaultFormat(cleared)
      /\ pc' = IF LegacyConflict(cleared) \/ PathConflict(cleared) THEN "rejected" ELSE "accepted"
  BY DEF Finish
<1>5. cleared.path = args.path
  BY <1>1 DEF ClearProducts, Members
<1>6. PathConflict(cleared) <=> /\ Given(n, "path")
                                /\ \E name \in SelectingNames : Given(n, name)
  <2>1. args = Meaning(n) /\ Supplied(n) /\ (hasSelection <=> \E name \in SelectingNames : Given(n, name))
    BY <1>2 DEF HasRead
  <2>2. args.path # None <=> Given(n, "path")
    BY <1>1, <2>1, SingleGiven DEF Single
  <2> HIDE DEF cleared
  <2> QED
    BY <1>5, <2>1, <2>2 DEF PathConflict
<1> HIDE DEF cleared
<1>7. ASSUME pc' = "rejected" PROVE ~WellFormed
  <2>1. LegacyConflict(cleared) \/ PathConflict(cleared)
    BY <1>4, <1>7
  <2>2. CASE LegacyConflict(cleared)
    BY <1>3, <2>2, Zenon DEF WellFormed, cleared
  <2>3. CASE PathConflict(cleared)
    BY <1>6, <2>3, Zenon DEF WellFormed, SelectingNames
  <2> QED
    BY <2>1, <2>2, <2>3
<1>8. ASSUME pc' = "accepted"
      PROVE  /\ args' = WholeMeaning /\ WellFormed
             /\ Range(args'.requiresPattern) \cap Malformed = {}
  <2>1. ~LegacyConflict(cleared) /\ ~PathConflict(cleared) /\ args' = WholeMeaning
    BY <1>3, <1>4, <1>8 DEF cleared
  <2>2. Owned(n) /\ Options(n) /\ Allowed(n) /\ args = Meaning(n)
    BY <1>2 DEF HasRead
  <2>3. EmptyWord \notin Range(argv)
    BY <1>1 DEF Tokens
  <2>4. \A k \in 1..n : Parameters(k) # {}
    BY <2>2 DEF Owned
  <2>5. \A k \in Parameters(n) :
           /\ argv[k].value \in Named
           /\ argv[k].value \in Flags => Arity(k) = 0
           /\ argv[k].value \in {"products", "requires", "include"} => Arity(k) > 0
           /\ argv[k].value \in {"version", "path", "format", "property", "find"} => Arity(k) = 1
    BY <1>1, <2>2, WholeOption DEF Several, Single
  <2>6. /\ Range(Texts(n, "format")) \subseteq Formats
        /\ Range(Texts(n, "include")) \subseteq {Packages}
        /\ Range(Texts(n, "requires")) \cap Malformed = {}
        /\ ~(Given(n, "property") /\ Given(n, "find"))
    BY <2>2 DEF Allowed
  <2>7. WholeMeaning.legacy => WholeMeaning.products = <<>> /\ WholeMeaning.requires = <<>>
    BY <1>3, <2>1 DEF cleared
  <2>8. Given(n, "path") =>
           \A name \in SelectionFlags \cup {"products", "requires", "version"} : ~Given(n, name)
    BY <1>6, <2>1 DEF SelectingNames
  <2>9. WellFormed
    BY <2>3, <2>4, <2>5, <2>6, <2>7, <2>8, Zenon DEF WellFormed
  <2>10. Range(args'.requiresPattern) \subseteq Range(Texts(n, "requires"))
    <3>1. args'.requiresPattern = Patterns(Texts(n, "requires"))
      <4>1. \A m : Meaning(m).requiresPattern = Patterns(Texts(m, "requires"))
        BY MeaningIs, Zenon
      <4> QED
        BY <1>3, <2>1, <2>2, <4>1
    <3>2. Texts(n, "requires") \in Seq(Arguments)
      BY <1>1, TextsType
    <3> QED
      BY <3>1, <3>2, ThoseRange DEF Patterns
  <2> QED
    BY <2>1, <2>6, <2>9, <2>10
<1> QED
  BY <1>7, <1>8

-----------------------------------------------------------------------------
(* The words and their meaning                                              *)

\* Nothing was read of no words.
LEMMA NothingRead ==
  ASSUME Tokens
  PROVE  HasRead(0, Defaults, FALSE)
<1>1. \A name : Texts(0, name) = <<>> /\ ~Given(0, name)
  BY TextsStep DEF Given
<1>2. \A S : Those(S, <<>>) = <<>>
  <2>1. \A S : [k \in DOMAIN <<>> |-> IF <<>>[k] \in S THEN <<(<<>>[k])>> ELSE <<>>] = <<>>
    OBVIOUS
  <2> QED
    BY <2>1, FlattenEmpty DEF Those
<1>3. Literals(<<>>) = <<>> /\ Patterns(<<>>) = <<>>
  BY <1>2 DEF Literals, Patterns
<1>4. Range(<<>>) = {}
  BY DEF Range
<1>5. Defaults = Meaning(0)
  <2>1. ASSUME NEW member \in DOMAIN Defaults PROVE Defaults[member] = Meaning(0)[member]
    <3>1. CASE member \in Flags
      <4>1. Defaults[member] = FALSE
        BY <3>1 DEF Defaults, Flags, SelectionFlags, OtherFlags
      <4>2. Given(0, member) = FALSE
        BY <1>1 DEF Given
      <4> QED
        BY <3>1, <4>1, <4>2, MeaningIs, Zenon
    <3>2. CASE member \in Single
      <4>1. Defaults[member] = None
        BY <3>2 DEF Defaults, Single
      <4>2. LastText(0, member) = None
        BY <1>1 DEF LastText
      <4> QED
        BY <3>2, <4>1, <4>2, MeaningIs, Zenon
    <3>3. /\ Meaning(0).includePackages = (Packages \in Range(Texts(0, "include")))
          /\ Meaning(0).productsAll = FALSE
          /\ Meaning(0).products = Texts(0, "products")
          /\ Meaning(0).requires = Literals(Texts(0, "requires"))
          /\ Meaning(0).requiresPattern = Patterns(Texts(0, "requires"))
      BY MeaningIs, Zenon
    <3>4. CASE member \in {"includePackages", "productsAll", "products", "requires", "requiresPattern"}
      <4>1. /\ Defaults.includePackages = FALSE /\ Defaults.productsAll = FALSE
            /\ Defaults.products = <<>> /\ Defaults.requires = <<>>
            /\ Defaults.requiresPattern = <<>>
        BY DEF Defaults
      <4>2. Meaning(0).includePackages = FALSE
        <5>1. Range(Texts(0, "include")) = {}
          BY <1>1, <1>4
        <5>2. (Packages \in {}) = FALSE
          OBVIOUS
        <5> QED
          BY <3>3, <5>1, <5>2
      <4> QED
        BY <1>1, <1>3, <3>3, <3>4, <4>1, <4>2
    <3> QED
      BY <3>1, <3>2, <3>4, MembersAre
  <2>2. Defaults = [member \in DOMAIN Defaults |-> Defaults[member]]
    BY DEF Defaults
  <2>3. \A member \in DOMAIN Defaults \ {} : Defaults[member] = Meaning(0)[member]
    BY <2>1
  <2>4. \A member \in {} : Defaults[member] = Meaning(0)[member]
    OBVIOUS
  <2> QED
    BY <2>2, <2>3, <2>4, IsMeaning
<1>6. Owned(0) /\ Options(0)
  BY DEF Owned, Options, Parameters
<1>7. Allowed(0) /\ Supplied(0)
  BY <1>1, <1>4 DEF Allowed, Supplied
<1> QED
  BY <1>1, <1>5, <1>6, <1>7 DEF HasRead

\* What Parse keeps: before the first token nothing is read, and then what it read is
\* what the words up to it mean.
WInv ==
  /\ Typed
  /\ pc = "tokenize" => it = 1 /\ args = Defaults /\ hasSelection = FALSE
  /\ Meant
  /\ pc = "accepted" => args = WholeMeaning
  /\ AcceptsWellFormed

\* Initially nothing is read.
LEMMA InitWInv == Init => WInv
  BY InitTyped DEF WInv, Meant, AcceptsWellFormed, Init

\* Every step reads one option more as what it means, or refuses for a reason.
LEMMA NextWInv == WInv /\ [Next]_vars => WInv'
<1> SUFFICES ASSUME WInv, [Next]_vars PROVE WInv'
  OBVIOUS
<1>1. Typed' /\ Typed /\ Meant
  BY NextTyped DEF WInv
<1>3. ASSUME pc \in {"parse", "tokenize"}, argv' = argv, pc' = "rejected", ~WellFormed
      PROVE  WInv'
  <2>1. ~WellFormed'
    BY <1>3, SameWords
  <2> QED
    BY <1>1, <1>3, <2>1 DEF WInv, Meant, AcceptsWellFormed
<1>4. ASSUME argv' = argv, pc' = "parse", Meant'
      PROVE  WInv'
  BY <1>1, <1>4 DEF WInv, AcceptsWellFormed
<1>5. CASE Tokenize
  <2>1. CASE EmptyWord \in Range(argv)
    <3>1. ~WellFormed
      BY <2>1, Zenon DEF WellFormed
    <3> QED
      BY <1>3, <1>5, <2>1, <3>1 DEF Tokenize, Reject, Stop
  <2>2. CASE EmptyWord \notin Range(argv)
    <3>1. Tokens /\ it = 1 /\ args = Defaults /\ hasSelection = FALSE /\ Stop("parse")
      BY <1>5, <2>2 DEF Tokenize, WInv, Typed, TypeOK, Tokens
    <3>2. HasRead(0, Defaults, FALSE)
      BY <3>1, NothingRead
    <3>3. argv' = argv /\ pc' = "parse" /\ it' - 1 = 0 /\ args' = Defaults /\ hasSelection' = FALSE
      BY <3>1 DEF Stop
    <3>4. Meant'
      BY <3>2, <3>3, SameMeant
    <3> QED
      BY <1>4, <3>3, <3>4
  <2> QED
    BY <2>1, <2>2
<1>6. CASE UnexpectedArgument \/ Unknown \/ ArgumentRequired
  <2>1. ~WellFormed
    BY <1>1, <1>6, TooManyArguments, BadParameter
  <2> QED
    BY <1>3, <1>6, <2>1 DEF UnexpectedArgument, Unknown, ArgumentRequired, At, AtToken, Reject, Stop
<1>7. CASE \E name \in Flags : Flag(name)
  <2>1. Meant'
    BY <1>1, <1>7, FlagMeant
  <2> QED
    BY <1>4, <1>7, <2>1 DEF Flag, At, AtToken, Read
<1>8. CASE Version \/ Path
  <2>1. argv' = argv /\ pc' = "parse"
    BY <1>8 DEF Version, Path, Takes, At, AtToken, Read
  <2> QED
    BY <1>1, <1>4, <1>8, <2>1, SinglesMeant
<1>9. CASE Format \/ Property \/ Find \/ Include
  <2>1. argv' = argv /\ pc = "parse" /\ pc' \in {"parse", "rejected"}
    BY <1>9 DEF Format, Property, Find, Include, Takes, At, AtToken, Read, Reject, Stop
  <2>2. CASE pc' = "parse"
    BY <1>1, <1>4, <1>9, <2>1, <2>2, SinglesMeant, IncludeMeant
  <2>3. CASE pc' = "rejected"
    BY <1>1, <1>3, <1>9, <2>1, <2>3, BadArgument
  <2> QED
    BY <2>1, <2>2, <2>3
<1>10. CASE Products
  BY <1>1, <1>4, <1>10, ProductsMeant DEF Products, Takes, At, AtToken, Read
<1>11. CASE Requires
  <2>1. argv' = argv /\ pc' \in {"parse", "terminated"}
    BY <1>11 DEF Requires, Takes, At, AtToken, Read, Stop
  <2>2. CASE pc' = "parse"
    BY <1>1, <1>4, <1>11, <2>1, <2>2, RequiresMeant
  <2>3. CASE pc' = "terminated"
    <3>1. Range(Texts(Len(argv), "requires")) \cap Malformed # {}
      BY <1>1, <1>11, <2>3, BadPattern
    <3>2. (Range(Texts(Len(argv), "requires")) \cap Malformed # {})'
      BY <2>1, <3>1, SameWords
    <3> QED
      BY <1>1, <2>3, <3>2 DEF WInv, Meant, AcceptsWellFormed
  <2> QED
    BY <2>1, <2>2, <2>3
<1>12. CASE Finish
  <2>1. argv' = argv /\ pc = "parse" /\ pc' \in {"accepted", "rejected"}
    BY <1>12 DEF Finish
  <2>2. CASE pc' = "rejected"
    BY <1>1, <1>3, <1>12, <2>1, <2>2, FinishMeant
  <2>3. CASE pc' = "accepted"
    <3>1. args' = WholeMeaning /\ WellFormed /\ Range(args'.requiresPattern) \cap Malformed = {}
      BY <1>1, <1>12, <2>3, FinishMeant
    <3>2. args' = WholeMeaning' /\ WellFormed'
      BY <2>1, <3>1, SameWords
    <3> QED
      BY <1>1, <2>3, <3>1, <3>2 DEF WInv, Meant, AcceptsWellFormed
  <2> QED
    BY <2>1, <2>2, <2>3
<1>13. CASE Done \/ UNCHANGED vars
  <2>1. argv' = argv /\ UNCHANGED <<pc, it, args, hasSelection>>
    BY <1>13 DEF Done, vars
  <2>2. /\ WholeMeaning' = WholeMeaning /\ (WellFormed' <=> WellFormed)
        /\ Texts(Len(argv), "requires")' = Texts(Len(argv), "requires")
    BY <2>1, SameWords
  <2>3. Meant'
    BY <1>1, <2>1, SameMeant DEF Meant
  <2> QED
    BY <1>1, <2>1, <2>2, <2>3 DEF WInv, AcceptsWellFormed
<1> QED
  BY <1>5, <1>6, <1>7, <1>8, <1>9, <1>10, <1>11, <1>12, <1>13 DEF Next

\* A name that has a text was given.
LEMMA TextIsGiven ==
  ASSUME argv \in Seq(Words), NEW name, Texts(Len(argv), name) # <<>>
  PROVE  Given(Len(argv), name)
<1> DEFINE c == Len(argv)
           V == {argv[k].value : k \in 1..c}
           f == [k \in 1..c |-> IF BelongsTo(k, name) THEN <<argv[k].value>> ELSE <<>>]
<1>1. c \in Nat /\ \A k \in 1..c : argv[k] \in Words
  OBVIOUS
<1>2. f \in [1..c -> Seq(V)]
  <2>1. \A k \in 1..c : argv[k].value \in V
    OBVIOUS
  <2> HIDE DEF V
  <2>2. \A k \in 1..c : <<argv[k].value>> \in Seq(V) /\ <<>> \in Seq(V)
    BY <2>1
  <2> QED
    BY <2>2
<1>3. PICK k \in 1..c : BelongsTo(k, name)
  <2> SUFFICES ASSUME \A k \in 1..c : ~BelongsTo(k, name) PROVE FALSE
    OBVIOUS
  <2>1. \A k \in 1..c : f[k] = <<>>
    OBVIOUS
  <2>2. FlattenSeq(f) # <<>>
    BY DEF Texts
  <2> HIDE DEF f, c, V
  <2>3. \A W : f \in [1..c -> Seq(W)] => FlattenSeq(f) = FlattenSeq([i \in 1..0 |-> f[i]])
    <3>1. 0 \in 0..c /\ \A i \in (0 + 1)..c : f[i] = <<>>
      BY <1>1, <2>1
    <3> QED
      BY <1>1, <3>1, FlattenRest, Zenon
  <2>4. [i \in 1..0 |-> f[i]] = <<>>
    OBVIOUS
  <2> QED
    BY <1>2, <2>2, <2>3, <2>4, FlattenEmpty
<1>4. Parameters(k) # {} /\ Parameters(k) \subseteq 1..k
  BY <1>3 DEF BelongsTo, Parameters
<1>5. \E j \in Parameters(k) : \A i \in Parameters(k) : i <= j
  <2> DEFINE G == {k - j : j \in Parameters(k)}
  <2>1. G \subseteq Nat /\ G # {}
    BY <1>4
  <2> HIDE DEF G
  <2>2. PICK g \in G : \A h \in G : g <= h
    BY <2>1, Least
  <2>3. PICK j \in Parameters(k) : g = k - j
    BY <2>2 DEF G
  <2>4. \A i \in Parameters(k) : k - i \in G
    BY DEF G
  <2>5. \A i \in Parameters(k) : k - j <= k - i
    BY <2>2, <2>3, <2>4
  <2> QED
    BY <1>4, <2>3, <2>5
<1>6. PICK j \in Parameters(k) : argv[j].value = name
  BY <1>3, <1>5 DEF BelongsTo, Owner
<1>7. j \in 1..c /\ argv[j].kind = "parameter"
  BY <1>1, <1>4 DEF Parameters
<1>8. argv[j] = Parameter(name)
  BY <1>1, <1>6, <1>7 DEF Words, Parameter, Argument, EmptyWord
<1> QED
  BY <1>7, <1>8 DEF Given

\* At every step the members are what the words read so far mean whatever their
\* order, and an accepted line means the same in every order of its options.
THEOREM Meaningful == Spec => []MeansItsWords
<1>1. WInv => MeansItsWords
  BY DEF WInv, Meant, HasRead, MeansItsWords
<1> QED
  BY <1>1, InitWInv, NextWInv, PTL DEF Spec

\* Parse accepts exactly the well-formed lines, for every line of any words; it ends
\* the program only for a required pattern that is no regular expression.
THEOREM Acceptance == Spec => []AcceptsWellFormed
<1>1. WInv => AcceptsWellFormed
  BY DEF WInv
<1> QED
  BY <1>1, InitWInv, NextWInv, PTL DEF Spec
=============================================================================
