-------------------------- MODULE FileSearchProofs --------------------------
(***************************************************************************)
(* Proofs about the search for files: of the constructor of Glob that only *)
(* a word that names a drive leads the root of the search out of the       *)
(* installation path, that it refuses what is invalid and that what it     *)
(* compiles finds what the pattern denotes, for every pattern; of the walk *)
(* that it finds all that stays, and once, for any files and any changes   *)
(* of them; and of what is written that it is in order.                    *)
(***************************************************************************)
EXTENDS FileSearch, FiniteSetTheorems, TLAPS

Lemmas == INSTANCE SequenceLemmas

\* What the constructor needs to know of a name it appends to the root: without a
\* wildcard the piece at hand is the literals of the segment.
LiteralUntilWild == ~foundWildcard => value = valueRaw

IInv == TypeOK /\ LiteralUntilWild

\* Where the root of an instance is.
LEMMA HomeType == \A drive \in RootNames : Home(drive) \in Bases
BY CharactersAssumption DEF Home, Bases

\* The constructor begins as it must.
LEMMA InitIInv == Init => IInv
  <1> SUFFICES ASSUME Init PROVE IInv
    OBVIOUS
  <1>1. /\ <<>> \in Seq(Seq(Literals)) /\ <<>> \in Seq(Pieces) /\ <<>> \in Seq(Literals)
        /\ <<Sep>> \in Seq(Pieces)
    BY DEF Pieces
  <1>2. pattern \in Seq(Characters)
    BY PatternsAssumption DEF Init
  <1>3. 1 \in 1..(Len(pattern) + 1) /\ <<>> # <<Star, Star>>
    BY <1>2
  <1>4. TypeOK
    BY <1>1, <1>3, HomeType DEF Init, TypeOK
  <1> QED
    BY <1>4 DEF Init, IInv, LiteralUntilWild

\* What is read of a position inside the pattern.
LEMMA AtType ==
  ASSUME TypeOK, NEW chars, At(chars)
  PROVE  /\ ch \in Characters /\ ch \in chars
         /\ it + 1 \in 1..(Len(pattern) + 1)
         /\ pattern \in Seq(Characters)
  <1>1. pattern \in Seq(Characters)
    BY PatternsAssumption DEF TypeOK
  <1>2. it \in 1..Len(pattern)
    BY <1>1 DEF TypeOK, At
  <1> QED
    BY <1>1, <1>2 DEF At, ch

\* The piece at hand, a lone star made one of a name.
LEMMA PieceType ==
  ASSUME TypeOK
  PROVE  Piece \in Seq(Pieces)
  <1>1. <<NamePart>> \in Seq(Pieces)
    BY DEF Pieces
  <1> QED
    BY <1>1 DEF TypeOK, Piece

\* A piece that is not a star at the end of what is at hand makes it no globstar.
LEMMA NoGlobstar ==
  ASSUME NEW v \in Seq(Pieces), NEW p \in Pieces \ {Star}
  PROVE  Append(v, p) \in Seq(Pieces) /\ Append(v, p) # <<Star, Star>>
  <1>1. Append(v, p) \in Seq(Pieces)
    OBVIOUS
  <1>2. ASSUME Append(v, p) = <<Star, Star>> PROVE FALSE
    <2>1. Len(Append(v, p)) = 2 /\ Append(v, p)[2] = Star
      BY <1>2
    <2>2. Append(v, p)[Len(v) + 1] = p /\ Len(v) + 1 = 2
      BY <2>1
    <2> QED
      BY <2>1, <2>2
  <1> QED
    BY <1>1, <1>2

\* A name is entered.
LEMMA EnterType ==
  ASSUME NEW from \in Bases, NEW names \in Seq(Seq(Literals)), NEW name \in Seq(Literals),
         Enter(from, names, name)
  PROVE  base' \in Bases /\ root' \in Seq(Seq(Literals))
  <1>1. base' \in Bases
    <2>1. \/ base' = [from EXCEPT !.bare = TRUE]
          \/ base' = [from EXCEPT !.bare = FALSE]
          \/ base' = [from EXCEPT !.bare = FALSE, !.above = @ + 1]
      BY DEF Enter
    <2>2. from.above + 1 \in Nat
      BY DEF Bases
    <2>3. \A bare \in BOOLEAN : [from EXCEPT !.bare = bare] \in Bases
      BY DEF Bases
    <2>4. \A b \in Bases, n \in Nat : [b EXCEPT !.above = n] \in Bases
      BY DEF Bases
    <2> QED
      BY <2>1, <2>2, <2>3, <2>4
  <1>2. root' \in Seq(Seq(Literals))
    <2>1. CASE names # <<>> /\ root' = SubSeq(names, 1, Len(names) - 1)
      <3>1. Len(names) \in Nat /\ \A j \in 1..Len(names) : names[j] \in Seq(Literals)
        OBVIOUS
      <3> QED
        BY <2>1, <3>1
    <2>2. CASE root' = names
      BY <2>2
    <2>3. CASE root' = Append(names, name)
      BY <2>3
    <2> QED
      BY <2>1, <2>2, <2>3 DEF Enter
  <1> QED
    BY <1>1, <1>2

\* A word is joined to the root; one that names no drive and is no dots is appended.
LEMMA JoinType ==
  ASSUME TypeOK, NEW word \in Seq(Literals), Join(word)
  PROVE  /\ base' \in Bases /\ root' \in Seq(Seq(Literals))
         /\ ~NamesDrive(word) /\ word \notin {<<>>, <<Dot>>, <<Dot, Dot>>} =>
              root' = Append(root, word) /\ base' = [base EXCEPT !.bare = FALSE]
  <1>1. base \in Bases /\ root \in Seq(Seq(Literals)) /\ <<>> \in Seq(Seq(Literals))
    BY DEF TypeOK
  <1>2. CASE ~NamesDrive(word)
    <2>1. Enter(base, root, word)
      BY <1>2 DEF Join
    <2> QED
      BY <1>1, <2>1, EnterType DEF Enter
  <1>3. CASE NamesDrive(word)
    <2>1. AfterDrive(word) \in Seq(Literals)
      BY <1>3 DEF NamesDrive, AfterDrive
    <2>2. Current(word[1]) \in Bases
      BY <1>3 DEF NamesDrive, Current, Bases
    <2>3. Enter(base, root, AfterDrive(word)) \/ Enter(Current(word[1]), <<>>, AfterDrive(word))
      BY <1>3 DEF Join
    <2> QED
      BY <1>1, <1>3, <2>1, <2>2, <2>3, EnterType
  <1> QED
    BY <1>2, <1>3

\* Each character of a pattern keeps the invariant of the constructor.
LEMMA StepIInv == IInv /\ [Next]_vars => IInv'
  <1> SUFFICES ASSUME IInv, [Next]_vars PROVE IInv'
    OBVIOUS
  <1> USE DEF scan
  <1>t. TypeOK /\ LiteralUntilWild
    BY DEF IInv
  <1>e. <<>> \in Seq(Pieces) /\ <<>> \in Seq(Literals) /\ <<>> # <<Star, Star>>
    OBVIOUS
  <1>p. Sep \in Pieces /\ Deep \in Pieces /\ Rest \in Pieces
    BY DEF Pieces
  <1>throw. ASSUME Throw PROVE IInv'
    <2>1. TypeOK'
      BY <1>throw, <1>t DEF Throw, TypeOK
    <2> QED
      BY <2>1, <1>throw, <1>t DEF Throw, LiteralUntilWild, IInv
  <1>1. CASE RepeatedSeparator
    <2>1. TypeOK'
      BY <1>1, <1>t, AtType DEF RepeatedSeparator, Continue, TypeOK
    <2> QED
      BY <2>1, <1>1, <1>t DEF RepeatedSeparator, LiteralUntilWild, IInv
  <1>2. CASE NoSegment
    <2>1. accumulator' \in Seq(Pieces)
      BY <1>2, <1>t, <1>p DEF NoSegment, TypeOK
    <2>2. TypeOK'
      BY <2>1, <1>2, <1>t, AtType DEF NoSegment, AfterSegment, Advance, TypeOK
    <2> QED
      BY <2>2, <1>2, <1>t DEF NoSegment, LiteralUntilWild, IInv
  <1>3. CASE EndGlobstar
    <2>1. accumulator' \in Seq(Pieces)
      BY <1>3, <1>t, <1>p DEF EndGlobstar, TypeOK
    <2>2. TypeOK'
      BY <2>1, <1>3, <1>t, <1>e, AtType DEF EndGlobstar, AfterSegment, Advance, Clear, TypeOK
    <2> QED
      BY <2>2, <1>3, <1>t DEF EndGlobstar, Clear, LiteralUntilWild, IInv
  <1>4. CASE CurrentDirectory
    <2>1. TypeOK'
      BY <1>4, <1>t, <1>e, AtType DEF CurrentDirectory, AfterSegment, Continue, Clear, TypeOK
    <2> QED
      BY <2>1, <1>4, <1>t DEF CurrentDirectory, Clear, LiteralUntilWild, IInv
  <1>5. CASE ParentDirectory
    BY <1>5, <1>throw DEF ParentDirectory
  <1>6. CASE EndSegment
    <2>1. accumulator' \in Seq(Pieces)
      <3>1. Append(Piece, Sep) \in Seq(Pieces)
        BY <1>t, <1>p, PieceType
      <3>2. accumulator' = accumulator \o Append(Piece, Sep) \/ accumulator' = accumulator
        BY <1>6, <1>t DEF EndSegment, TypeOK
      <3>3. accumulator \o Append(Piece, Sep) \in Seq(Pieces) /\ accumulator \in Seq(Pieces)
        BY <3>1, <1>t DEF TypeOK
      <3> QED
        BY <3>2, <3>3
    <2>2. base' \in Bases /\ root' \in Seq(Seq(Literals))
      BY <1>6, <1>t, JoinType DEF EndSegment, TypeOK
    <2>3. TypeOK'
      BY <2>1, <2>2, <1>6, <1>t, <1>e, AtType DEF EndSegment, AfterSegment, Advance, Clear, TypeOK
    <2>4. LiteralUntilWild'
      BY <1>6 DEF EndSegment, Clear, LiteralUntilWild
    <2> QED
      BY <2>3, <2>4 DEF IInv
  <1>7. CASE FirstStar
    <2>1. <<Star>> \in Seq(Pieces) /\ <<Star>> # <<Star, Star>> /\ ~foundGlobstar
      BY <1>7, <1>t, <1>e DEF FirstStar, TypeOK, Pieces
    <2>2. TypeOK'
      BY <2>1, <1>7, <1>t, AtType DEF FirstStar, Advance, TypeOK
    <2> QED
      BY <2>2, <1>7, <1>t DEF FirstStar, LiteralUntilWild, IInv
  <1>8. CASE SecondStar
    <2>1. <<Star, Star>> \in Seq(Pieces)
      BY DEF Pieces
    <2>2. TypeOK'
      BY <2>1, <1>8, <1>t, AtType DEF SecondStar, Advance, TypeOK
    <2> QED
      BY <2>2, <1>8, <1>t DEF SecondStar, LiteralUntilWild, IInv
  <1>9. CASE LaterStar
    <2>1. CASE lastch = Star
      BY <2>1, <1>9, <1>throw DEF LaterStar
    <2>2. CASE lastch # Star
      <3>1. NamePart \in Pieces \ {Star}
        BY CharactersAssumption DEF Pieces
      <3>2. value' \in Seq(Pieces) /\ value' # <<Star, Star>>
        BY <2>2, <3>1, <1>9, <1>t, NoGlobstar DEF LaterStar, TypeOK
      <3>3. TypeOK'
        BY <2>2, <3>2, <1>9, <1>t, AtType DEF LaterStar, Advance, TypeOK
      <3> QED
        BY <2>2, <3>3, <1>9, <1>t DEF LaterStar, LiteralUntilWild, IInv
    <2> QED
      BY <2>1, <2>2
  <1>10. CASE AnyCharacter
    <2>1. NotSep \in Pieces \ {Star}
      BY CharactersAssumption DEF Pieces
    <2>2. value' \in Seq(Pieces) /\ value' # <<Star, Star>>
      BY <2>1, <1>10, <1>t, NoGlobstar DEF AnyCharacter, TypeOK
    <2>3. TypeOK'
      BY <2>2, <1>10, <1>t, AtType DEF AnyCharacter, Advance, TypeOK
    <2> QED
      BY <2>3, <1>10, <1>t DEF AnyCharacter, LiteralUntilWild, IInv
  <1>11. CASE AfterGlobstar
    BY <1>11, <1>throw DEF AfterGlobstar
  <1>12. CASE InvalidCharacter
    BY <1>12, <1>throw DEF InvalidCharacter
  <1>13. CASE Literal
    <2>1. ch \in Literals /\ ch \in Pieces \ {Star}
      BY <1>13, <1>t, AtType, CharactersAssumption DEF Literal, Pieces
    <2>2. accumulator' \in Seq(Pieces)
      BY <1>13, <1>t, PieceType DEF Literal, TypeOK
    <2>3. value' \in Seq(Pieces) /\ value' # <<Star, Star>>
      <3>1. <<ch>> \in Seq(Pieces) /\ <<ch>> # <<Star, Star>>
        BY <2>1
      <3>2. Append(value, ch) \in Seq(Pieces) /\ Append(value, ch) # <<Star, Star>>
        BY <2>1, <1>t, NoGlobstar DEF TypeOK
      <3> QED
        BY <3>1, <3>2, <1>13 DEF Literal
    <2>4. valueRaw' \in Seq(Literals)
      BY <2>1, <1>13, <1>t DEF Literal, TypeOK
    <2>5. TypeOK'
      BY <2>2, <2>3, <2>4, <1>13, <1>t, AtType DEF Literal, Advance, TypeOK
    <2>6. LiteralUntilWild'
      BY <1>13, <1>t DEF Literal, LiteralUntilWild
    <2> QED
      BY <2>5, <2>6 DEF IInv
  <1>14. CASE Compile
    <2>1. accumulator' \in Seq(Pieces)
      <3>1. <<Rest>> \in Seq(Pieces)
        BY <1>p
      <3> QED
        BY <3>1, <1>14, <1>t DEF Compile, TypeOK
    <2>2. TypeOK'
      BY <2>1, <1>14, <1>t DEF Compile, TypeOK
    <2> QED
      BY <2>2, <1>14, <1>t DEF Compile, LiteralUntilWild, IInv
  <1>15. CASE Done \/ UNCHANGED vars
    BY <1>15, <1>t DEF Done, vars, IInv, TypeOK, LiteralUntilWild
  <1> QED
    BY <1>1, <1>2, <1>3, <1>4, <1>5, <1>6, <1>7, <1>8, <1>9, <1>10, <1>11, <1>12, <1>13, <1>14,
       <1>15 DEF Next, Step

-----------------------------------------------------------------------------
(* Paths                                                                    *)

\* A path as far as its first n names.
Cut(path, n) == SubSeq(path, 1, n)

\* The first n names of a path, cut again, and all of them.
LEMMA CutIs ==
  ASSUME NEW T, NEW p \in Seq(T), NEW n \in 0..Len(p)
  PROVE  /\ Cut(p, n) \in Seq(T) /\ Len(Cut(p, n)) = n
         /\ \A m \in 0..n : Cut(Cut(p, n), m) = Cut(p, m)
         /\ Cut(p, Len(p)) = p
<1>1. Len(p) \in Nat
  OBVIOUS
<1>2. Cut(p, n) \in Seq(T) /\ Len(Cut(p, n)) = n /\ \A m \in 1..n : Cut(p, n)[m] = p[m]
  BY <1>1 DEF Cut
<1>3. ASSUME NEW m \in 0..n PROVE Cut(Cut(p, n), m) = Cut(p, m)
  <2>1. /\ Cut(p, m) \in Seq(T) /\ Len(Cut(p, m)) = m
        /\ \A j \in 1..m : Cut(p, m)[j] = p[j]
    BY <1>1 DEF Cut
  <2>2. /\ Cut(Cut(p, n), m) \in Seq(T) /\ Len(Cut(Cut(p, n), m)) = m
        /\ \A j \in 1..m : Cut(Cut(p, n), m)[j] = Cut(p, n)[j]
    BY <1>1, <1>2 DEF Cut
  <2>3. \A j \in 1..m : Cut(Cut(p, n), m)[j] = Cut(p, m)[j]
    BY <1>2, <2>1, <2>2
  <2> QED
    BY <2>1, <2>2, <2>3
<1>4. Cut(p, Len(p)) = p
  <2>1. /\ Cut(p, Len(p)) \in Seq(T) /\ Len(Cut(p, Len(p))) = Len(p)
        /\ \A j \in 1..Len(p) : Cut(p, Len(p))[j] = p[j]
    BY <1>1 DEF Cut
  <2> QED
    BY <2>1
<1> QED
  BY <1>2, <1>3, <1>4

\* Parents and prefixes are cut off.
LEMMA ParentIsCut == ASSUME NEW T, NEW p \in Seq(T) PROVE Parent(p) = Cut(p, Len(p) - 1)
BY DEF Parent, S!Front, Cut

\* A path is strictly below another that is cut from it.
LEMMA PrefixIsCut ==
  ASSUME NEW T, NEW s \in Seq(T), NEW p \in Seq(T)
  PROVE  S!IsStrictPrefix(s, p) <=> Len(s) < Len(p) /\ Cut(p, Len(s)) = s
<1>1. Len(s) \in Nat /\ Len(p) \in Nat /\ Cut(s, Len(s)) = s /\ Cut(p, Len(p)) = p
  BY CutIs
<1> QED
  BY <1>1 DEF S!IsStrictPrefix, S!IsPrefix, Cut

\* Two paths put together come apart again.
LEMMA SplitConcat ==
  ASSUME NEW T, NEW s \in Seq(T), NEW t \in Seq(T)
  PROVE  /\ s \o t \in Seq(T) /\ Len(s \o t) = Len(s) + Len(t)
         /\ Cut(s \o t, Len(s)) = s
         /\ SubSeq(s \o t, Len(s) + 1, Len(s \o t)) = t
<1> DEFINE both == s \o t
<1>1. /\ both \in Seq(T) /\ Len(both) = Len(s) + Len(t) /\ Len(s) \in Nat /\ Len(t) \in Nat
      /\ \A j \in 1..Len(s) : both[j] = s[j]
      /\ \A j \in 1..Len(t) : both[Len(s) + j] = t[j]
  OBVIOUS
<1> HIDE DEF both
<1>2. Cut(both, Len(s)) = s
  <2>1. /\ Cut(both, Len(s)) \in Seq(T) /\ Len(Cut(both, Len(s))) = Len(s)
        /\ \A j \in 1..Len(s) : Cut(both, Len(s))[j] = both[j]
    BY <1>1 DEF Cut
  <2> QED
    BY <1>1, <2>1
<1>3. SubSeq(both, Len(s) + 1, Len(both)) = t
  <2> DEFINE u == SubSeq(both, Len(s) + 1, Len(both))
  <2>1. u \in Seq(T) /\ Len(u) = Len(t) /\ \A j \in 1..Len(t) : u[j] = both[Len(s) + j]
    BY <1>1
  <2> HIDE DEF u
  <2>2. u = t
    BY <1>1, <2>1
  <2> QED
    BY <2>2 DEF u
<1> QED
  BY <1>1, <1>2, <1>3 DEF both

-----------------------------------------------------------------------------
(* The walk                                                                 *)

\* A walk is under way.
Walking == search \in {"walk", "visit"}

\* A walk, and the constructor before it, are for an instance whose path is known.
ForInstance ==
  search \in {"compile", "walk", "visit"} =>
    k \in DOMAIN InstallationPaths /\ InstallationPaths[k] # NoPath

\* A directory the iterator is in.
Opened == [dir : Directories, due : SUBSET Places, may : SUBSET Places]

\* Where the files may be and what the variables of the search hold.
FindTypes ==
  /\ k \in 0..Len(InstallationPaths)
  /\ search \in {"next", "compile", "walk", "visit", "done", "thrown"}
  /\ Walking => pc = "compiled" /\ Start \in Directories
  /\ tree \in Trees
  /\ stayed \subseteq tree
  /\ \A p \in stayed : Parent(p) \in stayed \/ Parent(p) \notin Places
  /\ open \in Seq(Opened)
  /\ entry \in Places \cup {NoPath}
  /\ search = "visit" => entry \in Places
  /\ entries \in Seq(Places)
  /\ output \in Seq([instance : Nat, path : Places])
  /\ owed \in Seq([instance : Nat, paths : SUBSET Places])

\* The j-th directory the iterator is in is j - 1 names below the start, and those
\* it is in are directories of one path.
Nested ==
  \A j \in DOMAIN open :
    /\ Len(open[j].dir) = Len(Start) + j - 1
    /\ Cut(open[j].dir, Len(Start)) = Start
    /\ \A i \in 1..j : open[i].dir = Cut(open[j].dir, Len(Start) + i - 1)

\* What may be listed of a directory is in it, and of what stays all that may be
\* listed is due.
Listings ==
  \A j \in DOMAIN open :
    /\ \A p \in open[j].may : Len(p) = Len(Start) + j /\ Parent(p) = open[j].dir
    /\ open[j].due \subseteq open[j].may
    /\ open[j].may \cap stayed \subseteq open[j].due

\* The iterator is at an entry that it has not left for the next one.
AtHand == search = "visit" \/ entry \in Directories

\* That entry, like each directory the iterator went into, was listed and will not
\* be again, unless it was deleted in the meantime.
ListedOnce ==
  /\ \A j \in 1..(Len(open) - 1) :
       open[j + 1].dir \in stayed => open[j + 1].dir \notin open[j].may
  /\ AtHand =>
       /\ open # <<>>
       /\ Len(entry) = Len(Start) + Len(open)
       /\ Parent(entry) = open[Len(open)].dir
       /\ entry \in stayed => entry \notin open[Len(open)].may

WalkShape == Walking => Nested /\ Listings /\ ListedOnce

\* The walk will come to a path: it may still be listed, or a directory it is below,
\* or the iterator is at one of them.
AheadAt(p, j) ==
  /\ Len(Start) + j <= Len(p)
  /\ \/ Cut(p, Len(Start) + j) \in open[j].may
     \/ /\ j = Len(open)
        /\ entry = Cut(p, Len(Start) + j)
        /\ search = "visit" \/ (entry \in Directories /\ Len(Start) + j < Len(p))
Ahead(p) == \E j \in DOMAIN open : AheadAt(p, j)

Listed(p) == \E j \in DOMAIN entries : entries[j] = p
IsFound(p) == S!IsStrictPrefix(Start, p) /\ Match(Remainder(Below(p)))

\* What is found and stays is in the vector or ahead, never both, and in the vector
\* once.
Exact ==
  Walking =>
    /\ \A p \in Places : Listed(p) => IsFound(p)
    /\ \A p \in stayed : IsFound(p) => Listed(p) \/ Ahead(p)
    /\ \A p \in stayed : Listed(p) => ~Ahead(p)
    /\ \A i, j \in DOMAIN entries : entries[i] = entries[j] /\ entries[i] \in stayed => i = j

\* What was written is of the instances before.
Before ==
  /\ \A i \in DOMAIN output : output[i].instance <= k
  /\ \A i \in DOMAIN owed : owed[i].instance <= k
  /\ search \in {"compile", "walk", "visit"} =>
       /\ \A i \in DOMAIN output : output[i].instance < k
       /\ \A i \in DOMAIN owed : owed[i].instance < k

\* During a walk the pattern is known to find what it denotes, in the installation.
Understood == Walking => FindsWhatIsDenoted /\ RootStaysInside

\* FoundExactlyOnce, without counting.
WrittenOnce(o, p) ==
  \E i \in DOMAIN output :
    /\ output[i] = [instance |-> o.instance, path |-> p]
    /\ \A j \in DOMAIN output : output[j] = output[i] => j = i
OutputIsRight ==
  Defects(Words(pattern)) = {} /\ ~NamesADrive(Words(pattern)) =>
    /\ \A i \in DOMAIN output : IsDenoted(output[i].instance, output[i].path)
    /\ \A j \in DOMAIN owed : \A p \in owed[j].paths : WrittenOnce(owed[j], p)

-----------------------------------------------------------------------------
(* Places                                                                   *)

\* A place is a path with a name in it, its parent one name shorter.
LEMMA PlaceIs ==
  ASSUME NEW p \in Places
  PROVE  /\ p \in Seq(Seq(Literals)) /\ Len(p) \in Nat /\ Len(p) > 0
         /\ Parent(p) = Cut(p, Len(p) - 1)
         /\ Parent(p) \in Seq(Seq(Literals)) /\ Len(Parent(p)) = Len(p) - 1
<1>1. p \in Seq(Seq(Literals)) /\ p # <<>>
  BY PlacesAssumption
<1>2. Len(p) \in Nat /\ Len(p) > 0
  BY <1>1
<1>3. Parent(p) = Cut(p, Len(p) - 1)
  BY <1>1, ParentIsCut
<1>4. Len(p) - 1 \in 0..Len(p)
  BY <1>2
<1> QED
  BY <1>1, <1>2, <1>3, <1>4, CutIs, ZenonT(40)

\* A walk starts at a directory.
LEMMA StartIs ==
  ASSUME Start \in Directories
  PROVE  Start \in Seq(Seq(Literals)) /\ Len(Start) \in Nat /\ Len(Start) > 0
BY PlacesAssumption, PlaceIs

\* What is below the start has directories between.
LEMMA BelowStart ==
  ASSUME Start \in Directories, NEW p \in Places, S!IsStrictPrefix(Start, p)
  PROVE  /\ Len(Start) < Len(p) /\ Cut(p, Len(Start)) = Start
         /\ \A n \in Len(Start)..(Len(p) - 1) : Cut(p, n) \in Directories
<1>1. p \in Seq(Seq(Literals)) /\ Start \in Seq(Seq(Literals))
  BY PlaceIs, StartIs
<1>2. Len(Start) < Len(p) /\ Cut(p, Len(Start)) = Start
  BY <1>1, PrefixIsCut
<1>3. \A n \in Len(Start)..(Len(p) - 1) : Cut(p, n) \in Directories
  BY BelowAssumption DEF Cut
<1> QED
  BY <1>2, <1>3

\* At home the search starts at the installation path or below.
LEMMA HomeStart ==
  ASSUME IInv, ForInstance, search \in {"compile", "walk", "visit"}, AtHome
  PROVE  /\ InstallationPaths[k] \in Directories /\ InstallationPaths[k] \in Seq(Seq(Literals))
         /\ root \in Seq(Seq(Literals))
         /\ Start \in Seq(Seq(Literals)) /\ Len(Start) \in Nat /\ Len(Start) > 0
         /\ Len(Start) = Len(InstallationPaths[k]) + Len(root)
         /\ Cut(Start, Len(InstallationPaths[k])) = InstallationPaths[k]
         /\ SubSeq(Start, Len(InstallationPaths[k]) + 1, Len(Start)) = root
<1> DEFINE path == InstallationPaths[k]
<1>1. path \in Directories
  BY PlacesAssumption DEF ForInstance
<1>2. path \in Seq(Seq(Literals)) /\ Len(path) \in Nat /\ Len(path) > 0
  BY <1>1, PlacesAssumption, PlaceIs
<1>3. root \in Seq(Seq(Literals)) /\ Len(root) \in Nat
  BY DEF IInv, TypeOK
<1>5. Start = path \o root
  <2>1. Base = path /\ base.above = 0
    BY DEF AtHome, Base
  <2> HIDE DEF path
  <2>2. 0 < Len(path) /\ Len(path) - 0 = Len(path)
    BY <1>2
  <2>4. Start = Cut(path, Len(path)) \o root
    BY <2>1, <2>2 DEF Start, Cut
  <2>3. Cut(path, Len(path)) = path
    BY <1>2, CutIs
  <2> QED
    BY <2>3, <2>4
<1> HIDE DEF path
<1> DEFINE both == path \o root
<1>4. /\ both \in Seq(Seq(Literals)) /\ Len(both) = Len(path) + Len(root)
      /\ Cut(both, Len(path)) = path
      /\ SubSeq(both, Len(path) + 1, Len(both)) = root
  BY <1>2, <1>3, SplitConcat
<1>6. Start = both
  BY <1>5
<1> HIDE DEF both
<1>7. Len(both) \in Nat /\ Len(both) > 0
  BY <1>2, <1>3, <1>4
<1> QED
  BY <1>1, <1>2, <1>3, <1>4, <1>6, <1>7 DEF path

\* What is below the start is below the installation path then.
LEMMA BelowHome ==
  ASSUME IInv, ForInstance, search \in {"compile", "walk", "visit"}, AtHome,
         NEW p \in Places, S!IsStrictPrefix(Start, p)
  PROVE  S!IsStrictPrefix(InstallationPaths[k], p)
<1> DEFINE path == InstallationPaths[k]
<1>1. /\ path \in Seq(Seq(Literals)) /\ Start \in Seq(Seq(Literals)) /\ Len(Start) \in Nat
      /\ Len(path) \in Nat /\ Len(path) <= Len(Start) /\ Cut(Start, Len(path)) = path
  <2>1. Len(root) \in Nat
    BY DEF IInv, TypeOK
  <2>2. /\ path \in Seq(Seq(Literals)) /\ Len(Start) = Len(path) + Len(root)
        /\ Start \in Seq(Seq(Literals)) /\ Len(Start) \in Nat /\ Cut(Start, Len(path)) = path
    BY HomeStart
  <2> HIDE DEF path
  <2>3. Len(path) \in Nat
    BY <2>2
  <2> QED
    BY <2>1, <2>2, <2>3
<1>2. p \in Seq(Seq(Literals)) /\ Len(p) \in Nat
  BY PlaceIs
<1> HIDE DEF path
<1>3. Len(Start) < Len(p) /\ Cut(p, Len(Start)) = Start
  BY <1>1, <1>2, PrefixIsCut, SMTT(30)
<1>4. Cut(p, Len(path)) = path
  <2>1. Len(Start) \in 0..Len(p) /\ Len(path) \in 0..Len(Start)
    BY <1>1, <1>2, <1>3
  <2>2. Cut(Cut(p, Len(Start)), Len(path)) = Cut(p, Len(path))
    BY <1>2, <2>1, CutIs
  <2> QED
    BY <1>1, <1>3, <2>2, Zenon
<1> QED
  BY <1>1, <1>2, <1>3, <1>4, PrefixIsCut DEF path

\* With what is in a tree the directories it is below are in it.
LEMMA TreeIsWhole ==
  ASSUME Start \in Directories, NEW whole \in Trees, NEW p \in whole, S!IsStrictPrefix(Start, p)
  PROVE  \A n \in Len(Start)..Len(p) : Cut(p, n) \in whole
<1>1. p \in Places
  BY DEF Trees
<1>2. p \in Seq(Seq(Literals)) /\ Len(p) \in Nat /\ Len(Start) \in Nat /\ Cut(p, Len(p)) = p
  BY <1>1, PlaceIs, StartIs, CutIs
<1> DEFINE T == {m \in Nat : Len(Start) <= Len(p) - m => Cut(p, Len(p) - m) \in whole}
<1>3. 0 \in T
  BY <1>2
<1>4. ASSUME NEW m \in Nat, m \in T PROVE m + 1 \in T
  <2> SUFFICES ASSUME Len(Start) <= Len(p) - (m + 1) PROVE Cut(p, Len(p) - (m + 1)) \in whole
    BY DEF T
  <2> DEFINE n == Len(p) - m
  <2>1. n \in 1..Len(p) /\ n - 1 \in 0..n /\ n - 1 \in Len(Start)..(Len(p) - 1)
        /\ Len(p) - (m + 1) = n - 1 /\ Len(Start) <= n
    BY <1>2
  <2>2. Cut(p, n) \in whole
    BY <1>4, <2>1
  <2> HIDE DEF n
  <2>3. Cut(p, n - 1) \in Places
    BY <1>1, <2>1, BelowStart, PlacesAssumption
  <2>4. Parent(Cut(p, n)) = Cut(p, n - 1)
    <3>1. Cut(p, n) \in Seq(Seq(Literals)) /\ Len(Cut(p, n)) = n /\ Cut(Cut(p, n), n - 1) = Cut(p, n - 1)
      BY <1>2, <2>1, CutIs
    <3> QED
      BY <3>1, ParentIsCut
  <2>5. Cut(p, n - 1) \in whole
    BY <2>2, <2>3, <2>4 DEF Trees
  <2> QED
    BY <2>1, <2>5
<1>5. Nat \subseteq T
  <2> HIDE DEF T
  <2> QED
    BY <1>3, <1>4, Lemmas!SetInduction
<1> SUFFICES ASSUME NEW n \in Len(Start)..Len(p) PROVE Cut(p, n) \in whole
  OBVIOUS
<1>6. Len(p) - n \in Nat /\ Len(p) - (Len(p) - n) = n /\ Len(Start) <= n
  BY <1>2
<1> QED
  BY <1>5, <1>6

-----------------------------------------------------------------------------
(* Types                                                                    *)

\* A walk is for one instance and one regular expression.
LEMMA StartFrame ==
  ASSUME UNCHANGED <<vars, k>>
  PROVE  Start' = Start /\ \A p : IsFound(p)' <=> IsFound(p)
<1>1. base' = base /\ root' = root /\ accumulator' = accumulator /\ k' = k
  BY DEF vars, scan
<1>2. Start' = Start
  BY <1>1 DEF Start, Base
<1> QED
  BY <1>1, <1>2 DEF IsFound, Below, Match, Remainder, Text

\* A change of the files is one of what is in a tree.
LEMMA ChangeIs ==
  ASSUME FindTypes, CreatePath \/ DeletePath
  PROVE  \E new \in Trees : Change(new)
<1>1. CASE CreatePath
  BY <1>1 DEF CreatePath
<1>2. CASE DeletePath
  <2>1. PICK p \in tree : Children(p) = {} /\ Change(tree \ {p})
    BY <1>2 DEF DeletePath
  <2>2. \A q \in tree \ {p} : Parent(q) \in tree \ {p} \/ Parent(q) \notin Places
    <3> TAKE q \in tree \ {p}
    <3>1. q \in Places /\ (Parent(q) \in tree \/ Parent(q) \notin Places)
      BY DEF FindTypes, Trees
    <3>2. Parent(q) = p => q \in Children(p)
      BY <3>1, PlaceIs DEF Children
    <3> QED
      BY <2>1, <3>1, <3>2
  <2>3. tree \ {p} \in Trees
    BY <2>2 DEF FindTypes, Trees
  <2> QED
    BY <2>1, <2>3
<1> QED
  BY <1>1, <1>2

\* The next state of a directory that is listed.
LEMMA ListingType ==
  ASSUME FindTypes, NEW d \in Directories
  PROVE  Listing(d) \in Opened
BY DEF Opened, FindTypes, Trees, Listing, Children

\* A change keeps the types of the files and of what is listed of them.
LEMMA ChangeTypes ==
  ASSUME FindTypes, NEW new \in Trees, Change(new)
  PROVE  FindTypes'
<1> DEFINE now(j) == [open[j] EXCEPT !.due = @ \cap new,
                                     !.may = @ \cup {p \in new \ tree : Parent(p) = open[j].dir}]
<1>1. new \subseteq Places /\ open \in Seq(Opened)
  BY DEF FindTypes, Trees
<1>2. Len(open) \in Nat /\ DOMAIN open = 1..Len(open) /\ \A j \in 1..Len(open) : open[j] \in Opened
  BY <1>1
<1>3. open' = [j \in 1..Len(open) |-> now(j)]
  BY <1>2 DEF Change
<1>4. \A j \in 1..Len(open) : now(j) \in Opened
  BY <1>1, <1>2 DEF Opened
<1> HIDE DEF now
<1>5. open' \in [1..Len(open) -> Opened]
  BY <1>3, <1>4
<1>6. open' \in Seq(Opened)
  BY <1>2, <1>5
<1>7. /\ stayed' \subseteq tree' /\ tree' \in Trees
      /\ \A p \in stayed' : Parent(p) \in stayed' \/ Parent(p) \notin Places
  BY DEF Change, FindTypes, Trees
<1>8. UNCHANGED <<k, search, pc, entry, entries, output, owed>> /\ Start' = Start
  BY StartFrame DEF Change, vars
<1> QED
  BY <1>6, <1>7, <1>8 DEF FindTypes, Walking

\* What FindTypes says of the files holds when they do not change.
LEMMA FilesFrame ==
  ASSUME FindTypes, UNCHANGED <<tree, stayed>>
  PROVE  /\ tree' \in Trees /\ stayed' \subseteq tree'
         /\ \A p \in stayed' : Parent(p) \in stayed' \/ Parent(p) \notin Places
BY DEF FindTypes, Trees

\* A sequence has the elements of another, each where order says.
Rearranges(order, paths, s) ==
  /\ order \in [1..Len(paths) -> 1..Len(paths)]
  /\ \A i \in 1..Len(paths) : s[i] = paths[order[i]]
  /\ \A i, j \in 1..Len(paths) : order[i] = order[j] => i = j
  /\ \A j \in 1..Len(paths) : \E i \in 1..Len(paths) : order[i] = j

\* Entries puts the same files in an order.
LEMMA SortedIs ==
  ASSUME NEW C, NEW paths \in Seq(C), NEW s \in Sorted(paths)
  PROVE  /\ s \in Seq(C) /\ Len(s) = Len(paths)
         /\ \E order : Rearranges(order, paths, s)
<1>1. Len(paths) \in Nat /\ DOMAIN paths = 1..Len(paths) /\ \A i \in 1..Len(paths) : paths[i] \in C
  OBVIOUS
<1>2. \E order \in [1..Len(paths) -> 1..Len(paths)] :
        /\ s = [i \in 1..Len(paths) |-> paths[order[i]]]
        /\ \A i, j \in 1..Len(paths) : order[i] = order[j] => i = j
        /\ \A j \in 1..Len(paths) : \E i \in 1..Len(paths) : order[i] = j
  <2>1. CASE sort
    <3>1. PICK order \in Orders(paths) : s = [j \in 1..Len(paths) |-> paths[order[j]]]
      BY <1>1, <2>1 DEF Sorted
    <3>2. order \in S!Bijection(1..Len(paths), 1..Len(paths))
      BY <1>1, <3>1 DEF Orders
    <3>3. /\ order \in [1..Len(paths) -> 1..Len(paths)]
          /\ \A i, j \in 1..Len(paths) : order[i] = order[j] => i = j
          /\ \A j \in 1..Len(paths) : \E i \in 1..Len(paths) : order[i] = j
      BY <3>2 DEF S!Bijection, S!Injection, S!Surjection, S!IsInjective
    <3> QED
      BY <3>1, <3>3
  <2>2. CASE ~sort
    <3> DEFINE order == [i \in 1..Len(paths) |-> i]
    <3>1. s = paths
      BY <2>2 DEF Sorted
    <3>2. s = [i \in 1..Len(paths) |-> paths[order[i]]]
      BY <1>1, <3>1
    <3>3. order \in [1..Len(paths) -> 1..Len(paths)] /\ \A i \in 1..Len(paths) : order[i] = i
      OBVIOUS
    <3> HIDE DEF order
    <3> QED
      BY <3>2, <3>3
  <2> QED
    BY <2>1, <2>2
<1>3. PICK order \in [1..Len(paths) -> 1..Len(paths)] :
        /\ s = [i \in 1..Len(paths) |-> paths[order[i]]]
        /\ \A i, j \in 1..Len(paths) : order[i] = order[j] => i = j
        /\ \A j \in 1..Len(paths) : \E i \in 1..Len(paths) : order[i] = j
  BY <1>2
<1>4. s \in [1..Len(paths) -> C]
  BY <1>1, <1>3
<1>5. s \in Seq(C) /\ Len(s) = Len(paths) /\ \A i \in 1..Len(paths) : s[i] = paths[order[i]]
  BY <1>1, <1>3, <1>4
<1>6. Rearranges(order, paths, s)
  BY <1>3, <1>5 DEF Rearranges
<1> QED
  BY <1>5, <1>6

\* What the constructor's invariant speaks of only changes when it is called.
LEMMA GlobFrame == ASSUME IInv, UNCHANGED vars PROVE IInv'
BY DEF vars, scan, IInv, TypeOK, LiteralUntilWild

\* Each instance begins with a Glob as new.
LEMMA RestartIInv ==
  ASSUME IInv, pattern' = pattern,
         pc' = "scan" /\ it' = 1 /\ lastch' = Null,
         base' \in {Home(drive) : drive \in RootNames},
         root' = <<>> /\ value' = <<>> /\ valueRaw' = <<>> /\ accumulator' = <<Sep>>,
         foundGlobstar' = FALSE /\ foundWildcard' = FALSE
  PROVE  IInv'
<1>1. pattern \in Patterns /\ pattern \in Seq(Characters)
  BY PatternsAssumption DEF IInv, TypeOK
<1>2. /\ <<>> \in Seq(Seq(Literals)) /\ <<>> \in Seq(Pieces) /\ <<>> \in Seq(Literals)
      /\ <<Sep>> \in Seq(Pieces)
  BY DEF Pieces
<1>3. 1 \in 1..(Len(pattern) + 1) /\ <<>> # <<Star, Star>>
  BY <1>1
<1>4. TypeOK'
  BY <1>1, <1>2, <1>3, HomeType DEF TypeOK
<1> QED
  BY <1>4 DEF IInv, LiteralUntilWild

\* What is typed, of the constructor and of the search.
FindTyped == IInv /\ FindTypes /\ ForInstance

\* The search begins with nothing open, found or written.
LEMMA InitFindTyped == FindInit => FindTyped
<1> SUFFICES ASSUME FindInit PROVE FindTyped
  OBVIOUS
<1>1. IInv
  BY InitIInv DEF FindInit
<1>2. Len(InstallationPaths) \in Nat
  BY PlacesAssumption
<1>3. tree \in Trees
  BY DEF FindInit, Trees
<1> DEFINE Written == [instance : Nat, path : Places]
           Owed == [instance : Nat, paths : SUBSET Places]
<1>4. <<>> \in Seq(Opened) /\ <<>> \in Seq(Written) /\ <<>> \in Seq(Owed) /\ <<>> \in Seq(Places)
  OBVIOUS
<1> HIDE DEF Written, Owed
<1>5. open \in Seq(Opened) /\ output \in Seq(Written) /\ owed \in Seq(Owed) /\ entries \in Seq(Places)
  BY <1>4 DEF FindInit
<1>6. FindTypes
  BY <1>2, <1>3, <1>5 DEF FindTypes, FindInit, Walking, Written, Owed
<1> QED
  BY <1>1, <1>6 DEF FindTyped, ForInstance, FindInit

\* A failure only ends the search.
LEMMA FailTyped == ASSUME FindTyped, Fail PROVE FindTyped'
<1>1. IInv'
  BY GlobFrame DEF Fail, FindTyped
<1>2. FindTypes'
  BY FilesFrame DEF Fail, files, FindTyped, FindTypes, Walking
<1> QED
  BY <1>1, <1>2 DEF FindTyped, ForInstance, Fail

\* The steps of a walk that leave what was written alone.
LEMMA WalkTyped ==
  ASSUME FindTyped, UNCHANGED <<vars, tree, stayed, k, output, owed>>,
         search \in {"walk", "visit"}, search' \in {"walk", "visit"},
         open' \in Seq(Opened),
         entry' \in Places \cup {NoPath}, search' = "visit" => entry' \in Places,
         entries' \in Seq(Places)
  PROVE  FindTyped'
<1>1. IInv'
  BY GlobFrame DEF FindTyped
<1>2. pc' = pc /\ Start' = Start
  BY StartFrame DEF vars
<1>3. FindTypes'
  BY <1>2, FilesFrame DEF FindTyped, FindTypes, Walking
<1> QED
  BY <1>1, <1>3 DEF FindTyped, ForInstance

\* An instance with a path gets a constructor as new, one without is passed.
LEMMA NextInstanceTyped == ASSUME FindTyped, NextInstance PROVE FindTyped'
<1>1. /\ search = "next" /\ k < Len(InstallationPaths) /\ k' = k + 1
      /\ UNCHANGED <<tree, open, entry, entries, output, stayed, owed>>
  BY DEF NextInstance, files
<1>2. k' \in 1..Len(InstallationPaths) /\ k' \in DOMAIN InstallationPaths
  BY <1>1, PlacesAssumption DEF FindTyped, FindTypes
<1>3. CASE InstallationPaths[k + 1] = NoPath
  <2>1. UNCHANGED <<vars, search>>
    BY <1>3 DEF NextInstance
  <2>2. IInv'
    BY <2>1, GlobFrame DEF FindTyped
  <2>3. FindTypes'
    BY <1>1, <1>2, <2>1, FilesFrame DEF FindTyped, FindTypes, Walking
  <2> QED
    BY <1>1, <2>1, <2>2, <2>3 DEF FindTyped, ForInstance
<1>4. CASE InstallationPaths[k + 1] # NoPath
  <2>1. IInv'
    BY <1>4, RestartIInv DEF NextInstance, FindTyped
  <2>2. search' = "compile"
    BY <1>4 DEF NextInstance
  <2>3. FindTypes'
    BY <1>1, <1>2, <2>2, FilesFrame DEF FindTyped, FindTypes, Walking
  <2> QED
    BY <1>1, <1>2, <1>4, <2>1, <2>2, <2>3 DEF FindTyped, ForInstance
<1> QED
  BY <1>3, <1>4

\* A step of the constructor leaves the search alone.
LEMMA CompileStepTyped == ASSUME FindTyped, CompileStep PROVE FindTyped'
<1>1. search = "compile" /\ UNCHANGED <<search, tree, k, open, entry, entries, output, stayed, owed>>
  BY DEF CompileStep, finding, files, reader
<1>2. IInv'
  BY StepIInv DEF CompileStep, Next, FindTyped
<1>3. FindTypes'
  BY <1>1, FilesFrame DEF FindTyped, FindTypes, Walking
<1> QED
  BY <1>1, <1>2, <1>3 DEF FindTyped, ForInstance

\* The root that is opened is a directory that is there.
LEMMA StartWalkTyped == ASSUME FindTyped, StartWalk PROVE FindTyped'
<1>1. search = "compile" /\ pc = "compiled"
  BY DEF StartWalk
<1>2. CASE Fail
  BY <1>2, FailTyped
<1>3. CASE ~Fail
  <2>1. /\ Readable(Start) /\ open' = <<Listing(Start)>> /\ entry' = NoPath /\ entries' = <<>>
        /\ stayed' = tree /\ search' = "walk"
        /\ UNCHANGED <<vars, tree, k, output, owed>>
    BY <1>3 DEF StartWalk, files
  <2>2. IInv'
    BY <2>1, GlobFrame DEF FindTyped
  <2>3. Listing(Start) \in Opened
    BY <2>1, ListingType DEF Readable, FindTyped
  <2>4. open' \in Seq(Opened)
    BY <2>1, <2>3
  <2>5. /\ tree' \in Trees /\ stayed' \subseteq tree'
        /\ \A p \in stayed' : Parent(p) \in stayed' \/ Parent(p) \notin Places
    BY <2>1 DEF FindTyped, FindTypes, Trees
  <2>6. Start \in Directories /\ Start' = Start
    BY <2>1, StartFrame DEF Readable
  <2>7. FindTypes'
    BY <1>1, <2>1, <2>4, <2>5, <2>6 DEF FindTyped, FindTypes, Walking, vars
  <2> QED
    BY <1>1, <2>1, <2>2, <2>7 DEF FindTyped, ForInstance
<1> QED
  BY <1>2, <1>3

\* So is a directory the iterator goes into.
LEMMA DescendTyped == ASSUME FindTyped, Descend PROVE FindTyped'
<1>1. CASE Fail
  BY <1>1, FailTyped
<1>2. CASE ~Fail
  <2>1. /\ search = "walk" /\ entry \in Directories /\ open' = Append(open, Listing(entry))
        /\ entry' = NoPath /\ UNCHANGED <<vars, tree, search, k, entries, output, stayed, owed>>
    BY <1>2 DEF Descend, files
  <2>2. open' \in Seq(Opened)
    BY <2>1, ListingType DEF FindTyped, FindTypes
  <2>3. entries' \in Seq(Places)
    BY <2>1 DEF FindTyped, FindTypes
  <2> QED
    BY <2>1, <2>2, <2>3, WalkTyped
<1> QED
  BY <1>1, <1>2

\* An entry that is listed is a place.
LEMMA NextEntryTyped == ASSUME FindTyped, NextEntry PROVE FindTyped'
<1>1. /\ search = "walk" /\ open # <<>> /\ search' = "visit"
      /\ UNCHANGED <<vars, tree, k, entries, output, stayed, owed>>
  BY DEF NextEntry, files
<1>2. PICK p \in open[Len(open)].may :
        /\ open' = [open EXCEPT ![Len(open)] = Without(open[Len(open)], p)]
        /\ entry' = p
  BY DEF NextEntry, S!Last
<1>3. open \in Seq(Opened) /\ entries' \in Seq(Places)
  BY <1>1 DEF FindTyped, FindTypes
<1>4. Len(open) \in 1..Len(open) /\ DOMAIN open = 1..Len(open) /\ open[Len(open)] \in Opened
  BY <1>1, <1>3
<1>5. Without(open[Len(open)], p) \in Opened /\ p \in Places
  BY <1>2, <1>4 DEF Opened, Without
<1>6. open' \in Seq(Opened)
  BY <1>2, <1>3, <1>4, <1>5
<1> QED
  BY <1>1, <1>2, <1>3, <1>5, <1>6, WalkTyped

\* Leaving a directory drops the last of those that are open.
LEMMA AscendTyped == ASSUME FindTyped, Ascend PROVE FindTyped'
<1>1. /\ search = "walk" /\ open # <<>> /\ open' = SubSeq(open, 1, Len(open) - 1)
      /\ UNCHANGED <<vars, tree, search, k, entry, entries, output, stayed, owed>>
  BY DEF Ascend, files, S!Front
<1>2. open \in Seq(Opened) /\ entries' \in Seq(Places) /\ entry' \in Places \cup {NoPath}
  BY <1>1 DEF FindTyped, FindTypes
<1>3. open' \in Seq(Opened)
  BY <1>1, <1>2
<1> QED
  BY <1>1, <1>2, <1>3, WalkTyped

\* What is found is the entry, a place.
LEMMA VisitTyped == ASSUME FindTyped, Visit PROVE FindTyped'
<1>1. /\ search = "visit" /\ search' = "walk"
      /\ entries' = Append(entries, entry) \/ entries' = entries
      /\ UNCHANGED <<vars, tree, k, open, entry, output, stayed, owed>>
  BY DEF Visit, files
<1>2. entry \in Places /\ entries \in Seq(Places)
  BY <1>1 DEF FindTyped, FindTypes
<1>3. open' \in Seq(Opened)
  BY <1>1 DEF FindTyped, FindTypes
<1>4. entries' \in Seq(Places)
  BY <1>1, <1>2
<1> QED
  BY <1>1, <1>2, <1>3, <1>4, WalkTyped

\* What is written are the places that were found.
LEMMA EndWalkTyped == ASSUME FindTyped, EndWalk PROVE FindTyped'
<1> DEFINE Written == [instance : Nat, path : Places]
           Owed == [instance : Nat, paths : SUBSET Places]
<1>1. /\ search = "walk" /\ search' = "next"
      /\ UNCHANGED <<vars, tree, k, open, entry, entries, stayed>>
  BY DEF EndWalk, files
<1>2. PICK paths \in Sorted(entries) :
        output' = output \o [j \in DOMAIN paths |-> [instance |-> k, path |-> paths[j]]]
  BY DEF EndWalk
<1>3. paths \in Seq(Places) /\ output \in Seq(Written) /\ owed \in Seq(Owed) /\ k \in Nat
  BY SortedIs DEF FindTyped, FindTypes
<1> DEFINE more == [j \in DOMAIN paths |-> [instance |-> k, path |-> paths[j]]]
<1>4. more \in Seq(Written)
  <2>1. \A j \in 1..Len(paths) : [instance |-> k, path |-> paths[j]] \in Written
    BY <1>3
  <2> HIDE DEF Written
  <2>2. DOMAIN paths = 1..Len(paths) /\ Len(paths) \in Nat
    BY <1>3
  <2> QED
    BY <2>1, <2>2
<1>5. output' \in Seq(Written)
  <2> HIDE DEF Written, more
  <2>1. output' = output \o more
    BY <1>2 DEF more
  <2> QED
    BY <1>3, <1>4, <2>1
<1>6. owed' \in Seq(Owed)
  <2> DEFINE o == [instance |-> k, paths |-> {p \in stayed : IsDenoted(k, p)}]
  <2>1. o \in Owed
    BY <1>3 DEF FindTyped, FindTypes, Trees
  <2>2. owed' = Append(owed, o)
    BY DEF EndWalk
  <2> HIDE DEF o, Owed
  <2> QED
    BY <1>3, <2>1, <2>2
<1>7. IInv'
  BY <1>1, GlobFrame DEF FindTyped
<1>8. FindTypes'
  BY <1>1, <1>5, <1>6, FilesFrame DEF FindTyped, FindTypes, Walking, vars
<1> QED
  BY <1>1, <1>7, <1>8 DEF FindTyped, ForInstance

\* Creating and deleting keep the types.
LEMMA ChangeTyped == ASSUME FindTyped, CreatePath \/ DeletePath PROVE FindTyped'
<1>1. PICK new \in Trees : Change(new)
  BY ChangeIs DEF FindTyped
<1>2. FindTypes'
  BY <1>1, ChangeTypes DEF FindTyped
<1>3. IInv'
  BY <1>1, GlobFrame DEF FindTyped, Change
<1> QED
  BY <1>1, <1>2, <1>3 DEF FindTyped, ForInstance, Change

\* The types hold after every step.
LEMMA NextFindTyped == ASSUME FindTyped, [FindNext]_<<vars, finding>> PROVE FindTyped'
<1>1. CASE NextInstance
  BY <1>1, NextInstanceTyped
<1>2. CASE CompileStep
  BY <1>2, CompileStepTyped
<1>3. CASE PatternRefused
  BY <1>3, FailTyped DEF PatternRefused
<1>4. CASE StartWalk
  BY <1>4, StartWalkTyped
<1>5. CASE Descend
  BY <1>5, DescendTyped
<1>6. CASE NextEntry
  BY <1>6, NextEntryTyped
<1>7. CASE Ascend
  BY <1>7, AscendTyped
<1>8. CASE Visit
  BY <1>8, VisitTyped
<1>9. CASE EndWalk
  BY <1>9, EndWalkTyped
<1>10. CASE End
  <2>1. search' = "done" /\ UNCHANGED <<vars, tree, k, open, entry, entries, output, stayed, owed>>
    BY <1>10 DEF End, files
  <2>2. IInv'
    BY <2>1, GlobFrame DEF FindTyped
  <2>3. FindTypes'
    BY <2>1, FilesFrame DEF FindTyped, FindTypes, Walking
  <2> QED
    BY <2>1, <2>2, <2>3 DEF FindTyped, ForInstance
<1>11. CASE CreatePath \/ DeletePath
  BY <1>11, ChangeTyped
<1>12. CASE Protect \/ UNCHANGED <<vars, finding>>
  <2>1. /\ UNCHANGED <<vars, tree, search, k, open, entry, entries, output, stayed, owed>>
        /\ Start' = Start
    BY <1>12, StartFrame DEF Protect, finding, files, reader
  <2>2. IInv'
    BY <2>1, GlobFrame DEF FindTyped
  <2>3. FindTypes'
    BY <2>1, FilesFrame DEF FindTyped, FindTypes, Walking, vars
  <2> QED
    BY <2>1, <2>2, <2>3 DEF FindTyped, ForInstance
<1> QED
  BY <1>1, <1>2, <1>3, <1>4, <1>5, <1>6, <1>7, <1>8, <1>9, <1>10, <1>11, <1>12
  DEF FindNext, Read, Ended

-----------------------------------------------------------------------------
(* The shape of a walk                                                      *)

\* The directories that are open.
LEMMA OpenIs ==
  ASSUME FindTyped
  PROVE  /\ Len(open) \in Nat /\ DOMAIN open = 1..Len(open)
         /\ \A j \in 1..Len(open) :
              /\ open[j].dir \in Directories /\ open[j].dir \in Places
              /\ open[j].may \subseteq Places
         /\ \A j \in 1..Len(open) : open[j] \in Opened
         /\ open \in Seq(Opened)
<1>1. open \in Seq(Opened)
  BY DEF FindTyped, FindTypes
<1>2. \A o \in Opened : o.dir \in Directories /\ o.dir \in Places /\ o.may \subseteq Places
  BY PlacesAssumption DEF Opened
<1>3. Len(open) \in Nat /\ DOMAIN open = 1..Len(open) /\ \A j \in 1..Len(open) : open[j] \in Opened
  BY <1>1
<1> QED
  BY <1>1, <1>2, <1>3

\* Nested only speaks of the directories and of the start.
LEMMA NestedFrame ==
  ASSUME FindTyped, Nested, UNCHANGED Start, DOMAIN open' = DOMAIN open,
         \A j \in DOMAIN open : open'[j].dir = open[j].dir
  PROVE  Nested'
<1>1. DOMAIN open' = DOMAIN open /\ (\A j \in DOMAIN open : open'[j].dir = open[j].dir) /\ Start' = Start
  OBVIOUS
<1>2. Nested' <=> \A j \in DOMAIN open' :
                    /\ Len(open'[j].dir) = Len(Start') + j - 1
                    /\ Cut(open'[j].dir, Len(Start')) = Start'
                    /\ \A i \in 1..j : open'[i].dir = Cut(open'[j].dir, Len(Start') + i - 1)
  BY DEF Nested, Cut
<1>3. \A j \in DOMAIN open : \A i \in 1..j : i \in DOMAIN open
  BY OpenIs
<1> QED
  BY <1>1, <1>2, <1>3 DEF Nested

\* At the start one directory is open and all of it is due.
LEMMA StartWalkShape == ASSUME FindTyped, StartWalk PROVE WalkShape'
<1>1. CASE Fail
  BY <1>1 DEF Fail, WalkShape, Walking
<1>2. CASE ~Fail
  <2>1. /\ open' = <<Listing(Start)>> /\ entry' = NoPath /\ search' = "walk" /\ stayed' = tree
        /\ Start' = Start
    BY <1>2, StartFrame DEF StartWalk
  <2>2. Start \in Seq(Seq(Literals)) /\ Len(Start) \in Nat /\ Cut(Start, Len(Start)) = Start
    BY <1>2, StartIs, CutIs DEF StartWalk, Readable
  <2>3. /\ Len(open') = 1 /\ DOMAIN open' = {1}
        /\ open'[1].dir = Start /\ open'[1].due = Children(Start) /\ open'[1].may = Children(Start)
    BY <2>1 DEF Listing
  <2>4. Nested'
    BY <2>1, <2>2, <2>3 DEF Nested, Cut
  <2>5. Listings'
    BY <2>1, <2>2, <2>3 DEF Listings, Children, Parent, S!Front
  <2>6. ListedOnce'
    BY <2>1, <2>3, PlacesAssumption DEF ListedOnce, AtHand
  <2> QED
    BY <2>4, <2>5, <2>6 DEF WalkShape
<1> QED
  BY <1>1, <1>2

\* The entry the iterator is at is below the start, and the directories between are
\* open.
LEMMA EntryIs ==
  ASSUME FindTyped, WalkShape, Walking, AtHand
  PROVE  /\ entry \in Places /\ Len(open) \in 1..Len(open) /\ Len(entry) = Len(Start) + Len(open)
         /\ S!IsStrictPrefix(Start, entry) /\ Cut(entry, Len(Start)) = Start
         /\ \A i \in 1..Len(open) : open[i].dir = Cut(entry, Len(Start) + i - 1)
<1>1. Nested /\ ListedOnce
  BY DEF WalkShape
<1>2. entry \in Places
  BY PlacesAssumption DEF AtHand, FindTyped, FindTypes
<1>3. /\ entry \in Seq(Seq(Literals)) /\ Len(entry) \in Nat
      /\ Parent(entry) = Cut(entry, Len(entry) - 1)
  BY <1>2, PlaceIs
<1>4. Start \in Seq(Seq(Literals)) /\ Len(Start) \in Nat
  BY StartIs DEF FindTyped, FindTypes
<1> DEFINE m == Len(open)
<1>5. m \in Nat /\ m > 0 /\ DOMAIN open = 1..m
  BY <1>1, OpenIs DEF ListedOnce, FindTyped, FindTypes
<1>6. Len(entry) = Len(Start) + m /\ Parent(entry) = open[m].dir
  BY <1>1 DEF ListedOnce
<1> HIDE DEF m
<1>7. /\ Cut(open[m].dir, Len(Start)) = Start
      /\ \A i \in 1..m : open[i].dir = Cut(open[m].dir, Len(Start) + i - 1)
  BY <1>1, <1>5 DEF Nested
<1>8. \A n \in 0..(Len(Start) + m - 1) : Cut(open[m].dir, n) = Cut(entry, n)
  <2>1. Len(entry) - 1 = Len(Start) + m - 1 /\ Len(Start) + m - 1 \in 0..Len(entry)
    BY <1>3, <1>4, <1>5, <1>6
  <2> QED
    BY <1>3, <1>6, <2>1, CutIs
<1>9. Cut(entry, Len(Start)) = Start
  BY <1>4, <1>5, <1>7, <1>8
<1>10. \A i \in 1..m : open[i].dir = Cut(entry, Len(Start) + i - 1)
  <2> TAKE i \in 1..m
  <2>1. Len(Start) + i - 1 \in 0..(Len(Start) + m - 1)
    BY <1>4, <1>5
  <2> QED
    BY <1>7, <1>8, <2>1
<1>11. S!IsStrictPrefix(Start, entry)
  BY <1>3, <1>4, <1>5, <1>6, <1>9, PrefixIsCut
<1> QED
  BY <1>2, <1>5, <1>6, <1>9, <1>10, <1>11 DEF m

\* The directory that is opened extends the path of the others by the entry.
LEMMA DescendShape == ASSUME FindTyped, WalkShape, Descend PROVE WalkShape'
<1>1. CASE Fail
  BY <1>1 DEF Fail, WalkShape, Walking
<1>2. CASE ~Fail
  <2> DEFINE m == Len(open)
  <2>1. /\ search = "walk" /\ entry \in Directories /\ search' = "walk" /\ entry' = NoPath
        /\ open' = Append(open, Listing(entry)) /\ stayed' = stayed /\ Start' = Start
    BY <1>2, StartFrame DEF Descend
  <2>2. Walking /\ AtHand
    BY <2>1 DEF Walking, AtHand
  <2>3. Nested /\ Listings /\ ListedOnce
    BY <2>2 DEF WalkShape
  <2>4. Len(Start) \in Nat
    BY <2>2, StartIs DEF FindTyped, FindTypes
  <2>5. /\ entry \in Places /\ m \in Nat /\ m > 0 /\ Len(entry) = Len(Start) + m
        /\ Cut(entry, Len(Start)) = Start
        /\ \A i \in 1..m : open[i].dir = Cut(entry, Len(Start) + i - 1)
    BY <2>2, EntryIs, OpenIs
  <2>6. Cut(entry, Len(entry)) = entry
    <3>1. entry \in Seq(Seq(Literals)) /\ Len(entry) \in 0..Len(entry)
      BY <2>5, PlaceIs
    <3> QED
      BY <3>1, CutIs
  <2>7. /\ Len(open') = m + 1 /\ DOMAIN open' = 1..(m + 1) /\ DOMAIN open = 1..m
        /\ open'[m + 1] = Listing(entry) /\ \A j \in 1..m : open'[j] = open[j]
    BY <2>1, OpenIs DEF FindTyped, FindTypes
  <2>8. /\ open'[m + 1].dir = entry /\ open'[m + 1].due = Children(entry)
        /\ open'[m + 1].may = Children(entry)
    BY <2>7 DEF Listing
  <2> HIDE DEF m
  <2>9. \A j \in 1..(m + 1) : j = m + 1 \/ j \in 1..m
    BY <2>5
  <2>10. Nested'
    <3> SUFFICES ASSUME NEW j \in 1..(m + 1)
                 PROVE  /\ Len(open'[j].dir) = Len(Start) + j - 1
                        /\ Cut(open'[j].dir, Len(Start)) = Start
                        /\ \A i \in 1..j : open'[i].dir = Cut(open'[j].dir, Len(Start) + i - 1)
      BY <2>1, <2>7 DEF Nested, Cut
    <3>1. CASE j \in 1..m
      <4>1. \A i \in 1..j : i \in 1..m
        BY <3>1, <2>5
      <4> QED
        BY <2>3, <2>7, <3>1, <4>1 DEF Nested
    <3>2. CASE j = m + 1
      <4>1. \A i \in 1..j : open'[i].dir = Cut(entry, Len(Start) + i - 1)
        <5> TAKE i \in 1..j
        <5>1. i \in 1..m \/ i = m + 1
          BY <2>5, <3>2
        <5>2. i = m + 1 => Len(Start) + i - 1 = Len(entry)
          BY <2>4, <2>5
        <5> QED
          BY <2>5, <2>6, <2>7, <2>8, <5>1, <5>2
      <4>2. Len(entry) = Len(Start) + j - 1
        BY <2>4, <2>5, <3>2
      <4> QED
        BY <2>5, <2>8, <3>2, <4>1, <4>2
    <3> QED
      BY <2>9, <3>1, <3>2
  <2>11. Listings'
    <3> SUFFICES ASSUME NEW j \in 1..(m + 1)
                 PROVE  /\ \A p \in open'[j].may : Len(p) = Len(Start) + j /\ Parent(p) = open'[j].dir
                        /\ open'[j].due \subseteq open'[j].may
                        /\ open'[j].may \cap stayed \subseteq open'[j].due
      BY <2>1, <2>7 DEF Listings, Parent, S!Front
    <3>1. CASE j \in 1..m
      BY <2>3, <2>7, <3>1 DEF Listings
    <3>2. CASE j = m + 1
      <4>1. \A p \in Children(entry) : Len(p) = Len(Start) + j /\ Parent(p) = entry
        BY <2>4, <2>5, <3>2 DEF Children
      <4> QED
        BY <2>8, <3>2, <4>1
    <3> QED
      BY <2>9, <3>1, <3>2
  <2>12. ListedOnce'
    <3>1. ~AtHand'
      BY <2>1, PlacesAssumption DEF AtHand
    <3>2. ASSUME NEW j \in 1..m, open'[j + 1].dir \in stayed
          PROVE  open'[j + 1].dir \notin open'[j].may
      <4>1. CASE j = m
        BY <2>2, <2>3, <2>7, <2>8, <3>2, <4>1 DEF ListedOnce, m
      <4>2. CASE j # m
        <5>1. j \in 1..(m - 1) /\ j + 1 \in 1..m
          BY <2>5, <4>2
        <5> QED
          BY <2>3, <2>7, <3>2, <5>1 DEF ListedOnce, m
      <4> QED
        BY <4>1, <4>2
    <3>3. Len(open') - 1 = m
      BY <2>5, <2>7
    <3> QED
      BY <2>1, <3>1, <3>2, <3>3 DEF ListedOnce
  <2> QED
    BY <2>10, <2>11, <2>12 DEF WalkShape
<1> QED
  BY <1>1, <1>2

\* The entry is taken from what is listed of the last directory, so it is not again.
LEMMA NextEntryShape == ASSUME FindTyped, WalkShape, NextEntry PROVE WalkShape'
<1> DEFINE m == Len(open)
<1>1. /\ search = "walk" /\ open # <<>> /\ search' = "visit" /\ stayed' = stayed /\ Start' = Start
  BY StartFrame DEF NextEntry
<1>2. PICK p \in open[m].may :
        /\ open' = [open EXCEPT ![m] = Without(open[m], p)]
        /\ entry' = p
  BY DEF NextEntry, S!Last
<1>3. Nested /\ Listings /\ ListedOnce
  BY <1>1 DEF WalkShape, Walking
<1>4. /\ m \in Nat /\ m > 0 /\ DOMAIN open = 1..m /\ DOMAIN open' = 1..m
      /\ \A j \in 1..m : j # m => open'[j] = open[j]
      /\ open'[m] = Without(open[m], p)
  BY <1>1, <1>2, OpenIs DEF FindTyped, FindTypes
<1>0. m \in Nat /\ m > 0 /\ (\A j \in 1..m : open[j] \in Opened) /\ open \in Seq(Opened)
  BY <1>1, OpenIs
<1> HIDE DEF m
<1>5. /\ open'[m].dir = open[m].dir
      /\ open'[m].due = open[m].due \ {p} /\ open'[m].may = open[m].may \ {p}
  <2>1. m \in 1..m
    BY <1>0
  <2>2. open[m] \in Opened
    BY <1>0, <2>1
  <2> QED
    BY <1>4, <2>2 DEF Without, Opened
<1>6. Len(open') = m
  BY <1>0, <1>2 DEF m
<1>7. Nested'
  BY <1>1, <1>3, <1>4, <1>5, NestedFrame
<1>8. Listings'
  <2> SUFFICES ASSUME NEW j \in 1..m
               PROVE  /\ \A q \in open'[j].may : Len(q) = Len(Start) + j /\ Parent(q) = open'[j].dir
                      /\ open'[j].due \subseteq open'[j].may
                      /\ open'[j].may \cap stayed \subseteq open'[j].due
    BY <1>1, <1>4 DEF Listings, Parent, S!Front
  <2> QED
    BY <1>3, <1>4, <1>5 DEF Listings
<1>9. ListedOnce'
  <2>1. ASSUME NEW j \in 1..(m - 1), open'[j + 1].dir \in stayed
        PROVE  open'[j + 1].dir \notin open'[j].may
    <3>1. j + 1 \in 1..m /\ j \in 1..m /\ open'[j + 1].dir = open[j + 1].dir /\ open'[j] = open[j]
      BY <1>4, <1>5
    <3> QED
      BY <1>3, <2>1, <3>1 DEF ListedOnce, m
  <2>2. open' # <<>> /\ Len(p) = Len(Start) + m /\ Parent(p) = open'[m].dir /\ p \notin open'[m].may
    BY <1>2, <1>3, <1>4, <1>5 DEF Listings
  <2> QED
    BY <1>1, <1>2, <1>6, <2>1, <2>2 DEF ListedOnce, Parent, S!Front
<1> QED
  BY <1>7, <1>8, <1>9 DEF WalkShape

\* Without the last directory the others are as they were; the entry was no directory.
LEMMA AscendShape == ASSUME FindTyped, WalkShape, Ascend PROVE WalkShape'
<1> DEFINE m == Len(open) - 1
<1>1. /\ search = "walk" /\ entry \notin Directories /\ open # <<>> /\ open' = SubSeq(open, 1, m)
      /\ UNCHANGED <<search, entry, stayed>> /\ Start' = Start
  BY StartFrame DEF Ascend, S!Front
<1>2. Nested /\ Listings /\ ListedOnce
  BY <1>1 DEF WalkShape, Walking
<1>3. /\ m \in Nat /\ DOMAIN open = 1..(m + 1) /\ Len(open') = m /\ DOMAIN open' = 1..m
      /\ \A j \in 1..m : open'[j] = open[j]
  BY <1>1, OpenIs
<1> HIDE DEF m
<1>4. \A j \in 1..m : j \in DOMAIN open /\ \A i \in 1..j : i \in 1..m
  BY <1>3
<1>5. Nested'
  <2> SUFFICES ASSUME NEW j \in 1..m
               PROVE  /\ Len(open'[j].dir) = Len(Start) + j - 1
                      /\ Cut(open'[j].dir, Len(Start)) = Start
                      /\ \A i \in 1..j : open'[i].dir = Cut(open'[j].dir, Len(Start) + i - 1)
    BY <1>1, <1>3 DEF Nested, Cut
  <2> QED
    BY <1>2, <1>3, <1>4 DEF Nested
<1>6. Listings'
  <2> SUFFICES ASSUME NEW j \in 1..m
               PROVE  /\ \A q \in open'[j].may : Len(q) = Len(Start) + j /\ Parent(q) = open'[j].dir
                      /\ open'[j].due \subseteq open'[j].may
                      /\ open'[j].may \cap stayed \subseteq open'[j].due
    BY <1>1, <1>3 DEF Listings, Parent, S!Front
  <2> QED
    BY <1>2, <1>3, <1>4 DEF Listings
<1>7. ListedOnce'
  <2>1. ~AtHand'
    BY <1>1 DEF AtHand
  <2>2. ASSUME NEW j \in 1..(m - 1), open'[j + 1].dir \in stayed
        PROVE  open'[j + 1].dir \notin open'[j].may
    <3>1. j + 1 \in 1..m /\ j \in 1..m /\ j \in 1..(Len(open) - 1)
      BY <1>3 DEF m
    <3> QED
      BY <1>2, <1>3, <2>2, <3>1 DEF ListedOnce
  <2> QED
    BY <1>1, <1>3, <2>1, <2>2 DEF ListedOnce
<1> QED
  BY <1>5, <1>6, <1>7 DEF WalkShape

\* A visit leaves the directories alone.
LEMMA VisitShape == ASSUME FindTyped, WalkShape, Visit PROVE WalkShape'
<1>1. search = "visit" /\ search' = "walk" /\ UNCHANGED <<open, entry, stayed>> /\ Start' = Start
  BY StartFrame DEF Visit
<1>2. Nested /\ Listings /\ ListedOnce
  BY <1>1 DEF WalkShape, Walking
<1>3. Nested'
  BY <1>1, <1>2, NestedFrame
<1>4. Listings' /\ ListedOnce'
  BY <1>1, <1>2 DEF Listings, ListedOnce, AtHand, Parent, S!Front
<1> QED
  BY <1>3, <1>4 DEF WalkShape

\* What a change makes of the directories that are open.
LEMMA ChangeOpen ==
  ASSUME FindTyped, NEW new \in Trees, Change(new)
  PROVE  /\ DOMAIN open' = DOMAIN open /\ Len(open') = Len(open)
         /\ \A j \in DOMAIN open :
              /\ open'[j].dir = open[j].dir
              /\ open'[j].due = open[j].due \cap new
              /\ open'[j].may = open[j].may \cup {p \in new \ tree : Parent(p) = open[j].dir}
<1> DEFINE now(j) == [open[j] EXCEPT !.due = @ \cap new,
                                     !.may = @ \cup {p \in new \ tree : Parent(p) = open[j].dir}]
<1>1. Len(open) \in Nat /\ DOMAIN open = 1..Len(open)
  BY OpenIs
<1>2. open' = [j \in 1..Len(open) |-> now(j)]
  BY <1>1 DEF Change
<1>3. ASSUME NEW j \in 1..Len(open)
      PROVE  /\ now(j).dir = open[j].dir
             /\ now(j).due = open[j].due \cap new
             /\ now(j).may = open[j].may \cup {p \in new \ tree : Parent(p) = open[j].dir}
  <2>1. open[j] \in Opened
    BY OpenIs
  <2> QED
    BY <2>1 DEF Opened
<1> HIDE DEF now
<1>4. DOMAIN open' = 1..Len(open) /\ Len(open') = Len(open) /\ \A j \in 1..Len(open) : open'[j] = now(j)
  BY <1>1, <1>2
<1> QED
  BY <1>1, <1>3, <1>4

\* What is created while it is not among what stays may be listed; what stays keeps its place.
LEMMA ChangeShape == ASSUME FindTyped, WalkShape, NEW new \in Trees, Change(new) PROVE WalkShape'
<1> SUFFICES ASSUME Walking PROVE Nested' /\ Listings' /\ ListedOnce'
  BY DEF WalkShape, Walking, Change
<1>1. /\ UNCHANGED <<search, entry>> /\ Start' = Start /\ stayed' = stayed \cap new
  BY StartFrame DEF Change
<1>2. Nested /\ Listings /\ ListedOnce
  BY DEF WalkShape
<1>3. stayed \subseteq tree /\ new \subseteq Places
  BY DEF FindTyped, FindTypes, Trees
<1>4. Len(open) \in Nat /\ DOMAIN open = 1..Len(open) /\ \A j \in 1..Len(open) : open[j].dir \in Places
  BY OpenIs
<1>5. /\ DOMAIN open' = DOMAIN open /\ Len(open') = Len(open)
      /\ \A j \in DOMAIN open :
           /\ open'[j].dir = open[j].dir
           /\ open'[j].due = open[j].due \cap new
           /\ open'[j].may = open[j].may \cup {p \in new \ tree : Parent(p) = open[j].dir}
  BY ChangeOpen
<1>6. \A j \in DOMAIN open : \A p \in stayed' : p \in open'[j].may => p \in open[j].may /\ p \in new
  BY <1>1, <1>3, <1>5
<1>7. Nested'
  BY <1>1, <1>2, <1>5, NestedFrame
<1>8. Listings'
  <2> SUFFICES ASSUME NEW j \in DOMAIN open
               PROVE  /\ \A p \in open'[j].may : Len(p) = Len(Start) + j /\ Parent(p) = open'[j].dir
                      /\ open'[j].due \subseteq open'[j].may
                      /\ open'[j].may \cap stayed' \subseteq open'[j].due
    BY <1>1, <1>5 DEF Listings, Parent, S!Front
  <2>1. \A p \in new : Parent(p) = open[j].dir => Len(p) = Len(Start) + j
    <3>1. Len(open[j].dir) = Len(Start) + j - 1 /\ Len(Start) \in Nat /\ j \in Nat
      BY <1>2, <1>4, StartIs DEF Nested, FindTyped, FindTypes
    <3>2. \A p \in new : Len(Parent(p)) = Len(p) - 1 /\ Len(p) \in Nat
      BY <1>3, PlaceIs
    <3> QED
      BY <3>1, <3>2
  <2>2. \A p \in open'[j].may : Len(p) = Len(Start) + j /\ Parent(p) = open'[j].dir
    BY <1>2, <1>5, <2>1 DEF Listings
  <2>3. open'[j].due \subseteq open'[j].may
    BY <1>2, <1>5 DEF Listings
  <2>4. open'[j].may \cap stayed' \subseteq open'[j].due
    BY <1>1, <1>2, <1>5, <1>6 DEF Listings
  <2> QED
    BY <2>2, <2>3, <2>4
<1>9. ListedOnce'
  <2>1. ASSUME NEW j \in 1..(Len(open) - 1), open'[j + 1].dir \in stayed'
        PROVE  open'[j + 1].dir \notin open'[j].may
    <3>1. j \in DOMAIN open /\ j + 1 \in DOMAIN open
      BY <1>4
    <3> QED
      BY <1>1, <1>2, <1>5, <1>6, <2>1, <3>1 DEF ListedOnce
  <2>2. ASSUME AtHand
        PROVE  /\ open' # <<>>
               /\ Len(entry) = Len(Start) + Len(open)
               /\ Parent(entry) = open'[Len(open)].dir
               /\ entry \in stayed' => entry \notin open'[Len(open)].may
    <3>1. open # <<>> /\ Len(open) > 0 /\ Len(open) \in DOMAIN open
      BY <1>2, <1>4, <2>2 DEF ListedOnce, FindTyped, FindTypes
    <3> QED
      BY <1>1, <1>2, <1>4, <1>5, <1>6, <2>2, <3>1 DEF ListedOnce
  <2> QED
    BY <1>1, <1>5, <2>1, <2>2 DEF ListedOnce, AtHand, Parent, S!Front
<1> QED
  BY <1>7, <1>8, <1>9

\* After the other steps no walk is under way, or nothing of it changed.
LEMMA NextShape == ASSUME FindTyped, WalkShape, [FindNext]_<<vars, finding>> PROVE WalkShape'
<1>1. CASE StartWalk
  BY <1>1, StartWalkShape
<1>2. CASE Descend
  BY <1>2, DescendShape
<1>3. CASE NextEntry
  BY <1>3, NextEntryShape
<1>4. CASE Ascend
  BY <1>4, AscendShape
<1>5. CASE Visit
  BY <1>5, VisitShape
<1>6. CASE CreatePath \/ DeletePath
  BY <1>6, ChangeIs, ChangeShape DEF FindTyped
<1>7. CASE NextInstance \/ CompileStep \/ PatternRefused \/ EndWalk \/ End
  <2>1. search' \in {"next", "compile", "thrown", "done"}
    BY <1>7 DEF NextInstance, CompileStep, PatternRefused, Fail, EndWalk, End, finding, reader
  <2> QED
    BY <2>1 DEF WalkShape, Walking
<1>8. CASE Protect \/ UNCHANGED <<vars, finding>>
  <2>1. UNCHANGED <<open, entry, search, stayed>> /\ Start' = Start
    BY <1>8, StartFrame DEF Protect, finding, reader
  <2>2. Walking' => Nested'
    BY <2>1, NestedFrame DEF WalkShape, Walking
  <2> QED
    BY <2>1, <2>2 DEF WalkShape, Walking, Listings, ListedOnce, AtHand, Parent, S!Front
<1> QED
  BY <1>1, <1>2, <1>3, <1>4, <1>5, <1>6, <1>7, <1>8 DEF FindNext, Read, Ended

-----------------------------------------------------------------------------
(* What is found                                                            *)

\* What is below the start in a tree, with all directories between.
LEMMA FoundIs ==
  ASSUME FindTyped, Walking \/ Readable(Start),
         NEW whole \in Trees, NEW p \in whole, IsFound(p)
  PROVE  /\ p \in Places /\ Len(p) \in Nat /\ Len(Start) \in Nat /\ Len(Start) < Len(p)
         /\ Cut(p, Len(p)) = p
         /\ \A n \in Len(Start)..Len(p) : Cut(p, n) \in whole /\ Len(Cut(p, n)) = n
         /\ \A n \in Len(Start)..(Len(p) - 1) :
              Cut(p, n) \in Directories /\ Parent(Cut(p, n + 1)) = Cut(p, n)
<1>1. p \in Places /\ S!IsStrictPrefix(Start, p) /\ Start \in Directories
  BY DEF Trees, IsFound, FindTyped, FindTypes, Readable
<1>2. /\ p \in Seq(Seq(Literals)) /\ Len(p) \in Nat
      /\ Len(Start) \in Nat /\ Len(Start) < Len(p)
  BY <1>1, PlaceIs, StartIs, BelowStart
<1>3. \A n \in Len(Start)..Len(p) : Cut(p, n) \in whole
  BY <1>1, TreeIsWhole
<1>4. \A n \in Len(Start)..(Len(p) - 1) : Cut(p, n) \in Directories
  BY <1>1, BelowStart
<1>5. \A n \in 0..Len(p) : Len(Cut(p, n)) = n
  BY <1>2, CutIs
<1>6. ASSUME NEW n \in Len(Start)..(Len(p) - 1) PROVE Parent(Cut(p, n + 1)) = Cut(p, n)
  <2>1. n + 1 \in 0..Len(p) /\ n \in 0..(n + 1) /\ (n + 1) - 1 = n
    BY <1>2
  <2>2. /\ Cut(p, n + 1) \in Seq(Seq(Literals)) /\ Len(Cut(p, n + 1)) = n + 1
        /\ Cut(Cut(p, n + 1), n) = Cut(p, n)
    BY <1>2, <2>1, CutIs
  <2>3. Parent(Cut(p, n + 1)) = Cut(Cut(p, n + 1), Len(Cut(p, n + 1)) - 1)
    BY <2>2, ParentIsCut
  <2> QED
    BY <2>1, <2>2, <2>3
<1>7. Cut(p, Len(p)) = p
  BY <1>2, CutIs
<1>8. \A n \in Len(Start)..Len(p) : n \in 0..Len(p)
  BY <1>2
<1> QED
  BY <1>1, <1>2, <1>3, <1>4, <1>5, <1>6, <1>7, <1>8

\* What stays is a tree.
LEMMA StayedIs == ASSUME FindTyped PROVE stayed \in Trees /\ stayed \subseteq tree /\ tree \in Trees
BY DEF FindTyped, FindTypes, Trees

\* What is ahead after a step.
LEMMA AheadNext ==
  ASSUME Start' = Start
  PROVE  \A p : Ahead(p)' <=>
           \E j \in DOMAIN open' :
             /\ Len(Start) + j <= Len(p)
             /\ \/ Cut(p, Len(Start) + j) \in open'[j].may
                \/ /\ j = Len(open')
                   /\ entry' = Cut(p, Len(Start) + j)
                   /\ search' = "visit" \/ (entry' \in Directories /\ Len(Start) + j < Len(p))
BY DEF Ahead, AheadAt, Cut

\* A step that finds nothing and leaves ahead what is found and stays.
LEMMA ExactFrame ==
  ASSUME FindTyped, Exact, Walking, UNCHANGED <<vars, k, entries>>, stayed' \subseteq stayed,
         \A p \in stayed' : IsFound(p) => (Ahead(p)' <=> Ahead(p))
  PROVE  Exact'
<1>1. \A p : IsFound(p)' <=> IsFound(p)
  BY StartFrame
<1>2. entries' = entries /\ \A p : Listed(p)' <=> Listed(p)
  BY DEF Listed
<1>3. \A p \in stayed' : p \in Places
  BY StayedIs DEF Trees
<1> QED
  BY <1>1, <1>2, <1>3 DEF Exact

\* What was ahead below the entry is ahead as one of its children.
LEMMA DescendExact == ASSUME FindTyped, WalkShape, Exact, Descend PROVE Exact'
<1>1. CASE Fail
  BY <1>1 DEF Fail, Exact, Walking
<1>2. CASE ~Fail
  <2> DEFINE m == Len(open)
  <2>1. /\ search = "walk" /\ entry \in Directories /\ search' = "walk" /\ entry' = NoPath
        /\ open' = Append(open, Listing(entry)) /\ Start' = Start
        /\ UNCHANGED <<vars, k, entries, stayed>>
    BY <1>2, StartFrame DEF Descend
  <2>2. Walking /\ AtHand
    BY <2>1 DEF Walking, AtHand
  <2>3. m \in Nat /\ m > 0 /\ Len(entry) = Len(Start) + m
    BY <2>2, EntryIs, OpenIs
  <2>4. /\ DOMAIN open = 1..m /\ DOMAIN open' = 1..(m + 1)
        /\ open'[m + 1].may = Children(entry) /\ \A j \in 1..m : open'[j] = open[j]
    BY <2>1, OpenIs DEF Listing
  <2> HIDE DEF m
  <2> SUFFICES ASSUME NEW p \in stayed, IsFound(p) PROVE Ahead(p)' <=> Ahead(p)
    BY <2>1, <2>2, ExactFrame
  <2>5. /\ Len(p) \in Nat /\ Len(Start) \in Nat /\ Len(Start) < Len(p)
        /\ \A n \in Len(Start)..Len(p) : Cut(p, n) \in stayed /\ Len(Cut(p, n)) = n
        /\ \A n \in Len(Start)..(Len(p) - 1) : Parent(Cut(p, n + 1)) = Cut(p, n)
    BY <2>2, FoundIs, StayedIs
  <2>6. \A n \in Len(Start)..Len(p) : Cut(p, n) \in tree /\ Cut(p, n) # NoPath
    BY <2>5, StayedIs, PlacesAssumption, SMTT(30) DEF Trees
  <2>7. Ahead(p) <=> \E j \in 1..m :
           /\ Len(Start) + j <= Len(p)
           /\ \/ Cut(p, Len(Start) + j) \in open[j].may
              \/ j = m /\ entry = Cut(p, Len(Start) + j) /\ Len(Start) + j < Len(p)
    BY <2>1, <2>4 DEF Ahead, AheadAt, m
  <2>8. Ahead(p)' <=> \E j \in 1..(m + 1) :
           Len(Start) + j <= Len(p) /\ Cut(p, Len(Start) + j) \in open'[j].may
    <3>1. \A j \in 1..(m + 1) : Len(Start) + j <= Len(p) => entry' # Cut(p, Len(Start) + j)
      BY <2>1, <2>3, <2>5, <2>6
    <3> QED
      BY <2>1, <2>4, <3>1, AheadNext
  <2>9. Len(Start) + m < Len(p) =>
          (Cut(p, Len(Start) + m + 1) \in Children(entry) <=> entry = Cut(p, Len(Start) + m))
    <3> SUFFICES ASSUME Len(Start) + m < Len(p)
                 PROVE  Cut(p, Len(Start) + m + 1) \in Children(entry) <=> entry = Cut(p, Len(Start) + m)
      OBVIOUS
    <3> DEFINE n == Len(Start) + m
    <3>1. n \in Len(Start)..(Len(p) - 1) /\ n + 1 \in Len(Start)..Len(p)
      BY <2>3, <2>5
    <3>2. /\ Cut(p, n + 1) \in tree /\ Len(Cut(p, n + 1)) = Len(entry) + 1
          /\ Parent(Cut(p, n + 1)) = Cut(p, n)
      BY <2>3, <2>5, <2>6, <3>1
    <3> QED
      BY <3>2 DEF Children
  <2>10. ASSUME NEW j \in 1..m PROVE j \in 1..(m + 1) /\ open'[j].may = open[j].may
    BY <2>3, <2>4
  <2>11. ASSUME Ahead(p) PROVE Ahead(p)'
    <3>1. PICK j \in 1..m :
            /\ Len(Start) + j <= Len(p)
            /\ \/ Cut(p, Len(Start) + j) \in open[j].may
               \/ j = m /\ entry = Cut(p, Len(Start) + j) /\ Len(Start) + j < Len(p)
      BY <2>7, <2>11
    <3>2. CASE Cut(p, Len(Start) + j) \in open[j].may
      BY <2>8, <2>10, <3>1, <3>2
    <3>3. CASE j = m /\ entry = Cut(p, Len(Start) + j) /\ Len(Start) + j < Len(p)
      <4>1. Cut(p, Len(Start) + (m + 1)) \in open'[m + 1].may
        BY <2>3, <2>4, <2>5, <2>9, <3>3
      <4>2. m + 1 \in 1..(m + 1) /\ Len(Start) + (m + 1) <= Len(p)
        BY <2>3, <2>5, <3>3
      <4> QED
        BY <2>8, <4>1, <4>2
    <3> QED
      BY <3>1, <3>2, <3>3
  <2>12. ASSUME Ahead(p)' PROVE Ahead(p)
    <3>1. PICK j \in 1..(m + 1) :
            Len(Start) + j <= Len(p) /\ Cut(p, Len(Start) + j) \in open'[j].may
      BY <2>8, <2>12
    <3>2. CASE j \in 1..m
      BY <2>7, <2>10, <3>1, <3>2
    <3>3. CASE j = m + 1
      <4>1. Len(Start) + m < Len(p) /\ Len(Start) + j = Len(Start) + m + 1 /\ m \in 1..m
        BY <2>3, <2>5, <3>1, <3>3
      <4>2. entry = Cut(p, Len(Start) + m)
        BY <2>4, <2>9, <3>1, <3>3, <4>1
      <4> QED
        BY <2>7, <4>1, <4>2
    <3>4. j \in 1..m \/ j = m + 1
      BY <2>3
    <3> QED
      BY <3>2, <3>3, <3>4
  <2> QED
    BY <2>11, <2>12
<1> QED
  BY <1>1, <1>2

\* What was ahead as listed of the last directory is ahead as the entry.
LEMMA NextEntryExact == ASSUME FindTyped, WalkShape, Exact, NextEntry PROVE Exact'
<1> DEFINE m == Len(open)
<1>1. /\ search = "walk" /\ entry \notin Directories /\ open # <<>> /\ search' = "visit" /\ Start' = Start
      /\ UNCHANGED <<vars, k, entries, stayed>>
  BY StartFrame DEF NextEntry
<1>2. PICK x \in open[m].may :
        /\ open' = [open EXCEPT ![m] = Without(open[m], x)]
        /\ entry' = x
  BY DEF NextEntry, S!Last
<1>3. m \in Nat /\ m > 0 /\ DOMAIN open = 1..m /\ open \in Seq(Opened) /\ \A j \in 1..m : open[j] \in Opened
  BY <1>1, OpenIs
<1>4. Len(open') = m
  BY <1>2, <1>3
<1> HIDE DEF m
<1>5. /\ DOMAIN open' = 1..m /\ open'[m] = Without(open[m], x)
      /\ \A j \in 1..m : j # m => open'[j] = open[j]
  BY <1>2, <1>3
<1>6. open'[m].may = open[m].may \ {x}
  <2>1. open[m] \in Opened
    BY <1>3
  <2> QED
    BY <1>5, <2>1 DEF Without, Opened
<1> SUFFICES ASSUME NEW p \in stayed, IsFound(p) PROVE Ahead(p)' <=> Ahead(p)
  BY <1>1, ExactFrame DEF Walking
<1>7. Ahead(p) <=> \E j \in 1..m :
         Len(Start) + j <= Len(p) /\ Cut(p, Len(Start) + j) \in open[j].may
  BY <1>1, <1>3 DEF Ahead, AheadAt
<1>8. Ahead(p)' <=> \E j \in 1..m :
         /\ Len(Start) + j <= Len(p)
         /\ \/ Cut(p, Len(Start) + j) \in open'[j].may
            \/ j = m /\ x = Cut(p, Len(Start) + j)
  BY <1>1, <1>2, <1>4, <1>5, AheadNext
<1>9. ASSUME NEW j \in 1..m
      PROVE  Cut(p, Len(Start) + j) \in open[j].may <=>
               \/ Cut(p, Len(Start) + j) \in open'[j].may
               \/ j = m /\ x = Cut(p, Len(Start) + j)
  BY <1>2, <1>5, <1>6
<1> QED
  BY <1>7, <1>8, <1>9

\* Nothing that stays is left in a directory whose due entries were given.
LEMMA AscendExact == ASSUME FindTyped, WalkShape, Exact, Ascend PROVE Exact'
<1> DEFINE m == Len(open) - 1
<1>1. /\ search = "walk" /\ entry \notin Directories /\ open # <<>> /\ open' = SubSeq(open, 1, m)
      /\ open[Len(open)].due = {} /\ Start' = Start
      /\ UNCHANGED <<vars, k, search, entry, entries, stayed>>
  BY StartFrame DEF Ascend, S!Front, S!Last
<1>2. /\ m \in Nat /\ DOMAIN open = 1..(m + 1) /\ Len(open) = m + 1 /\ Len(open') = m /\ DOMAIN open' = 1..m
      /\ \A j \in 1..m : open'[j] = open[j]
  BY <1>1, OpenIs
<1> HIDE DEF m
<1>3. open[m + 1].may \cap stayed = {}
  <2>1. Listings /\ m + 1 \in DOMAIN open
    BY <1>1, <1>2 DEF WalkShape, Walking
  <2> QED
    BY <1>1, <1>2, <2>1 DEF Listings
<1> SUFFICES ASSUME NEW p \in stayed, IsFound(p) PROVE Ahead(p)' <=> Ahead(p)
  BY <1>1, ExactFrame DEF Walking
<1>4. /\ Len(p) \in Nat /\ Len(Start) \in Nat
      /\ \A n \in Len(Start)..Len(p) : Cut(p, n) \in stayed
  BY <1>1, FoundIs, StayedIs DEF Walking
<1>5. Ahead(p) <=> \E j \in 1..(m + 1) :
         Len(Start) + j <= Len(p) /\ Cut(p, Len(Start) + j) \in open[j].may
  BY <1>1, <1>2 DEF Ahead, AheadAt
<1>6. Ahead(p)' <=> \E j \in 1..m :
         Len(Start) + j <= Len(p) /\ Cut(p, Len(Start) + j) \in open'[j].may
  BY <1>1, <1>2, AheadNext
<1>7. Len(Start) + (m + 1) <= Len(p) => Cut(p, Len(Start) + (m + 1)) \notin open[m + 1].may
  <2>1. Len(Start) + (m + 1) <= Len(p) => Len(Start) + (m + 1) \in Len(Start)..Len(p)
    BY <1>2, <1>4
  <2> QED
    BY <1>3, <1>4, <2>1
<1>8. \A j \in 1..(m + 1) : j \in 1..m \/ j = m + 1
  BY <1>2
<1>9. \A j \in 1..m : j \in 1..(m + 1)
  BY <1>2
<1> QED
  BY <1>2, <1>5, <1>6, <1>7, <1>8, <1>9

\* Nothing that stays is created, so what is ahead of it is the same.
LEMMA ChangeExact ==
  ASSUME FindTyped, WalkShape, Exact, NEW new \in Trees, Change(new)
  PROVE  Exact'
<1> SUFFICES ASSUME Walking PROVE Exact'
  BY DEF Exact, Walking, Change
<1>1. /\ UNCHANGED <<vars, k, search, entry, entries>> /\ Start' = Start /\ stayed' = stayed \cap new
  BY StartFrame DEF Change
<1>2. /\ DOMAIN open' = DOMAIN open /\ Len(open') = Len(open)
      /\ \A j \in DOMAIN open :
           open'[j].may = open[j].may \cup {p \in new \ tree : Parent(p) = open[j].dir}
  BY ChangeOpen
<1>3. stayed' \subseteq stayed
  BY <1>1
<1> SUFFICES ASSUME NEW p \in stayed', IsFound(p) PROVE Ahead(p)' <=> Ahead(p)
  BY <1>1, <1>3, ExactFrame
<1>4. p \in stayed
  BY <1>3
<1>5. /\ Len(p) \in Nat /\ Len(Start) \in Nat
      /\ \A n \in Len(Start)..Len(p) : Cut(p, n) \in stayed
  BY <1>4, FoundIs, StayedIs
<1>6. \A n \in Len(Start)..Len(p) : Cut(p, n) \in tree
  BY <1>5, StayedIs
<1>7. DOMAIN open = 1..Len(open) /\ Len(open) \in Nat
  BY OpenIs
<1>8. ASSUME NEW j \in DOMAIN open, Len(Start) + j <= Len(p)
      PROVE  Cut(p, Len(Start) + j) \in open'[j].may <=> Cut(p, Len(Start) + j) \in open[j].may
  <2>1. Len(Start) + j \in Len(Start)..Len(p)
    BY <1>5, <1>7, <1>8
  <2> QED
    BY <1>2, <1>6, <2>1
<1>9. Ahead(p)' <=> \E j \in DOMAIN open :
         /\ Len(Start) + j <= Len(p)
         /\ \/ Cut(p, Len(Start) + j) \in open'[j].may
            \/ /\ j = Len(open)
               /\ entry = Cut(p, Len(Start) + j)
               /\ search = "visit" \/ (entry \in Directories /\ Len(Start) + j < Len(p))
  BY <1>1, <1>2, AheadNext
<1>10. Ahead(p) <=> \E j \in DOMAIN open :
         /\ Len(Start) + j <= Len(p)
         /\ \/ Cut(p, Len(Start) + j) \in open[j].may
            \/ /\ j = Len(open)
               /\ entry = Cut(p, Len(Start) + j)
               /\ search = "visit" \/ (entry \in Directories /\ Len(Start) + j < Len(p))
  BY DEF Ahead, AheadAt
<1> QED
  BY <1>8, <1>9, <1>10

\* The walk begins with all of the tree ahead that is below the start.
LEMMA StartWalkExact == ASSUME FindTyped, StartWalk PROVE Exact'
<1>1. CASE Fail
  BY <1>1 DEF Fail, Exact, Walking
<1>2. CASE ~Fail
  <2>1. /\ Readable(Start) /\ open' = <<Listing(Start)>> /\ entries' = <<>> /\ stayed' = tree
        /\ Start' = Start /\ UNCHANGED <<vars, k>>
    BY <1>2, StartFrame DEF StartWalk
  <2>2. /\ Len(open') = 1 /\ DOMAIN open' = {1} /\ open'[1].may = Children(Start)
        /\ DOMAIN entries' = {}
    BY <2>1 DEF Listing
  <2>3. ASSUME NEW p \in tree, IsFound(p) PROVE Ahead(p)'
    <3>1. /\ Len(p) \in Nat /\ Len(Start) \in Nat /\ Len(Start) < Len(p) /\ Cut(p, Len(p)) = p
          /\ \A n \in Len(Start)..Len(p) : Cut(p, n) \in tree /\ Len(Cut(p, n)) = n
          /\ \A n \in Len(Start)..(Len(p) - 1) : Parent(Cut(p, n + 1)) = Cut(p, n)
      BY <2>1, <2>3, FoundIs, StayedIs
    <3>2. Len(Start) \in Len(Start)..(Len(p) - 1) /\ Len(Start) + 1 \in Len(Start)..Len(p)
      BY <3>1
    <3>3. Cut(p, Len(Start)) = Start
      BY <2>3, BelowStart, StayedIs, <2>1 DEF Readable, IsFound, Trees
    <3>4. Cut(p, Len(Start) + 1) \in Children(Start)
      BY <3>1, <3>2, <3>3 DEF Children
    <3>5. Len(Start) + 1 <= Len(p) /\ 1 \in DOMAIN open'
      BY <2>2, <3>1
    <3> QED
      BY <2>1, <2>2, <3>4, <3>5, AheadNext
  <2>4. \A p : ~Listed(p)' /\ (IsFound(p)' <=> IsFound(p))
    BY <2>1, <2>2, StartFrame DEF Listed
  <2> QED
    BY <2>1, <2>2, <2>3, <2>4 DEF Exact
<1> QED
  BY <1>1, <1>2

\* What is at hand was not listed before and, once visited, is not ahead.
LEMMA VisitAhead ==
  ASSUME FindTyped, WalkShape, Visit, NEW p \in stayed, IsFound(p)
  PROVE  /\ p # entry => (Ahead(p)' <=> Ahead(p))
         /\ p = entry => Ahead(p) /\ ~Ahead(p)'
<1> DEFINE m == Len(open)
<1>1. search = "visit" /\ search' = "walk" /\ Start' = Start /\ UNCHANGED <<open, entry>>
  BY StartFrame DEF Visit
<1>2. Walking /\ AtHand
  BY <1>1 DEF Walking, AtHand
<1>3. /\ m \in Nat /\ m \in 1..m /\ DOMAIN open = 1..m /\ Len(entry) = Len(Start) + m
      /\ \A i \in 1..m : open[i].dir = Cut(entry, Len(Start) + i - 1)
  BY <1>2, EntryIs, OpenIs
<1>4. /\ Len(p) \in Nat /\ Len(Start) \in Nat /\ Cut(p, Len(p)) = p
      /\ \A n \in Len(Start)..Len(p) : Cut(p, n) \in stayed /\ Len(Cut(p, n)) = n
      /\ \A n \in Len(Start)..(Len(p) - 1) : Cut(p, n) \in Directories
  BY <1>2, FoundIs, StayedIs
<1>5. Ahead(p) <=> \E j \in 1..m :
         /\ Len(Start) + j <= Len(p)
         /\ Cut(p, Len(Start) + j) \in open[j].may \/ (j = m /\ entry = Cut(p, Len(Start) + j))
  BY <1>1, <1>3, SMTT(30) DEF Ahead, AheadAt
<1>6. Ahead(p)' <=> \E j \in 1..m :
         /\ Len(Start) + j <= Len(p)
         /\ \/ Cut(p, Len(Start) + j) \in open[j].may
            \/ /\ j = m /\ entry = Cut(p, Len(Start) + j)
               /\ entry \in Directories /\ Len(Start) + j < Len(p)
  BY <1>1, <1>3, AheadNext
<1>7. ListedOnce
  BY <1>2 DEF WalkShape
<1> HIDE DEF m
<1>8. ASSUME p # entry PROVE Ahead(p)' <=> Ahead(p)
  <2>1. ASSUME Len(Start) + m <= Len(p), entry = Cut(p, Len(Start) + m)
        PROVE  entry \in Directories /\ Len(Start) + m < Len(p)
    <3>1. Len(Start) + m # Len(p)
      BY <1>4, <1>8, <2>1
    <3>2. Len(Start) + m \in Len(Start)..(Len(p) - 1)
      BY <1>3, <1>4, <2>1, <3>1
    <3> QED
      BY <1>4, <2>1, <3>2
  <2> QED
    BY <1>5, <1>6, <2>1
<1>9. ASSUME p = entry PROVE Ahead(p) /\ ~Ahead(p)'
  <2>1. Len(p) = Len(Start) + m /\ Cut(p, Len(Start) + m) = entry
    BY <1>3, <1>4, <1>9
  <2>2. Ahead(p)
    <3>1. Len(Start) + m <= Len(p)
      BY <1>4, <2>1
    <3> QED
      BY <1>3, <1>5, <2>1, <3>1
  <2>3. ASSUME NEW j \in 1..m, Len(Start) + j <= Len(p), Cut(p, Len(Start) + j) \in open[j].may
        PROVE  FALSE
    <3>1. CASE j = m
      BY <1>2, <1>7, <1>9, <2>1, <2>3, <3>1 DEF ListedOnce, m
    <3>2. CASE j # m
      <4>1. j \in 1..(m - 1) /\ j + 1 \in 1..m /\ Len(Start) + (j + 1) - 1 = Len(Start) + j
            /\ Len(Start) + j \in Len(Start)..Len(p)
        BY <1>3, <1>4, <2>3, <3>2
      <4>2. open[j + 1].dir = Cut(p, Len(Start) + j)
        BY <1>3, <1>9, <4>1
      <4>3. Cut(p, Len(Start) + j) \in stayed
        BY <1>4, <4>1
      <4> QED
        BY <1>7, <2>3, <4>1, <4>2, <4>3 DEF ListedOnce, m
    <3> QED
      BY <3>1, <3>2
  <2>4. ~(\E j \in 1..m : j = m /\ Len(Start) + j < Len(p))
    BY <1>3, <1>4, <2>1
  <2> QED
    BY <1>6, <2>2, <2>3, <2>4
<1> QED
  BY <1>8, <1>9

\* A visit puts the entry into the vector if it is found, and no longer ahead.
LEMMA VisitExact == ASSUME FindTyped, WalkShape, Exact, Visit PROVE Exact'
<1>1. /\ search = "visit" /\ UNCHANGED <<vars, k, open, entry, stayed>>
      /\ entries' = IF Match(Remainder(Below(entry))) THEN Append(entries, entry) ELSE entries
  BY DEF Visit
<1>2. Walking /\ AtHand
  BY <1>1 DEF Walking, AtHand
<1>3. entry \in Places /\ (IsFound(entry) <=> Match(Remainder(Below(entry))))
  BY <1>2, EntryIs DEF IsFound
<1>4. entries \in Seq(Places) /\ Len(entries) \in Nat /\ DOMAIN entries = 1..Len(entries)
  BY DEF FindTyped, FindTypes
<1>5. /\ \A p \in Places : Listed(p) => IsFound(p)
      /\ \A p \in stayed : IsFound(p) => Listed(p) \/ Ahead(p)
      /\ \A p \in stayed : Listed(p) => ~Ahead(p)
      /\ \A i, j \in DOMAIN entries : entries[i] = entries[j] /\ entries[i] \in stayed => i = j
  BY <1>2 DEF Exact
<1>6. \A p \in stayed : IsFound(p) => /\ p # entry => (Ahead(p)' <=> Ahead(p))
                                      /\ p = entry => Ahead(p) /\ ~Ahead(p)'
  BY VisitAhead
<1>7. \A p : IsFound(p)' <=> IsFound(p)
  BY <1>1, StartFrame
<1>8. stayed \subseteq Places
  BY StayedIs DEF Trees
<1>9. CASE ~IsFound(entry)
  <2>1. entries' = entries /\ \A p : Listed(p)' <=> Listed(p)
    BY <1>1, <1>3, <1>9 DEF Listed
  <2> QED
    BY <1>1, <1>5, <1>6, <1>7, <1>8, <1>9, <2>1 DEF Exact
<1>10. CASE IsFound(entry)
  <2> DEFINE n == Len(entries) + 1
  <2>1. /\ entries' = Append(entries, entry) /\ DOMAIN entries' = 1..n /\ n \in Nat /\ n \in 1..n
        /\ entries'[n] = entry /\ \A j \in DOMAIN entries : j \in 1..n /\ entries'[j] = entries[j]
        /\ \A j \in 1..n : j = n \/ j \in DOMAIN entries
    BY <1>1, <1>3, <1>4, <1>10
  <2> HIDE DEF n
  <2>2. \A p : Listed(p)' <=> Listed(p) \/ p = entry
    BY <2>1 DEF Listed
  <2>3. \A p \in Places : Listed(p)' => IsFound(p)'
    BY <1>5, <1>7, <1>10, <2>2
  <2>4. \A p \in stayed : IsFound(p)' => Listed(p)' \/ Ahead(p)'
    BY <1>5, <1>6, <1>7, <2>2
  <2>5. \A p \in stayed : Listed(p)' => ~Ahead(p)'
    BY <1>5, <1>6, <1>8, <1>10, <2>2
  <2>6. entry \in stayed => ~Listed(entry)
    BY <1>5, <1>6, <1>10
  <2>7. ASSUME NEW i \in DOMAIN entries', NEW j \in DOMAIN entries',
               entries'[i] = entries'[j], entries'[i] \in stayed
        PROVE  i = j
    <3>1. CASE i \in DOMAIN entries /\ j \in DOMAIN entries
      BY <1>5, <2>1, <2>7, <3>1
    <3>2. CASE i = n /\ j \in DOMAIN entries
      BY <2>1, <2>6, <2>7, <3>2 DEF Listed
    <3>3. CASE i \in DOMAIN entries /\ j = n
      BY <2>1, <2>6, <2>7, <3>3 DEF Listed
    <3> QED
      BY <2>1, <3>1, <3>2, <3>3
  <2> QED
    BY <1>1, <2>3, <2>4, <2>5, <2>7 DEF Exact
<1> QED
  BY <1>9, <1>10

\* After the other steps no walk is under way, or nothing of it changed.
LEMMA NextExact == ASSUME FindTyped, WalkShape, Exact, [FindNext]_<<vars, finding>> PROVE Exact'
<1>1. CASE StartWalk
  BY <1>1, StartWalkExact
<1>2. CASE Descend
  BY <1>2, DescendExact
<1>3. CASE NextEntry
  BY <1>3, NextEntryExact
<1>4. CASE Ascend
  BY <1>4, AscendExact
<1>5. CASE Visit
  BY <1>5, VisitExact
<1>6. CASE CreatePath \/ DeletePath
  BY <1>6, ChangeIs, ChangeExact DEF FindTyped
<1>7. CASE NextInstance \/ CompileStep \/ PatternRefused \/ EndWalk \/ End
  <2>1. search' \in {"next", "compile", "thrown", "done"}
    BY <1>7 DEF NextInstance, CompileStep, PatternRefused, Fail, EndWalk, End, finding, reader
  <2> QED
    BY <2>1 DEF Exact, Walking
<1>8. CASE Protect \/ UNCHANGED <<vars, finding>>
  <2>1. UNCHANGED <<vars, k, open, entry, entries, search, stayed>> /\ Start' = Start
    BY <1>8, StartFrame DEF Protect, finding, reader
  <2>2. \A p : Ahead(p)' <=> Ahead(p)
    BY <2>1 DEF Ahead, AheadAt, Cut
  <2>3. CASE Walking
    BY <2>1, <2>2, <2>3, ExactFrame
  <2>4. CASE ~Walking
    BY <2>1, <2>4 DEF Exact, Walking
  <2> QED
    BY <2>3, <2>4
<1> QED
  BY <1>1, <1>2, <1>3, <1>4, <1>5, <1>6, <1>7, <1>8 DEF FindNext, Read, Ended

-----------------------------------------------------------------------------
(* What is written                                                          *)

\* Nothing is written when the search begins.
LEMMA InitBefore == FindInit => Before /\ FilesInOrder
BY DEF FindInit, Before, FilesInOrder

\* The files of one walk, in the order in which they are written.
LEMMA WrittenIs ==
  ASSUME FindTyped, EndWalk
  PROVE  \E paths \in Sorted(entries) :
           /\ paths \in Seq(Places) /\ Len(paths) \in Nat /\ Len(output) \in Nat
           /\ DOMAIN paths = 1..Len(paths) /\ DOMAIN output = 1..Len(output)
           /\ DOMAIN output' = 1..(Len(output) + Len(paths))
           /\ \A i \in 1..Len(output) : output'[i] = output[i]
           /\ \A i \in 1..Len(paths) : output'[Len(output) + i] = [instance |-> k, path |-> paths[i]]
<1>1. PICK paths \in Sorted(entries) :
        output' = output \o [j \in DOMAIN paths |-> [instance |-> k, path |-> paths[j]]]
  BY DEF EndWalk
<1> DEFINE Written == [instance : Nat, path : Places]
           more == [j \in DOMAIN paths |-> [instance |-> k, path |-> paths[j]]]
<1>2. paths \in Seq(Places) /\ output \in Seq(Written) /\ k \in Nat
  BY SortedIs DEF FindTyped, FindTypes
<1>3. /\ Len(paths) \in Nat /\ DOMAIN paths = 1..Len(paths) /\ \A j \in 1..Len(paths) : paths[j] \in Places
      /\ Len(output) \in Nat /\ DOMAIN output = 1..Len(output)
  BY <1>2
<1>4. \A j \in 1..Len(paths) : [instance |-> k, path |-> paths[j]] \in Written
  BY <1>2, <1>3
<1> HIDE DEF Written
<1>5. more \in Seq(Written) /\ Len(more) = Len(paths)
      /\ \A j \in 1..Len(paths) : more[j] = [instance |-> k, path |-> paths[j]]
  BY <1>3, <1>4
<1> HIDE DEF more
<1>6. output' = output \o more
  BY <1>1 DEF more
<1>7. /\ DOMAIN output' = 1..(Len(output) + Len(paths))
      /\ \A i \in 1..Len(output) : output'[i] = output[i]
      /\ \A i \in 1..Len(paths) : output'[Len(output) + i] = more[i]
  <2>1. /\ DOMAIN (output \o more) = 1..(Len(output) + Len(more))
        /\ \A i \in 1..Len(output) : (output \o more)[i] = output[i]
        /\ \A i \in 1..Len(more) : (output \o more)[Len(output) + i] = more[i]
    <3>1. output \in Seq(Written) /\ more \in Seq(Written)
      BY <1>2, <1>5
    <3>2. output \o more \in Seq(Written) /\ Len(output \o more) = Len(output) + Len(more)
      BY <3>1
    <3>3. \A i \in 1..Len(output) : (output \o more)[i] = output[i]
      BY <3>1
    <3>4. \A i \in 1..Len(more) : (output \o more)[Len(output) + i] = more[i]
      BY <3>1
    <3>5. DOMAIN (output \o more) = 1..(Len(output) + Len(more))
      BY <3>2
    <3> QED
      BY <3>3, <3>4, <3>5
  <2> QED
    BY <1>5, <1>6, <2>1
<1> QED
  BY <1>2, <1>3, <1>5, <1>7

\* The options and the pattern are given once.
LEMMA OptionsFrame == ASSUME [FindNext]_<<vars, finding>> PROVE pattern' = pattern /\ sort' = sort
<1>1. Step => pattern' = pattern
  BY DEF Step, RepeatedSeparator, NoSegment, EndGlobstar, CurrentDirectory, ParentDirectory,
     EndSegment,
         FirstStar, SecondStar, LaterStar, AnyCharacter, AfterGlobstar, InvalidCharacter, Literal,
         Compile,
         Continue, Advance, Throw
<1>2. CASE CompileStep
  BY <1>1, <1>2 DEF CompileStep, finding
<1>3. CASE NextInstance
  BY <1>3 DEF NextInstance, vars
<1>4. CASE PatternRefused \/ StartWalk \/ Descend \/ NextEntry \/ Ascend \/ Visit \/ EndWalk \/ End
  BY <1>4 DEF PatternRefused, StartWalk, Descend, NextEntry, Ascend, Visit, EndWalk, End, Fail, vars
<1>5. CASE CreatePath \/ DeletePath \/ Protect \/ UNCHANGED <<vars, finding>>
  BY <1>5 DEF CreatePath, DeletePath, Change, Protect, vars, finding
<1> QED
  BY <1>2, <1>3, <1>4, <1>5 DEF FindNext, Read, Ended

\* Only the end of a walk writes.
LEMMA OutputFrame ==
  ASSUME [FindNext]_<<vars, finding>>
  PROVE  EndWalk \/ UNCHANGED <<output, owed>>
<1>1. CASE NextInstance \/ CompileStep
  BY <1>1 DEF NextInstance, CompileStep, finding, reader
<1>2. CASE PatternRefused \/ StartWalk \/ Descend \/ NextEntry \/ Ascend \/ Visit \/ EndWalk \/ End
  BY <1>2 DEF PatternRefused, StartWalk, Descend, NextEntry, Ascend, Visit, EndWalk, End, Fail
<1>3. CASE CreatePath \/ DeletePath \/ Protect \/ UNCHANGED <<vars, finding>>
  BY <1>3 DEF CreatePath, DeletePath, Change, Protect, finding, reader
<1> QED
  BY <1>1, <1>2, <1>3 DEF FindNext, Read, Ended

\* Where the search is after each step.
LEMMA InstanceFrame ==
  ASSUME [FindNext]_<<vars, finding>>
  PROVE  \/ NextInstance
         \/ k' = k /\ search' \in {"compile", "walk", "visit"} /\ search \in {"compile", "walk", "visit"}
         \/ k' = k /\ search' \notin {"compile", "walk", "visit"}
<1>1. CASE CompileStep
  BY <1>1 DEF CompileStep, finding, reader
<1>2. CASE PatternRefused \/ StartWalk \/ Descend \/ NextEntry \/ Ascend \/ Visit \/ EndWalk \/ End
  BY <1>2 DEF PatternRefused, StartWalk, Descend, NextEntry, Ascend, Visit, EndWalk, End, Fail
<1>3. CASE CreatePath \/ DeletePath \/ Protect \/ UNCHANGED <<vars, finding>>
  BY <1>3 DEF CreatePath, DeletePath, Change, Protect, finding, reader
<1> QED
  BY <1>1, <1>2, <1>3 DEF FindNext, Read, Ended

\* An instance is written before the next is begun.
LEMMA NextBefore == ASSUME FindTyped, Before, [FindNext]_<<vars, finding>> PROVE Before'
<1> DEFINE Busy == search \in {"compile", "walk", "visit"}
<1>1. k \in Nat /\ \A i \in DOMAIN output : output[i].instance \in Nat
  <2>1. \A w \in [instance : Nat, path : Places] : w.instance \in Nat
    OBVIOUS
  <2> DEFINE Written == [instance : Nat, path : Places]
  <2>2. output \in Seq(Written) /\ k \in Nat
    BY DEF FindTyped, FindTypes
  <2> HIDE DEF Written
  <2>3. \A i \in DOMAIN output : output[i] \in Written
    BY <2>2
  <2> QED
    BY <2>1, <2>2, <2>3 DEF Written
<1>2. \A i \in DOMAIN owed : owed[i].instance \in Nat
  <2>1. \A o \in [instance : Nat, paths : SUBSET Places] : o.instance \in Nat
    OBVIOUS
  <2> DEFINE Owed == [instance : Nat, paths : SUBSET Places]
  <2>2. owed \in Seq(Owed)
    BY DEF FindTyped, FindTypes
  <2> HIDE DEF Owed
  <2>3. \A i \in DOMAIN owed : owed[i] \in Owed
    BY <2>2
  <2> QED
    BY <2>1, <2>3 DEF Owed
<1>3. CASE NextInstance
  <2>1. UNCHANGED <<output, owed>> /\ k' = k + 1
    BY <1>3 DEF NextInstance
  <2>2. \A i \in DOMAIN output : output[i].instance < k'
    BY <1>1, <2>1 DEF Before
  <2>3. \A i \in DOMAIN owed : owed[i].instance < k'
    BY <1>1, <1>2, <2>1 DEF Before
  <2>4. /\ \A i \in DOMAIN output : output[i].instance <= k'
        /\ \A i \in DOMAIN owed : owed[i].instance <= k'
    BY <1>1, <1>2, <2>1 DEF Before
  <2> QED
    BY <2>1, <2>2, <2>3, <2>4 DEF Before
<1>4. CASE EndWalk
  <2>1. k' = k /\ search' = "next"
    BY <1>4 DEF EndWalk
  <2>2. \A i \in DOMAIN output' : output'[i].instance <= k
    <3>1. PICK paths \in Sorted(entries) :
           /\ Len(paths) \in Nat /\ Len(output) \in Nat
           /\ DOMAIN output = 1..Len(output)
           /\ DOMAIN output' = 1..(Len(output) + Len(paths))
           /\ \A i \in 1..Len(output) : output'[i] = output[i]
           /\ \A i \in 1..Len(paths) : output'[Len(output) + i] = [instance |-> k, path |-> paths[i]]
      BY <1>4, WrittenIs
    <3> SUFFICES ASSUME NEW i \in DOMAIN output' PROVE output'[i].instance <= k
      OBVIOUS
    <3>2. CASE i \in 1..Len(output)
      BY <3>1, <3>2 DEF Before
    <3>3. CASE i \notin 1..Len(output)
      <4>1. i - Len(output) \in 1..Len(paths) /\ Len(output) + (i - Len(output)) = i
        BY <3>1, <3>3
      <4>2. output'[i] = [instance |-> k, path |-> paths[i - Len(output)]]
        BY <3>1, <4>1
      <4> QED
        BY <1>1, <4>2
    <3> QED
      BY <3>2, <3>3
  <2>3. \A i \in DOMAIN owed' : owed'[i].instance <= k
    <3> DEFINE Owed == [instance : Nat, paths : SUBSET Places]
               o == [instance |-> k, paths |-> {p \in stayed : IsDenoted(k, p)}]
    <3>1. owed \in Seq(Owed) /\ owed' = Append(owed, o) /\ o.instance = k
      BY <1>4 DEF FindTyped, FindTypes, EndWalk
    <3> HIDE DEF Owed, o
    <3>2. \A i \in DOMAIN owed' : owed'[i] = o \/ (i \in DOMAIN owed /\ owed'[i] = owed[i])
      BY <3>1
    <3> QED
      BY <1>1, <3>1, <3>2 DEF Before
  <2> QED
    BY <2>1, <2>2, <2>3 DEF Before
<1>5. CASE ~NextInstance /\ ~EndWalk
  BY <1>5, OutputFrame, InstanceFrame DEF Before
<1> QED
  BY <1>3, <1>4, <1>5

\* The files of a walk are in order and come after those of the walks before.
LEMMA NextInOrder ==
  ASSUME FindTyped, Before, FilesInOrder, [FindNext]_<<vars, finding>>
  PROVE  FilesInOrder'
<1>1. sort' = sort
  BY OptionsFrame
<1>2. CASE UNCHANGED output
  BY <1>1, <1>2 DEF FilesInOrder
<1>3. CASE EndWalk
  <2>1. PICK paths \in Sorted(entries) :
         /\ paths \in Seq(Places) /\ Len(paths) \in Nat /\ Len(output) \in Nat
         /\ DOMAIN paths = 1..Len(paths) /\ DOMAIN output = 1..Len(output)
         /\ DOMAIN output' = 1..(Len(output) + Len(paths))
         /\ \A i \in 1..Len(output) : output'[i] = output[i]
         /\ \A i \in 1..Len(paths) : output'[Len(output) + i] = [instance |-> k, path |-> paths[i]]
    BY <1>3, WrittenIs
  <2>2. sort => \A i, j \in 1..Len(paths) : i < j => Rank[paths[i]] <= Rank[paths[j]]
    BY <2>1 DEF Sorted
  <2>3. search = "walk" /\ k \in Nat
    BY <1>3 DEF EndWalk, FindTyped, FindTypes
  <2>4. \A i \in 1..Len(output) : output[i].instance < k
    BY <2>1, <2>3 DEF Before
  <2> DEFINE n == Len(output)
  <2> SUFFICES ASSUME NEW i \in 1..(n + Len(paths)), NEW j \in 1..(n + Len(paths)), i < j
               PROVE  /\ output'[i].instance <= output'[j].instance
                      /\ output'[i].instance = output'[j].instance /\ sort =>
                           Rank[output'[i].path] <= Rank[output'[j].path]
    BY <1>1, <2>1 DEF FilesInOrder
  <2>0. n \in Nat
    BY <2>1
  <2> HIDE DEF n
  <2>5. CASE j \in 1..n
    <3>1. i \in 1..n
      BY <2>0, <2>5
    <3> QED
      BY <2>1, <2>5, <3>1 DEF FilesInOrder, n
  <2>6. CASE i \in 1..n /\ j \notin 1..n
    <3>1. j - n \in 1..Len(paths) /\ n + (j - n) = j /\ n \in Nat
      BY <2>1, <2>6 DEF n
    <3>2. output'[j] = [instance |-> k, path |-> paths[j - n]] /\ output'[i] = output[i]
      BY <2>1, <2>6, <3>1 DEF n
    <3>3. output'[j].instance = k /\ output'[i].instance < k
      BY <2>4, <2>6, <3>2 DEF n
    <3>4. output'[i].instance \in Nat
      <4> DEFINE Written == [instance : Nat, path : Places]
      <4>1. \A w \in Written : w.instance \in Nat
        OBVIOUS
      <4>2. output \in Seq(Written)
        BY DEF FindTyped, FindTypes
      <4> HIDE DEF Written
      <4>3. output[i] \in Written
        BY <2>6, <4>2 DEF n
      <4> QED
        BY <3>2, <4>1, <4>3
    <3> QED
      BY <2>3, <3>3, <3>4
  <2>7. CASE i \notin 1..n
    <3>1. /\ j - n \in 1..Len(paths) /\ n + (j - n) = j /\ n \in Nat
          /\ i - n \in 1..Len(paths) /\ n + (i - n) = i /\ i - n < j - n
      BY <2>1, <2>7 DEF n
    <3>2. /\ output'[j] = [instance |-> k, path |-> paths[j - n]]
          /\ output'[i] = [instance |-> k, path |-> paths[i - n]]
      BY <2>1, <3>1 DEF n
    <3>3. sort => Rank[paths[i - n]] <= Rank[paths[j - n]]
      BY <2>2, <3>1
    <3> QED
      BY <2>3, <3>2, <3>3
  <2> QED
    BY <2>5, <2>6, <2>7
<1> QED
  BY <1>2, <1>3, OutputFrame

\* A rest of a rest is a rest.
LEMMA RestOfRest ==
  ASSUME NEW T, NEW p \in Seq(T), NEW a \in 0..Len(p), NEW b \in a..Len(p)
  PROVE  /\ SubSeq(p, a + 1, Len(p)) \in Seq(T) /\ Len(SubSeq(p, a + 1, Len(p))) = Len(p) - a
         /\ SubSeq(SubSeq(p, a + 1, Len(p)), (b - a) + 1, Len(p) - a) = SubSeq(p, b + 1, Len(p))
         /\ Cut(SubSeq(p, a + 1, Len(p)), b - a) = SubSeq(Cut(p, b), a + 1, b)
<1> DEFINE r == SubSeq(p, a + 1, Len(p))
           c == Cut(p, b)
<1>1. Len(p) \in Nat /\ a \in Nat /\ b \in Nat /\ a <= b /\ b <= Len(p)
  OBVIOUS
<1>2. r \in Seq(T) /\ Len(r) = Len(p) - a /\ \A i \in 1..(Len(p) - a) : r[i] = p[a + i]
  BY <1>1
<1>3. c \in Seq(T) /\ Len(c) = b /\ \A i \in 1..b : c[i] = p[i]
  BY <1>1 DEF Cut
<1> HIDE DEF r, c
<1>4. SubSeq(r, (b - a) + 1, Len(p) - a) = SubSeq(p, b + 1, Len(p))
  <2> DEFINE u == SubSeq(r, (b - a) + 1, Len(p) - a)
             v == SubSeq(p, b + 1, Len(p))
  <2>1. u \in Seq(T) /\ Len(u) = Len(p) - b /\ \A i \in 1..(Len(p) - b) : u[i] = r[(b - a) + i]
    BY <1>1, <1>2
  <2>2. v \in Seq(T) /\ Len(v) = Len(p) - b /\ \A i \in 1..(Len(p) - b) : v[i] = p[b + i]
    BY <1>1
  <2>3. \A i \in 1..(Len(p) - b) : (b - a) + i \in 1..(Len(p) - a) /\ a + ((b - a) + i) = b + i
    BY <1>1
  <2> HIDE DEF u, v
  <2>4. \A i \in 1..(Len(p) - b) : u[i] = v[i]
    BY <1>2, <2>1, <2>2, <2>3
  <2>5. u = v
    BY <2>1, <2>2, <2>4
  <2> QED
    BY <2>5 DEF u, v
<1>5. Cut(r, b - a) = SubSeq(c, a + 1, b)
  <2> DEFINE u == Cut(r, b - a)
             v == SubSeq(c, a + 1, b)
  <2>1. u \in Seq(T) /\ Len(u) = b - a /\ \A i \in 1..(b - a) : u[i] = r[i]
    BY <1>1, <1>2 DEF Cut
  <2>2. v \in Seq(T) /\ Len(v) = b - a /\ \A i \in 1..(b - a) : v[i] = c[a + i]
    BY <1>1, <1>3
  <2>3. \A i \in 1..(b - a) : i \in 1..(Len(p) - a) /\ a + i \in 1..b
    BY <1>1
  <2> HIDE DEF u, v
  <2>4. \A i \in 1..(b - a) : u[i] = v[i]
    BY <1>2, <1>3, <2>1, <2>2, <2>3
  <2>5. u = v
    BY <2>1, <2>2, <2>4
  <2> QED
    BY <2>5 DEF u, v
<1> QED
  BY <1>2, <1>4, <1>5 DEF r, c

\* What is below an installation path and the root of the search below that.
LEMMA BelowRoot ==
  ASSUME FindTyped, search \in {"compile", "walk", "visit"}, AtHome,
         NEW p \in Places, S!IsStrictPrefix(InstallationPaths[k], p)
  PROVE  LET names == SubSeq(p, Len(InstallationPaths[k]) + 1, Len(p))
         IN  /\ names \in Paths
             /\ S!IsStrictPrefix(Start, p) <=> S!IsStrictPrefix(root, names)
             /\ S!IsStrictPrefix(Start, p) =>
                  SubSeq(names, Len(root) + 1, Len(names)) = Below(p)
<1> DEFINE path == InstallationPaths[k]
           a == Len(path)
           b == Len(Start)
           names == SubSeq(p, a + 1, Len(p))
<1>1. /\ path \in Seq(Seq(Literals)) /\ root \in Seq(Seq(Literals)) /\ Start \in Seq(Seq(Literals))
      /\ b \in Nat /\ b = a + Len(root) /\ Cut(Start, a) = path
      /\ SubSeq(Start, a + 1, b) = root
  BY HomeStart DEF FindTyped
<1>2. p \in Seq(Seq(Literals)) /\ Len(p) \in Nat
  BY PlaceIs
<1>3. path \in Directories /\ \E j \in DOMAIN InstallationPaths : path = InstallationPaths[j]
  BY PlacesAssumption DEF FindTyped, ForInstance
<1>4. names \in Paths
  BY <1>3, BelowAssumption
<1> HIDE DEF path
<1>5. a \in Nat /\ Len(root) \in Nat
  BY <1>1
<1>6. a < Len(p) /\ Cut(p, a) = path
  BY <1>1, <1>2, PrefixIsCut DEF path
<1> HIDE DEF a, b
<1>7. names \in Seq(Seq(Literals)) /\ Len(names) = Len(p) - a
  BY <1>2, <1>5, <1>6
<1>8. S!IsStrictPrefix(Start, p) <=> b < Len(p) /\ Cut(p, b) = Start
  BY <1>1, <1>2, PrefixIsCut DEF b
<1>9. S!IsStrictPrefix(root, names) <=> Len(root) < Len(names) /\ Cut(names, Len(root)) = root
  <2> HIDE DEF names
  <2> QED
    BY <1>1, <1>7, PrefixIsCut
<1>10. Len(root) < Len(names) <=> b < Len(p)
  <2> HIDE DEF names
  <2> QED
    BY <1>1, <1>2, <1>5, <1>7
<1>11. ASSUME b < Len(p)
       PROVE  /\ SubSeq(names, Len(root) + 1, Len(p) - a) = SubSeq(p, b + 1, Len(p))
              /\ Cut(names, Len(root)) = SubSeq(Cut(p, b), a + 1, b)
  <2>1. a \in 0..Len(p) /\ b \in a..Len(p) /\ b - a = Len(root)
    BY <1>1, <1>2, <1>5, <1>6, <1>11
  <2>2. /\ SubSeq(names, (b - a) + 1, Len(p) - a) = SubSeq(p, b + 1, Len(p))
        /\ Cut(names, b - a) = SubSeq(Cut(p, b), a + 1, b)
    BY <1>2, <2>1, RestOfRest
  <2> QED
    BY <2>1, <2>2
<1>12. ASSUME b < Len(p), Cut(names, Len(root)) = root PROVE Cut(p, b) = Start
  <2> DEFINE c == Cut(p, b)
  <2>1. b \in 0..Len(p) /\ a \in 0..b
    BY <1>1, <1>2, <1>5, <1>12
  <2>2. c \in Seq(Seq(Literals)) /\ Len(c) = b /\ Cut(c, a) = Cut(p, a)
    BY <1>2, <2>1, CutIs
  <2>3. SubSeq(c, a + 1, b) = root /\ Cut(c, a) = path
    BY <1>6, <1>11, <1>12, <2>2
  <2> HIDE DEF c
  <2>4. /\ \A i \in 1..a : c[i] = Cut(c, a)[i] /\ Start[i] = Cut(Start, a)[i]
        /\ \A i \in 1..(b - a) : c[a + i] = SubSeq(c, a + 1, b)[i] /\ Start[a + i] = SubSeq(Start, a + 1, b)[i]
    <3>1. Len(c) = b /\ Len(Start) = b /\ a \in Nat /\ b \in Nat /\ a <= b
      BY <2>1, <2>2 DEF b
    <3> QED
      BY <1>1, <2>2, <3>1, SMTT(30) DEF Cut
  <2>5. /\ \A i \in 1..a : c[i] = Start[i]
        /\ \A i \in 1..(b - a) : c[a + i] = Start[a + i]
    BY <1>1, <2>3, <2>4, ZenonT(40)
  <2>6. \A i \in 1..b : i \in 1..a \/ (i - a \in 1..(b - a) /\ a + (i - a) = i)
    BY <2>1, <1>5
  <2>7. \A i \in 1..b : c[i] = Start[i]
    BY <2>5, <2>6
  <2>8. c = Start
    BY <1>1, <2>2, <2>7 DEF b
  <2> QED
    BY <2>8 DEF c
<1>13. S!IsStrictPrefix(Start, p) <=> S!IsStrictPrefix(root, names)
  BY <1>1, <1>8, <1>9, <1>10, <1>11, <1>12
<1>14. S!IsStrictPrefix(Start, p) => SubSeq(names, Len(root) + 1, Len(names)) = Below(p)
  BY <1>7, <1>8, <1>11 DEF Below, b
<1> QED
  BY <1>4, <1>13, <1>14 DEF a, path

\* Where the pattern finds what it denotes, so do the walk and the matches in it.
LEMMA FoundIsDenoted ==
  ASSUME FindTyped, FindsExactly, AtHome, search \in {"compile", "walk", "visit"}, NEW p \in Places
  PROVE  IsFound(p) <=> IsDenoted(k, p)
<1> DEFINE names == SubSeq(p, Len(InstallationPaths[k]) + 1, Len(p))
<1>1. IsFound(p) => S!IsStrictPrefix(InstallationPaths[k], p)
  BY BelowHome DEF FindTyped, IsFound
<1>2. ASSUME S!IsStrictPrefix(InstallationPaths[k], p) PROVE IsFound(p) <=> IsDenoted(k, p)
  <2>1. /\ names \in Paths
        /\ S!IsStrictPrefix(Start, p) <=> S!IsStrictPrefix(root, names)
        /\ S!IsStrictPrefix(Start, p) => SubSeq(names, Len(root) + 1, Len(names)) = Below(p)
    BY <1>2, BelowRoot
  <2> HIDE DEF names
  <2>2. Finds(names) <=> Denotes(Segments(pattern), names)
    BY <2>1 DEF FindsExactly
  <2>3. Finds(names) <=> IsFound(p)
    BY <2>1 DEF Finds, IsFound
  <2>4. IsDenoted(k, p) <=> Denotes(Segments(pattern), names)
    BY <1>2 DEF IsDenoted, names
  <2> QED
    BY <2>2, <2>3, <2>4
<1> QED
  BY <1>1, <1>2 DEF IsDenoted

\* A walk begins after the constructor and changes nothing of it.
LEMMA NextUnderstood ==
  ASSUME FindTyped, Understood, PatternFindsItsFiles, RootStaysInside, [FindNext]_<<vars, finding>>
  PROVE  Understood'
<1>1. UNCHANGED vars =>
        /\ FindsWhatIsDenoted' <=> FindsWhatIsDenoted
        /\ RootStaysInside' <=> RootStaysInside
  BY DEF vars, scan, FindsWhatIsDenoted, FindsExactly, Finds, AtHome, Remainder, Match, RootStaysInside
<1>2. CASE StartWalk
  <2>1. FindsWhatIsDenoted /\ RootStaysInside /\ UNCHANGED vars
    BY <1>2 DEF StartWalk, Fail, PatternFindsItsFiles
  <2> QED
    BY <1>1, <2>1 DEF Understood
<1>3. CASE Descend \/ NextEntry \/ Ascend \/ Visit \/ CreatePath \/ DeletePath \/ Protect \/ UNCHANGED <<vars, finding>>
  <2>1. UNCHANGED vars /\ (Walking' => Walking)
    BY <1>3 DEF Descend, NextEntry, Ascend, Visit, Fail, CreatePath, DeletePath, Change, Protect,
       Walking,
                finding, reader
  <2> QED
    BY <1>1, <2>1 DEF Understood
<1>4. CASE NextInstance \/ CompileStep \/ PatternRefused \/ EndWalk \/ End
  <2>1. search' \in {"next", "compile", "thrown", "done"}
    BY <1>4 DEF NextInstance, CompileStep, PatternRefused, Fail, EndWalk, End, finding, reader
  <2> QED
    BY <2>1 DEF Understood, Walking
<1> QED
  BY <1>2, <1>3, <1>4 DEF FindNext, Read, Ended

\* At the end of a walk the vector holds what is denoted, and what stayed once.
LEMMA EntriesAre ==
  ASSUME FindTyped, Exact, Understood, EndWalk,
         Defects(Words(pattern)) = {}, ~NamesADrive(Words(pattern))
  PROVE  /\ \A p \in Places : Listed(p) => IsDenoted(k, p)
         /\ \A p \in stayed : IsDenoted(k, p) => Listed(p)
         /\ \A i, j \in DOMAIN entries : entries[i] = entries[j] /\ entries[i] \in stayed => i = j
<1>1. Walking /\ search = "walk" /\ entry \notin Directories /\ open = <<>>
  BY DEF EndWalk, Walking
<1>2. FindsExactly /\ AtHome
  BY <1>1 DEF Understood, FindsWhatIsDenoted, RootStaysInside, FindTyped, FindTypes
<1>3. \A p \in Places : IsFound(p) <=> IsDenoted(k, p)
  BY <1>1, <1>2, FoundIsDenoted
<1>4. stayed \subseteq Places
  BY StayedIs DEF Trees
<1>5. \A p : ~Ahead(p)
  BY <1>1 DEF Ahead
<1> QED
  BY <1>1, <1>3, <1>4, <1>5 DEF Exact

\* The end of a walk writes each file that is owed once: it is in the vector once,
\* the order keeps it so and the walks before wrote for other instances.
LEMMA EndWalkIsRight ==
  ASSUME FindTyped, Exact, Before, Understood, OutputIsRight, EndWalk
  PROVE  OutputIsRight'
<1>1. pattern' = pattern
  BY DEF EndWalk, vars
<1> SUFFICES ASSUME Defects(Words(pattern)) = {}, ~NamesADrive(Words(pattern))
             PROVE  /\ \A i \in DOMAIN output' : IsDenoted(output'[i].instance, output'[i].path)
                    /\ \A j \in DOMAIN owed' : \A p \in owed'[j].paths :
                         \E i \in DOMAIN output' :
                           /\ output'[i] = [instance |-> owed'[j].instance, path |-> p]
                           /\ \A l \in DOMAIN output' : output'[l] = output'[i] => l = i
  BY <1>1 DEF OutputIsRight, WrittenOnce, IsDenoted
<1>2. PICK paths \in Sorted(entries) :
        /\ paths \in Seq(Places) /\ Len(paths) \in Nat /\ Len(output) \in Nat
        /\ DOMAIN paths = 1..Len(paths) /\ DOMAIN output = 1..Len(output)
        /\ DOMAIN output' = 1..(Len(output) + Len(paths))
        /\ \A i \in 1..Len(output) : output'[i] = output[i]
        /\ \A i \in 1..Len(paths) : output'[Len(output) + i] = [instance |-> k, path |-> paths[i]]
  BY WrittenIs
<1>3. entries \in Seq(Places) /\ k \in Nat /\ DOMAIN entries = 1..Len(entries)
  BY DEF FindTyped, FindTypes
<1>0. Len(paths) = Len(entries) /\ \E order : Rearranges(order, entries, paths)
  BY <1>3, SortedIs
<1>4. PICK order \in [1..Len(entries) -> 1..Len(entries)] :
        /\ \A i \in 1..Len(entries) : paths[i] = entries[order[i]]
        /\ \A i, j \in 1..Len(entries) : order[i] = order[j] => i = j
        /\ \A j \in 1..Len(entries) : \E i \in 1..Len(entries) : order[i] = j
  BY <1>0 DEF Rearranges
<1>5. Len(paths) = Len(entries)
  BY <1>0
<1>6. /\ \A p \in Places : Listed(p) => IsDenoted(k, p)
      /\ \A p \in stayed : IsDenoted(k, p) => Listed(p)
      /\ \A i, j \in DOMAIN entries : entries[i] = entries[j] /\ entries[i] \in stayed => i = j
  BY EntriesAre
<1>7. /\ \A i \in DOMAIN output : output[i].instance < k
      /\ \A i \in DOMAIN owed : owed[i].instance < k
  BY DEF Before, EndWalk
<1> DEFINE n == Len(output)
<1>8. \A i \in DOMAIN output' : i \in 1..n \/ (i - n \in 1..Len(paths) /\ n + (i - n) = i)
  BY <1>2
<1>9. \A i \in 1..Len(paths) : n + i \in DOMAIN output'
  BY <1>2
<1>10. \A i \in 1..n : i \in DOMAIN output'
  BY <1>2
<1>11. n \in Nat
  BY <1>2
<1> HIDE DEF n
<1>12. \A i \in 1..Len(paths) : output'[n + i] = [instance |-> k, path |-> paths[i]]
  BY <1>2 DEF n
<1>13. DOMAIN output = 1..n /\ \A i \in 1..n : output'[i] = output[i]
  BY <1>2 DEF n
<1>14. ASSUME NEW i \in DOMAIN output' PROVE IsDenoted(output'[i].instance, output'[i].path)
  <2>1. CASE i \in 1..n
    BY <1>13, <2>1 DEF OutputIsRight
  <2>2. CASE i - n \in 1..Len(paths) /\ n + (i - n) = i
    <3>1. paths[i - n] \in Places /\ Listed(paths[i - n])
      BY <1>2, <1>3, <1>4, <1>5, <2>2 DEF Listed
    <3>2. output'[i] = [instance |-> k, path |-> paths[i - n]]
      BY <1>12, <2>2
    <3> QED
      BY <1>6, <3>1, <3>2
  <2> QED
    BY <1>8, <2>1, <2>2
<1>15. ASSUME NEW o, NEW p, o \in {owed[j] : j \in DOMAIN owed}, p \in o.paths
       PROVE  \E i \in DOMAIN output' :
                /\ output'[i] = [instance |-> o.instance, path |-> p]
                /\ \A l \in DOMAIN output' : output'[l] = output'[i] => l = i
  <2>1. PICK j \in DOMAIN owed : o = owed[j]
    BY <1>15
  <2>2. PICK i \in DOMAIN output :
          /\ output[i] = [instance |-> o.instance, path |-> p]
          /\ \A l \in DOMAIN output : output[l] = output[i] => l = i
    BY <1>15, <2>1 DEF OutputIsRight, WrittenOnce
  <2>3. i \in DOMAIN output' /\ output'[i] = [instance |-> o.instance, path |-> p]
    BY <1>10, <1>13, <2>2
  <2>4. o.instance < k /\ o.instance = output'[i].instance
    BY <1>7, <2>1, <2>3
  <2>5. \A l \in DOMAIN output' : output'[l] = output'[i] => l = i
    <3> SUFFICES ASSUME NEW l \in DOMAIN output', output'[l] = output'[i] PROVE l = i
      OBVIOUS
    <3>1. CASE l \in 1..n
      BY <1>13, <2>2, <3>1
    <3>2. CASE l - n \in 1..Len(paths) /\ n + (l - n) = l
      <4>1. output'[l] = [instance |-> k, path |-> paths[l - n]]
        BY <1>12, <3>2
      <4>2. o.instance = k
        BY <2>4, <4>1
      <4> QED
        BY <1>3, <2>4, <4>2
    <3> QED
      BY <1>8, <3>1, <3>2
  <2> QED
    BY <2>3, <2>5
<1>16. ASSUME NEW p \in stayed, IsDenoted(k, p)
       PROVE  \E i \in DOMAIN output' :
                /\ output'[i] = [instance |-> k, path |-> p]
                /\ \A l \in DOMAIN output' : output'[l] = output'[i] => l = i
  <2>1. PICK e \in 1..Len(entries) : entries[e] = p
    BY <1>3, <1>6, <1>16 DEF Listed
  <2>2. PICK i \in 1..Len(paths) : order[i] = e
    BY <1>4, <1>5
  <2>3. paths[i] = p /\ n + i \in DOMAIN output' /\ output'[n + i] = [instance |-> k, path |-> p]
    BY <1>4, <1>5, <1>9, <1>12, <2>1, <2>2, ZenonT(40)
  <2>4. \A l \in DOMAIN output' : output'[l] = output'[n + i] => l = n + i
    <3> SUFFICES ASSUME NEW l \in DOMAIN output', output'[l] = output'[n + i] PROVE l = n + i
      OBVIOUS
    <3>1. CASE l \in 1..n
      <4>1. output[l].instance = k /\ output[l].instance < k
        BY <1>7, <1>13, <2>3, <3>1
      <4> QED
        BY <1>3, <4>1
    <3>2. CASE l - n \in 1..Len(paths) /\ n + (l - n) = l
      <4>1. paths[l - n] = p
        <5>1. output'[l] = [instance |-> k, path |-> paths[l - n]]
          BY <1>12, <3>2
        <5> QED
          BY <2>3, <5>1
      <4>2. order[l - n] \in DOMAIN entries /\ entries[order[l - n]] = entries[e] /\ entries[e] \in stayed
        BY <1>3, <1>4, <1>5, <2>1, <3>2, <4>1
      <4>3. order[l - n] = order[i]
        BY <1>3, <1>6, <2>2, <4>2
      <4>4. l - n = i
        BY <1>4, <1>5, <3>2, <4>3
      <4> QED
        BY <3>2, <4>4
    <3> QED
      BY <1>8, <3>1, <3>2
  <2> QED
    BY <2>3, <2>4
<1>17. \A j \in DOMAIN owed' :
         \/ owed'[j] \in {owed[l] : l \in DOMAIN owed}
         \/ owed'[j] = [instance |-> k, paths |-> {p \in stayed : IsDenoted(k, p)}]
  <2> DEFINE Owed == [instance : Nat, paths : SUBSET Places]
             o == [instance |-> k, paths |-> {p \in stayed : IsDenoted(k, p)}]
  <2>1. owed \in Seq(Owed) /\ owed' = Append(owed, o)
    BY DEF FindTyped, FindTypes, EndWalk
  <2> HIDE DEF Owed, o
  <2>2. \A j \in DOMAIN owed' : owed'[j] = o \/ (j \in DOMAIN owed /\ owed'[j] = owed[j])
    BY <2>1
  <2> QED
    BY <2>2 DEF o
<1>18. ASSUME NEW j \in DOMAIN owed', NEW p \in owed'[j].paths
       PROVE  \E i \in DOMAIN output' :
                /\ output'[i] = [instance |-> owed'[j].instance, path |-> p]
                /\ \A l \in DOMAIN output' : output'[l] = output'[i] => l = i
  <2>1. CASE owed'[j] \in {owed[l] : l \in DOMAIN owed}
    BY <1>15, <2>1
  <2>2. CASE owed'[j] = [instance |-> k, paths |-> {q \in stayed : IsDenoted(k, q)}]
    <3>1. p \in stayed /\ IsDenoted(k, p) /\ owed'[j].instance = k
      BY <2>2
    <3> QED
      BY <1>16, <3>1
  <2> QED
    BY <1>17, <2>1, <2>2
<1> QED
  BY <1>14, <1>18

\* No other step writes.
LEMMA NextIsRight ==
  ASSUME FindTyped, Exact, Before, Understood, OutputIsRight, [FindNext]_<<vars, finding>>
  PROVE  OutputIsRight'
<1>1. CASE EndWalk
  BY <1>1, EndWalkIsRight
<1>2. CASE UNCHANGED <<output, owed>>
  <2>1. pattern' = pattern
    BY OptionsFrame
  <2> QED
    BY <1>2, <2>1 DEF OutputIsRight, WrittenOnce, IsDenoted
<1> QED
  BY <1>1, <1>2, OutputFrame

\* One index has one element.
LEMMA RightIsOnce == ASSUME OutputIsRight PROVE FoundExactlyOnce
<1> SUFFICES ASSUME Defects(Words(pattern)) = {}, ~NamesADrive(Words(pattern)),
                    NEW j \in DOMAIN owed, NEW p \in owed[j].paths
             PROVE  Cardinality({i \in DOMAIN output :
                      output[i] = [instance |-> owed[j].instance, path |-> p]}) = 1
  BY DEF OutputIsRight, FoundExactlyOnce
<1>1. PICK i \in DOMAIN output :
        /\ output[i] = [instance |-> owed[j].instance, path |-> p]
        /\ \A l \in DOMAIN output : output[l] = output[i] => l = i
  BY DEF OutputIsRight, WrittenOnce
<1>2. {l \in DOMAIN output : output[l] = [instance |-> owed[j].instance, path |-> p]} = {i}
  BY <1>1
<1> QED
  BY <1>2, FS_Singleton

-----------------------------------------------------------------------------
(* Functions that are defined from 0 on                                     *)

\* What such a function is.
Forward(f, first, G, b) == f[0] = first /\ \A n \in 1..b : f[n] = G[n][f[n - 1]]

\* There is one.
LEMMA ForwardExists ==
  ASSUME NEW b \in Nat, NEW X, NEW first \in X, NEW G \in [1..b -> [X -> X]]
  PROVE  \E f \in [0..b -> X] : Forward(f, first, G, b)
<1> DEFINE T == {m \in Nat : m <= b => \E f \in [0..b -> X] : Forward(f, first, G, m)}
<1>1. 0 \in T
  <2>1. [n \in 0..b |-> first] \in [0..b -> X]
    OBVIOUS
  <2>2. Forward([n \in 0..b |-> first], first, G, 0)
    BY DEF Forward
  <2> QED
    BY <2>1, <2>2
<1>2. ASSUME NEW m \in Nat, m \in T PROVE m + 1 \in T
  <2> SUFFICES ASSUME m + 1 <= b PROVE \E f \in [0..b -> X] : Forward(f, first, G, m + 1)
    OBVIOUS
  <2>1. PICK f \in [0..b -> X] : Forward(f, first, G, m)
    BY <1>2
  <2>2. f[m] \in X /\ G[m + 1] \in [X -> X] /\ G[m + 1][f[m]] \in X /\ m + 1 \in 0..b
    <3>1. m \in 0..b /\ m + 1 \in 1..b
      OBVIOUS
    <3>2. f[m] \in X /\ G[m + 1] \in [X -> X]
      BY <3>1, <2>1
    <3> QED
      BY <3>1, <3>2
  <2> DEFINE g == [f EXCEPT ![m + 1] = G[m + 1][f[m]]]
  <2>3. g \in [0..b -> X] /\ g[m + 1] = G[m + 1][f[m]] /\ \A n \in 0..m : g[n] = f[n]
    BY <2>1, <2>2
  <2> HIDE DEF g
  <2>4. ASSUME NEW n \in 1..(m + 1) PROVE g[n] = G[n][g[n - 1]]
    <3>1. CASE n = m + 1
      BY <2>3, <3>1
    <3>2. CASE n # m + 1
      <4>1. n \in 1..m /\ n - 1 \in 0..m /\ n \in 0..m
        BY <3>2
      <4> QED
        BY <2>1, <2>3, <4>1 DEF Forward
    <3> QED
      BY <3>1, <3>2
  <2>5. g[0] = first
    BY <2>1, <2>3 DEF Forward
  <2> QED
    BY <2>3, <2>4, <2>5 DEF Forward
<1>3. b \in T
  <2> HIDE DEF T
  <2> QED
    BY <1>1, <1>2, Lemmas!SetInduction
<1> QED
  BY <1>3

\* Two of them agree as far as both go.
LEMMA ForwardSame ==
  ASSUME NEW a \in Nat, NEW b \in Nat, a <= b, NEW first, NEW G, NEW H, NEW f, NEW g,
         \A n \in 1..a : G[n] = H[n],
         Forward(f, first, G, a), Forward(g, first, H, b)
  PROVE  f[a] = g[a]
<1> DEFINE T == {m \in Nat : m <= a => f[m] = g[m]}
<1>1. 0 \in T
  BY DEF Forward
<1>2. ASSUME NEW m \in Nat, m \in T PROVE m + 1 \in T
  <2> SUFFICES ASSUME m + 1 <= a PROVE f[m + 1] = g[m + 1]
    OBVIOUS
  <2>1. f[m] = g[m] /\ m + 1 \in 1..a /\ m + 1 \in 1..b /\ (m + 1) - 1 = m
    BY <1>2
  <2>2. f[m + 1] = G[m + 1][f[m]] /\ g[m + 1] = H[m + 1][g[m]]
    BY <2>1 DEF Forward
  <2> QED
    BY <2>1, <2>2
<1>3. a \in T
  <2> HIDE DEF T
  <2> QED
    BY <1>1, <1>2, Lemmas!SetInduction
<1> QED
  BY <1>3

-----------------------------------------------------------------------------
(* Words                                                                    *)

\* Words, one of which is being read.
SomeWords == Seq(Seq(Characters)) \ {<<>>}

\* One more character: a separator begins a word, another goes to the last.
LEMMA WordsWithIs ==
  ASSUME NEW words \in SomeWords, NEW c \in Characters
  PROVE  /\ WordsWith(words, c) \in SomeWords
         /\ c \in Separators => WordsWith(words, c) = Append(words, <<>>)
         /\ c \notin Separators =>
              /\ Len(WordsWith(words, c)) = Len(words)
              /\ \A j \in 1..(Len(words) - 1) : WordsWith(words, c)[j] = words[j]
              /\ WordsWith(words, c)[Len(words)] = Append(words[Len(words)], c)
<1>1. words \in Seq(Seq(Characters)) /\ Len(words) \in Nat /\ Len(words) >= 1
  <2>1. words \in Seq(Seq(Characters)) /\ words # <<>>
    BY DEF SomeWords
  <2> QED
    BY <2>1
<1>2. CASE c \in Separators
  <2>1. <<>> \in Seq(Characters)
    OBVIOUS
  <2>2. Append(words, <<>>) \in Seq(Seq(Characters)) /\ Append(words, <<>>) # <<>>
    BY <1>1, <2>1, SMTT(30)
  <2> QED
    BY <1>2, <2>2 DEF WordsWith, SomeWords
<1>3. CASE c \notin Separators
  <2> DEFINE l == Len(words)
             w == Append(words[l], c)
             longer == [words EXCEPT ![l] = w]
  <2>1. l \in Nat /\ l \in 1..l /\ words \in [1..l -> Seq(Characters)] /\ DOMAIN words = 1..l
    BY <1>1
  <2>2. w \in Seq(Characters)
    BY <2>1, SMTT(30)
  <2> HIDE DEF w
  <2>3. longer \in [1..l -> Seq(Characters)] /\ longer[l] = w /\ \A j \in 1..l : j # l => longer[j] = words[j]
    BY <2>1, <2>2, Zenon
  <2> HIDE DEF longer
  <2>4. longer \in Seq(Seq(Characters)) /\ Len(longer) = l
    <3> DEFINE V == Seq(Characters)
    <3>1. l \in Nat /\ longer \in [1..l -> V]
      BY <2>1, <2>3
    <3> HIDE DEF V, l
    <3>2. longer \in Seq(V) /\ Len(longer) = l
      BY <3>1
    <3> QED
      BY <3>2, SMTT(30) DEF V
  <2>5. WordsWith(words, c) = longer
    BY <1>3 DEF WordsWith, w, longer
  <2> HIDE DEF l
  <2>6. longer # <<>>
    BY <2>1, <2>4
  <2>7. \A j \in 1..(l - 1) : j \in 1..l /\ j # l
    BY <2>1
  <2> QED
    BY <1>3, <2>3, <2>4, <2>5, <2>6, <2>7, Zenon DEF SomeWords, w, l
<1> QED
  BY <1>2, <1>3

\* What each character does to the words before it.
WordSteps(p) == [n \in 1..Len(p) |-> [words \in SomeWords |-> WordsWith(words, p[n])]]

\* Each character is a step from words to words.
LEMMA WordStepsType ==
  ASSUME NEW p \in Seq(Characters)
  PROVE  /\ WordSteps(p) \in [1..Len(p) -> [SomeWords -> SomeWords]]
         /\ \A n \in 1..Len(p) : \A words \in SomeWords : WordSteps(p)[n][words] = WordsWith(words, p[n])
<1>1. \A n \in 1..Len(p) : p[n] \in Characters
  OBVIOUS
<1>2. \A n \in 1..Len(p) : [words \in SomeWords |-> WordsWith(words, p[n])] \in [SomeWords -> SomeWords]
  BY <1>1, WordsWithIs
<1> QED
  BY <1>2 DEF WordSteps

\* Before the first character there is one word, without characters.
LEMMA FirstWords == <<<<>>>> \in SomeWords
<1>1. <<>> \in Seq(Characters)
  OBVIOUS
<1>2. <<<<>>>> \in Seq(Seq(Characters)) /\ <<<<>>>> # <<>>
  BY <1>1
<1> QED
  BY <1>2 DEF SomeWords

\* The words of a pattern are what its steps lead to.
LEMMA WordsIs ==
  ASSUME NEW p \in Seq(Characters)
  PROVE  \E f \in [0..Len(p) -> SomeWords] :
           Forward(f, <<<<>>>>, WordSteps(p), Len(p)) /\ Words(p) = f[Len(p)]
<1> DEFINE b == Len(p)
           G == WordSteps(p)
           Is(f) == f = [n \in 0..Len(p) |-> IF n = 0 THEN <<<<>>>> ELSE WordsWith(f[n - 1], p[n])]
<1>1. b \in Nat /\ G \in [1..b -> [SomeWords -> SomeWords]] /\ <<<<>>>> \in SomeWords
  BY WordStepsType, FirstWords
<1>2. PICK f \in [0..b -> SomeWords] : Forward(f, <<<<>>>>, G, b)
  <2> HIDE DEF b, G
  <2> QED
    BY <1>1, ForwardExists
<1>3. \A n \in 1..b : \A words \in SomeWords : G[n][words] = WordsWith(words, p[n])
  BY WordStepsType
<1>4. Is(f)
  <2>1. \A n \in 1..b : f[n - 1] \in SomeWords
    BY <1>1, <1>2, SMTT(30)
  <2>2. \A n \in 1..b : f[n] = WordsWith(f[n - 1], p[n])
    <3> HIDE DEF G
    <3> QED
      BY <1>2, <1>3, <2>1 DEF Forward
  <2>3. f[0] = <<<<>>>>
    BY <1>2 DEF Forward
  <2> HIDE DEF G
  <2> QED
    BY <1>1, <1>2, <2>2, <2>3
<1>5. Is(CHOOSE g : Is(g))
  <2> HIDE DEF Is
  <2> QED
    BY <1>4
<1>6. Words(p) = (CHOOSE g : Is(g))[b]
  BY DEF Words
<1>7. PICK g : Is(g) /\ Words(p) = g[b]
  <2> HIDE DEF Is
  <2> QED
    BY <1>5, <1>6
<1>8. g[0] = <<<<>>>> /\ \A n \in 1..b : g[n] = WordsWith(g[n - 1], p[n])
  <2>1. b \in Nat /\ 0 \in 0..b /\ \A n \in 1..b : n \in 0..b /\ n # 0
    OBVIOUS
  <2>2. ASSUME NEW n \in 0..b PROVE g[n] = IF n = 0 THEN <<<<>>>> ELSE WordsWith(g[n - 1], p[n])
    BY <1>7, <2>2
  <2> HIDE DEF b
  <2> QED
    BY <2>1, <2>2
<1>9. g \in [0..b -> SomeWords]
  <2> DEFINE T == {n \in Nat : n <= b => g[n] \in SomeWords}
  <2>1. 0 \in T
    BY <1>8, <1>1
  <2>2. ASSUME NEW n \in Nat, n \in T PROVE n + 1 \in T
    <3> SUFFICES ASSUME n + 1 <= b PROVE g[n + 1] \in SomeWords
      OBVIOUS
    <3>1. n + 1 \in 1..b /\ g[n] \in SomeWords /\ (n + 1) - 1 = n
      BY <1>1, <2>2
    <3>2. g[n + 1] = WordsWith(g[n], p[n + 1])
      BY <1>8, <3>1
    <3>3. p[n + 1] \in Characters
      BY <3>1
    <3> QED
      BY <3>1, <3>2, <3>3, WordsWithIs
  <2>3. \A n \in 0..b : n \in T
    <3> HIDE DEF T
    <3>1. Nat \subseteq T
      BY <2>1, <2>2, Lemmas!SetInduction
    <3> QED
      BY <3>1
  <2>4. g = [n \in 0..b |-> g[n]]
    BY <1>7
  <2> QED
    BY <2>3, <2>4
<1>10. Forward(g, <<<<>>>>, G, b)
  <2>1. \A n \in 1..b : g[n - 1] \in SomeWords
    <3>1. \A n \in 1..b : n - 1 \in 0..b
      BY <1>1
    <3> HIDE DEF b
    <3> QED
      BY <1>9, <3>1
  <2> HIDE DEF G
  <2> QED
    BY <1>3, <1>8, <2>1 DEF Forward
<1> QED
  BY <1>7, <1>9, <1>10

\* Of no characters there is one word, without any.
LEMMA WordsEmpty == Words(<<>>) = <<<<>>>>
<1>1. <<>> \in Seq(Characters) /\ Len(<<>>) = 0
  OBVIOUS
<1>2. PICK f : Forward(f, <<<<>>>>, WordSteps(<<>>), Len(<<>>)) /\ Words(<<>>) = f[Len(<<>>)]
  BY <1>1, WordsIs
<1> QED
  BY <1>1, <1>2 DEF Forward

\* One more character of a pattern is one more step.
LEMMA WordsAppend ==
  ASSUME NEW p \in Seq(Characters), NEW c \in Characters
  PROVE  Words(p) \in SomeWords /\ Words(Append(p, c)) = WordsWith(Words(p), c)
<1> DEFINE longer == Append(p, c)
           b == Len(p)
<1>1. /\ longer \in Seq(Characters) /\ b \in Nat /\ Len(longer) = b + 1 /\ longer[b + 1] = c
      /\ \A n \in 1..b : longer[n] = p[n]
  OBVIOUS
<1> HIDE DEF longer
<1>2. PICK f \in [0..b -> SomeWords] :
        Forward(f, <<<<>>>>, WordSteps(p), b) /\ Words(p) = f[b]
  BY WordsIs
<1>3. PICK g \in [0..(b + 1) -> SomeWords] :
        Forward(g, <<<<>>>>, WordSteps(longer), b + 1) /\ Words(longer) = g[b + 1]
  <2>1. \E g \in [0..Len(longer) -> SomeWords] :
          Forward(g, <<<<>>>>, WordSteps(longer), Len(longer)) /\ Words(longer) = g[Len(longer)]
    BY <1>1, WordsIs
  <2> QED
    BY <1>1, <2>1
<1>4. \A n \in 1..b : WordSteps(p)[n] = WordSteps(longer)[n]
  BY <1>1 DEF WordSteps
<1> HIDE DEF b
<1>5. f[b] = g[b]
  <2>1. b <= b + 1 /\ b + 1 \in Nat
    BY <1>1
  <2> QED
    BY <1>1, <1>2, <1>3, <1>4, <2>1, ForwardSame
<1>6. g[b + 1] = WordSteps(longer)[b + 1][g[b]]
  <2>1. b + 1 \in 1..(b + 1) /\ (b + 1) - 1 = b
    BY <1>1
  <2> QED
    BY <1>3, <2>1 DEF Forward
<1>7. g[b] \in SomeWords
  BY <1>1, <1>3
<1>8. WordSteps(longer)[b + 1][g[b]] = WordsWith(g[b], c)
  <2>1. b + 1 \in 1..Len(longer)
    BY <1>1
  <2> QED
    BY <1>1, <1>7, <2>1, WordStepsType
<1> QED
  BY <1>2, <1>3, <1>5, <1>6, <1>7, <1>8 DEF longer

-----------------------------------------------------------------------------
(* The words so far                                                         *)

\* The words of the first n characters of the pattern.
WordsTo(n) == Words(SubSeq(pattern, 1, n))

\* The words so far, character by character.
LEMMA WordsToIs ==
  ASSUME pattern \in Seq(Characters)
  PROVE  /\ WordsTo(0) = <<<<>>>>
         /\ WordsTo(Len(pattern)) = Words(pattern)
         /\ \A n \in 0..Len(pattern) : WordsTo(n) \in SomeWords
         /\ \A n \in 1..Len(pattern) : WordsTo(n) = WordsWith(WordsTo(n - 1), pattern[n])
<1>1. SubSeq(pattern, 1, 0) = <<>> /\ SubSeq(pattern, 1, Len(pattern)) = pattern
  BY CutIs DEF Cut
<1>2. ASSUME NEW n \in 1..Len(pattern)
      PROVE  /\ SubSeq(pattern, 1, n - 1) \in Seq(Characters) /\ pattern[n] \in Characters
             /\ SubSeq(pattern, 1, n) = Append(SubSeq(pattern, 1, n - 1), pattern[n])
  OBVIOUS
<1>3. ASSUME NEW n \in 1..Len(pattern) PROVE WordsTo(n) = WordsWith(WordsTo(n - 1), pattern[n])
  BY <1>2, WordsAppend DEF WordsTo
<1>4. ASSUME NEW n \in 0..Len(pattern) PROVE WordsTo(n) \in SomeWords
  <2>1. SubSeq(pattern, 1, n) \in Seq(Characters)
    OBVIOUS
  <2>2. Dot \in Characters
    BY CharactersAssumption DEF Characters
  <2> QED
    BY <2>1, <2>2, WordsAppend DEF WordsTo
<1> QED
  BY <1>1, <1>3, <1>4, WordsEmpty DEF WordsTo

\* Those of a sequence that gets one more element.
LEMMA ThoseAppend ==
  ASSUME NEW K, NEW V, NEW s \in Seq(V), NEW v \in V
  PROVE  /\ P!Those(K, <<>>) = <<>>
         /\ P!Those(K, s) \in Seq(V)
         /\ P!Those(K, Append(s, v)) = IF v \in K THEN Append(P!Those(K, s), v) ELSE P!Those(K, s)
<1>1. \A t : P!Those(K, t) = Lemmas!Those(K, t)
  BY DEF P!Those, Lemmas!Those, P!FlattenSeq, Lemmas!FlattenSeq
<1>2. Lemmas!Those(K, <<>>) = <<>>
  <2>1. [k_1 \in DOMAIN <<>> |-> IF <<>>[k_1] \in K THEN <<<<>>[k_1]>> ELSE <<>>] = <<>>
    OBVIOUS
  <2> QED
    BY <2>1, Lemmas!FlattenEmpty DEF Lemmas!Those
<1>3. Lemmas!Those(K, s) \in Seq(V)
  BY Lemmas!ThoseType
<1>4. Lemmas!Those(K, <<v>>) = IF v \in K THEN <<v>> ELSE <<>>
  <2> DEFINE x == IF v \in K THEN <<v>> ELSE <<>>
  <2>1. [k_1 \in DOMAIN <<v>> |-> IF <<v>>[k_1] \in K THEN <<<<v>>[k_1]>> ELSE <<>>] = <<x>>
    OBVIOUS
  <2>2. x \in Seq(V) /\ <<>> \in Seq(Seq(V))
    OBVIOUS
  <2> HIDE DEF x
  <2>3. Append(<<>>, x) = <<x>> /\ <<>> \o x = x
    BY <2>2
  <2>4. Lemmas!FlattenSeq(<<x>>) = x
    BY <2>2, <2>3, Lemmas!FlattenAppend, Lemmas!FlattenEmpty
  <2> QED
    BY <2>1, <2>4 DEF Lemmas!Those, x
<1>5. Lemmas!Those(K, s \o <<v>>) = Lemmas!Those(K, s) \o Lemmas!Those(K, <<v>>)
  <2>1. <<v>> \in Seq(V)
    OBVIOUS
  <2> QED
    BY <2>1, Lemmas!ThoseConcat
<1>6. s \o <<v>> = Append(s, v)
  OBVIOUS
<1>7. Lemmas!Those(K, s) \o <<v>> = Append(Lemmas!Those(K, s), v) /\ Lemmas!Those(K, s) \o <<>> = Lemmas!Those(K, s)
  BY <1>3
<1> QED
  BY <1>1, <1>2, <1>3, <1>4, <1>5, <1>6, <1>7

\* A word goes on as another.
Begins(s, t) == Len(s) <= Len(t) /\ \A i \in 1..Len(s) : t[i] = s[i]

\* Later there are the same words, the last of them perhaps longer.
Grows(ws, more) ==
  /\ Len(ws) <= Len(more)
  /\ \A j \in 1..(Len(ws) - 1) : more[j] = ws[j]
  /\ Begins(ws[Len(ws)], more[Len(ws)])

\* There is always a last word.
LEMMA SomeWordsAre ==
  ASSUME NEW ws \in SomeWords
  PROVE  /\ ws \in Seq(Seq(Characters)) /\ Len(ws) \in Nat /\ Len(ws) >= 1 /\ Len(ws) \in 1..Len(ws)
         /\ \A j \in 1..Len(ws) : ws[j] \in Seq(Characters) /\ Len(ws[j]) \in Nat
<1>1. ws \in Seq(Seq(Characters)) /\ ws # <<>>
  BY DEF SomeWords
<1>2. Len(ws) \in Nat /\ Len(ws) >= 1
  BY <1>1
<1>3. \A j \in 1..Len(ws) : ws[j] \in Seq(Characters)
  <2> DEFINE V == Seq(Characters)
  <2>1. ws \in Seq(V)
    BY <1>1
  <2> HIDE DEF V
  <2>2. \A j \in 1..Len(ws) : ws[j] \in V
    BY <2>1
  <2> QED
    BY <2>2 DEF V
<1>4. \A j \in 1..Len(ws) : Len(ws[j]) \in Nat
  BY <1>3
<1> QED
  BY <1>1, <1>2, <1>3, <1>4

\* A word begins the one with one more character.
LEMMA BeginsAppend ==
  ASSUME NEW s \in Seq(Characters), NEW c \in Characters
  PROVE  Append(s, c) \in Seq(Characters) /\ Begins(s, s) /\ Begins(s, Append(s, c))
BY DEF Begins

\* What begins a word begins what the word begins.
LEMMA BeginsOn ==
  ASSUME NEW s \in Seq(Characters), NEW t \in Seq(Characters), NEW u \in Seq(Characters),
         Begins(s, t), Begins(t, u)
  PROVE  Begins(s, u)
<1>1. Len(s) \in Nat /\ Len(t) \in Nat /\ Len(u) \in Nat
  OBVIOUS
<1> QED
  BY <1>1 DEF Begins

\* One more character makes words grow.
LEMMA WithGrows ==
  ASSUME NEW ws \in SomeWords, NEW c \in Characters
  PROVE  WordsWith(ws, c) \in SomeWords /\ Grows(ws, WordsWith(ws, c))
<1> DEFINE more == WordsWith(ws, c)
           l == Len(ws)
<1>1. ws \in Seq(Seq(Characters)) /\ l \in Nat /\ l >= 1 /\ ws[l] \in Seq(Characters)
  BY SomeWordsAre
<1>2. more \in SomeWords
  BY WordsWithIs
<1>3. CASE c \in Separators
  <2>1. more = Append(ws, <<>>)
    BY <1>3, WordsWithIs
  <2>2. Len(more) = l + 1 /\ \A j \in 1..l : more[j] = ws[j]
    BY <1>1, <2>1
  <2>3. Begins(ws[l], ws[l])
    BY <1>1 DEF Begins
  <2>4. l \in 1..l /\ \A j \in 1..(l - 1) : j \in 1..l
    BY <1>1
  <2> HIDE DEF more, l
  <2> QED
    BY <1>1, <1>2, <2>2, <2>3, <2>4, SMTT(30) DEF Grows, l, more
<1>4. CASE c \notin Separators
  <2>1. Len(more) = l /\ (\A j \in 1..(l - 1) : more[j] = ws[j]) /\ more[l] = Append(ws[l], c)
    BY <1>4, WordsWithIs
  <2>2. Begins(ws[l], Append(ws[l], c))
    BY <1>1, BeginsAppend
  <2> HIDE DEF more
  <2> QED
    BY <1>1, <1>2, <2>1, <2>2 DEF Grows, more
<1> QED
  BY <1>3, <1>4

\* Words that grow twice grow.
LEMMA GrowsOn ==
  ASSUME NEW a \in SomeWords, NEW b \in SomeWords, NEW c \in SomeWords, Grows(a, b), Grows(b, c)
  PROVE  Grows(a, c)
<1>1. /\ Len(a) \in Nat /\ Len(b) \in Nat /\ Len(c) \in Nat /\ Len(a) >= 1
      /\ Len(a) <= Len(b) /\ Len(b) <= Len(c)
  BY SomeWordsAre DEF Grows
<1>2. \A j \in 1..(Len(a) - 1) : j \in 1..(Len(b) - 1)
  BY <1>1
<1>3. \A j \in 1..(Len(a) - 1) : c[j] = a[j]
  BY <1>2 DEF Grows
<1>4. Begins(a[Len(a)], b[Len(a)])
  BY DEF Grows
<1>5. CASE Len(a) = Len(b)
  <2>1. Begins(b[Len(a)], c[Len(a)])
    BY <1>5 DEF Grows
  <2>2. a[Len(a)] \in Seq(Characters) /\ b[Len(a)] \in Seq(Characters) /\ c[Len(a)] \in Seq(Characters)
    <3>1. Len(a) \in 1..Len(a) /\ Len(a) \in 1..Len(b) /\ Len(a) \in 1..Len(c)
      BY <1>1
    <3> QED
      BY <3>1, SomeWordsAre
  <2>3. Begins(a[Len(a)], c[Len(a)])
    BY <1>4, <2>1, <2>2, BeginsOn
  <2> QED
    BY <1>1, <1>3, <2>3 DEF Grows
<1>6. CASE Len(a) # Len(b)
  <2>1. Len(a) \in 1..(Len(b) - 1)
    BY <1>1, <1>6
  <2>2. c[Len(a)] = b[Len(a)]
    BY <2>1 DEF Grows
  <2> QED
    BY <1>1, <1>3, <1>4, <2>2 DEF Grows
<1> QED
  BY <1>5, <1>6

\* The words so far are there at the end.
LEMMA WordsStay ==
  ASSUME pattern \in Seq(Characters), NEW n \in 0..Len(pattern)
  PROVE  Words(pattern) \in SomeWords /\ Grows(WordsTo(n), Words(pattern))
<1> DEFINE b == Len(pattern)
           T == {d \in Nat : n + d <= b => Grows(WordsTo(n), WordsTo(n + d))}
<1>1. b \in Nat /\ n \in Nat /\ n <= b
  OBVIOUS
<1>2. /\ WordsTo(b) = Words(pattern)
      /\ \A i \in 0..b : WordsTo(i) \in SomeWords
      /\ \A i \in 1..b : WordsTo(i) = WordsWith(WordsTo(i - 1), pattern[i])
  BY WordsToIs
<1>3. \A i \in 1..b : pattern[i] \in Characters
  OBVIOUS
<1> HIDE DEF b
<1>4. 0 \in T
  <2>1. WordsTo(n) \in SomeWords
    BY <1>1, <1>2
  <2> DEFINE ws == WordsTo(n)
  <2>2. Len(ws) \in Nat /\ ws[Len(ws)] \in Seq(Characters)
    BY <2>1, SomeWordsAre
  <2> HIDE DEF ws
  <2>3. Begins(ws[Len(ws)], ws[Len(ws)])
    BY <2>2 DEF Begins
  <2>4. Grows(ws, ws)
    BY <2>2, <2>3 DEF Grows
  <2>5. n + 0 = n
    BY <1>1
  <2> QED
    BY <2>4, <2>5 DEF ws
<1>5. ASSUME NEW d \in Nat, d \in T PROVE d + 1 \in T
  <2> SUFFICES ASSUME n + (d + 1) <= b PROVE Grows(WordsTo(n), WordsTo(n + (d + 1)))
    OBVIOUS
  <2>1. n + d \in 0..b /\ n + (d + 1) \in 1..b /\ (n + (d + 1)) - 1 = n + d /\ n \in 0..b /\ n + d <= b
    BY <1>1
  <2>2. Grows(WordsTo(n), WordsTo(n + d))
    BY <1>5, <2>1
  <2>3. WordsTo(n + (d + 1)) = WordsWith(WordsTo(n + d), pattern[n + (d + 1)])
    BY <1>2, <2>1
  <2>4. WordsTo(n + (d + 1)) \in SomeWords /\ Grows(WordsTo(n + d), WordsTo(n + (d + 1)))
    BY <1>2, <1>3, <2>1, <2>3, WithGrows
  <2>5. WordsTo(n) \in SomeWords /\ WordsTo(n + d) \in SomeWords
    BY <1>2, <2>1
  <2> QED
    BY <2>2, <2>4, <2>5, GrowsOn
<1>6. b - n \in T
  <2>1. b - n \in Nat
    BY <1>1
  <2> HIDE DEF T
  <2> QED
    BY <1>4, <1>5, <2>1, Lemmas!SetInduction
<1>7. n + (b - n) = b
  BY <1>1
<1> QED
  BY <1>1, <1>2, <1>6, <1>7

\* Two stars side by side, in a word with one more character.
Pairs(s) == \E j \in 1..(Len(s) - 1) : s[j] = Star /\ s[j + 1] = Star

\* Two stars side by side, in a word with one more character.
LEMMA PairsAppend ==
  ASSUME NEW s \in Seq(Characters), NEW c \in Characters
  PROVE  Pairs(Append(s, c)) <=> Pairs(s) \/ (s # <<>> /\ s[Len(s)] = Star /\ c = Star)
<1> DEFINE t == Append(s, c)
           l == Len(s)
<1>1. l \in Nat /\ Len(t) = l + 1 /\ t[l + 1] = c /\ (\A i \in 1..l : t[i] = s[i]) /\ (s # <<>> <=> l # 0)
  OBVIOUS
<1> HIDE DEF t, l
<1>2. Pairs(t) <=> \E j \in 1..l : t[j] = Star /\ t[j + 1] = Star
  <2>1. Len(t) - 1 = l
    BY <1>1
  <2> QED
    BY <2>1 DEF Pairs
<1>3. \A j \in 1..l : j = l \/ (j \in 1..(l - 1) /\ j + 1 \in 1..l)
  BY <1>1
<1>4. \A j \in 1..(l - 1) : j \in 1..l /\ j + 1 \in 1..l
  BY <1>1
<1>5. Pairs(s) <=> \E j \in 1..(l - 1) : s[j] = Star /\ s[j + 1] = Star
  BY DEF Pairs, l
<1>6. l # 0 => l \in 1..l
  BY <1>1
<1>7. ASSUME Pairs(t) PROVE Pairs(s) \/ (s # <<>> /\ s[l] = Star /\ c = Star)
  <2>1. PICK j \in 1..l : t[j] = Star /\ t[j + 1] = Star
    BY <1>2, <1>7
  <2>2. CASE j = l
    BY <1>1, <2>1, <2>2
  <2>3. CASE j \in 1..(l - 1) /\ j + 1 \in 1..l
    BY <1>1, <1>5, <2>1, <2>3
  <2> QED
    BY <1>3, <2>1, <2>2, <2>3
<1>8. ASSUME Pairs(s) PROVE Pairs(t)
  <2>1. PICK j \in 1..(l - 1) : s[j] = Star /\ s[j + 1] = Star
    BY <1>5, <1>8
  <2> QED
    BY <1>1, <1>2, <1>4, <2>1
<1>9. ASSUME s # <<>>, s[l] = Star, c = Star PROVE Pairs(t)
  BY <1>1, <1>2, <1>6, <1>9
<1> QED
  BY <1>7, <1>8, <1>9 DEF t, l

-----------------------------------------------------------------------------
(* What is refused                                                          *)

\* The words that were read, and the last of them, that is being read.
WordsNow == WordsTo(it - 1)
Cur == WordsNow[Len(WordsNow)]

\* Nothing in the words so far has to be refused.
NoneRefused ==
  /\ \A i \in 1..(it - 1) : pattern[i] \notin Invalid
  /\ \A j \in 1..Len(WordsNow) : ~StarsTogether(WordsNow[j])
  /\ \A j \in 1..(Len(WordsNow) - 1) : WordsNow[j] # <<Dot, Dot>>

\* What is at hand is of the word that is being read.
InHand ==
  /\ Cur \in Seq(Literals \cup Wildcards)
  /\ valueRaw = LiteralsOf(Cur)
  /\ value = <<>> <=> Cur = <<>>
  /\ value = <<Star>> <=> Cur = <<Star>>
  /\ value = <<Star, Star>> <=> Cur = Globstar
  /\ Cur # <<>> => lastch = Cur[Len(Cur)]

\* A star is raw in the expression only where a question mark followed it.
StarLed(word) == Len(word) >= 2 /\ word[1] = Star /\ word[2] = Question
RawStars ==
  /\ (\E j \in DOMAIN accumulator : accumulator[j] = Star) =>
       \E j \in 1..Len(WordsNow) : StarLed(WordsNow[j])
  /\ (\E j \in DOMAIN value : value[j] = Star) =>
       value \in {<<Star>>, <<Star, Star>>} \/ StarLed(Cur)

\* What the tests say is invalid, or a defect that GlobMeaning names.
Refusal == Refused(pattern) \/ Defects(Words(pattern)) # {}

\* What is read is known until the end; and then whether it had to be refused.
ReadInv ==
  /\ pc = "scan" => NoneRefused /\ InHand /\ RawStars
  /\ pc = "compiled" => ~Refused(pattern)
  /\ pc = "thrown" => Refusal

\* The types of the pattern and the words that were read.
LEMMA PatternIs ==
  ASSUME TypeOK
  PROVE  /\ pattern \in Seq(Characters) /\ Len(pattern) \in Nat
         /\ it \in 1..(Len(pattern) + 1) /\ it - 1 \in 0..Len(pattern)
         /\ WordsNow \in SomeWords
         /\ Len(WordsNow) \in Nat /\ Len(WordsNow) >= 1 /\ Len(WordsNow) \in 1..Len(WordsNow)
         /\ Cur \in Seq(Characters) /\ Len(Cur) \in Nat
<1>1. pattern \in Seq(Characters) /\ Len(pattern) \in Nat /\ it \in 1..(Len(pattern) + 1)
  BY PatternsAssumption DEF TypeOK
<1>2. it - 1 \in 0..Len(pattern)
  BY <1>1
<1>3. WordsNow \in SomeWords
  BY <1>1, <1>2, WordsToIs DEF WordsNow
<1> QED
  BY <1>1, <1>2, <1>3, SomeWordsAre DEF Cur

\* One more character: after a separator there is a new word.
LEMMA ReadOn ==
  ASSUME TypeOK, NEW chars, At(chars), it' = it + 1, pattern' = pattern
  PROVE  /\ ch \in Characters /\ ch \in chars /\ ch = pattern[it]
         /\ WordsNow' \in SomeWords
         /\ ch \in Separators =>
              /\ Cur' = <<>> /\ Len(WordsNow') = Len(WordsNow) + 1
              /\ \A j \in 1..Len(WordsNow) : WordsNow'[j] = WordsNow[j]
         /\ ch \notin Separators =>
              /\ Cur' = Append(Cur, ch) /\ Len(WordsNow') = Len(WordsNow)
              /\ \A j \in 1..(Len(WordsNow) - 1) : WordsNow'[j] = WordsNow[j]
<1>1. ch \in Characters /\ ch \in chars /\ pattern \in Seq(Characters) /\ it \in 1..Len(pattern)
  BY AtType, PatternIs DEF At
<1>2. WordsNow' = WordsTo(it)
  <2>1. (it + 1) - 1 = it
    BY PatternIs
  <2> QED
    BY <2>1 DEF WordsNow, WordsTo
<1>3. WordsTo(it) = WordsWith(WordsNow, ch)
  BY <1>1, WordsToIs DEF WordsNow, ch
<1>4. WordsNow \in SomeWords /\ WordsNow \in Seq(Seq(Characters)) /\ Len(WordsNow) \in Nat /\ Len(WordsNow) >= 1
  BY PatternIs, SomeWordsAre
<1>5. WordsNow' = WordsWith(WordsNow, ch) /\ WordsNow' \in SomeWords
  BY <1>1, <1>2, <1>3, <1>4, WordsWithIs
<1>6. ASSUME ch \in Separators
      PROVE  /\ Cur' = <<>> /\ Len(WordsNow') = Len(WordsNow) + 1
             /\ \A j \in 1..Len(WordsNow) : WordsNow'[j] = WordsNow[j]
  <2>1. WordsNow' = Append(WordsNow, <<>>)
    BY <1>1, <1>4, <1>5, <1>6, WordsWithIs
  <2>2. /\ Len(WordsNow') = Len(WordsNow) + 1 /\ WordsNow'[Len(WordsNow) + 1] = <<>>
        /\ \A j \in 1..Len(WordsNow) : WordsNow'[j] = WordsNow[j]
    BY <1>4, <2>1
  <2>3. Cur' = WordsNow'[Len(WordsNow')]
    BY DEF Cur
  <2> QED
    BY <2>2, <2>3
<1>7. ASSUME ch \notin Separators
      PROVE  /\ Cur' = Append(Cur, ch) /\ Len(WordsNow') = Len(WordsNow)
             /\ \A j \in 1..(Len(WordsNow) - 1) : WordsNow'[j] = WordsNow[j]
  <2>1. Cur' = WordsNow'[Len(WordsNow')]
    BY DEF Cur
  <2> DEFINE more == WordsWith(WordsNow, ch)
  <2>2. /\ Len(more) = Len(WordsNow)
        /\ \A j \in 1..(Len(WordsNow) - 1) : more[j] = WordsNow[j]
        /\ more[Len(WordsNow)] = Append(Cur, ch)
    BY <1>1, <1>4, <1>7, WordsWithIs DEF Cur
  <2>3. WordsNow' = more
    BY <1>5
  <2> HIDE DEF more
  <2> QED
    BY <2>1, <2>2, <2>3
<1> QED
  BY <1>1, <1>5, <1>6, <1>7 DEF ch

\* A character of a word that is not refused with it.
LEMMA InWord ==
  ASSUME TypeOK, NoneRefused, NEW chars, At(chars), it' = it + 1, pattern' = pattern,
         ch \notin Separators, ch \notin Invalid,
         ~StarsTogether(Append(Cur, ch))
  PROVE  NoneRefused'
<1> DEFINE l == Len(WordsNow)
<1>1. /\ ch = pattern[it] /\ WordsNow' \in SomeWords
      /\ Cur' = Append(Cur, ch) /\ Len(WordsNow') = l
      /\ \A j \in 1..(l - 1) : WordsNow'[j] = WordsNow[j]
  BY ReadOn
<1>2. l \in Nat /\ l >= 1 /\ it \in Nat
  BY PatternIs
<1>3. \A i \in 1..(it' - 1) : pattern'[i] \notin Invalid
  <2>1. \A i \in 1..((it + 1) - 1) : i = it \/ i \in 1..(it - 1)
    BY <1>2
  <2> QED
    BY <1>1, <2>1 DEF NoneRefused
<1>4. Cur' = WordsNow'[l]
  BY <1>1 DEF Cur
<1>5. \A j \in 1..l : j = l \/ (j \in 1..(l - 1) /\ j \in 1..l)
  BY <1>2
<1> HIDE DEF l
<1>6. \A j \in 1..l : ~StarsTogether(WordsNow'[j])
  BY <1>1, <1>4, <1>5 DEF NoneRefused, l
<1>7. \A j \in 1..(l - 1) : WordsNow'[j] # <<Dot, Dot>>
  BY <1>1 DEF NoneRefused, l
<1> QED
  BY <1>1, <1>3, <1>6, <1>7 DEF NoneRefused, StarsTogether, Globstar

\* A separator after a word that is not that of the parent directory.
LEMMA AfterWord ==
  ASSUME TypeOK, NoneRefused, NEW chars, At(chars), it' = it + 1, pattern' = pattern,
         ch \in Separators, Cur # <<Dot, Dot>>
  PROVE  NoneRefused'
<1> DEFINE l == Len(WordsNow)
<1>1. /\ ch = pattern[it] /\ WordsNow' \in SomeWords
      /\ Cur' = <<>> /\ Len(WordsNow') = l + 1
      /\ \A j \in 1..l : WordsNow'[j] = WordsNow[j]
  BY ReadOn
<1>2. l \in Nat /\ l >= 1 /\ it \in Nat
  BY PatternIs
<1>0. ch \notin Invalid
  BY CharactersAssumption
<1>3. \A i \in 1..(it' - 1) : pattern'[i] \notin Invalid
  <2>1. \A i \in 1..((it + 1) - 1) : i = it \/ i \in 1..(it - 1)
    BY <1>2
  <2> QED
    BY <1>0, <1>1, <2>1 DEF NoneRefused
<1>4. Cur' = WordsNow'[l + 1] /\ Cur = WordsNow[l]
  BY <1>1 DEF Cur
<1>5. /\ \A j \in 1..(l + 1) : j = l + 1 \/ j \in 1..l
      /\ \A j \in 1..((l + 1) - 1) : j \in 1..l /\ (j = l \/ j \in 1..(l - 1))
  BY <1>2
<1>6. ~StarsTogether(<<>>)
  <2>1. Len(<<>>) = 0
    OBVIOUS
  <2> QED
    BY <2>1 DEF StarsTogether
<1> HIDE DEF l
<1>7. \A j \in 1..(l + 1) : ~StarsTogether(WordsNow'[j])
  BY <1>1, <1>4, <1>5, <1>6 DEF NoneRefused, l
<1>8. \A j \in 1..((l + 1) - 1) : WordsNow'[j] # <<Dot, Dot>>
  BY <1>1, <1>4, <1>5 DEF NoneRefused, l
<1> QED
  BY <1>1, <1>3, <1>7, <1>8 DEF NoneRefused, StarsTogether, Globstar

\* Short sequences are told from others by their last element.
LEMMA AppendShort ==
  ASSUME NEW s \in Seq(Characters), NEW c \in Characters
  PROVE  /\ Append(s, c) # <<>>
         /\ Append(s, c) = <<Star>> <=> s = <<>> /\ c = Star
         /\ Append(s, c) = <<Star, Star>> <=> s = <<Star>> /\ c = Star
<1> DEFINE t == Append(s, c)
<1>0. Star \in Characters
  BY DEF Characters
<1>1. t \in Seq(Characters) /\ Len(s) \in Nat /\ Len(t) = Len(s) + 1 /\ t[Len(s) + 1] = c /\ \A i \in 1..Len(s) : t[i] = s[i]
  OBVIOUS
<1>2. <<Star>> \in Seq(Characters) /\ Len(<<Star>>) = 1 /\ <<Star>>[1] = Star
  BY <1>0
<1>3. <<Star, Star>> \in Seq(Characters) /\ Len(<<Star, Star>>) = 2 /\ \A i \in 1..2 : <<Star, Star>>[i] = Star
  BY <1>0
<1> DEFINE one == <<Star>>
           two == <<Star, Star>>
<1>4. /\ one \in Seq(Characters) /\ Len(one) = 1 /\ \A i \in 1..1 : one[i] = Star
      /\ two \in Seq(Characters) /\ Len(two) = 2 /\ \A i \in 1..2 : two[i] = Star
  BY <1>2, <1>3
<1> HIDE DEF t, one, two
<1>5. t # <<>>
  BY <1>1
<1>6. t = one <=> Len(t) = 1 /\ t[1] = Star
  BY <1>1, <1>4
<1>7. t = two <=> Len(t) = 2 /\ t[1] = Star /\ t[2] = Star
  <2>1. ASSUME t = two PROVE Len(t) = 2 /\ t[1] = Star /\ t[2] = Star
    BY <1>4, <2>1
  <2>2. ASSUME Len(t) = 2, t[1] = Star, t[2] = Star PROVE t = two
    <3>1. \A i \in 1..2 : i = 1 \/ i = 2
      OBVIOUS
    <3>2. \A i \in 1..2 : t[i] = two[i]
      BY <1>4, <2>2, <3>1
    <3> QED
      BY <1>1, <1>4, <2>2, <3>2
  <2> QED
    BY <2>1, <2>2
<1>8. s = one <=> Len(s) = 1 /\ s[1] = Star
  BY <1>4
<1>9. t = one <=> s = <<>> /\ c = Star
  BY <1>1, <1>6
<1>10. t = two <=> s = one /\ c = Star
  <2>1. Len(t) = 2 <=> Len(s) = 1
    <3>1. Len(s) \in Nat /\ Len(t) \in Nat /\ Len(t) = Len(s) + 1
      BY <1>1
    <3>2. \A a, b \in Nat : b = a + 1 => (b = 2 <=> a = 1)
      OBVIOUS
    <3> QED
      BY <3>1, <3>2
  <2>2. Len(s) = 1 => t[1] = s[1] /\ t[2] = c
    BY <1>1
  <2> QED
    BY <1>7, <1>8, <2>1, <2>2
<1> QED
  BY <1>5, <1>9, <1>10 DEF t, one, two

\* The literals of a segment with one more character.
LEMMA LiteralsOfAppend ==
  ASSUME NEW s \in Seq(Characters), NEW c \in Characters
  PROVE  /\ LiteralsOf(<<>>) = <<>>
         /\ LiteralsOf(s) \in Seq(Characters)
         /\ LiteralsOf(Append(s, c)) = IF c \in Literals THEN Append(LiteralsOf(s), c) ELSE LiteralsOf(s)
BY ThoseAppend DEF LiteralsOf

\* Stars and dots are no separators.
LEMMA Kinds ==
  /\ Star # Question /\ Star \notin Separators /\ Question \notin Separators
  /\ Star \notin Literals /\ Question \notin Literals
  /\ Star \notin Invalid /\ Question \notin Invalid
  /\ Star \in Characters /\ Question \in Characters /\ Dot \in Characters
  /\ \A c \in Literals : c \in Characters /\ c \notin Separators /\ c \notin Invalid /\ c # Star /\ c # Question
  /\ \A c \in Separators : c \in Characters /\ c \notin Invalid /\ c \notin Literals
  /\ \A c \in Characters : c \notin Separators /\ c \notin Invalid => c \in Literals \cup Wildcards
  /\ NotSep # Star /\ NamePart # Star /\ Sep # Star /\ Deep # Star /\ Rest # Star
BY CharactersAssumption DEF Characters, Wildcards

\* What is known before a character is read.
Told == IInv /\ NoneRefused /\ InHand /\ RawStars

\* After a separator nothing is at hand.
LEMMA AfterSep ==
  ASSUME Told, At(Separators), it' = it + 1, pattern' = pattern,
         value' = <<>>, valueRaw' = <<>>, Cur # <<Dot, Dot>>,
         (\E j \in DOMAIN accumulator' : accumulator'[j] = Star) =>
           \E j \in 1..Len(WordsNow) : StarLed(WordsNow[j])
  PROVE  NoneRefused' /\ InHand' /\ RawStars'
<1>1. TypeOK /\ NoneRefused /\ ch \in Separators
  BY DEF Told, IInv, At
<1>2. /\ Cur' = <<>> /\ Len(WordsNow') = Len(WordsNow) + 1
      /\ \A j \in 1..Len(WordsNow) : WordsNow'[j] = WordsNow[j]
  BY <1>1, ReadOn
<1>3. NoneRefused'
  BY <1>1, AfterWord
<1>4. LiteralsOf(<<>>) = <<>>
  BY LiteralsOfAppend, PatternIs, <1>1, Kinds
<1>5. (LiteralsOf(Cur))' = LiteralsOf(Cur')
  BY DEF LiteralsOf, P!Those, P!FlattenSeq
<1>6. InHand'
  BY <1>2, <1>4, <1>5 DEF InHand, Globstar
<1>7. \A j \in 1..Len(WordsNow) : j \in 1..Len(WordsNow')
  BY <1>1, <1>2, PatternIs
<1>8. RawStars'
  BY <1>2, <1>7 DEF RawStars, StarLed
<1> QED
  BY <1>3, <1>6, <1>8

\* A character of a word, which what is at hand is told from.
LEMMA AfterChar ==
  ASSUME Told, NEW chars, At(chars), it' = it + 1, pattern' = pattern, lastch' = ch,
         ch \notin Separators, ch \notin Invalid,
         ~StarsTogether(Append(Cur, ch)),
         valueRaw' = IF ch \in Literals THEN Append(valueRaw, ch) ELSE valueRaw,
         value' # <<>>,
         value' = <<Star>> <=> Cur = <<>> /\ ch = Star,
         value' = <<Star, Star>> <=> Cur = <<Star>> /\ ch = Star,
         (\E j \in DOMAIN accumulator' : accumulator'[j] = Star) =>
           \E j \in 1..Len(WordsNow) : StarLed(WordsNow[j]),
         (\E j \in DOMAIN value' : value'[j] = Star) =>
           value' \in {<<Star>>, <<Star, Star>>} \/ StarLed(Append(Cur, ch))
  PROVE  NoneRefused' /\ InHand' /\ RawStars'
<1>1. TypeOK /\ NoneRefused /\ InHand /\ RawStars
  BY DEF Told, IInv
<1>2. /\ ch \in Characters /\ Cur' = Append(Cur, ch) /\ Len(WordsNow') = Len(WordsNow)
      /\ \A j \in 1..(Len(WordsNow) - 1) : WordsNow'[j] = WordsNow[j]
  BY <1>1, ReadOn
<1>3. NoneRefused'
  BY <1>1, InWord
<1>4. Cur \in Seq(Characters) /\ Cur \in Seq(Literals \cup Wildcards) /\ ch \in Literals \cup Wildcards
  BY <1>1, <1>2, PatternIs, Kinds DEF InHand
<1>5. (LiteralsOf(Cur))' = LiteralsOf(Cur')
  BY DEF LiteralsOf, P!Those, P!FlattenSeq
<1>6. valueRaw' = LiteralsOf(Cur')
  BY <1>1, <1>2, <1>4, LiteralsOfAppend DEF InHand
<1>7. /\ Append(Cur, ch) # <<>>
      /\ Append(Cur, ch) = <<Star>> <=> Cur = <<>> /\ ch = Star
      /\ Append(Cur, ch) = <<Star, Star>> <=> Cur = <<Star>> /\ ch = Star
  <2> DEFINE c == ch
             s == Cur
  <2>1. c \in Characters /\ s \in Seq(Characters) /\ Star \in Characters
    BY <1>2, <1>4, Kinds
  <2> HIDE DEF c, s
  <2>2. /\ Append(s, c) # <<>>
        /\ Append(s, c) = <<Star>> <=> s = <<>> /\ c = Star
        /\ Append(s, c) = <<Star, Star>> <=> s = <<Star>> /\ c = Star
    BY <2>1, AppendShort
  <2> QED
    BY <2>2 DEF c, s
<1>8. Append(Cur, ch) \in Seq(Literals \cup Wildcards) /\ Append(Cur, ch)[Len(Append(Cur, ch))] = ch
  BY <1>4
<1>9. InHand'
  <2>1. (Seq(Literals \cup Wildcards))' = Seq(Literals \cup Wildcards) /\ Globstar' = Globstar /\ Globstar = <<Star, Star>>
    BY DEF Wildcards, Globstar
  <2> QED
    BY <1>2, <1>5, <1>6, <1>7, <1>8, <2>1 DEF InHand
<1>10. StarLed(Cur) => StarLed(Append(Cur, ch))
  BY <1>4 DEF StarLed
<1>11. ASSUME NEW j \in 1..Len(WordsNow), StarLed(WordsNow[j]) PROVE StarLed(WordsNow'[j])
  <2>1. j = Len(WordsNow) \/ j \in 1..(Len(WordsNow) - 1)
    BY <1>1, PatternIs
  <2>2. CASE j = Len(WordsNow)
    <3>1. WordsNow'[j] = Append(Cur, ch) /\ WordsNow[j] = Cur
      BY <1>2, <2>2 DEF Cur
    <3> QED
      BY <1>10, <1>11, <3>1
  <2>3. CASE j \in 1..(Len(WordsNow) - 1)
    BY <1>2, <1>11, <2>3
  <2> QED
    BY <2>1, <2>2, <2>3
<1>12. RawStars'
  <2>1. (\E j \in DOMAIN accumulator' : accumulator'[j] = Star) =>
          \E j \in 1..Len(WordsNow') : StarLed(WordsNow'[j])
    BY <1>2, <1>11
  <2> QED
    BY <1>2, <2>1 DEF RawStars, StarLed
<1> QED
  BY <1>3, <1>9, <1>12

\* Raw stars in a regular expression, and words that explain them.
HasStar(s) == \E j \in DOMAIN s : s[j] = Star
StarLedNow == \E j \in 1..Len(WordsNow) : StarLed(WordsNow[j])

\* A raw star in two expressions put together is in one of them.
LEMMA StarConcat ==
  ASSUME NEW s \in Seq(Pieces), NEW t \in Seq(Pieces)
  PROVE  HasStar(s \o t) => HasStar(s) \/ HasStar(t)
<1> SUFFICES ASSUME HasStar(s \o t) PROVE HasStar(s) \/ HasStar(t)
  OBVIOUS
<1>1. PICK j \in 1..(Len(s) + Len(t)) : (s \o t)[j] = Star
  BY DEF HasStar
<1>2. Len(s) \in Nat /\ Len(t) \in Nat /\ DOMAIN s = 1..Len(s) /\ DOMAIN t = 1..Len(t)
  OBVIOUS
<1>3. CASE j \in 1..Len(s)
  BY <1>1, <1>2, <1>3 DEF HasStar
<1>4. CASE j \notin 1..Len(s)
  <2>1. j - Len(s) \in 1..Len(t) /\ t[j - Len(s)] = Star
    BY <1>1, <1>2, <1>4
  <2> QED
    BY <1>2, <2>1 DEF HasStar
<1> QED
  BY <1>3, <1>4

\* A piece that is no star has none.
LEMMA StarOne ==
  ASSUME NEW p \in Pieces, p # Star
  PROVE  <<p>> \in Seq(Pieces) /\ ~HasStar(<<p>>)
BY DEF HasStar

\* The pieces the code appends.
LEMMA PiecesNoStar ==
  /\ Sep \in Pieces /\ NotSep \in Pieces /\ NamePart \in Pieces /\ Deep \in Pieces /\ Rest \in Pieces
  /\ Sep # Star /\ NotSep # Star /\ NamePart # Star /\ Deep # Star /\ Rest # Star
BY Kinds DEF Pieces

\* The facts of a state in which a character is read.
LEMMA ToldIs ==
  ASSUME Told
  PROVE  /\ TypeOK /\ NoneRefused /\ InHand /\ RawStars
         /\ accumulator \in Seq(Pieces) /\ value \in Seq(Pieces) /\ Piece \in Seq(Pieces)
         /\ valueRaw \in Seq(Literals)
         /\ foundGlobstar <=> value = <<Star, Star>>
         /\ ~foundWildcard => value = valueRaw
         /\ HasStar(accumulator) => StarLedNow
         /\ HasStar(value) => value \in {<<Star>>, <<Star, Star>>} \/ StarLed(Cur)
         /\ StarLed(Cur) => StarLedNow
         /\ value = <<>> => valueRaw = <<>>
<1>1. TypeOK /\ NoneRefused /\ InHand /\ RawStars /\ LiteralUntilWild
  BY DEF Told, IInv
<1>2. StarLed(Cur) => StarLedNow
  BY <1>1, PatternIs DEF Cur, StarLedNow
<1>3. value = <<>> => valueRaw = <<>>
  BY <1>1, LiteralsOfAppend, Kinds, PatternIs DEF InHand
<1> QED
  BY <1>1, <1>2, <1>3, PieceType DEF TypeOK, LiteralUntilWild, RawStars, HasStar, StarLedNow

\* The piece at hand has no raw star but that of a star that a question mark follows.
LEMMA PieceNoStar ==
  ASSUME Told, ~foundGlobstar, HasStar(Piece)
  PROVE  StarLedNow
<1>1. CASE value = <<Star>>
  <2>1. Piece = <<NamePart>>
    BY <1>1 DEF Piece
  <2> QED
    BY <2>1, StarOne, PiecesNoStar
<1>2. CASE value # <<Star>>
  <2>1. Piece = value
    BY <1>2 DEF Piece
  <2> QED
    BY <1>2, <2>1, ToldIs
<1> QED
  BY <1>1, <1>2

\* After a separator nothing of a word is at hand.
LEMMA SepLast ==
  ASSUME Told, lastch \in Separators
  PROVE  Cur = <<>> /\ value = <<>> /\ valueRaw = <<>>
<1>1. Cur \in Seq(Literals \cup Wildcards) /\ (Cur # <<>> => lastch = Cur[Len(Cur)]) /\ (value = <<>> <=> Cur = <<>>)
  BY ToldIs DEF InHand
<1>2. ASSUME Cur # <<>> PROVE FALSE
  <2>1. Cur[Len(Cur)] \in Literals \cup Wildcards
    BY <1>1, <1>2
  <2> QED
    BY <1>1, <1>2, <2>1, Kinds DEF Wildcards
<1> QED
  BY <1>1, <1>2, ToldIs

\* The word for the parent directory.
LEMMA DotsAre == LiteralsOf(<<Dot, Dot>>) = <<Dot, Dot>> /\ Globstar # <<Dot, Dot>> /\ <<>> # <<Dot, Dot>>
<1>1. Dot \in Characters /\ Dot \in Literals /\ Dot # Star
  BY CharactersAssumption, Kinds
<1>2. <<>> \in Seq(Characters) /\ <<Dot>> \in Seq(Characters) /\ <<Dot>> = Append(<<>>, Dot) /\ <<Dot, Dot>> = Append(<<Dot>>, Dot)
  BY <1>1
<1>3. LiteralsOf(<<>>) = <<>>
  BY <1>1, <1>2, LiteralsOfAppend
<1>4. LiteralsOf(<<Dot>>) = <<Dot>>
  BY <1>1, <1>2, <1>3, LiteralsOfAppend
<1>5. LiteralsOf(<<Dot, Dot>>) = <<Dot, Dot>>
  BY <1>1, <1>2, <1>4, LiteralsOfAppend
<1>6. Globstar # <<Dot, Dot>>
  <2>1. <<Star, Star>>[1] = Star /\ <<Dot, Dot>>[1] = Dot
    OBVIOUS
  <2> QED
    BY <1>1, <2>1 DEF Globstar
<1> QED
  BY <1>5, <1>6

\* No two stars come together but those of a globstar.
LEMMA NoNewPairs ==
  ASSUME Told, ch \in Characters, Cur # Globstar, ch # Star \/ Cur = <<>> \/ lastch # Star
  PROVE  ~StarsTogether(Append(Cur, ch))
<1>1. Cur \in Seq(Characters) /\ ~StarsTogether(Cur)
  BY ToldIs, PatternIs DEF NoneRefused, Cur
<1>2. ~Pairs(Cur)
  BY <1>1 DEF StarsTogether, Pairs
<1>3. Cur # <<>> => lastch = Cur[Len(Cur)]
  BY ToldIs DEF InHand
<1>4. ~Pairs(Append(Cur, ch))
  BY <1>1, <1>2, <1>3, PairsAppend
<1> QED
  BY <1>4 DEF StarsTogether, Pairs

\* What is known after a character.
ReadAfter == NoneRefused' /\ InHand' /\ RawStars'

\* Each step that reads a separator keeps what is known.
LEMMA RepeatedSeparatorReads == ASSUME Told, RepeatedSeparator PROVE ReadAfter
<1>1. /\ At(Separators) /\ lastch \in Separators /\ it' = it + 1 /\ pattern' = pattern
      /\ value' = value /\ valueRaw' = valueRaw /\ accumulator' = accumulator
  BY DEF RepeatedSeparator, Continue, scan
<1>2. Cur = <<>> /\ value' = <<>> /\ valueRaw' = <<>>
  BY <1>1, SepLast
<1>3. HasStar(accumulator') => StarLedNow
  BY <1>1, ToldIs
<1> QED
  BY <1>1, <1>2, <1>3, AfterSep, DotsAre DEF ReadAfter, HasStar, StarLedNow

LEMMA NoSegmentReads == ASSUME Told, NoSegment PROVE ReadAfter
<1>1. /\ At(Separators) /\ it' = it + 1 /\ pattern' = pattern
      /\ value = <<>> /\ value' = value /\ valueRaw' = valueRaw
      /\ accumulator' = accumulator \/ accumulator' = Append(accumulator, Sep)
  BY DEF NoSegment, AfterSegment, Advance
<1>2. Cur = <<>> /\ value' = <<>> /\ valueRaw' = <<>>
  BY <1>1, ToldIs DEF InHand
<1>3. HasStar(accumulator') => StarLedNow
  <2>1. Append(accumulator, Sep) = accumulator \o <<Sep>>
    BY ToldIs
  <2> QED
    BY <1>1, <2>1, ToldIs, StarConcat, StarOne, PiecesNoStar
<1> QED
  BY <1>1, <1>2, <1>3, AfterSep, DotsAre DEF ReadAfter, HasStar, StarLedNow

LEMMA EndGlobstarReads == ASSUME Told, EndGlobstar PROVE ReadAfter
<1>1. /\ At(Separators) /\ it' = it + 1 /\ pattern' = pattern
      /\ foundGlobstar /\ value' = <<>> /\ valueRaw' = <<>>
      /\ accumulator' = Append(accumulator, Deep)
  BY DEF EndGlobstar, AfterSegment, Advance, Clear
<1>2. Cur = Globstar
  BY <1>1, ToldIs DEF InHand
<1>3. HasStar(accumulator') => StarLedNow
  <2>1. Append(accumulator, Deep) = accumulator \o <<Deep>>
    BY ToldIs
  <2> QED
    BY <1>1, <2>1, ToldIs, StarConcat, StarOne, PiecesNoStar
<1> QED
  BY <1>1, <1>2, <1>3, AfterSep, DotsAre DEF ReadAfter, HasStar, StarLedNow

LEMMA CurrentDirectoryReads == ASSUME Told, CurrentDirectory PROVE ReadAfter
<1>1. /\ At(Separators) /\ it' = it + 1 /\ pattern' = pattern
      /\ valueRaw = <<Dot>> /\ value' = <<>> /\ valueRaw' = <<>>
      /\ accumulator' = accumulator
  BY DEF CurrentDirectory, AfterSegment, Continue, Clear
<1>2. Cur # <<Dot, Dot>>
  <2>1. <<Dot>> # <<Dot, Dot>>
    OBVIOUS
  <2> QED
    BY <1>1, <2>1, ToldIs, DotsAre DEF InHand
<1>3. HasStar(accumulator') => StarLedNow
  BY <1>1, ToldIs
<1> QED
  BY <1>1, <1>2, <1>3, AfterSep, DotsAre DEF ReadAfter, HasStar, StarLedNow

LEMMA EndSegmentReads == ASSUME Told, EndSegment PROVE ReadAfter
<1>1. /\ At(Separators) /\ it' = it + 1 /\ pattern' = pattern /\ ~foundGlobstar
      /\ valueRaw # <<Dot, Dot>> /\ value' = <<>> /\ valueRaw' = <<>>
      /\ accumulator' = accumulator \/ accumulator' = accumulator \o Append(Piece, Sep)
  BY DEF EndSegment, AfterSegment, Advance, Clear, IsParent
<1>2. Cur # <<Dot, Dot>>
  BY <1>1, ToldIs, DotsAre DEF InHand
<1>3. HasStar(accumulator') => StarLedNow
  <2>1. Append(Piece, Sep) = Piece \o <<Sep>> /\ Append(Piece, Sep) \in Seq(Pieces)
    BY ToldIs, PiecesNoStar
  <2>2. HasStar(Append(Piece, Sep)) => StarLedNow
    BY <1>1, <2>1, ToldIs, StarConcat, StarOne, PiecesNoStar, PieceNoStar, ZenonT(40)
  <2>3. HasStar(accumulator \o Append(Piece, Sep)) => StarLedNow
    BY <2>1, <2>2, ToldIs, StarConcat
  <2> QED
    BY <1>1, <2>3, ToldIs
<1> QED
  BY <1>1, <1>2, <1>3, AfterSep, DotsAre DEF ReadAfter, HasStar, StarLedNow

\* A piece that is no star at the end of others brings none.
LEMMA StarlessEnd ==
  ASSUME NEW v \in Seq(Pieces), NEW p \in Pieces, p # Star
  PROVE  /\ Append(v, p) \in Seq(Pieces)
         /\ Append(v, p) # <<>> /\ Append(v, p) # <<Star>> /\ Append(v, p) # <<Star, Star>>
         /\ HasStar(Append(v, p)) => HasStar(v)
<1>1. Append(v, p) = v \o <<p>>
  OBVIOUS
<1>2. HasStar(Append(v, p)) => HasStar(v)
  BY <1>1, StarConcat, StarOne
<1>3. Append(v, p) \in Seq(Pieces) /\ Append(v, p) # <<Star, Star>>
  BY NoGlobstar
<1>4. Append(v, p)[Len(v) + 1] = p /\ Len(Append(v, p)) = Len(v) + 1 /\ Len(v) \in Nat
  OBVIOUS
<1>5. ASSUME Append(v, p) = <<Star>> PROVE FALSE
  <2>1. Len(Append(v, p)) = 1 /\ Append(v, p)[1] = Star
    BY <1>5
  <2>2. Len(v) = 0
    BY <1>4, <2>1
  <2>3. Append(v, p)[1] = p
    BY <1>4, <2>2
  <2> QED
    BY <2>1, <2>3
<1>6. Append(v, p) # <<>>
  <2>1. Len(<<>>) = 0
    OBVIOUS
  <2> QED
    BY <1>4, <2>1
<1> QED
  BY <1>2, <1>3, <1>5, <1>6

\* Literals are no stars.
LEMMA NoLiteralStar == ASSUME NEW v \in Seq(Literals) PROVE v \in Seq(Pieces) /\ ~HasStar(v)
<1>1. \A j \in DOMAIN v : v[j] \in Literals
  OBVIOUS
<1>2. Literals \subseteq Pieces
  BY DEF Pieces
<1> QED
  BY <1>1, <1>2, Kinds DEF HasStar

\* One star and two.
LEMMA ShortStars ==
  /\ Globstar # <<>> /\ Globstar # <<Star>> /\ <<Star>> # <<>> /\ <<Star, Star>> # <<Star>>
  /\ Append(<<Star>>, Star) = Globstar /\ ~StarsTogether(Globstar)
<1>1. <<>> \in Seq(Characters) /\ <<Star>> \in Seq(Characters) /\ <<Star>> = Append(<<>>, Star)
  BY Kinds
<1>2. <<Star>> # <<>> /\ <<Star, Star>> # <<Star>> /\ <<Star, Star>> # <<>>
  <2>1. Len(<<>>) = 0 /\ Len(<<Star>>) = 1 /\ Len(<<Star, Star>>) = 2
    OBVIOUS
  <2> QED
    BY <2>1
<1>3. Append(<<Star>>, Star) = <<Star, Star>>
  BY <1>1, Kinds, AppendShort
<1> QED
  BY <1>2, <1>3 DEF Globstar, StarsTogether

\* Each step that reads a character of a word keeps what is known.
LEMMA FirstStarReads == ASSUME Told, FirstStar PROVE ReadAfter
<1>1. /\ At({Star}) /\ it' = it + 1 /\ pattern' = pattern /\ lastch' = ch
      /\ value = <<>> /\ value' = <<Star>> /\ valueRaw' = valueRaw
      /\ accumulator' = accumulator
  BY DEF FirstStar, Advance
<1>2. Cur = <<>>
  BY <1>1, ToldIs DEF InHand
<1>3. ch = Star
  BY <1>1 DEF At
<1>4. ~StarsTogether(Append(Cur, ch))
  BY <1>2, <1>3, ShortStars, Kinds, NoNewPairs
<1>5. HasStar(accumulator') => StarLedNow
  BY <1>1, ToldIs
<1>6. ch \notin Separators /\ ch \notin Invalid /\ ch \notin Literals
  BY <1>3, Kinds
<1>7. /\ value' # <<>>
      /\ value' = <<Star>> <=> Cur = <<>> /\ ch = Star
      /\ value' = <<Star, Star>> <=> Cur = <<Star>> /\ ch = Star
  BY <1>1, <1>2, <1>3, ShortStars
<1> QED
  BY <1>1, <1>4, <1>5, <1>6, <1>7, AfterChar DEF ReadAfter, HasStar, StarLedNow

LEMMA SecondStarReads == ASSUME Told, SecondStar PROVE ReadAfter
<1>1. /\ At({Star}) /\ it' = it + 1 /\ pattern' = pattern /\ lastch' = ch
      /\ value = <<Star>> /\ value' = <<Star, Star>> /\ valueRaw' = valueRaw
      /\ accumulator' = accumulator
  BY DEF SecondStar, Advance
<1>2. Cur = <<Star>>
  BY <1>1, ToldIs DEF InHand
<1>3. ch = Star
  BY <1>1 DEF At
<1>4. ~StarsTogether(Append(Cur, ch))
  BY <1>2, <1>3, ShortStars
<1>5. HasStar(accumulator') => StarLedNow
  BY <1>1, ToldIs
<1>6. ch \notin Separators /\ ch \notin Invalid /\ ch \notin Literals
  BY <1>3, Kinds
<1>7. /\ value' # <<>>
      /\ value' = <<Star>> <=> Cur = <<>> /\ ch = Star
      /\ value' = <<Star, Star>> <=> Cur = <<Star>> /\ ch = Star
  BY <1>1, <1>2, <1>3, ShortStars
<1> QED
  BY <1>1, <1>4, <1>5, <1>6, <1>7, AfterChar DEF ReadAfter, HasStar, StarLedNow

\* A star that a question mark follows stays so.
LEMMA StarLedOn ==
  ASSUME NEW s \in Seq(Characters), NEW c \in Characters
  PROVE  /\ StarLed(s) => StarLed(Append(s, c))
         /\ s = <<Star>> /\ c = Question => StarLed(Append(s, c))
BY SMTT(30) DEF StarLed

LEMMA LaterStarReads == ASSUME Told, LaterStar, lastch # Star PROVE ReadAfter
<1>1. /\ At({Star}) /\ it' = it + 1 /\ pattern' = pattern /\ lastch' = ch
      /\ value # <<>> /\ value # <<Star>> /\ value' = Append(value, NamePart) /\ valueRaw' = valueRaw
      /\ accumulator' = accumulator /\ ~foundGlobstar
  BY DEF LaterStar, Advance
<1>2. Cur # <<>> /\ Cur # <<Star>> /\ Cur # Globstar /\ value # <<Star, Star>>
  BY <1>1, ToldIs DEF InHand
<1>3. ch = Star
  BY <1>1 DEF At
<1>4. ~StarsTogether(Append(Cur, ch))
  BY <1>2, <1>3, Kinds, NoNewPairs
<1>5. HasStar(accumulator') => StarLedNow
  BY <1>1, ToldIs
<1>6. ch \notin Separators /\ ch \notin Invalid /\ ch \notin Literals
  BY <1>3, Kinds
<1>7. /\ value' # <<>> /\ value' # <<Star>> /\ value' # <<Star, Star>>
      /\ HasStar(value') => HasStar(value)
  BY <1>1, ToldIs, StarlessEnd, PiecesNoStar
<1>8. HasStar(value') => StarLed(Append(Cur, ch))
  BY <1>1, <1>2, <1>3, <1>7, ToldIs, PatternIs, StarLedOn, Kinds
<1> QED
  BY <1>1, <1>2, <1>3, <1>4, <1>5, <1>6, <1>7, <1>8, AfterChar DEF ReadAfter, HasStar, StarLedNow

LEMMA AnyCharacterReads == ASSUME Told, AnyCharacter PROVE ReadAfter
<1>1. /\ At({Question}) /\ it' = it + 1 /\ pattern' = pattern /\ lastch' = ch
      /\ value' = Append(value, NotSep) /\ valueRaw' = valueRaw
      /\ accumulator' = accumulator /\ ~foundGlobstar
  BY DEF AnyCharacter, Advance
<1>2. Cur # Globstar /\ value # <<Star, Star>>
  BY <1>1, ToldIs DEF InHand
<1>3. ch = Question
  BY <1>1 DEF At
<1>4. ~StarsTogether(Append(Cur, ch))
  BY <1>2, <1>3, Kinds, NoNewPairs
<1>5. HasStar(accumulator') => StarLedNow
  BY <1>1, ToldIs
<1>6. ch \notin Separators /\ ch \notin Invalid /\ ch \notin Literals /\ ch # Star
  BY <1>3, Kinds
<1>7. /\ value' # <<>> /\ value' # <<Star>> /\ value' # <<Star, Star>>
      /\ HasStar(value') => HasStar(value)
  BY <1>1, ToldIs, StarlessEnd, PiecesNoStar
<1>8. value = <<Star>> => Cur = <<Star>>
  BY ToldIs DEF InHand
<1>9. HasStar(value') => StarLed(Append(Cur, ch))
  BY <1>2, <1>3, <1>7, <1>8, ToldIs, PatternIs, StarLedOn, Kinds
<1> QED
  BY <1>1, <1>4, <1>5, <1>6, <1>7, <1>9, AfterChar DEF ReadAfter, HasStar, StarLedNow

LEMMA LiteralReads == ASSUME Told, Literal PROVE ReadAfter
<1>1. /\ At(Literals) /\ it' = it + 1 /\ pattern' = pattern /\ lastch' = ch
      /\ valueRaw' = Append(valueRaw, ch) /\ ~foundGlobstar
      /\ foundWildcard => value' = <<ch>> /\ accumulator' = accumulator \o Piece
      /\ ~foundWildcard => value' = Append(value, ch) /\ accumulator' = accumulator
  BY DEF Literal, Advance
<1>2. Cur # Globstar
  BY <1>1, ToldIs DEF InHand
<1>3. ch \in Literals /\ ch \in Pieces /\ ch # Star
  BY <1>1, Kinds DEF At, Pieces
<1>4. ~StarsTogether(Append(Cur, ch))
  BY <1>2, <1>3, Kinds, NoNewPairs
<1>5. HasStar(accumulator') => StarLedNow
  BY <1>1, ToldIs, StarConcat, PieceNoStar
<1>6. ch \notin Separators /\ ch \notin Invalid
  BY <1>3, Kinds
<1>7. value' # <<>> /\ value' # <<Star>> /\ value' # <<Star, Star>> /\ ~HasStar(value')
  <2>1. CASE foundWildcard
    <3>1. <<ch>> # <<>> /\ <<ch>> # <<Star>> /\ <<ch>> # <<Star, Star>>
      BY <1>3
    <3> QED
      BY <1>1, <1>3, <2>1, <3>1, StarOne
  <2>2. CASE ~foundWildcard
    <3>1. value \in Seq(Pieces) /\ ~HasStar(value)
      BY <2>2, ToldIs, NoLiteralStar
    <3> QED
      BY <1>1, <1>3, <2>2, <3>1, StarlessEnd
  <2> QED
    BY <2>1, <2>2
<1> QED
  BY <1>1, <1>3, <1>4, <1>5, <1>6, <1>7, AfterChar DEF ReadAfter, HasStar, StarLedNow

\* A word of literals spells itself.
LEMMA LiteralsStay == ASSUME NEW s \in Seq(Literals) PROVE LiteralsOf(s) = s
<1> DEFINE b == Len(s)
           T == {n \in Nat : n <= b => LiteralsOf(Cut(s, n)) = Cut(s, n)}
<1>1. b \in Nat /\ Cut(s, b) = s /\ Cut(s, 0) = <<>>
  BY CutIs DEF Cut
<1>2. \A n \in 0..b : Cut(s, n) \in Seq(Literals) /\ Cut(s, n) \in Seq(Characters)
  <2>1. \A n \in 0..b : Cut(s, n) \in Seq(Literals)
    BY CutIs
  <2> QED
    BY <2>1 DEF Characters
<1>3. \A n \in 0..b : n + 1 <= b => Cut(s, n + 1) = Append(Cut(s, n), s[n + 1]) /\ s[n + 1] \in Literals
  BY DEF Cut
<1> HIDE DEF b
<1>4. 0 \in T
  <2>1. <<>> \in Seq(Characters) /\ Dot \in Characters
    BY Kinds
  <2>2. LiteralsOf(<<>>) = <<>>
    BY <2>1, LiteralsOfAppend
  <2> QED
    BY <1>1, <2>2
<1>5. ASSUME NEW n \in Nat, n \in T PROVE n + 1 \in T
  <2> SUFFICES ASSUME n + 1 <= b PROVE LiteralsOf(Cut(s, n + 1)) = Cut(s, n + 1)
    OBVIOUS
  <2>1. n \in 0..b /\ LiteralsOf(Cut(s, n)) = Cut(s, n)
    BY <1>1, <1>5
  <2> QED
    BY <1>2, <1>3, <2>1, LiteralsOfAppend, Kinds
<1>6. b \in T
  <2> HIDE DEF T
  <2> QED
    BY <1>1, <1>4, <1>5, Lemmas!SetInduction
<1> QED
  BY <1>1, <1>6

\* The words of a whole pattern hold those of its beginning.
LEMMA WordNow ==
  ASSUME TypeOK, NEW chars, At(chars)
  PROVE  /\ Words(pattern) \in SomeWords
         /\ Len(WordsNow) \in 1..Len(Words(pattern))
         /\ ch \in Separators =>
              Len(WordsNow) \in 1..(Len(Words(pattern)) - 1) /\ Words(pattern)[Len(WordsNow)] = Cur
         /\ ch \notin Separators => Begins(Append(Cur, ch), Words(pattern)[Len(WordsNow)])
<1> DEFINE l == Len(WordsNow)
           all == Words(pattern)
           next == WordsTo(it)
<1>1. pattern \in Seq(Characters) /\ it \in 1..Len(pattern) /\ it \in 0..Len(pattern) /\ ch \in Characters
  BY AtType, PatternIs DEF At
<1>2. WordsNow \in SomeWords /\ l \in Nat /\ l >= 1
  BY PatternIs
<1>3. all \in SomeWords /\ Grows(next, all) /\ Len(all) \in Nat
  BY <1>1, WordsStay, SomeWordsAre
<1>4. next = WordsWith(WordsNow, ch) /\ next \in SomeWords
  BY <1>1, WordsToIs DEF WordsNow, ch
<1>5. Len(next) \in Nat /\ Len(next) <= Len(all) /\ (\A j \in 1..(Len(next) - 1) : all[j] = next[j])
      /\ Begins(next[Len(next)], all[Len(next)])
  BY <1>3, <1>4, SomeWordsAre DEF Grows
<1>6. CASE ch \in Separators
  <2>1. next = Append(WordsNow, <<>>)
    BY <1>1, <1>2, <1>4, <1>6, WordsWithIs
  <2>2. Len(next) = l + 1 /\ next[l] = Cur
    BY <1>2, <2>1, SomeWordsAre DEF Cur
  <2> HIDE DEF l, all, next
  <2>3. l \in 1..(Len(all) - 1) /\ l \in 1..(Len(next) - 1) /\ l \in 1..Len(all)
    BY <1>2, <1>3, <1>5, <2>2
  <2> QED
    BY <1>3, <1>5, <1>6, <2>2, <2>3 DEF l, all
<1>7. CASE ch \notin Separators
  <2>1. Len(next) = l /\ next[l] = Append(Cur, ch)
    BY <1>1, <1>2, <1>4, <1>7, WordsWithIs DEF Cur
  <2> HIDE DEF l, all, next
  <2>2. l \in 1..Len(all)
    BY <1>2, <1>3, <1>5, <2>1
  <2> QED
    BY <1>3, <1>5, <1>7, <2>1, <2>2 DEF l, all
<1> QED
  BY <1>6, <1>7

\* A pair of stars in a word of three characters stays.
LEMMA PairStays ==
  ASSUME NEW s \in Seq(Characters), NEW t \in Seq(Characters), Begins(s, t), Pairs(s), Len(s) >= 3
  PROVE  StarsTogether(t)
<1>1. Len(s) \in Nat /\ Len(t) \in Nat /\ Len(s) <= Len(t) /\ \A i \in 1..Len(s) : t[i] = s[i]
  BY DEF Begins
<1>2. PICK j \in 1..(Len(s) - 1) : s[j] = Star /\ s[j + 1] = Star
  BY DEF Pairs
<1>3. j \in 1..(Len(t) - 1) /\ j \in 1..Len(s) /\ j + 1 \in 1..Len(s)
  BY <1>1, <1>2
<1>4. t # Globstar
  <2>1. Len(Globstar) = 2
    BY DEF Globstar
  <2> QED
    BY <1>1, <2>1
<1> QED
  BY <1>1, <1>2, <1>3, <1>4 DEF StarsTogether

\* A word with a pair of stars is refused.
LEMMA BadWord ==
  ASSUME TypeOK, NEW j \in 1..Len(Words(pattern)), StarsTogether(Words(pattern)[j])
  PROVE  Refusal
<1>1. j \in DOMAIN Words(pattern)
  <2>1. Words(pattern) \in SomeWords
    BY PatternIs, WordsToIs
  <2> QED
    BY <2>1, SomeWordsAre
<1> QED
  BY <1>1 DEF Refusal, Refused

\* The words of the pattern.
LEMMA WordsDomain ==
  ASSUME TypeOK
  PROVE  Words(pattern) \in SomeWords /\ DOMAIN Words(pattern) = 1..Len(Words(pattern)) /\ Words(pattern) # <<>>
<1>1. Words(pattern) \in SomeWords
  BY PatternIs, WordsToIs
<1> QED
  BY <1>1, SomeWordsAre DEF SomeWords

\* What the constructor throws for is invalid or has a defect.
LEMMA ParentDirectoryRefuses == ASSUME Told, ParentDirectory PROVE Refusal
<1> DEFINE l == Len(WordsNow)
           all == Words(pattern)
<1>1. TypeOK /\ At(Separators) /\ ch \in Separators /\ valueRaw = <<Dot, Dot>>
  BY ToldIs DEF ParentDirectory, AfterSegment, IsParent, At
<1>2. l \in 1..(Len(all) - 1) /\ all[l] = Cur /\ l \in 1..Len(all)
  BY <1>1, WordNow
<1>3. Cur \in Seq(Literals \cup Wildcards) /\ LiteralsOf(Cur) = <<Dot, Dot>>
  BY <1>1, ToldIs DEF InHand
<1>4. CASE Has(Cur, Wildcards)
  <2>1. LooksLikeDots(all)
    BY <1>2, <1>3, <1>4 DEF LooksLikeDots
  <2>2. "dots" \in Defects(all)
    BY <2>1 DEF Defects
  <2> QED
    BY <2>2 DEF Refusal
<1>5. CASE ~Has(Cur, Wildcards)
  <2>1. \A j \in DOMAIN Cur : Cur[j] \in Literals
    BY <1>3, <1>5 DEF Has
  <2>2. Cur \in Seq(Literals)
    <3>1. Len(Cur) \in Nat /\ DOMAIN Cur = 1..Len(Cur) /\ Cur = [j \in 1..Len(Cur) |-> Cur[j]]
      BY <1>3
    <3>2. [j \in 1..Len(Cur) |-> Cur[j]] \in [1..Len(Cur) -> Literals]
      BY <2>1, <3>1
    <3> QED
      BY <3>1, <3>2
  <2>3. Cur = <<Dot, Dot>>
    BY <1>3, <2>2, LiteralsStay
  <2>4. l \in DOMAIN all /\ l < Len(all)
    <3>1. Len(all) \in Nat /\ DOMAIN all = 1..Len(all)
      BY <1>1, WordsDomain, SomeWordsAre
    <3> HIDE DEF l, all
    <3> QED
      BY <1>2, <3>1
  <2> QED
    BY <1>2, <2>3, <2>4 DEF Refusal, Refused
<1> QED
  BY <1>4, <1>5

LEMMA LaterStarRefuses == ASSUME Told, LaterStar, lastch = Star PROVE Refusal
<1>1. TypeOK /\ At({Star}) /\ ch = Star /\ value # <<>> /\ value # <<Star>>
  BY ToldIs DEF LaterStar, At
<1>2. Cur # <<>> /\ Cur # <<Star>> /\ Cur[Len(Cur)] = Star /\ Cur \in Seq(Characters)
  BY <1>1, ToldIs, PatternIs DEF InHand
<1>3. Len(Cur) >= 2 /\ Len(Cur) \in Nat
  <2>1. Len(Cur) \in Nat /\ Len(Cur) # 0
    BY <1>2
  <2>2. ASSUME Len(Cur) = 1 PROVE FALSE
    <3>1. Cur[1] = Star /\ Cur \in Seq(Characters) /\ Len(Cur) = 1
      BY <1>2, <2>2
    <3>2. Cur = <<Star>>
      BY <3>1
    <3> QED
      BY <1>2, <3>2
  <2> QED
    BY <2>1, <2>2
<1>4. Pairs(Append(Cur, ch)) /\ Append(Cur, ch) \in Seq(Characters) /\ Len(Append(Cur, ch)) >= 3
  <2>1. Len(Append(Cur, ch)) = Len(Cur) + 1 /\ Append(Cur, ch) \in Seq(Characters)
    BY <1>1, <1>2, Kinds
  <2> QED
    BY <1>1, <1>2, <1>3, <2>1, Kinds, PairsAppend
<1>5. /\ Words(pattern)[Len(WordsNow)] \in Seq(Characters) /\ Len(WordsNow) \in 1..Len(Words(pattern))
      /\ Begins(Append(Cur, ch), Words(pattern)[Len(WordsNow)])
  BY <1>1, Kinds, WordNow, SomeWordsAre
<1> QED
  BY <1>1, <1>4, <1>5, PairStays, BadWord

LEMMA AfterGlobstarRefuses == ASSUME Told, AfterGlobstar PROVE Refusal
<1>1. TypeOK /\ At(Characters \ Separators) /\ ch \notin Separators /\ ch \in Characters /\ foundGlobstar
  BY ToldIs DEF AfterGlobstar, At
<1>2. Cur = Globstar /\ Cur \in Seq(Characters)
  BY <1>1, ToldIs, PatternIs DEF InHand
<1>3. Pairs(Append(Cur, ch)) /\ Append(Cur, ch) \in Seq(Characters) /\ Len(Append(Cur, ch)) >= 3
  <2>1. Len(Append(Cur, ch)) = Len(Cur) + 1 /\ Append(Cur, ch) \in Seq(Characters)
    BY <1>1, <1>2
  <2>2. Len(Cur) = 2 /\ Cur[1] = Star /\ Cur[2] = Star
    BY <1>2 DEF Globstar
  <2>3. Pairs(Cur)
    BY <2>2 DEF Pairs
  <2> QED
    BY <1>1, <1>2, <2>1, <2>2, <2>3, PairsAppend
<1>4. /\ Words(pattern)[Len(WordsNow)] \in Seq(Characters) /\ Len(WordsNow) \in 1..Len(Words(pattern))
      /\ Begins(Append(Cur, ch), Words(pattern)[Len(WordsNow)])
  BY <1>1, WordNow, SomeWordsAre
<1> QED
  BY <1>1, <1>3, <1>4, PairStays, BadWord

LEMMA InvalidCharacterRefuses == ASSUME Told, InvalidCharacter PROVE Refusal
<1>1. it \in 1..Len(pattern) /\ pattern[it] \in Invalid /\ pattern \in Seq(Characters)
  BY ToldIs, PatternIs DEF InvalidCharacter, At, ch
<1> QED
  BY <1>1 DEF Refusal, Refused, Has

\* At the end the words are those of the pattern.
LEMMA AtTheEnd ==
  ASSUME TypeOK, it > Len(pattern)
  PROVE  WordsNow = Words(pattern)
<1>1. it - 1 = Len(pattern)
  BY PatternIs
<1> QED
  BY <1>1, PatternIs, WordsToIs DEF WordsNow

\* A pattern has none of the defects that GlobMeaning names.
Fine == Defects(Words(pattern)) = {}

\* Then it has neither of them.
LEMMA FineIs ==
  ASSUME Fine
  PROVE  LET all == Words(pattern)
         IN  /\ ~CaretIsNoLiteral(all) /\ ~StarIsLeftRaw(all) /\ ~StarBeforeQuestion(all)
             /\ ~LooksLikeDots(all) /\ ~RepeatAfterDot(all) /\ ~NamesADirectory(all)
<1> DEFINE all == Words(pattern)
           D == Defects(all)
<1>1. /\ CaretIsNoLiteral(all) => "caret" \in D
      /\ StarIsLeftRaw(all) => "trailing star" \in D
      /\ StarBeforeQuestion(all) => "star question" \in D
      /\ LooksLikeDots(all) => "dots" \in D
      /\ RepeatAfterDot(all) => "repeat" \in D
      /\ NamesADirectory(all) => "directory" \in D
  BY DEF Defects
<1> QED
  BY <1>1 DEF Fine

\* The words so far are words of the pattern, or begin one.
LEMMA WordsLater ==
  ASSUME TypeOK
  PROVE  LET all == Words(pattern)
         IN  /\ all \in SomeWords /\ Len(all) \in Nat /\ Len(WordsNow) <= Len(all)
             /\ \A j \in 1..(Len(WordsNow) - 1) : all[j] = WordsNow[j]
             /\ \A j \in 1..Len(WordsNow) : j \in 1..Len(all) /\ Begins(WordsNow[j], all[j])
<1> DEFINE all == Words(pattern)
           now == WordsNow
           l == Len(now)
<1>1. all \in SomeWords /\ Grows(now, all)
  BY PatternIs, WordsStay DEF WordsNow
<1>2. now \in SomeWords
  BY PatternIs
<1> HIDE DEF all, now
<1>3. l \in Nat /\ l >= 1 /\ \A j \in 1..l : now[j] \in Seq(Characters)
  BY <1>2, SomeWordsAre
<1>4. Len(all) \in Nat /\ l <= Len(all) /\ (\A j \in 1..(l - 1) : all[j] = now[j]) /\ Begins(now[l], all[l])
  BY <1>1, SomeWordsAre DEF Grows
<1>5. \A j \in 1..l : (j = l \/ j \in 1..(l - 1)) /\ j \in 1..Len(all)
  BY <1>3, <1>4
<1>6. ASSUME NEW s \in Seq(Characters) PROVE Begins(s, s)
  BY DEF Begins
<1>7. \A j \in 1..l : Begins(now[j], all[j])
  BY <1>3, <1>4, <1>5, <1>6
<1> QED
  BY <1>1, <1>4, <1>5, <1>7 DEF all, now

\* A star that a question mark follows is there at the end, and a defect.
LEMMA StarLedIn ==
  ASSUME TypeOK, Fine, NEW j \in 1..Len(Words(pattern)), NEW s \in Seq(Characters), StarLed(s),
         Begins(s, Words(pattern)[j])
  PROVE  FALSE
<1> DEFINE all == Words(pattern)
<1>1. j \in DOMAIN all /\ all[j] \in Seq(Characters) /\ s \in Seq(Characters)
  BY WordsLater, SomeWordsAre, WordsDomain
<1>2. S!IsPrefix(<<Star, Question>>, all[j])
  <2> DEFINE w == all[j]
             v == s
             two == <<Star, Question>>
  <2>1. w \in Seq(Characters) /\ Len(w) \in Nat /\ Len(w) >= 2 /\ w[1] = Star /\ w[2] = Question
    <3>1. v \in Seq(Characters) /\ Len(v) \in Nat /\ Len(v) >= 2 /\ v[1] = Star /\ v[2] = Question
      BY DEF StarLed
    <3>2. w \in Seq(Characters) /\ Len(w) \in Nat /\ Len(v) <= Len(w) /\ \A i \in 1..Len(v) : w[i] = v[i]
      BY <1>1 DEF Begins
    <3> HIDE DEF w, v
    <3>3. 1 \in 1..Len(v) /\ 2 \in 1..Len(v)
      BY <3>1
    <3> QED
      BY <3>1, <3>2, <3>3
  <2>2. two \in Seq(Characters) /\ Len(two) = 2 /\ two[1] = Star /\ two[2] = Question
    BY Kinds
  <2> HIDE DEF w, two
  <2>3. SubSeq(two, 1, 2) \in Seq(Characters) /\ Len(SubSeq(two, 1, 2)) = 2
        /\ \A i \in 1..2 : SubSeq(two, 1, 2)[i] = two[i]
    BY <2>2, SMTT(30)
  <2>4. SubSeq(w, 1, 2) \in Seq(Characters) /\ Len(SubSeq(w, 1, 2)) = 2
        /\ \A i \in 1..2 : SubSeq(w, 1, 2)[i] = w[i]
    BY <2>1
  <2>5. \A i \in 1..2 : two[i] = w[i]
    <3>1. \A i \in 1..2 : i = 1 \/ i = 2
      OBVIOUS
    <3> QED
      BY <2>1, <2>2, <3>1
  <2>6. SubSeq(two, 1, 2) = SubSeq(w, 1, 2)
    BY <2>3, <2>4, <2>5
  <2>7. S!IsPrefix(two, w)
    BY <2>1, <2>2, <2>6 DEF S!IsPrefix
  <2> QED
    BY <2>7 DEF w, two
<1>3. StarBeforeQuestion(all)
  BY <1>1, <1>2 DEF StarBeforeQuestion
<1> QED
  BY <1>3, FineIs

\* So there is none in the words so far.
LEMMA NoStarLed == ASSUME TypeOK, Fine PROVE ~StarLedNow
<1> SUFFICES ASSUME StarLedNow PROVE FALSE
  OBVIOUS
<1>1. PICK j \in 1..Len(WordsNow) : StarLed(WordsNow[j])
  BY DEF StarLedNow
<1>2. j \in 1..Len(Words(pattern)) /\ Begins(WordsNow[j], Words(pattern)[j]) /\ WordsNow[j] \in Seq(Characters)
  BY <1>1, WordsLater, PatternIs, SomeWordsAre
<1> QED
  BY <1>1, <1>2, StarLedIn

\* A raw star that a question mark follows is a defect, and so is one at the end.
LEMMA StarLedRefuses == ASSUME TypeOK, StarLedNow PROVE Refusal
BY NoStarLed DEF Fine, Refusal

LEMMA RawStarRefuses == ASSUME TypeOK, Cur = <<Star>>, WordsNow = Words(pattern) PROVE Refusal
<1>1. StarIsLeftRaw(Words(pattern))
  BY WordsDomain DEF StarIsLeftRaw, S!Last, Cur
<1>2. "trailing star" \in Defects(Words(pattern))
  BY <1>1 DEF Defects
<1> QED
  BY <1>2 DEF Refusal

\* std::wregex refuses only patterns with a defect.
LEMMA CompileRefuses == ASSUME Told, Compile, pc' = "thrown" PROVE Refusal
<1>1. TypeOK /\ WordsNow = Words(pattern) /\ ~Compiles(accumulator')
  BY ToldIs, AtTheEnd DEF Compile
<1>2. HasStar(accumulator')
  BY <1>1 DEF Compiles, HasStar
<1>3. CASE foundGlobstar
  <2>1. accumulator' = accumulator \o <<Rest>>
    BY <1>3 DEF Compile
  <2>2. HasStar(accumulator)
    BY <1>2, <2>1, ToldIs, StarConcat, StarOne, PiecesNoStar
  <2> QED
    BY <1>1, <2>2, ToldIs, StarLedRefuses
<1>4. CASE ~foundGlobstar
  <2>1. accumulator' = accumulator \o value
    BY <1>4 DEF Compile
  <2>2. HasStar(accumulator) \/ HasStar(value)
    BY <1>2, <2>1, ToldIs, StarConcat
  <2>3. StarLedNow \/ value = <<Star>>
    BY <1>4, <2>2, ToldIs
  <2>4. value = <<Star>> => Cur = <<Star>>
    BY ToldIs DEF InHand
  <2> QED
    BY <1>1, <2>3, <2>4, StarLedRefuses, RawStarRefuses
<1> QED
  BY <1>3, <1>4

\* What is compiled is not invalid.
LEMMA CompileAccepts == ASSUME Told, Compile PROVE ~Refused(pattern)
<1>1. TypeOK /\ WordsNow = Words(pattern) /\ NoneRefused /\ it > Len(pattern)
  BY ToldIs, AtTheEnd DEF Compile
<1>2. it - 1 = Len(pattern) /\ DOMAIN pattern = 1..Len(pattern)
  BY <1>1, PatternIs
<1>3. ~Has(pattern, Invalid)
  BY <1>1, <1>2 DEF NoneRefused, Has
<1> DEFINE all == Words(pattern)
<1>4. DOMAIN all = 1..Len(all) /\ Len(all) \in Nat
  BY <1>1, WordsDomain, SomeWordsAre
<1>5. \A j \in DOMAIN all : ~StarsTogether(all[j])
  BY <1>1, <1>4 DEF NoneRefused
<1>6. \A j \in DOMAIN all : j < Len(all) => all[j] # <<Dot, Dot>>
  <2>1. \A j \in DOMAIN all : j < Len(all) => j \in 1..(Len(all) - 1)
    <3> HIDE DEF all
    <3> QED
      BY <1>4
  <2> QED
    BY <1>1, <2>1 DEF NoneRefused
<1> QED
  BY <1>3, <1>5, <1>6 DEF Refused

\* A step of the constructor keeps what it has read.
LEMMA StepReads == ASSUME IInv, ReadInv, Step PROVE ReadInv'
<1> USE DEF scan
<1>1. pattern' = pattern /\ (Refusal' <=> Refusal) /\ pc = "scan"
  <2>1. pattern' = pattern
    BY DEF Step, RepeatedSeparator, NoSegment, EndGlobstar, CurrentDirectory, ParentDirectory,
       EndSegment, FirstStar, SecondStar, LaterStar, AnyCharacter, AfterGlobstar, InvalidCharacter,
       Literal, Compile, Throw, Advance, Continue
  <2>2. pc = "scan"
    BY DEF Step, RepeatedSeparator, NoSegment, EndGlobstar, CurrentDirectory, ParentDirectory,
       EndSegment, FirstStar, SecondStar, LaterStar, AnyCharacter, AfterGlobstar, InvalidCharacter,
       Literal, Compile, AfterSegment, At
  <2> QED
    BY <2>1, <2>2 DEF Refusal
<1>2. Told
  BY <1>1 DEF Told, ReadInv
<1>3. ASSUME Throw, Refusal PROVE ReadInv'
  BY <1>1, <1>3 DEF Throw, ReadInv
<1>4. ASSUME ReadAfter, pc' = pc PROVE ReadInv'
  BY <1>1, <1>4 DEF ReadAfter, ReadInv
<1>5. CASE RepeatedSeparator
  BY <1>2, <1>4, <1>5, RepeatedSeparatorReads DEF RepeatedSeparator, Continue
<1>6. CASE NoSegment
  BY <1>2, <1>4, <1>6, NoSegmentReads DEF NoSegment, Advance
<1>7. CASE EndGlobstar
  BY <1>2, <1>4, <1>7, EndGlobstarReads DEF EndGlobstar, Advance
<1>8. CASE CurrentDirectory
  BY <1>2, <1>4, <1>8, CurrentDirectoryReads DEF CurrentDirectory, Continue
<1>9. CASE ParentDirectory
  BY <1>2, <1>3, <1>9, ParentDirectoryRefuses DEF ParentDirectory
<1>10. CASE EndSegment
  BY <1>2, <1>4, <1>10, EndSegmentReads DEF EndSegment, Advance
<1>11. CASE FirstStar
  BY <1>2, <1>4, <1>11, FirstStarReads DEF FirstStar, Advance
<1>12. CASE SecondStar
  BY <1>2, <1>4, <1>12, SecondStarReads DEF SecondStar, Advance
<1>13. CASE LaterStar
  <2>1. CASE lastch = Star
    BY <1>2, <1>3, <1>13, <2>1, LaterStarRefuses DEF LaterStar
  <2>2. CASE lastch # Star
    BY <1>2, <1>4, <1>13, <2>2, LaterStarReads DEF LaterStar, Advance
  <2> QED
    BY <2>1, <2>2
<1>14. CASE AnyCharacter
  BY <1>2, <1>4, <1>14, AnyCharacterReads DEF AnyCharacter, Advance
<1>15. CASE AfterGlobstar
  BY <1>2, <1>3, <1>15, AfterGlobstarRefuses DEF AfterGlobstar
<1>16. CASE InvalidCharacter
  BY <1>2, <1>3, <1>16, InvalidCharacterRefuses DEF InvalidCharacter
<1>17. CASE Literal
  BY <1>2, <1>4, <1>17, LiteralReads DEF Literal, Advance
<1>18. CASE Compile
  <2>1. pc' \in {"compiled", "thrown"} /\ (Refused(pattern))' = Refused(pattern)
    BY <1>1, <1>18 DEF Compile
  <2>2. pc' = "thrown" => Refusal
    BY <1>2, <1>18, CompileRefuses
  <2>3. ~Refused(pattern)
    BY <1>2, <1>18, CompileAccepts
  <2> QED
    BY <1>1, <2>1, <2>2, <2>3 DEF ReadInv
<1> QED
  BY <1>5, <1>6, <1>7, <1>8, <1>9, <1>10, <1>11, <1>12, <1>13, <1>14, <1>15, <1>16, <1>17, <1>18 DEF Step

\* Only the constructor reads.
LEMMA ReadFrame == ASSUME ReadInv, UNCHANGED vars PROVE ReadInv'
<1>1. UNCHANGED <<pattern, pc, it, value, valueRaw, accumulator, lastch>>
  BY DEF vars, scan
<1>2. WordsNow' = WordsNow /\ Cur' = Cur
  BY <1>1 DEF WordsNow, WordsTo, Cur
<1>3. Refused(pattern)' = Refused(pattern) /\ (Refusal' <=> Refusal)
  BY <1>1 DEF Refusal
<1>4. LiteralsOf(Cur)' = LiteralsOf(Cur)
  BY <1>2
<1> QED
  BY <1>1, <1>2, <1>3, <1>4 DEF ReadInv, NoneRefused, InHand, RawStars, StarLed

\* Nothing is read yet.
Begun ==
  /\ pattern \in Patterns /\ pc = "scan" /\ it = 1
  /\ value = <<>> /\ valueRaw = <<>> /\ accumulator = <<Sep>>

LEMMA ReadBegins == Begun => ReadInv
<1> SUFFICES ASSUME Begun PROVE ReadInv
  OBVIOUS
<1> USE DEF Begun
<1>1. pattern \in Seq(Characters)
  BY PatternsAssumption
<1>2. WordsNow = <<<<>>>> /\ Len(WordsNow) = 1 /\ Cur = <<>>
  <2>1. WordsNow = WordsTo(0)
    BY DEF WordsNow
  <2>2. WordsNow = <<<<>>>>
    BY <1>1, <2>1, WordsToIs
  <2> QED
    BY <2>2 DEF Cur
<1>3. ~StarsTogether(<<>>)
  <2>1. Len(<<>>) = 0
    OBVIOUS
  <2> QED
    BY <2>1 DEF StarsTogether
<1>4. NoneRefused
  BY <1>2, <1>3 DEF NoneRefused
<1>5. LiteralsOf(<<>>) = <<>>
  <2>1. <<>> \in Seq(Characters) /\ Dot \in Characters
    BY Kinds
  <2> QED
    BY <2>1, LiteralsOfAppend
<1>6. InHand
  BY <1>2, <1>5, ShortStars DEF InHand
<1>7. ~HasStar(<<Sep>>)
  BY PiecesNoStar, StarOne
<1>8. RawStars
  BY <1>7 DEF RawStars, HasStar
<1> QED
  BY <1>4, <1>6, <1>8 DEF ReadInv

\* The search begins with nothing read.
LEMMA InitRead == FindInit => ReadInv
BY ReadBegins DEF FindInit, Init, Begun

LEMMA ReadBeginsAgain == Begun' => ReadInv'
BY ReadBegins, PTL

\* No step of the search forgets what was read.
LEMMA NextRead == ASSUME FindTyped, ReadInv, [FindNext]_<<vars, finding>> PROVE ReadInv'
<1>1. CASE CompileStep
  BY <1>1, StepReads DEF CompileStep, FindTyped
<1>2. CASE UNCHANGED vars
  BY <1>2, ReadFrame
<1>3. CASE NextInstance
  <2>1. CASE InstallationPaths[k + 1] = NoPath /\ UNCHANGED vars
    BY <2>1, ReadFrame
  <2>2. CASE ~(InstallationPaths[k + 1] = NoPath /\ UNCHANGED vars)
    <3>1. Begun'
      BY <1>3, <2>2 DEF NextInstance, FindTyped, IInv, TypeOK, Begun
    <3> QED
      BY <3>1, ReadBeginsAgain
  <2> QED
    BY <2>1, <2>2
<1>4. CASE ~CompileStep /\ ~NextInstance
  <2>1. UNCHANGED vars
    BY <1>4 DEF FindNext, Read, PatternRefused, StartWalk, Descend, NextEntry, Ascend, Visit, EndWalk,
       End, Ended, Fail, CreatePath, DeletePath, Change, Protect
  <2> QED
    BY <2>1, ReadFrame, SMTT(30)
<1> QED
  BY <1>1, <1>3, <1>4

-----------------------------------------------------------------------------
(* The root                                                                 *)

\* There is a wildcard in the words so far.
WildNow == \E j \in 1..Len(WordsNow) : Has(WordsNow[j], Wildcards)

\* The root is the installation path or names below it.
Homely == AtHome /\ ~base.bare

\* As long as names are joined to the root there was no wildcard; so a word that
\* leads away from it is one of those that name a drive.
RootInv ==
  /\ pc = "scan" /\ ~foundWildcard => ~WildNow
  /\ Homely \/ NamesADrive(Words(pattern))

\* A wildcard stays, and one that is read is there.
LEMMA WildStays ==
  ASSUME TypeOK, NEW chars, At(chars), it' = it + 1, pattern' = pattern
  PROVE  /\ WildNow => WildNow'
         /\ ch \in Wildcards => WildNow'
<1> DEFINE l == Len(WordsNow)
           m == Len(WordsNow')
<1>1. l \in Nat /\ l >= 1 /\ Cur = WordsNow[l] /\ Cur \in Seq(Characters) /\ WordsNow' \in SomeWords
  BY PatternIs, ReadOn DEF Cur
<1>2. m \in Nat /\ m >= 1 /\ Cur' = WordsNow'[m]
  BY <1>1, SomeWordsAre DEF Cur
<1>3. WildNow' <=> \E j \in 1..m : Has(WordsNow'[j], Wildcards)
  BY DEF WildNow, Has, Wildcards
<1>4. CASE ch \in Separators
  <2>1. m = l + 1 /\ \A j \in 1..l : WordsNow'[j] = WordsNow[j]
    BY <1>4, ReadOn
  <2>2. ch \notin Wildcards
    BY <1>4, Kinds DEF Wildcards
  <2>3. \A j \in 1..l : j \in 1..m
    BY <1>1, <2>1
  <2> QED
    BY <1>3, <2>1, <2>2, <2>3 DEF WildNow
<1>5. CASE ch \notin Separators
  <2>1. m = l /\ Cur' = Append(Cur, ch) /\ ch \in Characters /\ \A j \in 1..(l - 1) : WordsNow'[j] = WordsNow[j]
    BY <1>5, ReadOn
  <2>2. Has(Cur, Wildcards) => Has(Append(Cur, ch), Wildcards)
    <3> DEFINE s == Append(Cur, ch)
    <3>1. \A j \in DOMAIN Cur : j \in DOMAIN s /\ s[j] = Cur[j]
      BY <1>1, <2>1
    <3> HIDE DEF s
    <3> QED
      BY <3>1 DEF Has, s
  <2>3. ch \in Wildcards => Has(Append(Cur, ch), Wildcards)
    <3> DEFINE s == Append(Cur, ch)
    <3>1. Len(Cur) + 1 \in DOMAIN s /\ s[Len(Cur) + 1] = ch
      BY <1>1, <2>1
    <3> HIDE DEF s
    <3> QED
      BY <3>1 DEF Has, s
  <2>4. \A j \in 1..l : (j = l \/ j \in 1..(l - 1)) /\ j \in 1..m
    BY <1>1, <2>1
  <2>5. l \in 1..m
    BY <1>1, <2>1
  <2>6. WildNow => WildNow'
    <3> SUFFICES ASSUME NEW j \in 1..l, Has(WordsNow[j], Wildcards) PROVE WildNow'
      BY DEF WildNow
    <3>1. CASE j = l
      BY <1>1, <1>2, <1>3, <2>1, <2>2, <2>5, <3>1
    <3>2. CASE j \in 1..(l - 1)
      BY <1>3, <2>1, <2>4, <3>2
    <3> QED
      BY <2>4, <3>1, <3>2
  <2>7. ch \in Wildcards => WildNow'
    BY <1>2, <1>3, <2>1, <2>3, <2>5
  <2> QED
    BY <2>6, <2>7
<1> QED
  BY <1>4, <1>5

\* Nor does one come with another character.
LEMMA PlainStays ==
  ASSUME TypeOK, NEW chars, At(chars), it' = it + 1, pattern' = pattern, ch \notin Wildcards, ~WildNow
  PROVE  ~WildNow'
<1> DEFINE l == Len(WordsNow)
           m == Len(WordsNow')
<1>1. l \in Nat /\ l >= 1 /\ Cur = WordsNow[l] /\ Cur \in Seq(Characters) /\ WordsNow' \in SomeWords
  BY PatternIs, ReadOn DEF Cur
<1>2. m \in Nat /\ m >= 1 /\ Cur' = WordsNow'[m]
  BY <1>1, SomeWordsAre DEF Cur
<1>3. WildNow' <=> \E j \in 1..m : Has(WordsNow'[j], Wildcards)
  BY DEF WildNow, Has, Wildcards
<1>4. \A j \in 1..l : ~Has(WordsNow[j], Wildcards)
  BY DEF WildNow
<1>5. CASE ch \in Separators
  <2>1. m = l + 1 /\ Cur' = <<>> /\ \A j \in 1..l : WordsNow'[j] = WordsNow[j]
    BY <1>5, ReadOn
  <2>2. \A j \in 1..m : j = m \/ j \in 1..l
    BY <1>1, <2>1
  <2>3. ~Has(<<>>, Wildcards)
    BY DEF Has
  <2> QED
    BY <1>2, <1>3, <1>4, <2>1, <2>2, <2>3
<1>6. CASE ch \notin Separators
  <2>1. m = l /\ Cur' = Append(Cur, ch) /\ ch \in Characters /\ \A j \in 1..(l - 1) : WordsNow'[j] = WordsNow[j]
    BY <1>6, ReadOn
  <2>2. \A j \in 1..m : j = m \/ (j \in 1..(l - 1) /\ j \in 1..l)
    BY <1>1, <2>1
  <2>3. ~Has(Cur, Wildcards)
    BY <1>1, <1>4
  <2>4. ~Has(Append(Cur, ch), Wildcards)
    <3> DEFINE s == Append(Cur, ch)
    <3>1. \A j \in DOMAIN s : (j \in DOMAIN Cur /\ s[j] = Cur[j]) \/ s[j] = ch
      BY <1>1, <2>1
    <3> HIDE DEF s
    <3> QED
      BY <2>3, <3>1 DEF Has, s
  <2> QED
    BY <1>2, <1>3, <1>4, <2>1, <2>2, <2>4
<1> QED
  BY <1>5, <1>6

\* A word without wildcards is a name, as it stands.
LEMMA PlainWord ==
  ASSUME Told, ~WildNow
  PROVE  Cur = valueRaw /\ Cur \in Seq(Literals)
<1>1. Cur \in Seq(Literals \cup Wildcards) /\ valueRaw = LiteralsOf(Cur) /\ TypeOK
  BY ToldIs DEF InHand
<1>2. ~Has(Cur, Wildcards)
  BY <1>1, PatternIs DEF WildNow, Cur
<1>3. \A j \in 1..Len(Cur) : Cur[j] \in Literals
  BY <1>1, <1>2 DEF Has
<1>4. Cur \in Seq(Literals)
  BY <1>1, <1>3
<1> QED
  BY <1>1, <1>4, LiteralsStay

\* A name is put below the root, unless it names a drive.
LEMMA JoinsName ==
  ASSUME Told, RootInv, EndSegment, ~foundWildcard
  PROVE  \/ root' = Append(root, valueRaw) /\ base' = [base EXCEPT !.bare = FALSE]
         \/ NamesADrive(Words(pattern))
<1>1. /\ At(Separators) /\ pc = "scan" /\ value # <<>> /\ valueRaw # <<Dot>> /\ valueRaw # <<Dot, Dot>>
      /\ Join(valueRaw)
  BY DEF EndSegment, AfterSegment, At, IsParent
<1>2. TypeOK /\ ~WildNow /\ ch \in Separators /\ Cur # <<>>
  BY <1>1, ToldIs DEF RootInv, At, InHand
<1>3. Cur = valueRaw /\ valueRaw \in Seq(Literals) /\ valueRaw # <<>>
  BY <1>2, PlainWord
<1>4. CASE ~NamesDrive(valueRaw)
  <2>1. valueRaw \notin {<<>>, <<Dot>>, <<Dot, Dot>>}
    BY <1>1, <1>3
  <2> QED
    BY <1>1, <1>2, <1>3, <1>4, <2>1, JoinType
<1>5. CASE NamesDrive(valueRaw)
  <2> DEFINE all == Words(pattern)
             l == Len(WordsNow)
  <2>1. l \in 1..(Len(all) - 1) /\ all[l] = Cur
    BY <1>1, <1>2, WordNow
  <2>2. \A j \in 1..(l - 1) : all[j] = WordsNow[j]
    BY <1>2, WordsLater
  <2>3. l \in Nat /\ l >= 1 /\ \A j \in 1..l : ~Has(WordsNow[j], Wildcards)
    BY <1>2, PatternIs DEF WildNow
  <2>4. Cur = WordsNow[l]
    BY DEF Cur
  <2> HIDE DEF all, l
  <2>5. \A i \in 1..l : i = l \/ (i \in 1..(l - 1) /\ i \in 1..l)
    BY <2>3
  <2>6. \A i \in 1..l : ~Has(all[i], Wildcards)
    BY <2>1, <2>2, <2>3, <2>4, <2>5
  <2> QED
    BY <1>3, <1>5, <2>1, <2>6 DEF NamesADrive, all
<1> QED
  BY <1>4, <1>5

\* A step of the constructor keeps the root where it may be.
LEMMA StepRoot == ASSUME IInv, ReadInv, RootInv, Step PROVE RootInv'
<1> USE DEF scan
<1>1. pattern' = pattern /\ pc = "scan"
  <2>1. pattern' = pattern
    BY DEF Step, RepeatedSeparator, NoSegment, EndGlobstar, CurrentDirectory, ParentDirectory,
       EndSegment, FirstStar, SecondStar, LaterStar, AnyCharacter, AfterGlobstar, InvalidCharacter,
       Literal, Compile, Throw, Advance, Continue
  <2>2. pc = "scan"
    BY DEF Step, RepeatedSeparator, NoSegment, EndGlobstar, CurrentDirectory, ParentDirectory,
       EndSegment, FirstStar, SecondStar, LaterStar, AnyCharacter, AfterGlobstar, InvalidCharacter,
       Literal, Compile, AfterSegment, At
  <2> QED
    BY <2>1, <2>2
<1>2. Told /\ TypeOK
  BY <1>1 DEF Told, ReadInv, IInv
<1>3. NamesADrive(Words(pattern))' <=> NamesADrive(Words(pattern))
  BY <1>1
<1>4. ASSUME base' = base PROVE Homely' \/ NamesADrive(Words(pattern))'
  BY <1>3, <1>4 DEF RootInv, Homely, AtHome
<1>5. ASSUME base' = base, pc' # "scan" \/ foundWildcard' PROVE RootInv'
  BY <1>4, <1>5 DEF RootInv
<1>6. ASSUME NEW chars, At(chars), it' = it + 1, chars \cap Wildcards = {}, foundWildcard' = foundWildcard,
             Homely' \/ NamesADrive(Words(pattern))'
      PROVE  RootInv'
  <2>1. ch \notin Wildcards
    BY <1>6 DEF At
  <2>2. ~foundWildcard => ~WildNow'
    BY <1>1, <1>2, <1>6, <2>1, PlainStays DEF RootInv
  <2> QED
    BY <1>6, <2>2 DEF RootInv
<1>7. Separators \cap Wildcards = {} /\ Literals \cap Wildcards = {}
  BY Kinds DEF Wildcards
<1>8. CASE RepeatedSeparator \/ NoSegment \/ EndGlobstar \/ CurrentDirectory
  <2>1. At(Separators) /\ it' = it + 1 /\ foundWildcard' = foundWildcard /\ base' = base
    BY <1>8 DEF RepeatedSeparator, NoSegment, EndGlobstar, CurrentDirectory, AfterSegment, Advance, Continue
  <2> QED
    BY <1>4, <1>6, <1>7, <2>1
<1>9. CASE Literal
  <2>1. At(Literals) /\ it' = it + 1 /\ foundWildcard' = foundWildcard /\ base' = base
    BY <1>9 DEF Literal, Advance
  <2> QED
    BY <1>4, <1>6, <1>7, <2>1
<1>10. CASE EndSegment
  <2>1. At(Separators) /\ it' = it + 1 /\ foundWildcard' = foundWildcard
    BY <1>10 DEF EndSegment, AfterSegment, Advance
  <2>2. Homely' \/ NamesADrive(Words(pattern))'
    <3>1. CASE foundWildcard
      <4>1. base' = base
        BY <1>10, <3>1 DEF EndSegment
      <4> QED
        BY <1>4, <4>1
    <3>2. CASE ~foundWildcard /\ base' = [base EXCEPT !.bare = FALSE]
      <4>1. base \in Bases
        BY <1>2 DEF TypeOK
      <4>2. base'.home = base.home /\ base'.above = base.above /\ base'.bare = FALSE
        BY <3>2, <4>1 DEF Bases
      <4> QED
        BY <1>3, <4>2 DEF RootInv, Homely, AtHome
    <3> QED
      BY <1>2, <1>3, <1>10, <3>1, <3>2, JoinsName
  <2> QED
    BY <1>6, <1>7, <2>1, <2>2
<1>11. CASE FirstStar \/ SecondStar \/ AnyCharacter \/ LaterStar
  <2>1. base' = base /\ (pc' # "scan" \/ foundWildcard')
    BY <1>11 DEF FirstStar, SecondStar, AnyCharacter, LaterStar, Throw
  <2> QED
    BY <1>5, <2>1
<1>12. CASE ParentDirectory \/ AfterGlobstar \/ InvalidCharacter \/ Compile
  <2>1. base' = base /\ pc' # "scan"
    BY <1>12 DEF ParentDirectory, AfterGlobstar, InvalidCharacter, Throw, Compile
  <2> QED
    BY <1>5, <2>1
<1> QED
  BY <1>8, <1>9, <1>10, <1>11, <1>12 DEF Step

\* Only the constructor moves the root.
LEMMA RootFrame == ASSUME RootInv, UNCHANGED vars PROVE RootInv'
<1>1. UNCHANGED <<pattern, pc, it, base, foundWildcard>>
  BY DEF vars, scan
<1>2. WordsNow' = WordsNow
  BY <1>1 DEF WordsNow, WordsTo
<1>3. WildNow' <=> WildNow
  BY <1>2 DEF WildNow, Has, Wildcards
<1>4. NamesADrive(Words(pattern))' <=> NamesADrive(Words(pattern))
  BY <1>1
<1> QED
  BY <1>1, <1>3, <1>4 DEF RootInv, Homely, AtHome

\* It begins at the installation path.
BegunHome == Begun /\ base \in {Home(drive) : drive \in RootNames}

LEMMA RootBegins == BegunHome => RootInv
<1> SUFFICES ASSUME BegunHome PROVE RootInv
  OBVIOUS
<1>1. pattern \in Seq(Characters)
  BY PatternsAssumption DEF BegunHome, Begun
<1>2. WordsNow = <<<<>>>>
  BY <1>1, WordsToIs DEF WordsNow, BegunHome, Begun
<1>3. ~Has(<<>>, Wildcards)
  BY DEF Has
<1>4. ~WildNow
  <2>1. Len(<<<<>>>>) = 1 /\ \A j \in 1..1 : <<<<>>>>[j] = <<>>
    OBVIOUS
  <2> QED
    BY <1>2, <1>3, <2>1 DEF WildNow
<1>5. Homely
  BY DEF BegunHome, Home, Homely, AtHome
<1> QED
  BY <1>4, <1>5 DEF RootInv

LEMMA InitRoot == FindInit => RootInv
BY RootBegins DEF FindInit, Init, Begun, BegunHome

LEMMA RootBeginsAgain == BegunHome' => RootInv'
BY RootBegins, PTL

\* No step of the search moves the root elsewhere.
LEMMA NextRoot == ASSUME FindTyped, ReadInv, RootInv, [FindNext]_<<vars, finding>> PROVE RootInv'
<1>1. CASE CompileStep
  BY <1>1, StepRoot DEF CompileStep, FindTyped
<1>2. CASE UNCHANGED vars
  BY <1>2, RootFrame
<1>3. CASE NextInstance
  <2>1. CASE InstallationPaths[k + 1] = NoPath /\ UNCHANGED vars
    BY <2>1, RootFrame
  <2>2. CASE ~(InstallationPaths[k + 1] = NoPath /\ UNCHANGED vars)
    <3>1. BegunHome'
      BY <1>3, <2>2 DEF NextInstance, FindTyped, IInv, TypeOK, Begun, BegunHome, Home
    <3> QED
      BY <3>1, RootBeginsAgain
  <2> QED
    BY <2>1, <2>2
<1>4. CASE ~CompileStep /\ ~NextInstance
  <2>1. UNCHANGED vars
    BY <1>4 DEF FindNext, Read, PatternRefused, StartWalk, Descend, NextEntry, Ascend, Visit, EndWalk,
       End, Ended, Fail, CreatePath, DeletePath, Change, Protect
  <2> QED
    BY <2>1, RootFrame, SMTT(30)
<1> QED
  BY <1>1, <1>3, <1>4

-----------------------------------------------------------------------------
(* Where a reader may stand                                                 *)

\* The steps of a reader, as functions from places to sets of places.
Onward(m) == [0..m -> SUBSET (0..m)]
OneStep(m, s) == [after \in SUBSET (0..m) |-> UNION {s[j] : j \in after}]
AllSteps(m, steps) == [n \in 1..Len(steps) |-> OneStep(m, steps[n])]

\* A step leads from places to places.
LEMMA OneStepType ==
  ASSUME NEW m \in Nat, NEW s \in Onward(m)
  PROVE  OneStep(m, s) \in [SUBSET (0..m) -> SUBSET (0..m)]
BY DEF Onward, OneStep

\* So does each of several.
LEMMA AllStepsType ==
  ASSUME NEW m \in Nat, NEW steps \in Seq(Onward(m))
  PROVE  AllSteps(m, steps) \in [1..Len(steps) -> [SUBSET (0..m) -> SUBSET (0..m)]]
<1>1. \A n \in 1..Len(steps) : steps[n] \in Onward(m)
  OBVIOUS
<1>2. \A n \in 1..Len(steps) : OneStep(m, steps[n]) \in [SUBSET (0..m) -> SUBSET (0..m)]
  BY <1>1, OneStepType
<1> QED
  BY <1>2 DEF AllSteps

\* Where a reader may stand is what the steps lead to.
LEMMA ReachIs ==
  ASSUME NEW m \in Nat, NEW steps \in Seq(Onward(m))
  PROVE  \E f \in [0..Len(steps) -> SUBSET (0..m)] :
           /\ Forward(f, {0}, AllSteps(m, steps), Len(steps))
           /\ Reach(steps) = f[Len(steps)]
<1> DEFINE b == Len(steps)
           X == SUBSET (0..m)
           G == AllSteps(m, steps)
           U(n, after) == UNION {steps[n][j] : j \in after}
           Is(f) == f = [n \in 0..Len(steps) |-> IF n = 0 THEN {0} ELSE U(n, f[n - 1])]
<1>1. b \in Nat /\ {0} \in X /\ G \in [1..b -> [X -> X]]
  <2>1. b \in Nat /\ {0} \in X
    OBVIOUS
  <2>2. G \in [1..b -> [X -> X]]
    BY AllStepsType
  <2> QED
    BY <2>1, <2>2
<1>2. PICK f \in [0..b -> X] : Forward(f, {0}, G, b)
  <2> HIDE DEF b, X, G
  <2> QED
    BY <1>1, ForwardExists
<1>3. ASSUME NEW n \in 1..b, NEW after \in X PROVE G[n][after] = U(n, after)
  BY DEF AllSteps, OneStep
<1>4. Is(f)
  <2>1. \A n \in 1..b : f[n - 1] \in X
    BY <1>1, <1>2, SMTT(30)
  <2>2. \A n \in 1..b : f[n] = U(n, f[n - 1])
    <3> HIDE DEF G, X, U
    <3> QED
      BY <1>2, <1>3, <2>1 DEF Forward
  <2>3. f[0] = {0}
    BY <1>2 DEF Forward
  <2> HIDE DEF X, G, U
  <2> QED
    BY <1>1, <1>2, <2>2, <2>3
<1>5. Is(CHOOSE g : Is(g))
  <2> HIDE DEF Is, U
  <2> QED
    BY <1>4
<1>6. Reach(steps) = (CHOOSE g : Is(g))[b]
  BY DEF Reach
<1>7. PICK g : Is(g) /\ Reach(steps) = g[b]
  <2> HIDE DEF Is, U
  <2> QED
    BY <1>5, <1>6
<1>8. g[0] = {0} /\ \A n \in 1..b : g[n] = U(n, g[n - 1])
  <2>1. b \in Nat /\ 0 \in 0..b /\ \A n \in 1..b : n \in 0..b /\ n # 0
    OBVIOUS
  <2>2. ASSUME NEW n \in 0..b PROVE g[n] = IF n = 0 THEN {0} ELSE U(n, g[n - 1])
    <3> HIDE DEF U
    <3> QED
      BY <1>7, <2>2
  <2> HIDE DEF U, b
  <2> QED
    BY <2>1, <2>2
<1>9. g \in [0..b -> X]
  <2> DEFINE T == {n \in Nat : n <= b => g[n] \in X}
  <2>1. 0 \in T
    BY <1>8, <1>1
  <2>2. ASSUME NEW n \in Nat, n \in T PROVE n + 1 \in T
    <3> SUFFICES ASSUME n + 1 <= b PROVE g[n + 1] \in X
      OBVIOUS
    <3>1. n + 1 \in 1..b /\ g[n] \in X /\ (n + 1) - 1 = n
      BY <1>1, <2>2
    <3>2. g[n + 1] = G[n + 1][g[n]]
      <4> HIDE DEF G, X, U
      <4> QED
        BY <1>3, <1>8, <3>1
    <3>3. G[n + 1] \in [X -> X]
      <4> HIDE DEF G, X, U
      <4> QED
        BY <1>1, <3>1
    <3> HIDE DEF X, G
    <3> QED
      BY <3>1, <3>2, <3>3
  <2>3. \A n \in 0..b : n \in T
    <3> HIDE DEF T
    <3>1. Nat \subseteq T
      BY <2>1, <2>2, Lemmas!SetInduction
    <3> QED
      BY <3>1
  <2>4. g = [n \in 0..b |-> g[n]]
    BY <1>7
  <2> HIDE DEF X
  <2> QED
    BY <2>3, <2>4
<1>10. Forward(g, {0}, G, b)
  <2>1. \A n \in 1..b : g[n - 1] \in X
    <3>1. \A n \in 1..b : n - 1 \in 0..b
      BY <1>1
    <3> HIDE DEF X, b
    <3> QED
      BY <1>9, <3>1
  <2> HIDE DEF G, X, U
  <2> QED
    BY <1>3, <1>8, <2>1 DEF Forward
<1> QED
  BY <1>7, <1>9, <1>10

\* Who takes no step stands where he began.
LEMMA ReachEmpty == Reach(<<>>) = {0}
<1>1. PICK f \in [0..Len(<<>>) -> SUBSET (0..0)] :
        Forward(f, {0}, AllSteps(0, <<>>), Len(<<>>)) /\ Reach(<<>>) = f[Len(<<>>)]
  <2>1. <<>> \in Seq(Onward(0))
    OBVIOUS
  <2> QED
    BY <2>1, ReachIs
<1>2. Len(<<>>) = 0
  OBVIOUS
<1> QED
  BY <1>1, <1>2 DEF Forward

\* One more step.
LEMMA ReachAppend ==
  ASSUME NEW m \in Nat, NEW steps \in Seq(Onward(m)), NEW s \in Onward(m)
  PROVE  /\ Reach(steps) \subseteq 0..m
         /\ Reach(Append(steps, s)) = UNION {s[j] : j \in Reach(steps)}
<1> DEFINE longer == Append(steps, s)
           b == Len(steps)
<1>1. /\ longer \in Seq(Onward(m)) /\ b \in Nat /\ Len(longer) = b + 1 /\ longer[b + 1] = s
      /\ \A n \in 1..b : longer[n] = steps[n]
  OBVIOUS
<1> HIDE DEF longer
<1>2. PICK f \in [0..b -> SUBSET (0..m)] :
        Forward(f, {0}, AllSteps(m, steps), b) /\ Reach(steps) = f[b]
  BY ReachIs
<1>3. PICK g \in [0..(b + 1) -> SUBSET (0..m)] :
        Forward(g, {0}, AllSteps(m, longer), b + 1) /\ Reach(longer) = g[b + 1]
  <2>1. \E g \in [0..Len(longer) -> SUBSET (0..m)] :
          Forward(g, {0}, AllSteps(m, longer), Len(longer)) /\ Reach(longer) = g[Len(longer)]
    BY <1>1, ReachIs
  <2> QED
    BY <1>1, <2>1
<1>4. \A n \in 1..b : AllSteps(m, steps)[n] = AllSteps(m, longer)[n]
  BY <1>1 DEF AllSteps
<1> HIDE DEF b
<1>5. f[b] = g[b]
  <2>1. b <= b + 1 /\ b + 1 \in Nat
    BY <1>1
  <2> QED
    BY <1>1, <1>2, <1>3, <1>4, <2>1, ForwardSame
<1>6. g[b + 1] = AllSteps(m, longer)[b + 1][g[b]]
  <2>1. b + 1 \in 1..(b + 1) /\ (b + 1) - 1 = b
    BY <1>1
  <2> QED
    BY <1>3, <2>1 DEF Forward
<1>7. g[b] \in SUBSET (0..m)
  BY <1>1, <1>3
<1>8. AllSteps(m, longer)[b + 1][g[b]] = UNION {s[j] : j \in g[b]}
  BY <1>1, <1>7 DEF AllSteps, OneStep
<1> QED
  BY <1>2, <1>3, <1>5, <1>6, <1>7, <1>8 DEF longer

-----------------------------------------------------------------------------
(* Readers of texts, of names and of paths                                  *)

\* What a piece does to a reader of a text, and where the pieces lead.
PieceStep(p, text) == [j \in 0..Len(text) |-> Taken(p, text, j)]
ReadersOf(re, text) == Reach([n \in DOMAIN re |-> PieceStep(re[n], text)])

\* What a character of a segment does to a reader of a name, and where they lead.
NameStep(c, name) ==
  [j \in 0..Len(name) |->
     IF c = Star THEN j..Len(name)
     ELSE {i \in {j + 1} : i <= Len(name) /\ c \in {Question, name[i]}}]
ReadersIn(word, name) == Reach([n \in DOMAIN word |-> NameStep(word[n], name)])

\* What a segment does to a reader of a path that others follow, and where they lead.
WordStep(word, names) ==
  [j \in 0..Len(names) |->
     IF word = Globstar THEN j..Len(names)
     ELSE {i \in {j + 1} : i <= Len(names) /\ NameMatches(word, names[i])}]
ReadersAlong(words, names) == Reach([n \in DOMAIN words |-> WordStep(words[n], names)])

\* The last segment: a globstar stands for a directory at least.
LastStep(word, names) ==
  [j \in 0..Len(names) |->
     IF word = Globstar THEN {i \in j..Len(names) : j < i}
     ELSE {i \in {j + 1} : i <= Len(names) /\ NameMatches(word, names[i])}]

\* No reader leaves the text.
LEMMA PieceStepType ==
  ASSUME NEW p, NEW T, NEW text \in Seq(T)
  PROVE  PieceStep(p, text) \in Onward(Len(text))
<1>1. Len(text) \in Nat
  OBVIOUS
<1>2. ASSUME NEW j \in 0..Len(text) PROVE Taken(p, text, j) \in SUBSET (0..Len(text))
  BY <1>1 DEF Taken
<1> QED
  BY <1>2 DEF PieceStep, Onward

\* No reader leaves the name.
LEMMA NameStepType ==
  ASSUME NEW c, NEW T, NEW name \in Seq(T)
  PROVE  NameStep(c, name) \in Onward(Len(name))
<1>1. Len(name) \in Nat
  OBVIOUS
<1> QED
  BY <1>1 DEF NameStep, Onward

\* No reader leaves the path.
LEMMA WordStepType ==
  ASSUME NEW word, NEW T, NEW names \in Seq(T)
  PROVE  WordStep(word, names) \in Onward(Len(names)) /\ LastStep(word, names) \in Onward(Len(names))
<1>1. Len(names) \in Nat
  OBVIOUS
<1> QED
  BY <1>1 DEF WordStep, LastStep, Onward

\* A function on the first numbers is a sequence.
LEMMA FunctionIsSeq ==
  ASSUME NEW X, NEW n \in Nat, NEW f \in [1..n -> X]
  PROVE  f \in Seq(X) /\ Len(f) = n
OBVIOUS

\* Where elements of a sequence lead, each by a step of its own.
Led(F, w) == Reach([n \in DOMAIN w |-> F[w[n]]])

\* Readers with one more step.
LEMMA ReadersStep ==
  ASSUME NEW m \in Nat, NEW T, NEW w \in Seq(T), NEW v \in T, NEW F \in [T -> Onward(m)]
  PROVE  Led(F, w) \subseteq 0..m /\ Led(F, Append(w, v)) = UNION {F[v][j] : j \in Led(F, w)}
<1> DEFINE s == [n \in DOMAIN w |-> F[w[n]]]
           l == [n \in DOMAIN Append(w, v) |-> F[Append(w, v)[n]]]
<1>1. Len(w) \in Nat /\ DOMAIN w = 1..Len(w) /\ \A n \in 1..Len(w) : w[n] \in T
  OBVIOUS
<1>2. s \in Seq(Onward(m)) /\ Len(s) = Len(w)
  <2>1. s \in [1..Len(w) -> Onward(m)]
    BY <1>1
  <2> HIDE DEF s
  <2> QED
    BY <1>1, <2>1
<1>3. l = Append(s, F[v])
  <2>1. DOMAIN Append(w, v) = 1..(Len(w) + 1) /\ Append(w, v)[Len(w) + 1] = v
        /\ \A n \in 1..Len(w) : Append(w, v)[n] = w[n]
    BY <1>1
  <2>2. l \in [1..(Len(w) + 1) -> Onward(m)]
    <3>1. \A n \in 1..(Len(w) + 1) : n = Len(w) + 1 \/ n \in 1..Len(w)
      BY <1>1
    <3>2. \A n \in 1..(Len(w) + 1) : Append(w, v)[n] \in T
      BY <1>1, <2>1, <3>1
    <3> QED
      BY <2>1, <3>2
  <2>3. F[v] \in Onward(m)
    OBVIOUS
  <2>4. Append(s, F[v]) \in Seq(Onward(m)) /\ Len(Append(s, F[v])) = Len(w) + 1
        /\ Append(s, F[v])[Len(w) + 1] = F[v] /\ \A n \in 1..Len(w) : Append(s, F[v])[n] = s[n]
    <3> HIDE DEF s
    <3> QED
      BY <1>2, <2>3
  <2>5. \A n \in 1..(Len(w) + 1) : l[n] = Append(s, F[v])[n]
    <3>1. l[Len(w) + 1] = F[v] /\ \A n \in 1..Len(w) : l[n] = F[w[n]] /\ s[n] = F[w[n]]
      BY <1>1, <2>1
    <3>2. \A n \in 1..(Len(w) + 1) : n = Len(w) + 1 \/ n \in 1..Len(w)
      BY <1>1
    <3> HIDE DEF s, l
    <3> QED
      BY <2>4, <3>1, <3>2
  <2>6. l \in Seq(Onward(m)) /\ Len(l) = Len(w) + 1
    <3> HIDE DEF l
    <3> QED
      BY <1>1, <2>2
  <2> HIDE DEF s, l
  <2> QED
    BY <2>4, <2>5, <2>6
<1> HIDE DEF s, l
<1>4. F[v] \in Onward(m)
  OBVIOUS
<1>5. Reach(s) \subseteq 0..m /\ Reach(Append(s, F[v])) = UNION {F[v][j] : j \in Reach(s)}
  BY <1>2, <1>4, ReachAppend
<1> QED
  BY <1>3, <1>5 DEF s, l, Led

\* Readers of a text, piece by piece.
LEMMA ReadersOfIs ==
  ASSUME NEW T, NEW text \in Seq(T), NEW re \in Seq(Pieces), NEW p \in Pieces
  PROVE  /\ ReadersOf(<<>>, text) = {0}
         /\ ReadersOf(re, text) \subseteq 0..Len(text)
         /\ ReadersOf(Append(re, p), text) = UNION {Taken(p, text, j) : j \in ReadersOf(re, text)}
<1> DEFINE F == [x \in Pieces |-> PieceStep(x, text)]
<1>1. F \in [Pieces -> Onward(Len(text))] /\ Len(text) \in Nat
  BY PieceStepType
<1>2. (\A n \in DOMAIN re : re[n] \in Pieces) /\ (\A n \in DOMAIN Append(re, p) : Append(re, p)[n] \in Pieces)
  OBVIOUS
<1>3. /\ ReadersOf(re, text) = Led(F, re)
      /\ ReadersOf(Append(re, p), text) = Led(F, Append(re, p))
      /\ ReadersOf(<<>>, text) = {0}
  <2>1. [n \in DOMAIN re |-> F[re[n]]] = [n \in DOMAIN re |-> PieceStep(re[n], text)]
    BY <1>2
  <2>2. [n \in DOMAIN Append(re, p) |-> F[Append(re, p)[n]]] =
          [n \in DOMAIN Append(re, p) |-> PieceStep(Append(re, p)[n], text)]
    BY <1>2
  <2>3. [n \in DOMAIN <<>> |-> PieceStep(<<>>[n], text)] = <<>>
    OBVIOUS
  <2> HIDE DEF F
  <2> QED
    BY <2>1, <2>2, <2>3, ReachEmpty DEF ReadersOf, Led
<1>4. F[p] = PieceStep(p, text)
  OBVIOUS
<1> HIDE DEF F
<1>5. /\ ReadersOf(re, text) \subseteq 0..Len(text)
      /\ ReadersOf(Append(re, p), text) = UNION {PieceStep(p, text)[j] : j \in ReadersOf(re, text)}
  BY <1>1, <1>3, <1>4, ReadersStep
<1> QED
  BY <1>3, <1>5 DEF PieceStep

\* Readers of a name, character by character.
LEMMA ReadersInIs ==
  ASSUME NEW T, NEW name \in Seq(T), NEW w \in Seq(Characters), NEW c \in Characters
  PROVE  /\ ReadersIn(<<>>, name) = {0}
         /\ ReadersIn(w, name) \subseteq 0..Len(name)
         /\ ReadersIn(Append(w, c), name) = UNION {NameStep(c, name)[j] : j \in ReadersIn(w, name)}
<1> DEFINE F == [x \in Characters |-> NameStep(x, name)]
<1>1. F \in [Characters -> Onward(Len(name))] /\ Len(name) \in Nat
  BY NameStepType
<1>2. (\A n \in DOMAIN w : w[n] \in Characters) /\ (\A n \in DOMAIN Append(w, c) : Append(w, c)[n] \in Characters)
  OBVIOUS
<1>3. /\ ReadersIn(w, name) = Led(F, w)
      /\ ReadersIn(Append(w, c), name) = Led(F, Append(w, c))
      /\ ReadersIn(<<>>, name) = {0}
  <2>1. [n \in DOMAIN w |-> F[w[n]]] = [n \in DOMAIN w |-> NameStep(w[n], name)]
    BY <1>2
  <2>2. [n \in DOMAIN Append(w, c) |-> F[Append(w, c)[n]]] =
          [n \in DOMAIN Append(w, c) |-> NameStep(Append(w, c)[n], name)]
    BY <1>2
  <2>3. [n \in DOMAIN <<>> |-> NameStep(<<>>[n], name)] = <<>>
    OBVIOUS
  <2> HIDE DEF F
  <2> QED
    BY <2>1, <2>2, <2>3, ReachEmpty DEF ReadersIn, Led
<1>4. F[c] = NameStep(c, name)
  OBVIOUS
<1> HIDE DEF F
<1> QED
  BY <1>1, <1>3, <1>4, ReadersStep

\* A name is matched by who is led to its end.
LEMMA NameMatchesIs ==
  ASSUME NEW w, NEW name
  PROVE  NameMatches(w, name) <=> Len(name) \in ReadersIn(w, name)
BY DEF NameMatches, ReadersIn, NameStep

\* Readers of a path, segment by segment; the last one is special.
LEMMA ReadersAlongIs ==
  ASSUME NEW T, NEW names \in Seq(T), NEW ws \in Seq(Seq(Characters)), NEW w \in Seq(Characters)
  PROVE  /\ ReadersAlong(<<>>, names) = {0}
         /\ ReadersAlong(ws, names) \subseteq 0..Len(names)
         /\ ReadersAlong(Append(ws, w), names) =
              UNION {WordStep(w, names)[j] : j \in ReadersAlong(ws, names)}
         /\ Denotes(Append(ws, w), names) <=>
              Len(names) \in UNION {LastStep(w, names)[j] : j \in ReadersAlong(ws, names)}
<1> DEFINE Words_1 == Seq(Characters)
           m == Len(names)
           F == [x \in Words_1 |-> WordStep(x, names)]
<1>0. ws \in Seq(Words_1) /\ w \in Words_1
  OBVIOUS
<1>1. F \in [Words_1 -> Onward(m)] /\ m \in Nat
  BY WordStepType
<1> HIDE DEF Words_1
<1>2. (\A n \in DOMAIN ws : ws[n] \in Words_1) /\ (\A n \in DOMAIN Append(ws, w) : Append(ws, w)[n] \in Words_1)
  BY <1>0
<1>3. /\ ReadersAlong(ws, names) = Led(F, ws)
      /\ ReadersAlong(Append(ws, w), names) = Led(F, Append(ws, w))
      /\ ReadersAlong(<<>>, names) = {0}
  <2>1. [n \in DOMAIN ws |-> F[ws[n]]] = [n \in DOMAIN ws |-> WordStep(ws[n], names)]
    BY <1>2
  <2>2. [n \in DOMAIN Append(ws, w) |-> F[Append(ws, w)[n]]] =
          [n \in DOMAIN Append(ws, w) |-> WordStep(Append(ws, w)[n], names)]
    BY <1>2
  <2>3. [n \in DOMAIN <<>> |-> WordStep(<<>>[n], names)] = <<>>
    OBVIOUS
  <2> HIDE DEF F
  <2> QED
    BY <2>1, <2>2, <2>3, ReachEmpty DEF ReadersAlong, Led
<1>4. F[w] = WordStep(w, names)
  BY <1>0
<1>5. Denotes(Append(ws, w), names) <=>
        Len(names) \in UNION {LastStep(w, names)[j] : j \in ReadersAlong(ws, names)}
  <2> DEFINE s == [n \in DOMAIN ws |-> WordStep(ws[n], names)]
             L(n) == [j \in 0..m |->
                        IF Append(ws, w)[n] = Globstar
                          THEN {i \in j..m : n = Len(Append(ws, w)) => j < i}
                          ELSE {i \in {j + 1} : i <= m /\ NameMatches(Append(ws, w)[n], names[i])}]
             l == [n \in DOMAIN Append(ws, w) |-> L(n)]
  <2>1. Denotes(Append(ws, w), names) <=> m \in Reach(l)
    BY DEF Denotes
  <2>2. /\ Len(ws) \in Nat /\ DOMAIN ws = 1..Len(ws) /\ Len(Append(ws, w)) = Len(ws) + 1
        /\ DOMAIN Append(ws, w) = 1..(Len(ws) + 1)
        /\ Append(ws, w)[Len(ws) + 1] = w /\ \A n \in 1..Len(ws) : Append(ws, w)[n] = ws[n]
    BY <1>0
  <2>3. ASSUME NEW n \in 1..Len(ws) PROVE L(n) = WordStep(ws[n], names)
    <3>1. n # Len(Append(ws, w)) /\ Append(ws, w)[n] = ws[n]
      BY <2>2
    <3> QED
      BY <3>1 DEF WordStep
  <2>4. L(Len(ws) + 1) = LastStep(w, names)
    BY <2>2 DEF LastStep
  <2>5. s \in [1..Len(ws) -> Onward(m)] /\ LastStep(w, names) \in Onward(m)
    BY <2>2, WordStepType
  <2>6. s \in Seq(Onward(m)) /\ Len(s) = Len(ws)
    <3>1. Len(ws) \in Nat /\ s \in [1..Len(ws) -> Onward(m)]
      BY <2>2, <2>5
    <3> HIDE DEF s, m
    <3> QED
      BY <3>1, FunctionIsSeq
  <2>7. l = Append(s, LastStep(w, names))
    <3>1. /\ Append(s, LastStep(w, names)) \in Seq(Onward(m)) /\ Len(Append(s, LastStep(w, names))) = Len(ws) + 1
          /\ Append(s, LastStep(w, names))[Len(ws) + 1] = LastStep(w, names)
          /\ \A n \in 1..Len(ws) : Append(s, LastStep(w, names))[n] = s[n]
      <4> HIDE DEF s
      <4> QED
        BY <2>5, <2>6
    <3>2. \A n \in 1..Len(ws) : l[n] = s[n]
      <4>1. \A n \in 1..Len(ws) : l[n] = L(n)
        BY <2>2
      <4> QED
        BY <2>2, <2>3, <4>1
    <3>3. l[Len(ws) + 1] = LastStep(w, names)
      <4>0. Len(ws) + 1 \in DOMAIN Append(ws, w)
        BY <2>2
      <4>1. l[Len(ws) + 1] = L(Len(ws) + 1)
        BY <4>0
      <4> QED
        BY <2>4, <4>1
    <3>4. \A n \in 1..(Len(ws) + 1) : n = Len(ws) + 1 \/ n \in 1..Len(ws)
      BY <2>2
    <3>5. DOMAIN l = 1..(Len(ws) + 1) /\ l = [n \in 1..(Len(ws) + 1) |-> l[n]]
      BY <2>2
    <3> HIDE DEF s, l, L
    <3>6. \A n \in 1..(Len(ws) + 1) : l[n] = Append(s, LastStep(w, names))[n]
      BY <3>1, <3>2, <3>3, <3>4
    <3>7. l \in Seq(Onward(m)) /\ Len(l) = Len(ws) + 1
      <4>1. \A n \in 1..Len(ws) : s[n] \in Onward(m)
        BY <2>6
      <4>2. \A n \in 1..(Len(ws) + 1) : l[n] \in Onward(m)
        BY <2>5, <3>2, <3>3, <3>4, <4>1
      <4>3. l \in [1..(Len(ws) + 1) -> Onward(m)]
        BY <3>5, <4>2
      <4>4. Len(ws) + 1 \in Nat
        BY <2>2
      <4> HIDE DEF m
      <4> QED
        BY <4>3, <4>4, FunctionIsSeq
    <3> QED
      BY <3>1, <3>6, <3>7
  <2>8. Reach(s) = ReadersAlong(ws, names)
    BY DEF ReadersAlong
  <2> HIDE DEF s, l, L
  <2>9. Reach(Append(s, LastStep(w, names))) = UNION {LastStep(w, names)[j] : j \in Reach(s)}
    BY <1>1, <2>5, <2>6, ReachAppend
  <2> QED
    BY <2>1, <2>7, <2>8, <2>9
<1> HIDE DEF F
<1>6. ReadersAlong(ws, names) \subseteq 0..m
      /\ ReadersAlong(Append(ws, w), names) = UNION {WordStep(w, names)[j] : j \in ReadersAlong(ws, names)}
  <2> DEFINE A == Led(F, ws)
             B == Led(F, Append(ws, w))
  <2> HIDE DEF m
  <2>1. A \subseteq 0..m
    BY <1>0, <1>1, ReadersStep
  <2>2. B = UNION {F[w][j] : j \in A}
    BY <1>0, <1>1, ReadersStep
  <2>3. ReadersAlong(ws, names) = A /\ ReadersAlong(Append(ws, w), names) = B
    BY <1>3
  <2> HIDE DEF A, B
  <2> QED
    BY <1>4, <2>1, <2>2, <2>3
<1> QED
  BY <1>3, <1>5, <1>6

\* Without raw stars no piece is repeated.
LEMMA RegexMatchIs ==
  ASSUME NEW re \in Seq(Pieces), NEW text, ~HasStar(re)
  PROVE  RegexMatch(re, text) <=> Len(text) \in ReadersOf(re, text)
<1>1. \A n \in DOMAIN re : ~Repeated(re, n) /\ re[n] # Star
  BY DEF HasStar, Repeated
<1>2. [n \in DOMAIN re |-> [j \in 0..Len(text) |->
         IF Repeated(re, n) THEN {i \in j..Len(text) : \A m \in (j + 1)..i : Takes(re[n], text[m])}
         ELSE IF re[n] = Star THEN {j} ELSE Taken(re[n], text, j)]]
       = [n \in DOMAIN re |-> PieceStep(re[n], text)]
  BY <1>1 DEF PieceStep
<1> QED
  BY <1>2 DEF RegexMatch, ReadersOf

-----------------------------------------------------------------------------
(* The text of a path                                                       *)

\* Names of files, and what each is in a text.
Names == Seq(Literals)
Part(name) == <<Sep>> \o name
Parts(names) == [j \in DOMAIN names |-> Part(names[j])]

\* A part is a separator and the literals of a name.
LEMMA PartIs ==
  ASSUME NEW name \in Names
  PROVE  /\ Part(name) \in Seq(Pieces) /\ Len(name) \in Nat /\ Len(Part(name)) = Len(name) + 1
         /\ Part(name)[1] = Sep /\ \A m \in 1..Len(name) : Part(name)[1 + m] = name[m]
<1>1. name \in Seq(Pieces) /\ <<Sep>> \in Seq(Pieces)
  <2>1. name \in Seq(Literals) /\ Literals \subseteq Pieces /\ Sep \in Pieces
    BY DEF Names, Pieces
  <2> QED
    BY <2>1
<1>2. Len(<<Sep>>) = 1 /\ <<Sep>>[1] = Sep
  OBVIOUS
<1> DEFINE one == <<Sep>>
<1> HIDE DEF one
<1>3. /\ one \o name \in Seq(Pieces) /\ Len(name) \in Nat /\ Len(one \o name) = 1 + Len(name)
      /\ (one \o name)[1] = Sep /\ \A m \in 1..Len(name) : (one \o name)[1 + m] = name[m]
  BY <1>1, <1>2 DEF one
<1> QED
  BY <1>3 DEF Part, one

\* One more name is one more part.
LEMMA TextAppend ==
  ASSUME NEW names \in Seq(Names), NEW name \in Names
  PROVE  /\ Text(<<>>) = <<>>
         /\ Text(names) \in Seq(Pieces)
         /\ Text(Append(names, name)) = Text(names) \o Part(name)
<1> DEFINE V == Pieces
<1>1. \A ns : Text(ns) = Lemmas!FlattenSeq(Parts(ns))
  BY DEF Text, S!FlattenSeq, Lemmas!FlattenSeq, Parts, Part
<1>2. Parts(<<>>) = <<>>
  BY DEF Parts
<1>3. Len(names) \in Nat /\ DOMAIN names = 1..Len(names) /\ \A j \in 1..Len(names) : names[j] \in Names
  OBVIOUS
<1>4. Parts(names) \in Seq(Seq(V)) /\ Len(Parts(names)) = Len(names)
  <2>1. Parts(names) \in [1..Len(names) -> Seq(V)]
    BY <1>3, PartIs DEF Parts
  <2> HIDE DEF V
  <2> QED
    BY <1>3, <2>1, FunctionIsSeq
<1>5. Part(name) \in Seq(V)
  BY PartIs
<1>6. Parts(Append(names, name)) = Append(Parts(names), Part(name))
  <2> DEFINE longer == Append(names, name)
  <2>1. /\ longer \in Seq(Names) /\ Len(longer) = Len(names) + 1 /\ DOMAIN longer = 1..(Len(names) + 1)
        /\ longer[Len(names) + 1] = name /\ \A j \in 1..Len(names) : longer[j] = names[j]
    BY <1>3
  <2> HIDE DEF longer
  <2>2. \A j \in 1..(Len(names) + 1) : longer[j] \in Names
    BY <2>1
  <2>3. Parts(longer) \in Seq(Seq(V)) /\ Len(Parts(longer)) = Len(names) + 1
    <3>1. Parts(longer) \in [1..(Len(names) + 1) -> Seq(V)]
      BY <2>1, <2>2, PartIs DEF Parts
    <3>2. Len(names) + 1 \in Nat
      BY <1>3
    <3> HIDE DEF V
    <3> QED
      BY <3>1, <3>2, FunctionIsSeq
  <2>4. /\ Parts(longer)[Len(names) + 1] = Part(name)
        /\ \A j \in 1..Len(names) : Parts(longer)[j] = Parts(names)[j]
    BY <1>3, <2>1 DEF Parts
  <2> DEFINE ps == Parts(names)
             ls == Parts(longer)
             n == Len(names)
             W == Seq(V)
             part == Part(name)
  <2>5. ps \in Seq(W) /\ Len(ps) = n /\ ls \in Seq(W) /\ Len(ls) = n + 1 /\ n \in Nat /\ part \in W
        /\ ls[n + 1] = part /\ \A j \in 1..n : ls[j] = ps[j]
    BY <1>3, <1>4, <1>5, <2>3, <2>4
  <2> HIDE DEF ps, ls, n, W, part
  <2>6. ls = Append(ps, part)
    BY <2>5
  <2> QED
    BY <2>6 DEF ps, ls, part, longer
<1> HIDE DEF V
<1>7. Lemmas!FlattenSeq(<<>>) = <<>>
  BY Lemmas!FlattenEmpty
<1>8. /\ Lemmas!FlattenSeq(Parts(names)) \in Seq(V)
      /\ Lemmas!FlattenSeq(Append(Parts(names), Part(name))) = Lemmas!FlattenSeq(Parts(names)) \o Part(name)
  BY <1>4, <1>5, Lemmas!FlattenAppend, Lemmas!FlattenType
<1> QED
  BY <1>1, <1>2, <1>6, <1>7, <1>8 DEF V

\* o says where in a text each of the names from the r-th on begins.
Laid(text, names, r, o) ==
  /\ names \in Seq(Names) /\ Len(names) \in Nat /\ r \in 0..Len(names)
  /\ text \in Seq(Pieces) /\ Len(text) \in Nat
  /\ o \in [r..Len(names) -> 0..Len(text)]
  /\ o[r] = 0 /\ o[Len(names)] = Len(text)
  /\ \A i \in r..(Len(names) - 1) :
       /\ o[i + 1] = o[i] + 1 + Len(names[i + 1])
       /\ text[o[i] + 1] = Sep
       /\ \A m \in 1..Len(names[i + 1]) : text[o[i] + 1 + m] = names[i + 1][m]

\* The elements of two sequences put together.
LEMMA ConcatIs ==
  ASSUME NEW V, NEW s \in Seq(V), NEW t \in Seq(V)
  PROVE  /\ s \o t \in Seq(V) /\ Len(s \o t) = Len(s) + Len(t)
         /\ \A x \in 1..Len(s) : (s \o t)[x] = s[x]
         /\ \A x \in 1..Len(t) : (s \o t)[Len(s) + x] = t[x]
OBVIOUS

\* An empty text is laid for no names.
LEMMA LaidFirst == ASSUME NEW names \in Seq(Names) PROVE \E o : Laid(<<>>, names, Len(names), o)
<1> DEFINE o == [i \in Len(names)..Len(names) |-> 0]
<1>1. Len(names) \in Nat /\ <<>> \in Seq(Pieces) /\ Len(<<>>) = 0
  OBVIOUS
<1>2. Laid(<<>>, names, Len(names), o)
  BY <1>1 DEF Laid
<1> QED
  BY <1>2

\* One more name is laid behind the others.
LEMMA LaidOn ==
  ASSUME NEW text, NEW names, NEW r, NEW o, Laid(text, names, r, o), NEW name \in Names
  PROVE  \E p : Laid(text \o Part(name), Append(names, name), r, p)
<1> DEFINE n == Len(names)
           longer == Append(names, name)
           part == Part(name)
           more == text \o part
           l == Len(text)
           e == Len(name)
           p == [i \in r..(n + 1) |-> IF i = n + 1 THEN l + 1 + e ELSE o[i]]
<1>1. /\ names \in Seq(Names) /\ n \in Nat /\ r \in 0..n
      /\ text \in Seq(Pieces) /\ l \in Nat
      /\ o \in [r..n -> 0..l]
      /\ o[r] = 0 /\ o[n] = l
  BY DEF Laid
<1>2. \A i \in r..(n - 1) :
        /\ o[i + 1] = o[i] + 1 + Len(names[i + 1])
        /\ text[o[i] + 1] = Sep
        /\ \A m \in 1..Len(names[i + 1]) : text[o[i] + 1 + m] = names[i + 1][m]
  BY DEF Laid
<1>3. /\ part \in Seq(Pieces) /\ e \in Nat /\ Len(part) = e + 1
      /\ part[1] = Sep /\ \A m \in 1..e : part[1 + m] = name[m]
  BY PartIs
<1>4. /\ longer \in Seq(Names) /\ Len(longer) = n + 1 /\ longer[n + 1] = name
      /\ \A i \in 1..n : longer[i] = names[i] /\ names[i] \in Names
  BY <1>1
<1>5. /\ more \in Seq(Pieces) /\ Len(more) = l + (e + 1)
      /\ \A x \in 1..l : more[x] = text[x]
      /\ \A x \in 1..(e + 1) : more[l + x] = part[x]
  <2> HIDE DEF part, l, e
  <2>1. text \in Seq(Pieces) /\ Len(text) = l /\ part \in Seq(Pieces) /\ Len(part) = e + 1
    BY <1>1, <1>3 DEF l
  <2>2. /\ text \o part \in Seq(Pieces) /\ Len(text \o part) = Len(text) + Len(part)
        /\ \A x \in 1..Len(text) : (text \o part)[x] = text[x]
        /\ \A x \in 1..Len(part) : (text \o part)[Len(text) + x] = part[x]
    <3>1. text \in Seq(Pieces) /\ part \in Seq(Pieces)
      BY <2>1
    <3> QED
      BY <3>1, ConcatIs
  <2> QED
    BY <2>1, <2>2
<1> HIDE DEF n, longer, part, more, l, e
<1>6. p \in [r..Len(longer) -> 0..Len(more)] /\ p[r] = 0 /\ p[Len(longer)] = Len(more)
  <2>1. l + 1 + e = Len(more) /\ Len(more) \in Nat /\ l <= Len(more)
    BY <1>1, <1>3, <1>5
  <2>2. \A i \in r..(n + 1) : i # n + 1 => i \in r..n
    BY <1>1
  <2>3. \A i \in r..(n + 1) : p[i] \in 0..Len(more)
    BY <1>1, <2>1, <2>2
  <2> QED
    BY <1>1, <1>4, <2>1, <2>3
<1>7. ASSUME NEW i \in r..n
      PROVE  /\ p[i + 1] = p[i] + 1 + Len(longer[i + 1])
             /\ more[p[i] + 1] = Sep
             /\ \A m \in 1..Len(longer[i + 1]) : more[p[i] + 1 + m] = longer[i + 1][m]
  <2>0. i \in Nat /\ i + 1 \in r..(n + 1) /\ i \in r..(n + 1) /\ i # n + 1 /\ p[i] = o[i]
    BY <1>1
  <2>1. CASE i = n
    <3>1. p[i + 1] = l + 1 + e /\ p[i] = l /\ longer[i + 1] = name /\ Len(name) = e
      BY <1>1, <1>4, <2>0, <2>1 DEF e
    <3>2. 1 \in 1..(e + 1) /\ more[l + 1] = part[1]
      BY <1>3, <1>5
    <3>3. \A m \in 1..e : 1 + m \in 1..(e + 1) /\ l + (1 + m) = l + 1 + m
      BY <1>1, <1>3
    <3>4. \A m \in 1..e : more[l + 1 + m] = name[m]
      <4> SUFFICES ASSUME NEW m \in 1..e PROVE more[l + 1 + m] = name[m]
        OBVIOUS
      <4>1. more[l + (1 + m)] = part[1 + m] /\ l + (1 + m) = l + 1 + m
        BY <1>5, <3>3
      <4> QED
        BY <1>3, <4>1
    <3> HIDE DEF p
    <3> QED
      BY <1>3, <3>1, <3>2, <3>4
  <2>2. CASE i # n
    <3>1. i \in r..(n - 1) /\ i + 1 \in 1..n /\ i + 1 # n + 1 /\ i + 1 \in r..n
      BY <1>1, <2>2
    <3>2. p[i + 1] = o[i + 1] /\ p[i] = o[i] /\ longer[i + 1] = names[i + 1] /\ Len(names[i + 1]) \in Nat
      <4>1. names[i + 1] \in Seq(Literals)
        BY <1>4, <3>1 DEF Names
      <4>2. Len(names[i + 1]) \in Nat
        BY <4>1
      <4> QED
        BY <1>4, <2>0, <3>1, <4>2
    <3>3. o[i] \in 0..l /\ o[i + 1] \in 0..l
      BY <1>1, <3>1
    <3> DEFINE c == Len(names[i + 1])
    <3>4. o[i + 1] = o[i] + 1 + c /\ c \in Nat
      BY <1>2, <3>1, <3>2
    <3> HIDE DEF c, p
    <3>5. o[i] + 1 \in 1..l /\ \A m \in 1..c : o[i] + 1 + m \in 1..l
      BY <1>1, <3>3, <3>4, SMTT(30)
    <3>6. more[o[i] + 1] = Sep /\ \A m \in 1..c : more[o[i] + 1 + m] = names[i + 1][m]
      BY <1>2, <1>5, <3>1, <3>5, SMTT(30) DEF c
    <3> QED
      BY <3>2, <3>4, <3>6 DEF c
  <2> QED
    BY <2>1, <2>2
<1> HIDE DEF p
<1>8. Len(longer) \in Nat /\ r \in 0..Len(longer) /\ Len(longer) - 1 = n /\ Len(more) \in Nat
  <2>1. n \in Nat /\ r \in 0..n /\ l \in Nat
    BY <1>1
  <2>2. e \in Nat
    BY <1>3
  <2>3. Len(longer) = n + 1
    BY <1>4
  <2>4. Len(more) = l + (e + 1)
    BY <1>5
  <2> QED
    BY <2>1, <2>2, <2>3, <2>4
<1>9. Laid(more, longer, r, p)
  BY <1>4, <1>5, <1>6, <1>7, <1>8 DEF Laid
<1> QED
  BY <1>9 DEF more, longer, part

\* The text of what is below the first r names is laid.
LEMMA TextIsLaid ==
  ASSUME NEW names \in Seq(Names), NEW r \in 0..Len(names)
  PROVE  \E o : Laid(Text(SubSeq(names, r + 1, Len(names))), names, r, o)
<1> DEFINE U(d) == SubSeq(names, r + 1, r + d)
           T == {d \in Nat : r + d <= Len(names) => \E o : Laid(Text(U(d)), Cut(names, r + d), r, o)}
<1>1. Len(names) \in Nat /\ r \in Nat /\ r <= Len(names)
  OBVIOUS
<1>2. \A d \in Nat : r + d <= Len(names) =>
        Cut(names, r + d) \in Seq(Names) /\ Len(Cut(names, r + d)) = r + d /\ U(d) \in Seq(Names)
  <2> SUFFICES ASSUME NEW d \in Nat, r + d <= Len(names)
               PROVE  Cut(names, r + d) \in Seq(Names) /\ Len(Cut(names, r + d)) = r + d /\ U(d) \in Seq(Names)
    OBVIOUS
  <2>1. r + d \in 0..Len(names)
    BY <1>1
  <2>2. U(d) \in Seq(Names)
    BY <1>1, <2>1
  <2> QED
    BY <2>1, <2>2, CutIs
<1>3. 0 \in T
  <2>1. U(0) = <<>>
    BY <1>1
  <2>2. Text(U(0)) = <<>>
    <3>1. <<>> \in Names
      BY DEF Names
    <3> QED
      BY <2>1, <3>1, TextAppend
  <2>3. \E o : Laid(<<>>, Cut(names, r + 0), r, o)
    <3>1. r + 0 = r /\ 0 \in Nat /\ r + 0 <= Len(names)
      BY <1>1
    <3>2. Cut(names, r) \in Seq(Names) /\ Len(Cut(names, r)) = r
      BY <1>2, <3>1
    <3>3. \E o : Laid(<<>>, Cut(names, r), Len(Cut(names, r)), o)
      BY <3>2, LaidFirst
    <3> QED
      BY <3>1, <3>2, <3>3
  <2> QED
    BY <2>2, <2>3
<1>4. ASSUME NEW d \in Nat, d \in T PROVE d + 1 \in T
  <2> SUFFICES ASSUME r + (d + 1) <= Len(names)
               PROVE  \E o : Laid(Text(U(d + 1)), Cut(names, r + (d + 1)), r, o)
    OBVIOUS
  <2>1. r + d <= Len(names) /\ r + (d + 1) \in 1..Len(names)
    BY <1>1
  <2> DEFINE name == names[r + (d + 1)]
  <2>2. name \in Names
    BY <2>1
  <2>3. U(d + 1) = Append(U(d), name)
    <3>1. /\ U(d + 1) \in Seq(Names) /\ Len(U(d + 1)) = d + 1
          /\ \A i \in 1..(d + 1) : U(d + 1)[i] = names[r + i]
      BY <1>1, <2>1
    <3>2. /\ U(d) \in Seq(Names) /\ Len(U(d)) = d
          /\ \A i \in 1..d : U(d)[i] = names[r + i]
      BY <1>1, <2>1
    <3> HIDE DEF U
    <3>3. /\ Append(U(d), name) \in Seq(Names) /\ Len(Append(U(d), name)) = d + 1
          /\ Append(U(d), name)[d + 1] = name
          /\ \A i \in 1..d : Append(U(d), name)[i] = names[r + i]
      BY <2>2, <3>2
    <3>4. \A i \in 1..(d + 1) : i = d + 1 \/ i \in 1..d
      OBVIOUS
    <3>5. \A i \in 1..(d + 1) : U(d + 1)[i] = Append(U(d), name)[i]
      BY <3>1, <3>3, <3>4
    <3> HIDE DEF name
    <3> QED
      BY <3>1, <3>3, <3>5
  <2>4. Cut(names, r + (d + 1)) = Append(Cut(names, r + d), name)
    <3>1. r + (d + 1) = (r + d) + 1 /\ r + d \in Nat
      BY <1>1
    <3> DEFINE b == r + d
    <3>2. b \in Nat /\ b + 1 \in 1..Len(names)
      BY <2>1, <3>1
    <3> HIDE DEF b
    <3>3. SubSeq(names, 1, b + 1) = Append(SubSeq(names, 1, b), names[b + 1])
      BY <3>2
    <3> QED
      BY <3>1, <3>3 DEF b, Cut
  <2>5. U(d) \in Seq(Names) /\ Text(U(d + 1)) = Text(U(d)) \o Part(name)
    BY <1>2, <2>1, <2>2, <2>3, TextAppend
  <2>6. PICK o : Laid(Text(U(d)), Cut(names, r + d), r, o)
    BY <1>4, <2>1
  <2> HIDE DEF U, name
  <2>7. \E p : Laid(Text(U(d)) \o Part(name), Append(Cut(names, r + d), name), r, p)
    BY <2>2, <2>6, LaidOn
  <2> QED
    BY <2>4, <2>5, <2>7
<1>5. Len(names) - r \in T
  <2>1. Len(names) - r \in Nat
    BY <1>1
  <2> HIDE DEF T
  <2> QED
    BY <1>3, <1>4, <2>1, Lemmas!SetInduction
<1>6. r + (Len(names) - r) = Len(names) /\ Cut(names, Len(names)) = names
  BY <1>1, CutIs
<1> QED
  BY <1>1, <1>5, <1>6

\* What Laid says, with the types of what it speaks of.
LEMMA LaidIs ==
  ASSUME NEW text, NEW names, NEW r, NEW o, Laid(text, names, r, o)
  PROVE  /\ names \in Seq(Names) /\ Len(names) \in Nat /\ r \in Nat /\ r <= Len(names)
         /\ text \in Seq(Pieces) /\ Len(text) \in Nat
         /\ \A i \in r..Len(names) : o[i] \in Nat /\ o[i] <= Len(text)
         /\ o[r] = 0 /\ o[Len(names)] = Len(text)
         /\ \A i \in r..(Len(names) - 1) :
              /\ i \in Nat /\ i \in r..Len(names) /\ i + 1 \in r..Len(names)
              /\ names[i + 1] \in Names /\ Len(names[i + 1]) \in Nat
              /\ o[i + 1] = o[i] + 1 + Len(names[i + 1])
              /\ text[o[i] + 1] = Sep
              /\ \A m \in 1..Len(names[i + 1]) :
                   /\ text[o[i] + 1 + m] = names[i + 1][m]
                   /\ names[i + 1][m] \in Literals /\ names[i + 1][m] # Sep
<1>1. /\ names \in Seq(Names) /\ Len(names) \in Nat /\ r \in Nat /\ r <= Len(names)
      /\ text \in Seq(Pieces) /\ Len(text) \in Nat /\ o \in [r..Len(names) -> 0..Len(text)]
  BY DEF Laid
<1>2. \A i \in r..(Len(names) - 1) :
        i \in Nat /\ i \in r..Len(names) /\ i + 1 \in r..Len(names) /\ i + 1 \in 1..Len(names)
  BY <1>1
<1>3. \A i \in 1..Len(names) : names[i] \in Names
  BY <1>1
<1>4. \A name \in Names : Len(name) \in Nat /\ \A m \in 1..Len(name) : name[m] \in Literals
  BY DEF Names
<1>5. \A c \in Literals : c # Sep
  BY CharactersAssumption
<1>6. /\ o[r] = 0 /\ o[Len(names)] = Len(text)
      /\ \A i \in r..(Len(names) - 1) :
           /\ o[i + 1] = o[i] + 1 + Len(names[i + 1])
           /\ text[o[i] + 1] = Sep
           /\ \A m \in 1..Len(names[i + 1]) : text[o[i] + 1 + m] = names[i + 1][m]
  BY DEF Laid
<1>7. \A i \in r..Len(names) : o[i] \in Nat /\ o[i] <= Len(text)
  BY <1>1
<1>8. ASSUME NEW i \in r..(Len(names) - 1)
      PROVE  /\ i \in Nat /\ i \in r..Len(names) /\ i + 1 \in r..Len(names)
             /\ names[i + 1] \in Names /\ Len(names[i + 1]) \in Nat
             /\ o[i + 1] = o[i] + 1 + Len(names[i + 1])
             /\ text[o[i] + 1] = Sep
             /\ \A m \in 1..Len(names[i + 1]) :
                  /\ text[o[i] + 1 + m] = names[i + 1][m]
                  /\ names[i + 1][m] \in Literals /\ names[i + 1][m] # Sep
  <2>1. names[i + 1] \in Names
    BY <1>2, <1>3
  <2> QED
    BY <1>2, <1>4, <1>5, <1>6, <2>1
<1> QED
  BY <1>1, <1>6, <1>7, <1>8

\* The place of one name, and the numbers about it.
LEMMA LaidAt ==
  ASSUME NEW text, NEW names, NEW r, NEW o, Laid(text, names, r, o), NEW i \in r..(Len(names) - 1)
  PROVE  /\ o[i] \in Nat /\ o[i + 1] \in Nat /\ Len(names[i + 1]) \in Nat /\ Len(text) \in Nat
         /\ Len(names) \in Nat /\ i \in Nat /\ i + 1 <= Len(names)
         /\ o[i + 1] = o[i] + 1 + Len(names[i + 1])
<1>1. Len(names) \in Nat /\ r \in Nat /\ Len(text) \in Nat
  BY LaidIs
<1>2. i \in Nat /\ i + 1 <= Len(names)
  BY <1>1
<1>3. \A x \in r..Len(names) : o[x] \in Nat
  BY LaidIs
<1>4. /\ i \in r..Len(names) /\ i + 1 \in r..Len(names) /\ Len(names[i + 1]) \in Nat
      /\ o[i + 1] = o[i] + 1 + Len(names[i + 1])
  BY LaidIs
<1>5. o[i] \in Nat /\ o[i + 1] \in Nat
  BY <1>3, <1>4
<1> QED
  BY <1>1, <1>2, <1>4, <1>5

\* Every character of a laid name is a literal, and no separator.
LEMMA LettersAre ==
  ASSUME NEW text, NEW names, NEW r, NEW o, Laid(text, names, r, o),
         NEW i \in r..(Len(names) - 1), NEW m \in 1..Len(names[i + 1])
  PROVE  text[o[i] + 1 + m] = names[i + 1][m] /\ names[i + 1][m] # Sep
<1>1. \A x \in 1..Len(names[i + 1]) :
        text[o[i] + 1 + x] = names[i + 1][x] /\ names[i + 1][x] # Sep
  BY LaidIs
<1> QED
  BY <1>1

\* Names are laid in their order.
LEMMA LaidInOrder ==
  ASSUME NEW text, NEW names, NEW r, NEW o, Laid(text, names, r, o),
         NEW i \in r..Len(names), NEW j \in i..Len(names)
  PROVE  o[i] <= o[j]
<1> DEFINE n == Len(names)
           T == {d \in Nat : i + d <= n => o[i] <= o[i + d]}
<1>1. n \in Nat /\ r \in Nat /\ i \in Nat /\ i >= r /\ j \in Nat /\ j <= n /\ j - i \in Nat
  BY LaidIs
<1>2. \A x \in r..n : o[x] \in Nat
  BY LaidIs
<1>3. \A x \in r..(n - 1) : o[x + 1] = o[x] + 1 + Len(names[x + 1]) /\ Len(names[x + 1]) \in Nat
  BY LaidIs
<1> HIDE DEF n
<1>4. 0 \in T
  <2>1. i + 0 = i /\ o[i] \in Nat
    BY <1>1, <1>2 DEF n
  <2> QED
    BY <2>1
<1>5. ASSUME NEW d \in Nat, d \in T PROVE d + 1 \in T
  <2> SUFFICES ASSUME i + (d + 1) <= n PROVE o[i] <= o[i + (d + 1)]
    OBVIOUS
  <2> DEFINE x == i + d
  <2>1. x \in r..(n - 1) /\ x \in r..n /\ i \in r..n /\ x <= n /\ i + (d + 1) = x + 1
    BY <1>1
  <2>2. o[i] <= o[x]
    BY <1>5, <2>1
  <2> HIDE DEF x
  <2>3. o[x + 1] = o[x] + 1 + Len(names[x + 1]) /\ Len(names[x + 1]) \in Nat /\ o[x] \in Nat /\ o[i] \in Nat
    BY <1>2, <1>3, <2>1
  <2>4. o[i] <= o[x + 1]
    BY <2>2, <2>3
  <2> QED
    BY <2>1, <2>4
<1>6. j - i \in T
  <2> HIDE DEF T
  <2> QED
    BY <1>1, <1>4, <1>5, Lemmas!SetInduction
<1>7. i + (j - i) = j
  BY <1>1
<1> QED
  BY <1>1, <1>6, <1>7

\* Each character of the text is of a name, or the separator before it.
LEMMA LaidAll ==
  ASSUME NEW text, NEW names, NEW r, NEW o, Laid(text, names, r, o), NEW p \in 1..Len(text)
  PROVE  \E i \in r..(Len(names) - 1) : \E m \in 0..Len(names[i + 1]) : p = o[i] + 1 + m
<1> DEFINE n == Len(names)
           At_1(q) == \E i \in r..(n - 1) : \E m \in 0..Len(names[i + 1]) : q = o[i] + 1 + m
           T == {d \in Nat : r + d <= n => \A q \in 1..o[r + d] : At_1(q)}
<1>1. n \in Nat /\ r \in Nat /\ r <= n /\ o[r] = 0 /\ o[n] = Len(text) /\ n - r \in Nat
  BY LaidIs
<1>2. \A x \in r..n : o[x] \in Nat
  BY LaidIs
<1>3. \A x \in r..(n - 1) : o[x + 1] = o[x] + 1 + Len(names[x + 1]) /\ Len(names[x + 1]) \in Nat
  BY LaidIs
<1> HIDE DEF n
<1>4. 0 \in T
  <2>1. r + 0 = r
    BY <1>1
  <2> QED
    BY <1>1, <2>1
<1>5. ASSUME NEW d \in Nat, d \in T PROVE d + 1 \in T
  <2> SUFFICES ASSUME r + (d + 1) <= n, NEW q \in 1..o[r + (d + 1)] PROVE At_1(q)
    OBVIOUS
  <2> DEFINE x == r + d
             e == Len(names[x + 1])
  <2>1. x \in r..(n - 1) /\ x \in r..n /\ x <= n /\ r + (d + 1) = x + 1
    BY <1>1
  <2>2. \A y \in 1..o[x] : At_1(y)
    BY <1>5, <2>1
  <2>3. o[x + 1] = o[x] + 1 + e /\ e \in Nat /\ o[x] \in Nat
    BY <1>2, <1>3, <2>1
  <2>4. q \in 1..o[x + 1]
    BY <2>1
  <2>5. CASE q <= o[x]
    <3> HIDE DEF x, e
    <3>1. q \in 1..o[x]
      BY <2>3, <2>4, <2>5
    <3> QED
      BY <2>2, <3>1
  <2>6. CASE q > o[x]
    <3> DEFINE m == q - (o[x] + 1)
    <3>1. m \in 0..e /\ q = o[x] + 1 + m
      <4> HIDE DEF x, e
      <4> QED
        BY <2>3, <2>4, <2>6
    <3> HIDE DEF m, x
    <3> QED
      BY <2>1, <3>1 DEF e
  <2> QED
    BY <2>3, <2>4, <2>5, <2>6
<1>6. n - r \in T
  <2> HIDE DEF T
  <2> QED
    BY <1>1, <1>4, <1>5, Lemmas!SetInduction
<1>7. r + (n - r) = n
  BY <1>1
<1>8. At_1(p)
  BY <1>1, <1>6, <1>7
<1> QED
  BY <1>8 DEF n

\* What comes after the m-th character of a name.
LEMMA NextIs ==
  ASSUME NEW text, NEW names, NEW r, NEW o, Laid(text, names, r, o),
         NEW i \in r..(Len(names) - 1), NEW m \in 0..Len(names[i + 1])
  PROVE  LET q == o[i] + 1 + m
             name == names[i + 1]
         IN  /\ q \in Nat /\ q <= Len(text) /\ q <= o[i + 1] /\ o[i + 1] <= Len(text)
             /\ m < Len(name) => q + 1 <= Len(text) /\ text[q + 1] = name[m + 1] /\ name[m + 1] \in Literals
             /\ m = Len(name) => q = o[i + 1]
             /\ m = Len(name) /\ i + 1 < Len(names) => q + 1 <= Len(text) /\ text[q + 1] = Sep
             /\ i + 1 = Len(names) => o[i + 1] = Len(text)
             /\ i + 1 < Len(names) => o[i + 1] + 1 <= Len(text) /\ text[o[i + 1] + 1] = Sep
<1> DEFINE name == names[i + 1]
           e == Len(name)
           q == o[i] + 1 + m
           l == Len(text)
           n == Len(names)
           a == o[i]
           b == o[i + 1]
<1>1. /\ n \in Nat /\ i \in Nat /\ i + 1 <= n /\ e \in Nat /\ l \in Nat /\ a \in Nat /\ b \in Nat /\ b <= l
      /\ b = a + 1 + e /\ \A x \in 1..e : text[a + 1 + x] = name[x] /\ name[x] \in Literals
  <2>1. n \in Nat /\ r \in Nat /\ l \in Nat /\ \A y \in r..n : o[y] \in Nat /\ o[y] <= l
    BY LaidIs
  <2>2. i \in Nat /\ i \in r..n /\ i + 1 \in r..n /\ e \in Nat /\ b = a + 1 + e
    BY LaidIs
  <2>3. \A x \in 1..e : text[a + 1 + x] = name[x] /\ name[x] \in Literals
    BY LaidIs
  <2> HIDE DEF n, l, e, name
  <2> QED
    BY <2>1, <2>2, <2>3, SMTT(30)
<1>2. i + 1 = n => b = l
  BY LaidIs
<1>3. i + 1 < n => b + 1 <= l /\ text[b + 1] = Sep
  <2> SUFFICES ASSUME i + 1 < n PROVE b + 1 <= l /\ text[b + 1] = Sep
    OBVIOUS
  <2>1. i + 1 \in r..(n - 1) /\ (i + 1) + 1 \in r..n
    BY <1>1, LaidIs
  <2> DEFINE j == i + 1
             f == Len(names[j + 1])
  <2>2. /\ o[j + 1] = o[j] + 1 + f /\ f \in Nat /\ o[j + 1] \in Nat /\ o[j + 1] <= l
        /\ text[o[j] + 1] = Sep
    BY <2>1, LaidIs, SMTT(30)
  <2>3. o[j] = b
    OBVIOUS
  <2> HIDE DEF j, f, b, l
  <2> QED
    BY <1>1, <2>2, <2>3
<1> HIDE DEF a, b, l, n, e, name
<1>4. m \in Nat /\ m <= e
  BY <1>1 DEF e, name
<1>5. a + 1 + m \in Nat /\ a + 1 + m <= l /\ a + 1 + m <= b
  BY <1>1, <1>4
<1>6. m < e => (a + 1 + m) + 1 <= l /\ text[(a + 1 + m) + 1] = name[m + 1] /\ name[m + 1] \in Literals
  <2> SUFFICES ASSUME m < e
               PROVE (a + 1 + m) + 1 <= l /\ text[(a + 1 + m) + 1] = name[m + 1] /\ name[m + 1] \in Literals
    OBVIOUS
  <2>1. m + 1 \in 1..e /\ a + 1 + (m + 1) = (a + 1 + m) + 1 /\ (a + 1 + m) + 1 <= l
    BY <1>1, <1>4
  <2>2. text[a + 1 + (m + 1)] = name[m + 1] /\ name[m + 1] \in Literals
    BY <1>1, <2>1
  <2> QED
    BY <2>1, <2>2
<1>7. m = e => a + 1 + m = b
  BY <1>1, <1>4
<1> QED
  BY <1>1, <1>2, <1>3, <1>5, <1>6, <1>7 DEF a, b, l, n, e, name

\* The places of a set are those of another one, counted from a place on; or those
\* where the names of a set begin.
MovedBy(places, others, place) == \A z : z \in places <=> \E x \in others : z = place + x
Heads(places, o, those) == \A z : z \in places <=> \E x \in those : z = o[x] + 1

\* Pieces are told from each other, and from characters.
LEMMA PiecesDiffer ==
  /\ Caret \in Literals /\ Question # Star /\ Question \notin Literals /\ Star \notin Literals
  /\ \A c \in Literals : c # Sep /\ c # NotSep /\ c # NamePart /\ c # Deep /\ c # Rest /\ c # Star
  /\ Sep # NotSep /\ Sep # NamePart /\ Sep # Deep /\ Sep # Rest
  /\ NotSep # NamePart /\ NotSep # Deep /\ NotSep # Rest
  /\ NamePart # Deep /\ NamePart # Rest /\ Deep # Rest
<1>1. /\ Sep # NotSep /\ Sep # NamePart /\ Sep # Deep /\ Sep # Rest
      /\ NotSep # NamePart /\ NotSep # Deep /\ NotSep # Rest
      /\ NamePart # Deep /\ NamePart # Rest /\ Deep # Rest
  BY DEF Sep, NotSep, NamePart, Deep, Rest
<1> QED
  BY <1>1, CharactersAssumption, Kinds

\* Pieces that take one character.
LEMMA OneTaken ==
  ASSUME NEW p, p \in Literals \/ p = NotSep \/ p = Sep, p # Caret, NEW text, NEW j
  PROVE  Taken(p, text, j) = {i \in {j + 1} : i <= Len(text) /\ Takes(p, text[i])}
BY PiecesDiffer DEF Taken

\* A literal, and the piece of a question mark, take what their characters stand for.
LEMMA CharTaken ==
  ASSUME NEW text, NEW names, NEW r, NEW o, Laid(text, names, r, o),
         NEW i \in r..(Len(names) - 1), NEW m \in 0..Len(names[i + 1]), NEW c, NEW p,
         (c \in Literals /\ c # Caret /\ p = c) \/ (c = Question /\ p = NotSep)
  PROVE  MovedBy(Taken(p, text, o[i] + 1 + m), NameStep(c, names[i + 1])[m], o[i] + 1)
<1> SUFFICES Taken(p, text, o[i] + 1 + m) = {o[i] + 1 + x : x \in NameStep(c, names[i + 1])[m]}
  BY DEF MovedBy
<1> DEFINE name == names[i + 1]
           e == Len(name)
           a == o[i]
           l == Len(text)
           n == Len(names)
           q == a + 1 + m
<1>1. /\ q \in Nat /\ q <= l
      /\ m < e => q + 1 <= l /\ text[q + 1] = name[m + 1] /\ name[m + 1] \in Literals
      /\ m = e => q = o[i + 1]
      /\ m = e /\ i + 1 < n => q + 1 <= l /\ text[q + 1] = Sep
      /\ i + 1 = n => o[i + 1] = l
  BY NextIs
<1>2. a \in Nat /\ e \in Nat /\ l \in Nat /\ n \in Nat /\ i \in Nat /\ i + 1 <= n /\ m \in 0..e
  BY LaidAt
<1>3. Taken(p, text, q) = {x \in {q + 1} : x <= l /\ Takes(p, text[x])}
  <2>1. p \in Literals \/ p = NotSep \/ p = Sep
    OBVIOUS
  <2>2. p # Caret
    BY PiecesDiffer
  <2> HIDE DEF q
  <2> QED
    BY <2>1, <2>2, OneTaken, SMTT(30)
<1>4. NameStep(c, name)[m] = {x \in {m + 1} : x <= e /\ c \in {Question, name[x]}}
  BY PiecesDiffer DEF NameStep
<1> HIDE DEF name, e, l, n, a
<1>5. CASE m < e
  <2>1. q + 1 <= l /\ text[q + 1] = name[m + 1] /\ name[m + 1] \in Literals /\ m + 1 <= e
    BY <1>1, <1>2, <1>5
  <2>2. Takes(p, text[q + 1]) <=> c \in {Question, name[m + 1]}
    BY <2>1, PiecesDiffer DEF Takes
  <2>3. a + 1 + (m + 1) = q + 1
    BY <1>2
  <2> HIDE DEF q
  <2>4. CASE c \in {Question, name[m + 1]}
    <3>1. Taken(p, text, q) = {q + 1} /\ NameStep(c, name)[m] = {m + 1}
      BY <1>3, <1>4, <2>1, <2>2, <2>4
    <3> HIDE DEF a
    <3>2. {a + 1 + x : x \in NameStep(c, name)[m]} = {q + 1}
      BY <2>3, <3>1
    <3> QED
      BY <3>1, <3>2 DEF q, a, name
  <2>5. CASE c \notin {Question, name[m + 1]}
    <3>1. Taken(p, text, q) = {} /\ NameStep(c, name)[m] = {}
      BY <1>3, <1>4, <2>1, <2>2, <2>5
    <3> QED
      BY <3>1 DEF q, name, a
  <2> QED
    BY <2>4, <2>5
<1>6. CASE ~(m < e)
  <2>1. m = e /\ ~(m + 1 <= e)
    BY <1>2, <1>6
  <2>2. q + 1 <= l => text[q + 1] = Sep
    <3>1. i + 1 = n \/ i + 1 < n
      BY <1>2
    <3> HIDE DEF q
    <3> QED
      BY <1>1, <1>2, <2>1, <3>1
  <2>3. ~Takes(p, Sep)
    BY PiecesDiffer DEF Takes
  <2> HIDE DEF q
  <2>4. Taken(p, text, q) = {} /\ NameStep(c, name)[m] = {}
    BY <1>3, <1>4, <2>1, <2>2, <2>3
  <2> QED
    BY <2>4 DEF q, name, a
<1> QED
  BY <1>5, <1>6

\* The piece of a star takes what is left of a name, or less.
LEMMA StarTaken ==
  ASSUME NEW text, NEW names, NEW r, NEW o, Laid(text, names, r, o),
         NEW i \in r..(Len(names) - 1), NEW m \in 0..Len(names[i + 1])
  PROVE  MovedBy(Taken(NamePart, text, o[i] + 1 + m), NameStep(Star, names[i + 1])[m], o[i] + 1)
<1> SUFFICES Taken(NamePart, text, o[i] + 1 + m) = {o[i] + 1 + x : x \in NameStep(Star, names[i + 1])[m]}
  BY DEF MovedBy
<1> DEFINE name == names[i + 1]
           e == Len(name)
           a == o[i]
           b == o[i + 1]
           l == Len(text)
           n == Len(names)
           q == a + 1 + m
<1>1. /\ q \in Nat /\ q <= l /\ b <= l /\ i + 1 = n => b = l
      /\ i + 1 < n => b + 1 <= l /\ text[b + 1] = Sep
  BY NextIs
<1>2. a \in Nat /\ b \in Nat /\ e \in Nat /\ l \in Nat /\ n \in Nat /\ i \in Nat /\ i + 1 <= n /\ m \in 0..e
      /\ b = a + 1 + e
  BY LaidAt
<1>0. b <= l /\ (i + 1 = n => b = l)
  BY NextIs
<1>3. ASSUME NEW y \in 1..e PROVE text[a + 1 + y] # Sep
  <2>1. text[a + 1 + y] = name[y] /\ name[y] # Sep
    BY LettersAre
  <2> QED
    BY <2>1
<1>4. Taken(NamePart, text, q) = {x \in q..l : \A y \in (q + 1)..x : text[y] # Sep}
  BY PiecesDiffer DEF Taken
<1>5. NameStep(Star, name)[m] = m..e
  BY DEF NameStep
<1>9. i + 1 < n => b + 1 <= l /\ text[b + 1] = Sep
  BY NextIs
<1> HIDE DEF name, e, l, n, b, a
<1>6. ASSUME NEW x \in m..e PROVE a + 1 + x \in Taken(NamePart, text, q)
  <2>1. a + 1 + x \in q..l
    BY <1>0, <1>2
  <2>2. ASSUME NEW y \in (q + 1)..(a + 1 + x) PROVE text[y] # Sep
    <3>1. y - (a + 1) \in 1..e /\ a + 1 + (y - (a + 1)) = y
      BY <1>2
    <3> QED
      BY <1>3, <3>1
  <2> HIDE DEF q, a
  <2> QED
    BY <1>4, <2>1, <2>2
<1>7. ASSUME NEW z \in Taken(NamePart, text, q) PROVE \E x \in m..e : z = a + 1 + x
  <2> HIDE DEF q
  <2>1. z \in q..l /\ \A y \in (q + 1)..z : text[y] # Sep
    BY <1>4, <1>7
  <2> USE DEF q
  <2>2. z <= b
    <3>1. ASSUME z > b PROVE FALSE
      <4>1. i + 1 < n
        BY <1>0, <1>2, <2>1, <3>1
      <4>2. b + 1 \in (q + 1)..z
        BY <1>2, <2>1, <3>1
      <4> HIDE DEF q
      <4> QED
        BY <1>9, <2>1, <4>1, <4>2
    <3> QED
      BY <1>2, <2>1, <3>1
  <2>3. z - (a + 1) \in m..e /\ z = a + 1 + (z - (a + 1))
    BY <1>2, <2>1, <2>2
  <2> QED
    BY <2>3
<1> HIDE DEF q, a
<1>8. Taken(NamePart, text, q) = {a + 1 + x : x \in m..e}
  BY <1>6, <1>7
<1> QED
  BY <1>5, <1>8 DEF q, a, name

\* A separator is only taken after all of a name that others follow.
LEMMA SepTaken ==
  ASSUME NEW text, NEW names, NEW r, NEW o, Laid(text, names, r, o),
         NEW i \in r..(Len(names) - 1), NEW m \in 0..Len(names[i + 1])
  PROVE  /\ i + 1 < Len(names) /\ m = Len(names[i + 1]) => Taken(Sep, text, o[i] + 1 + m) = {o[i + 1] + 1}
         /\ ~(i + 1 < Len(names) /\ m = Len(names[i + 1])) => Taken(Sep, text, o[i] + 1 + m) = {}
<1> SUFFICES Taken(Sep, text, o[i] + 1 + m) =
               {o[i + 1] + 1 : x \in {y \in {i + 1} : y < Len(names) /\ m = Len(names[i + 1])}}
  OBVIOUS
<1> DEFINE name == names[i + 1]
           e == Len(name)
           a == o[i]
           b == o[i + 1]
           l == Len(text)
           n == Len(names)
           q == a + 1 + m
           next == {b + 1 : x \in {y \in {i + 1} : y < n /\ m = e}}
<1>1. /\ q \in Nat /\ q <= l
      /\ m < e => q + 1 <= l /\ text[q + 1] = name[m + 1] /\ name[m + 1] \in Literals
      /\ m = e => q = b
      /\ m = e /\ i + 1 < n => q + 1 <= l /\ text[q + 1] = Sep
      /\ i + 1 = n => b = l
  BY NextIs
<1>2. a \in Nat /\ e \in Nat /\ l \in Nat /\ n \in Nat /\ i \in Nat /\ i + 1 <= n /\ m \in 0..e
  BY LaidAt
<1>3. Taken(Sep, text, q) = {x \in {q + 1} : x <= l /\ Takes(Sep, text[x])}
  <2>1. Sep # Caret
    BY PiecesDiffer
  <2> HIDE DEF q
  <2> QED
    BY <2>1, OneTaken, SMTT(30)
<1>4. \A c : Takes(Sep, c) <=> c = Sep
  BY PiecesDiffer DEF Takes
<1> HIDE DEF name, e, l, n, a, b
<1>5. CASE m < e
  <2>1. text[q + 1] # Sep /\ m # e
    BY <1>1, <1>2, <1>5, PiecesDiffer
  <2> HIDE DEF q
  <2>2. Taken(Sep, text, q) = {} /\ next = {}
    BY <1>3, <1>4, <2>1
  <2> QED
    BY <2>2 DEF q, a, b, n, e, name
<1>6. CASE m = e /\ i + 1 < n
  <2>1. q = b /\ q + 1 <= l /\ text[q + 1] = Sep
    BY <1>1, <1>6
  <2> HIDE DEF q
  <2>2. Taken(Sep, text, q) = {b + 1} /\ next = {b + 1}
    BY <1>3, <1>4, <1>6, <2>1
  <2> QED
    BY <2>2 DEF q, a, b, n, e, name
<1>7. CASE m = e /\ i + 1 = n
  <2>1. q = l
    BY <1>1, <1>7
  <2>2. ~(q + 1 <= l) /\ ~(i + 1 < n)
    BY <1>2, <1>7, <2>1
  <2> HIDE DEF q
  <2>3. Taken(Sep, text, q) = {} /\ next = {}
    BY <1>3, <2>2
  <2> QED
    BY <2>3 DEF q, a, b, n, e, name
<1>8. m < e \/ (m = e /\ i + 1 < n) \/ (m = e /\ i + 1 = n)
  BY <1>2
<1> QED
  BY <1>5, <1>6, <1>7, <1>8

\* The piece of a globstar leads to the names from the one at hand on.
LEMMA DeepTaken ==
  ASSUME NEW text, NEW names, NEW r, NEW o, Laid(text, names, r, o), NEW i \in r..(Len(names) - 1)
  PROVE  Heads(Taken(Deep, text, o[i] + 1), o, i..(Len(names) - 1))
<1> SUFFICES Taken(Deep, text, o[i] + 1) = {o[x] + 1 : x \in i..(Len(names) - 1)}
  BY DEF Heads
<1> DEFINE l == Len(text)
           n == Len(names)
           q == o[i] + 1
<1>1. n \in Nat /\ l \in Nat /\ r \in Nat /\ i \in Nat /\ i >= r /\ o[i] \in Nat
  BY LaidIs
<1>2. Taken(Deep, text, q) = {y \in q..l : y = q \/ text[y] = Sep}
  BY PiecesDiffer DEF Taken
<1>3. ASSUME NEW x \in i..(n - 1)
      PROVE o[x] + 1 \in q..l /\ text[o[x] + 1] = Sep
  <2>1. x \in r..(n - 1) /\ x \in i..n /\ x \in r..n
    BY <1>1
  <2>2. o[i] <= o[x]
    <3>1. i \in r..Len(names) /\ x \in i..Len(names)
      BY <1>1, <2>1
    <3> QED
      BY <3>1, LaidInOrder
  <2>3. text[o[x] + 1] = Sep /\ o[x] \in Nat /\ o[x + 1] = o[x] + 1 + Len(names[x + 1])
        /\ Len(names[x + 1]) \in Nat /\ o[x + 1] \in Nat /\ o[x + 1] <= l
    BY <2>1, LaidIs
  <2> DEFINE a == o[i]
             b == o[x]
             c == o[x + 1]
             e == Len(names[x + 1])
  <2>4. b + 1 \in (a + 1)..l
    <3>1. a \in Nat /\ b \in Nat /\ c \in Nat /\ e \in Nat /\ l \in Nat /\ a <= b /\ c = b + 1 + e /\ c <= l
      BY <1>1, <2>2, <2>3
    <3> HIDE DEF a, b, c, e, l
    <3> QED
      BY <3>1
  <2> QED
    BY <2>3, <2>4
<1>4. ASSUME NEW y \in q..l, y = q \/ text[y] = Sep PROVE \E x \in i..(n - 1) : y = o[x] + 1
  <2>1. CASE y = q
    <3>1. i \in i..(n - 1)
      BY <1>1
    <3> QED
      BY <2>1, <3>1
  <2>2. CASE text[y] = Sep
    <3>1. y \in 1..Len(text)
      BY <1>1
    <3>2. PICK x \in r..(Len(names) - 1) : \E m \in 0..Len(names[x + 1]) : y = o[x] + 1 + m
      BY <3>1, LaidAll
    <3>3. PICK m \in 0..Len(names[x + 1]) : y = o[x] + 1 + m
      BY <3>2
    <3>4. /\ x \in Nat /\ Len(names[x + 1]) \in Nat /\ o[x] \in Nat /\ o[x + 1] \in Nat
          /\ o[x + 1] = o[x] + 1 + Len(names[x + 1])
      <4>1. /\ x \in r..Len(names) /\ x + 1 \in r..Len(names) /\ x \in Nat /\ Len(names[x + 1]) \in Nat
            /\ o[x + 1] = o[x] + 1 + Len(names[x + 1])
        BY <3>2, LaidIs
      <4>2. \A z \in r..Len(names) : o[z] \in Nat
        BY LaidIs
      <4> DEFINE y_1 == x + 1
      <4>3. y_1 \in r..Len(names)
        BY <4>1
      <4> HIDE DEF y_1
      <4>4. o[y_1] \in Nat
        BY <4>2, <4>3
      <4> QED
        BY <4>1, <4>2, <4>4 DEF y_1
    <3>5. m \in 1..Len(names[x + 1]) => text[o[x] + 1 + m] # Sep
      <4> SUFFICES ASSUME m \in 1..Len(names[x + 1]) PROVE text[o[x] + 1 + m] # Sep
        OBVIOUS
      <4>1. text[o[x] + 1 + m] = names[x + 1][m] /\ names[x + 1][m] # Sep
        BY LaidIs
      <4> QED
        BY <4>1
    <3>6. m = 0
      BY <2>2, <3>3, <3>4, <3>5
    <3>7. y = o[x] + 1
      BY <3>3, <3>4, <3>6
    <3>8. x >= i
      <4> SUFFICES ASSUME x < i PROVE FALSE
        BY <1>1, <3>4
      <4>1. x + 1 \in r..Len(names) /\ i \in (x + 1)..Len(names)
        BY <1>1, <3>4
      <4>2. o[x + 1] <= o[i]
        BY <4>1, LaidInOrder
      <4> DEFINE a == o[x]
                 b == o[x + 1]
                 c == o[i]
                 e == Len(names[x + 1])
      <4>3. a \in Nat /\ b \in Nat /\ c \in Nat /\ e \in Nat /\ b = a + 1 + e /\ b <= c /\ y = a + 1 /\ y \in (c + 1)..l
        BY <1>1, <3>4, <3>7, <4>2
      <4> HIDE DEF a, b, c, e, l, q
      <4> QED
        BY <4>3
    <3>9. x \in i..(n - 1)
      BY <1>1, <3>8
    <3> QED
      BY <3>7, <3>9
  <2> QED
    BY <1>4, <2>1, <2>2
<1> HIDE DEF q, n, l
<1>5. Taken(Deep, text, q) = {o[x] + 1 : x \in i..(n - 1)}
  BY <1>2, <1>3, <1>4
<1> QED
  BY <1>5 DEF q, n

\* The end of the text is the end of the last name.
LEMMA EndIs ==
  ASSUME NEW text, NEW names, NEW r, NEW o, Laid(text, names, r, o),
         NEW i \in r..(Len(names) - 1), NEW m \in 0..Len(names[i + 1])
  PROVE  /\ o[i] + 1 + m = Len(text) <=> i + 1 = Len(names) /\ m = Len(names[i + 1])
         /\ Len(text) \in Taken(Rest, text, o[i] + 1)
<1> DEFINE a == o[i]
           b == o[i + 1]
           e == Len(names[i + 1])
           l == Len(text)
           n == Len(names)
<1>1. /\ i + 1 = n => b = l
      /\ i + 1 < n => b + 1 <= l
      /\ b <= l
  BY NextIs
<1>2. a \in Nat /\ b \in Nat /\ e \in Nat /\ l \in Nat /\ n \in Nat /\ i \in Nat /\ i + 1 <= n /\ m \in 0..e
      /\ b = a + 1 + e
  BY LaidAt
<1>3. Taken(Rest, text, a + 1) = (a + 1)..l
  BY PiecesDiffer DEF Taken
<1> HIDE DEF a, b, e, l, n
<1>4. a + 1 + m = l <=> i + 1 = n /\ m = e
  BY <1>1, <1>2
<1>5. l \in (a + 1)..l
  BY <1>1, <1>2
<1> QED
  BY <1>3, <1>4, <1>5 DEF a, e, l, n

\* The first separator.
LEMMA FirstTaken ==
  ASSUME NEW text, NEW names, NEW r, NEW o, Laid(text, names, r, o)
  PROVE  /\ r < Len(names) => Taken(Sep, text, 0) = {o[r] + 1}
         /\ ~(r < Len(names)) => Taken(Sep, text, 0) = {}
<1> SUFFICES Taken(Sep, text, 0) = {o[x] + 1 : x \in {y \in {r} : y < Len(names)}}
  OBVIOUS
<1> DEFINE l == Len(text)
           n == Len(names)
<1>1. n \in Nat /\ l \in Nat /\ r \in Nat /\ r <= n /\ o[r] = 0 /\ o[n] = l
  BY LaidIs
<1>2. Taken(Sep, text, 0) = {x \in {0 + 1} : x <= l /\ Takes(Sep, text[x])}
  BY OneTaken, PiecesDiffer
<1>3. \A c : Takes(Sep, c) <=> c = Sep
  BY PiecesDiffer DEF Takes
<1>4. CASE r < n
  <2>1. r \in r..(n - 1)
    BY <1>1, <1>4
  <2>2. text[o[r] + 1] = Sep /\ o[r + 1] = o[r] + 1 + Len(names[r + 1]) /\ Len(names[r + 1]) \in Nat
        /\ o[r + 1] \in Nat /\ o[r + 1] <= l
    <3>1. /\ r \in r..Len(names) /\ r + 1 \in r..Len(names) /\ Len(names[r + 1]) \in Nat
          /\ text[o[r] + 1] = Sep /\ o[r + 1] = o[r] + 1 + Len(names[r + 1])
      BY <2>1, LaidIs, SMTT(30)
    <3>2. \A z \in r..Len(names) : o[z] \in Nat /\ o[z] <= Len(text)
      BY LaidIs
    <3> DEFINE y == r + 1
    <3>3. y \in r..Len(names)
      BY <3>1
    <3> HIDE DEF y
    <3>4. o[y] \in Nat /\ o[y] <= Len(text)
      BY <3>2, <3>3
    <3> QED
      BY <3>1, <3>4 DEF y
  <2>3. text[1] = Sep /\ 1 <= l
    BY <1>1, <2>2
  <2> HIDE DEF l, n
  <2>4. Taken(Sep, text, 0) = {1}
    BY <1>2, <1>3, <2>3
  <2>5. {o[x] + 1 : x \in {y \in {r} : y < n}} = {1}
    BY <1>1, <1>4
  <2> QED
    BY <2>4, <2>5 DEF n
<1>5. CASE ~(r < n)
  <2>1. l = 0
    BY <1>1, <1>5
  <2> HIDE DEF l, n
  <2>2. Taken(Sep, text, 0) = {}
    BY <1>2, <2>1
  <2> QED
    BY <1>5, <2>2 DEF n
<1> QED
  BY <1>4, <1>5

-----------------------------------------------------------------------------
(* Readers of a path and readers of its text                                *)

\* These are the places in a text where those readers stand who have passed all names
\* up to one in X and read a word in the next, or nothing of it.
StandIn(places, names, o, X, word) ==
  \A z : z \in places <=>
    \E i \in X : i < Len(names) /\ \E m \in ReadersIn(word, names[i + 1]) : z = o[i] + 1 + m
StandBefore(places, names, o, X) ==
  \A z : z \in places <=> \E i \in X : i < Len(names) /\ z = o[i] + 1

\* Where readers are led from some places: by a piece, and by a segment that others
\* follow or none.
PieceLeads(p, text, places) == UNION {Taken(p, text, q) : q \in places}
WordLeads(word, names, X) == UNION {WordStep(word, names)[j] : j \in X}
LastLeads(word, names, X) == UNION {LastStep(word, names)[j] : j \in X}

\* Nobody stands outside the names.
LEMMA StandIs ==
  ASSUME NEW text, NEW names, NEW r, NEW o, Laid(text, names, r, o), NEW X, X \subseteq r..Len(names),
         NEW w \in Seq(Characters), NEW i \in X, i < Len(names)
  PROVE  /\ i \in r..(Len(names) - 1) /\ i + 1 <= Len(names) /\ o[i] \in Nat /\ names[i + 1] \in Names
         /\ ReadersIn(w, names[i + 1]) \subseteq 0..Len(names[i + 1])
         /\ ReadersIn(<<>>, names[i + 1]) = {0}
<1>1. Len(names) \in Nat /\ r \in Nat /\ i \in r..Len(names)
  BY LaidIs
<1>2. i \in r..(Len(names) - 1) /\ i + 1 <= Len(names)
  BY <1>1
<1>3. o[i] \in Nat /\ names[i + 1] \in Names
  BY <1>2, LaidIs
<1>4. names[i + 1] \in Seq(Literals) /\ Star \in Characters
  BY <1>3, Kinds DEF Names
<1> QED
  BY <1>2, <1>3, <1>4, ReadersInIs

\* Who has read nothing of a word stands after the separator.
LEMMA StandAnew ==
  ASSUME NEW text, NEW names, NEW r, NEW o, Laid(text, names, r, o), NEW X, X \subseteq r..Len(names),
         NEW places
  PROVE  StandIn(places, names, o, X, <<>>) <=> StandBefore(places, names, o, X)
<1>1. ASSUME NEW i \in X, i < Len(names)
      PROVE  \A z : (\E m \in ReadersIn(<<>>, names[i + 1]) : z = o[i] + 1 + m) <=> z = o[i] + 1
  <2>1. <<>> \in Seq(Characters)
    OBVIOUS
  <2>2. o[i] \in Nat /\ ReadersIn(<<>>, names[i + 1]) = {0}
    BY <1>1, <2>1, StandIs
  <2>3. o[i] + 1 + 0 = o[i] + 1
    BY <2>2
  <2> QED
    BY <2>2, <2>3
<1>2. ASSUME NEW z
      PROVE  (\E i \in X : i < Len(names) /\ \E m \in ReadersIn(<<>>, names[i + 1]) : z = o[i] + 1 + m)
             <=> (\E i \in X : i < Len(names) /\ z = o[i] + 1)
  <2> DEFINE A(i) == \E m \in ReadersIn(<<>>, names[i + 1]) : z = o[i] + 1 + m
             B(i) == z = o[i] + 1
  <2>1. \A i \in X : i < Len(names) => (A(i) <=> B(i))
    BY <1>1
  <2> HIDE DEF A, B
  <2>2. (\E i \in X : i < Len(names) /\ A(i)) <=> (\E i \in X : i < Len(names) /\ B(i))
    BY <2>1
  <2> QED
    BY <2>2 DEF A, B
<1>3. (\A z : z \in places <=> \E i \in X : i < Len(names) /\ \E m \in ReadersIn(<<>>, names[i + 1]) : z = o[i] + 1 + m)
      <=> (\A z : z \in places <=> \E i \in X : i < Len(names) /\ z = o[i] + 1)
  <2> DEFINE A(z) == \E i \in X : i < Len(names) /\ \E m \in ReadersIn(<<>>, names[i + 1]) : z = o[i] + 1 + m
             B(z) == \E i \in X : i < Len(names) /\ z = o[i] + 1
  <2>1. \A z : A(z) <=> B(z)
    BY <1>2
  <2> HIDE DEF A, B
  <2>2. (\A z : z \in places <=> A(z)) <=> (\A z : z \in places <=> B(z))
    BY <2>1
  <2> QED
    BY <2>2 DEF A, B
<1> QED
  BY <1>3 DEF StandIn, StandBefore

\* A piece takes the readers of a text where a character takes those of a name.
LEMMA StandOn ==
  ASSUME NEW text, NEW names, NEW r, NEW o, Laid(text, names, r, o), NEW X, X \subseteq r..Len(names),
         NEW w \in Seq(Characters), NEW c \in Characters, NEW p,
         \/ c \in Literals /\ c # Caret /\ p = c
         \/ c = Question /\ p = NotSep
         \/ c = Star /\ p = NamePart,
         NEW places, StandIn(places, names, o, X, w)
  PROVE  StandIn(PieceLeads(p, text, places), names, o, X, Append(w, c))
<1> DEFINE Y == {x \in X : x < Len(names)}
           R(i) == ReadersIn(w, names[i + 1])
           more == UNION {Taken(p, text, q) : q \in places}
<1>1. ASSUME NEW i \in Y
      PROVE  /\ \A m \in R(i) : MovedBy(Taken(p, text, o[i] + 1 + m), NameStep(c, names[i + 1])[m], o[i] + 1)
             /\ ReadersIn(Append(w, c), names[i + 1]) = UNION {NameStep(c, names[i + 1])[m] : m \in R(i)}
  <2>1. i \in r..(Len(names) - 1) /\ names[i + 1] \in Seq(Literals) /\ R(i) \subseteq 0..Len(names[i + 1])
    BY StandIs DEF Names
  <2>2. ASSUME NEW m \in R(i)
        PROVE  MovedBy(Taken(p, text, o[i] + 1 + m), NameStep(c, names[i + 1])[m], o[i] + 1)
    <3>1. m \in 0..Len(names[i + 1])
      BY <2>1
    <3>2. CASE c = Star /\ p = NamePart
      BY <2>1, <3>1, <3>2, StarTaken
    <3>3. CASE ~(c = Star /\ p = NamePart)
      BY <2>1, <3>1, <3>3, CharTaken
    <3> QED
      BY <3>2, <3>3
  <2>3. ReadersIn(Append(w, c), names[i + 1]) = UNION {NameStep(c, names[i + 1])[m] : m \in R(i)}
    BY <2>1, ReadersInIs
  <2> QED
    BY <2>2, <2>3
<1>2. \A q : q \in places <=> \E i \in Y : \E m \in R(i) : q = o[i] + 1 + m
  BY DEF StandIn
<1>3. ASSUME NEW i \in Y, NEW z
      PROVE  (\E m \in R(i) : z \in Taken(p, text, o[i] + 1 + m)) <=>
             (\E x \in ReadersIn(Append(w, c), names[i + 1]) : z = o[i] + 1 + x)
  <2> DEFINE N(m) == NameStep(c, names[i + 1])[m]
             M(m) == Taken(p, text, o[i] + 1 + m)
             D(x) == z = o[i] + 1 + x
             all == ReadersIn(Append(w, c), names[i + 1])
  <2>1. ASSUME NEW m \in R(i) PROVE z \in M(m) <=> \E x \in N(m) : D(x)
    <3>1. MovedBy(M(m), N(m), o[i] + 1)
      BY <1>1
    <3> HIDE DEF M, N
    <3> QED
      BY <3>1 DEF MovedBy
  <2>2. all = UNION {N(m) : m \in R(i)}
    BY <1>1
  <2> DEFINE K == R(i)
  <2> HIDE DEF N, M, D, all, R
  <2>3. \A x : x \in all <=> \E m \in K : x \in N(m)
    BY <2>2
  <2>4. (\E m \in K : z \in M(m)) <=> (\E x \in all : D(x))
    BY <2>1, <2>3
  <2> QED
    BY <2>4 DEF M, D, all
<1> HIDE DEF Y, R
<1>4. ASSUME NEW z
      PROVE  z \in more <=> \E i \in Y : \E m \in R(i) : z \in Taken(p, text, o[i] + 1 + m)
  BY <1>2
<1> HIDE DEF more
<1>5. ASSUME NEW z
      PROVE  z \in more <=> \E i \in Y : \E x \in ReadersIn(Append(w, c), names[i + 1]) : z = o[i] + 1 + x
  <2> DEFINE A(i) == \E m \in R(i) : z \in Taken(p, text, o[i] + 1 + m)
             B(i) == \E x \in ReadersIn(Append(w, c), names[i + 1]) : z = o[i] + 1 + x
  <2>1. \A i \in Y : A(i) <=> B(i)
    BY <1>3
  <2>2. z \in more <=> \E i \in Y : A(i)
    BY <1>4
  <2> HIDE DEF A, B
  <2>3. z \in more <=> \E i \in Y : B(i)
    BY <2>1, <2>2
  <2> QED
    BY <2>3 DEF B
<1>6. StandIn(more, names, o, X, Append(w, c))
  BY <1>5 DEF StandIn, Y
<1> QED
  BY <1>6 DEF more, PieceLeads

\* The separator after a name takes those who have read all of it.
LEMMA StandAfterName ==
  ASSUME NEW text, NEW names, NEW r, NEW o, Laid(text, names, r, o), NEW X, X \subseteq r..Len(names),
         NEW w \in Seq(Characters), w # Globstar, NEW places, StandIn(places, names, o, X, w)
  PROVE  /\ WordLeads(w, names, X) \subseteq r..Len(names)
         /\ StandBefore(PieceLeads(Sep, text, places), names, o, WordLeads(w, names, X))
<1> DEFINE n == Len(names)
           Y == {x \in X : x < n}
           Z == UNION {WordStep(w, names)[j] : j \in X}
           R(i) == ReadersIn(w, names[i + 1])
           more == UNION {Taken(Sep, text, q) : q \in places}
<1>1. n \in Nat /\ r \in Nat /\ r <= n
  BY LaidIs
<1>2. ASSUME NEW j \in X PROVE WordStep(w, names)[j] = {i \in {j + 1} : i <= n /\ NameMatches(w, names[i])}
  <2>1. j \in 0..n
    BY <1>1
  <2> QED
    BY <2>1 DEF WordStep
<1>3. Z \subseteq r..n
  <2>1. ASSUME NEW j \in X, j + 1 <= n PROVE j + 1 \in r..n
    <3>1. j \in r..n
      OBVIOUS
    <3> QED
      BY <1>1, <2>1, <3>1
  <2> HIDE DEF n
  <2> QED
    BY <1>2, <2>1
<1>4. ASSUME NEW i \in Y, NEW m \in R(i)
      PROVE  /\ i + 1 < n /\ m = Len(names[i + 1]) => Taken(Sep, text, o[i] + 1 + m) = {o[i + 1] + 1}
             /\ ~(i + 1 < n /\ m = Len(names[i + 1])) => Taken(Sep, text, o[i] + 1 + m) = {}
  <2>1. i \in r..(n - 1) /\ m \in 0..Len(names[i + 1])
    BY StandIs, Zenon
  <2> QED
    BY <2>1, SepTaken
<1>5. ASSUME NEW i \in Y PROVE Len(names[i + 1]) \in R(i) <=> NameMatches(w, names[i + 1])
  BY NameMatchesIs
<1>6. \A q : q \in places <=> \E i \in Y : \E m \in R(i) : q = o[i] + 1 + m
  BY DEF StandIn
<1>7. ASSUME NEW z PROVE (\E y \in Z : y < n /\ z = o[y] + 1) <=>
        \E i \in Y : i + 1 < n /\ NameMatches(w, names[i + 1]) /\ z = o[i + 1] + 1
  <2>1. \A i \in X : (i + 1 < n => i < n) /\ (i + 1 < n => i + 1 <= n)
    BY <1>1
  <2> HIDE DEF n
  <2>2. \A y : y \in Z <=> \E i \in X : y = i + 1 /\ y <= n /\ NameMatches(w, names[y])
    BY <1>2
  <2> HIDE DEF Z
  <2> QED
    BY <2>1, <2>2
<1> HIDE DEF Y, R
<1>8. ASSUME NEW z
      PROVE  z \in more <=> \E i \in Y : \E m \in R(i) : z \in Taken(Sep, text, o[i] + 1 + m)
  BY <1>6
<1> HIDE DEF more, Z, n
<1>9. ASSUME NEW z PROVE z \in more <=> \E y \in Z : y < n /\ z = o[y] + 1
  <2>1. \A i \in Y : \A m \in R(i) : z \in Taken(Sep, text, o[i] + 1 + m) <=>
                       i + 1 < n /\ m = Len(names[i + 1]) /\ z = o[i + 1] + 1
    BY <1>4
  <2>2. z \in more <=> \E i \in Y : \E m \in R(i) : i + 1 < n /\ m = Len(names[i + 1]) /\ z = o[i + 1] + 1
    BY <1>8, <2>1
  <2>3. z \in more <=> \E i \in Y : i + 1 < n /\ Len(names[i + 1]) \in R(i) /\ z = o[i + 1] + 1
    BY <2>2
  <2>4. z \in more <=> \E i \in Y : i + 1 < n /\ NameMatches(w, names[i + 1]) /\ z = o[i + 1] + 1
    BY <1>5, <2>3
  <2> QED
    BY <1>7, <2>4
<1>10. StandBefore(more, names, o, Z)
  BY <1>9 DEF StandBefore, n
<1> QED
  BY <1>3, <1>10 DEF n, Z, more, PieceLeads, WordLeads

\* The piece of a globstar takes readers to all names that follow.
LEMMA StandAfterGlobstar ==
  ASSUME NEW text, NEW names, NEW r, NEW o, Laid(text, names, r, o), NEW X, X \subseteq r..Len(names),
         NEW places, StandBefore(places, names, o, X)
  PROVE  /\ WordLeads(Globstar, names, X) \subseteq r..Len(names)
         /\ StandBefore(PieceLeads(Deep, text, places), names, o, WordLeads(Globstar, names, X))
<1> DEFINE n == Len(names)
           Y == {x \in X : x < n}
           Z == UNION {WordStep(Globstar, names)[j] : j \in X}
           more == UNION {Taken(Deep, text, q) : q \in places}
<1>1. n \in Nat /\ r \in Nat /\ r <= n
  BY LaidIs
<1>2. ASSUME NEW j \in X PROVE WordStep(Globstar, names)[j] = j..n
  <2>1. j \in 0..n
    BY <1>1
  <2> QED
    BY <2>1 DEF WordStep
<1>3. Z \subseteq r..n
  <2>1. ASSUME NEW j \in X, NEW y \in j..n PROVE y \in r..n
    <3>1. j \in r..n
      OBVIOUS
    <3> QED
      BY <1>1, <3>1
  <2> HIDE DEF n
  <2> QED
    BY <1>2, <2>1
<1>4. ASSUME NEW i \in Y PROVE Heads(Taken(Deep, text, o[i] + 1), o, i..(n - 1))
  <2>1. i \in r..(n - 1)
    <3>1. i \in r..n /\ i < n
      OBVIOUS
    <3> QED
      BY <1>1, <3>1
  <2> QED
    BY <2>1, DeepTaken
<1>6. \A q : q \in places <=> \E i \in Y : q = o[i] + 1
  BY DEF StandBefore
<1>7. ASSUME NEW y PROVE y \in Z /\ y < n <=> \E i \in Y : y \in i..(n - 1)
  <2>1. \A i \in X : (y \in i..n /\ y < n) <=> (i < n /\ y \in i..(n - 1))
    BY <1>1
  <2> HIDE DEF n
  <2> QED
    BY <1>2, <2>1
<1> HIDE DEF n, Y, Z
<1>8. ASSUME NEW z PROVE z \in more <=> \E y \in Z : y < n /\ z = o[y] + 1
  <2>1. z \in more <=> \E i \in Y : z \in Taken(Deep, text, o[i] + 1)
    BY <1>6
  <2>2. \A i \in Y : z \in Taken(Deep, text, o[i] + 1) <=> \E x \in i..(n - 1) : z = o[x] + 1
    BY <1>4 DEF Heads
  <2> HIDE DEF more
  <2> QED
    BY <1>7, <2>1, <2>2
<1> HIDE DEF more
<1>9. StandBefore(more, names, o, Z)
  BY <1>8 DEF StandBefore, n
<1> QED
  BY <1>3, <1>9 DEF n, Z, more, PieceLeads, WordLeads

\* One more piece, and one more segment.
LEMMA MoreReaders ==
  ASSUME NEW text \in Seq(Pieces), NEW re \in Seq(Pieces), NEW p \in Pieces
  PROVE  ReadersOf(Append(re, p), text) = PieceLeads(p, text, ReadersOf(re, text))
BY ReadersOfIs DEF PieceLeads

\* One more segment.
LEMMA MoreAlong ==
  ASSUME NEW names \in Seq(Names), NEW ws \in Seq(Seq(Characters)), NEW w \in Seq(Characters)
  PROVE  /\ ReadersAlong(ws, names) \subseteq 0..Len(names)
         /\ ReadersAlong(<<>>, names) = {0}
         /\ ReadersAlong(Append(ws, w), names) = WordLeads(w, names, ReadersAlong(ws, names))
         /\ Denotes(Append(ws, w), names) <=> Len(names) \in LastLeads(w, names, ReadersAlong(ws, names))
<1> DEFINE T == Names
<1>1. names \in Seq(T)
  OBVIOUS
<1> HIDE DEF T
<1> QED
  BY <1>1, ReadersAlongIs DEF WordLeads, LastLeads

\* The first separator leads to the names below the root.
LEMMA StandFirst ==
  ASSUME NEW text, NEW names, NEW r, NEW o, Laid(text, names, r, o)
  PROVE  StandBefore(ReadersOf(<<Sep>>, text), names, o, {r})
<1>1. text \in Seq(Pieces) /\ Sep \in Pieces /\ <<>> \in Seq(Pieces)
  BY LaidIs, PiecesNoStar
<1>2. ReadersOf(<<>>, text) = {0} /\ ReadersOf(Append(<<>>, Sep), text) = UNION {Taken(Sep, text, j) : j \in ReadersOf(<<>>, text)}
  BY <1>1, ReadersOfIs, ZenonT(40)
<1>3. Append(<<>>, Sep) = <<Sep>>
  OBVIOUS
<1> DEFINE places == Taken(Sep, text, 0)
<1>4. ReadersOf(<<Sep>>, text) = places
  BY <1>2, <1>3
<1>5. /\ r < Len(names) => places = {o[r] + 1}
      /\ ~(r < Len(names)) => places = {}
  BY FirstTaken
<1> HIDE DEF places
<1>6. StandBefore(places, names, o, {r})
  BY <1>5 DEF StandBefore
<1> QED
  BY <1>4, <1>6

\* At the end of the text are those who have read all of the last name.
LEMMA StandAtEnd ==
  ASSUME NEW text, NEW names, NEW r, NEW o, Laid(text, names, r, o), NEW X, X \subseteq r..Len(names),
         NEW w \in Seq(Characters), w # Globstar, NEW places, StandIn(places, names, o, X, w)
  PROVE  Len(text) \in places <=> Len(names) \in LastLeads(w, names, X)
<1> DEFINE n == Len(names)
           l == Len(text)
           Y == {x \in X : x < n}
           R(i) == ReadersIn(w, names[i + 1])
<1>1. n \in Nat /\ r \in Nat /\ r <= n
  BY LaidIs
<1>2. ASSUME NEW j \in X PROVE n \in LastStep(w, names)[j] <=> j + 1 = n /\ NameMatches(w, names[n])
  <2>1. j \in 0..n
    BY <1>1
  <2>2. LastStep(w, names)[j] = {i \in {j + 1} : i <= n /\ NameMatches(w, names[i])}
    BY <2>1 DEF LastStep
  <2> HIDE DEF n
  <2> QED
    BY <1>1, <2>2
<1>3. ASSUME NEW i \in Y, NEW m \in R(i) PROVE l = o[i] + 1 + m <=> i + 1 = n /\ m = Len(names[i + 1])
  <2>1. i \in r..(n - 1) /\ m \in 0..Len(names[i + 1])
    BY StandIs
  <2> QED
    BY <2>1, EndIs
<1>4. ASSUME NEW i \in Y PROVE Len(names[i + 1]) \in R(i) <=> NameMatches(w, names[i + 1])
  BY NameMatchesIs
<1>5. l \in places <=> \E i \in Y : \E m \in R(i) : l = o[i] + 1 + m
  BY DEF StandIn
<1>6. \A j \in X : j + 1 = n => j \in Y
  BY <1>1
<1> HIDE DEF R, l
<1>7. l \in places <=> \E i \in Y : i + 1 = n /\ Len(names[i + 1]) \in R(i)
  BY <1>3, <1>5
<1>8. l \in places <=> \E i \in X : i + 1 = n /\ NameMatches(w, names[n])
  BY <1>4, <1>6, <1>7
<1>9. l \in places <=> n \in LastLeads(w, names, X)
  BY <1>2, <1>8 DEF LastLeads
<1> QED
  BY <1>9 DEF l

\* And what is left of the text may be anything where there is a name left.
LEMMA StandAtAnyEnd ==
  ASSUME NEW text, NEW names, NEW r, NEW o, Laid(text, names, r, o), NEW X, X \subseteq r..Len(names),
         NEW places, StandBefore(places, names, o, X)
  PROVE  Len(text) \in PieceLeads(Rest, text, places) <=> Len(names) \in LastLeads(Globstar, names, X)
<1> DEFINE n == Len(names)
           l == Len(text)
           Y == {x \in X : x < n}
<1>1. n \in Nat /\ r \in Nat /\ r <= n
  BY LaidIs
<1>2. ASSUME NEW j \in X PROVE n \in LastStep(Globstar, names)[j] <=> j < n
  <2>1. j \in 0..n
    BY <1>1
  <2>2. LastStep(Globstar, names)[j] = {i \in j..n : j < i}
    BY <2>1 DEF LastStep
  <2> HIDE DEF n
  <2> QED
    BY <1>1, <2>1, <2>2
<1>3. ASSUME NEW i \in Y PROVE l \in Taken(Rest, text, o[i] + 1)
  <2>1. i \in r..n /\ i < n
    OBVIOUS
  <2>2. i \in r..(n - 1)
    BY <1>1, <2>1
  <2>3. Len(names[i + 1]) \in Nat
    BY <2>2, LaidIs
  <2>4. 0 \in 0..Len(names[i + 1])
    BY <2>3
  <2> QED
    BY <2>2, <2>4, EndIs
<1>4. \A q : q \in places <=> \E i \in Y : q = o[i] + 1
  BY DEF StandBefore
<1> HIDE DEF l
<1>5. l \in UNION {Taken(Rest, text, q) : q \in places} <=> \E i \in Y : TRUE
  BY <1>3, <1>4
<1> QED
  BY <1>2, <1>5 DEF l, PieceLeads, LastLeads

-----------------------------------------------------------------------------
(* Names without wildcards                                                  *)

\* Literals lead to where they end, if they are those of the name.
LEMMA LiteralReaders ==
  ASSUME NEW w \in Names, NEW name \in Names
  PROVE  NameMatches(w, name) <=> name = w
<1> DEFINE agree(d) == d <= Len(name) /\ \A i \in 1..d : name[i] = w[i]
           T == {d \in Nat : d <= Len(w) =>
                   \A m : m \in ReadersIn(Cut(w, d), name) <=> m = d /\ agree(d)}
<1>1. w \in Seq(Literals) /\ name \in Seq(Literals) /\ Len(w) \in Nat /\ Len(name) \in Nat
  BY DEF Names
<1>2. \A d \in 0..Len(w) : Cut(w, d) \in Seq(Literals) /\ Cut(w, d) \in Seq(Characters)
  <2>1. \A d \in 0..Len(w) : Cut(w, d) \in Seq(Literals)
    BY <1>1, CutIs
  <2>2. Seq(Literals) \subseteq Seq(Characters)
    BY Kinds
  <2> QED
    BY <2>1, <2>2
<1>3. 0 \in T
  <2>1. Cut(w, 0) = <<>>
    BY <1>1 DEF Cut
  <2>2. <<>> \in Seq(Characters) /\ Star \in Characters
    BY Kinds
  <2>3. ReadersIn(<<>>, name) = {0}
    BY <1>1, <2>2, ReadersInIs
  <2>4. agree(0)
    BY <1>1
  <2> HIDE DEF agree
  <2> QED
    BY <2>1, <2>3, <2>4
<1>4. ASSUME NEW d \in Nat, d \in T PROVE d + 1 \in T
  <2> SUFFICES ASSUME d + 1 <= Len(w), NEW m
               PROVE  m \in ReadersIn(Cut(w, d + 1), name) <=> m = d + 1 /\ agree(d + 1)
    OBVIOUS
  <2>1. d \in 0..Len(w) /\ d + 1 \in 1..Len(w)
    BY <1>1
  <2> DEFINE c == w[d + 1]
  <2>2. c \in Literals /\ c \in Characters /\ c # Star /\ c # Question
    BY <1>1, <2>1, Kinds
  <2>3. Cut(w, d + 1) = Append(Cut(w, d), c)
    BY <1>1, <2>1 DEF Cut
  <2>4. \A x : x \in ReadersIn(Cut(w, d), name) <=> x = d /\ agree(d)
    BY <1>4, <2>1
  <2> HIDE DEF c, agree
  <2>5. ReadersIn(Append(Cut(w, d), c), name) = UNION {NameStep(c, name)[j] : j \in ReadersIn(Cut(w, d), name)}
    BY <1>1, <1>2, <2>1, <2>2, ReadersInIs
  <2>6. m \in ReadersIn(Cut(w, d + 1), name) <=> agree(d) /\ m \in NameStep(c, name)[d]
    <3> DEFINE K == ReadersIn(Cut(w, d), name)
               N(j) == NameStep(c, name)[j]
               all == ReadersIn(Cut(w, d + 1), name)
    <3>1. all = UNION {N(j) : j \in K}
      BY <2>3, <2>5
    <3>2. \A x : x \in K <=> x = d /\ agree(d)
      BY <2>4
    <3> HIDE DEF K, N, all
    <3>3. m \in all <=> agree(d) /\ m \in N(d)
      BY <3>1, <3>2
    <3> QED
      BY <3>3 DEF N, all
  <2>7. agree(d) => (m \in NameStep(c, name)[d] <=> m = d + 1 /\ d + 1 <= Len(name) /\ name[d + 1] = c)
    <3> SUFFICES ASSUME agree(d)
                 PROVE  m \in NameStep(c, name)[d] <=> m = d + 1 /\ d + 1 <= Len(name) /\ name[d + 1] = c
      OBVIOUS
    <3>1. d \in 0..Len(name)
      BY <1>1 DEF agree
    <3>2. NameStep(c, name)[d] = {i \in {d + 1} : i <= Len(name) /\ c \in {Question, name[i]}}
      BY <2>2, <3>1 DEF NameStep
    <3> QED
      BY <2>2, <3>2
  <2>8. agree(d + 1) <=> agree(d) /\ d + 1 <= Len(name) /\ name[d + 1] = c
    <3>1. \A i \in 1..(d + 1) : i \in 1..d \/ i = d + 1
      OBVIOUS
    <3>2. \A i \in 1..d : i \in 1..(d + 1)
      OBVIOUS
    <3>3. d + 1 \in 1..(d + 1) /\ (d + 1 <= Len(name) => d <= Len(name))
      BY <1>1
    <3> QED
      BY <3>1, <3>2, <3>3 DEF agree, c
  <2> QED
    BY <2>6, <2>7, <2>8
<1>5. Len(w) \in T
  <2> HIDE DEF T
  <2> QED
    BY <1>1, <1>3, <1>4, Lemmas!SetInduction
<1>6. Cut(w, Len(w)) = w
  <2>1. Len(w) \in 0..Len(w)
    BY <1>1
  <2> QED
    BY <1>1, <2>1, CutIs
<1>7. Len(name) \in ReadersIn(w, name) <=> Len(name) = Len(w) /\ agree(Len(w))
  BY <1>1, <1>5, <1>6
<1>8. Len(name) = Len(w) /\ agree(Len(w)) <=> name = w
  BY <1>1
<1> QED
  BY <1>7, <1>8, NameMatchesIs

-----------------------------------------------------------------------------
(* What the regular expression matches so far                               *)

\* The words that are segments.
Kept == Seq(Characters) \ {<<>>, <<Dot>>}

\* The segments whose words have been read.
SegmentsNow == P!Those(Kept, Cut(WordsNow, Len(WordsNow) - 1))

\* Readers of a path who have taken the segments before, and those of its text below
\* a root who have taken an expression for them, stand at the same names; and
\* so they do within a name while a word is read.
Tracked(before, word, top, wild, expression, reading) ==
  \A names \in Seq(Names) :
    LET X == ReadersAlong(before, names)
    IN  /\ Begins(top, names) =>
             /\ X \subseteq Len(top)..Len(names)
             /\ ~wild => X = {Len(top)}
             /\ \A text, o : Laid(text, names, Len(top), o) =>
                  /\ word # Globstar => StandIn(ReadersOf(reading, text), names, o, X, word)
                  /\ Len(word) <= 1 \/ word = Globstar =>
                       StandBefore(ReadersOf(expression, text), names, o, X)
        /\ ~Begins(top, names) => X = {}

\* So it is with what the constructor has at hand.
Tracks == Tracked(SegmentsNow, Cur, root, foundWildcard, accumulator, accumulator \o Piece)

\* What is at hand after a step keeps track if it says the same of the same things.
LEMMA TracksPrime ==
  ASSUME NEW b, NEW c, NEW t, NEW w, NEW e, NEW n,
         SegmentsNow' = b, Cur' = c, root' = t, foundWildcard' = w, accumulator' = e, (accumulator \o Piece)' = n,
         Tracked(b, c, t, w, e, n)
  PROVE  Tracks'
<1>1. Tracks' <=> Tracked(SegmentsNow', Cur', root', foundWildcard', accumulator', (accumulator \o Piece)')
  BY Zenon DEF Tracks, Tracked, ReadersAlong, Reach, WordStep, NameMatches, ReadersOf, PieceStep, Taken, Begins, Laid,
     StandIn, StandBefore, ReadersIn, NameStep, Names, Takes
<1> QED
  BY <1>1, SMTT(30)

\* Sequences of the same length are the same if their elements are.
LEMMA SameSeq ==
  ASSUME NEW T, NEW s \in Seq(T), NEW t \in Seq(T), Len(s) = Len(t), \A j \in 1..Len(s) : s[j] = t[j]
  PROVE  s = t
OBVIOUS

\* One more word.
LEMMA KeptAppend ==
  ASSUME NEW f \in Seq(Seq(Characters)), NEW w \in Seq(Characters)
  PROVE  /\ P!Those(Kept, f) \in Seq(Seq(Characters))
         /\ P!Those(Kept, Append(f, w)) = IF w \in Kept THEN Append(P!Those(Kept, f), w) ELSE P!Those(Kept, f)
<1> DEFINE V == Seq(Characters)
<1>1. f \in Seq(V) /\ w \in V
  OBVIOUS
<1> HIDE DEF V
<1>2. /\ P!Those(Kept, f) \in Seq(V)
      /\ P!Those(Kept, Append(f, w)) = IF w \in Kept THEN Append(P!Those(Kept, f), w) ELSE P!Those(Kept, f)
  BY <1>1, ThoseAppend
<1> QED
  BY <1>2 DEF V

\* A word is a segment, or is passed, when a separator follows it.
LEMMA SegmentsOn ==
  ASSUME TypeOK, NEW chars, At(chars), it' = it + 1, pattern' = pattern
  PROVE  /\ SegmentsNow \in Seq(Seq(Characters))
         /\ ch \in Separators => SegmentsNow' = IF Cur \in Kept THEN Append(SegmentsNow, Cur) ELSE SegmentsNow
         /\ ch \notin Separators => SegmentsNow' = SegmentsNow
<1> DEFINE l == Len(WordsNow)
           now == WordsNow
           next == WordsNow'
           f == Cut(now, l - 1)
           g == Cut(next, Len(next) - 1)
<1>1. now \in Seq(Seq(Characters)) /\ l \in Nat /\ l >= 1 /\ l = Len(now) /\ l - 1 \in 0..Len(now) /\ Cur = now[l]
      /\ Cur \in Seq(Characters)
  BY PatternIs, SomeWordsAre DEF Cur
<1>2. next \in Seq(Seq(Characters)) /\ Len(next) \in Nat
  BY ReadOn, SomeWordsAre
<1>3. /\ ch \in Separators => Len(next) = l + 1 /\ \A j \in 1..l : next[j] = now[j]
      /\ ch \notin Separators => Len(next) = l /\ \A j \in 1..(l - 1) : next[j] = now[j]
  BY ReadOn
<1>4. SegmentsNow = P!Those(Kept, f) /\ SegmentsNow' = P!Those(Kept, g)
  BY DEF SegmentsNow
<1>5. f \in Seq(Seq(Characters)) /\ Len(f) = l - 1 /\ \A j \in 1..(l - 1) : f[j] = now[j]
  <2> HIDE DEF now, l
  <2>1. Cut(now, l - 1) \in Seq(Seq(Characters)) /\ Len(Cut(now, l - 1)) = l - 1
    BY <1>1, CutIs, SMTT(30)
  <2>2. \A j \in 1..(l - 1) : Cut(now, l - 1)[j] = now[j]
    BY <1>1 DEF Cut
  <2> QED
    BY <2>1, <2>2
<1>6. CASE ch \in Separators
  <2>1. g = Append(f, Cur)
    <3> HIDE DEF now, next, l, f
    <3>1. Len(next) - 1 = l /\ l \in 0..Len(next)
      BY <1>1, <1>2, <1>3, <1>6
    <3>2. g \in Seq(Seq(Characters)) /\ Len(g) = l
      BY <1>2, <3>1, CutIs
    <3>3. \A j \in 1..l : g[j] = now[j]
      BY <1>1, <1>2, <1>3, <1>6, <3>1 DEF Cut
    <3> HIDE DEF g
    <3>4. Append(f, Cur) \in Seq(Seq(Characters)) /\ Len(Append(f, Cur)) = l
          /\ \A j \in 1..l : Append(f, Cur)[j] = now[j]
      <4>1. \A j \in 1..l : j = l \/ j \in 1..(l - 1)
        BY <1>1
      <4> QED
        BY <1>1, <1>5, <4>1
    <3> DEFINE h == Append(f, Cur)
    <3>5. h \in Seq(Seq(Characters)) /\ Len(g) = Len(h) /\ \A j \in 1..Len(g) : g[j] = h[j]
      BY <3>2, <3>3, <3>4
    <3> HIDE DEF h
    <3>6. g = h
      BY <3>2, <3>5, SameSeq
    <3> QED
      BY <3>6 DEF h
  <2> HIDE DEF f, g
  <2>2. /\ P!Those(Kept, f) \in Seq(Seq(Characters))
        /\ P!Those(Kept, Append(f, Cur)) = IF Cur \in Kept THEN Append(P!Those(Kept, f), Cur) ELSE P!Those(Kept, f)
    BY <1>1, <1>5, KeptAppend
  <2> QED
    BY <1>4, <1>6, <2>1, <2>2
<1>7. CASE ch \notin Separators
  <2>1. g = f
    <3> HIDE DEF now, next, l, f
    <3>1. Len(next) = l /\ l - 1 \in 0..Len(next)
      BY <1>1, <1>2, <1>3, <1>7
    <3>2. g \in Seq(Seq(Characters)) /\ Len(g) = l - 1
      BY <1>2, <3>1, CutIs
    <3>3. \A j \in 1..(l - 1) : g[j] = now[j]
      BY <1>1, <1>2, <1>3, <1>7, <3>1 DEF Cut
    <3> HIDE DEF g
    <3>4. Len(g) = Len(f) /\ \A j \in 1..Len(g) : g[j] = f[j]
      BY <1>5, <3>2, <3>3
    <3> QED
      BY <1>5, <3>2, <3>4, SameSeq
  <2> HIDE DEF f, g
  <2>2. P!Those(Kept, f) \in Seq(Seq(Characters))
    BY <1>1, <1>5, KeptAppend
  <2> QED
    BY <1>4, <1>7, <2>1, <2>2
<1> QED
  BY <1>6, <1>7

\* At the end the last word is a segment, too.
LEMMA SegmentsAtEnd ==
  ASSUME TypeOK, WordsNow = Words(pattern)
  PROVE  /\ SegmentsNow \in Seq(Seq(Characters))
         /\ Cur \in Kept => Segments(pattern) = Append(SegmentsNow, Cur)
<1> DEFINE l == Len(WordsNow)
           now == WordsNow
           f == Cut(now, l - 1)
<1>1. now \in Seq(Seq(Characters)) /\ l \in Nat /\ l >= 1 /\ l = Len(now) /\ l - 1 \in 0..Len(now) /\ Cur = now[l]
      /\ Cur \in Seq(Characters)
  BY PatternIs, SomeWordsAre DEF Cur
<1>2. Segments(pattern) = P!Those(Kept, now) /\ SegmentsNow = P!Those(Kept, f)
  BY DEF Segments, Kept, SegmentsNow
<1> HIDE DEF l, now
<1>3. f \in Seq(Seq(Characters)) /\ Len(f) = l - 1 /\ \A j \in 1..(l - 1) : f[j] = now[j]
  <2>1. Cut(now, l - 1) \in Seq(Seq(Characters)) /\ Len(Cut(now, l - 1)) = l - 1
    BY <1>1, CutIs, SMTT(30)
  <2>2. \A j \in 1..(l - 1) : Cut(now, l - 1)[j] = now[j]
    BY <1>1 DEF Cut
  <2> QED
    BY <2>1, <2>2
<1> HIDE DEF f
<1>4. now = Append(f, Cur)
  <2>1. \A j \in 1..l : j = l \/ j \in 1..(l - 1)
    BY <1>1
  <2>2. Append(f, Cur) \in Seq(Seq(Characters)) /\ Len(Append(f, Cur)) = l
        /\ \A j \in 1..l : Append(f, Cur)[j] = now[j]
    BY <1>1, <1>3, <2>1
  <2> QED
    BY <1>1, <2>2
<1>5. /\ P!Those(Kept, f) \in Seq(Seq(Characters))
      /\ P!Those(Kept, Append(f, Cur)) = IF Cur \in Kept THEN Append(P!Those(Kept, f), Cur) ELSE P!Those(Kept, f)
  BY <1>1, <1>3, KeptAppend
<1> QED
  BY <1>2, <1>4, <1>5

\* So no raw star is in the expression, nor at hand but for one that is alone.
LEMMA FineStars ==
  ASSUME Told, Fine
  PROVE  /\ ~HasStar(accumulator)
         /\ HasStar(value) => Cur = <<Star>> \/ Cur = Globstar
         /\ ~foundGlobstar => ~HasStar(Piece)
<1>1. ~StarLedNow
  BY ToldIs, NoStarLed
<1>2. /\ HasStar(accumulator) => StarLedNow
      /\ HasStar(value) => value \in {<<Star>>, <<Star, Star>>} \/ StarLed(Cur)
      /\ StarLed(Cur) => StarLedNow
  BY ToldIs
<1>3. (value = <<Star>> <=> Cur = <<Star>>) /\ (value = <<Star, Star>> <=> Cur = Globstar)
  BY ToldIs DEF InHand
<1> QED
  BY <1>1, <1>2, <1>3, PieceNoStar

\* No caret is in a word.
LEMMA FineLiteral ==
  ASSUME TypeOK, Fine, NEW chars, At(chars), ch \notin Separators
  PROVE  ch # Caret
<1> DEFINE all == Words(pattern)
           l == Len(WordsNow)
           w == all[l]
           s == Append(Cur, ch)
<1>1. l \in 1..Len(all) /\ all \in SomeWords /\ Begins(s, w) /\ ch \in Characters
  BY WordNow, AtType
<1>2. Cur \in Seq(Characters) /\ Len(Cur) \in Nat
  BY PatternIs
<1>3. l \in DOMAIN all /\ w \in Seq(Characters)
  BY <1>1, SomeWordsAre, WordsDomain
<1>4. s[Len(Cur) + 1] = ch /\ Len(s) = Len(Cur) + 1
  BY <1>1, <1>2
<1> HIDE DEF s, w
<1>5. Len(Cur) + 1 \in DOMAIN w /\ w[Len(Cur) + 1] = ch
  BY <1>1, <1>2, <1>3, <1>4 DEF Begins
<1>6. ch = Caret => CaretIsNoLiteral(all)
  BY <1>3, <1>5 DEF CaretIsNoLiteral, Has, w
<1> QED
  BY <1>6, FineIs

\* A word that is not that of the current directory does not spell it.
LEMMA FineDots ==
  ASSUME Told, Fine, At(Separators), valueRaw = <<Dot>>
  PROVE  Cur = <<Dot>>
<1> DEFINE l == Len(WordsNow)
           all == Words(pattern)
<1>1. TypeOK /\ ch \in Separators
  BY ToldIs DEF At
<1>2. l \in 1..(Len(all) - 1) /\ all[l] = Cur
  BY <1>1, WordNow
<1>3. Cur \in Seq(Literals \cup Wildcards) /\ LiteralsOf(Cur) = <<Dot>>
  BY ToldIs DEF InHand
<1>4. ~Has(Cur, Wildcards)
  <2>1. Has(Cur, Wildcards) => LooksLikeDots(all)
    BY <1>2, <1>3 DEF LooksLikeDots
  <2> QED
    BY <2>1, FineIs
<1>5. \A j \in DOMAIN Cur : Cur[j] \in Literals
  BY <1>3, <1>4 DEF Has
<1>6. Cur \in Seq(Literals)
  <2>1. Len(Cur) \in Nat /\ DOMAIN Cur = 1..Len(Cur) /\ Cur = [j \in 1..Len(Cur) |-> Cur[j]]
    BY <1>3
  <2>2. [j \in 1..Len(Cur) |-> Cur[j]] \in [1..Len(Cur) -> Literals]
    BY <1>5, <2>1
  <2> QED
    BY <2>1, <2>2
<1> QED
  BY <1>3, <1>6, LiteralsStay

\* What follows from it for a path.
LEMMA TrackedIs ==
  ASSUME NEW before, NEW word, NEW top, NEW wild, NEW expression, NEW reading,
         Tracked(before, word, top, wild, expression, reading), NEW names \in Seq(Names)
  PROVE  /\ Begins(top, names) =>
              ReadersAlong(before, names) \subseteq Len(top)..Len(names)
              /\ (~wild => ReadersAlong(before, names) = {Len(top)})
         /\ ~Begins(top, names) => ReadersAlong(before, names) = {}
BY DEF Tracked

\* And for the places in its text.
LEMMA TrackedReads ==
  ASSUME NEW before, NEW word, NEW top, NEW wild, NEW expression, NEW reading,
         Tracked(before, word, top, wild, expression, reading), NEW names \in Seq(Names),
         Begins(top, names), NEW text, NEW o, Laid(text, names, Len(top), o)
  PROVE  /\ word # Globstar => StandIn(ReadersOf(reading, text), names, o, ReadersAlong(before, names), word)
         /\ Len(word) <= 1 \/ word = Globstar =>
              StandBefore(ReadersOf(expression, text), names, o, ReadersAlong(before, names))
BY DEF Tracked

\* A piece of its own for a character, and what is read after it, the pieces before
\* a word apart.
PieceOf(c, p) ==
  \/ c \in Literals /\ c # Caret /\ p = c
  \/ c = Question /\ p = NotSep
  \/ c = Star /\ p = NamePart
ReadWith(word, c, p, expression, reading, e, n) ==
  /\ Append(word, c) # Globstar => n = Append(reading, p)
  /\ word = <<>> \/ Append(word, c) = Globstar => e = expression /\ Len(word) <= 1

\* One more character of a word.
LEMMA TrackChar ==
  ASSUME NEW before, NEW word \in Seq(Characters), NEW top, NEW wild, NEW expression,
         NEW reading \in Seq(Pieces), Tracked(before, word, top, wild, expression, reading),
         NEW c \in Characters, NEW p \in Pieces, PieceOf(c, p), word # Globstar,
         NEW more, wild => more, NEW e, NEW n, ReadWith(word, c, p, expression, reading, e, n)
  PROVE  Tracked(before, Append(word, c), top, more, e, n)
<1> USE DEF PieceOf, ReadWith
<1>1. ASSUME NEW names \in Seq(Names), Begins(top, names), NEW text, NEW o, Laid(text, names, Len(top), o)
      PROVE  /\ Append(word, c) # Globstar => StandIn(ReadersOf(n, text), names, o, ReadersAlong(before, names), Append(word, c))
             /\ Len(Append(word, c)) <= 1 \/ Append(word, c) = Globstar =>
                  StandBefore(ReadersOf(e, text), names, o, ReadersAlong(before, names))
  <2> DEFINE X == ReadersAlong(before, names)
             places == ReadersOf(reading, text)
  <2>1. X \subseteq Len(top)..Len(names)
    BY <1>1, TrackedIs
  <2>2. StandIn(places, names, o, X, word) /\ (Len(word) <= 1 => StandBefore(ReadersOf(expression, text), names, o, X))
    BY <1>1, TrackedReads
  <2>3. text \in Seq(Pieces)
    BY <1>1, LaidIs
  <2>4. ReadersOf(Append(reading, p), text) = PieceLeads(p, text, places)
    BY <2>3, MoreReaders
  <2> HIDE DEF X, places
  <2>5. StandIn(PieceLeads(p, text, places), names, o, X, Append(word, c))
    <3> DEFINE r == Len(top)
    <3>1. Laid(text, names, r, o) /\ X \subseteq r..Len(names)
      BY <1>1, <2>1
    <3> HIDE DEF r
    <3> QED
      BY <2>2, <3>1, StandOn
  <2>6. Append(word, c) # Globstar => StandIn(ReadersOf(n, text), names, o, X, Append(word, c))
    BY <2>4, <2>5
  <2>7. Len(Append(word, c)) <= 1 => word = <<>>
    OBVIOUS
  <2>8. Len(Append(word, c)) <= 1 \/ Append(word, c) = Globstar => StandBefore(ReadersOf(e, text), names, o, X)
    BY <2>2, <2>7
  <2> QED
    BY <2>6, <2>8 DEF X
<1>2. ASSUME NEW names \in Seq(Names)
      PROVE  /\ Begins(top, names) =>
                  ReadersAlong(before, names) \subseteq Len(top)..Len(names)
                  /\ (~more => ReadersAlong(before, names) = {Len(top)})
             /\ ~Begins(top, names) => ReadersAlong(before, names) = {}
  BY TrackedIs
<1> QED
  BY <1>1, <1>2 DEF Tracked

\* After a separator it is enough to know who stands there.
LEMMA TrackSep ==
  ASSUME NEW before, NEW top, NEW wild \in BOOLEAN, NEW e,
         ASSUME NEW names \in Seq(Names)
         PROVE  /\ Begins(top, names) =>
                     ReadersAlong(before, names) \subseteq Len(top)..Len(names)
                     /\ (~wild => ReadersAlong(before, names) = {Len(top)})
                /\ ~Begins(top, names) => ReadersAlong(before, names) = {},
         ASSUME NEW names \in Seq(Names), Begins(top, names), NEW text, NEW o, Laid(text, names, Len(top), o)
         PROVE  StandBefore(ReadersOf(e, text), names, o, ReadersAlong(before, names))
  PROVE  Tracked(before, <<>>, top, wild, e, e)
<1>1. ASSUME NEW names \in Seq(Names), Begins(top, names), NEW text, NEW o, Laid(text, names, Len(top), o)
      PROVE  /\ StandIn(ReadersOf(e, text), names, o, ReadersAlong(before, names), <<>>)
             /\ StandBefore(ReadersOf(e, text), names, o, ReadersAlong(before, names))
  <2> DEFINE X == ReadersAlong(before, names)
             places == ReadersOf(e, text)
  <2>1. StandBefore(places, names, o, X) /\ X \subseteq Len(top)..Len(names)
    BY <1>1
  <2> HIDE DEF X, places
  <2>2. StandIn(places, names, o, X, <<>>)
    BY <1>1, <2>1, StandAnew
  <2> QED
    BY <2>1, <2>2 DEF X, places
<1> QED
  BY <1>1 DEF Tracked

\* Readers who are nowhere are led nowhere.
LEMMA NobodyIsLed ==
  ASSUME NEW word, NEW names
  PROVE  WordLeads(word, names, {}) = {} /\ LastLeads(word, names, {}) = {}
BY DEF WordLeads, LastLeads

\* A word that is passed, or none.
LEMMA TrackPassed ==
  ASSUME NEW before, NEW word, NEW top, NEW wild \in BOOLEAN, NEW expression, NEW reading,
         Tracked(before, word, top, wild, expression, reading), Len(word) <= 1
  PROVE  Tracked(before, <<>>, top, wild, expression, expression)
<1>1. ASSUME NEW names \in Seq(Names), Begins(top, names), NEW text, NEW o, Laid(text, names, Len(top), o)
      PROVE  StandBefore(ReadersOf(expression, text), names, o, ReadersAlong(before, names))
  BY <1>1, TrackedReads
<1>2. ASSUME NEW names \in Seq(Names)
      PROVE  /\ Begins(top, names) =>
                  ReadersAlong(before, names) \subseteq Len(top)..Len(names)
                  /\ (~wild => ReadersAlong(before, names) = {Len(top)})
             /\ ~Begins(top, names) => ReadersAlong(before, names) = {}
  BY TrackedIs
<1> QED
  BY <1>1, <1>2, TrackSep

\* A globstar that a separator follows.
LEMMA TrackGlobstar ==
  ASSUME NEW before \in Seq(Seq(Characters)), NEW top, NEW expression \in Seq(Pieces), NEW reading,
         Tracked(before, Globstar, top, TRUE, expression, reading)
  PROVE  Tracked(Append(before, Globstar), <<>>, top, TRUE, Append(expression, Deep), Append(expression, Deep))
<1>0. Globstar \in Seq(Characters)
  BY Kinds DEF Globstar
<1>1. ASSUME NEW names \in Seq(Names), Begins(top, names), NEW text, NEW o, Laid(text, names, Len(top), o)
      PROVE  StandBefore(ReadersOf(Append(expression, Deep), text), names, o,
                         ReadersAlong(Append(before, Globstar), names))
  <2> DEFINE X == ReadersAlong(before, names)
             places == ReadersOf(expression, text)
             r == Len(top)
  <2>1. X \subseteq r..Len(names)
    BY <1>1, TrackedIs
  <2>2. StandBefore(places, names, o, X)
    BY <1>1, TrackedReads
  <2>3. text \in Seq(Pieces) /\ Laid(text, names, r, o)
    BY <1>1, LaidIs
  <2>4. ReadersOf(Append(expression, Deep), text) = PieceLeads(Deep, text, places)
    BY <2>3, MoreReaders, PiecesNoStar
  <2>5. ReadersAlong(Append(before, Globstar), names) = WordLeads(Globstar, names, X)
    BY <1>0, MoreAlong
  <2> HIDE DEF X, places, r
  <2> QED
    BY <2>1, <2>2, <2>3, <2>4, <2>5, StandAfterGlobstar
<1>2. ASSUME NEW names \in Seq(Names)
      PROVE  /\ Begins(top, names) => ReadersAlong(Append(before, Globstar), names) \subseteq Len(top)..Len(names)
             /\ ~Begins(top, names) => ReadersAlong(Append(before, Globstar), names) = {}
  <2> DEFINE X == ReadersAlong(before, names)
  <2>1. ReadersAlong(Append(before, Globstar), names) = WordLeads(Globstar, names, X)
    BY <1>0, MoreAlong
  <2>2. /\ Begins(top, names) => X \subseteq Len(top)..Len(names)
        /\ ~Begins(top, names) => X = {}
    BY TrackedIs
  <2>3. ASSUME Begins(top, names) PROVE WordLeads(Globstar, names, X) \subseteq Len(top)..Len(names)
    <3>1. ASSUME NEW j \in X PROVE WordStep(Globstar, names)[j] \subseteq Len(top)..Len(names)
      <4>1. j \in Len(top)..Len(names) /\ j \in 0..Len(names)
        BY <1>0, <2>2, <2>3, MoreAlong
      <4>2. WordStep(Globstar, names)[j] = j..Len(names)
        BY <4>1 DEF WordStep
      <4> QED
        BY <4>1, <4>2 DEF Begins
    <3> HIDE DEF X
    <3> QED
      BY <3>1 DEF WordLeads
  <2> HIDE DEF X
  <2> QED
    BY <2>1, <2>2, <2>3, NobodyIsLed
<1> QED
  BY <1>1, <1>2, TrackSep

\* A word that a separator follows, after a wildcard or with one.
LEMMA TrackName ==
  ASSUME NEW before \in Seq(Seq(Characters)), NEW word \in Seq(Characters), word # Globstar,
         NEW top, NEW expression, NEW reading \in Seq(Pieces),
         Tracked(before, word, top, TRUE, expression, reading)
  PROVE  Tracked(Append(before, word), <<>>, top, TRUE, Append(reading, Sep), Append(reading, Sep))
<1>1. ASSUME NEW names \in Seq(Names), Begins(top, names), NEW text, NEW o, Laid(text, names, Len(top), o)
      PROVE  StandBefore(ReadersOf(Append(reading, Sep), text), names, o,
                         ReadersAlong(Append(before, word), names))
  <2> DEFINE X == ReadersAlong(before, names)
             places == ReadersOf(reading, text)
             r == Len(top)
  <2>1. X \subseteq r..Len(names)
    BY <1>1, TrackedIs
  <2>2. StandIn(places, names, o, X, word)
    BY <1>1, TrackedReads
  <2>3. text \in Seq(Pieces) /\ Laid(text, names, r, o)
    BY <1>1, LaidIs
  <2>4. ReadersOf(Append(reading, Sep), text) = PieceLeads(Sep, text, places)
    BY <2>3, MoreReaders, PiecesNoStar
  <2>5. ReadersAlong(Append(before, word), names) = WordLeads(word, names, X)
    BY MoreAlong
  <2> HIDE DEF X, places, r
  <2> QED
    BY <2>1, <2>2, <2>3, <2>4, <2>5, StandAfterName
<1>2. ASSUME NEW names \in Seq(Names)
      PROVE  /\ Begins(top, names) => ReadersAlong(Append(before, word), names) \subseteq Len(top)..Len(names)
             /\ ~Begins(top, names) => ReadersAlong(Append(before, word), names) = {}
  <2> DEFINE X == ReadersAlong(before, names)
  <2>1. ReadersAlong(Append(before, word), names) = WordLeads(word, names, X)
    BY MoreAlong
  <2>2. /\ Begins(top, names) => X \subseteq Len(top)..Len(names)
        /\ ~Begins(top, names) => X = {}
    BY TrackedIs
  <2>3. ASSUME Begins(top, names) PROVE WordLeads(word, names, X) \subseteq Len(top)..Len(names)
    <3>1. ASSUME NEW j \in X PROVE WordStep(word, names)[j] \subseteq Len(top)..Len(names)
      <4>1. j \in Len(top)..Len(names) /\ j \in 0..Len(names)
        BY <2>2, <2>3, MoreAlong
      <4>2. WordStep(word, names)[j] \subseteq {i \in {j + 1} : i <= Len(names)}
        BY <4>1 DEF WordStep
      <4>3. j + 1 <= Len(names) => j + 1 \in Len(top)..Len(names)
        BY <4>1
      <4> QED
        BY <4>2, <4>3
    <3> HIDE DEF X
    <3> QED
      BY <3>1 DEF WordLeads
  <2> HIDE DEF X
  <2> QED
    BY <2>1, <2>2, <2>3, NobodyIsLed
<1> QED
  BY <1>1, <1>2, TrackSep

\* A directory before the first wildcard is one of the root.
LEMMA TrackRoot ==
  ASSUME NEW before \in Seq(Seq(Characters)), NEW word \in Names, word \in Seq(Characters),
         NEW top \in Seq(Names), NEW expression, NEW reading,
         Tracked(before, word, top, FALSE, expression, reading)
  PROVE  Tracked(Append(before, word), <<>>, Append(top, word), FALSE, <<Sep>>, <<Sep>>)
<1> DEFINE r == Len(top)
           more == Append(top, word)
<1>0. r \in Nat /\ more \in Seq(Names) /\ Len(more) = r + 1 /\ more[r + 1] = word /\ \A i \in 1..r : more[i] = top[i]
  OBVIOUS
<1>g. word # Globstar
  <2>0. Len(word) >= 1 => word[1] \in Literals
    BY DEF Names
  <2>1. Len(Globstar) = 2 /\ Globstar[1] = Star
    BY DEF Globstar
  <2> SUFFICES ASSUME word = Globstar PROVE FALSE
    OBVIOUS
  <2>2. word \in Seq(Literals) /\ Len(word) = 2 /\ word[1] = Star
    BY <2>1 DEF Names
  <2>3. word[1] \in Literals
    BY <2>0, <2>2
  <2> QED
    BY <2>2, <2>3, Kinds
<1>1. ASSUME NEW names \in Seq(Names)
      PROVE  /\ Begins(more, names) => ReadersAlong(Append(before, word), names) = {r + 1} /\ r + 1 <= Len(names)
             /\ ~Begins(more, names) => ReadersAlong(Append(before, word), names) = {}
  <2> DEFINE X == ReadersAlong(before, names)
             n == Len(names)
  <2>1. ReadersAlong(Append(before, word), names) = WordLeads(word, names, X) /\ X \subseteq 0..n
    BY MoreAlong
  <2>2. /\ Begins(top, names) => X = {r}
        /\ ~Begins(top, names) => X = {}
    BY TrackedIs
  <2>3. n \in Nat /\ \A i \in 1..n : names[i] \in Names
    OBVIOUS
  <2> HIDE DEF r, more, X, n
  <2>4. Begins(more, names) <=> Begins(top, names) /\ r + 1 <= n /\ names[r + 1] = word
    <3>1. \A i \in 1..(r + 1) : i \in 1..r \/ i = r + 1
      BY <1>0
    <3>2. \A i \in 1..r : i \in 1..(r + 1)
      BY <1>0
    <3>3. r + 1 \in 1..(r + 1) /\ (r + 1 <= n => r <= n)
      BY <1>0, <2>3
    <3> QED
      BY <1>0, <3>1, <3>2, <3>3 DEF Begins, r, n
  <2>5. ASSUME Begins(top, names)
        PROVE  \A y : y \in WordLeads(word, names, X) <=> y = r + 1 /\ r + 1 <= n /\ names[r + 1] = word
    <3>1. r \in 0..n
      BY <2>1, <2>2, <2>5
    <3>2. WordStep(word, names)[r] = {i \in {r + 1} : i <= n /\ NameMatches(word, names[i])}
      BY <1>g, <3>1 DEF WordStep, n
    <3>3. WordLeads(word, names, X) = WordStep(word, names)[r]
      BY <2>2, <2>5 DEF WordLeads
    <3>4. r + 1 <= n => (NameMatches(word, names[r + 1]) <=> names[r + 1] = word)
      <4> SUFFICES ASSUME r + 1 <= n PROVE NameMatches(word, names[r + 1]) <=> names[r + 1] = word
        OBVIOUS
      <4>1. names[r + 1] \in Names
        BY <1>0, <2>3
      <4> QED
        BY <4>1, LiteralReaders
    <3> QED
      BY <3>2, <3>3, <3>4
  <2> DEFINE Y == WordLeads(word, names, X)
  <2>6. ASSUME Begins(top, names) PROVE \A y : y \in Y <=> y = r + 1 /\ r + 1 <= n /\ names[r + 1] = word
    BY <2>5, <2>6
  <2>7. ~Begins(top, names) => Y = {}
    BY <2>2, NobodyIsLed
  <2> HIDE DEF Y
  <2>8. Begins(more, names) => Y = {r + 1} /\ r + 1 <= n
    <3> SUFFICES ASSUME Begins(more, names) PROVE Y = {r + 1} /\ r + 1 <= n
      OBVIOUS
    <3>1. Begins(top, names) /\ r + 1 <= n /\ names[r + 1] = word
      BY <2>4
    <3>2. \A y : y \in Y <=> y = r + 1
      BY <2>6, <3>1
    <3> QED
      BY <3>1, <3>2
  <2>9. ~Begins(more, names) => Y = {}
    <3> SUFFICES ASSUME ~Begins(more, names) PROVE Y = {}
      OBVIOUS
    <3>1. CASE Begins(top, names)
      <4>1. \A y : y \notin Y
        BY <2>4, <2>6, <3>1
      <4> QED
        BY <4>1
    <3> QED
      BY <2>7, <3>1
  <2> QED
    BY <2>1, <2>8, <2>9 DEF Y, n
<1>2. ASSUME NEW names \in Seq(Names), Begins(more, names), NEW text, NEW o, Laid(text, names, Len(more), o)
      PROVE  StandBefore(ReadersOf(<<Sep>>, text), names, o, ReadersAlong(Append(before, word), names))
  <2>1. ReadersAlong(Append(before, word), names) = {Len(more)}
    BY <1>0, <1>1, <1>2
  <2> HIDE DEF more
  <2> QED
    BY <1>2, <2>1, StandFirst
<1>3. ASSUME NEW names \in Seq(Names)
      PROVE  /\ Begins(more, names) =>
                  /\ ReadersAlong(Append(before, word), names) \subseteq Len(more)..Len(names)
                  /\ ReadersAlong(Append(before, word), names) = {Len(more)}
             /\ ~Begins(more, names) => ReadersAlong(Append(before, word), names) = {}
  <2> SUFFICES ASSUME Begins(more, names) PROVE r + 1 \in Len(more)..Len(names)
    BY <1>0, <1>1
  <2>1. r + 1 <= Len(names) /\ Len(names) \in Nat
    BY <1>1
  <2> HIDE DEF r, more
  <2> QED
    BY <1>0, <2>1
<1> HIDE DEF more
<1>4. Tracked(Append(before, word), <<>>, more, FALSE, <<Sep>>, <<Sep>>)
  BY <1>2, <1>3, TrackSep
<1> QED
  BY <1>4 DEF more

\* A path is below a root it goes on, if it is longer.
LEMMA StrictlyBegins ==
  ASSUME NEW T, NEW s \in Seq(T), NEW p \in Seq(T)
  PROVE  S!IsStrictPrefix(s, p) <=> Len(s) < Len(p) /\ Begins(s, p)
<1>1. Len(s) \in Nat /\ Len(p) \in Nat
  OBVIOUS
<1>2. S!IsStrictPrefix(s, p) <=> Len(s) < Len(p) /\ Cut(p, Len(s)) = s
  BY PrefixIsCut
<1>3. ASSUME Len(s) < Len(p) PROVE Cut(p, Len(s)) = s <=> \A i \in 1..Len(s) : p[i] = s[i]
  <2> DEFINE c == Cut(p, Len(s))
  <2>1. c \in Seq(T) /\ Len(c) = Len(s)
    BY <1>1, <1>3, CutIs
  <2>2. \A i \in 1..Len(s) : c[i] = p[i]
    BY <1>1, <1>3 DEF Cut
  <2> HIDE DEF c
  <2>3. (\A i \in 1..Len(s) : p[i] = s[i]) => c = s
    <3> SUFFICES ASSUME \A i \in 1..Len(s) : p[i] = s[i] PROVE c = s
      OBVIOUS
    <3>1. Len(c) = Len(s) /\ \A i \in 1..Len(c) : c[i] = s[i]
      BY <2>1, <2>2
    <3> QED
      BY <2>1, <3>1, SameSeq
  <2>4. c = s => \A i \in 1..Len(s) : p[i] = s[i]
    BY <2>2
  <2> QED
    BY <2>3, <2>4 DEF c
<1> QED
  BY <1>1, <1>2, <1>3 DEF Begins

\* Nobody is led on from the last name.
LEMMA EndLeads ==
  ASSUME NEW word, NEW names \in Seq(Names), NEW X, X \subseteq Len(names)..Len(names)
  PROVE  Len(names) \notin LastLeads(word, names, X)
<1>1. Len(names) \in Nat
  OBVIOUS
<1>2. \A j \in X : j = Len(names) /\ j \in 0..Len(names)
  BY <1>1
<1>3. ASSUME NEW j \in X PROVE LastStep(word, names)[j] = {}
  <2>1. j = Len(names) /\ j \in 0..Len(names)
    BY <1>2
  <2>2. LastStep(word, names)[j] = IF word = Globstar THEN {i \in j..Len(names) : j < i}
          ELSE {i \in {j + 1} : i <= Len(names) /\ NameMatches(word, names[i])}
    BY <2>1 DEF LastStep
  <2>3. {i \in j..Len(names) : j < i} = {}
    BY <1>1, <2>1
  <2>4. {i \in {j + 1} : i <= Len(names) /\ NameMatches(word, names[i])} = {}
    BY <1>1, <2>1
  <2> QED
    BY <2>2, <2>3, <2>4
<1> QED
  BY <1>3 DEF LastLeads

\* At the end the expression matches just the paths that the segments denote.
LEMMA TrackEnd ==
  ASSUME NEW before \in Seq(Seq(Characters)), NEW word \in Seq(Characters), NEW top \in Seq(Names), NEW wild,
         NEW expression \in Seq(Pieces), NEW reading \in Seq(Pieces),
         Tracked(before, word, top, wild, expression, reading),
         NEW final \in Seq(Pieces), word = Globstar => final = Append(expression, Rest),
         word # Globstar => final = reading, ~HasStar(final),
         NEW names \in Seq(Names), NEW text, text = Text(SubSeq(names, Len(top) + 1, Len(names)))
  PROVE  S!IsStrictPrefix(top, names) /\ text # <<>> /\ RegexMatch(final, text)
           <=> Denotes(Append(before, word), names)
<1> DEFINE X == ReadersAlong(before, names)
           n == Len(names)
           r == Len(top)
<1>1. Denotes(Append(before, word), names) <=> n \in LastLeads(word, names, X)
  BY MoreAlong
<1>2. S!IsStrictPrefix(top, names) <=> r < n /\ Begins(top, names)
  BY StrictlyBegins
<1>3. CASE ~Begins(top, names)
  <2>1. X = {}
    BY <1>3, TrackedIs
  <2>2. n \notin LastLeads(word, names, X)
    BY <2>1, NobodyIsLed
  <2> QED
    BY <1>1, <1>2, <1>3, <2>2
<1>4. CASE Begins(top, names)
  <2>1. X \subseteq r..n
    BY <1>4, TrackedIs
  <2>2. n \in Nat /\ r \in Nat /\ r <= n /\ r \in 0..Len(names)
    BY <1>4 DEF Begins
  <2>3. PICK o : Laid(text, names, r, o)
    BY <2>2, TextIsLaid
  <2>4. text \in Seq(Pieces) /\ Len(text) \in Nat
    BY <2>3, LaidIs
  <2>5. RegexMatch(final, text) <=> n \in LastLeads(word, names, X)
    <3>1. RegexMatch(final, text) <=> Len(text) \in ReadersOf(final, text)
      BY RegexMatchIs
    <3>2. CASE word # Globstar
      <4> DEFINE places == ReadersOf(reading, text)
      <4>1. StandIn(places, names, o, X, word)
        BY <1>4, <2>3, <3>2, TrackedReads
      <4>2. RegexMatch(final, text) <=> Len(text) \in places
        BY <3>1, <3>2
      <4> HIDE DEF places, X, r
      <4>3. Len(text) \in places <=> Len(names) \in LastLeads(word, names, X)
        BY <2>1, <2>3, <3>2, <4>1, StandAtEnd
      <4> QED
        BY <4>2, <4>3
    <3>3. CASE word = Globstar
      <4> DEFINE places == ReadersOf(expression, text)
      <4>1. StandBefore(places, names, o, X)
        BY <1>4, <2>3, <3>3, TrackedReads
      <4>2. ReadersOf(Append(expression, Rest), text) = PieceLeads(Rest, text, places)
        BY <2>4, MoreReaders, PiecesNoStar
      <4> HIDE DEF places, X, r
      <4>3. Len(text) \in PieceLeads(Rest, text, places) <=> Len(names) \in LastLeads(Globstar, names, X)
        BY <2>1, <2>3, <4>1, StandAtAnyEnd
      <4> QED
        BY <3>1, <3>3, <4>2, <4>3
    <3> QED
      BY <3>2, <3>3
  <2>6. r = n => n \notin LastLeads(word, names, X)
    <3> HIDE DEF X, r
    <3> QED
      BY <2>1, EndLeads
  <2>7. r < n => text # <<>>
    <3> HIDE DEF r
    <3> SUFFICES ASSUME r < n PROVE Len(text) > 0
      BY <2>4
    <3>1. r \in r..(n - 1) /\ r + 1 \in r..n
      BY <2>2
    <3>2. o[r] = 0 /\ o[r + 1] = o[r] + 1 + Len(names[r + 1]) /\ Len(names[r + 1]) \in Nat
          /\ o[r + 1] <= Len(text)
      BY <2>3, <3>1, LaidIs, SMTT(30)
    <3> QED
      BY <2>4, <3>2
  <2> HIDE DEF X, r
  <2> QED
    BY <1>1, <1>2, <1>4, <2>2, <2>5, <2>6, <2>7
<1> QED
  BY <1>3, <1>4

-----------------------------------------------------------------------------
(* The constructor keeps track                                              *)

\* The expression is begun where there is a wildcard; until then what is at hand is
\* the word itself.
WildSoFar ==
  /\ foundWildcard => WildNow
  /\ ~foundWildcard => Cur = valueRaw /\ accumulator = <<Sep>>

\* Only after a current directory a separator is read and not taken for the last one.
DotBefore ==
  Cur = <<>> /\ lastch \notin Separators /\ Len(WordsNow) > 1 => WordsNow[Len(WordsNow) - 1] = <<Dot>>

\* A pattern is read as it is meant if it has no defects and names no drive.
Plain == Fine /\ ~NamesADrive(Words(pattern))

\* What is known of such a pattern while it is read.
Meant == Plain => WildSoFar /\ DotBefore /\ Tracks

\* What a step knows of the state it begins in, if the pattern is read as it is meant.
Going == Told /\ Plain /\ RootInv /\ WildSoFar /\ DotBefore /\ Tracks

\* The types of what it knows.
LEMMA GoingIs ==
  ASSUME Going
  PROVE  /\ Told /\ Fine /\ TypeOK /\ WildSoFar /\ DotBefore
         /\ RootInv /\ Homely /\ ~NamesADrive(Words(pattern))
         /\ Tracked(SegmentsNow, Cur, root, foundWildcard, accumulator, accumulator \o Piece)
         /\ Cur \in Seq(Characters) /\ root \in Seq(Names) /\ foundWildcard \in BOOLEAN
         /\ accumulator \in Seq(Pieces) /\ Piece \in Seq(Pieces) /\ accumulator \o Piece \in Seq(Pieces)
<1>1. /\ Told /\ Fine /\ TypeOK /\ WildSoFar /\ DotBefore /\ Tracks
      /\ RootInv /\ Homely /\ ~NamesADrive(Words(pattern))
  BY ToldIs DEF Going, Plain, RootInv
<1>2. accumulator \in Seq(Pieces) /\ Piece \in Seq(Pieces)
  BY <1>1, ToldIs
<1>3. root \in Seq(Names) /\ foundWildcard \in BOOLEAN
  BY <1>1 DEF TypeOK, Names
<1>4. accumulator \o Piece \in Seq(Pieces)
  BY <1>2
<1> QED
  BY <1>1, <1>2, <1>3, <1>4, PatternIs DEF Tracks

\* A character of a word, and the piece it brings.
LEMMA MeantChar ==
  ASSUME Going, NEW chars, At(chars), it' = it + 1, pattern' = pattern, root' = root,
         ch \notin Separators, Cur # Globstar,
         NEW p \in Pieces,
         \/ ch \in Literals /\ p = ch
         \/ ch = Question /\ p = NotSep
         \/ ch = Star /\ p = NamePart,
         foundWildcard' \in BOOLEAN, foundWildcard => foundWildcard', ch \in Wildcards => foundWildcard',
         foundWildcard' => foundWildcard \/ ch \in Wildcards,
         ~foundWildcard' => valueRaw' = Append(valueRaw, ch) /\ accumulator' = accumulator,
         Append(Cur, ch) # Globstar => (accumulator \o Piece)' = Append(accumulator \o Piece, p),
         Cur = <<>> \/ Append(Cur, ch) = Globstar => accumulator' = accumulator /\ Len(Cur) <= 1
  PROVE  WildSoFar' /\ DotBefore' /\ Tracks'
<1>1. ch \in Characters /\ Cur' = Append(Cur, ch) /\ SegmentsNow' = SegmentsNow
  BY GoingIs, ReadOn, SegmentsOn
<1>2. Append(Cur, ch) # <<>>
  BY <1>1, GoingIs, AppendShort
<1>3. Tracks'
  <2>1. ch # Caret
    BY GoingIs, FineLiteral
  <2> DEFINE e == accumulator'
             n == (accumulator \o Piece)'
             w == foundWildcard'
  <2>2. /\ w \in BOOLEAN /\ (foundWildcard => w)
        /\ Append(Cur, ch) # Globstar => n = Append(accumulator \o Piece, p)
        /\ Cur = <<>> \/ Append(Cur, ch) = Globstar => e = accumulator /\ Len(Cur) <= 1
    OBVIOUS
  <2> HIDE DEF e, n, w
  <2> DEFINE b == SegmentsNow
             u == Cur
             c == ch
             r == root
             v == foundWildcard
             f == accumulator
             g == accumulator \o Piece
  <2>3. /\ Tracked(b, u, r, v, f, g) /\ u \in Seq(Characters) /\ v \in BOOLEAN /\ g \in Seq(Pieces)
        /\ c \in Characters /\ u # Globstar /\ w \in BOOLEAN /\ (v => w)
    BY <1>1, <2>2, GoingIs
  <2>4. PieceOf(c, p)
    BY <2>1 DEF PieceOf
  <2>5. ReadWith(u, c, p, f, g, e, n)
    BY <2>2 DEF ReadWith
  <2> HIDE DEF b, u, c, r, v, f, g
  <2>6. Tracked(b, Append(u, c), r, w, e, n)
    BY <2>3, <2>4, <2>5, TrackChar
  <2>7. Tracked(SegmentsNow, Append(Cur, ch), root, w, e, n)
    BY <2>6 DEF b, u, c, r
  <2> QED
    BY <1>1, <2>7, TracksPrime DEF e, n, w
<1>4. DotBefore'
  BY <1>1, <1>2 DEF DotBefore
<1>5. WildSoFar'
  <2>1. foundWildcard' => WildNow'
    BY GoingIs, WildStays DEF WildSoFar
  <2>2. ~foundWildcard' => Cur' = valueRaw' /\ accumulator' = <<Sep>>
    BY <1>1, GoingIs DEF WildSoFar
  <2> QED
    BY <2>1, <2>2 DEF WildSoFar
<1> QED
  BY <1>3, <1>4, <1>5

\* A globstar is a segment, and all words are that have characters and are not a dot.
LEMMA KeptIs ==
  /\ \A w \in Seq(Characters) : w \in Kept <=> w # <<>> /\ w # <<Dot>>
  /\ Globstar \in Kept /\ Globstar \in Seq(Characters)
<1>1. Len(Globstar) = 2 /\ Len(<<>>) = 0 /\ Len(<<Dot>>) = 1 /\ Globstar \in Seq(Characters)
  BY Kinds DEF Globstar
<1> QED
  BY <1>1, SMTT(30) DEF Kept

\* A separator, after which nothing is at hand.
LEMMA MeantSep ==
  ASSUME Going, At(Separators), it' = it + 1, pattern' = pattern, value' = <<>>, valueRaw' = <<>>,
         accumulator' \in Seq(Pieces), foundWildcard' = foundWildcard,
         ~foundWildcard => accumulator' = accumulator,
         lastch' \in Separators \/ Cur = <<Dot>>,
         Cur \in Kept => Tracked(Append(SegmentsNow, Cur), <<>>, root', foundWildcard, accumulator', accumulator'),
         Cur \notin Kept => accumulator' = accumulator /\ root' = root
  PROVE  WildSoFar' /\ DotBefore' /\ Tracks'
<1>1. /\ ch \in Separators /\ Cur' = <<>> /\ Len(WordsNow') = Len(WordsNow) + 1
      /\ WordsNow'[Len(WordsNow)] = Cur /\ Len(WordsNow) \in Nat
      /\ SegmentsNow' = IF Cur \in Kept THEN Append(SegmentsNow, Cur) ELSE SegmentsNow
  <2>1. ch \in Separators /\ TypeOK /\ Len(WordsNow) \in 1..Len(WordsNow) /\ Len(WordsNow) \in Nat
    BY GoingIs, PatternIs DEF At
  <2> QED
    BY <2>1, ReadOn, SegmentsOn DEF Cur
<1>2. DotBefore'
  BY <1>1 DEF DotBefore
<1>3. WildSoFar'
  <2>1. foundWildcard' => WildNow'
    BY GoingIs, WildStays DEF WildSoFar
  <2>2. ~foundWildcard' => Cur' = valueRaw' /\ accumulator' = <<Sep>>
    BY <1>1, GoingIs, SMTT(30) DEF WildSoFar
  <2> QED
    BY <2>1, <2>2 DEF WildSoFar
<1>4. (accumulator \o Piece)' = accumulator'
  <2>1. Piece' = <<>>
    BY ShortStars DEF Piece
  <2> DEFINE e == accumulator'
  <2>2. e \in Seq(Pieces)
    OBVIOUS
  <2> HIDE DEF e
  <2>3. e \o <<>> = e
    BY <2>2
  <2> QED
    BY <2>1, <2>3 DEF e
<1> DEFINE b == IF Cur \in Kept THEN Append(SegmentsNow, Cur) ELSE SegmentsNow
           c == <<>>
           t == root'
           w == foundWildcard'
           e == accumulator'
<1>5. ASSUME Tracked(b, c, t, w, e, e) PROVE Tracks'
  <2>1. /\ SegmentsNow' = b /\ Cur' = c /\ root' = t /\ foundWildcard' = w /\ accumulator' = e
        /\ (accumulator \o Piece)' = e
    BY <1>1, <1>4
  <2> HIDE DEF b, c, t, w, e
  <2> QED
    BY <1>5, <2>1, TracksPrime
<1>6. CASE Cur \in Kept
  <2> DEFINE d == Append(SegmentsNow, Cur)
             v == foundWildcard
  <2>1. Tracked(d, c, t, v, e, e) /\ b = d /\ w = v
    BY <1>6
  <2> HIDE DEF b, c, d, t, w, v, e
  <2>2. Tracked(b, c, t, w, e, e)
    BY <2>1
  <2> QED
    BY <1>2, <1>3, <1>5, <2>2
<1>7. CASE Cur \notin Kept
  <2> DEFINE d == SegmentsNow
             u == Cur
             r == root
             v == foundWildcard
             f == accumulator
             g == accumulator \o Piece
  <2>1. Tracked(d, u, r, v, f, g)
    BY GoingIs
  <2>2. Len(u) <= 1 /\ v \in BOOLEAN
    <3>1. Cur = <<>> \/ Cur = <<Dot>>
      BY <1>7, GoingIs, KeptIs
    <3>2. Len(<<>>) <= 1 /\ Len(<<Dot>>) <= 1
      OBVIOUS
    <3>3. foundWildcard \in BOOLEAN
      BY GoingIs
    <3> QED
      BY <3>1, <3>2, <3>3
  <2> HIDE DEF d, u, r, v, f, g
  <2>3. Tracked(d, <<>>, r, v, f, f)
    BY <2>1, <2>2, TrackPassed
  <2>4. b = d /\ t = r /\ w = v /\ e = f
    BY <1>7 DEF d, r, v, f
  <2> HIDE DEF b, t, w, e
  <2>5. Tracked(b, <<>>, t, w, e, e)
    BY <2>3, <2>4
  <2> QED
    BY <1>2, <1>3, <1>5, <2>5 DEF c
<1> QED
  BY <1>2, <1>3, <1>6, <1>7

\* What has to be known after the step.
MeantAfter == WildSoFar' /\ DotBefore' /\ Tracks'

\* A separator that repeats another is passed.
LEMMA RepeatedSeparatorMeant == ASSUME Going, RepeatedSeparator PROVE MeantAfter
<1>1. /\ At(Separators) /\ it' = it + 1 /\ pattern' = pattern /\ lastch \in Separators /\ lastch' = lastch
      /\ UNCHANGED <<value, valueRaw, accumulator, foundWildcard, root>>
  BY DEF RepeatedSeparator, Continue, scan
<1>2. Cur = <<>> /\ value = <<>> /\ valueRaw = <<>>
  BY <1>1, GoingIs, SepLast
<1>3. Cur \notin Kept /\ accumulator \in Seq(Pieces)
  BY <1>2, GoingIs, KeptIs
<1> QED
  BY <1>1, <1>2, <1>3, MeantSep DEF MeantAfter

\* After a current directory a separator that is repeated would be a defect.
LEMMA NotAfterDot == ASSUME Going, At(Separators), lastch \notin Separators, Cur = <<>> PROVE ~foundWildcard
<1> SUFFICES ASSUME foundWildcard PROVE FALSE
  OBVIOUS
<1> DEFINE all == Words(pattern)
           now == WordsNow
           l == Len(WordsNow)
<1>1. TypeOK /\ ch \in Separators /\ WildNow
  BY GoingIs DEF At, WildSoFar
<1>2. PICK i \in 1..l : Has(now[i], Wildcards)
  BY <1>1 DEF WildNow
<1>3. l \in Nat /\ l >= 1 /\ now[l] = <<>>
  BY <1>1, PatternIs DEF Cur
<1>4. ~Has(<<>>, Wildcards) /\ ~Has(<<Dot>>, Wildcards)
  BY Kinds, CharactersAssumption DEF Has, Wildcards
<1>5. i # l
  BY <1>2, <1>3, <1>4
<1>6. l > 1
  BY <1>2, <1>3, <1>5
<1>7. now[l - 1] = <<Dot>>
  BY <1>6, GoingIs DEF DotBefore
<1>8. i # l - 1
  BY <1>2, <1>4, <1>7
<1>9. l - 1 \in 1..(l - 1) /\ i \in 1..(l - 1) /\ i \in 1..((l - 1) - 1)
  BY <1>2, <1>3, <1>5, <1>6, <1>8
<1>10. Len(all) \in Nat /\ all[l - 1] = <<Dot>> /\ Has(all[i], Wildcards)
  BY <1>1, <1>2, <1>7, <1>9, WordsLater
<1>11. l \in 1..(Len(all) - 1) /\ all[l] = <<>>
  BY <1>1, WordNow
<1> HIDE DEF l, all, now
<1>12. l - 1 \in 2..(Len(all) - 1) /\ (l - 1) + 1 = l
  BY <1>3, <1>9, <1>10, <1>11
<1>13. RepeatAfterDot(all)
  BY <1>9, <1>10, <1>11, <1>12 DEF RepeatAfterDot
<1> QED
  BY <1>13, GoingIs, FineIs DEF all

\* So is one that nothing is before.
LEMMA NoSegmentMeant == ASSUME Going, NoSegment PROVE MeantAfter
<1>1. /\ At(Separators) /\ it' = it + 1 /\ pattern' = pattern /\ lastch \notin Separators /\ lastch' = ch
      /\ value = <<>> /\ UNCHANGED <<value, valueRaw, foundWildcard, root>>
      /\ ~foundWildcard => accumulator' = accumulator
  BY DEF NoSegment, AfterSegment, Advance
<1>2. Cur = <<>> /\ valueRaw = <<>> /\ ch \in Separators
  BY <1>1, GoingIs, ToldIs DEF InHand, At
<1>3. ~foundWildcard
  BY <1>1, <1>2, NotAfterDot
<1>4. Cur \notin Kept /\ accumulator \in Seq(Pieces)
  BY <1>2, GoingIs, KeptIs
<1> QED
  BY <1>1, <1>2, <1>3, <1>4, MeantSep DEF MeantAfter

\* And a current directory.
LEMMA CurrentDirectoryMeant == ASSUME Going, CurrentDirectory PROVE MeantAfter
<1>1. /\ At(Separators) /\ it' = it + 1 /\ pattern' = pattern /\ valueRaw = <<Dot>>
      /\ value' = <<>> /\ valueRaw' = <<>> /\ UNCHANGED <<accumulator, foundWildcard, root>>
  BY DEF CurrentDirectory, AfterSegment, Continue, Clear
<1>2. Cur = <<Dot>>
  BY <1>1, GoingIs, FineDots
<1>3. Cur \notin Kept /\ accumulator \in Seq(Pieces)
  BY <1>2, GoingIs, KeptIs
<1> QED
  BY <1>1, <1>2, <1>3, MeantSep DEF MeantAfter

\* A globstar is appended with its separator.
LEMMA EndGlobstarMeant == ASSUME Going, EndGlobstar PROVE MeantAfter
<1>1. /\ At(Separators) /\ it' = it + 1 /\ pattern' = pattern /\ lastch' = ch /\ foundGlobstar
      /\ value' = <<>> /\ valueRaw' = <<>> /\ UNCHANGED <<foundWildcard, root>>
      /\ accumulator' = Append(accumulator, Deep)
  BY DEF EndGlobstar, AfterSegment, Advance, Clear
<1>2. ch \in Separators /\ Told /\ TypeOK
  BY <1>1, GoingIs DEF At
<1>3. value = <<Star, Star>> /\ Cur = Globstar
  BY <1>1, <1>2, ToldIs DEF InHand
<1>4. foundWildcard
  <2> SUFFICES ASSUME ~foundWildcard PROVE FALSE
    OBVIOUS
  <2>1. value \in Seq(Literals)
    BY <1>2, ToldIs
  <2>2. Len(value) >= 1 => value[1] \in Literals
    BY <2>1
  <2>3. Len(value) = 2 /\ value[1] = Star
    BY <1>3
  <2> QED
    BY <2>2, <2>3, Kinds
<1>5. Append(accumulator, Deep) \in Seq(Pieces)
  BY GoingIs, PiecesNoStar
<1>6. Tracked(Append(SegmentsNow, Cur), <<>>, root', foundWildcard, accumulator', accumulator')
  <2> DEFINE b == SegmentsNow
             r == root
             v == foundWildcard
             f == accumulator
             g == accumulator \o Piece
  <2>1. Tracked(b, Cur, r, v, f, g) /\ f \in Seq(Pieces)
    BY GoingIs
  <2>2. b \in Seq(Seq(Characters))
    BY <1>1, <1>2, SegmentsOn
  <2>3. v = TRUE
    BY <1>4, GoingIs
  <2> HIDE DEF b, r, v, f, g
  <2>4. Tracked(b, Globstar, r, TRUE, f, g)
    BY <1>3, <2>1, <2>3
  <2>5. Tracked(Append(b, Globstar), <<>>, r, TRUE, Append(f, Deep), Append(f, Deep))
    BY <2>1, <2>2, <2>4, TrackGlobstar
  <2>6. Tracked(Append(b, Cur), <<>>, r, v, Append(f, Deep), Append(f, Deep))
    BY <1>3, <2>3, <2>5
  <2>7. Tracked(Append(SegmentsNow, Cur), <<>>, root, foundWildcard, Append(accumulator, Deep), Append(accumulator, Deep))
    BY <2>6 DEF b, r, v, f
  <2> QED
    BY <1>1, <2>7
<1>7. Cur \in Kept
  BY <1>3, KeptIs
<1>8. accumulator' \in Seq(Pieces)
  BY <1>1, <1>5
<1> QED
  BY <1>1, <1>2, <1>4, <1>6, <1>7, <1>8, MeantSep DEF MeantAfter

\* A segment is appended to the expression or, before any wildcard, to the root.
LEMMA EndSegmentMeant == ASSUME Going, EndSegment PROVE MeantAfter
<1>1. /\ At(Separators) /\ it' = it + 1 /\ pattern' = pattern /\ lastch' = ch /\ ~foundGlobstar
      /\ value' = <<>> /\ valueRaw' = <<>> /\ foundWildcard' = foundWildcard
      /\ value # <<>> /\ valueRaw # <<Dot>>
      /\ foundWildcard => accumulator' = accumulator \o Append(Piece, Sep) /\ root' = root
      /\ ~foundWildcard => accumulator' = accumulator /\ root' = Append(root, valueRaw)
  BY GoingIs, JoinsName DEF EndSegment, AfterSegment, Advance, Clear
<1>2. ch \in Separators /\ Told /\ TypeOK
  BY <1>1, GoingIs DEF At
<1>3. Cur # <<>> /\ Cur # Globstar /\ valueRaw = LiteralsOf(Cur)
  BY <1>1, <1>2, ToldIs DEF InHand
<1>4. Cur \in Kept
  <2>1. Cur # <<Dot>>
    <3>1. <<Dot>> \in Seq(Literals)
      BY CharactersAssumption
    <3> QED
      BY <1>1, <1>3, <3>1, LiteralsStay
  <2> QED
    BY <1>3, <2>1, GoingIs, KeptIs
<1>5. SegmentsNow \in Seq(Seq(Characters))
  BY <1>1, <1>2, SegmentsOn
<1> DEFINE b == SegmentsNow
           u == Cur
           r == root
           f == accumulator
           g == accumulator \o Piece
<1>6. b \in Seq(Seq(Characters)) /\ u \in Seq(Characters) /\ u # Globstar /\ g \in Seq(Pieces) /\ r \in Seq(Names)
      /\ f \in Seq(Pieces) /\ Sep \in Pieces
  BY <1>3, <1>5, GoingIs, PiecesNoStar
<1>7. CASE foundWildcard
  <2>1. Tracked(b, u, r, TRUE, f, g)
    <3>1. foundWildcard = TRUE
      BY <1>7, GoingIs
    <3> QED
      BY <3>1, GoingIs
  <2>2. accumulator' = Append(g, Sep)
    <3>1. Piece \in Seq(Pieces) /\ f \in Seq(Pieces) /\ Sep \in Pieces
      BY GoingIs, PiecesNoStar
    <3> DEFINE q == Piece
    <3> HIDE DEF f, q
    <3>2. f \o Append(q, Sep) = Append(f \o q, Sep)
      BY <3>1 DEF q
    <3> QED
      BY <1>1, <1>7, <3>2 DEF f, q
  <2> HIDE DEF b, u, r, f, g
  <2>3. Tracked(Append(b, u), <<>>, r, TRUE, Append(g, Sep), Append(g, Sep))
    BY <1>6, <2>1, TrackName
  <2>4. root' = r /\ foundWildcard = TRUE
    BY <1>1, <1>7, GoingIs DEF r
  <2>5. Tracked(Append(b, u), <<>>, root', foundWildcard, accumulator', accumulator') /\ accumulator' \in Seq(Pieces)
    <3>1. Append(g, Sep) \in Seq(Pieces)
      BY <1>6
    <3> QED
      BY <2>2, <2>3, <2>4, <3>1
  <2>6. Tracked(Append(SegmentsNow, Cur), <<>>, root', foundWildcard, accumulator', accumulator')
    BY <2>5 DEF b, u
  <2> QED
    BY <1>1, <1>2, <1>4, <1>7, <2>5, <2>6, MeantSep DEF MeantAfter
<1>8. CASE ~foundWildcard
  <2>1. Tracked(b, u, r, FALSE, f, g)
    <3>1. foundWildcard = FALSE
      BY <1>8, GoingIs
    <3> QED
      BY <3>1, GoingIs
  <2>2. u = valueRaw /\ f = <<Sep>> /\ u \in Names
    BY <1>2, <1>8, GoingIs, ToldIs DEF WildSoFar, Names
  <2>3. root' = Append(r, u) /\ accumulator' = f /\ foundWildcard = FALSE
    BY <1>1, <1>8, <2>2, GoingIs
  <2> HIDE DEF b, u, r, f, g
  <2>4. Tracked(Append(b, u), <<>>, Append(r, u), FALSE, <<Sep>>, <<Sep>>)
    BY <1>6, <2>1, <2>2, TrackRoot
  <2>5. Tracked(Append(b, u), <<>>, root', foundWildcard, accumulator', accumulator') /\ accumulator' \in Seq(Pieces)
    BY <1>6, <2>2, <2>3, <2>4
  <2>6. Tracked(Append(SegmentsNow, Cur), <<>>, root', foundWildcard, accumulator', accumulator')
    BY <2>5 DEF b, u
  <2> QED
    BY <1>1, <1>2, <1>4, <1>8, <2>5, <2>6, MeantSep DEF MeantAfter
<1> QED
  BY <1>7, <1>8

\* The piece at hand, where there is one.
LEMMA PieceIs ==
  ASSUME Going
  PROVE  /\ value = <<>> => Piece = <<>> /\ Cur = <<>>
         /\ Cur = <<>> => value = <<>>
         /\ value # <<Star>> => Piece = value
         /\ value = <<Star>> <=> Cur = <<Star>>
         /\ foundGlobstar <=> Cur = Globstar
         /\ accumulator \o <<>> = accumulator
<1>1. Told
  BY GoingIs
<1>2. accumulator \in Seq(Pieces)
  BY GoingIs
<1>3. accumulator \o <<>> = accumulator
  BY <1>2
<1>4. /\ value = <<>> <=> Cur = <<>>
      /\ value = <<Star>> <=> Cur = <<Star>>
      /\ foundGlobstar <=> Cur = Globstar
  BY <1>1, ToldIs DEF InHand
<1>5. <<>> # <<Star>>
  BY ShortStars
<1>6. value # <<Star>> => Piece = value
  BY DEF Piece
<1> QED
  BY <1>3, <1>4, <1>5, <1>6

\* A star at the beginning is a piece of a name for the time being.
LEMMA FirstStarMeant == ASSUME Going, FirstStar PROVE MeantAfter
<1>1. /\ At({Star}) /\ it' = it + 1 /\ pattern' = pattern /\ root' = root /\ value = <<>>
      /\ value' = <<Star>> /\ foundWildcard' = TRUE /\ accumulator' = accumulator
  BY DEF FirstStar, Advance
<1>2. ch = Star /\ ch \notin Separators /\ ch \in Wildcards /\ NamePart \in Pieces
  BY <1>1, Kinds, PiecesNoStar DEF At, Wildcards
<1>3. Cur = <<>> /\ Piece = <<>> /\ accumulator \o Piece = accumulator
  BY <1>1, PieceIs
<1>4. Cur # Globstar /\ Len(Cur) <= 1
  BY <1>3, ShortStars
<1>5. (accumulator \o Piece)' = Append(accumulator \o Piece, NamePart)
  <2>1. Piece' = <<NamePart>>
    BY <1>1 DEF Piece
  <2>2. accumulator \o <<NamePart>> = Append(accumulator, NamePart)
    BY GoingIs
  <2> QED
    BY <1>1, <1>3, <2>1, <2>2
<1> QED
  BY <1>1, <1>2, <1>4, <1>5, MeantChar DEF MeantAfter

\* The second star makes a globstar of it.
LEMMA SecondStarMeant == ASSUME Going, SecondStar PROVE MeantAfter
<1>1. /\ At({Star}) /\ it' = it + 1 /\ pattern' = pattern /\ root' = root /\ value = <<Star>>
      /\ foundWildcard' = TRUE /\ accumulator' = accumulator
  BY DEF SecondStar, Advance
<1>2. ch = Star /\ ch \notin Separators /\ ch \in Wildcards /\ NamePart \in Pieces
  BY <1>1, Kinds, PiecesNoStar DEF At, Wildcards
<1>3. Cur = <<Star>>
  BY <1>1, PieceIs
<1>4. Cur # Globstar /\ Len(Cur) <= 1 /\ Append(Cur, ch) = Globstar
  BY <1>2, <1>3, ShortStars
<1> QED
  BY <1>1, <1>2, <1>4, MeantChar DEF MeantAfter

\* Other stars are pieces of names for good.
LEMMA LaterStarMeant == ASSUME Going, LaterStar, lastch # Star PROVE MeantAfter
<1>1. /\ At({Star}) /\ it' = it + 1 /\ pattern' = pattern /\ root' = root /\ value \notin {<<>>, <<Star>>}
      /\ value' = Append(value, NamePart) /\ foundWildcard' = TRUE /\ accumulator' = accumulator /\ ~foundGlobstar
  BY DEF LaterStar, Advance
<1>2. ch = Star /\ ch \notin Separators /\ ch \in Wildcards /\ NamePart \in Pieces /\ ch \in Characters
  BY <1>1, Kinds, PiecesNoStar DEF At, Wildcards
<1>3. Cur # <<>> /\ Cur # Globstar /\ Cur # <<Star>> /\ Piece = value
  BY <1>1, PieceIs
<1>4. Append(Cur, ch) # Globstar
  BY <1>2, <1>3, GoingIs, AppendShort DEF Globstar
<1>5. (accumulator \o Piece)' = Append(accumulator \o Piece, NamePart)
  <2>1. value \in Seq(Pieces) /\ accumulator \in Seq(Pieces)
    BY <1>3, GoingIs
  <2>2. Piece' = Append(value, NamePart)
    <3>1. Append(value, NamePart) # <<Star>>
      BY <2>1, StarlessEnd, PiecesNoStar
    <3> QED
      BY <1>1, <3>1 DEF Piece
  <2>3. accumulator \o Append(value, NamePart) = Append(accumulator \o value, NamePart)
    BY <1>2, <2>1
  <2> QED
    BY <1>1, <1>3, <2>2, <2>3
<1> QED
  BY <1>1, <1>2, <1>3, <1>4, <1>5, MeantChar DEF MeantAfter

\* A question mark after a star at the beginning would be a defect.
LEMMA AnyCharacterMeant == ASSUME Going, AnyCharacter PROVE MeantAfter
<1>1. /\ At({Question}) /\ it' = it + 1 /\ pattern' = pattern /\ root' = root
      /\ value' = Append(value, NotSep) /\ foundWildcard' = TRUE /\ accumulator' = accumulator /\ ~foundGlobstar
  BY DEF AnyCharacter, Advance
<1>2. ch = Question /\ ch \notin Separators /\ ch \in Wildcards /\ NotSep \in Pieces /\ ch \in Characters /\ ch # Star
  BY <1>1, Kinds, PiecesNoStar DEF At, Wildcards
<1>3. Cur # <<Star>>
  <2> SUFFICES ASSUME Cur = <<Star>> PROVE FALSE
    OBVIOUS
  <2>1. StarLed(Append(Cur, ch)) /\ Append(Cur, ch) \in Seq(Characters)
    BY <1>2, GoingIs, StarLedOn, BeginsAppend
  <2>2. Len(WordsNow) \in 1..Len(Words(pattern)) /\ Begins(Append(Cur, ch), Words(pattern)[Len(WordsNow)])
    BY <1>1, <1>2, GoingIs, WordNow
  <2> QED
    BY <2>1, <2>2, GoingIs, StarLedIn
<1>4. Cur # Globstar /\ Piece = value /\ (Cur = <<>> => Len(Cur) <= 1)
  BY <1>1, <1>3, PieceIs
<1>5. Append(Cur, ch) # Globstar
  BY <1>2, GoingIs, AppendShort DEF Globstar
<1>6. (accumulator \o Piece)' = Append(accumulator \o Piece, NotSep)
  <2>1. value \in Seq(Pieces) /\ accumulator \in Seq(Pieces)
    BY <1>4, GoingIs
  <2>2. Piece' = Append(value, NotSep)
    <3>1. Append(value, NotSep) # <<Star>>
      BY <2>1, StarlessEnd, PiecesNoStar
    <3> QED
      BY <1>1, <3>1 DEF Piece
  <2>3. accumulator \o Append(value, NotSep) = Append(accumulator \o value, NotSep)
    BY <1>2, <2>1
  <2> QED
    BY <1>1, <1>4, <2>2, <2>3
<1> QED
  BY <1>1, <1>2, <1>4, <1>5, <1>6, MeantChar DEF MeantAfter

\* A literal after a wildcard moves what is at hand to the expression.
LEMMA LiteralMeant == ASSUME Going, Literal PROVE MeantAfter
<1>1. /\ At(Literals) /\ it' = it + 1 /\ pattern' = pattern /\ root' = root
      /\ accumulator' = (IF foundWildcard THEN accumulator \o Piece ELSE accumulator)
      /\ value' = (IF foundWildcard THEN <<ch>> ELSE Append(value, ch))
      /\ valueRaw' = Append(valueRaw, ch) /\ foundWildcard' = foundWildcard /\ ~foundGlobstar
  BY DEF Literal, Advance
<1>2. /\ ch \in Literals /\ ch \notin Separators /\ ch \notin Wildcards /\ ch \in Pieces /\ ch \in Characters
      /\ ch # Star
  BY <1>1, Kinds DEF At, Wildcards, Pieces
<1>3. Cur # Globstar /\ (Cur = <<>> => Len(Cur) <= 1)
  BY <1>1, PieceIs
<1>4. Append(Cur, ch) # Globstar
  BY <1>2, GoingIs, AppendShort DEF Globstar
<1>5. Cur = <<>> => accumulator' = accumulator
  BY <1>1, PieceIs
<1>6. (accumulator \o Piece)' = Append(accumulator \o Piece, ch)
  <2>1. accumulator \o Piece \in Seq(Pieces) /\ accumulator \in Seq(Pieces)
    BY GoingIs
  <2>2. CASE foundWildcard
    <3>1. Piece' = <<ch>>
      BY <1>1, <1>2, <2>2 DEF Piece
    <3>2. (accumulator \o Piece) \o <<ch>> = Append(accumulator \o Piece, ch)
      BY <1>2, <2>1
    <3> QED
      BY <1>1, <2>2, <3>1, <3>2
  <2>3. CASE ~foundWildcard
    <3>1. value \in Seq(Literals) /\ value \in Seq(Pieces)
      BY <2>3, GoingIs, ToldIs
    <3>2. value # <<Star>>
      <4>1. Len(value) >= 1 => value[1] \in Literals
        BY <3>1
      <4>2. Len(<<Star>>) = 1 /\ <<Star>>[1] = Star
        OBVIOUS
      <4> QED
        BY <4>1, <4>2, Kinds
    <3>3. Piece = value
      BY <3>2, PieceIs
    <3>4. Piece' = Append(value, ch)
      <4>1. Append(value, ch) # <<Star>>
        BY <1>2, <3>1, StarlessEnd
      <4> QED
        BY <1>1, <2>3, <4>1 DEF Piece
    <3>5. accumulator \o Append(value, ch) = Append(accumulator \o value, ch)
      BY <1>2, <2>1, <3>1
    <3> QED
      BY <1>1, <2>3, <3>3, <3>4, <3>5
  <2> QED
    BY <2>2, <2>3
<1>7. ~foundWildcard' => accumulator' = accumulator
  BY <1>1
<1>8. foundWildcard' \in BOOLEAN
  BY <1>1, GoingIs
<1> QED
  BY <1>1, <1>2, <1>3, <1>4, <1>5, <1>6, <1>7, <1>8, MeantChar DEF MeantAfter

\* At the end the expression finds what the pattern denotes.
LEMMA CompileMeant ==
  ASSUME Going, Compile, NEW names \in Seq(Names), NEW text,
         text = Text(SubSeq(names, Len(root) + 1, Len(names)))
  PROVE  S!IsStrictPrefix(root, names) /\ text # <<>> /\ RegexMatch(accumulator', text)
           <=> Denotes(Segments(pattern), names)
<1>1. Told /\ TypeOK /\ Fine /\ Cur \in Seq(Characters)
  BY GoingIs
<1>2. WordsNow = Words(pattern)
  BY <1>1, AtTheEnd DEF Compile
<1>3. S!Last(Words(pattern)) = Cur /\ Words(pattern) # <<>>
  BY <1>1, <1>2, WordsDomain DEF S!Last, Cur
<1>4. Cur \in Kept
  <2>1. Cur # <<>> /\ Cur # <<Dot>>
    BY <1>1, <1>3, FineIs DEF NamesADirectory
  <2> QED
    BY <1>1, <2>1, KeptIs
<1>5. Cur # <<Star>>
  BY <1>1, <1>3, FineIs DEF StarIsLeftRaw
<1>6. Segments(pattern) = Append(SegmentsNow, Cur) /\ SegmentsNow \in Seq(Seq(Characters))
  BY <1>1, <1>2, <1>4, SegmentsAtEnd
<1>7. value # <<Star>> /\ Piece = value /\ (foundGlobstar <=> Cur = Globstar)
  BY <1>5, PieceIs
<1> DEFINE f == accumulator
           g == accumulator \o Piece
           final == accumulator'
<1>8. f \in Seq(Pieces) /\ g \in Seq(Pieces) /\ Rest \in Pieces /\ Piece \in Seq(Pieces)
  BY GoingIs, PiecesNoStar
<1>9. Cur = Globstar => final = Append(f, Rest)
  <2>1. f \o <<Rest>> = Append(f, Rest)
    <3> HIDE DEF f
    <3> QED
      BY <1>8
  <2> QED
    BY <1>7, <2>1 DEF Compile
<1>10. Cur # Globstar => final = g
  BY <1>7 DEF Compile
<1>11. final \in Seq(Pieces) /\ ~HasStar(final)
  <2>1. ~HasStar(f) /\ (~foundGlobstar => ~HasStar(Piece))
    BY <1>1, FineStars
  <2>2. CASE Cur = Globstar
    <3>1. final = f \o <<Rest>>
      BY <1>7, <2>2 DEF Compile
    <3> HIDE DEF f, final
    <3>2. <<Rest>> \in Seq(Pieces) /\ ~HasStar(<<Rest>>)
      BY StarOne, PiecesNoStar
    <3>3. final \in Seq(Pieces)
      <4>1. Append(f, Rest) \in Seq(Pieces)
        BY <1>8
      <4> QED
        BY <1>9, <2>2, <4>1
    <3> QED
      BY <1>8, <2>1, <3>1, <3>2, <3>3, StarConcat
  <2>3. CASE Cur # Globstar
    <3>1. ~HasStar(Piece)
      BY <1>7, <2>1, <2>3
    <3>2. ~HasStar(g)
      BY <1>8, <2>1, <3>1, StarConcat
    <3> HIDE DEF g, final
    <3> QED
      BY <1>8, <1>10, <2>3, <3>2
  <2> QED
    BY <2>2, <2>3
<1> DEFINE b == SegmentsNow
           u == Cur
           r == root
           v == foundWildcard
<1>12. Tracked(b, u, r, v, f, g) /\ r \in Seq(Names) /\ b \in Seq(Seq(Characters)) /\ u \in Seq(Characters)
       /\ text = Text(SubSeq(names, Len(r) + 1, Len(names)))
  BY <1>6, GoingIs
<1>13. (u = Globstar => final = Append(f, Rest)) /\ (u # Globstar => final = g)
  BY <1>9, <1>10
<1> HIDE DEF b, u, r, v, f, g, final
<1>14. S!IsStrictPrefix(r, names) /\ text # <<>> /\ RegexMatch(final, text) <=> Denotes(Append(b, u), names)
  BY <1>8, <1>11, <1>12, <1>13, TrackEnd
<1> QED
  BY <1>6, <1>14 DEF b, u, r, final

-----------------------------------------------------------------------------
(* The invariant                                                            *)

\* The track is kept to the end; and then the pattern finds what it denotes.
MeantInv ==
  /\ pc = "scan" => Meant
  /\ pc = "compiled" => FindsWhatIsDenoted

\* So it is for all paths.
LEMMA CompileFinds == ASSUME Going, Compile PROVE FindsExactly'
<1>1. root' = root /\ pattern' = pattern
  BY DEF Compile
<1>0. AtHome' /\ ~base'.bare
  BY GoingIs DEF Compile, Homely, AtHome
<1>2. ASSUME NEW names \in Paths PROVE Finds(names)' <=> Denotes(Segments(pattern), names)
  <2> DEFINE text == Text(SubSeq(names, Len(root) + 1, Len(names)))
  <2>1. names \in Seq(Names)
    BY PathsAssumption DEF Names
  <2>2. S!IsStrictPrefix(root, names) /\ text # <<>> /\ RegexMatch(accumulator', text)
          <=> Denotes(Segments(pattern), names)
    <3> HIDE DEF text
    <3>1. \A t : t = text => (S!IsStrictPrefix(root, names) /\ t # <<>> /\ RegexMatch(accumulator', t)
          <=> Denotes(Segments(pattern), names))
      BY <2>1, CompileMeant DEF text
    <3> QED
      BY <3>1
  <2>3. Finds(names)' <=> S!IsStrictPrefix(root', names) /\ Text(SubSeq(names, Len(root') + 1, Len(names))) # <<>>
          /\ RegexMatch(accumulator', Text(SubSeq(names, Len(root') + 1, Len(names))))
    BY <1>0 DEF Finds, Match, Remainder
  <2> QED
    BY <1>1, <2>2, <2>3
<1>3. Segments(pattern)' = Segments(pattern)
  BY <1>1
<1> QED
  BY <1>2, <1>3 DEF FindsExactly

\* A step of the constructor keeps the track.
LEMMA StepMeant == ASSUME IInv, ReadInv, RootInv, MeantInv, Step PROVE MeantInv'
<1>1. pattern' = pattern /\ pc = "scan"
  <2>1. pattern' = pattern
    BY DEF Step, RepeatedSeparator, NoSegment, EndGlobstar, CurrentDirectory, ParentDirectory,
       EndSegment, FirstStar, SecondStar, LaterStar, AnyCharacter, AfterGlobstar, InvalidCharacter,
       Literal, Compile, Throw, Advance, Continue
  <2>2. pc = "scan"
    BY DEF Step, RepeatedSeparator, NoSegment, EndGlobstar, CurrentDirectory, ParentDirectory,
       EndSegment, FirstStar, SecondStar, LaterStar, AnyCharacter, AfterGlobstar, InvalidCharacter,
       Literal, Compile, AfterSegment, At
  <2> QED
    BY <2>1, <2>2
<1>2. (Plain' <=> Plain) /\ (Plain => Going)
  BY <1>1 DEF Plain, Fine, MeantInv, Meant, Going, Told, ReadInv
<1>4. ASSUME pc' = pc, Plain => MeantAfter PROVE MeantInv'
  BY <1>1, <1>2, <1>4 DEF MeantInv, MeantAfter, Meant
<1>5. ASSUME Throw PROVE MeantInv'
  BY <1>5 DEF Throw, MeantInv
<1>6. CASE RepeatedSeparator
  BY <1>2, <1>4, <1>6, RepeatedSeparatorMeant DEF RepeatedSeparator, Continue, scan
<1>7. CASE NoSegment
  BY <1>2, <1>4, <1>7, NoSegmentMeant DEF NoSegment, Advance
<1>8. CASE EndGlobstar
  BY <1>2, <1>4, <1>8, EndGlobstarMeant DEF EndGlobstar, Advance
<1>9. CASE CurrentDirectory
  BY <1>2, <1>4, <1>9, CurrentDirectoryMeant DEF CurrentDirectory, Continue
<1>10. CASE ParentDirectory \/ AfterGlobstar \/ InvalidCharacter
  BY <1>5, <1>10 DEF ParentDirectory, AfterGlobstar, InvalidCharacter
<1>11. CASE EndSegment
  BY <1>2, <1>4, <1>11, EndSegmentMeant DEF EndSegment, Advance
<1>12. CASE FirstStar
  BY <1>2, <1>4, <1>12, FirstStarMeant DEF FirstStar, Advance
<1>13. CASE SecondStar
  BY <1>2, <1>4, <1>13, SecondStarMeant DEF SecondStar, Advance
<1>14. CASE LaterStar
  <2>1. CASE lastch = Star
    BY <1>5, <1>14, <2>1 DEF LaterStar
  <2>2. CASE lastch # Star
    BY <1>2, <1>4, <1>14, <2>2, LaterStarMeant DEF LaterStar, Advance
  <2> QED
    BY <2>1, <2>2
<1>15. CASE AnyCharacter
  BY <1>2, <1>4, <1>15, AnyCharacterMeant DEF AnyCharacter, Advance
<1>16. CASE Literal
  BY <1>2, <1>4, <1>16, LiteralMeant DEF Literal, Advance
<1>17. CASE Compile
  <2>1. Plain => FindsExactly'
    BY <1>2, <1>17, CompileFinds
  <2>2. FindsWhatIsDenoted'
    BY <1>2, <2>1 DEF FindsWhatIsDenoted, Plain, Fine
  <2>3. pc' # "scan"
    BY <1>17 DEF Compile
  <2> QED
    BY <2>2, <2>3 DEF MeantInv
<1> QED
  BY <1>6, <1>7, <1>8, <1>9, <1>10, <1>11, <1>12, <1>13, <1>14, <1>15, <1>16, <1>17 DEF Step

\* Only the constructor keeps track.
LEMMA MeantFrame == ASSUME MeantInv, UNCHANGED vars PROVE MeantInv'
<1>1. UNCHANGED <<pattern, pc, it, base, root, value, valueRaw, accumulator, foundWildcard, lastch>>
  BY DEF vars, scan
<1>2. WordsNow' = WordsNow /\ Cur' = Cur /\ (Plain' <=> Plain)
  BY <1>1 DEF WordsNow, WordsTo, Cur, Plain, Fine
<1>3. WildSoFar' <=> WildSoFar
  <2>1. WildNow' <=> WildNow
    BY <1>2 DEF WildNow, Has, Wildcards
  <2> QED
    BY <1>1, <1>2, <2>1 DEF WildSoFar
<1>4. DotBefore' <=> DotBefore
  BY <1>1, <1>2 DEF DotBefore
<1>5. Tracks => Tracks'
  <2>1. SegmentsNow' = SegmentsNow /\ Piece' = Piece
    BY <1>1, <1>2 DEF SegmentsNow, Piece
  <2>2. (accumulator \o Piece)' = accumulator \o Piece
    BY <1>1, <2>1
  <2> SUFFICES ASSUME Tracks PROVE Tracks'
    OBVIOUS
  <2>3. Tracked(SegmentsNow, Cur, root, foundWildcard, accumulator, accumulator \o Piece)
    BY DEF Tracks
  <2> QED
    BY <1>1, <1>2, <2>1, <2>2, <2>3, TracksPrime
<1>6. FindsWhatIsDenoted => FindsWhatIsDenoted'
  BY <1>1 DEF FindsWhatIsDenoted, FindsExactly, Finds, Match, AtHome, Remainder
<1> QED
  BY <1>1, <1>2, <1>3, <1>4, <1>5, <1>6 DEF MeantInv, Meant

\* Nothing is read, and nobody has passed a name.
LEMMA MeantBegins ==
  ASSUME Begun, root = <<>>, foundWildcard = FALSE
  PROVE  MeantInv
<1>1. pattern \in Seq(Characters)
  BY PatternsAssumption DEF Begun
<1>2. WordsNow = <<<<>>>> /\ Len(WordsNow) = 1 /\ Cur = <<>>
  <2>1. WordsNow = WordsTo(0)
    BY DEF WordsNow, Begun
  <2>2. WordsNow = <<<<>>>>
    BY <1>1, <2>1, WordsToIs
  <2> QED
    BY <2>2 DEF Cur
<1>3. WildSoFar /\ DotBefore
  BY <1>2 DEF WildSoFar, DotBefore, Begun
<1>4. SegmentsNow = <<>>
  <2>1. Cut(WordsNow, 0) = <<>>
    BY <1>2 DEF Cut
  <2> DEFINE V == Seq(Characters)
             none == <<>>
  <2>2. none \in V /\ none \in Seq(V)
    OBVIOUS
  <2> HIDE DEF V, none
  <2>3. P!Those(Kept, <<>>) = <<>>
    BY <2>2, ThoseAppend
  <2> QED
    BY <1>2, <2>1, <2>3 DEF SegmentsNow
<1>5. Tracked(<<>>, <<>>, <<>>, FALSE, <<Sep>>, <<Sep>>)
  <2>1. ASSUME NEW names \in Seq(Names)
        PROVE  ReadersAlong(<<>>, names) = {0} /\ Begins(<<>>, names) /\ Len(<<>>) = 0 /\ 0 \in 0..Len(names)
    <3>1. <<>> \in Seq(Seq(Characters)) /\ <<>> \in Seq(Characters)
      OBVIOUS
    <3>2. ReadersAlong(<<>>, names) = {0}
      BY <3>1, MoreAlong
    <3> QED
      BY <3>2 DEF Begins
  <2>2. ASSUME NEW names \in Seq(Names), NEW text, NEW o, Laid(text, names, Len(<<>>), o)
        PROVE  StandBefore(ReadersOf(<<Sep>>, text), names, o, ReadersAlong(<<>>, names))
    <3>1. Laid(text, names, 0, o)
      BY <2>1, <2>2
    <3> QED
      BY <2>1, <3>1, StandFirst
  <2>3. ASSUME NEW names \in Seq(Names)
        PROVE  /\ Begins(<<>>, names) =>
                    ReadersAlong(<<>>, names) \subseteq Len(<<>>)..Len(names)
                    /\ (~FALSE => ReadersAlong(<<>>, names) = {Len(<<>>)})
               /\ ~Begins(<<>>, names) => ReadersAlong(<<>>, names) = {}
    BY <2>1
  <2> QED
    BY <2>2, <2>3, TrackSep
<1>6. Tracks
  <2>1. accumulator = <<Sep>> /\ Piece = <<>>
    BY ShortStars DEF Begun, Piece
  <2>2. <<Sep>> \o <<>> = <<Sep>>
    <3>1. <<Sep>> \in Seq(Pieces)
      BY PiecesNoStar
    <3> QED
      BY <3>1
  <2> QED
    BY <1>2, <1>4, <1>5, <2>1, <2>2 DEF Tracks
<1> QED
  BY <1>3, <1>6 DEF MeantInv, Meant, Begun

\* The search begins with that, and so does each instance.
LEMMA InitMeant == FindInit => MeantInv
BY MeantBegins DEF FindInit, Init, Begun

LEMMA MeantBeginsNow == Begun /\ root = <<>> /\ foundWildcard = FALSE => MeantInv
BY MeantBegins

LEMMA MeantBeginsAgain == (Begun /\ root = <<>> /\ foundWildcard = FALSE)' => MeantInv'
BY MeantBeginsNow, PTL

\* No step of the search loses track.
LEMMA NextMeant ==
  ASSUME FindTyped, ReadInv, RootInv, MeantInv, [FindNext]_<<vars, finding>>
  PROVE  MeantInv'
<1>1. CASE CompileStep
  BY <1>1, StepMeant DEF CompileStep, FindTyped
<1>2. CASE UNCHANGED vars
  BY <1>2, MeantFrame
<1>3. CASE NextInstance
  <2>1. CASE InstallationPaths[k + 1] = NoPath /\ UNCHANGED vars
    BY <2>1, MeantFrame
  <2>2. CASE ~(InstallationPaths[k + 1] = NoPath /\ UNCHANGED vars)
    <3>1. Begun' /\ root' = <<>> /\ foundWildcard' = FALSE
      BY <1>3, <2>2 DEF NextInstance, FindTyped, IInv, TypeOK, Begun
    <3> QED
      BY <3>1, MeantBeginsAgain
  <2> QED
    BY <2>1, <2>2
<1>4. CASE ~CompileStep /\ ~NextInstance
  <2>1. UNCHANGED vars
    BY <1>4 DEF FindNext, Read, PatternRefused, StartWalk, Descend, NextEntry, Ascend, Visit, EndWalk,
       End, Ended, Fail, CreatePath, DeletePath, Change, Protect
  <2> QED
    BY <2>1, MeantFrame, SMTT(30)
<1> QED
  BY <1>1, <1>3, <1>4

-----------------------------------------------------------------------------
(* Theorems                                                                 *)

\* The types hold at every character of every pattern, for every instance.
THEOREM TypeCorrect == FindSpec => []TypeOK
<1>1. FindTyped => TypeOK
  BY DEF FindTyped, IInv
<1> QED
  BY <1>1, InitFindTyped, NextFindTyped, PTL DEF FindSpec

\* However its separators, dots and wildcards are put together, a pattern makes the
\* search of an instance start outside of the installation path only with a word
\* that names a drive, before its first wildcard: such a word alone is joined to the
\* root in another way than as a name.
THEOREM RootStaysInsideAlways == FindSpec => []RootStaysInside
<1> DEFINE Inv == FindTyped /\ ReadInv /\ RootInv
<1>1. FindInit => Inv
  BY InitFindTyped, InitRead, InitRoot
<1>2. Inv /\ [FindNext]_<<vars, finding>> => Inv'
  BY NextFindTyped, NextRead, NextRoot
<1>3. Inv => RootStaysInside
  BY DEF RootInv, Homely, RootStaysInside
<1> QED
  BY <1>1, <1>2, <1>3, PTL DEF FindSpec

\* What the tests say is invalid is refused and, but for the defects that
\* GlobMeaning names, nothing else is: however long a pattern is and for whichever
\* of the instances it is read again.
THEOREM RefusesWhatIsInvalid == FindSpec => []InvalidPatternIsRefused
<1> DEFINE Inv == FindTyped /\ ReadInv
<1>1. FindInit => Inv
  BY InitFindTyped, InitRead
<1>2. Inv /\ [FindNext]_<<vars, finding>> => Inv'
  BY NextFindTyped, NextRead
<1>3. Inv => InvalidPatternIsRefused
  BY DEF ReadInv, InvalidPatternIsRefused, RefusesExactly, Refusal
<1> QED
  BY <1>1, <1>2, <1>3, PTL DEF FindSpec

\* A pattern that has none of the defects that GlobMeaning names, and names no drive
\* before its first wildcard, finds in every instance the files that its segments
\* denote, read one by one, and no others: however long it is, whatever the names of
\* the files are, and wherever its first wildcard splits it between the root of the
\* search and the regular expression.
THEOREM FindsWhatItDenotes == FindSpec => []PatternFindsItsFiles
<1> DEFINE Inv == FindTyped /\ ReadInv /\ RootInv /\ MeantInv
<1>1. FindInit => Inv
  BY InitFindTyped, InitRead, InitRoot, InitMeant
<1>2. Inv /\ [FindNext]_<<vars, finding>> => Inv'
  BY NextFindTyped, NextRead, NextRoot, NextMeant
<1>3. Inv => PatternFindsItsFiles
  BY DEF MeantInv, PatternFindsItsFiles, FindsWhatIsDenoted
<1> QED
  BY <1>1, <1>2, <1>3, PTL DEF FindSpec

\* What is written is in order: the instances as they were given and, when asked
\* for, the files of each by their rank, whatever is created and deleted and
\* whichever of the orders that it may std::sort leaves.
THEOREM WritesInOrder == FindSpec => []FilesInOrder
<1> DEFINE Inv == FindTyped /\ Before /\ FilesInOrder
<1>1. FindInit => Inv
  BY InitFindTyped, InitBefore
<1>2. Inv /\ [FindNext]_<<vars, finding>> => Inv'
  BY NextFindTyped, NextBefore, NextInOrder
<1>3. Inv => FilesInOrder
  OBVIOUS
<1> QED
  BY <1>1, <1>2, <1>3, PTL DEF FindSpec

\* So the walk loses nothing and adds nothing: with any files, any changes of them
\* at any time and any number of instances, each file that such a pattern denotes and
\* that stays while its instance is walked is written once, and nothing is written
\* that is not denoted.
THEOREM WalkFindsOnce == FindSpec => []FoundExactlyOnce
<1> DEFINE Inv == FindTyped /\ WalkShape /\ Exact /\ Before /\ Understood /\ OutputIsRight
<1>1. FindInit => Inv
  <2>1. FindInit => ~Walking /\ OutputIsRight
    BY DEF FindInit, Walking, OutputIsRight
  <2> QED
    BY <2>1, InitFindTyped, InitBefore DEF WalkShape, Exact, Understood
<1>2. Inv /\ PatternFindsItsFiles /\ RootStaysInside /\ [FindNext]_<<vars, finding>> => Inv'
  BY NextFindTyped, NextShape, NextExact, NextBefore, NextUnderstood, NextIsRight
<1>3. Inv => FoundExactlyOnce
  BY RightIsOnce
<1> QED
  BY <1>1, <1>2, <1>3, FindsWhatItDenotes, RootStaysInsideAlways, PTL DEF FindSpec
=============================================================================
