----------------------------- MODULE FileSearch -----------------------------
(***************************************************************************)
(* The search for files: WriteFiles compiles the pattern for one instance  *)
(* after the other, walks over the directories below the root the pattern  *)
(* has there, and writes what it found, while other programs create and    *)
(* delete files and directories and change who may read them.              *)
(*                                                                         *)
(* Glob's constructor is the machine of the module Glob.  A directory is   *)
(* listed as the file system promises: an entry that is there all the time *)
(* is given once, one that comes or goes in the meantime may be given or   *)
(* not.                                                                    *)
(***************************************************************************)
EXTENDS GlobMeaning, FiniteSets

CONSTANTS
  Places,             \* the files and directories there may be, as sequences of names,
                      \* the first that of a drive or of a share
  Directories,        \* those of them that are directories
  InstallationPaths,  \* of the instances; a directory or NoPath each
  NoPath,             \* the installation path of an instance is not known
  WorkingDirectory,   \* the directory that is current on each drive
  Rank,               \* the place of a path in lexicographic order
  Searched,           \* the patterns for which files are there and change
  MaxChanges          \* how often the files may change

ASSUME PlacesAssumption ==
  /\ Places \subseteq Seq(Seq(Literals)) \ {<<>>}
  /\ Directories \subseteq Places /\ NoPath \notin Places
  /\ InstallationPaths \in Seq(Directories \cup {NoPath})
  /\ WorkingDirectory \in [Letters -> Seq(Seq(Literals)) \ {<<>>}]
  /\ Rank \in [Places -> Nat]
  /\ Searched \subseteq Patterns
\* Between a directory and what is below it are directories, and the names below an
\* installation path are among those that patterns are held against.
ASSUME BelowAssumption ==
  \A d \in Directories, p \in Places : S!IsStrictPrefix(d, p) =>
    /\ \A n \in Len(d)..(Len(p) - 1) : SubSeq(p, 1, n) \in Directories
    /\ (\E j \in DOMAIN InstallationPaths : d = InstallationPaths[j]) =>
         SubSeq(p, Len(d) + 1, Len(p)) \in Paths

VARIABLES
  sort,      \* the option
  tree,      \* the files and directories there are
  denied,    \* the directories that cannot be read
  changes,   \* how often they changed
  search,    \* the control point of WriteFiles and Entries
  k,         \* the instance
  open,      \* the directories the iterator is in, outermost first
  entry,     \* the entry it is at, or NoPath
  entries,   \* the local variable of Entries
  output,    \* the files written
  stayed,    \* history: what has been there since the walk began
  owed       \* history: the denoted entries of each walk that stayed

files   == <<tree, denied, changes>>
reader  == <<search, k, open, entry, entries, output>>
finding == <<sort, files, reader, stayed, owed>>

Parent(path) == S!Front(path)
Children(d) == {p \in tree : Len(p) = Len(d) + 1 /\ Parent(p) = d}

\* The ways the files may be: below the paths nothing is without its directory.
Trees == {t \in SUBSET Places : \A p \in t : Parent(p) \in t \/ Parent(p) \notin Places}

\* For the patterns not in Searched there are no files and never will be.
FindInit ==
  /\ Init
  /\ \/ /\ pattern \in Searched
        /\ sort \in BOOLEAN
        /\ tree \in Trees /\ denied \in SUBSET Directories /\ changes = 0
     \/ /\ pattern \notin Searched
        /\ sort = FALSE
        /\ tree = {} /\ denied = {} /\ changes = MaxChanges
  /\ search = "next" /\ k = 0
  /\ open = <<>> /\ entry = NoPath
  /\ entries = <<>> /\ output = <<>>
  /\ stayed = {} /\ owed = <<>>

-----------------------------------------------------------------------------
(* Other programs                                                           *)

\* Nothing looks at the files while the pattern is read.
MayChange == changes < MaxChanges /\ search # "compile"

\* What is listed of an open directory: due is there all the time, may at some time.
Change(new) ==
  /\ MayChange
  /\ changes' = changes + 1
  /\ tree' = new
  /\ open' = [j \in DOMAIN open |->
                [open[j] EXCEPT
                   !.due = @ \cap new,
                   !.may = @ \cup {p \in new \ tree : Parent(p) = open[j].dir}]]
  /\ stayed' = stayed \cap new
  /\ UNCHANGED <<vars, sort, denied, search, k, entry, entries, output, owed>>

CreatePath == \E p \in Places \ tree : tree \cup {p} \in Trees /\ Change(tree \cup {p})
DeletePath == \E p \in tree : Children(p) = {} /\ Change(tree \ {p})

Protect ==
  \E d \in Directories :
    /\ MayChange
    /\ changes' = changes + 1
    /\ denied' = IF d \in denied THEN denied \ {d} ELSE denied \cup {d}
    /\ UNCHANGED <<vars, sort, tree, reader, stayed, owed>>

-----------------------------------------------------------------------------
(* recursive_directory_iterator                                             *)

Readable(d) == d \in (Directories \cap tree) \ denied
Listing(d) == [dir |-> d, due |-> Children(d), may |-> Children(d)]

\* A filesystem_error is a system_error, like that of a pattern that is refused;
\* nobody catches either before wmain.
Fail ==
  /\ search' = "thrown"
  /\ UNCHANGED <<vars, sort, files, k, open, entry, entries, output, stayed, owed>>

\* The iterator goes into the directory it is at, although it may be gone.
Descend ==
  /\ search = "walk" /\ entry \in Directories
  /\ \/ ~Readable(entry) /\ Fail
     \/ /\ Readable(entry)
        /\ open' = Append(open, Listing(entry))
        /\ entry' = NoPath
        /\ UNCHANGED <<vars, sort, files, search, k, entries, output, stayed, owed>>

Without(listing, p) == [listing EXCEPT !.due = @ \ {p}, !.may = @ \ {p}]

NextEntry ==
  /\ search = "walk" /\ entry \notin Directories /\ open # <<>>
  /\ \E p \in S!Last(open).may :
       /\ open' = [open EXCEPT ![Len(open)] = Without(@, p)]
       /\ entry' = p
       /\ search' = "visit"
       /\ UNCHANGED <<vars, sort, files, k, entries, output, stayed, owed>>

Ascend ==
  /\ search = "walk" /\ entry \notin Directories /\ open # <<>>
  /\ S!Last(open).due = {}
  /\ open' = S!Front(open)
  /\ UNCHANGED <<vars, sort, files, search, k, entry, entries, output, stayed, owed>>

-----------------------------------------------------------------------------
(* WriteFiles and Entries                                                   *)

\* Faulty variant of NextInstance: an instance without a path is tried again.
NextInstanceStuck ==
  /\ search = "next" /\ k < Len(InstallationPaths)
  /\ \/ InstallationPaths[k + 1] = NoPath /\ UNCHANGED <<vars, finding>>
     \/ /\ InstallationPaths[k + 1] # NoPath
        /\ k' = k + 1
        /\ search' = "compile"
        /\ pc' = "scan" /\ it' = 1 /\ lastch' = Null
        /\ base' \in {Home(drive) : drive \in RootNames}
        /\ root' = <<>> /\ value' = <<>> /\ valueRaw' = <<>> /\ accumulator' = <<Sep>>
        /\ foundGlobstar' = FALSE /\ foundWildcard' = FALSE
        /\ UNCHANGED <<pattern, sort, files, open, entry, entries, output, stayed, owed>>

\* The next instance, with a Glob of its own if its path is known.
NextInstance ==
  /\ search = "next" /\ k < Len(InstallationPaths)
  /\ k' = k + 1
  /\ \/ InstallationPaths[k + 1] = NoPath /\ UNCHANGED <<vars, search>>
     \/ /\ InstallationPaths[k + 1] # NoPath
        /\ search' = "compile"
        /\ pc' = "scan" /\ it' = 1 /\ lastch' = Null
        /\ base' \in {Home(drive) : drive \in RootNames}
        /\ root' = <<>> /\ value' = <<>> /\ valueRaw' = <<>> /\ accumulator' = <<Sep>>
        /\ foundGlobstar' = FALSE /\ foundWildcard' = FALSE
        /\ UNCHANGED pattern
  /\ UNCHANGED <<sort, files, open, entry, entries, output, stayed, owed>>

\* The constructor of Glob.
CompileStep ==
  /\ search = "compile"
  /\ Step
  /\ UNCHANGED finding

PatternRefused == search = "compile" /\ pc = "thrown" /\ Fail

\* What m_root names: up from the first name of a path there is nothing.
Base  == IF base.home THEN InstallationPaths[k] ELSE WorkingDirectory[base.drive]
Start == SubSeq(Base, 1, IF base.above < Len(Base) THEN Len(Base) - base.above ELSE 1) \o root
Below(path) == SubSeq(path, Len(Start) + 1, Len(path))

\* The iterator opens the root, where it is readable.
StartWalk ==
  /\ search = "compile" /\ pc = "compiled"
  /\ \/ ~Readable(Start) /\ Fail
     \/ /\ Readable(Start)
        /\ open' = <<Listing(Start)>> /\ entry' = NoPath
        /\ entries' = <<>>
        /\ stayed' = tree
        /\ search' = "walk"
        /\ UNCHANGED <<vars, sort, files, k, output, owed>>

\* Faulty variant of Visit: a directory is not looked at itself.
VisitFilesOnly ==
  /\ search = "visit"
  /\ entries' = IF entry \notin Directories /\ Match(Remainder(Below(entry)))
                  THEN Append(entries, entry) ELSE entries
  /\ search' = "walk"
  /\ UNCHANGED <<vars, sort, files, k, open, entry, output, stayed, owed>>

Visit ==
  /\ search = "visit"
  /\ entries' = IF Match(Remainder(Below(entry))) THEN Append(entries, entry) ELSE entries
  /\ search' = "walk"
  /\ UNCHANGED <<vars, sort, files, k, open, entry, output, stayed, owed>>

Orders(paths) == S!Bijection(DOMAIN paths, DOMAIN paths)

\* Faulty variant of Sorted: the files are written as they were found.
SortedNever(paths) == {paths}

\* What std::sort may leave: the same files, none before one of a lower rank.
Sorted(paths) ==
  IF sort
    THEN {s \in {[j \in DOMAIN paths |-> paths[order[j]]] : order \in Orders(paths)} :
            \A i, j \in DOMAIN s : i < j => Rank[s[i]] <= Rank[s[j]]}
    ELSE {paths}

IsDenoted(i, path) ==
  /\ S!IsStrictPrefix(InstallationPaths[i], path)
  /\ \E segments \in {Segments(pattern)} :
       Denotes(segments, SubSeq(path, Len(InstallationPaths[i]) + 1, Len(path)))

\* All files of an instance are written after its walk.
EndWalk ==
  /\ search = "walk" /\ entry \notin Directories /\ open = <<>>
  /\ \E paths \in Sorted(entries) :
       output' = output \o [j \in DOMAIN paths |-> [instance |-> k, path |-> paths[j]]]
  /\ owed' = Append(owed, [instance |-> k, paths |-> {p \in stayed : IsDenoted(k, p)}])
  /\ search' = "next"
  /\ UNCHANGED <<vars, sort, files, k, open, entry, entries, stayed>>

End ==
  /\ search = "next" /\ k = Len(InstallationPaths)
  /\ search' = "done"
  /\ UNCHANGED <<vars, sort, files, k, open, entry, entries, output, stayed, owed>>

Ended == search \in {"done", "thrown"} /\ UNCHANGED <<vars, finding>>

Read ==
  \/ NextInstance
  \/ CompileStep
  \/ PatternRefused
  \/ StartWalk
  \/ Descend
  \/ NextEntry
  \/ Ascend
  \/ Visit
  \/ EndWalk
  \/ End

FindNext ==
  \/ Read
  \/ CreatePath
  \/ DeletePath
  \/ Protect
  \/ Ended

\* The program runs on; what other programs do is up to them.
FindSpec == FindInit /\ [][FindNext]_<<vars, finding>> /\ WF_<<vars, finding>>(Read)

-----------------------------------------------------------------------------
(* Properties                                                               *)

\* A pattern that has none of the defects that GlobMeaning names, and names no drive
\* before its first wildcard, finds in every instance the files it denotes and no
\* others: splitting it between the root and the regular expression, deciding on a
\* star when the next character is known and dropping repeated separators lose and
\* add nothing.
PatternFindsItsFiles == search = "compile" => FindsWhatIsDenoted

\* A pattern with none of those defects, whether it names a drive or not, is refused,
\* for any instance, exactly when the tests say that it is invalid: for an invalid
\* character, a globstar beside anything but separators, or a parent directory.
InvalidPatternIsRefused == search = "compile" => RefusesExactly

\* Of a pattern with none of those defects, that names no drive before its first
\* wildcard, a file is written only if it is denoted, for the instance it is in; and
\* each that was there during the whole walk over its instance is written once,
\* whatever else was created and deleted at the same time and whether the search
\* fails later.
FoundExactlyOnce ==
  owed # <<>> /\ Defects(Words(pattern)) = {} /\ ~NamesADrive(Words(pattern)) =>
    /\ \A i \in DOMAIN output : IsDenoted(output[i].instance, output[i].path)
    /\ \A j \in DOMAIN owed : \A p \in owed[j].paths :
         Cardinality({i \in DOMAIN output : output[i] = [instance |-> owed[j].instance, path |-> p]}) = 1

\* The usage text of -find: "*  Matches zero or more characters except".  So it
\* does as the last name of a pattern.
StarMatchesCharacters ==
  /\ search = "compile" /\ pc = "compiled"
  /\ Defects(Words(pattern)) \subseteq {"trailing star"} /\ ~NamesADrive(Words(pattern))
  => FindsExactly

\* Instances keep their order and, when asked for, the files of each have theirs.
\* The usage text: "first instances are sorted then files are sorted
\* lexicographically".
FilesInOrder ==
  \A i, j \in DOMAIN output : i < j =>
    /\ output[i].instance <= output[j].instance
    /\ output[i].instance = output[j].instance /\ sort =>
         Rank[output[i].path] <= Rank[output[j].path]

\* The search ends although the files change while it looks at them, as long as
\* they do not change for ever.
SearchEnds == <>(search \in {"done", "thrown"})
=============================================================================
