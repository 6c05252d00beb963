# A verification of vswhere

vswhere is a command line program that finds instances of Visual Studio. It
asks a COM service (the *setup configuration*) for the instances there are and
the registry for older, *legacy* ones, keeps those that satisfy its command
line, orders them, and writes them as text, values, JSON or XML.

The program is one thread and one pass from the command line to an exit code.
Nothing in it races with itself, but other programs change the registry and the
files it reads while it reads them. What is hard about it besides that:

- loops that carry state from turn to turn and decide late what an earlier
  character, word or property meant (the version range parser, the command
  line parser, the search for one property over several stores);
- everything it asks may fail, call by call, and an exception may leave any of
  these loops half way, with what was done so far still in place (a document
  begun, options half read);
- it hands a comparator to `std::sort` that throws, and that is not the strict
  order `std::sort` demands;
- scopes of a document that start late, only when something is in them;
- one variable that holds the value of each property in turn, and getters that
  may succeed without setting it.

The modules here are translated from the code under `src/src` of the
repository. Paths below are relative to `src/src/vswhere.lib` unless they say
otherwise. `PROJECT.json` gives the lines each definition stands for, the
runs, the faults every property was seen to catch, the hazards and the findings.

## The parts of the program

| Part | State it keeps | Operations | Hard behaviour | Correct when | Here |
|---|---|---|---|---|---|
| `wmain` (`vswhere/Program.cpp`) | query object, arguments, console, formatter | the sequence of steps, two kinds of handlers, `WriteLogo`, `GetEnumerator` | an exception at any step, handlers that look at half-read options, options that several objects look at | nothing is written before the console is ready; the exit code tells a whole document from a failure; the document shows what the words ask for | `Program`, `Vswhere` |
| `CommandArgs`, `CommandParser` | some twenty options, whether one selects instances | `Parse`, `ParseArgument`, `ParseArgumentArray`, `ParseRequiresArray` | options in any order, repeated, excluding each other, an iterator advanced in two places | accepts exactly what the usage text allows; the meaning does not depend on order | `CommandArgs` |
| `VersionRange` | none; a dozen locals | `ParseVersionRange`, `ParseVersionString` | one scan decides brackets, separator and two versions; bounds at the ends of 64 bits | returns the interval the text denotes, or fails and clears its outputs | `VersionRange` |
| `InstanceSelector` | range, vector of instances | constructor, `Select`, `IsMatch`, `IsProductMatch`, `IsWorkloadMatch`, `IsVersionMatch`, `Less` | failing getters, erasing while iterating, `std::sort` with `!Less`, a comparator that throws | lists what satisfies the command line, once each, newest first | `InstanceSelector`, `Selection` |
| `LegacyProvider`, `LegacyInstance` | the key; version and path of an instance | `TryGetLegacyInstance`; the methods of an instance, most of which fail | the value changes between asking its size and reading it | answers as one look into the registry would | `LegacyProvider`, `LegacyLookup`, `Values` |
| `Formatter` | list of properties, one `VARIANT` for all | `Write`, `WriteFiles`, `WriteInternal`, `WriteProperties`, `WritePackages`, the getters | one flag for "found" over four places, stores that are not there, getters that leave the `VARIANT` as it is | shows what was asked for, each property with its own value | `Formatter`, `Documents`, `Values` |
| `JsonFormatter`, `XmlFormatter`, `TextFormatter`, `ValueFormatter` with their scopes | a stack of scopes, the text so far | starts and ends of arrays and objects, `WriteProperty`, `Escape` | scopes started late, separators written early | the document is well formed, the formats agree, texts read back | `JsonFormatter`, `XmlFormatter`, `TextFormatter`, `Escape` |
| `Glob` | the root, the regular expression | constructor, `Match`, `Entries` | what a `*` means is known at the next character only; the directories change during the walk | finds the files the pattern denotes, once each | `Glob`, `GlobMeaning`, `FileSearch` |
| `Console` | whether it is initialized, encoding, colours | `Initialize`, `Write`, `WriteLine` | an assertion on the order of calls | used only when ready | `ready` in `Program` |
| Support classes (`Module`, `CoInitializer`, `SafeArray`, `Exceptions`, `ResourceManager`, `Utilities`) | handles | wrappers of single calls | | | no |

How they interact: `wmain` owns all of them and calls them in turn.
`CommandArgs` is written by its own `Parse` only and read by everybody after
it, the exception handlers included. `InstanceSelector` calls the setup
service's enumerator and instances, `LegacyProvider`, `ISetupHelper` and, by
way of `std::sort`, its own `Less`. `Formatter` calls the instances again and
its own virtual methods, which write to the `Console`. What is external is the
setup service, the registry, the file system, the console, and the MSVC
library's `std::sort`, `std::regex` and `recursive_directory_iterator`; each is
modelled, as far as it is, from how the code uses it.

## The modules

| Module | What it is |
|---|---|
| `VersionRange` | `ParseVersionRange`, one action for each case of the loop over the characters, one for each step after it |
| `Selection` | what `Select` promises: instances that satisfy the command line, listed newest first, or a failure |
| `InstanceSelector` | the constructor and `Select`: enumeration, matching package by package, legacy versions, insertion sort; implements `Selection` |
| `CommandArgs` | `Parse`, one action for each kind of option, and the part after the loop |
| `JsonFormatter`, `XmlFormatter`, `TextFormatter` | the virtual methods of a formatter, as operators on its state |
| `Formatter` | the loops that call these methods, one call in a step |
| `Documents` | how a document is read, and the properties that are about the text; extends `Formatter` |
| `Program` | `wmain`; composes `CommandArgs` (by `INSTANCE`) with the rest of it, finding and writing reduced to how they end |
| `Vswhere` | the whole program: extends `Program`, with the machines of `InstanceSelector` and `Formatter` (by `INSTANCE`) for finding and writing; implements `Program` |
| `Glob` | the constructor of `Glob`, one action for each case of the loop over the characters, and `Match` |
| `GlobMeaning` | what a pattern says, segment by segment, and the patterns of which the code makes something else |
| `FileSearch` | `WriteFiles` and `Entries` over a tree that other programs change; extends `GlobMeaning`, runs the machine of `Glob` for each instance |
| `LegacyProvider` | `TryGetLegacyInstance` for one version after the other, beside writers of the registry; implements `LegacyLookup` |
| `LegacyLookup` | what its caller may expect: the answer of a single look |
| `Values` | the getters, the shared `VARIANT`, and what `WriteProperty` makes of it; `LegacyInstance` as one kind of instance |
| `Escape` | `Escape` of `JsonFormatter`, and a reader of JSON texts |
| `Listing` | from the registry to the properties shown: `LegacyProvider` and `Values` one after the other |
| `Picking` | the members of a sequence that are in a set, in their order; shared by the models and their properties |
| `VersionRangeProofs`, `InstanceSelectorProofs`, `CommandArgsProofs`, `FormatterProofs`, `FileSearchProofs` (with `Glob`), `LegacyProviderProofs` (with `Values`, `Escape` and `Listing`), `VswhereProofs` (with `Program`) | theorems and their proofs |
| `SequenceLemmas` | what several of the proofs need of sequences: concatenation, flattening, picking, and functions that are defined from the end to the start |
| `MC...` | instances for TLC |

An operator whose comment says *Faulty variant of ...* is in no specification.
It is what a plausible mistake would make of the definition it names, and was
used to see that the property it is listed with in `PROJECT.json` notices.

### VersionRange

`text` is the parameter; `first`, `next` and `last` the three pointers, as
positions; `sep`, `single`, `minInclusive`, `maxInclusive` the flags of the
same names; `from` and `to` the two versions; `out` the parameters that are
written; `hr` the result. Characters are of a few kinds. A version is a number
of four fields in base `FieldMax + 1`, so that the code's 64 bits are
`FieldMax = 65535`, and increment and decrement of a bound wrap at
`MaxVersion` (`Wrap`). `wcstoul` is modelled as it works here: it reads the
digits there are, and zero where there are none. (A sign before the
digits, which `wcstoul` would read, is not among the characters.) `Junk`, a character that is
none of the others, is taken by the code for a dot when it follows a field.

### InstanceSelector and Selection

`options` is `m_args`, with the text of `-version` replaced by what
`VersionRange` makes of it: a valid range is ordered, which is assumed of
`CommandLines` and proved of `VersionRange` (`OutputsAreOrdered`). `installed`
says, for every instance, what its getters answer, failures included, and never
changes. `pending` is what the enumerator has not given yet; it gives any of
them. `unmet` is the pair of copies from which `IsWorkloadMatch` erases, one
package in a step. `instances` is the vector; `mid`, `hole` and `val` are the
locals of the library's insertion sort, which the library uses for at most 32
elements. `matched` is history.

The comparator given to `std::sort` is `!Less`, true of two equal elements,
which is outside of what the library asks for. The sort is modelled step by
step for that reason: what it does with such a comparator cannot be had from
its contract. In `Selection` an instance is `Newer` by version and then by
date, with the grades of instances whose version is missing or unreadable;
what satisfies the command line is said without any order of examination
(a matching between requirements and packages).

### CommandArgs

`argv` has the words, `it` is the iterator, `args` the members, `hasSelection`
the local of that name. Names have no letter case. The tokens are made of all
words first (`Tokenize`), so an empty word anywhere is refused before any other
has a meaning. `rejected` leaves `args` as it is at that moment: `wmain`
still reads it. `ParseRegex` is `noexcept`, so a required pattern that is no
regular expression ends the process (`terminated`).

### Formatter and its formats

`request` is the command line, `instances` the argument. Where the code calls a
virtual method, `formatter'` is the operator of that method applied to
`formatter`; no step calls two except the two at the start. The JSON and XML
formatters have a stack of scopes and the text as a sequence of tokens; a scope
writes its start when the first property in it is written (`WriteStart`
starts the unstarted ones below it first). `found` is the local of
`WriteInternal`, overwritten by each store. `shown` is history: what was
written, from where.

### Program

The control points are the calls of `wmain` in their order. `parsing` and the
variables after it are those of `CommandArgs`, whose `Next` is taken while `pc`
is `"parse"`. The selection is reduced to finding or throwing, the writing to a
whole document or an unfinished one.

### Vswhere

The variables of `InstanceSelector` and of `Formatter` stand beside those of
`Program`. Their constants and parameters are operators over what `wmain`
hands on: `Options` and `Request` are the members of `CommandArgs` with the
defaults of its getters (`get_Products`, `get_Format`), `Enumerated` is what
`GetEnumerator`'s enumerator has, `instances` the vector `Select` returned.
`machine` says of each instance what the selector and the formatter ask of it.
Only `Frame`, `FailEnumerator` and `SelectPath` are taken from `Program` as they are; where
`Program` lets finding or writing end in any way, `Vswhere` has them run.
`Program` is the abstract specification: each step of `Vswhere` is one of
`Program`, or changes nothing of it (`ImplementsProgram`).

### Glob, GlobMeaning and FileSearch

`value`, `valueRaw`, `accumulator`, `foundGlobstar`, `foundWildcard` and
`lastch` are the locals of the constructor. `m_root` is two variables: `root`,
the names joined to it, and `base`, what they are below. A regular expression is a sequence of the pieces the code appends;
`RegexMatch` matches them as `std::wregex` does, by the places in the text
where a reader may stand after each piece (`Reach`), and `Compiles` says when
the library refuses them. `GlobMeaning` reads the same pattern another way: it
splits it at the separators and matches segment by segment.

`m_root /= value_raw` is `operator/=` of `std::filesystem::path`, which appends a
name only as long as the name is no more than that (`Join`). A word before the
first wildcard may name a drive, since `IsInvalid` lets a colon pass. When it is
another drive than that of the root, the word replaces the root: `D:` leads to the
directory that is current there, `D:a` to a name in it. When it is the same, what
follows the colon is joined without being looked at, so that `C:..` leads up.
`base` keeps whether the root is still the installation path or above it (`home`),
how many names up it is (`above`), and whether what is below follows without a
separator (`bare`), as after `D:`, which moves what `Match` looks at by one
character. So a pattern with such a word (`NamesADrive`) may make the search start
on another drive or above the installation, although the constructor means to
"block parent directory references" (`Glob.cpp:53`). `RootStaysInside` says that no
other pattern does. `PatternFindsItsFiles` and `FoundExactlyOnce` leave these
patterns out: no document or test says what they should find, and there is no run
that holds it against the code. What the code does with them is modelled and
searched; that they are refused for just what others are, and that their search
ends, is checked.

The two readings differ for patterns with one of these traits, which
`Defects` names and which are left out of the properties: a caret, which is not
escaped; a lone star at the very end, or followed by `?`, which stays raw; a directory
with wildcards whose literals are only dots (`*.`), taken for the current or
parent directory; a separator repeated after a current directory; a pattern
that ends like a directory. The lone star at the end is against the usage text
and has a run of its own, `trailing_star`; of the others no document or test
says what they should find.

In `FileSearch` three actions of other programs (`CreatePath`, `DeletePath`,
`Protect`) may come between any two steps of the walk. An open directory is
what the file system promises of one: `due`, the entries that were there all
the time and are still to be given, and `may`, those it may give. An entry may
be gone when `Descend` wants to open it, which throws, and nobody catches that
before `wmain`. `stayed` and `owed` are history: what was there during a whole
walk and is denoted by the pattern must have been written once.

### LegacyProvider, LegacyLookup, Values, Escape and Listing

`ReadSize` and `ReadValue` are the two calls of `RegQueryValueEx`; `Write` and
`DeleteKey` may come between them. The second call does not ask for the type.
`LegacyLookup` allows the answer of one look at some moment of the call, and a
failure or data of another type only if the value was written during the call.
`Return` is the return of `TryGetLegacyInstance`. The constructor of the static
provider runs before `wmain`, so that what it throws ends the process.

In `Values` an instance is a record of its interfaces, of what each method
answers, `Failure` included, and of its property store. A getter is the set of
its outcomes: failed, succeeded and set, succeeded and untouched; `GetState`
writes the lower half of the data and leaves what memory held in the upper.
`Cleared` is the `&` of `variant_t` (`GetAddress`), which clears it before each
getter. `Written` is what `WriteProperty` makes of each type.

## The runs

Runs that hold:

| Run | Instance | States | Question |
|---|---|---|---|
| `version_range` | every text of up to 4 of 11 characters, and some 5000 longer ones shaped like a range; fields 0 and 1 | 157,045 | Does the scan return exactly the interval the text denotes (`RangeIsDenoted`), with ordered or cleared outputs (`OutputsOrdered`)? |
| `selector` | 3 instances and a legacy one, each with any of 3 dates or 3 other versions, with and without a helper, `-sort`, `-latest`; and 1 instance of 21 kinds beside two old ones and a legacy one of 2 versions for 38 command lines | 899,990 | Is nothing lost or listed twice while the sort moves elements (`NoInstanceLost`), does sorting throw only for a real conflict (`FailsOnlyOnConflict`), is only listed what satisfies the command line, newest first (`Implements`), is nothing that satisfies it rejected unless its requirements compete for a package (`NothingLostInMatching`), does `Select` end (`Terminates`)? |
| `command_args` | every line of up to 3 options of a pool that has each kind, right and wrong | 57,256 | Do the members mean what the words mean, in whatever order (`MeansItsWords`), is exactly what is well formed accepted (`AcceptsWellFormed`), are excluding options never accepted together (`Exclusive`)? |
| `formatter` | up to 2 instances of 10 kinds, 4 formats, 9 choices of property, packages and files | 176,302 | Are the stack, the text and the loops in step (`StackIsInStep`, `TextMatchesStack`), is what was asked for shown, and once (`ShowsWhatWasAsked`, `OneValueAtMost`), do the formats agree (`FormatsAgree`), is a finished text XML (`XmlIsXml`), and JSON unless an empty scope follows something (`JsonUnlessHollow`)? |
| `program` | two instances of 4 kinds each and a legacy one; every line of up to two options of a pool of 18, and some of three; with and without a query object; every exception | 591,552 | Is nothing written before the console is ready (`ConsoleIsReady`), does the exit code tell what is in the output (`ExitCodeTells`)? From the words to the document: is nothing shown that they do not ask for (`OnlyWantedIsShown`), is nothing found left out (`NothingFoundIsLost`)? Does the composition implement `Program` (`ImplementsProgram`) and end (`Ends`)? |
| `find` | patterns of up to 3 of 8 characters, without caret, colon and bar of up to 5, of three segments of 13 kinds, and of up to two words, 8 of them with a drive, before a last one, against all paths of up to three of 5 names; for four of them, one that leads to the current directory of another drive and up from it, 6 files and directories in three instances, one without a path, changed up to twice | 414,593 | Does a pattern find the files it denotes (`PatternFindsItsFiles`) and is it refused exactly when it should be (`InvalidPatternIsRefused`); does the root stay below the installation unless a word names a drive (`RootStaysInside`); is each file that stays written once whatever else changes (`FoundExactlyOnce`), in its place (`FilesInOrder`); does the search end (`SearchEnds`)? |
| `listing` | two versions in a registry of four values, written up to three times; 1 instance of the setup service, each method of which answers, fails, or succeeds with nothing; texts of up to 3 of 5 characters | 69,393 | Do the two reads answer as one would (`LooksUpAtOnce`); is each property shown with the answer of its own method (`EachShowsItsOwn`), is a text read back as it was (`TextsReadBack`), is a legacy instance shown with what it has and does what it lacks fail nothing (`LegacyIsLimited`)? |

Runs that show where the program is not what its usage text
(`vswhere.lib.rc`) says:

| Run | What it finds |
|---|---|
| `range_minimum_zero` | `HasVersionRange` asks whether both bounds are other than zero. A range from 0, `[0,9]` or `,9]`, is taken for no range: an instance without a version, or with one that is not in it, matches. |
| `greedy_requirements` | `IsWorkloadMatch` gives a package to the first requirement it meets and never takes it back. With patterns `Workload*` and `*X`, an instance with packages `WorkloadX` and `Workload` is rejected although each requirement has a package of its own. |
| `legacy_requires` | `-legacy` is refused with required literals, not with required patterns: `-legacy -requires A*` is accepted, and the requirement is not applied to legacy instances. |
| `json_comma` | A scope's separator is written before it is known whether the scope will have anything in it: an instance, a catalog or a list of custom properties with nothing to show leaves a comma before the closing bracket. `JsonUnlessHollow` says exactly when. |
| `trailing_star` | A star is made a part of a name only by what follows it. As the last name of a pattern it is appended raw and repeats the separator before it: `-find a\*` finds nothing. |

The handler that writes an error looks at the options read so far (`ShowsLogo`
in `Program`), so that `vswhere -path -nologo` writes the logo; the models have
it so and no property speaks of it.

### Why these bounds

- *Fields 0 and 1.* The parser compares and packs numbers and adds or takes 1
  at an end. With one bit in a field all 16 versions are within reach, both
  ends wrap, and an interval can be written out as a set and compared with the
  denotation. Field size does not matter to the theorems.
- *Texts of 4 characters.* Every two neighbours of any kinds, with something
  before and after them. The shaped texts add what is longer: two versions of
  up to four fields, blanks in and around them, every pair of brackets.
- *Three instances and a legacy one.* The sort moves an element to the front,
  past one, or past several, and a hole stays behind a throw; three are the
  least with all of that, and the fourth comes from the other source.
- *One instance for matching*, in the same run. `IsMatch` looks at one instance at a time and
  keeps nothing between them; the legacy one is there because
  `HasVersionRange` filters it in another place.
- *Three options.* Exclusions are between two; the third may come between,
  before or after, or repeat one.
- *Two instances in a document.* A separator and a scope that is empty need
  one sibling; the ten kinds have a name in each store, in several, in none,
  empty stores and absent ones, packages with and without properties.
- *Two instances and a legacy one, of few kinds, in the whole program.* What
  the machines do by themselves is checked on their own; here each kind has one
  trait that a command line may ask for (prerelease, incomplete, version 3,
  another product) and one the formatter meets (a property that cannot be read,
  no interface, no files). Two of them make an order and a latest one.
- *Patterns of 5 characters.* Every transition of the constructor takes the
  character before and what is at hand, of which two characters tell; five
  make a segment of each kind before and after a separator. Three segments add
  what only the second separator shows, that a flag was reset. Two words with a
  drive before the last show each way of going on from another: from the root,
  from the same drive, from another one, and up from each.
- *Two changes* (`MaxChanges`). An entry is deleted and created again; or one
  comes and another goes in the same walk.
- *Three writes* (`MaxWrites`). One before the size is read, one between the
  reads, and one that takes it back.
- *Numbers below 8 in half a `VARIANT`* (`Half`), with 0 or 5 in the other half
  (`Memory`): the flag of the state that is looked at is 4, and what is left in
  memory is told from what is not.

### Fairness

Three specifications state it, always weak and always for what the program
itself does: `Step` of `InstanceSelector` (`Terminates`), `Step` of `Vswhere`
(`Ends`) and `Read` of `FileSearch` (`SearchEnds`). The program is one thread
that nothing blocks, and the calls it makes return. Nothing is assumed of other
programs; that they change the files `MaxChanges` times at most is what
`SearchEnds` rests on, as a directory that grows for ever need never be walked
to its end. That a step is always enabled until the program has ended is
checked as the absence of deadlock: the action that may then be repeated for
ever is not among the fair ones. The other specifications are of safety only.

## The theorems

Everything below holds for all values of the constants that satisfy the
assumptions the modules name: any number of instances, versions, dates,
packages and requirements, any text, any field size, any command line.

| Theorem | Says | Along which argument |
|---|---|---|
| `VersionRangeProofs!TypeCorrect` | locals stay versions of 64 bits although bounds are incremented and decremented; positions stay in the text | `TypeOK` is inductive; `BoundsDoNotWrap`: a bound is moved only after it was compared with the other |
| `VersionRangeProofs!OutputsAreOrdered` | a range is stored only on success, an ordered one, and zeros on failure | carried by the same induction |
| `VersionRangeProofs!PackKeepsOrder` | comparing packed versions is comparing fields in lexicographic order | arithmetic, one field at a time (`DigitOrder`) |
| `InstanceSelectorProofs!TypeCorrect`, `NothingIsLost`, `SortIsInside` | types; the vector with its hole filled is always exactly the instances matched; the unguarded inner loop of `std::sort` never leaves the vector | `IInv`, below |
| `InstanceSelectorProofs!SortFailsOnConflict` | sorting throws only when two different matched instances are one version installed at one time | `IInv`, and that `mid` is 0 until the sort |
| `InstanceSelectorProofs!SelectImplementsSelection` | `Select` implements `Selection` | `StepSimulation`: under `IInv` every step is a step of `Selection` or changes none of its variables |
| `InstanceSelectorProofs!MatchingLosesNothing` | nothing that satisfies the command line is rejected, unless its packages cannot be had or its requirements compete for one | `Erasing`, below |
| `CommandArgsProofs!OptionsAreExclusive` | excluding options are never accepted together, in whatever order and however many there are | `Reading`: the members, as far as they select, never say more than `hasSelection`; so clearing the products of `*` hides nothing from the last check |
| `CommandArgsProofs!TypeCorrect` | the members keep their types, and the iterator never passes the last token | `TypeOK`, with what `Tokenize` hands to the loop: no empty word |
| `CommandArgsProofs!Meaningful` | at every step the members mean what the words read so far mean, in whatever order they come and however often they are repeated | `WInv`: before each token the members are what the tokens before it mean (`HasRead`); one lemma for each action says what it adds |
| `CommandArgsProofs!Acceptance` | exactly the lines are accepted that are well formed and exclude nothing, for lines of any length | `WInv`: an action that refuses shows which rule the line breaks, and at the end no rule is left to break |
| `FormatterProofs!StacksAreInStep` | a formatter's stack has one scope for each open object and array, at every step; none is looked at or popped when empty | one lemma for each virtual method says how many scopes it pushes or pops; only formats with packages come to the packages, where `TextFormatter` would not push |
| `FormatterProofs!TypeCorrect` | no loop of the formatter reads past what it goes over, and no store is looked into that is not there | `Typed`: `TypeOK` and where each loop is (`Located`) |
| `FormatterProofs!OneValue` | a property asked for by its name is written once at most for each instance, whichever of the four places have it | `OneInv`: what was shown of the instance at hand is recorded in `found`, until it is left (`FoundOnce`) |
| `FormatterProofs!ShowsEverything` | the document shows, of every instance gone over, all that was asked for and nothing else, in the order of the places | `ShowsInv`, below |
| `FormatterProofs!TextFollowsStack`, `FinishedIsXml` | what is open in a text of JSON or XML is what is started on the stack, also where an exception leaves it; a finished text of XML is a document with one root | `DocInv`, below |
| `FormatterProofs!AllFormatsAgree` | each of the four formats writes exactly what is shown, in its order, each property under its place | `DocInv`: a property adds one value, under the scope on top |
| `FormatterProofs!JsonIsKnown` | a finished text of JSON is JSON exactly when no empty scope follows something in the same one | `ExactInv`, below |
| `FileSearchProofs!TypeCorrect` | the locals keep their types, and the flag that is reset at a separator only says what is at hand | `IInv`: `TypeOK`, and that until the first wildcard the piece at hand is the literals at hand (`LiteralUntilWild`) |
| `FileSearchProofs!RootStaysInsideAlways` | only a pattern of which a word before the first wildcard names a drive makes a search start outside of the installation path | `RootInv`, below |
| `FileSearchProofs!RefusesWhatIsInvalid` | a pattern of any length without a named defect is refused exactly when the tests say it is invalid | `ReadInv`, below |
| `FileSearchProofs!FindsWhatItDenotes` | a pattern of any length without a named defect, that names no drive before its first wildcard, finds, in every instance, exactly the files that its segments denote, wherever its first wildcard splits it between the root and the regular expression | `MeantInv`, below |
| `FileSearchProofs!WritesInOrder` | instances keep their order, and with `-sort` the files of each are in theirs, whichever of the orders it may `std::sort` leaves | `Before`: what was written is of instances before the one being walked |
| `FileSearchProofs!WalkFindsOnce` | each file that such a pattern denotes and that stays during the walk over its instance is written once, and nothing is written that is not denoted | `FindsWhatItDenotes`, `RootStaysInsideAlways`; `WalkShape` and `Exact`, below |
| `LegacyProviderProofs!TypeCorrect`, `TwoReadsLookUpAtOnce` | the version asked for is one there is, the size that was read is that of the value unless it was written since; the provider implements `LegacyLookup` | `TypeOK` is inductive, and under it every step is one of `LegacyLookup` |
| `LegacyProviderProofs!ShowsItsOwn` | each property is shown with what its own method answered, and none whose method failed | `ListingInv`, below; one lemma for each kind of getter says what is left in the `VARIANT` |
| `LegacyProviderProofs!ReadsTextsBack` | a reader of JSON reads each text of a property store as the store gave it | `ReadsBack`: reading what `Escape` made of a text gives that text, by induction from its end |
| `LegacyProviderProofs!LimitsLegacy` | a legacy instance is written to its end, with its id, its path and its version and nothing else | `Limited`: the names that are written before each of the fourteen properties |
| `VswhereProofs!ProgramIsImplemented` | the whole program implements `Program`, so that what is proved of `Program` is true of it | `IInv`, below |
| `VswhereProofs!ConsoleIsReadyAlways`, `ExitCodeTellsAlways` | nothing is written before the console is ready; the exit code tells what is in the output | what was written at each place of `wmain` (`WrittenSoFar`), and that exceptions whose handler does not initialize the console come from places where it is (`Readiness`) |
| `VswhereProofs!TypeCorrect`, `ParsesItsCommandLine` | the variables of the program have their types; `Program` implements the specification of `CommandArgs` | the invariants of `CommandArgsProofs`, by `INSTANCE`, while `wmain` parses |
| `VswhereProofs!ShowsOnlyTheWanted`, `LosesNothing` | from the words to the document: nothing is shown that they do not ask for; with success nothing is missing that `Select` returned | `System`, below |

`IInv` of `InstanceSelectorProofs` strengthens `TypeOK` by what the loops know
but no variable says: which range the constructor stored (`RangeKept`), that an
instance is looked at once (`LookedAtOnce`), which packages were already given
to which of the requirements erased (`Examining`; it is the witness of the
matching `Selection` asks for), that all in `matched` satisfy the command line
(`AllSatisfy`), that the places of the vector before `mid` are in order and the
value in hand goes before those it has passed (`Sorting`), and what an answer
was made of (`Answered`). None of the invariants is inductive without it: that
a list is in order when the sort ends follows from the part sorted so far, and
that the search for a place stops before the front follows from the comparison
with the first element that `Insert` makes before it.

`Erasing` relates what `unmet` has lost to the packages examined so far, which
no variable holds: while no requirement competes with another, one is erased as
soon as a package meets it, and an instance is rejected only when something is
left in `unmet` that no package meets. With competing requirements this is
false, which is what the run `greedy_requirements` shows.

`WalkShape` of `FileSearchProofs` says of the iterator that the directories it
is in lie on one path below the root (`Nested`), that what stays is due as long
as it may be listed (`Listings`), and that what it is at or in will not be listed
again (`ListedOnce`). With it, `Exact` is inductive: each file that is found and
stays is in the vector or *ahead*, never both, and in the vector once. A file is
ahead when it, or a directory it is below, may still be listed, or is the entry
the iterator is at. Each step moves what is ahead from one of these
places to the next; a change of the files by another program adds nothing that
stays, since what is created has not stayed; and `Visit` moves the entry itself
from ahead to the vector. When the walk ends no directory is open, so nothing
is ahead. That what `Match` accepts on the way is what the pattern denotes is
`FindsWhatItDenotes`, of files below the installation path; that there are no
others is `RootStaysInsideAlways`. `WalkFindsOnce` joins them, for any pattern
without a named defect that names no drive before its first wildcard, any tree and
any interleaving.

`ReadInv` of `FileSearchProofs` relates the locals of the constructor to the
words of the pattern read so far: the last of them is what is at hand (`InHand`:
its literals are `valueRaw`, it is a star or a globstar exactly when `value` is,
its last character is `lastch`), none of them had to be refused (`NoneRefused`),
and a raw star in the expression is explained by a word in which a question mark
follows it (`RawStars`). Words only grow (`WordsStay`), so that a step that throws
shows which word of the whole pattern is invalid or has a defect, and at the end
the words are those of the pattern.

`RootInv` says that the root is the installation path or names below it
(`Homely`), or the pattern names a drive; and, to keep that, that no word so far
has a wildcard as long as names are joined to the root. Then the literals at hand
are the word itself, which is neither empty nor dots, and `JoinsName` shows that
`operator/=` appends it unless it names a drive; a word that does so is one of
those that `NamesADrive` means, since no word before it has a wildcard.

`MeantInv` compares two readers after each character. One reads a path name by
name and has taken the segments whose words are read; the other reads the text
of the path below the root and has taken the expression. `Tracks` says that they
stand at the same names: the second just before or just after the separator that
ends the names the first has taken, and within a name where the first stands in
the word at hand (`Tracked`); that nobody stands anywhere in a path which the
root does not begin; and that before the first wildcard the only place is the
end of the root. With `WildSoFar`, that the expression is begun exactly where
there is a wildcard, and `DotBefore`, that `lastch` forgets a separator only
after a current directory, it is inductive as long as no word has a defect or
names a drive. The proof has a section on readers of any expression, one
that lays the text of a path out along its names (`Laid`), and one that joins
them piece by piece: a character, a star of a name, a separator, a globstar. The
last is where they could part, since the expression of a globstar takes a
separator as well and may take none. At the end the second reader stands at the
end of the text exactly when the first has taken the whole path, which is
`PatternFindsItsFiles`.

`IInv` of `VswhereProofs` is what keeps the whole program within `Program`
where it is narrow: `Program` lets nothing be found, and no call fail, when
there is no query object and legacy instances are not asked for. The
composition has no such rule. Its selector and its formatter might throw
anywhere; that they do not is because then the enumerator is empty and stays
so (`Quiet`), the vector is empty, and the formatter of an empty vector goes
from the start to the end without asking an instance (`Nowhere`). Until `wmain`
is ready no machine has moved (`Fresh`).

`System` carries the invariants of three proofs into the whole program: those
of the parser, the selector and the formatter, each by `INSTANCE` of the module
that proves it, with the constants and parameters that `Vswhere` gives to the
machine. What is new is what links them: which instances the enumerator of
`GetEnumerator` has (`Finding`), that the vector is what the selector answered
and does not change while it is written (`Vector`), and that the formatter goes
over the answers of the machine for just these instances (`Writing`). So
`ShowsOnlyTheWanted` follows from `AllSatisfy` of the selector, from what
`Meaningful` says of the members, and from `Typed` of the formatter, none of
which knows of the others.

`ShowsInv` of `FormatterProofs` says for every control point what the document
has so far (`Progress`): all parts of the instances before the one at hand, the
parts of the places before the one at hand, and what the loop at hand has gone
over. `ShowsWhatWasAsked` is what is left of it at the end of an instance.

`DocInv` of `FormatterProofs` is about the texts. A formatter *stands* at a
scope (`Stands`) when its stack is the chain from the root to that scope, the
first few of them started and, in JSON, the first few in need of a separator,
and when its text has exactly the started ones open (`Tracks`). For each virtual
method of each format a lemma says where the formatter stands afterwards, which
tokens it wrote, and what that is to one who reads them (`TopStarts`,
`PropertyAdds`, `TopEnds`); for each step of the document another says which of
these methods it calls, at which scope (`Moves`). How many scopes are started is
left open: text, values and balance follow however many there are.

Whether JSON is legal does depend on it. `ExactInv` therefore counts: the
scopes started are the root, and those that something was shown in (`Begun`),
so that it can be said from what is shown alone when an end finds its scope
never started while the one around it has something already (`Ended`): that is
what leaves a separator behind. `HollowSoFar` says the same of the instances,
stores and packages gone over, and each step is shown to change both alike. It
rests on `SeenInv`: what is shown of the instance at hand is from the places
gone over, and so an earlier place is told from a later one.

`ListingInv` is that the instance being written is a legacy one or one of the
setup service (`Kind`), what is said of each line (`Lines`), and `Limited`. The
invariant says nothing of the shared `VARIANT`: each turn of the loop either
sets it or has it cleared by `GetAddress` first, which is what the lemmas on the
getters (`OwnAnswer`) show, and why the faulty variant `ClearedNever` breaks it.

What is computed over data of any length is reached in one of two ways, as
induction over an operator is not to be had: `SetInduction` says of a *set* of
numbers with 0 and all successors that it has all of them; and a function that
is defined by its value at other arguments is shown to exist (`Backwards`,
`FlattensExists`) before anything is said of its values.

### What is assumed

| Assumption | Why the code justifies it |
|---|---|
| `Glob!CharactersAssumption`, `PatternsAssumption` | separators, wildcards, characters of names and invalid ones are different, a colon and the letters of drives are among those of names as no code refuses them, an installation path begins with the letter of a drive or is on none (a share), and a pattern is a sequence of characters |
| `GlobMeaning!PathsAssumption` | the names of a path are written with the characters of names: the file system allows neither separators and wildcards in them nor the characters that `IsInvalid` refuses |
| `FileSearch!PlacesAssumption` | a path has a name in it, the first that of a drive or a share; an installation path is a directory or not known; each drive has a current directory |
| `FileSearch!BelowAssumption` | what is above a file is a directory, and `Paths` has the names of all there may be below an installation path |
| `Formatter!BuiltinAssumption` | `m_properties` lists each name once |
| `Formatter!NamesAssumption` | a property, and a scope that the code names, has a name; only the root and the objects of instances are given none (`nullptr`) |
| `CommandArgs!ArgumentsAssumption`, `CommandLinesAssumption` | `*` is a pattern with wildcards and a pattern that is malformed is one; the formats and `packages` are among the words; a command line is a sequence of words |
| `Vswhere!SelectorAssumption`, `NamesAssumption` | those of `InstanceSelector` and `Formatter` for the machines of the whole program |
| `Vswhere!WordsAssumption` | any word may be given as an id or a name; there is a default for the products |
| `Vswhere!RangeAssumption` | without `-version` there is no range, and a range is ordered, which is `OutputsAreOrdered` of `VersionRangeProofs` |
| `Vswhere!MachinesAssumption` | a legacy instance has no `ISetupInstance2` (`LegacyInstance::QueryInterface`) |
| `Listing!TextsAssumption`, `HalfAssumption` | a quote, a backslash, an `n` and a control character are different; data of the registry are read as text whatever their type |
| `Listing!InstancesAssumption` | a method answers a text, no text or a failure, and the state fits in the half of the `VARIANT` that is written |

### What is only model-checked

- `Terminates`, `Ends` and `SearchEnds`: liveness.
- `RangeIsDenoted`: its reference reads the text as a whole, by sets of positions
  and by how many separators come before; that the scan agrees with it is an
  induction over the characters with the value of a number of any length.

## Not modelled, and why

- *What the library makes of more than 32 elements* in `std::sort` (heaps,
  partitions) with the same comparator.
- *`GetFullPath`*, reduced to whether it fails.
- *Running out of memory.* Any line might throw `bad_alloc`.
- *Encodings, colours, padding, layout of the text.* They are output only.
  Dates are reduced to a text, an empty one, or an exception (`DateText`).
- *Control characters in JSON and markup in XML.* The code writes both as they
  are. `TextsReadBack` leaves control characters out; no document says what
  texts the setup service may give.
- *The text of the names of stored properties*, which `JsonFormatter` writes
  between quotes as they are (`JsonFormatter.cpp:124`) where it escapes values:
  a name with a quote or a backslash in it would break the document. Names are
  values of no structure in the models.
- *Letter case*, of options, of names and of patterns. The letters of drives,
  which `operator/=` compares as they are written, have two spellings in the run
  `find`, as if they were two drives.
- *An installation at the root of a drive*: `rtrim` leaves `C:` of `C:\`, which is
  the directory that is current there.
- *What the file system makes of names*: trailing dots and blanks that it drops,
  streams after a colon in a name (`a:b` is a name like others here), device
  names. A dot, two dots and the drive of a root are modelled.
- *How a path that is written is spelled*. `output` has the files; the code writes
  the text of the root with what is below it, such as `C:\X\..\a` for a pattern
  with `C:..`.
- *Wrappers of one call* (the support classes, `Module`), *resources,
  packaging, tests*.
- `Console` is the variable `ready` of `Program`: it keeps nothing else an
  order of calls could break.

Where a directory is missing or cannot be read, the search ends for all
instances, which `FileSearch` follows; `FoundExactlyOnce` speaks of the
instances that were walked until then.

## Plan

Modelled so far, in this order: the range and the selector, which are the
program's own logic; the command line; the documents; the whole program in
outline; patterns and the search for files; the registry and the values shown;
the whole program with its selector and its formatter.

Proved so far: the types of all components; every safety property of the
command line, the selector, the formatter, the program and its composition, the
registry, the values shown and the search for files; of the range, every one but
`RangeIsDenoted`.

Next:

1. `RangeIsDenoted`, for texts and fields of any length;
2. that `LegacyLookup` and `Selection` keep their own promises, apart from the
   programs that implement them.
