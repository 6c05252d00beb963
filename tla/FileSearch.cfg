\* Patterns of up to five characters, of three segments, and
\* of words that name a drive; files that change up to twice during the search.
CONSTANTS
  Separators <- MCSeparators
  Star = "*"
  Question = "?"
  Dot = "."
  Caret = "^"
  Colon = ":"
  Letters = {"a", "b"}
  NoDrive = NoDrive
  RootNames = {"a"}
  Literals = {"a", "b", "c", "d", ".", "^", ":"}
  Invalid = {"|"}
  Null = "null"
  MaxLength = 3
  MaxPlain = 5
  Patterns <- MCPatterns
  Paths <- MCPaths
  NoPath = NoPath
  MaxChanges = 2
  Searched <- MCSearched
  Directories <- MCDirectories
  Places <- MCPlaces
  InstallationPaths <- MCInstallationPaths
  WorkingDirectory <- MCWorkingDirectory
  Rank <- MCRank
SPECIFICATION FindSpec
INVARIANTS
  TypeOK
  RootStaysInside
  InvalidPatternIsRefused
  PatternFindsItsFiles
  FoundExactlyOnce
  FilesInOrder
PROPERTY
  SearchEnds
