\* A star as the last name of a pattern.
CONSTANTS
  Separators <- MCSeparators
  Star = "*"
  Question = "?"
  Dot = "."
  Caret = "^"
  Colon = ":"
  Letters = {"a", "b"}
  NoDrive = NoDrive
  RootNames = {"a"}
  Literals = {"a", "b", "c", "d", ".", "^", ":"}
  Invalid = {"|"}
  Null = "null"
  MaxLength = 3
  MaxPlain = 3
  Patterns <- MCPatterns
  Paths <- MCPaths
  NoPath = NoPath
  MaxChanges = 2
  Searched <- MCSearched
  Directories <- MCDirectories
  Places <- MCPlaces
  InstallationPaths <- MCInstallationPaths
  WorkingDirectory <- MCWorkingDirectory
  Rank <- MCRank
SPECIFICATION FindSpec
INVARIANT StarMatchesCharacters
