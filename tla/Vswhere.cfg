\* The whole program.
CONSTANTS
  i1 = i1  i2 = i2  legacy14 = legacy14
  None = None  NoVersion = NoVersion  NoProduct = NoProduct  EmptyId = EmptyId  BadId = BadId
  NoStore = NoStore
  Arguments <- MCArguments
  Star = "*"
  Wildcards = {"*", "["}
  Malformed = {"["}
  Formats = {"json", "text", "value"}
  Packages = "packages"
  Value = "value"
  TextFormat = "text"
  CommandLines <- MCCommandLines
  Instances = {i1, i2}
  LegacyVersions <- MCLegacyVersions
  VersionTexts <- MCVersionTexts
  ParsedVersion <- MCParsedVersion
  TextOrder <- MCParsedVersion
  Ids <- MCIds
  Builtin <- MCBuiltin
  Names <- MCNames
  ObjectOf <- MCObjectOf
  MemberOf <- MCObjectOf
  RangeOf <- MCRangeOf
  DefaultProducts = {"community"}
  PatternOf <- MCPatternOf
  InvalidPatterns = {"***"}
  Machines <- MCMachines
SPECIFICATION SystemSpec
INVARIANTS
  TypeOK
  ConsoleIsReady
  ExitCodeTells
  OnlyWantedIsShown
  NothingFoundIsLost
PROPERTIES
  ImplementsProgram
  Ends
