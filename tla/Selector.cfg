\* How Select decides what matches, and how it orders what it found.
CONSTANTS
  i1 = i1  i2 = i2  i3 = i3
  legacy12 = legacy12  legacy10 = legacy10
  None = None  NoVersion = NoVersion  NoProduct = NoProduct  EmptyId = EmptyId  BadId = BadId
  Instances = {i1, i2, i3}
  LegacyVersions <- OneLegacy
  VersionTexts <- MCVersionTexts
  ParsedVersion <- MCParsedVersion
  TextOrder <- MCTextOrder
  Ids <- MCIds
  MachineStates <- MCMachineStates
  CommandLines <- MCCommandLines
SPECIFICATION MCSpec
INVARIANTS
  TypeOK
  NoInstanceLost
  FailsOnlyOnConflict
  NothingLostInMatching
PROPERTIES
  Implements
  Terminates
