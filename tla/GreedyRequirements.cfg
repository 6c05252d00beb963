\* An early package takes the requirement a later one needs.
CONSTANTS
  i1 = i1  i2 = i2  i3 = i3
  legacy12 = legacy12  legacy10 = legacy10
  None = None  NoVersion = NoVersion  NoProduct = NoProduct  EmptyId = EmptyId  BadId = BadId
  Instances = {i1}
  LegacyVersions <- TwoLegacy
  VersionTexts <- MCVersionTexts
  ParsedVersion <- MCParsedVersion
  TextOrder <- MCTextOrder
  Ids <- MCIds
  MachineStates <- MatchMachines
  CommandLines <- MatchOptions
SPECIFICATION Spec
INVARIANT
  EveryRequirementInstalledMatches
