\* The registry looked up and written, and every way an instance may answer.
CONSTANTS
  a = a  letterN = letterN  quote = quote  backslash = backslash  newLine = newLine
  prefix = prefix  null = null  failure = failure  today = today  never = never  broken = broken
  Absent = absent
  Quote = quote  Backslash = backslash  LetterN = letterN  NewLine = newLine
  Prefix = prefix  Null = null  Failure = failure
  Characters <- MCCharacters
  Versions <- MCVersions
  Strings <- MCStrings
  Others <- MCOthers
  Size <- MCSize
  DateText <- MCDateText
  Half = 8
  Memory = {0, 5}
  Instances <- MCInstances
  MaxWrites = 3
SPECIFICATION ListingSpec
INVARIANTS
  TypeOK
  EachShowsItsOwn
  TextsReadBack
  LegacyIsLimited
PROPERTIES
  LooksUpAtOnce
