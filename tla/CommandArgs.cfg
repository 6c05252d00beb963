\* What Parse makes of a command line.
CONSTANTS
  a = a  b = b  star = star  pattern = pattern  broken = broken
  json = json  value = value  packages = packages  None = None
  Arguments = {a, b, star, pattern, broken, json, value, packages}
  Star = star
  Wildcards = {star, pattern, broken}
  Malformed = {broken}
  Formats = {json, value}
  Packages = packages
  Value = value
  CommandLines <- MCCommandLines
SPECIFICATION Spec
INVARIANTS
  TypeOK
  MeansItsWords
  AcceptsWellFormed
  Exclusive
