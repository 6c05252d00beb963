\* The document of every format.
CONSTANTS
  None = None
  NoStore = NoStore
  Builtin <- MCBuiltin
  Names <- MCNames
  ObjectOf <- MCObjectOf
  MemberOf <- MCMemberOf
  Machines <- MCMachines
  Requests <- MCRequests
SPECIFICATION Spec
INVARIANTS
  TypeOK
  StackIsInStep
  TextMatchesStack
  ShowsWhatWasAsked
  OneValueAtMost
  FormatsAgree
  XmlIsXml
  JsonUnlessHollow
