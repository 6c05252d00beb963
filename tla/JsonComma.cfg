\* The document of the format json.
CONSTANTS
  None = None
  NoStore = NoStore
  Builtin <- MCBuiltin
  Names <- MCNames
  ObjectOf <- MCObjectOf
  MemberOf <- MCMemberOf
  Machines <- MCMachines
  Requests <- MCRequests
SPECIFICATION Spec
INVARIANT JsonIsJson
