SPECIFICATION FairSpec
CONSTANTS
  a = a
  b = b
  c = c
  d = d
  cmd = cmd
  A = A
  None = None
  Files = {a, b, c, d}
  Builtins = {d}
  CommandLine = cmd
  Names <- MCNames
  Bodies <- MCBodies
  Pastes <- MCPastes
  Setups <- MCSetups
INVARIANTS
  StructureIsChecked
  TextIsReference
  InventoryIsActive
  SearchIsReference
  BudgetsKept
PROPERTIES
  Ends
  BranchesAreExclusive
CHECK_DEADLOCK FALSE
