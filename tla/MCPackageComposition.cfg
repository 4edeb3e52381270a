SPECIFICATION Spec
CONSTANTS
  R = R
  T = T
  F = F
  header = header
  e1 = e1
  e2 = e2
  e3 = e3
  M = M
  none = none
  Ids <- MCIds
  NoDecl = none
  Codes <- MCCodes
  FileIds <- MCFiles
  MacroIds = {M}
  Tokens = {1, 2, 3, 4, 5, 6, 7}
  Targets = {"linux", "windows"}
  Inputs = {"default", "DEBUG"}
  Limits <- MCLimits
  Callers <- MCCallers
INVARIANTS
  ResultsAreChecked
  OrderIsImmaterial
  ConflictsArePairwise
  RetainKeepsAnswer
  MergeHidesNothing
CHECK_DEADLOCK FALSE
