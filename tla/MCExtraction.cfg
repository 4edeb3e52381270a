SPECIFICATION Spec
CONSTANTS
  I = I
  T = T
  V = V
  F = F
  S = S
  E = E
  Anon = Anon
  VaList = VaList
  e1 = e1
  h = h
  gen = gen
  none = none
  Ids <- MCIds
  NoDecl = none
  Codes <- MCCodes
  FileIds = {e1, h, gen}
  MacroIds = {}
  Tokens = {}
  Targets = {"linux"}
  Inputs = {"default"}
  Limits <- MCLimits
  Units <- MCUnits
  Generated = gen
  FileRole <- MCFileRole
  FileLength = 99
INVARIANTS
  OnlyConflictsRefuse
  GeneratedStaysIfNeeded
  SupportIsDiagnosed
  SimpleDeclaratorsAreExact
CHECK_DEADLOCK FALSE
