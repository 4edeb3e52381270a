SPECIFICATION FairSpec
CONSTANTS
  a = a
  b = b
  c = c
  none = none
  Ids <- MCIds
  NoDecl = none
  Codes <- MCCodes
  Packages <- MCPackages
  Selections <- MCSelections
INVARIANTS
  ReturnsLeastClosure
  BlockersAreExact
  OpaqueStaysOpaque
PROPERTIES
  WalkEnds
  ImplementsVerdict
CHECK_DEADLOCK FALSE
