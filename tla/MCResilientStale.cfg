SPECIFICATION Spec
CONSTANTS
  Names <- MCNames
  Texts <- RecoveryTexts
  Flavors <- FlavorsOf
  WellFormed <- Plain
  ExternalDeclaration <- ExternalDeclarationAt
PROPERTIES
  SkippedDeclaresNothing
CHECK_DEADLOCK TRUE
