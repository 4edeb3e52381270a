SPECIFICATION Spec
CONSTANTS
  Names <- MCNames
  Texts <- RecoveryTexts
  Flavors <- FlavorsOf
  WellFormed <- Plain
  ExternalDeclaration <- ExternalDeclarationAt
INVARIANTS
  LeadingDirectiveIsSkipped
CHECK_DEADLOCK TRUE
