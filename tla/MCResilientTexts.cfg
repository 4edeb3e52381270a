SPECIFICATION Spec
CONSTANTS
  Names <- MCNames
  Texts <- MCTexts
  Flavors <- FlavorsOf
  WellFormed <- Plain
  ExternalDeclaration <- ExternalDeclarationAt
INVARIANTS
  OutcomesAreReliable
  TextIsAccounted
  PrefixKept
  ItemsAreAtFileScope
  WellFormedIsKept
  ScopesAreClosed
  TypesWereDeclared
PROPERTIES
  RoundsAdvance
CHECK_DEADLOCK TRUE
