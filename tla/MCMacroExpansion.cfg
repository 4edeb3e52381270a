SPECIFICATION ConditionSpec
CONSTANTS
  None = None
  Unknown = Unknown
  HostBits = 8
  Letters <- MCLetters
  Digits <- MCDigits
  Literals <- MCLiterals
  Setups <- MCSetups
  Conditions <- MCConditions
INVARIANTS
  ExpansionIsStandard
  DepthIsOfNames
  ConditionIsStandard
CHECK_DEADLOCK FALSE
