SPECIFICATION ConditionSpec
CONSTANTS
  None = None
  Unknown = Unknown
  HostBits = 8
  Letters <- MCLetters
  Digits <- MCDigits
  Literals <- MCLiterals
  Setups <- NoSetups
  Conditions <- ChoiceConditions
INVARIANTS
  AnswersAreThoseOfC
CHECK_DEADLOCK FALSE
