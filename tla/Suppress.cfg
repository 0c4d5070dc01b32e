SPECIFICATION Spec
CONSTANTS
  Texts <- MCTexts
  Rule <- MCRule
  OtherRule <- MCOther
  Wildcard <- MCWildcard
  Garbled <- MCGarbled
  MaxCommands = 2
INVARIANT ScopesAsDocumented
INVARIANT LineCommandTakesEffect
PROPERTY CommandsOnlyAdd
CHECK_DEADLOCK FALSE
