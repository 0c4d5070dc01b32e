SPECIFICATION Spec
CONSTANTS
  a = a
  b = b
  Missing = Missing
  Paths <- MCPaths
  Argv <- MCArgv
  Texts <- MCTexts
  Disks <- MCDisks
  Bytes <- MCBytes
  Diagnoses <- MCDiagnoses
  MaxSaves = 1
INVARIANTS TypeOK FixesAreAtomic AcceptedByPriority ConflictsNameTheWinner AcceptedAreDisjoint EditsReplaceWhatTheRuleSaw RewriteIsTheMerge
\* the program exits
CHECK_DEADLOCK FALSE
