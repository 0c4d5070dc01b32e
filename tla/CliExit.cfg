SPECIFICATION Spec
CONSTANTS
  a = a
  b = b
  Missing = Missing
  Paths <- MCPaths
  Argv <- MCArgv
  Texts <- MCTexts
  Disks <- MCDisks
  Bytes <- MCBytes
  Diagnoses <- MCDiagnoses
  MaxSaves = 1
INVARIANT GoodExitMeansWholeFiles
\* the program exits
CHECK_DEADLOCK FALSE
