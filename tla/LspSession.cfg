SPECIFICATION Spec
CONSTANTS
  u1 = u1
  u2 = u2
  cfg1 = cfg1
  opt1 = opt1
  Uris = {u1, u2}
  Configs = {cfg1}
  OptionSets = {opt1}
  NoConfig = NoConfig
  DefaultOptions = DefaultOptions
  NoDoc = NoDoc
  NoDiags = NoDiags
  Scrambled = Scrambled
  Debounce = 1
  MaxText = 2
  MaxBatch = 2
  MaxOpens = 2
  MaxRequests = 3
  MaxSaves = 1
  MaxTomlEdits = 1
  MaxUnread = 2
  MaxActs = 4
  Fits <- AllFits
  CanLeave = TRUE
INVARIANTS TypeOK OneReplyInOrder ClosedMeansCleared OpenSetAgrees NotesFitRegistry RegistryFollows SavedIsFresh VersionNamesText FixesFitTheDisplay
CHECK_DEADLOCK FALSE
SYMMETRY UriSymmetry
