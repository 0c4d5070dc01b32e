SPECIFICATION FairSpec
CONSTANTS
  u1 = u1
  u2 = u2
  cfg1 = cfg1
  opt1 = opt1
  Uris = {u1}
  Configs = {cfg1}
  OptionSets = {opt1}
  NoConfig = NoConfig
  DefaultOptions = DefaultOptions
  NoDoc = NoDoc
  NoDiags = NoDiags
  Scrambled = Scrambled
  Debounce = 1
  MaxText = 1
  MaxBatch = 2
  MaxOpens = 1
  MaxRequests = 3
  MaxSaves = 1
  MaxTomlEdits = 0
  MaxUnread = 2
  MaxActs = 5
  Fits <- ExactOnly
  CanLeave = FALSE
PROPERTY QuietBecomesFresh
CHECK_DEADLOCK FALSE
