SPECIFICATION Spec
CONSTANTS
  Threads = {t1}
  Texts = {1, 2}
  SkipTexts = {1}
  Profiles = {sm66, sm67}
  Targets = {unset}
  Unset = unset
  DefaultProfile = sm66
  Sessions = {s1, s2}
  PoolSize = 1
  StageSets <- MCStageSets
  MaxLints = 2
  MaxEdits = 1
  None = None
INVARIANT CfgSkipIsOfThisText
