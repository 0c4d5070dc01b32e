SPECIFICATION Spec
CONSTANTS
  Threads = {t1, t2}
  Texts = {1, 2}
  SkipTexts = {1}
  Profiles = {sm66, sm67}
  Targets = {unset, sm67}
  Unset = unset
  DefaultProfile = sm66
  Sessions = {s1, s2, s3}
  PoolSize = 1
  StageSets <- MCStageSets
  MaxLints = 3
  MaxEdits = 1
  None = None
SYMMETRY Symmetry
INVARIANTS TypeOK SessionHasOneUser PoolWithinCap SessionFitsProfile
INVARIANTS AnswersAreCanonical AnswersAreForTheText IrAgreesWithReflection
PROPERTY SessionsReturnToThePool
