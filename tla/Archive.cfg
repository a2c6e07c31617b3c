SPECIFICATION Spec
CONSTANTS
  Inputs <- MCInputs
  DefaultCombinedMarkdownLimit = 188
  MaxDamages = 1
INVARIANTS
  TypeOK
  SoundInputPasses
  OnlySoundPublished
  PublishedTellsInput
  StrictIsWhole
  CombinedNearLimit
CHECK_DEADLOCK FALSE
