SPECIFICATION PlansSpec
CONSTANTS
  Funs = {"f", "g"}
  Keys = {"pod/a"}
  Types = {"pod"}
  TypeOf <- MCTypeOf
  Objects <- MCObjects
  HearInputs <- MCHearInputs
  WriteInputs <- MCAllWriteInputs
  ReadInputs <- MCReadInputs
  Configurations <- MCConfigurations
  MaxLines = 14
  MaxOperations = 7
  MaxHears = 4
  MaxWrites = 3
  MaxReads = 1
  MaxRounds = 2
  MaxCalls = 0
  RandomValues = {"time1"}
  NoDiff <- MCNoDiff
  NoFields <- MCNoFields
  DiffEvent <- MCDiffEvent
  CanonicalizeEvent <- MCCanonicalizeEvent
  PartOf <- MCPartOf
  SameKey <- MCSameKey
  TrimKindApiversion <- MCTrimKindApiversion
  configured_masked_keys <- NoMasks
  configured_masked_paths <- NoMasks
  learned_masked_paths <- NoMasks
  EndState <- MCEndState
  RandomNames = {}
  leading_api = "leading"
  following_api = "following"
  CustomTypes = {}
INVARIANTS PauseIsAtSource ResumeComes RestartCountIsExact TimingIsDecided
CHECK_DEADLOCK FALSE
