SPECIFICATION Spec
CONSTANTS
  Funs = {f, g}
  Configurations <- MCConfigurations
  Keys = {"pod/a"}
  Types = {"pod"}
  TypeOf <- MCTypeOf
  Objects = {"o"}
  HearInputs <- MCHearInputs
  WriteInputs <- MCWriteInputs
  ReadInputs <- MCReadInputs
  MaxLines = 8
  MaxHears = 1
  MaxWrites = 2
  MaxReads = 1
  MaxRounds = 3
  MaxCalls = 1
SYMMETRY Symmetry
INVARIANTS SeenEventsAreCauses CausesWereRead GraphIsSane
CHECK_DEADLOCK FALSE
