SPECIFICATION Spec
CONSTANTS
  Lines <- MCLines
  Inputs <- MCInputs
  Keys = {"default", "other"}
  DefaultKey = "default"
  Npos = 15
  MaxLines = 2
INVARIANTS
  RoundTrip
  HistoryNoRepeat
  StatusTells
CHECK_DEADLOCK FALSE
