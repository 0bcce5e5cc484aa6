SPECIFICATION Spec
CONSTANTS
  Second = 4
  MaxTime = 11
PROPERTIES WaitsAsLongAsAsked
CHECK_DEADLOCK FALSE
