CONSTANTS
  Width = 2
  MaxRules = 3
  Inputs <- Nested
SPECIFICATION Spec
PROPERTY
  StatsAreReturned
