CONSTANTS
  Width = 2
  ManyMasks = 3
  OneMask = 4
  Scale = 60
  Inputs <- SomeInputs
SPECIFICATION Spec
INVARIANTS
  Independent
  Maximal
  DegreesFresh
  Deterministic
  MinDegreeBound
PROPERTIES
  RefinesIndependentSet
