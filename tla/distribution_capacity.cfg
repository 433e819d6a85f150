CONSTANTS
  Width = 2
  NOP = NOP
  Actions = {NOP, a, b}
  Acts = {NOP, a, b}
  MaxRules = 4
  CapacityLists <- Capacities
  Inputs <- ShadowedCalls
SPECIFICATION Spec
INVARIANTS
  CapacityRespected
