CONSTANTS
  Width = 2
  NOP = NOP
  NopCode = NopCode
  Actions = {NOP, a, b}
  Predicates = {{}, {a}, {b}, {NOP, a}, {a, b}}
  MaxRules = 3
  MaxCalls = 2
  Inputs = {}
  Sessions <- SomeSessions
SPECIFICATION ShareSpec
INVARIANTS
  SplitsCompose
  ZeroWeightUnobstructed
  WeightsBoundCost
