CONSTANTS
  Width = 2
  MaxRules = 2
  Kinds = {"decompose_oi"}
  MaxExpanded = 0
  Inputs <- SomeCalls
SPECIFICATION Spec
INVARIANTS
  EveryRuleKept
