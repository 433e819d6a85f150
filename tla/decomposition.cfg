CONSTANTS
  Width = 2
  MaxRules = 2
  Kinds = {"decompose_oi", "minimize_oi_lpm", "minimize_oi_lpm, expanded"}
  MaxExpanded = 1
  Inputs <- SomeCalls
SPECIFICATION Spec
INVARIANTS
  LPMRulesKept
  Accounted
  GroupsOI
  GroupsLPM
  Equivalent
