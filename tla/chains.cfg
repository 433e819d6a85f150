CONSTANTS
  Width = 3
  MaxRules = 3
  MaxSupports = 5
  Inputs <- SomeCalls
SPECIFICATION Spec
INVARIANTS
  EachRuleOnce
  GroupsLPM
  FewestGroups
  GreatestCoverage
  CacheSound
  ExpandedAsAsked
PROPERTIES
  RefinesChainCover
