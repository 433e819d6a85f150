CONSTANTS
  Width = 2
  NOP = NOP
  Actions = {NOP, a, b}
  FewActions = {NOP, a, b}
  MaxRules = 4
  Inputs <- WithResolution
SPECIFICATION Spec
INVARIANTS
  ResolutionEquivalent
