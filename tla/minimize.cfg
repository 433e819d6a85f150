CONSTANTS
  Width = 2
  NOP = NOP
  Actions = {NOP, a, b}
  FewActions = {NOP, a}
  MaxRules = 4
  Inputs <- AllCalls
SPECIFICATION FairSpec
INVARIANTS
  Equivalent
  Fixpoint
PROPERTIES
  PassesAgree
  Termination
