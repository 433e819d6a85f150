CONSTANTS
  Width = 2
  MaxRules = 4
  Inputs <- SomeCalls
SPECIFICATION Spec
INVARIANTS
  TypeOK
  GroupsStayLPM
  AddedAreRepresented
