CONSTANTS
  Width = 3
  ChunkBits = 2
  MaxWidth = 5
  MaxFilters = 3
  MaxLimit = 2
  Algorithms = {"icnp_oi", "icnp_blockers", "min_similarity"}
  Inputs <- SomeCalls
SPECIFICATION FairSpec
INVARIANTS
  OrderIndependent
  KeepsAFilter
  RequestMet
  WithinBounds
  PackingInvisible
PROPERTIES
  ExactBitsGoLast
  Termination
