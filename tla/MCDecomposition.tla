---------------------------- MODULE MCDecomposition ----------------------------
(***************************************************************************)
(* Small calls for TLC: every list of at most MaxRules rules, and lists of *)
(* three out of five filters, with one or two groups asked for and at most *)
(* one more candidate.                                                     *)
(***************************************************************************)
EXTENDS Decomposition

CONSTANTS
  MaxRules,     \* bound on the number of rules
  Kinds,        \* the functions tried
  MaxExpanded   \* max_expanded_bits

Bit2(a, b) == [k \in Bits |-> IF k = 0 THEN a ELSE b]

SomeFilters ==
  {Bit2(ZERO, ANY), Bit2(ZERO, ONE), Bit2(ANY, ONE), Bit2(ONE, ZERO), Bit2(ANY, ANY)}

Lists ==
  UNION {[1 .. n -> Filter] : n \in 0 .. MaxRules} \cup [1 .. 3 -> SomeFilters]

SomeCalls ==
  {c \in [kind : Kinds, rules : Lists, max_width : 1 .. Width,
          max_num_groups : 1 .. 2, max_candidate_groups : 1 .. 3,
          max_expanded_bits : {MaxExpanded}] :
     c.max_candidate_groups - c.max_num_groups \in {0, 1}}
=============================================================================
