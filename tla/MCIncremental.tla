---------------------------- MODULE MCIncremental ----------------------------
(***************************************************************************)
(* Small calls for TLC: lists of at most MaxRules of a few filters, two of *)
(* which every other one meets or misses in a different way.               *)
(***************************************************************************)
EXTENDS Incremental

CONSTANT MaxRules   \* bound on the number of rules

Bit2(a, b) == [k \in Bits |-> IF k = 0 THEN a ELSE b]

SomeFilters ==
  {Bit2(ZERO, ANY), Bit2(ANY, ONE), Bit2(ONE, ZERO), Bit2(ZERO, ZERO)}

SomeCalls ==
  {c \in [rules : UNION {[1 .. n -> SomeFilters] : n \in 0 .. MaxRules},
          max_width : 1 .. Width, max_num_groups : 1 .. 2,
          max_candidate_groups : 1 .. 2, max_traditional : 0 .. 2] :
     c.max_num_groups <= c.max_candidate_groups}

\* Three rules that match the header 00, one group and one place elsewhere.
Nested ==
  {[rules |-> <<Bit2(ZERO, ZERO), Bit2(ZERO, ANY), Bit2(ANY, ANY)>>,
    max_width |-> 2, max_num_groups |-> 1, max_candidate_groups |-> 1,
    max_traditional |-> 1]}
=============================================================================
