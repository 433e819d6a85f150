------------------------------- MODULE MCChains -------------------------------
(***************************************************************************)
(* Small calls for TLC.  Only supports matter to the chains, so an exact   *)
(* bit is always a one.                                                    *)
(***************************************************************************)
EXTENDS Chains

CONSTANTS
  MaxRules,       \* bound on the rules of one classifier
  MaxSupports     \* bound on the supports that are expanded

ExactOn(s) == [k \in Coordinates |-> IF k \in s THEN ONE ELSE ANY]

\* A classifier with one rule for every support of S.
OneRuleEach(S) == FoldSet(LAMBDA s, rs : Append(rs, ExactOn(s)), <<>>, S)

Lists(S, n) == UNION {[1 .. i -> {ExactOn(s) : s \in S}] : i \in 0 .. n}

\* Every short list, and every set of supports of three bits.
FewestCalls ==
  [kind : {FEWEST}, max_num_groups : {0}, max_expanded_bits : {0},
   classifiers : {<<rs>> : rs \in Lists(SUBSET Coordinates, MaxRules)
                                    \cup {OneRuleEach(S) :
                         S \in UNION {kSubset(n, SUBSET Coordinates) : n \in 0 .. MaxSupports}}}]

\* Two classifiers compete for the groups; one alone may have any supports.
BoundedCalls ==
  [kind : {BOUNDED}, max_num_groups : 0 .. 3, max_expanded_bits : {0},
   classifiers : {<<rs, ts>> : rs \in Lists({{1}, {2}, {1, 2}}, MaxRules), ts \in Lists({{}, {1}}, 2)}
                   \cup {<<rs>> : rs \in Lists(SUBSET Coordinates, MaxRules)}]

\* A union that is a support still to be tried needs five supports.
ExpandedCalls ==
  [kind : {EXPANDED}, max_num_groups : {1}, max_expanded_bits : 0 .. 2,
   classifiers : {<<OneRuleEach(S)>> : S \in UNION {kSubset(n, SUBSET Coordinates) : n \in 0 .. MaxSupports}}
                   \cup {<<rs>> : rs \in Lists({{1}, {2}, {3}, {1, 2}}, MaxRules)}]

SomeCalls == FewestCalls \cup BoundedCalls \cup ExpandedCalls
=============================================================================
