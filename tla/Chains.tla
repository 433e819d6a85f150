-------------------------------- MODULE Chains --------------------------------
(***************************************************************************)
(* LPM groups from chains of supports: minimize_num_groups and             *)
(* maximize_coverage_bounded (cls/optimizations/oi_lpm.py) over min_pmgr   *)
(* and min_bmgr, and min_bmgr1_w_expansions, which goes on to expand its   *)
(* chain (p4t/p4t_native.cpp, p4t/opt/chain_algos.cpp).                    *)
(*                                                                         *)
(* The vertices of the two graphs are the distinct supports of each        *)
(* classifier, every one of them on a left and on a right side; an edge is *)
(* a pair of vertices and a matching or a flow the set of edges it uses.   *)
(***************************************************************************)
EXTENDS Expansion, FiniteSetsExt

FEWEST   == "minimize_num_groups"
BOUNDED  == "maximize_coverage_bounded"
EXPANDED == "min_bmgr1_w_expansions"

CONSTANT Inputs   \* the calls; only BOUNDED has other than one classifier

Entry == [Coordinates -> {ONE, ZERO, ANY}]

Call == [kind : {FEWEST, BOUNDED, EXPANDED}, classifiers : Seq(Seq(Entry)),
         max_num_groups : Nat, max_expanded_bits : Nat]

ASSUME InputsAssumption ==
  /\ Inputs \subseteq Call
  /\ \A c \in Inputs : c.kind # BOUNDED => Len(c.classifiers) = 1
  /\ \A c \in Inputs : c.kind = EXPANDED => c.max_num_groups = 1

VARIABLES
  call,        \* the arguments
  mate,        \* the edges of the matching, or those that carry flow
  partition,   \* the chains of each classifier
  groups,      \* subclassifiers, or what is expanded
  leftover     \* of each classifier, a Python set: in no order to rely on

vars == <<call, mate, partition, groups, leftover, expand_vars>>

-----------------------------------------------------------------------------
Classifiers == DOMAIN call.classifiers

Rules(c) == DOMAIN call.classifiers[c]

SupportOf(c, i) == Exact(call.classifiers[c][i])

\* select_unique_n_weight.
Unique(c) == {SupportOf(c, i) : i \in Rules(c)}

Weight(c, s) == Cardinality({i \in Rules(c) : SupportOf(c, i) = s})

Vertices == UNION {{c} \X Unique(c) : c \in Classifiers}

\* add_dilworths_edges: from the left of a support to the right of a larger one.
DilworthsEdges ==
  {e \in Vertices \X Vertices :
     e[1][1] = e[2][1] /\ e[1][2] \subseteq e[2][2] /\ e[1][2] # e[2][2]}

\* Sets of edges no two of which share a left or a right side.
Matchings(edges) ==
  FoldSet(LAMBDA v, Ms : Ms \cup
            {p[1] \cup {p[2]} : p \in
               {q \in Ms \X {e \in edges : e[1] = v} : \A d \in q[1] : d[2] # q[2][2]}},
          {{}}, Vertices)

\* Mutant: a matching that cannot be extended is enough.
MaximumMatchings_Maximal ==
  LET Ms == Matchings(DilworthsEdges)
  IN  {M \in Ms : \A N \in Ms : M \subseteq N => M = N}

\* checked_edmonds_maximum_cardinality_matching.
MaximumMatchings ==
  LET Ms == Matchings(DilworthsEdges)
  IN  {M \in Ms : \A N \in Ms : Cardinality(N) <= Cardinality(M)}

\* The rules that have the supports of S, over all classifiers.
RuleCount(S) == FoldFunction(+, 0, [v \in S |-> Weight(v[1], v[2])])

\* Mutant: every support costs the same.
FlowCost_Unweighted(M) == Cardinality({e \in M : e[1] = e[2]})

\* An edge from a support to itself costs its weight, the others nothing.
FlowCost(M) == RuleCount({v \in Vertices : <<v, v>> \in M})

\* The capacity of the edge from source to aux_source, which can be reached.
FlowSize == Larger(0, Cardinality(Vertices) - call.max_num_groups)

\* successive_shortest_path_nonnegative_weights.
CheapestFlows ==
  LET flows == {M \in Matchings(DilworthsEdges \cup {<<v, v>> : v \in Vertices}) :
                  Cardinality(M) = FlowSize}
  IN  {M \in flows : \A N \in flows : FlowCost(M) <= FlowCost(N)}

\* calculate_chains: from each support that is nobody's mate along the mates.
\* One that is its own mate is not in any chain.
ChainsOf(c) ==
  LET starts  == {s \in Unique(c) : \A e \in mate : e[2] # <<c, s>>}
      chained == {s \in Unique(c) : <<<<c, s>>, <<c, s>>>> \notin mate}
      from[s \in chained] ==
        IF \E e \in mate : e[1] = <<c, s>>
        THEN <<s>> \o from[(CHOOSE e \in mate : e[1] = <<c, s>>)[2][2]]
        ELSE <<s>>
  IN  {from[s] : s \in starts}

\* map_partition_indices, for one chain.
IndicesOf(c, ch) == {i \in Rules(c) : SupportOf(c, i) \in Range(ch)}

-----------------------------------------------------------------------------
Init ==
  /\ call \in Inputs
  /\ mate = {}
  /\ partition = <<>>
  /\ groups = {}
  /\ leftover = <<>>
  /\ unique_supports = {} /\ weights = <<>> /\ max_bits = 0
  /\ chain = <<>>
  /\ expansions = <<>>
  /\ bits_expanded = [s \in SUBSET Coordinates |-> 0]
  /\ non_chain = {}
  /\ phase = "start"

\* Two of the entry points return None for a classifier with no rule.
NothingToDo ==
  /\ phase = "start"
  /\ call.kind # BOUNDED
  /\ Rules(1) = {}
  /\ phase' = "none"
  /\ UNCHANGED <<call, mate, partition, groups, leftover, expand_args, chain,
                 expansions, bits_expanded, non_chain>>

\* construct_dilworths_mates.
Match ==
  /\ phase = "start"
  /\ call.kind = FEWEST
  /\ Rules(1) # {}
  /\ mate' \in MaximumMatchings
  /\ phase' = "chains"
  /\ UNCHANGED <<call, partition, groups, leftover, expand_args, chain,
                 expansions, bits_expanded, non_chain>>

\* min_bmgr1_w_expansions asks for one chain.
Flow ==
  /\ phase = "start"
  /\ call.kind # FEWEST
  /\ call.kind = EXPANDED => Rules(1) # {}
  /\ mate' \in CheapestFlows
  /\ phase' = "chains"
  /\ UNCHANGED <<call, partition, groups, leftover, expand_args, chain,
                 expansions, bits_expanded, non_chain>>

CalculateChains ==
  /\ phase = "chains"
  /\ partition' = [c \in Classifiers |-> ChainsOf(c)]
  /\ phase' = IF call.kind = EXPANDED THEN "first chain" ELSE "subclassifiers"
  /\ UNCHANGED <<call, mate, groups, leftover, expand_args, chain,
                 expansions, bits_expanded, non_chain>>

Group(c, ch) ==
  [classifier |-> c, indices |-> IndicesOf(c, ch), bits |-> Chain2Bits(Range(ch), Width)]

\* Mutant: the rules left over are those that the last chain leaves.
BuildGroups_LastChainOnly ==
  /\ phase = "subclassifiers"
  /\ groups' = UNION {{Group(c, ch) : ch \in partition[c]} : c \in Classifiers}
  /\ leftover' = [c \in Classifiers |->
                    {i \in Rules(c) : \E ch \in partition[c] : i \notin IndicesOf(c, ch)}]
  /\ phase' = "done"
  /\ UNCHANGED <<call, mate, partition, expand_args, chain,
                 expansions, bits_expanded, non_chain>>

\* The loops over partition and partition_indices in Python.
BuildGroups ==
  /\ phase = "subclassifiers"
  /\ groups' = UNION {{Group(c, ch) : ch \in partition[c]} : c \in Classifiers}
  /\ leftover' = [c \in Classifiers |->
                    Rules(c) \ UNION {IndicesOf(c, ch) : ch \in partition[c]}]
  /\ phase' = "done"
  /\ UNCHANGED <<call, mate, partition, expand_args, chain,
                 expansions, bits_expanded, non_chain>>

\* The call of try_expand_chain with the first chain of the first classifier.
StartExpansion ==
  /\ phase = "first chain"
  /\ \E ch \in partition[1] :
       ExpandCall(Unique(1), [s \in Unique(1) |-> Weight(1, s)],
                  call.max_expanded_bits, ch)
  /\ UNCHANGED <<call, mate, partition, groups, leftover>>

Expand ==
  /\ ExpandNext
  /\ UNCHANGED <<call, mate, partition, groups, leftover>>

\* Mutant: rules are looked up by what they were, not by their expansion.
Collect_BySupport ==
  /\ phase = "expanded"
  /\ groups' = {[rule |-> i, support |-> expansions[SupportOf(1, i)]] :
                  i \in {j \in Rules(1) : SupportOf(1, j) \in Range(chain)}}
  /\ phase' = "done"
  /\ UNCHANGED <<call, mate, partition, leftover, expand_args, chain,
                 expansions, bits_expanded, non_chain>>

\* indices and exps: the rules whose expansion is in the chain.
Collect ==
  /\ phase = "expanded"
  /\ groups' = {[rule |-> i, support |-> expansions[SupportOf(1, i)]] :
                  i \in {j \in Rules(1) : expansions[SupportOf(1, j)] \in Range(chain)}}
  /\ phase' = "done"
  /\ UNCHANGED <<call, mate, partition, leftover, expand_args, chain,
                 expansions, bits_expanded, non_chain>>

Return ==
  /\ phase \in {"done", "none"}
  /\ UNCHANGED vars

Next ==
  \/ NothingToDo \/ Match \/ Flow \/ CalculateChains \/ BuildGroups
  \/ StartExpansion \/ Expand \/ Collect \/ Return

Spec == Init /\ [][Next]_vars

-----------------------------------------------------------------------------
TypeOK ==
  /\ call \in Call
  /\ mate \subseteq Vertices \X Vertices
  /\ \A c \in DOMAIN partition : \A ch \in partition[c] : ch \in Seq(SUBSET Coordinates)
  /\ \A c \in DOMAIN leftover : leftover[c] \subseteq Rules(c)
  /\ phase \in {"start", "chains", "first chain", "subclassifiers", "expand",
                "expanded", "done", "none"}
  /\ ExpandTypeOK

(* Properties.                                                             *)

\* The largest number of supports of S none of which is part of another.
Antichain(S) ==
  Max({Cardinality(A) : A \in {B \in SUBSET S : \A s, t \in B : s \subseteq t => s = t}})

\* Every rule is in one subclassifier or, with a bound on their number, left
\* over in the end.
EachRuleOnce ==
  phase = "done" /\ call.kind # EXPANDED =>
    \A c \in Classifiers :
      LET mine == {g \in groups : g.classifier = c}
      IN  /\ \A g, h \in mine : g # h => g.indices \cap h.indices = {}
          /\ Rules(c) \ leftover[c] = UNION {g.indices : g \in mine}
          /\ call.kind = FEWEST => leftover[c] = {}

\* "LPM classifiers": in the bit order computed from its chain every entry
\* of a group is a prefix, the supports of a chain may skip sizes as they like.
GroupsLPM ==
  phase = "done" /\ call.kind # EXPANDED =>
    \A g \in groups : \A i \in g.indices :
      IsPrefix(Reordered(call.classifiers[g.classifier][i], g.bits))

\* "The minimal possible number of LPM classifiers": by Dilworth's theorem as
\* many chains as there are supports none of which is part of another.
FewestGroups ==
  phase = "done" /\ call.kind = FEWEST => Cardinality(groups) = Antichain(Unique(1))

\* By the same theorem, so many chains have all the supports of S.
ChainCount(S) ==
  FoldFunction(+, 0, [c \in Classifiers |-> Antichain({s \in Unique(c) : <<c, s>> \in S})])

\* "Maximize the number of rules covered by the limited number of LPM
\* groups": no choice of supports that can be split into as many chains, over
\* all the classifiers together, has more rules; min_bmgr1_w_expansions
\* starts from the chain with the most rules.
GreatestCoverage ==
  (phase = "done" /\ call.kind = BOUNDED) \/ phase = "first chain" =>
    LET limit   == call.max_num_groups
        covered == {v \in Vertices : \E ch \in partition[v[1]] : v[2] \in Range(ch)}
        taken   == FoldFunction(+, 0, [c \in Classifiers |-> Cardinality(partition[c])])
    IN  /\ taken <= limit
        /\ \A S \in SUBSET Vertices : ChainCount(S) <= limit => RuleCount(S) <= RuleCount(covered)

\* What minimize_oi_lpm relies on when it expands entries: the supports of the
\* rules returned form a chain, no rule gets more exact bits than allowed, and
\* at least the rules of the chain that was expanded are returned.
ExpandedAsAsked ==
  phase = "done" /\ call.kind = EXPANDED =>
    /\ IsChain({g.support : g \in groups})
    /\ \A g \in groups :
         /\ SupportOf(1, g.rule) \subseteq g.support
         /\ Cardinality(g.support \ SupportOf(1, g.rule)) <= call.max_expanded_bits
    /\ \A ch \in partition[1] : IndicesOf(1, ch) \subseteq {g.rule : g \in groups}
=============================================================================
