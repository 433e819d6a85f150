# Verification of classifiers-lib

The repository optimises packet classifiers. Python classes (`cls/`) hold
prioritised lists of ternary rules; a C++ extension (`p4t_native/p4t/`) computes
the optimisations; Python drives the extension and puts its results
together. An error in any of these algorithms is silent: the optimised classifier
just decides some headers differently. The project therefore models the algorithms
that rewrite or split classifiers, and says of each what its result means.

## 1. Inventory

| component | source | state it keeps | operations | correct when |
|---|---|---|---|---|
| ternary filters, supports, bit arrays | `model/filter.h`, `model/support.*`, `utils/bit_array.h` | value and mask chunks | set, intersect, subsums, fast_blocker, to_support | packed operations agree with bit-by-bit ones |
| boolean minimization | `opt/boolean_minimization.cpp`, `opt/intersections_opt.cpp` | rule list between passes, `trying`, `previous_size`, per-pass tables of mask classes | forward subsumption, backward subsumption, resolution, loop | no header is decided differently; loop ends, and only at a fixpoint |
| maximal order-independent (OI) subset | `find_maximal_oi_subset*` in `opt/oi_algos.cpp` | indices, degrees, result, parallel loops | scan; count, pick, update, erase | result pairwise disjoint and maximal; the same whatever the thread order |
| bit selection | `best_to_stay_minme`, `best_min_similarity_bits`, `best_subgroup` | bits in use, filters left, cached exact bits | remove a bit and the filters it costs; pick a bit | disjoint on the bits returned, never empty, limit and exactness met |
| group decomposition | `cls/optimizations/oi_lpm.py` | `indices`, list of groups | peel a group, sort, cut, leftover | every rule in one classifier; groups OI and LPM; same decisions |
| incremental updates | `test_incremental`, `opt/updates.cpp` | `num_added`; copies of groups and traditional classifier | insert, break, regroup | groups stay LPM and OI; what is counted is represented; ends |
| placement on switches | `distribution.py`, `opt/distribution_algos.cpp` | rules left, bounds of a binary search | probe, cut, place | capacities kept; the line of switches decides alike |
| chain partitions | `opt/chain_algos.cpp`, `minimize_num_groups` and `maximize_coverage_bounded` in `oi_lpm.py` | matching, flow, mates | min partition, bounded partition, rules of a chain | each rule in one group, groups LPM; as few groups, or as many rules covered, as possible |
| chain expansion | `opt/expansion_algos.cpp` | chain, `expansions`, `bits_expanded`, supports to try | prepend, skip, merge, widen | chain stays a chain, budget kept, nothing covered is lost |
| classifiers and VMRs | `cls/classifiers`, `cls/vmrs` | entries, default action, bit order | subset, reorder, append, lookup order | views do not alias; false-positive checks refer to the right rule |
| sharing, weights, compression | `sharing.py`, `compression.py`, `native_utils.py`, `calc_obstruction_weights` | the caller's classifier, changed in place; the weights | weigh, split by action, minimize both parts | the parts together decide alike over several splits; weights bound the cost |
| native bridge | `p4t_native.cpp`, `utils/python_utils.cpp` | none (copies) | conversions, dispatch on algorithm names | dispatch passes every argument on |
| parsers, logging, timers | `parsers/`, `spdlog/` (vendored), `utils/timer.h` | none | input and output | not modelled |

How they interact: Python calls the extension synchronously and everything is
passed by value, so components share no memory. What they share is *positions*:
`best_subgroup` returns positions in the list it was given, `min_bmgr` positions in
the list built from those, and Python translates them back. There is one source
of concurrency, the `__gnu_parallel` loops of `oi_algos.cpp`; a loop is a barrier
and an iteration writes one element of its own. Nothing is persisted and there are
no messages. The hard behaviours are therefore: several passes that each rely on
what the one before left; positions that go stale when a list shrinks; degrees
maintained by parallel decrements; loops whose exit depends on progress; and
boundary cases (no bit, no rule, more asked for than there is).

`PROJECT.json` lists each hazard at its line with the property that would catch it.

## 2. Modules

| module | models | extends |
|---|---|---|
| `Ternary` | filters, supports, masks, headers | |
| `PackedFilter` | `PackedBitArray` and `Filter` as chunks, with padding | `Ternary` |
| `RuleLists` | prioritised lists, what they decide, the passes as functions of a list | `Ternary` |
| `BooleanMinimization` | `perform_boolean_minimization`, a pass per action, resolution row by row; the pairwise passes kept in the source as reference | `RuleLists` |
| `MaximalOI` | what a run of the greedy OI algorithm may return (reference definition) | `Ternary` |
| `IndependentSet` | abstract specification: greedy maximal independent set of any graph | |
| `OISubset` | both modes of `find_maximal_oi_subset`, an action per parallel iteration | `MaximalOI`, refines `IndependentSet` |
| `BestSubgroup` | the three bit-selection algorithms and their dispatch | `MaximalOI`, `PackedFilter` |
| `Groups` | reordered filters, prefixes, chains, `_chain2bits` | `Ternary` |
| `Decomposition` | `decompose_oi`, `minimize_oi_lpm` with and without expansions | `Groups` |
| `Incremental` | `test_incremental` and `incremental_oi_lpm` | `Groups`, composes `Decomposition` |
| `Distribution` | `distribution.boolean_minimization`, `perform_best_splitting` | `RuleLists` |
| `ChainCover` | abstract specification: a chain that covers supports within a budget | |
| `Expansion` | `try_expand_chain`, a step per support tried | `Groups`, refines `ChainCover` |
| `Chains` | the two chain partitions, `minimize_num_groups`, `maximize_coverage_bounded`, `min_bmgr1_w_expansions` | composes `Expansion` |
| `Sharing` | `weight_action_obstruction`, `split_shared_unshared` | composes `BooleanMinimization` |
| `TernaryProofs` | packing, single passes, bit orders of chains, sums as sets of units | `PackedFilter`, `RuleLists`, `Groups` |
| `...Proofs` | theorems about the module of that name; `SharingProofs` those about `BooleanMinimization` too, `OISubsetProofs` about `IndependentSet`, `ChainsProofs` about `Expansion` | `TernaryProofs` |
| `MC...` | small inputs for TLC | |

How state and actions correspond to the code:

- A filter is a function from bits to `"1"`, `"0"`, `"*"`; masks and supports are sets
  of bits. The code keeps two arrays of 64-bit chunks with padding behind the last
  bit, and `Filter::set` leaves the value of a bit behind when it becomes ANY.
  `PackedFilter` has that representation; that every operation the algorithms use
  answers alike on both is proved (`PackingFaithful`) and checked along the run
  `best_subgroup`.
- A rule is its position in the list a function was called with. Passes return
  subsequences (`utils::subset`), so a list between passes is a set of positions
  (`active`, `indices`), and "earlier" is "smaller".
- An action is an iteration of the outermost loop, or of a parallel loop, with
  everything that iteration does. Pure calls (`calc_bit_stats`, `find_exact`,
  `find_maximal_oi_subset` where it is not the subject) are operators.
- `Decomposition` takes `best_subgroup` for any result `BestSubgroup` shows to be
  possible (non-empty, disjoint on the bits returned, at most `max_width` bits),
  `min_bmgr` for any longest chain of supports, and `min_bmgr1_w_expansions` for any
  extension of rules to a chain within the budget. `Chains` shows that this is what
  the last two return (`GreatestCoverage`, `ExpandedAsAsked`). Its invariants hold
  whatever these choose. What is returned are positions, as in the code: `oi_indices` in
  the sorted list of the rules left (`Listed`), in any order, as MIN_DEGREE returns them in the
  order of its picks, and `lpm_indices` in the classifier made of those. `CurrentIndices`
  translates twice, back to rules.
- `Incremental` runs the steps of `Decomposition` between its batches, through an
  instance whose classifier is the rules added so far. Its groups are the copies
  the native function works on; Python only sees the two counts.
- `Distribution` counts positions from one where the code counts from zero. The loop
  around the binary search runs for one start only (line 29), so the comparison
  with the best value never has a second candidate. Resolution is off, its default.
- `Chains` takes any maximum matching and any cheapest flow of the graphs the code
  builds for what the algorithms of Boost return; the graphs, costs and capacities,
  and the walk along the mates, are the code's. `min_bmgr` and its caller limit the
  number of chains by `k`, and a flow that leaves a support out mates it with itself.
- `Expansion` tries the supports in any order that the unstable sort by weight may
  leave, and keeps `bits_expanded` per set of bits, as the map in the code does:
  equal supports share an entry, and a union overwrites it.
- In `Sharing` the caller's classifier is one object that every call of
  `split_shared_unshared` changes in place and returns, minimized, as the unshared
  part; a session is any number of splits, up to `MaxCalls`, and weighings in between.
  A split may follow a weighing, another split, whose changes the weights do not know, or
  nothing, in which case there are no weights yet.
- Undefined behaviour is a state of its own: `"crashed"` in `BestSubgroup` (reads past
  the end in `log_best_elements`, a bit that was never found, no filter where one is asserted) and `"undefined"` in
  `Distribution` (`rules[-1]`). The models do not go on from there, and invariants
  (`WithinBounds`, `ActsAfterACut`) say which calls can lead there. In `Chains` the phase
  `"none"` is the `TypeError` of unpacking the None of a classifier without rules.

## 3. Runs

Runs that pass:

| run | shows | bounds |
|---|---|---|
| `minimize` | without resolution decisions never change (`Equivalent`); the loop ends (`Termination`), and only at a fixpoint, after one iteration without resolution as the comment at line 308 says (`Fixpoint`); the mask-class passes return what the pairwise passes return (`PassesAgree`) | 2 bits; all lists of up to 4 rules over 2 actions and of 3 over 3 actions, and with resolution all lists of 3 |
| `oi_subset` | independence, maximality, fresh degrees, one result for all thread orders, degree bound, refinement of `IndependentSet` | 2 bits; all masks for short lists, the full mask for longer ones; shares of `MinDegreeBound` in sixtieths (`Scale`), a multiple of every degree that occurs and one |
| `best_subgroup` | the result is OI on the returned bits, never empty, within the limit and exact when asked; exact bits go last; the loops end; out-of-bounds reads are limited to calls with a small or excessive limit, no filter, or `only_exact` (`WithinBounds`); chunked filters answer alike (`PackingInvisible`) | 3 bits in chunks of 2, with 2 bits of padding; one or two of six filters or three of five, limits 0 to 2, and 4 for the short lists |
| `decomposition` | both functions account for every rule; `minimize_oi_lpm` keeps every rule, its groups are OI and LPM, the expanded ones in the order of their chain; same decisions | 2 bits; all lists of 2 filters and lists of 3 of 5; 1 or 2 groups, one more candidate; 1 bit of expansion |
| `incremental` | groups stay LPM and OI; at every point of a batch the groups and the traditional classifier decide as the rules added so far | 2 bits, lists of up to 4 of 4 filters |
| `distribution` | the switches decide every header alike and never twice differently; the search cuts where the rules fit; the read before the first rule needs a classifier of NOPs on the first switch; every step advances | 2 bits, lists of up to 4 rules over 4 filters and 3 actions, 5 rules where NOPs shadow |
| `chains` | each rule is in one group or left over, groups are LPM, there are as few (`FewestGroups`, Dilworth) or they cover as many rules (`GreatestCoverage`) as any choice; the expanded chain stays one, within its budget, and what is returned is what `minimize_oi_lpm` needs | 3 bits; every set of up to 5 supports, lists of up to 3 rules; two classifiers that compete for up to 3 groups; 0 to 2 bits of expansion |
| `sharing` | all the parts returned decide every header once and as the classifier did at first, whatever is split off when; an action of weight zero decides every header its rules match (`ZeroWeightUnobstructed`), and the weights bound the NOP rules the shared part costs (`WeightsBoundCost`), also when splits have changed the classifier since it was weighed | 2 bits; all lists of 2 rules and lists of 3 over 4 filters, 3 actions, 5 predicates, 2 splits, weighed before each, before the first only, or not at all |

Why these bounds are enough to be interesting: two bits already have filters that
are equal, nested, crossing (`0*` and `*1`) and disjoint in one or two bits, which is
all that the pairwise relations distinguish. A rule, one that covers it, one that
conflicts with both in between and one more are the four rules that the backward
pass and its mask classes need. Three bits are needed in `best_subgroup` because
`log_best_elements` reads three, because a bit must be removable twice, and because with
two bits to a chunk both differences may lie in one chunk or in two. A second
group, or a subset that is not in ascending order, is needed for a position error in
`Decomposition` to show, and a candidate that is cut for its rules to be forgotten. Five rules, two of them NOP, are the least for which a probe of
the binary search fits and the last one does not. In `chains` the first union that
equals a support still to be tried takes five supports of three bits, and two
classifiers are needed for one to lose a chain to the other. In `sharing` a second
split finds NOP entries of the first, and weights that are from before it. Each property has a mutant in `PROJECT.json`, a
plausible slip in the code under which the same run finds it violated. Type
invariants and `ChainMonotone` are proved for every instance (section 4); where no
plausible slip in the code breaks one, its run does not repeat it.

Runs that end in a violation, each a disagreement between code and documentation:

| run | what happens |
|---|---|
| `minimize_resolution_equiv` | resolution drops a rule and widens only a copy of the other, and its test for a rule in between is inverted: the result decides some headers differently |
| `decomposition_oi_kept` | `decompose_oi` uses positions in the rules left as positions in the classifier: from the second group on rules are lost |
| `incremental_stuck` | `test_incremental` never returns when a rule fits nowhere even after regrouping |
| `distribution_capacity` | a switch gets the rules of a probe that did not fit |

Other places where code and text part are in the models and hazards without a
run of their own: `min_similarity` is not given `only_exact` (`ExactRespected` holds for the
other two algorithms, oi_lpm.py:199 promises it for all); `icnp_blockers` is misspelt in
two docstrings, which the native dispatch answers with None; expanded groups are not
put into the order of their chain (oi_lpm.py:146), the caller has to compute it again;
`reorder` ignores `match_type`; `is_default_nop` is always true
(p4t_native.cpp:181), so the models have None for the default action; the weight of
None is always zero, because the native dictionary has -1 for it.

Fairness. All components run to completion in the calling thread, which never
waits for anything but the workers of a parallel loop; the loop's implementation
runs every iteration before it returns. So weak fairness of the whole step
(`WF_vars(Step)`, or of the next-state action) is what the code provides, and all
that is assumed, where a loop's exit depends on what it achieves: `BooleanMinimization`,
`BestSubgroup`, and `Incremental` for the run that shows it may not end. `Distribution`
instead states, as an action property, that every step advances a measure that cannot
advance for ever. `OISubset`, `Expansion`, `Chains` and `Sharing` take an index, a support,
an entry or a phase away in every step, so that they end is plain and no property is
spent on it.

## 4. Proofs

Every statement below holds for all widths, all lists of rules and all arguments
that satisfy the `...Assumption`s of the modules: `Width \in Nat`; inputs of the right
type; `NOP` an action; `max_num_groups <= max_candidate_groups` as the code asserts; chunks
of at least one bit and a width of at most `MaxWidth`; `Scale` a natural number (the shares of
`MinDegreeBound` are rounded down, and exact where it is a multiple of `degree + 1`); one
classifier where the entry point takes one.
`PROJECT.json` lists the theorems with the property each one states.

Two kinds of argument recur, because the provers have no induction over data. A
statement about all members of a finite collection is shown by a counterexample that is
least (`FirstIsLeast`, `LastExists`, `LargestOf`). A recursive function is first shown to
exist: the function of its intended values satisfies the defining equation, so the
`CHOOSE` of the definition satisfies it too, and its values are compared point by point.

**`TernaryProofs`**. `SetIsPointwise` and `PackingFaithful`: a filter stored in chunks represents a
function of bits (`Represents`), `Filter::set` changes that function at one position, and
`intersect`, `fast_blocker`, `subsums` and `has_any` over chunks answer as the definitions
by bits. A bit and its place (chunk and offset) determine each other (`BitHasPlace`,
`PlaceHasBit`) and are ordered alike (`PlacesInOrder`), so the first bit of the first
chunk that differs is the first difference. `Represents` has the mask empty in the padding,
which is what makes the ones of a complement harmless. The lemmas shared by other modules
are here: what a single pass of minimization preserves (`ForwardSound`, `BackwardSound`), that the
bit order computed from a chain is a permutation in which the bits of every support of the
chain come first (`Chain2BitsPermutes`, `ChainMakesPrefixes`), and that a fold that adds up
weights is the size of a set with as many units of each element (`SumCountsUnits`), which
turns inequalities of sums into inclusions and injections.

**`SharingProofs`, minimization**. `MinimizationSound`: without resolution the list decides
every header as the original, by two lemmas on single passes. Forward:
the first rule that matches a header is never removed, since whatever covers it
earlier would match too. Backward: consider the last rule that matches the header
before the first matching rule of another action; all matching rules up to it
share the deciding action and it is itself not removed, because every rule that
could justify its removal lies behind a conflict. So the decision survives although
the first match may not. The invariant excludes resolution, for
which the run `minimize_resolution_equiv` shows the statement false.
`ClassesLoseNothing` is an action property: each pass over classes of masks, at each step,
returns what the pairwise pass would. A class is looked up by the masked value, and a filter that
subsumes another agrees with it there. `ResultIsFixpoint`: the backward pass makes no rule one for the
forward pass, and a second backward pass removes nothing (`PassesSettle`): a rule it could remove would have
lost the conflict that kept it, which must have been erased for a related rule further
behind, which is a conflict erased in turn, and so on without end. With resolution `FixInv` has the
list of before the rows, whose size `previous_size` remembers.

**`SharingProofs`, splits and weights**. `SharingTypes` and `SplitsSound`: for any number of splits without
resolution the parts returned decide every header together, once and as the
classifier did at first. The invariant speaks of the loop in the middle: entries
before `index` are in one of the two lists and NOP in the other, so what a header meets
first is in just one of them, and each part returned decides nothing that a
later state of the caller's classifier decides. `ZeroWeightDecides` and `WeightsBoundNops`: a split makes all
entries of an action NOP or none, so no rule obstructs an action that it did not obstruct when
the classifier was weighed, however many splits ago (`Bounded`, `CopyBounded`). So before the rules of an action of weight zero
no rule of another one matches the same header. A NOP rule that minimization keeps in the shared part
shadows a later acting rule (`NopsShadow`), whose action is a shareable one, and the NOP was an entry of another
action when the split began, so it has been counted (`Weighed`): every kept NOP is a unit of a weight (`Costs`).

**`OISubsetProofs`**. `TypeCorrect`, `OrderIndependent`, `ResultMaximal`, `DegreesStayFresh` and
`Refinement` (both modes implement `IndependentSet`). The invariant is
`TypeOK /\ Phase /\ Independent /\ LiveAreFree /\ Degrees`. `Independent` alone is not
inductive: a pick is disjoint from earlier picks only because everything live is
(`LiveAreFree`). `Degrees` says, iteration by iteration, that an index still pending
has the degree of before the loop and one that is done that of after it.
`GreedyCorrect` says of the abstract algorithm that it ends with a maximal independent set.
`ResultDeterministic`: every pick was the preferred one of what was live when it was made, the
first in a scan and the least degree at the least position otherwise, so the result is a
run of `MaximalOI` whatever the thread order. `LeastDegreePays` (the bound of Wei): a pick of degree `d` takes
at most `d + 1` filters away, each of degree `d` at least among the live ones and so among all, so what a
pick takes away is worth one `Scale` at most. The invariant (`SharesPaid`) adds that up over the picks.

**`BestSubgroupProofs`**. `TypeCorrect`, `ResultOrderIndependent`, `GroupNotEmpty`, `RequestIsMet`,
`ReadsWithinBounds`, `ExactBitsKept`, `PackingIsInvisible`. The invariant is `TypeOK /\ NothingTaken /\ OrderIndependent /\
KeepsAFilter /\ CachedExact /\ RequestMet`. `CachedExact` bounds how stale `exact_bits_in_use` may be: it is
computed before the first subset is taken, so it can only miss exact bits, and the loop
cannot end on an inexact one. (It may remove a bit it need not have removed: the
code does, and nothing promises otherwise.) For `ReadsWithinBounds` the loop of
minme goes on only while more bits than the limit are in use, so with a limit of two
there are three to read, and min_similarity has picked one bit per round. `ExactBitsKept` is an
action property: a bit that is exact in every filter left is removed only when all are.
`PackingIsInvisible` carries `PackingFaithful` to the filters of a call.

**`DecompositionProofs`**. `TypeCorrect`, `RulesAccounted` for both functions; `NoRuleLost`, `GroupsAreOI`,
`GroupsArePrefixes` and `DecisionsKept` for `minimize_oi_lpm`. The invariant says of each group by itself that
its entries are pairwise disjoint, have the group's bits, cover no header that
disagrees with their rule on those bits (`Sharper`), together cover all that their
rules cover (`Complete`), and have supports that are a chain (`LPMGroup`). A lookup then has at most one
candidate, so a failed false-positive check never hides another rule, and where a group has all the bits
and checks nothing, covering and matching coincide; this rests on a list of distinct
bits as long as the width holding every bit. The positions are dealt with first: the list of the rules left
has each of them once (`ListedIs`), so a call returns distinct rules in whatever order (`SubgroupFits`), and those
translated back and taken away are the rules of the group (`TakenAway`).

**`IncrementalProofs`**. `TypeCorrect`, `GroupsStayPrefixes`, `NoneForgotten`. While rules are grouped the invariant is
the one of `DecompositionProofs`, through an instance with the rules added so far for the
classifier. A batch has an invariant of its own: every entry stands for a rule before the current
one and is disjoint from the others of its group (`Stands`), and these rules with those of the traditional
classifier are all the rules before the current one (`Represented`). A filter is taken by the first
group that keeps both, and otherwise goes to the traditional classifier.

**`DistributionProofs`**. `DistributionTypes`, `LineSound`, `CutSound`, `UndefinedOnlyAtFirst` and `StepsAdvance`. What
a switch gets is the result of the last probe, which need not be the one the search ends at: the
rules before the cut, or one more. `Searching` says which probes the bounds stand for, `NothingCut` that
a list of NOP rules is minimized away. For `LineSound` take the first rule that matches a header. If
it is before the cut the switch decides as it says; if it is not, minimizing
rules none of which matches acting first leaves the switch out of it, and the one rule the switch may have
beyond the cut still heads what is left. `StepsAdvance` is an action property, with capacities of any size, zero included.

**`ChainsProofs`, the calls**. `TypeCorrect`, `RulesArePartitioned`, `ChainGroupsArePrefixes`, `RulesExpandedAsAsked`. The
fold that makes `Matchings` returns all sets of edges no two of which share a side (`MatchingsAre`).
Along the mates supports grow, so from each support there is one run and `calculate_chains` finds it
(`ChainsAreRuns`). Runs that begin at supports that are nobody's mate meet only if they are the same: go back from
where they meet (`RunsAreDisjoint`). Every support that is not its own mate is met (`ChainsCover`). For `min_bmgr1_w_expansions` the
flow leaves one support nobody's mate, so there is one chain (`OneStart`).

**`ChainsProofs`, expansion**. `ChainStaysChain`, `CacheStaysSound` and `Refinement`: whatever
supports are tried in whatever order, `try_expand_chain` implements `ChainCover`. The
budget is kept only because the cache is sound, and the cache, which is
overwritten by unions and keyed by sets of bits that several members may equal,
is sound only together with every expansion including its support; so these and
`ChainMonotone` make up one invariant (`ExpandInv`). A merge keeps the chain because the union is
the next member, a widening because the candidate's insertion point is the last
member that does not include it.

**`ChainsProofs`, optimality**. `GroupsAreFewest` and `CoverageIsGreatest`: that a maximum matching and a cheapest flow of the
graphs the code builds are what the two functions promise about chains. Both rest on the theorem of Koenig
(`ManyApart`): with a greatest matching `M` of a graph on `V` there are `|V| - |M|` vertices no two of which are joined. Its
proof takes the left sides that alternating paths from free ones reach, as the largest set for which
a matching as large as `M` may leave any member free instead (`ReachedSides`); no path leads to a free right side, or the matching
would not be the greatest. In the graph of the supports, vertices not joined are supports apart (`Apart`),
and chains begin at the `|V| - |M|` supports that are nobody's mate, while two supports apart are never in one chain: that
is Dilworth's theorem, and the number of groups. For the flow, a choice of supports that can be split into no more chains than
asked for gives a flow of the size demanded: its own greatest matching, with every other support its own mate
(`FlowOfChoice`). It costs no more than the rules outside the choice, and the cheapest flow, whose cost is the rules outside its
chains, does not cost more (`NoBetterChoice`). The invariant is that of the calls with `BestMates`.

Only model-checked: liveness (`Termination` of minimization and bit selection) and the violations of section 3, which are
statements about single behaviours. Liveness and `ENABLED` are outside the prover,
and what a recursive definition computes for every input cannot be proved by induction with the
installed backends.


## 5. Not modelled

- Three quarters of the C++ lines of the repository are a vendored logging library
  (`spdlog/`), of which the program uses a call to print a line. Nothing of it is
  modelled, except that `log_best_elements` computes its arguments.
- Parsers, conversions between Python and native objects, timers: no state. Hashes and the
  order of bit arrays only index containers.
- `one_bit`, `find_max_antichain`, `calc_memory_increase`: called by nobody, or an
  arithmetic loop. The matching and flow algorithms of Boost are external: `Chains`
  takes them for what they promise.
- Resolution in `Distribution`; `provide_non_expanded` in `minimize_oi_lpm`, which adds a second
  version of each expanded group; default actions other than None.
- VMRs and classifiers are lists with a check of the width; only where two objects
  share a list or an action wraps an entry is there something to get wrong, and
  those places are in `Sharing` and `Groups`.

## 6. Plan

Done, in the order of the effect an error has: boolean minimization, OI subsets, bit
selection, decomposition, incremental updates, placement, chains and their expansion,
sharing, packing; and for each of them, proofs of all the safety and action properties
that its run checks. Next:

1. Default actions other than None in `Sharing` and `Decomposition`, where `subset` copies them.
2. `provide_non_expanded`, as a further choice of `Decomposition`.
3. As an action property to prove, in place of a proof of `Termination`: the list of boolean
   minimization shrinks in every iteration that another one follows.
4. That `Decomposition` may use `Chains` for `min_bmgr` as an instance, not only by
   the agreement of `CoverageIsGreatest` with the choice it makes.
