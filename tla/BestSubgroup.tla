----------------------------- MODULE BestSubgroup -----------------------------
(***************************************************************************)
(* best_subgroup (p4t/p4t_native.cpp) and what it calls in                 *)
(* p4t/opt/oi_algos.cpp: select at most "limit" bits on which a large part *)
(* of the filters is order independent.                                    *)
(*                                                                         *)
(* best_to_stay_minme starts from all bits and a maximal order-independent *)
(* subset and removes one bit after the other, reducing the subset to what *)
(* stays order independent.  best_min_similarity_bits picks the bits one   *)
(* by one and leaves the filters to a single call at the end.              *)
(***************************************************************************)
EXTENDS MaximalOI, PackedFilter

ICNP_OI        == "icnp_oi"
ICNP_BLOCKERS  == "icnp_blockers"
MIN_SIMILARITY == "min_similarity"
Algorithm      == {ICNP_OI, ICNP_BLOCKERS, MIN_SIMILARITY}

CONSTANT Inputs   \* the calls: records of the five arguments

Call == [filters : Seq(Filter), limit : Nat, only_exact : BOOLEAN,
         algo : Algorithm, oi_mode : OIMode]

ASSUME InputsAssumption == Inputs \subseteq Call

VARIABLES
  call,         \* the arguments
  bits,         \* bits_in_use, or the bits picked so far
  indices,      \* positions, in the input, of the filters that are left
  exact,        \* exact_bits_in_use, as last computed
  pc

vars == <<call, bits, indices, exact, pc>>

\* The vector "filters" of best_to_stay_minme, reduced along with indices.
At(fs, is) == [k \in DOMAIN is |-> fs[is[k]]]

Left == At(call.filters, indices)

\* take_filters_subset: utils::subset(indices, subset_indices).
Taken(subset) == At(indices, subset)

\* A vector that lists the positions of S in ascending order.
Listing(r, S) ==
  /\ {r[k] : k \in DOMAIN r} = S
  /\ \A j, k \in DOMAIN r : j < k => r[j] < r[k]

-----------------------------------------------------------------------------
(* The values the algorithms compare.                                      *)

DontCares(fs, b) == Cardinality({k \in DOMAIN fs : fs[k][b] = ANY})

\* Mutant: only the filter just before is looked at.
Blockers_Previous(fs, mask, i) ==
  {b \in Bits : \E j \in {i - 1} \ {0} :
     FastBlocker(fs[i], fs[j], mask).only /\ FastBlocker(fs[i], fs[j], mask).first = b}

\* Mutant: later filters block too.
Blockers_BothWays(fs, mask, i) ==
  {b \in Bits : \E j \in DOMAIN fs \ {i} :
     FastBlocker(fs[i], fs[j], mask).only /\ FastBlocker(fs[i], fs[j], mask).first = b}

\* find_blockers: the bits whose removal makes filter i intersect an earlier
\* one; every bit when it intersects an earlier one already.
Blockers(fs, mask, i) ==
  LET res(j) == FastBlocker(fs[i], fs[j], mask)
  IN  IF \E j \in 1 .. i - 1 : res(j).first = -1
      THEN Bits
      ELSE {b \in Bits : \E j \in 1 .. i - 1 : res(j).only /\ res(j).first = b}

NumBlockers(fs, mask, b) ==
  Cardinality({i \in DOMAIN fs : b \in Blockers(fs, mask, i)})

\* The size of the order-independent subset that removing b leaves.
SizeWithout(b) ==
  Len(CHOOSE r \in GreedyRuns(Left, bits \ {b}, call.oi_mode) : TRUE)

\* Mutant: the exact bits are asked of the filters of the call.
Candidates_StaleExact ==
  LET try_last == IF call.only_exact THEN ExactBits(call.filters, bits) ELSE {}
  IN  IF bits \ try_last # {} THEN bits \ try_last ELSE bits

\* find_best_bits with k = 1: bits outside try_last go first.
Candidates ==
  LET try_last == IF call.only_exact THEN ExactBits(Left, bits) ELSE {}
  IN  IF bits \ try_last # {} THEN bits \ try_last ELSE bits

\* The best values by a comparison; nth_element may bring any of them first.
BestOI ==
  LET sizes == {SizeWithout(c) : c \in Candidates}
  IN  {b \in Candidates : \A n \in sizes : n <= SizeWithout(b)}

BestBlocker ==
  LET worth(b) == <<NumBlockers(Left, bits, b), DontCares(Left, b)>>
      worths   == {worth(c) : c \in Candidates}
  IN  {b \in Candidates : \A w \in worths :
         \/ worth(b)[1] < w[1]
         \/ worth(b)[1] = w[1] /\ worth(b)[2] >= w[2]}

\* best_min_similarity_bits: how many filters are left when b has the value
\* most of them allow.
Similarity(b) ==
  LET allow(v) == Cardinality({k \in DOMAIN call.filters :
                                 call.filters[k][b] \in {ANY, v}})
  IN  IF allow(ZERO) >= allow(ONE) THEN allow(ZERO) ELSE allow(ONE)

-----------------------------------------------------------------------------
Init ==
  /\ call \in Inputs
  /\ bits = IF call.algo = MIN_SIMILARITY THEN {} ELSE Bits
  /\ indices = [k \in DOMAIN call.filters |-> k]
  /\ exact = {}
  /\ pc = "start"

\* best_to_stay_minme throws invalid_argument.
RejectEmpty ==
  /\ pc = "start"
  /\ call.filters = <<>>
  /\ call.algo # MIN_SIMILARITY
  /\ pc' = "rejected"
  /\ UNCHANGED <<call, bits, indices, exact>>

\* find_exact runs on all the filters, before the subset is taken.
StartMinME ==
  /\ pc = "start"
  /\ call.algo # MIN_SIMILARITY
  /\ call.filters # <<>>
  /\ exact' = ExactBits(call.filters, bits)
  /\ \E subset \in GreedyRuns(call.filters, bits, call.oi_mode) :
       indices' = Taken(subset)
  /\ pc' = "loop"
  /\ UNCHANGED <<call, bits>>

\* Mutant: the width alone ends the loop.
Continue_WidthOnly == Cardinality(bits) > call.limit

\* Mutant: the loop runs once more at the limit.
Continue_AtLimit ==
  \/ Cardinality(bits) >= call.limit
  \/ call.only_exact /\ bits # exact

Continue ==
  \/ Cardinality(bits) > call.limit
  \/ call.only_exact /\ bits # exact

\* Mutant: the bit is removed from a copy of bits_in_use.
RemoveBitOI_BitStays ==
  /\ pc = "loop"
  /\ Continue
  /\ call.algo = ICNP_OI
  /\ \E b \in BestOI :
       \E subset \in GreedyRuns(Left, bits \ {b}, call.oi_mode) :
         indices' = Taken(subset)
  /\ exact' = ExactBits(At(call.filters, indices'), bits)
  /\ UNCHANGED <<call, bits, pc>>

\* remove_bits_oi, then the rest of the iteration.
RemoveBitOI ==
  /\ pc = "loop"
  /\ Continue
  /\ call.algo = ICNP_OI
  /\ \E b \in BestOI :
       /\ bits' = bits \ {b}
       /\ \E subset \in GreedyRuns(Left, bits', call.oi_mode) :
            indices' = Taken(subset)
  /\ exact' = ExactBits(At(call.filters, indices'), bits')
  /\ UNCHANGED <<call, pc>>

\* remove_bits_w_blockers, then the rest of the iteration.
RemoveBitBlockers ==
  /\ pc = "loop"
  /\ Continue
  /\ call.algo = ICNP_BLOCKERS
  /\ \E b \in BestBlocker :
       /\ bits' = bits \ {b}
       /\ \E subset \in PickOrders(Len(Left)) :
            /\ Listing(subset, {i \in DOMAIN Left : b \notin Blockers(Left, bits, i)})
            /\ indices' = Taken(subset)
  /\ exact' = ExactBits(At(call.filters, indices'), bits')
  /\ UNCHANGED <<call, pc>>

\* log_best_elements reads the first three elements of a copy of bits_in_use
\* and the one at index l, whatever its size; with fewer the read is out of
\* bounds and may end the process.
ReadPastTheEnd ==
  /\ pc = "loop"
  /\ Continue
  /\ call.algo = ICNP_BLOCKERS
  /\ Cardinality(bits) < 3 \/ Cardinality(bits) <= call.limit
  /\ pc' = "crashed"
  /\ UNCHANGED <<call, bits, indices, exact>>

FinishMinME ==
  /\ pc = "loop"
  /\ ~Continue
  /\ pc' = "done"
  /\ UNCHANGED <<call, bits, indices, exact>>

\* One iteration of best_min_similarity_bits; the first of the best bits.
PickSimilarityBit ==
  /\ pc = "start"
  /\ call.algo = MIN_SIMILARITY
  /\ call.filters # <<>>
  /\ Cardinality(bits) < call.limit
  /\ bits # Bits
  /\ bits' = bits \cup
       {First({b \in Bits \ bits : \A c \in Bits \ bits :
                 Similarity(b) <= Similarity(c)})}
  /\ UNCHANGED <<call, indices, exact, pc>>

\* No filter to read the width of, which is asserted whatever the limit, or
\* no bit left to pick: the assertions fail, and without them the read or the
\* mask built later is out of bounds.
PickMissingBit ==
  /\ pc = "start"
  /\ call.algo = MIN_SIMILARITY
  /\ \/ call.filters = <<>>
     \/ Cardinality(bits) < call.limit /\ bits = Bits
  /\ pc' = "crashed"
  /\ UNCHANGED <<call, bits, indices, exact>>

\* best_subgroup calls find_maximal_oi_subset with the picked bits.
FinishSimilarity ==
  /\ pc = "start"
  /\ call.algo = MIN_SIMILARITY
  /\ Cardinality(bits) >= call.limit
  /\ \E subset \in GreedyRuns(call.filters, bits, call.oi_mode) :
       indices' = Taken(subset)
  /\ pc' = "done"
  /\ UNCHANGED <<call, bits, exact>>

Return ==
  /\ pc \in {"done", "rejected", "crashed"}
  /\ UNCHANGED vars

Step ==
  \/ RejectEmpty \/ StartMinME \/ FinishMinME
  \/ RemoveBitOI \/ RemoveBitBlockers \/ ReadPastTheEnd
  \/ PickSimilarityBit \/ PickMissingBit \/ FinishSimilarity

Next == Step \/ Return

Spec == Init /\ [][Next]_vars

\* A sequential function: it runs until it returns.
FairSpec == Spec /\ WF_vars(Step)

-----------------------------------------------------------------------------
TypeOK ==
  /\ call \in Call
  /\ bits \in SUBSET Bits
  /\ indices \in Seq(DOMAIN call.filters)
  /\ exact \in SUBSET Bits
  /\ pc \in {"start", "loop", "done", "rejected", "crashed"}

(* Properties.                                                             *)

\* assert(is_oi(filters, bits_in_use)): after every removal, and for every
\* algorithm when it returns, the filters that are left are pairwise disjoint
\* on the bits that are left.
OrderIndependent == pc \in {"loop", "done"} => IsOI(Left, bits)

\* A group is never empty: minimize_oi_lpm unpacks the one chain of supports
\* of its filters, and decompose_oi counts a group against the candidates it
\* may try, whether or not it takes a rule away.
KeepsAFilter ==
  pc \in {"loop", "done"} /\ call.filters # <<>> => indices # <<>>

\* What decompose_oi asks for ("Whether only exact bits should be allowed").
ExactRespected ==
  pc = "done" /\ call.only_exact =>
    \A k \in DOMAIN Left : bits \subseteq Support(Left[k])

\* Bits and filters are reduced together, and when the loop of minme ends
\* both of its conditions hold of what is left, not of what was given.
RequestMet ==
  call.algo # MIN_SIMILARITY =>
    /\ pc = "done" => Cardinality(bits) <= call.limit
    /\ ExactRespected

\* Exactness is asked of the filters that are left, so with only_exact the
\* first bits to go are ones some of them does not care about; an exact bit
\* goes only when every bit left is exact.
ExactBitsGoLast ==
  [][call.only_exact /\ bits' \subseteq bits /\ bits # ExactBits(Left, bits)
       => ExactBits(Left, bits) \subseteq bits']_vars

\* Reads stay within the bits for the calls minimize_oi_lpm makes: at least
\* one filter, only_exact off, and from two bits to all of them asked for.
\* Below, above, or with only_exact, log_best_elements reads past the bits in
\* use and best_min_similarity_bits picks bits that are not there.
WithinBounds ==
  pc = "crashed" =>
    \/ call.algo = ICNP_BLOCKERS /\ (call.limit < 2 \/ call.only_exact)
    \/ call.algo = MIN_SIMILARITY /\ (call.filters = <<>> \/ call.limit > Width)

\* The loops end.
Termination == <>(pc \in {"done", "rejected", "crashed"})

\* Whatever the bits in use, the loops over chunks answer of the filters as
\* they are stored what the models take them to answer bit by bit, also when
\* bits lie in different chunks and when there is padding.
PackingInvisible ==
  \A i, j \in DOMAIN call.filters :
     j < i => AnswersAlike(call.filters[i], call.filters[j], bits)
=============================================================================
