-------------------------- MODULE BestSubgroupProofs --------------------------
(***************************************************************************)
(* What best_subgroup returns, for every list of filters, every limit and  *)
(* every algorithm: filters that are order independent on the bits it      *)
(* returns, at least one of a non-empty list, and for minme no more bits   *)
(* than the limit and only exact ones when they were asked for.  And that  *)
(* filters are stored in chunks makes no difference to any of it.          *)
(*                                                                         *)
(* Besides order independence the inductive invariant says of the cached   *)
(* exact_bits_in_use only that each of its bits is exact: it is computed   *)
(* before the first subset is taken, so it need not hold all of them.      *)
(***************************************************************************)
EXTENDS BestSubgroup, TernaryProofs, SequenceTheorems

\* The bits the code still counts on to be exact really are.
CachedExact == pc = "loop" => exact \subseteq ExactBits(Left, bits)

\* Until a subset is taken every filter is there, in place.
NothingTaken ==
  pc = "start" => indices = [k \in DOMAIN call.filters |-> k]

IInv ==
  /\ TypeOK
  /\ NothingTaken
  /\ OrderIndependent
  /\ KeepsAFilter
  /\ CachedExact
  /\ RequestMet

LEMMA AlgorithmsDiffer ==
  ICNP_OI # ICNP_BLOCKERS /\ ICNP_OI # MIN_SIMILARITY /\ ICNP_BLOCKERS # MIN_SIMILARITY
BY DEF ICNP_OI, ICNP_BLOCKERS, MIN_SIMILARITY

LEMMA PickOrdersAreLists ==
  ASSUME NEW n \in Nat, NEW r \in PickOrders(n)
  PROVE  /\ r \in Seq(1 .. n)
         /\ DOMAIN r = 1 .. Len(r)
         /\ Len(r) \in Nat
<1>1. PICK k \in 0 .. n : r \in [1 .. k -> 1 .. n]
  BY DEF PickOrders
<1>2. k \in Nat
  BY <1>1
<1>3. r \in Seq(1 .. n)
  BY <1>1, <1>2
<1> QED
  BY <1>3

\* A greedy run picks filters that are order independent, and one at least.
LEMMA RunIsOI ==
  ASSUME NEW fs \in Seq(Filter), NEW mask, NEW mode, NEW r \in GreedyRuns(fs, mask, mode)
  PROVE  /\ r \in Seq(DOMAIN fs)
         /\ IsOI(At(fs, r), mask)
         /\ fs # <<>> => r # <<>>
<1>1. Len(fs) \in Nat /\ DOMAIN fs = 1 .. Len(fs)
  OBVIOUS
<1>2. r \in PickOrders(Len(fs)) /\ IsGreedyRun(fs, mask, mode, r)
  BY DEF GreedyRuns
<1>3. r \in Seq(DOMAIN fs) /\ DOMAIN r = 1 .. Len(r) /\ Len(r) \in Nat
  BY <1>1, <1>2, PickOrdersAreLists
<1>4. IsOI(At(fs, r), mask)
  <2> SUFFICES ASSUME NEW i \in DOMAIN r, NEW j \in DOMAIN r, j < i
               PROVE  ~ Intersect(fs[r[i]], fs[r[j]], mask)
    BY DEF IsOI, At
  <2>1. r[i] \in Remaining(fs, mask, Before(r, i))
    BY <1>2 DEF IsGreedyRun
  <2>2. r[j] \in Before(r, i)
    <3>1. j \in 1 .. i - 1
      BY <1>3
    <3> QED
      BY <3>1 DEF Before
  <2> QED
    BY <2>1, <2>2 DEF Remaining
<1>5. ASSUME fs # <<>>, r = <<>> PROVE FALSE
  <2>1. Len(r) = 0 /\ 1 \in DOMAIN fs
    BY <1>1, <1>5
  <2>2. Before(r, Len(r) + 1) = {}
    BY <2>1 DEF Before
  <2>3. Remaining(fs, mask, {}) = {}
    BY <1>2, <2>2 DEF IsGreedyRun
  <2> QED
    BY <2>1, <2>3 DEF Remaining
<1> QED
  BY <1>3, <1>4, <1>5

\* The only difference on a mask is found by fast_blocker.
LEMMA OnlyDifference ==
  ASSUME NEW f, NEW g, NEW mask, NEW b \in Bits,
         ~ Intersect(f, g, mask), Intersect(f, g, mask \ {b})
  PROVE  FastBlocker(f, g, mask).only /\ FastBlocker(f, g, mask).first = b
<1>1. Differences(f, g, mask) = {b}
  BY DEF Intersect, Differences
<1>2. Cardinality({b}) = 1
  BY FS_Singleton
<1>3. Cardinality({b}) <= 1
  BY <1>2
<1>4. b \in Int /\ b <= b
  BY WidthAssumption DEF Bits
<1>5. (CHOOSE c \in {b} : \A d \in {b} : c <= d) = b
  BY <1>4
<1> QED
  BY <1>1, <1>3, <1>5 DEF FastBlocker

\* Filters without the blocker b stay order independent when b is removed,
\* and the first filter has no blockers.
LEMMA WithoutBlockers ==
  ASSUME NEW fs \in Seq(Filter), NEW mask, NEW b \in Bits, IsOI(fs, mask),
         NEW r \in PickOrders(Len(fs)),
         Listing(r, {i \in DOMAIN fs : b \notin Blockers(fs, mask, i)})
  PROVE  /\ r \in Seq(DOMAIN fs)
         /\ IsOI(At(fs, r), mask \ {b})
         /\ fs # <<>> => r # <<>>
<1> DEFINE S == {i \in DOMAIN fs : b \notin Blockers(fs, mask, i)}
<1>1. Len(fs) \in Nat /\ DOMAIN fs = 1 .. Len(fs)
  OBVIOUS
<1>2. r \in Seq(DOMAIN fs) /\ DOMAIN r = 1 .. Len(r)
  BY <1>1, PickOrdersAreLists
<1>3. ASSUME NEW i \in S, NEW j \in S, j < i
      PROVE  ~ Intersect(fs[i], fs[j], mask \ {b})
  <2> SUFFICES ASSUME Intersect(fs[i], fs[j], mask \ {b}) PROVE FALSE
    OBVIOUS
  <2>1. FastBlocker(fs[i], fs[j], mask).only /\ FastBlocker(fs[i], fs[j], mask).first = b
    BY <1>3, OnlyDifference DEF IsOI
  <2>2. j \in 1 .. i - 1
    BY <1>1, <1>3
  <2>3. b \in Blockers(fs, mask, i)
    BY <2>1, <2>2 DEF Blockers
  <2> QED
    BY <2>3
<1>4. IsOI(At(fs, r), mask \ {b})
  <2>1. ASSUME NEW i \in DOMAIN r, NEW j \in DOMAIN r, j < i
        PROVE  ~ Intersect(fs[r[i]], fs[r[j]], mask \ {b})
    <3>1. r[i] \in S /\ r[j] \in S /\ r[j] < r[i]
      BY <2>1 DEF Listing
    <3> QED
      BY <3>1, <1>3
  <2> QED
    BY <2>1 DEF IsOI, At
<1>5. ASSUME fs # <<>> PROVE r # <<>>
  <2>1. 1 \in DOMAIN fs
    BY <1>1, <1>5
  <2>2. Blockers(fs, mask, 1) = {}
    BY DEF Blockers
  <2>3. 1 \in S
    BY <2>1, <2>2
  <2>4. S = {r[k] : k \in DOMAIN r}
    BY DEF Listing
  <2> QED
    BY <1>2, <2>3, <2>4
<1> QED
  BY <1>2, <1>4, <1>5

\* Exact bits stay exact when filters are left out.
LEMMA ExactOfFewer ==
  ASSUME NEW fs \in Seq(Filter), NEW r \in Seq(DOMAIN fs), NEW mask
  PROVE  ExactBits(fs, mask) \subseteq ExactBits(At(fs, r), mask)
<1>1. \A k \in DOMAIN r : r[k] \in DOMAIN fs
  OBVIOUS
<1> QED
  BY <1>1 DEF ExactBits, At

\* A subset of a subset: the vectors "filters" and "indices" stay in step.
LEMMA TakenTwice ==
  ASSUME NEW fs, NEW is \in Seq(DOMAIN fs), NEW r \in Seq(DOMAIN is)
  PROVE  /\ At(is, r) \in Seq(DOMAIN fs)
         /\ At(fs, At(is, r)) = At(At(fs, is), r)
         /\ r # <<>> => At(is, r) # <<>>
<1>1. DOMAIN r = 1 .. Len(r) /\ Len(r) \in Nat /\ \A k \in DOMAIN r : r[k] \in DOMAIN is
  OBVIOUS
<1>2. \A m \in DOMAIN is : is[m] \in DOMAIN fs
  OBVIOUS
<1>3. At(is, r) \in Seq(DOMAIN fs) /\ DOMAIN At(is, r) = DOMAIN r
  <2>1. At(is, r) \in [1 .. Len(r) -> DOMAIN fs]
    BY <1>1, <1>2 DEF At
  <2>2. DOMAIN At(is, r) = DOMAIN r
    BY DEF At
  <2>3. PICK s : s = At(is, r)
    OBVIOUS
  <2>4. PICK S : S = DOMAIN fs
    OBVIOUS
  <2>5. s \in [1 .. Len(r) -> S]
    BY <2>1, <2>3, <2>4
  <2>6. s \in Seq(S)
    BY <1>1, <2>5
  <2> QED
    BY <2>2, <2>3, <2>4, <2>6
<1>4. At(fs, At(is, r)) = At(At(fs, is), r)
  BY <1>1, <1>3 DEF At
<1>5. r # <<>> => At(is, r) # <<>>
  <2>1. r # <<>> => 1 \in DOMAIN r
    BY <1>1
  <2>2. DOMAIN << >> = {}
    OBVIOUS
  <2> QED
    BY <1>3, <2>1, <2>2
<1> QED
  BY <1>3, <1>4, <1>5

-----------------------------------------------------------------------------
(* The invariant.                                                          *)

LEMMA LeftIsList ==
  ASSUME TypeOK
  PROVE  /\ call.filters \in Seq(Filter)
         /\ Left \in Seq(Filter)
         /\ DOMAIN Left = DOMAIN indices
         /\ indices # <<>> => Left # <<>>
<1>1. call.filters \in Seq(Filter) /\ indices \in Seq(DOMAIN call.filters)
  BY DEF TypeOK, Call
<1>2. DOMAIN indices = 1 .. Len(indices) /\ Len(indices) \in Nat
  BY <1>1
<1>3. \A k \in DOMAIN indices : call.filters[indices[k]] \in Filter
  BY <1>1
<1>4. Left \in [1 .. Len(indices) -> Filter] /\ DOMAIN Left = DOMAIN indices
  BY <1>2, <1>3 DEF Left, At
<1>5. Left \in Seq(Filter)
  BY <1>2, <1>4
<1>6. indices # <<>> => Left # <<>>
  <2>1. indices # <<>> => 1 \in DOMAIN indices
    BY <1>1
  <2>2. DOMAIN << >> = {}
    OBVIOUS
  <2> QED
    BY <1>4, <2>1, <2>2
<1> QED
  BY <1>1, <1>4, <1>5, <1>6

LEMMA InitInv == Init => IInv
<1> SUFFICES ASSUME Init PROVE IInv
  OBVIOUS
<1>1. call \in Call /\ call.filters \in Seq(Filter)
  BY InputsAssumption DEF Init, Call
<1>2. indices = [k \in DOMAIN call.filters |-> k]
  BY DEF Init
<1>3. indices \in Seq(DOMAIN call.filters)
  <2>1. indices \in [1 .. Len(call.filters) -> DOMAIN call.filters]
    BY <1>1, <1>2
  <2>2. Len(call.filters) \in Nat
    BY <1>1
  <2> QED
    BY <2>1, <2>2
<1>4. pc = "start" /\ bits \in SUBSET Bits /\ exact \in SUBSET Bits
  BY DEF Init
<1>5. TypeOK
  BY <1>1, <1>3, <1>4 DEF TypeOK
<1> QED
  BY <1>2, <1>4, <1>5
  DEF IInv, NothingTaken, OrderIndependent, KeepsAFilter, CachedExact, RequestMet,
      ExactRespected

\* The first subset is taken, after exact_bits_in_use was computed.
LEMMA StartInv == IInv /\ StartMinME => IInv'
<1> SUFFICES ASSUME IInv, StartMinME PROVE IInv'
  OBVIOUS
<1>1. PICK subset \in GreedyRuns(call.filters, bits, call.oi_mode) :
        indices' = Taken(subset)
  BY DEF StartMinME
<1>2. /\ pc = "start" /\ pc' = "loop" /\ call' = call /\ bits' = bits
      /\ exact' = ExactBits(call.filters, bits) /\ call.filters # <<>>
  BY DEF StartMinME
<1>3. /\ call.filters \in Seq(Filter) /\ indices \in Seq(DOMAIN call.filters)
      /\ indices = [k \in DOMAIN call.filters |-> k]
  BY <1>2 DEF IInv, TypeOK, Call, NothingTaken
<1>4. /\ subset \in Seq(DOMAIN call.filters)
      /\ IsOI(At(call.filters, subset), bits)
      /\ subset # <<>>
  BY <1>1, <1>2, <1>3, RunIsOI
<1>5. indices' = subset
  <2>1. DOMAIN subset = 1 .. Len(subset) /\ \A k \in DOMAIN subset : subset[k] \in DOMAIN indices
    BY <1>3, <1>4
  <2>2. Taken(subset) = [k \in DOMAIN subset |-> subset[k]]
    BY <1>3, <2>1 DEF Taken, At
  <2> QED
    BY <1>1, <1>4, <2>2
<1>6. Left' = At(call.filters, subset)
  BY <1>2, <1>5 DEF Left, At
<1>7. TypeOK'
  BY <1>2, <1>4, <1>5 DEF IInv, TypeOK, ExactBits
<1>8. OrderIndependent'
  BY <1>2, <1>4, <1>6 DEF OrderIndependent
<1>9. KeepsAFilter'
  BY <1>4, <1>5 DEF KeepsAFilter
<1>10. CachedExact'
  BY <1>2, <1>3, <1>4, <1>6, ExactOfFewer DEF CachedExact
<1> QED
  BY <1>2, <1>7, <1>8, <1>9, <1>10 DEF IInv, NothingTaken, RequestMet, ExactRespected

\* One bit less, and a subset that is order independent without it.
LEMMA RemovalInv ==
  ASSUME IInv, pc = "loop", pc' = "loop", call' = call,
         NEW b \in Bits, bits' = bits \ {b},
         NEW subset \in Seq(DOMAIN Left),
         IsOI(At(Left, subset), bits \ {b}),
         Left # <<>> => subset # <<>>,
         indices' = Taken(subset),
         exact' = ExactBits(At(call.filters, indices'), bits')
  PROVE  IInv'
<1>1. /\ call.filters \in Seq(Filter) /\ indices \in Seq(DOMAIN call.filters)
      /\ DOMAIN Left = DOMAIN indices
  BY LeftIsList DEF IInv, TypeOK
<1>2. /\ indices' \in Seq(DOMAIN call.filters)
      /\ At(call.filters, indices') = At(Left, subset)
      /\ subset # <<>> => indices' # <<>>
  BY <1>1, TakenTwice DEF Taken, Left
<1>3. Left' = At(Left, subset)
  <2>1. Left' = At(call.filters, indices')
    BY DEF Left, At
  <2> QED
    BY <1>2, <2>1
<1>4. TypeOK'
  BY <1>2 DEF IInv, TypeOK, ExactBits
<1>5. OrderIndependent'
  BY <1>3 DEF OrderIndependent
<1>6. KeepsAFilter'
  BY <1>2, LeftIsList DEF IInv, KeepsAFilter
<1>7. CachedExact'
  BY <1>2, <1>3 DEF CachedExact
<1> QED
  BY <1>4, <1>5, <1>6, <1>7 DEF IInv, NothingTaken, RequestMet, ExactRespected

LEMMA CandidatesInUse == ASSUME TypeOK, NEW b \in Candidates PROVE b \in bits /\ b \in Bits
BY DEF Candidates, TypeOK

LEMMA RemoveOIInv == IInv /\ RemoveBitOI => IInv'
<1> SUFFICES ASSUME IInv, RemoveBitOI PROVE IInv'
  OBVIOUS
<1>1. PICK b \in BestOI :
        /\ bits' = bits \ {b}
        /\ \E subset \in GreedyRuns(Left, bits', call.oi_mode) : indices' = Taken(subset)
  BY DEF RemoveBitOI
<1>2. PICK subset \in GreedyRuns(Left, bits \ {b}, call.oi_mode) : indices' = Taken(subset)
  BY <1>1
<1>3. b \in Bits
  BY CandidatesInUse DEF IInv, BestOI
<1>4. /\ pc = "loop" /\ pc' = "loop" /\ call' = call
      /\ exact' = ExactBits(At(call.filters, indices'), bits')
  BY DEF RemoveBitOI
<1>5. /\ subset \in Seq(DOMAIN Left)
      /\ IsOI(At(Left, subset), bits \ {b})
      /\ Left # <<>> => subset # <<>>
  BY LeftIsList, RunIsOI DEF IInv
<1> QED
  BY <1>1, <1>2, <1>3, <1>4, <1>5, RemovalInv

LEMMA RemoveBlockersInv == IInv /\ RemoveBitBlockers => IInv'
<1> SUFFICES ASSUME IInv, RemoveBitBlockers PROVE IInv'
  OBVIOUS
<1>1. PICK b \in BestBlocker :
        /\ bits' = bits \ {b}
        /\ \E subset \in PickOrders(Len(Left)) :
             /\ Listing(subset, {i \in DOMAIN Left : b \notin Blockers(Left, bits, i)})
             /\ indices' = Taken(subset)
  BY DEF RemoveBitBlockers
<1>2. PICK subset \in PickOrders(Len(Left)) :
        /\ Listing(subset, {i \in DOMAIN Left : b \notin Blockers(Left, bits, i)})
        /\ indices' = Taken(subset)
  BY <1>1
<1>3. b \in Bits
  BY CandidatesInUse DEF IInv, BestBlocker
<1>4. /\ pc = "loop" /\ pc' = "loop" /\ call' = call
      /\ exact' = ExactBits(At(call.filters, indices'), bits')
  BY DEF RemoveBitBlockers
<1>5. IsOI(Left, bits) /\ Left \in Seq(Filter)
  BY <1>4, LeftIsList DEF IInv, OrderIndependent
<1>6. /\ subset \in Seq(DOMAIN Left)
      /\ IsOI(At(Left, subset), bits \ {b})
      /\ Left # <<>> => subset # <<>>
  BY <1>2, <1>3, <1>5, WithoutBlockers
<1> QED
  BY <1>1, <1>2, <1>3, <1>4, <1>6, RemovalInv

\* Both conditions of the loop are false when it is left.
LEMMA FinishInv == IInv /\ FinishMinME => IInv'
<1> SUFFICES ASSUME IInv, FinishMinME PROVE IInv'
  OBVIOUS
<1>1. /\ pc = "loop" /\ pc' = "done" /\ ~ Continue
      /\ call' = call /\ bits' = bits /\ indices' = indices /\ exact' = exact
  BY DEF FinishMinME
<1>2. Left' = Left
  BY <1>1 DEF Left, At
<1>3. TypeOK' /\ OrderIndependent' /\ KeepsAFilter'
  BY <1>1, <1>2 DEF IInv, TypeOK, OrderIndependent, KeepsAFilter
<1>4. Cardinality(bits) <= call.limit
  <2>1. Cardinality(bits) \in Nat /\ call.limit \in Nat
    <3>1. IsFiniteSet(Bits)
      BY WidthAssumption, FS_Interval DEF Bits
    <3>2. IsFiniteSet(bits)
      BY <3>1, FS_Subset DEF IInv, TypeOK
    <3> QED
      BY <3>2, FS_CardinalityType DEF IInv, TypeOK, Call
  <2>2. ~ (Cardinality(bits) > call.limit)
    BY <1>1 DEF Continue
  <2> QED
    BY <2>1, <2>2
<1>5. call.only_exact => bits \subseteq ExactBits(Left, bits)
  BY <1>1 DEF Continue, IInv, CachedExact
<1>6. call.only_exact => \A k \in DOMAIN Left : bits \subseteq Support(Left[k])
  BY <1>5 DEF ExactBits, Support, IInv, TypeOK
<1>7. RequestMet'
  BY <1>1, <1>2, <1>4, <1>6 DEF RequestMet, ExactRespected
<1> QED
  BY <1>1, <1>3, <1>7 DEF IInv, NothingTaken, CachedExact

\* The bit picked is one of the filters'.
LEMMA PickInv == IInv /\ PickSimilarityBit => IInv'
<1> SUFFICES ASSUME IInv, PickSimilarityBit PROVE IInv'
  OBVIOUS
<1> DEFINE Best == {b \in Bits \ bits : \A c \in Bits \ bits : Similarity(b) <= Similarity(c)}
<1>1. /\ pc = "start" /\ pc' = "start" /\ call' = call /\ indices' = indices
      /\ exact' = exact /\ bits' = bits \cup {First(Best)} /\ Bits \ bits # {}
  BY DEF PickSimilarityBit, IInv, TypeOK
<1>2. \A b \in Bits : Similarity(b) \in Nat
  <2> SUFFICES ASSUME NEW b \in Bits PROVE Similarity(b) \in Nat
    OBVIOUS
  <2> DEFINE allow(v) == {k \in DOMAIN call.filters : call.filters[k][b] \in {ANY, v}}
  <2>1. IsFiniteSet(DOMAIN call.filters)
    <3>1. DOMAIN call.filters = 1 .. Len(call.filters) /\ Len(call.filters) \in Nat
      BY LeftIsList DEF IInv
    <3> QED
      BY <3>1, FS_Interval
  <2>2. \A v : IsFiniteSet(allow(v))
    BY <2>1, FS_Subset
  <2>3. \A v : Cardinality(allow(v)) \in Nat
    BY <2>2, FS_CardinalityType
  <2> QED
    BY <2>3 DEF Similarity
<1>3. Best # {}
  <2> DEFINE Values == {Similarity(b) : b \in Bits \ bits}
  <2>1. Values \subseteq Nat /\ Values # {}
    BY <1>1, <1>2
  <2>2. First(Values) \in Values /\ \A v \in Values : First(Values) <= v
    BY <2>1, FirstIsLeast
  <2>3. PICK b \in Bits \ bits : Similarity(b) = First(Values)
    BY <2>2
  <2>4. \A c \in Bits \ bits : Similarity(b) <= Similarity(c)
    BY <2>2, <2>3
  <2>5. b \in Best
    BY <2>4
  <2> QED
    BY <2>5
<1>4. First(Best) \in Bits
  <2>1. Best \subseteq Nat
    BY WidthAssumption DEF Bits
  <2>2. First(Best) \in Best
    BY <1>3, <2>1, FirstIsLeast
  <2> QED
    BY <2>2
<1>5. TypeOK'
  BY <1>1, <1>4 DEF IInv, TypeOK
<1> QED
  BY <1>1, <1>5
  DEF IInv, NothingTaken, OrderIndependent, KeepsAFilter, CachedExact, RequestMet,
      ExactRespected

\* The filters left by min_similarity are one greedy run on all of them.
LEMMA SimilarityInv == IInv /\ FinishSimilarity => IInv'
<1> SUFFICES ASSUME IInv, FinishSimilarity PROVE IInv'
  OBVIOUS
<1>1. PICK subset \in GreedyRuns(call.filters, bits, call.oi_mode) :
        indices' = Taken(subset)
  BY DEF FinishSimilarity
<1>2. /\ pc = "start" /\ pc' = "done" /\ call' = call /\ bits' = bits
      /\ exact' = exact /\ call.algo = MIN_SIMILARITY
  BY DEF FinishSimilarity
<1>3. /\ call.filters \in Seq(Filter)
      /\ indices = [k \in DOMAIN call.filters |-> k]
  BY <1>2 DEF IInv, TypeOK, Call, NothingTaken
<1>4. /\ subset \in Seq(DOMAIN call.filters)
      /\ IsOI(At(call.filters, subset), bits)
      /\ call.filters # <<>> => subset # <<>>
  BY <1>1, <1>3, RunIsOI
<1>5. indices' = subset
  <2>1. DOMAIN subset = 1 .. Len(subset) /\ \A k \in DOMAIN subset : subset[k] \in DOMAIN indices
    BY <1>3, <1>4
  <2>2. Taken(subset) = [k \in DOMAIN subset |-> subset[k]]
    BY <1>3, <2>1 DEF Taken, At
  <2> QED
    BY <1>1, <1>4, <2>2
<1>6. Left' = At(call.filters, subset)
  BY <1>2, <1>5 DEF Left, At
<1>7. TypeOK'
  BY <1>2, <1>4, <1>5 DEF IInv, TypeOK
<1> QED
  BY <1>2, <1>4, <1>5, <1>6, <1>7
  DEF IInv, NothingTaken, OrderIndependent, KeepsAFilter, CachedExact, RequestMet

\* A call that fails, or has returned, says nothing of bits and filters.
LEMMA EndedInv ==
  ASSUME IInv, call' = call, bits' = bits, indices' = indices, exact' = exact,
         pc' \in {"rejected", "crashed"} \/ pc' = pc
  PROVE  IInv'
<1>1. Left' = Left
  BY DEF Left, At
<1>2. TypeOK'
  BY DEF IInv, TypeOK
<1> QED
  BY <1>1, <1>2
  DEF IInv, NothingTaken, OrderIndependent, KeepsAFilter, CachedExact, RequestMet,
      ExactRespected

LEMMA NextInv == IInv /\ [Next]_vars => IInv'
<1> SUFFICES ASSUME IInv, [Next]_vars PROVE IInv'
  OBVIOUS
<1>1. CASE StartMinME
  BY <1>1, StartInv
<1>2. CASE RemoveBitOI
  BY <1>2, RemoveOIInv
<1>3. CASE RemoveBitBlockers
  BY <1>3, RemoveBlockersInv
<1>4. CASE FinishMinME
  BY <1>4, FinishInv
<1>5. CASE PickSimilarityBit
  BY <1>5, PickInv
<1>6. CASE FinishSimilarity
  BY <1>6, SimilarityInv
<1>7. CASE RejectEmpty \/ ReadPastTheEnd \/ PickMissingBit
  BY <1>7, EndedInv DEF RejectEmpty, ReadPastTheEnd, PickMissingBit
<1>8. CASE Return \/ UNCHANGED vars
  BY <1>8, EndedInv DEF Return, vars
<1> QED
  BY <1>1, <1>2, <1>3, <1>4, <1>5, <1>6, <1>7, <1>8 DEF Next, Step

LEMMA Invariance == Spec => []IInv
BY InitInv, NextInv, PTL DEF Spec

-----------------------------------------------------------------------------
\* The variables of best_to_stay_minme and best_min_similarity_bits keep
\* their types: positions stay positions of the input, bits stay bits.
THEOREM TypeCorrect == Spec => []TypeOK
<1>1. IInv => TypeOK
  BY DEF IInv
<1> QED
  BY <1>1, Invariance, PTL

\* What assert(is_oi(filters, bits_in_use)) says holds after every removal
\* and of every result.
THEOREM ResultOrderIndependent == Spec => []OrderIndependent
<1>1. IInv => OrderIndependent
  BY DEF IInv
<1> QED
  BY <1>1, Invariance, PTL

\* A non-empty list gives a non-empty group: every iteration of the loops of
\* minimize_oi_lpm and decompose_oi has a rule to take away.
THEOREM GroupNotEmpty == Spec => []KeepsAFilter
<1>1. IInv => KeepsAFilter
  BY DEF IInv
<1> QED
  BY <1>1, Invariance, PTL

\* What minme returns has at most l bits, all exact when that was asked for,
\* although exact_bits_in_use is not computed anew for the first subset.
THEOREM RequestIsMet == Spec => []RequestMet
<1>1. IInv => RequestMet
  BY DEF IInv
<1> QED
  BY <1>1, Invariance, PTL

\* With only_exact a bit that every filter left has exact goes only when all
\* the bits left are exact, although the set try_last is built from and the
\* set that ends the loop are computed at different points of an iteration.
THEOREM ExactBitsKept == Spec => ExactBitsGoLast
<1> DEFINE Kept == call.only_exact /\ bits' \subseteq bits /\ bits # ExactBits(Left, bits)
                     => ExactBits(Left, bits) \subseteq bits'
<1>1. ExactBits(Left, bits) \subseteq bits
  BY DEF ExactBits
<1>2. ASSUME NEW b \in Candidates, bits' = bits \ {b} PROVE Kept
  <2> SUFFICES ASSUME call.only_exact, bits # ExactBits(Left, bits)
               PROVE  b \notin ExactBits(Left, bits)
    BY <1>1, <1>2
  <2>1. bits \ ExactBits(Left, bits) # {}
    BY <1>1
  <2> QED
    BY <1>2, <2>1 DEF Candidates
<1>3. ASSUME Next PROVE Kept
  <2>1. CASE RemoveBitOI
    <3>1. PICK b \in BestOI : bits' = bits \ {b}
      BY <2>1 DEF RemoveBitOI
    <3>2. b \in Candidates
      BY <3>1 DEF BestOI
    <3> QED
      BY <1>2, <3>1, <3>2
  <2>2. CASE RemoveBitBlockers
    <3>1. PICK b \in BestBlocker : bits' = bits \ {b}
      BY <2>2 DEF RemoveBitBlockers
    <3>2. b \in Candidates
      BY <3>1 DEF BestBlocker
    <3> QED
      BY <1>2, <3>1, <3>2
  <2>3. CASE PickSimilarityBit
    <3>1. bits \subseteq bits'
      BY <2>3 DEF PickSimilarityBit
    <3> QED
      BY <1>1, <3>1
  <2>4. CASE UNCHANGED bits
    BY <1>1, <2>4
  <2> QED
    BY <1>3, <2>1, <2>2, <2>3, <2>4
    DEF Next, Step, RejectEmpty, StartMinME, FinishMinME, ReadPastTheEnd, PickMissingBit,
        FinishSimilarity, Return, vars
<1>4. [Next]_vars => [Kept]_vars
  BY <1>3
<1> QED
  BY <1>4, PTL DEF Spec, ExactBitsGoLast

\* What minimize_oi_lpm asks for never makes a loop read or pick a bit that
\* is not there.
THEOREM ReadsWithinBounds == Spec => []WithinBounds
<1>1. Init => WithinBounds
  BY DEF Init, WithinBounds
<1>2. IInv /\ WithinBounds /\ [Next]_vars => WithinBounds'
  <2> SUFFICES ASSUME IInv, WithinBounds, [Next]_vars PROVE WithinBounds'
    OBVIOUS
  <2>1. /\ bits \in SUBSET Bits /\ IsFiniteSet(Bits) /\ Cardinality(Bits) = Width
        /\ Cardinality(bits) \in Nat /\ call \in Call
        /\ call.limit \in Nat /\ Width \in Nat
    <3>1. bits \in SUBSET Bits /\ call \in Call
      BY DEF IInv, TypeOK
    <3>2. IsFiniteSet(Bits) /\ Cardinality(Bits) = Width
      BY WidthAssumption, FS_Interval DEF Bits
    <3>3. Cardinality(bits) \in Nat
      BY <3>1, <3>2, FS_Subset, FS_CardinalityType
    <3> QED
      BY <3>1, <3>2, <3>3, WidthAssumption DEF Call
  <2>2. CASE ReadPastTheEnd
    <3>1. /\ call.algo = ICNP_BLOCKERS /\ call' = call /\ Continue
          /\ Cardinality(bits) < 3 \/ Cardinality(bits) <= call.limit
      BY <2>2 DEF ReadPastTheEnd
    <3>2. call.limit < 2 \/ call.only_exact
      BY <2>1, <3>1 DEF Continue
    <3> QED
      BY <3>1, <3>2 DEF WithinBounds
  <2>3. CASE PickMissingBit
    <3>1. /\ call.algo = MIN_SIMILARITY /\ call' = call
          /\ \/ call.filters = <<>>
             \/ Cardinality(bits) < call.limit /\ bits = Bits
      BY <2>3 DEF PickMissingBit
    <3>2. call.filters = <<>> \/ call.limit > Width
      BY <2>1, <3>1
    <3> QED
      BY <3>1, <3>2 DEF WithinBounds
  <2>4. CASE \/ RejectEmpty \/ StartMinME \/ FinishMinME \/ RemoveBitOI
             \/ RemoveBitBlockers \/ PickSimilarityBit \/ FinishSimilarity
    <3>1. pc' # "crashed"
      BY <2>4 DEF RejectEmpty, StartMinME, FinishMinME, RemoveBitOI,
         RemoveBitBlockers, PickSimilarityBit, FinishSimilarity
    <3> QED
      BY <3>1 DEF WithinBounds
  <2>5. CASE Return \/ UNCHANGED vars
    BY <2>5 DEF Return, vars, WithinBounds
  <2> QED
    BY <2>2, <2>3, <2>4, <2>5 DEF Next, Step
<1> QED
  BY <1>1, <1>2, Invariance, PTL DEF Spec

\* The loops over chunks answer, for the filters of any call and whatever bits
\* are in use, what the other modules take them to answer bit by bit: the
\* stored entries stand for the filters, and intersect, fast_blocker, subsums,
\* has_any and is_submask agree with Intersect, FastBlocker, Subsums and the
\* relations on supports.
THEOREM PackingIsInvisible == Spec => []PackingInvisible
<1>1. TypeOK => PackingInvisible
  <2> SUFFICES ASSUME TypeOK, NEW i \in DOMAIN call.filters, NEW j \in DOMAIN call.filters
               PROVE  AnswersAlike(call.filters[i], call.filters[j], bits)
    BY DEF PackingInvisible
  <2>1. call.filters[i] \in Filter /\ call.filters[j] \in Filter /\ bits \in SUBSET Bits
    BY DEF TypeOK, Call
  <2> QED
    BY <2>1, StoredAsMeant
<1>2. IInv => TypeOK
  BY DEF IInv
<1> QED
  BY <1>1, <1>2, Invariance, PTL
=============================================================================
