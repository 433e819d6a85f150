-------------------------- MODULE IncrementalProofs --------------------------
(***************************************************************************)
(* Batches of test_incremental for every call: no rule that a batch counts *)
(* is lost, whatever groups it meets and however often the rules are       *)
(* grouped anew.                                                           *)
(*                                                                         *)
(* The invariant has three parts, for the three things that happen to a    *)
(* group.  While rules are grouped, it is that of minimize_oi_lpm, which   *)
(* is taken over from DecompositionProofs with the rules added so far in   *)
(* place of the classifier.  A batch starts with groups whose entries      *)
(* stand for rules before the current one (Stands), and these and the      *)
(* traditional classifier have every such rule (Represented).  A filter    *)
(* that a group accepts keeps both.                                        *)
(***************************************************************************)
EXTENDS Incremental, TernaryProofs, SequenceTheorems

\* The theory of the grouping under way.
Deco ==
  INSTANCE DecompositionProofs WITH
    Inputs   <- {},
    call     <- [kind |-> "minimize_oi_lpm", rules |-> Added,
                 max_width |-> call.max_width,
                 max_num_groups |-> call.max_num_groups,
                 max_candidate_groups |-> call.max_candidate_groups,
                 max_expanded_bits |-> 0],
    pc       <- lpm_pc

-----------------------------------------------------------------------------
(* The definitions of the two instances are the same.                      *)

LEMMA SameTernary ==
  /\ Grouping!ANY = ANY /\ Deco!ANY = ANY
  /\ Grouping!ONE = ONE /\ Deco!ONE = ONE
  /\ Grouping!ZERO = ZERO /\ Deco!ZERO = ZERO
  /\ Grouping!Bits = Bits /\ Deco!Bits = Bits
BY DEF Grouping!ANY, Deco!ANY, ANY, Grouping!ONE, Deco!ONE, ONE, Grouping!ZERO, Deco!ZERO, ZERO,
       Grouping!Bits, Deco!Bits, Bits

LEMMA SameCardinality == \A S : Grouping!Cardinality(S) = Cardinality(S) /\ Deco!Cardinality(S) = Cardinality(S)
BY DEF Grouping!Cardinality, Deco!Cardinality, Cardinality

LEMMA SameOperators ==
  /\ \A f, bits : Grouping!Reordered(f, bits) = Reordered(f, bits)
                  /\ Deco!Reordered(f, bits) = Reordered(f, bits)
  /\ \A f : Grouping!Exact(f) = Exact(f) /\ Deco!Exact(f) = Exact(f)
  /\ \A S : Grouping!IsChain(S) = IsChain(S) /\ Deco!IsChain(S) = IsChain(S)
  /\ \A S, k : Grouping!Level(S, k) = Level(S, k) /\ Deco!Level(S, k) = Level(S, k)
  /\ \A f, g, S : Grouping!Intersect(f, g, S) = Intersect(f, g, S) /\ Deco!Intersect(f, g, S) = Intersect(f, g, S)
BY SameCardinality, SameTernary DEF Grouping!Reordered, Deco!Reordered, Reordered, Grouping!Exact, Deco!Exact, Exact,
   Grouping!IsChain, Deco!IsChain, IsChain, Grouping!Level, Deco!Level, Level,
   Grouping!Intersect, Deco!Intersect, Intersect, Grouping!Differences, Deco!Differences, Differences

LEMMA SameOrder == \A S, n : Grouping!Chain2Bits(S, n) = Deco!Chain2Bits(S, n)
BY DEF Grouping!Chain2Bits, Deco!Chain2Bits, Grouping!Precedes, Deco!Precedes, Grouping!Level, Deco!Level,
       Grouping!Cardinality, Deco!Cardinality

LEMMA SamePositions ==
  /\ \A S, n : Grouping!Picks(S, n) = Deco!Picks(S, n)
  /\ \A S : Grouping!Listed(S) = Deco!Listed(S)
  /\ \A list, positions : Grouping!Subset(list, positions) = Deco!Subset(list, positions)
  /\ \A outer, inner : Grouping!CurrentIndices(outer, inner) = Deco!CurrentIndices(outer, inner)
<1>1. \A S, n : Grouping!Picks(S, n) = Deco!Picks(S, n)
  BY DEF Grouping!Picks, Deco!Picks
<1>2. \A S : Grouping!Listed(S) = Deco!Listed(S)
  BY DEF Grouping!Listed, Deco!Listed, Grouping!Cardinality, Deco!Cardinality
<1>3. \A list, positions : Grouping!Subset(list, positions) = Deco!Subset(list, positions)
  BY DEF Grouping!Subset, Deco!Subset
<1>4. \A outer, inner : Grouping!CurrentIndices(outer, inner) = Deco!CurrentIndices(outer, inner)
  BY <1>2 DEF Grouping!CurrentIndices, Deco!CurrentIndices
<1> QED
  BY <1>1, <1>2, <1>3, <1>4

LEMMA SameCalls ==
  /\ Grouping!Subgroups = Deco!Subgroups
  /\ \A oi, bits : Grouping!LongestChains(oi, bits) = Deco!LongestChains(oi, bits)
<1>1. \A n : Grouping!BitLists(n) = Deco!BitLists(n)
  BY SameTernary, SamePositions DEF Grouping!BitLists, Deco!BitLists
<1>2. \A S, bits : Grouping!Independent(S, bits) = Deco!Independent(S, bits)
  BY SameOperators DEF Grouping!Independent, Deco!Independent
<1>3. \A i, bits : Grouping!SupportOf(i, bits) = Deco!SupportOf(i, bits)
  BY SameOperators DEF Grouping!SupportOf, Deco!SupportOf
<1>4. Grouping!Subgroups = Deco!Subgroups
  <2> DEFINE indep1(s) == LET oi == Grouping!Subset(Grouping!Listed(indices), s.oi_indices)
                          IN  Grouping!Independent({oi[k] : k \in DOMAIN oi}, s.bits)
             indep2(s) == LET oi == Deco!Subset(Deco!Listed(indices), s.oi_indices)
                          IN  Deco!Independent({oi[k] : k \in DOMAIN oi}, s.bits)
             S1 == [bits : Grouping!BitLists(call.max_width),
                    oi_indices : Grouping!Picks(DOMAIN Grouping!Listed(indices),
                                                Grouping!Cardinality(indices)) \ {<<>>}]
             S2 == [bits : Deco!BitLists(call.max_width),
                    oi_indices : Deco!Picks(DOMAIN Deco!Listed(indices),
                                            Deco!Cardinality(indices)) \ {<<>>}]
  <2>1. S1 = S2
    BY <1>1, SamePositions, SameCardinality
  <2>2. \A s : indep1(s) <=> indep2(s)
    BY <1>2, SamePositions
  <2>3. Grouping!Subgroups = {s \in S1 : indep1(s)} /\ Deco!Subgroups = {s \in S2 : indep2(s)}
    BY DEF Grouping!Subgroups, Deco!Subgroups
  <2> HIDE DEF S1, S2, indep1, indep2
  <2> QED
    BY <2>1, <2>2, <2>3
<1>5. \A oi, bits : Grouping!LongestChains(oi, bits) = Deco!LongestChains(oi, bits)
  BY <1>3, SameCardinality, SameOperators DEF Grouping!LongestChains, Deco!LongestChains
<1> QED
  BY <1>4, <1>5

LEMMA SamePeel == Grouping!PeelLPM => Deco!PeelLPM
<1> SUFFICES ASSUME Grouping!PeelLPM PROVE Deco!PeelLPM
  OBVIOUS
<1>1. \A bits, entries, S : Grouping!AddGroup(bits, entries, S) <=> Deco!AddGroup(bits, entries, S)
  BY DEF Grouping!AddGroup, Deco!AddGroup
<1>2. \A i, bits : Grouping!Entry(i, bits) = Deco!Entry(i, bits)
  BY SameOperators DEF Grouping!Entry, Deco!Entry
<1>3. \A i, bits : Grouping!SupportOf(i, bits) = Deco!SupportOf(i, bits)
  BY SameOperators DEF Grouping!SupportOf, Deco!SupportOf
<1>4. Grouping!Continue <=> Deco!Continue
  BY DEF Grouping!Continue, Deco!Continue
<1>5. PICK s \in Grouping!Subgroups :
        LET oi == Grouping!Subset(Grouping!Listed(indices), s.oi_indices)
        IN  \E P \in Grouping!LongestChains(oi, s.bits) :
              LET chain == {Grouping!SupportOf(oi[k], s.bits) : k \in P}
                  bits  == Grouping!Reordered(s.bits, Grouping!Chain2Bits(chain, Len(s.bits)))
              IN  Grouping!AddGroup(bits, {Grouping!Entry(oi[k], bits) : k \in P},
                                    Grouping!CurrentIndices(s.oi_indices, P))
  BY DEF Grouping!PeelLPM
<1> DEFINE oi == Grouping!Subset(Grouping!Listed(indices), s.oi_indices)
<1>6. PICK P \in Grouping!LongestChains(oi, s.bits) :
        LET chain == {Grouping!SupportOf(oi[k], s.bits) : k \in P}
            bits  == Grouping!Reordered(s.bits, Grouping!Chain2Bits(chain, Len(s.bits)))
        IN  Grouping!AddGroup(bits, {Grouping!Entry(oi[k], bits) : k \in P},
                              Grouping!CurrentIndices(s.oi_indices, P))
  BY <1>5
<1>7. oi = Deco!Subset(Deco!Listed(indices), s.oi_indices)
  BY SamePositions
<1> HIDE DEF oi
<1> DEFINE bits1 == Grouping!Reordered(s.bits, Grouping!Chain2Bits({Grouping!SupportOf(oi[k], s.bits) : k \in P}, Len(s.bits)))
           bits2 == Deco!Reordered(s.bits, Deco!Chain2Bits({Deco!SupportOf(oi[k], s.bits) : k \in P}, Len(s.bits)))
           taken == Deco!CurrentIndices(s.oi_indices, P)
<1>8. bits1 = bits2
  <2>1. {Grouping!SupportOf(oi[k], s.bits) : k \in P} = {Deco!SupportOf(oi[k], s.bits) : k \in P}
    BY <1>3
  <2> QED
    BY <2>1, SameOrder, SameOperators
<1>9. Grouping!AddGroup(bits1, {Grouping!Entry(oi[k], bits1) : k \in P}, taken)
  BY <1>6, SamePositions
<1> HIDE DEF bits1, bits2, taken
<1>10. {Grouping!Entry(oi[k], bits1) : k \in P} = {Deco!Entry(oi[k], bits2) : k \in P}
  BY <1>2, <1>8
<1>11. Deco!AddGroup(bits2, {Deco!Entry(oi[k], bits2) : k \in P}, taken)
  BY <1>1, <1>8, <1>9, <1>10
<1>12. s \in Deco!Subgroups /\ P \in Deco!LongestChains(oi, s.bits)
  BY SameCalls
<1>13. Deco!Continue /\ lpm_pc = "loop"
  BY <1>4 DEF Grouping!PeelLPM
<1> QED
  BY <1>7, <1>11, <1>12, <1>13 DEF Deco!PeelLPM, Deco!OI_LPM, bits2, taken

LEMMA SameFinish == Grouping!Finish <=> Deco!Finish
<1>1. \A g, h : Grouping!After(g, h) <=> Deco!After(g, h)
  BY SameCardinality DEF Grouping!After, Deco!After
<1>4. Grouping!Continue <=> Deco!Continue
  BY DEF Grouping!Continue, Deco!Continue
<1> QED
  BY <1>1, <1>4, SameCardinality
  DEF Grouping!Finish, Deco!Finish, Grouping!Rules, Deco!Rules

LEMMA SameOthers ==
  /\ Deco!Header = Header /\ Deco!Filter = Filter /\ Deco!Rules = DOMAIN Added
  /\ \A h, f : Deco!Matches(h, f) <=> Matches(h, f)
  /\ \A f, h, bits : Deco!Covers(f, h, bits) <=> Covers(f, h, bits)
  /\ \A f, g : Deco!DisjointFilters(f, g) <=> DisjointFilters(f, g)
  /\ \A f : Deco!IsPrefix(f) <=> IsPrefix(f)
<1>1. Deco!Header = Header /\ Deco!Filter = Filter
  BY SameTernary DEF Deco!Header, Header, Deco!Filter, Filter
<1>2. Deco!Rules = DOMAIN Added
  BY DEF Deco!Rules
<1>3. \A h, f : Deco!Matches(h, f) <=> Matches(h, f)
  BY SameTernary DEF Deco!Matches, Matches, Deco!Support, Support
<1>4. \A f, h, bits : Deco!Covers(f, h, bits) <=> Covers(f, h, bits)
  BY SameTernary DEF Deco!Covers, Covers
<1>5. \A f, g : Deco!DisjointFilters(f, g) <=> DisjointFilters(f, g)
  BY SameTernary DEF Deco!DisjointFilters, DisjointFilters
<1>6. \A f : Deco!IsPrefix(f) <=> IsPrefix(f)
  BY SameTernary DEF Deco!IsPrefix, IsPrefix
<1> QED
  BY <1>1, <1>2, <1>3, <1>4, <1>5, <1>6

-----------------------------------------------------------------------------
(* The order in which groups are tried.                                    *)

\* What is under each element of S in a strict total order.
StrictOrder(S, under) ==
  /\ under \in [S -> SUBSET S]
  /\ \A x \in S : x \notin under[x]
  /\ \A x, y \in S : x \in under[y] => under[x] \subseteq under[y]
  /\ \A x, y \in S : x # y => x \in under[y] \/ y \in under[x]

Ranked(S, under) ==
  /\ \A x \in S : Cardinality(under[x]) \in 0 .. Cardinality(S) - 1
  /\ \A x, y \in S : Cardinality(under[x]) = Cardinality(under[y]) => x = y
  /\ \A p \in 1 .. Cardinality(S) : \E x \in S : Cardinality(under[x]) = p - 1

\* In a strict total order of a finite set every element has its own rank,
\* and every number below that of the elements is the rank of one.
LEMMA RanksOfOrder ==
  ASSUME NEW S, IsFiniteSet(S), NEW under, StrictOrder(S, under)
  PROVE  Cardinality(S) \in Nat /\ Ranked(S, under)
<1> USE DEF StrictOrder
<1> DEFINE n == Cardinality(S)
           rank == [x \in S |-> Cardinality(under[x])]
<1>1. n \in Nat
  BY FS_CardinalityType
<1>2. ASSUME NEW x \in S PROVE IsFiniteSet(under[x]) /\ Cardinality(under[x]) \in 0 .. n - 1
  <2>1. IsFiniteSet(under[x]) /\ Cardinality(under[x]) <= n /\ Cardinality(under[x]) # n
    BY FS_Subset
  <2>2. Cardinality(under[x]) \in Nat
    BY <2>1, FS_CardinalityType
  <2> QED
    BY <1>1, <2>1, <2>2
<1>3. ASSUME NEW x \in S, NEW y \in S, x \in under[y]
      PROVE  Cardinality(under[x]) # Cardinality(under[y])
  <2>1. under[x] \subseteq under[y] /\ under[x] # under[y]
    BY <1>3
  <2> QED
    BY <1>2, <2>1, FS_Subset
<1>4. \A x, y \in S : Cardinality(under[x]) = Cardinality(under[y]) => x = y
  BY <1>3
<1> HIDE DEF n
<1>5. rank \in Injection(S, 0 .. n - 1)
  BY <1>2, <1>4 DEF Injection, IsInjective
<1>6. IsFiniteSet(0 .. n - 1) /\ Cardinality(0 .. n - 1) = n
  BY <1>1, FS_Interval
<1>7. rank \in Surjection(S, 0 .. n - 1)
  BY <1>5, <1>6, FS_Injection DEF n
<1>8. ASSUME NEW p \in 1 .. n PROVE \E x \in S : Cardinality(under[x]) = p - 1
  <2>1. p - 1 \in 0 .. n - 1
    BY <1>1
  <2>2. PICK x \in S : rank[x] = p - 1
    BY <1>7, <2>1 DEF Surjection
  <2> QED
    BY <2>2
<1> QED
  BY <1>1, <1>2, <1>4, <1>8 DEF n, Ranked

\* The sort lists the selected groups, each once.
LEMMA SortedSelected ==
  ASSUME NEW n \in Nat, selected \subseteq 1 .. n,
         \A g \in selected : Cardinality(groups[g].indices) \in Nat
  PROVE  /\ Cardinality(selected) \in Nat /\ DOMAIN Sorted = 1 .. Cardinality(selected)
         /\ \A k \in DOMAIN Sorted : Sorted[k] \in selected
         /\ \A g \in selected : \E k \in DOMAIN Sorted : Sorted[k] = g
<1> DEFINE size(g) == Cardinality(groups[g].indices)
           behind == [g \in selected |-> {h \in selected : Grouping!After(g, h)}]
           m == Cardinality(selected)
<1>1. \A g, h : Grouping!After(g, h) <=> size(h) > size(g) \/ (size(h) = size(g) /\ h < g)
  BY SameCardinality DEF Grouping!After
<1>2. \A g \in selected : size(g) \in Nat /\ g \in Nat
  OBVIOUS
<1>3. IsFiniteSet(selected)
  BY SubsetSize
<1> HIDE DEF size
<1>5. behind \in [selected -> SUBSET selected]
  OBVIOUS
<1>6. \A g \in selected : behind[g] = {h \in selected : Grouping!After(g, h)}
  OBVIOUS
<1>12. \A x, y \in selected :
         x \in behind[y] <=> size(x) > size(y) \/ (size(x) = size(y) /\ x < y)
  BY <1>1, <1>6
<1> HIDE DEF behind
<1>4. StrictOrder(selected, behind)
  <2>1. \A x \in selected : x \notin behind[x]
    BY <1>2, <1>12
  <2>2. \A x, y \in selected : x # y => x \in behind[y] \/ y \in behind[x]
    BY <1>2, <1>12
  <2>3. ASSUME NEW x \in selected, NEW y \in selected, x \in behind[y], NEW z \in behind[x]
        PROVE  z \in behind[y]
    <3>1. z \in selected
      BY <1>5
    <3> QED
      BY <1>2, <1>12, <2>3, <3>1
  <2> QED
    BY <1>5, <2>1, <2>2, <2>3 DEF StrictOrder
<1>7. /\ m \in Nat
      /\ \A x \in selected : Cardinality(behind[x]) \in 0 .. m - 1
      /\ \A x, y \in selected : Cardinality(behind[x]) = Cardinality(behind[y]) => x = y
      /\ \A p \in 1 .. m : \E x \in selected : Cardinality(behind[x]) = p - 1
  <2>1. m \in Nat /\ Ranked(selected, behind)
    BY <1>3, <1>4, RanksOfOrder
  <2> QED
    BY <2>1 DEF Ranked
<1>8. Sorted = [k \in 1 .. m |-> CHOOSE g \in selected : Cardinality({h \in selected : Grouping!After(g, h)}) = k - 1]
  BY DEF Sorted
<1> HIDE DEF m
<1>9. ASSUME NEW k \in 1 .. m
      PROVE  Sorted[k] \in selected /\ Cardinality(behind[Sorted[k]]) = k - 1
  <2>1. \E g \in selected : Cardinality({h \in selected : Grouping!After(g, h)}) = k - 1
    BY <1>6, <1>7
  <2>2. Sorted[k] \in selected /\ Cardinality({h \in selected : Grouping!After(Sorted[k], h)}) = k - 1
    BY <1>8, <2>1
  <2> QED
    BY <1>6, <2>2
<1>10. ASSUME NEW g \in selected PROVE \E k \in 1 .. m : Sorted[k] = g
  <2>1. Cardinality(behind[g]) \in 0 .. m - 1
    BY <1>7
  <2>2. Cardinality(behind[g]) + 1 \in 1 .. m /\ (Cardinality(behind[g]) + 1) - 1 = Cardinality(behind[g])
    BY <1>7, <2>1
  <2>3. Sorted[Cardinality(behind[g]) + 1] = g
    BY <1>7, <1>9, <2>2
  <2> QED
    BY <2>2, <2>3
<1>11. DOMAIN Sorted = 1 .. m
  BY <1>8
<1> QED
  BY <1>7, <1>9, <1>10, <1>11 DEF m

-----------------------------------------------------------------------------
(* What a group and a batch keep.                                          *)

\* The entries of G stand for some of the first n rules.
Stands(rules, n, G) ==
  /\ G = [bits |-> G.bits, entries |-> G.entries]
  /\ \A k \in DOMAIN G.bits : G.bits[k] \in Bits
  /\ Len(G.bits) = Width => {G.bits[k] : k \in DOMAIN G.bits} = Bits
  /\ \A e \in G.entries :
       /\ e.rule \in 1 .. n
       /\ DOMAIN e.filter = DOMAIN G.bits
       /\ IsPrefix(e.filter)
       /\ \A k \in DOMAIN G.bits : rules[e.rule][G.bits[k]] \in {ANY, e.filter[k]}
       /\ \A h \in Header : Matches(h, rules[e.rule]) =>
            \E d \in G.entries : d.rule = e.rule /\ Covers(d.filter, h, G.bits)
  /\ \A d, e \in G.entries : d # e => DisjointFilters(d.filter, e.filter)

RulesOf(G) == {e.rule : e \in G.entries}

Represented ==
  traditional \cup UNION {RulesOf(lpm_groups[g]) : g \in DOMAIN lpm_groups}

BatchInv ==
  /\ DOMAIN lpm_groups \subseteq Nat
  /\ \A g \in DOMAIN lpm_groups : Stands(call.rules, Current - 1, lpm_groups[g])
  /\ 1 .. Current - 1 = Represented

Counted ==
  /\ num_added \in Nat /\ incremental \in Nat /\ in_tcam \in Nat
  /\ Current - 1 <= Len(call.rules)

IncrementalInv ==
  /\ call \in Inputs
  /\ pc \in {"batch", "regroup", "done"}
  /\ Counted
  /\ IF pc = "batch" THEN BatchInv
     ELSE lpm_groups = <<>> /\ traditional = {} /\ incremental = 0 /\ in_tcam = 0
  /\ pc = "regroup" => Deco!IInv

LEMMA CallFacts ==
  ASSUME call \in Inputs
  PROVE  /\ call \in Call /\ call.rules \in Seq(Filter) /\ Len(call.rules) \in Nat
         /\ Rules = 1 .. Len(call.rules)
         /\ \A i \in 1 .. Len(call.rules) : call.rules[i] \in Filter
BY InputsAssumption DEF Call, Rules

\* The rules that are grouped are the first ones.
LEMMA AddedFacts ==
  ASSUME call \in Inputs, num_added \in 0 .. Len(call.rules)
  PROVE  /\ Added \in Seq(Filter) /\ DOMAIN Added = 1 .. num_added
         /\ \A i \in 1 .. num_added : Added[i] = call.rules[i]
<1>1. call.rules \in Seq(Filter) /\ Len(call.rules) \in Nat
  BY CallFacts
<1> QED
  BY <1>1 DEF Added

\* What AddToGroup makes of a group.
Taken(rules, i, G) ==
  [bits    |-> G.bits,
   entries |-> G.entries \cup {[rule |-> i, filter |-> Reordered(rules[i], G.bits)]}]

LEMMA EntryAdded ==
  ASSUME NEW rules, NEW n, NEW i, NEW G, Stands(rules, n, G)
  PROVE  [G EXCEPT !.entries = @ \cup {[rule |-> i, filter |-> Reordered(rules[i], G.bits)]}]
           = Taken(rules, i, G)
<1> DEFINE e == [rule |-> i, filter |-> Reordered(rules[i], G.bits)]
<1>1. PICK b, E : G = [bits |-> b, entries |-> E]
  BY DEF Stands
<1> HIDE DEF e
<1>2. [G EXCEPT !.entries = @ \cup {e}] = [bits |-> b, entries |-> E \cup {e}]
  BY <1>1
<1>3. G.bits = b /\ G.entries = E
  BY <1>1
<1> QED
  BY <1>2, <1>3 DEF Taken, e

\* A group that has room for one more rule.
LEMMA GroupTakes ==
  ASSUME NEW rules, NEW n \in Nat, NEW i \in Nat, i = n + 1,
         NEW G, Stands(rules, n, G), Accepts(G, rules[i])
  PROVE  /\ Stands(rules, i, Taken(rules, i, G))
         /\ RulesOf(Taken(rules, i, G)) = RulesOf(G) \cup {i}
<1> DEFINE H == Taken(rules, i, G)
           new == [rule |-> i, filter |-> Reordered(rules[i], G.bits)]
<1>1. /\ H = [bits |-> G.bits, entries |-> G.entries \cup {new}]
      /\ H.bits = G.bits /\ H.entries = G.entries \cup {new}
  BY DEF Taken
<1> HIDE DEF H
<1>2. /\ new.rule = i /\ DOMAIN new.filter = DOMAIN G.bits
      /\ \A k \in DOMAIN G.bits : new.filter[k] = rules[i][G.bits[k]]
  BY DEF Reordered
<1>3. IsPrefix(new.filter) /\ \A e \in G.entries : DisjointFilters(e.filter, new.filter)
  BY DEF Accepts
<1>4. ASSUME NEW h \in Header, Matches(h, rules[i]) PROVE Covers(new.filter, h, G.bits)
  BY <1>2, <1>4 DEF Covers, Matches, Support, Stands
<1>5. \A e \in G.entries : DOMAIN e.filter = DOMAIN G.bits
  BY DEF Stands
<1>6. \A e \in G.entries : DisjointFilters(new.filter, e.filter)
  BY <1>2, <1>3, <1>5 DEF DisjointFilters
<1> HIDE DEF new
<1>7. ASSUME NEW e \in H.entries
      PROVE  /\ e.rule \in 1 .. i /\ DOMAIN e.filter = DOMAIN H.bits /\ IsPrefix(e.filter)
             /\ \A k \in DOMAIN H.bits : rules[e.rule][H.bits[k]] \in {ANY, e.filter[k]}
             /\ \A h \in Header : Matches(h, rules[e.rule]) =>
                  \E d \in H.entries : d.rule = e.rule /\ Covers(d.filter, h, H.bits)
  <2>1. CASE e = new
    BY <1>1, <1>2, <1>3, <1>4, <2>1
  <2>2. CASE e \in G.entries
    <3>1. e.rule \in 1 .. i
      BY <2>2 DEF Stands
    <3> QED
      BY <1>1, <2>2, <3>1 DEF Stands
  <2> QED
    BY <1>1, <2>1, <2>2
<1>8. \A d, e \in H.entries : d # e => DisjointFilters(d.filter, e.filter)
  BY <1>1, <1>3, <1>6 DEF Stands
<1>9. Stands(rules, i, H)
  <2>1. H = [bits |-> H.bits, entries |-> H.entries]
    BY <1>1
  <2>2. \A k \in DOMAIN G.bits : G.bits[k] \in Bits
    BY DEF Stands
  <2>3. Len(G.bits) = Width => {G.bits[k] : k \in DOMAIN G.bits} = Bits
    BY DEF Stands
  <2>4. H.bits = G.bits
    BY <1>1
  <2>5. \A k \in DOMAIN H.bits : H.bits[k] \in Bits
    BY <2>2, <2>4
  <2>6. Len(H.bits) = Width => {H.bits[k] : k \in DOMAIN H.bits} = Bits
    BY <2>3, <2>4
  <2> QED
    BY <1>7, <1>8, <2>1, <2>5, <2>6 DEF Stands
<1>10. RulesOf(H) = RulesOf(G) \cup {i}
  BY <1>1, <1>2 DEF RulesOf
<1> QED
  BY <1>9, <1>10 DEF H

LEMMA StandsLater ==
  ASSUME NEW rules, NEW n \in Nat, NEW m \in Nat, n <= m, NEW G, Stands(rules, n, G)
  PROVE  Stands(rules, m, G)
<1>1. 1 .. n \subseteq 1 .. m
  OBVIOUS
<1> QED
  BY <1>1 DEF Stands

\* A group of minimize_oi_lpm for the rules added so far.
LEMMA GroupingStands ==
  ASSUME call \in Inputs, num_added \in 0 .. Len(call.rules), Deco!IInv, NEW g \in DOMAIN groups,
         NEW G, G = [bits |-> groups[g].bits, entries |-> groups[g].entries]
  PROVE  Stands(call.rules, num_added, G) /\ RulesOf(G) = groups[g].indices
<1>1. Deco!TypeOK /\ Deco!AllSound
  BY DEF Deco!IInv
<1>2. Deco!Sound(Added, groups[g]) /\ Deco!InOrder(groups[g])
  BY <1>1 DEF Deco!AllSound, Deco!LPMGroup, Deco!OI, Deco!OI_LPM
<1>3. groups[g] \in Deco!Group
  BY <1>1 DEF Deco!TypeOK
<1>4. /\ groups[g].bits \in Deco!BitLists(Width)
      /\ groups[g].entries \subseteq Deco!EntryType
      /\ groups[g].indices \subseteq 1 .. num_added
  BY <1>3, AddedFacts, SameOthers DEF Deco!Group
<1>5. /\ DOMAIN G.bits = 1 .. Len(G.bits) /\ Len(G.bits) \in 0 .. Width
      /\ G.bits \in [1 .. Len(G.bits) -> Bits]
      /\ Len(G.bits) = Width => {G.bits[k] : k \in DOMAIN G.bits} = Bits
  BY <1>4, Deco!BitListsFit, SameTernary, WidthAssumption, PackingAssumption, ActionsAssumption
<1>6. RulesOf(G) = groups[g].indices
  BY <1>2 DEF Deco!Sound, Deco!SameRules, RulesOf
<1>7. ASSUME NEW e \in G.entries
      PROVE  /\ e.rule \in 1 .. num_added /\ Added[e.rule] = call.rules[e.rule]
             /\ DOMAIN e.filter = DOMAIN G.bits /\ IsPrefix(e.filter)
             /\ \A k \in DOMAIN G.bits : call.rules[e.rule][G.bits[k]] \in {ANY, e.filter[k]}
  <2>1. e.rule \in 1 .. num_added
    BY <1>4, <1>6 DEF RulesOf
  <2>2. Added[e.rule] = call.rules[e.rule]
    BY <2>1, AddedFacts
  <2>3. DOMAIN e.filter = DOMAIN G.bits
    BY <1>2 DEF Deco!Sound, Deco!SameWidth
  <2>4. IsPrefix(e.filter)
    BY <1>2, SameOthers DEF Deco!InOrder
  <2>5. \A k \in DOMAIN G.bits : Added[e.rule][G.bits[k]] \in {ANY, e.filter[k]}
    BY <1>2, SameTernary DEF Deco!Sound, Deco!Sharper
  <2> QED
    BY <2>1, <2>2, <2>3, <2>4, <2>5
<1>8. ASSUME NEW e \in G.entries, NEW h \in Header, Matches(h, call.rules[e.rule])
      PROVE  \E d \in G.entries : d.rule = e.rule /\ Covers(d.filter, h, G.bits)
  <2>1. e.rule \in groups[g].indices /\ Matches(h, Added[e.rule])
    BY <1>6, <1>7, <1>8 DEF RulesOf
  <2> QED
    BY <1>2, <2>1, SameOthers DEF Deco!Sound, Deco!Complete
<1>9. \A d, e \in G.entries : d # e => DisjointFilters(d.filter, e.filter)
  BY <1>2, SameOthers DEF Deco!Sound, Deco!Disjoint
<1> QED
  BY <1>5, <1>6, <1>7, <1>8, <1>9 DEF Stands

-----------------------------------------------------------------------------
(* Every step.                                                             *)

LEMMA InitKeeps ==
  ASSUME Init
  PROVE  IncrementalInv
<1>1. call \in Inputs /\ num_added = 0 /\ incremental = 0 /\ in_tcam = 0
      /\ lpm_groups = <<>> /\ traditional = {} /\ pc \in {"batch", "done"}
  BY DEF Init
<1>2. Len(call.rules) \in Nat
  BY <1>1, CallFacts
<1>3. Current - 1 = 0
  BY <1>1 DEF Current
<1>4. Counted
  BY <1>1, <1>2, <1>3 DEF Counted
<1>5. DOMAIN lpm_groups = {} /\ Represented = {}
  BY <1>1 DEF Represented
<1>6. BatchInv
  BY <1>3, <1>5 DEF BatchInv
<1> QED
  BY <1>1, <1>4, <1>6 DEF IncrementalInv

\* What a batch knows of the rule it is at.
LEMMA AtCurrent ==
  ASSUME IncrementalInv, pc = "batch", Current \in Rules
  PROVE  /\ call.rules \in Seq(Filter) /\ Current \in 1 .. Len(call.rules)
         /\ Current - 1 \in Nat /\ Current = (Current - 1) + 1
         /\ num_added \in Nat /\ incremental \in Nat /\ in_tcam \in Nat
         /\ Len(call.rules) \in Nat
<1>1. call \in Inputs /\ Counted
  BY DEF IncrementalInv
<1> QED
  BY <1>1, CallFacts DEF Counted, Current

LEMMA AddToGroupKeeps ==
  ASSUME IncrementalInv, AddToGroup
  PROVE  IncrementalInv'
<1> DEFINE g == First(Accepting)
           i == Current
           G == lpm_groups[g]
           H == lpm_groups'[g]
           n == Current - 1
<1>1. /\ pc = "batch" /\ i \in Rules /\ Accepting # {} /\ incremental' = incremental + 1
      /\ UNCHANGED <<call, num_added, in_tcam, traditional, pc>>
  BY DEF AddToGroup
<1>2. BatchInv /\ call \in Inputs /\ Counted
  BY <1>1 DEF IncrementalInv
<1>3. Accepting \subseteq Nat
  BY <1>2 DEF Accepting, BatchInv
<1>4. g \in DOMAIN lpm_groups /\ Accepts(G, call.rules[i])
  BY <1>1, <1>3, FirstIsLeast DEF Accepting
<1>5. lpm_groups' = [lpm_groups EXCEPT ![g].entries =
                       @ \cup {[rule |-> i, filter |-> Reordered(call.rules[i], G.bits)]}]
  BY DEF AddToGroup
<1>6. /\ DOMAIN lpm_groups' = DOMAIN lpm_groups
      /\ \A x \in DOMAIN lpm_groups : x # g => lpm_groups'[x] = lpm_groups[x]
      /\ H = [G EXCEPT !.entries =
                @ \cup {[rule |-> i, filter |-> Reordered(call.rules[i], G.bits)]}]
  BY <1>4, <1>5
<1>7. /\ call.rules \in Seq(Filter) /\ i \in 1 .. Len(call.rules) /\ n \in Nat /\ i = n + 1
      /\ num_added \in Nat /\ incremental \in Nat /\ in_tcam \in Nat /\ Len(call.rules) \in Nat
  BY <1>1, AtCurrent
<1>8. Current' = i + 1
  BY <1>1, <1>7 DEF Current
<1>9. (Current - 1)' = i
  BY <1>7, <1>8
<1>10. Stands(call.rules, n, G)
  BY <1>2, <1>4 DEF BatchInv
<1> HIDE DEF g, i, G, H, n
<1>11. Stands(call.rules, i, H) /\ RulesOf(H) = RulesOf(G) \cup {i}
  <2>1. i \in Nat
    BY <1>7
  <2>2. /\ Stands(call.rules, i, Taken(call.rules, i, G))
        /\ RulesOf(Taken(call.rules, i, G)) = RulesOf(G) \cup {i}
    BY <1>4, <1>7, <1>10, <2>1, GroupTakes
  <2> QED
    BY <1>6, <1>10, <2>2, EntryAdded
<1>12. ASSUME NEW x \in DOMAIN lpm_groups PROVE Stands(call.rules, i, lpm_groups'[x])
  <2>1. CASE x = g
    BY <1>11, <2>1 DEF H
  <2>2. CASE x # g
    <3>1. Stands(call.rules, n, lpm_groups[x])
      BY <1>2 DEF BatchInv, n
    <3>2. i \in Nat /\ n <= i
      BY <1>7
    <3>3. Stands(call.rules, i, lpm_groups[x])
      BY <1>7, <3>1, <3>2, StandsLater
    <3> QED
      BY <1>6, <2>2, <3>3
  <2> QED
    BY <2>1, <2>2
<1>13. UNION {RulesOf(lpm_groups'[x]) : x \in DOMAIN lpm_groups}
         = (UNION {RulesOf(lpm_groups[x]) : x \in DOMAIN lpm_groups}) \cup {i}
  <2>1. RulesOf(lpm_groups'[g]) = RulesOf(lpm_groups[g]) \cup {i}
    BY <1>11 DEF G, H
  <2>2. \A x \in DOMAIN lpm_groups : x # g => RulesOf(lpm_groups'[x]) = RulesOf(lpm_groups[x])
    BY <1>6
  <2> QED
    BY <1>4, <2>1, <2>2
<1>14. 1 .. i = (1 .. n) \cup {i}
  BY <1>7
<1>15. 1 .. n = Represented
  BY <1>2 DEF BatchInv, n
<1>16. Represented' = Represented \cup {i}
  BY <1>1, <1>6, <1>13 DEF Represented
<1>17. BatchInv'
  <2>1. (DOMAIN lpm_groups \subseteq Nat)'
    BY <1>2, <1>6 DEF BatchInv
  <2>2. (\A x \in DOMAIN lpm_groups : Stands(call.rules, Current - 1, lpm_groups[x]))'
    BY <1>1, <1>6, <1>9, <1>12 DEF i
  <2>3. (1 .. Current - 1 = Represented)'
    BY <1>9, <1>14, <1>15, <1>16 DEF i
  <2> QED
    BY <2>1, <2>2, <2>3 DEF BatchInv
<1>18. Counted'
  BY <1>1, <1>7, <1>9 DEF Counted
<1> QED
  BY <1>1, <1>2, <1>17, <1>18 DEF IncrementalInv

LEMMA AddToTraditionalKeeps ==
  ASSUME IncrementalInv, AddToTraditional
  PROVE  IncrementalInv'
<1>1. /\ pc = "batch" /\ Current \in Rules /\ in_tcam' = in_tcam + 1
      /\ traditional' = traditional \cup {Current}
      /\ UNCHANGED <<call, num_added, incremental, lpm_groups, pc>>
  BY DEF AddToTraditional
<1>2. BatchInv /\ call \in Inputs /\ Counted
  BY <1>1 DEF IncrementalInv
<1>3. /\ Current \in 1 .. Len(call.rules) /\ Current - 1 \in Nat /\ Len(call.rules) \in Nat
      /\ num_added \in Nat /\ incremental \in Nat /\ in_tcam \in Nat
  BY <1>1, AtCurrent
<1>4. (Current - 1)' = Current
  BY <1>1, <1>3 DEF Current
<1>5. Current \in Nat /\ Current - 1 <= Current
  BY <1>3
<1>6. \A x \in DOMAIN lpm_groups : Stands(call.rules, Current, lpm_groups[x])
  BY <1>2, <1>3, <1>5, StandsLater DEF BatchInv
<1>7. 1 .. Current = (1 .. Current - 1) \cup {Current}
  BY <1>3, <1>5
<1>8. Represented' = Represented \cup {Current}
  BY <1>1 DEF Represented
<1>9. BatchInv'
  <2>1. (\A x \in DOMAIN lpm_groups : Stands(call.rules, Current - 1, lpm_groups[x]))'
    BY <1>1, <1>4, <1>6
  <2>2. (1 .. Current - 1 = Represented)'
    BY <1>2, <1>4, <1>7, <1>8 DEF BatchInv
  <2> QED
    BY <1>1, <1>2, <2>1, <2>2 DEF BatchInv
<1>10. Counted'
  BY <1>1, <1>3, <1>4 DEF Counted
<1> QED
  BY <1>1, <1>2, <1>9, <1>10 DEF IncrementalInv

LEMMA FreshGrouping == Deco!Fresh => Deco!IInv
BY Deco!FreshIInv, WidthAssumption, PackingAssumption, ActionsAssumption

LEMMA EndBatchKeeps ==
  ASSUME IncrementalInv, EndBatch
  PROVE  IncrementalInv'
<1>1. /\ pc = "batch" /\ num_added' = num_added + incremental + in_tcam
      /\ incremental' = 0 /\ in_tcam' = 0 /\ lpm_groups' = <<>> /\ traditional' = {}
      /\ call' = call /\ pc' \in {"regroup", "done"}
      /\ pc' = "regroup" => StartGrouping
  BY DEF EndBatch
<1>2. call \in Inputs /\ Counted
  BY <1>1 DEF IncrementalInv
<1>3. Len(call.rules) \in Nat
  BY <1>2, CallFacts
<1>4. num_added' = Current - 1 /\ num_added' \in 0 .. Len(call.rules)
  BY <1>1, <1>2, <1>3 DEF Counted, Current
<1>5. Counted'
  BY <1>1, <1>3, <1>4 DEF Counted, Current
<1>6. call' \in Inputs
  BY <1>1, <1>2
<1>7. ASSUME pc' = "regroup" PROVE Deco!IInv'
  <2>1. /\ indices' = 1 .. num_added' /\ groups' = <<>> /\ selected' = {} /\ rest' = {}
        /\ lpm_pc' = "loop"
    BY <1>1, <1>7 DEF StartGrouping
  <2>2. /\ Added' \in Seq(Filter) /\ DOMAIN Added' = 1 .. num_added'
    <3>1. Added' = SubSeq(call.rules, 1, num_added')
      BY <1>1 DEF Added
    <3>2. call.rules \in Seq(Filter)
      BY <1>2, CallFacts
    <3> QED
      BY <1>3, <1>4, <3>1, <3>2
  <2>3. (Deco!Rules = DOMAIN Added)'
    BY DEF Deco!Rules
  <2>4. call \in Call
    BY <1>2, CallFacts
  <2> DEFINE c == [kind |-> "minimize_oi_lpm", rules |-> Added',
                   max_width |-> call.max_width,
                   max_num_groups |-> call.max_num_groups,
                   max_candidate_groups |-> call.max_candidate_groups,
                   max_expanded_bits |-> 0]
  <2>5. c \in Deco!Call
    <3>1. Deco!Filter = Filter
      BY SameOthers
    <3>2. "minimize_oi_lpm" \in Deco!Kind
      BY DEF Deco!Kind, Deco!OI_LPM
    <3> QED
      BY <2>2, <2>4, <3>1, <3>2 DEF Deco!Call, Call
  <2> HIDE DEF c
  <2>6. Deco!Fresh'
    BY <1>1, <2>1, <2>2, <2>3, <2>5 DEF Deco!Fresh, c
  <2>7. Deco!Fresh' => Deco!IInv'
    BY FreshGrouping, PTL
  <2> QED
    BY <2>6, <2>7
<1> QED
  BY <1>1, <1>5, <1>6, <1>7 DEF IncrementalInv

LEMMA RegroupKeeps ==
  ASSUME IncrementalInv, Regroup
  PROVE  IncrementalInv'
<1>1. /\ pc = "regroup" /\ UNCHANGED <<call, num_added, pc, batch_vars>>
      /\ Grouping!PeelLPM \/ Grouping!Finish
  BY DEF Regroup
<1>2. UNCHANGED <<call, num_added, pc, incremental, in_tcam, lpm_groups, traditional>>
  BY <1>1 DEF batch_vars
<1>3. Deco!IInv
  BY <1>1 DEF IncrementalInv
<1>4. CASE Grouping!PeelLPM
  <2>1. Deco!PeelLPM
    BY <1>4, SamePeel
  <2>2. Deco!IInv'
    BY <1>3, <2>1, Deco!PeelLPMKeeps, WidthAssumption, PackingAssumption, ActionsAssumption
  <2> QED
    BY <1>1, <1>2, <2>2 DEF IncrementalInv, Counted, Current
<1>5. CASE Grouping!Finish
  <2>1. Deco!Finish
    BY <1>5, SameFinish
  <2>2. Deco!IInv'
    BY <1>3, <2>1, Deco!FinishKeeps, WidthAssumption, PackingAssumption, ActionsAssumption
  <2> QED
    BY <1>1, <1>2, <2>2 DEF IncrementalInv, Counted, Current
<1> QED
  BY <1>1, <1>4, <1>5

\* What minimize_oi_lpm returns is what is sorted and copied.
LEMMA GroupingResult ==
  ASSUME call \in Inputs, num_added \in 0 .. Len(call.rules), Deco!IInv, lpm_pc = "done"
  PROVE  /\ Cardinality(selected) \in Nat /\ DOMAIN Sorted = 1 .. Cardinality(selected)
         /\ \A k \in DOMAIN Sorted : Sorted[k] \in selected
         /\ \A g \in selected : \E k \in DOMAIN Sorted : Sorted[k] = g
         /\ selected \subseteq DOMAIN groups
         /\ 1 .. num_added = rest \cup UNION {groups[g].indices : g \in selected}
<1>1. Deco!TypeOK /\ Deco!Accounted
  BY DEF Deco!IInv
<1>2. groups \in Seq(Deco!Group) /\ selected \subseteq DOMAIN groups
  BY <1>1 DEF Deco!TypeOK
<1>3. Deco!Rules = 1 .. num_added
  BY AddedFacts, SameOthers
<1>4. Len(groups) \in Nat /\ selected \subseteq 1 .. Len(groups)
  BY <1>2
<1>5. ASSUME NEW g \in selected PROVE Cardinality(groups[g].indices) \in Nat
  <2>1. groups[g] \in Deco!Group
    BY <1>2
  <2>2. groups[g].indices \subseteq 1 .. num_added
    BY <1>3, <2>1 DEF Deco!Group
  <2> QED
    BY <2>2, SubsetSize
<1>6. 1 .. num_added = rest \cup UNION {groups[g].indices : g \in selected}
  BY <1>1, <1>3 DEF Deco!Accounted
<1> QED
  BY <1>2, <1>4, <1>5, <1>6, SortedSelected

LEMMA StartBatchKeeps ==
  ASSUME IncrementalInv, StartBatch
  PROVE  IncrementalInv'
<1> DEFINE copy(g) == [bits |-> groups[g].bits, entries |-> groups[g].entries]
<1>1. /\ pc = "regroup" /\ lpm_pc = "done" /\ traditional' = rest /\ pc' = "batch"
      /\ lpm_groups' = [k \in DOMAIN Sorted |-> copy(Sorted[k])]
      /\ UNCHANGED <<call, num_added, incremental, in_tcam>>
  BY DEF StartBatch
<1>2. /\ call \in Inputs /\ Counted /\ Deco!IInv /\ incremental = 0 /\ in_tcam = 0
  BY <1>1 DEF IncrementalInv
<1>3. Current - 1 = num_added /\ num_added \in 0 .. Len(call.rules)
  BY <1>2, CallFacts DEF Counted, Current
<1>4. (Current - 1)' = num_added
  BY <1>1, <1>3 DEF Current
<1>5. Counted'
  BY <1>1, <1>2 DEF Counted, Current
<1>6. /\ Cardinality(selected) \in Nat /\ DOMAIN Sorted = 1 .. Cardinality(selected)
      /\ \A k \in DOMAIN Sorted : Sorted[k] \in selected
      /\ \A g \in selected : \E k \in DOMAIN Sorted : Sorted[k] = g
      /\ selected \subseteq DOMAIN groups
      /\ 1 .. num_added = rest \cup UNION {groups[g].indices : g \in selected}
  BY <1>1, <1>2, <1>3, GroupingResult
<1>7. ASSUME NEW g \in selected
      PROVE  Stands(call.rules, num_added, copy(g)) /\ RulesOf(copy(g)) = groups[g].indices
  <2>1. g \in DOMAIN groups
    BY <1>6
  <2> QED
    BY <1>2, <1>3, <2>1, GroupingStands
<1> HIDE DEF copy
<1>8. DOMAIN lpm_groups' = DOMAIN Sorted /\ \A k \in DOMAIN Sorted : lpm_groups'[k] = copy(Sorted[k])
  BY <1>1
<1>9. DOMAIN lpm_groups' \subseteq Nat
  BY <1>6, <1>8
<1>10. \A k \in DOMAIN lpm_groups' : Stands(call.rules, num_added, lpm_groups'[k])
  BY <1>6, <1>7, <1>8
<1>11. UNION {RulesOf(lpm_groups'[k]) : k \in DOMAIN lpm_groups'}
         = UNION {groups[g].indices : g \in selected}
  <2>1. \A k \in DOMAIN lpm_groups' :
          Sorted[k] \in selected /\ RulesOf(lpm_groups'[k]) = groups[Sorted[k]].indices
    BY <1>6, <1>7, <1>8
  <2>2. \A g \in selected : \E k \in DOMAIN lpm_groups' : Sorted[k] = g
    BY <1>6, <1>8
  <2> QED
    BY <2>1, <2>2
<1>12. 1 .. num_added = Represented'
  BY <1>1, <1>6, <1>11 DEF Represented
<1>13. BatchInv'
  <2>1. (\A g \in DOMAIN lpm_groups : Stands(call.rules, Current - 1, lpm_groups[g]))'
    BY <1>1, <1>4, <1>10
  <2>2. (1 .. Current - 1 = Represented)'
    BY <1>4, <1>12
  <2> QED
    BY <1>9, <2>1, <2>2 DEF BatchInv
<1> QED
  BY <1>1, <1>2, <1>5, <1>13 DEF IncrementalInv

LEMMA NextKeeps ==
  ASSUME IncrementalInv, [Next]_vars
  PROVE  IncrementalInv'
<1>1. CASE UNCHANGED vars
  <2>1. /\ UNCHANGED <<call, num_added, incremental, in_tcam, lpm_groups, traditional, pc>>
        /\ UNCHANGED <<indices, groups, selected, rest, lpm_pc>>
    BY <1>1 DEF vars, batch_vars, lpm_vars
  <2>2. Counted' /\ (BatchInv <=> BatchInv')
    BY <2>1 DEF IncrementalInv, Counted, Current, BatchInv, Represented
  <2>3. Deco!IInv => Deco!IInv'
    <3>1. UNCHANGED Deco!vars
      BY <2>1 DEF Deco!vars, Added
    <3> QED
      BY <3>1, Deco!NextKeepsIInv, WidthAssumption, PackingAssumption, ActionsAssumption
  <2> QED
    BY <2>1, <2>2, <2>3 DEF IncrementalInv
<1>2. CASE Return
  BY <1>1, <1>2 DEF Return
<1> QED
  BY <1>1, <1>2, AddToGroupKeeps, AddToTraditionalKeeps, EndBatchKeeps, RegroupKeeps,
     StartBatchKeeps DEF Next

\* What the groups of a batch, and the grouping between two, are like.
THEOREM Invariance == Spec => []IncrementalInv
<1> QED
  BY InitKeeps, NextKeeps, PTL DEF Spec

\* The counts stay within the rules, and entries stand for rules of the call.
THEOREM TypeCorrect == Spec => []TypeOK
<1>1. ASSUME IncrementalInv PROVE TypeOK
  <2>1. call \in Inputs /\ Counted /\ pc \in {"batch", "regroup", "done"}
    BY <1>1 DEF IncrementalInv
  <2>2. Len(call.rules) \in Nat /\ Rules = 1 .. Len(call.rules)
    BY <2>1, CallFacts
  <2>3. num_added \in 0 .. Len(call.rules)
    BY <2>1, <2>2 DEF Counted, Current
  <2>4. CASE pc = "batch"
    <3>1. BatchInv
      BY <1>1, <2>4 DEF IncrementalInv
    <3>2. Current - 1 \in Nat /\ 1 .. Current - 1 \subseteq 1 .. Len(call.rules)
      BY <2>1, <2>2 DEF Counted, Current
    <3>3. traditional \subseteq 1 .. Current - 1
      BY <3>1 DEF BatchInv, Represented
    <3>4. \A g \in DOMAIN lpm_groups : \A e \in lpm_groups[g].entries :
            e.rule \in 1 .. Current - 1 /\ DOMAIN e.filter = DOMAIN lpm_groups[g].bits
      BY <3>1 DEF BatchInv, Stands
    <3> QED
      BY <2>1, <2>2, <2>3, <3>2, <3>3, <3>4 DEF TypeOK, Counted
  <2>5. CASE pc # "batch"
    <3>1. lpm_groups = <<>> /\ traditional = {}
      BY <1>1, <2>5 DEF IncrementalInv
    <3>2. DOMAIN lpm_groups = {}
      BY <3>1
    <3> QED
      BY <2>1, <2>3, <3>1, <3>2 DEF TypeOK, Counted
  <2> QED
    BY <2>4, <2>5
<1> QED
  BY <1>1, Invariance, PTL

\* However many rules are added to a group, its entries are prefixes and no
\* two of them meet.
THEOREM GroupsStayPrefixes == Spec => []GroupsStayLPM
<1>1. ASSUME IncrementalInv PROVE GroupsStayLPM
  <2>1. CASE pc = "batch"
    <3>1. \A g \in DOMAIN lpm_groups : Stands(call.rules, Current - 1, lpm_groups[g])
      BY <1>1, <2>1 DEF IncrementalInv, BatchInv
    <3> QED
      BY <3>1 DEF GroupsStayLPM, Stands
  <2>2. CASE pc # "batch"
    <3>1. DOMAIN lpm_groups = {}
      BY <1>1, <2>2 DEF IncrementalInv
    <3> QED
      BY <3>1 DEF GroupsStayLPM
  <2> QED
    BY <2>1, <2>2
<1> QED
  BY <1>1, Invariance, PTL

\* A lookup in a group yields its rules that match, whether they came from
\* the grouping or were added since.
LEMMA LookupIsExact ==
  ASSUME NEW n \in Nat, NEW G, Stands(call.rules, n, G), NEW h \in Header
  PROVE  Lookup(G, h) = {i \in RulesOf(G) : Matches(h, call.rules[i])}
<1> DEFINE candidates == {e \in G.entries : Covers(e.filter, h, G.bits)}
           verified(c) == Len(G.bits) = Width \/ Matches(h, call.rules[c.rule])
<1>1. Lookup(G, h) = {e.rule : e \in {c \in candidates : /\ \A d \in candidates : c.rule <= d.rule
                                                         /\ verified(c)}}
  BY DEF Lookup
<1>2. \A e \in G.entries : e.rule \in Nat /\ DOMAIN e.filter = DOMAIN G.bits
  BY DEF Stands
<1>3. ASSUME NEW c \in candidates, verified(c) PROVE Matches(h, call.rules[c.rule])
  <2>1. CASE Len(G.bits) = Width
    <3> SUFFICES ASSUME NEW b \in Bits, call.rules[c.rule][b] # ANY
                 PROVE  h[b] = call.rules[c.rule][b]
      BY DEF Matches, Support
    <3>1. {G.bits[k] : k \in DOMAIN G.bits} = Bits
      BY <2>1 DEF Stands
    <3>2. PICK k \in DOMAIN G.bits : G.bits[k] = b
      BY <3>1
    <3>3. call.rules[c.rule][G.bits[k]] \in {ANY, c.filter[k]}
      BY DEF Stands
    <3>4. c.filter[k] \in {ANY, h[G.bits[k]]}
      BY <1>2 DEF Covers
    <3> QED
      BY <3>2, <3>3, <3>4
  <2> QED
    BY <1>3, <2>1
<1>4. ASSUME NEW c \in candidates, NEW d \in candidates PROVE c = d
  <2> SUFFICES ASSUME c # d PROVE FALSE
    OBVIOUS
  <2>1. DisjointFilters(c.filter, d.filter)
    BY DEF Stands
  <2>2. PICK k \in DOMAIN c.filter : ANY \notin {c.filter[k], d.filter[k]} /\ c.filter[k] # d.filter[k]
    BY <2>1 DEF DisjointFilters
  <2>3. k \in DOMAIN d.filter
    BY <1>2
  <2> QED
    BY <2>2, <2>3 DEF Covers
<1>5. ASSUME NEW i \in RulesOf(G), Matches(h, call.rules[i])
      PROVE  \E e \in candidates : e.rule = i /\ verified(e)
  <2>1. PICK d \in G.entries : d.rule = i
    BY DEF RulesOf
  <2>2. PICK e \in G.entries : e.rule = i /\ Covers(e.filter, h, G.bits)
    BY <1>5, <2>1 DEF Stands
  <2> QED
    BY <1>5, <2>2
<1>6. ASSUME NEW i \in Lookup(G, h) PROVE i \in RulesOf(G) /\ Matches(h, call.rules[i])
  <2>1. PICK c \in candidates : i = c.rule /\ verified(c)
    BY <1>1
  <2> QED
    BY <1>3, <2>1 DEF RulesOf
<1>7. ASSUME NEW i \in RulesOf(G), Matches(h, call.rules[i]) PROVE i \in Lookup(G, h)
  <2>1. PICK e \in candidates : e.rule = i /\ verified(e)
    BY <1>5, <1>7
  <2>2. e.rule \in Nat
    BY <1>2
  <2>3. \A d \in candidates : e.rule <= d.rule
    BY <1>4, <2>2
  <2> HIDE DEF candidates, verified
  <2> QED
    BY <1>1, <2>1, <2>3
<1> QED
  BY <1>6, <1>7

\* No rule that is counted is lost, and none decides a header it does not
\* match: the groups and the traditional classifier together find what the
\* rules added so far would.
THEOREM NoneForgotten == Spec => []AddedAreRepresented
<1>1. ASSUME IncrementalInv, pc = "batch", NEW h \in Header
      PROVE  {i \in 1 .. Current - 1 : Matches(h, call.rules[i])}
               = {i \in traditional : Matches(h, call.rules[i])}
                   \cup UNION {Lookup(lpm_groups[g], h) : g \in DOMAIN lpm_groups}
  <2>1. BatchInv /\ Counted
    BY <1>1 DEF IncrementalInv
  <2>2. Current - 1 \in Nat
    BY <2>1 DEF Counted, Current
  <2>3. 1 .. Current - 1 = traditional \cup UNION {RulesOf(lpm_groups[g]) : g \in DOMAIN lpm_groups}
    BY <2>1 DEF BatchInv, Represented
  <2>4. \A g \in DOMAIN lpm_groups :
          Lookup(lpm_groups[g], h) = {i \in RulesOf(lpm_groups[g]) : Matches(h, call.rules[i])}
    BY <1>1, <2>1, <2>2, LookupIsExact DEF BatchInv
  <2> QED
    BY <2>3, <2>4
<1>2. ASSUME IncrementalInv PROVE AddedAreRepresented
  BY <1>1, <1>2 DEF AddedAreRepresented
<1> QED
  BY <1>2, Invariance, PTL
=============================================================================
