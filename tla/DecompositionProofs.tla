------------------------- MODULE DecompositionProofs -------------------------
(***************************************************************************)
(* minimize_oi_lpm, with and without expansions, keeps the meaning of the  *)
(* classifier for every list of rules: no rule is lost or taken twice, and *)
(* a lookup in the groups and the leftover rules together decides every    *)
(* header as before.  decompose_oi is covered as far as its bookkeeping    *)
(* goes.                                                                   *)
(*                                                                         *)
(* The inductive invariant says of each group by itself that its entries   *)
(* are disjoint, that none covers a header its rule does not agree with on *)
(* the group's bits (Sharper), and that together they cover what the rules *)
(* taken away cover (Complete).  A lookup then has one candidate at most,  *)
(* so a failed false-positive check never hides another rule.              *)
(***************************************************************************)
EXTENDS Decomposition, TernaryProofs, SequenceTheorems, FunctionTheorems

-----------------------------------------------------------------------------
(* Lists of bits.                                                          *)

LEMMA SymbolsDiffer == ONE # ANY /\ ZERO # ANY
BY DEF ONE, ZERO, ANY

LEMMA BitsFinite == IsFiniteSet(Bits) /\ Cardinality(Bits) = Width
BY WidthAssumption, FS_Interval DEF Bits

\* A list of distinct bits is no longer than the filters are wide, and one
\* as long as that has every bit.
LEMMA BitListsFit ==
  ASSUME NEW n \in Nat, NEW bits \in BitLists(n)
  PROVE  /\ bits \in BitLists(Width)
         /\ DOMAIN bits = 1 .. Len(bits) /\ Len(bits) \in 0 .. Width
         /\ bits \in [1 .. Len(bits) -> Bits]
         /\ Len(bits) = Width => {bits[k] : k \in DOMAIN bits} = Bits
<1>1. PICK m \in 0 .. n : bits \in [1 .. m -> Bits]
  BY DEF BitLists, Picks
<1>2. m \in Nat /\ DOMAIN bits = 1 .. m /\ Len(bits) = m
  BY <1>1
<1>3. \A k, l \in 1 .. m : bits[k] = bits[l] => k = l
  BY <1>2 DEF BitLists, Picks
<1>4. bits \in Injection(1 .. m, Bits)
  BY <1>1, <1>3 DEF Injection, IsInjective
<1>5. Cardinality(1 .. m) <= Cardinality(Bits)
  BY <1>4, BitsFinite, FS_Injection
<1>6. m <= Width
  BY <1>2, <1>5, BitsFinite, IntervalSize
<1>7. bits \in BitLists(Width)
  <2>1. m \in 0 .. Width
    BY <1>2, <1>6, WidthAssumption
  <2>2. bits \in UNION {[1 .. k -> Bits] : k \in 0 .. Width}
    BY <1>1, <2>1
  <2> QED
    BY <1>2, <1>3, <2>2 DEF BitLists, Picks
<1>8. m = Width => {bits[k] : k \in 1 .. m} = Bits
  BY <1>1, <1>2, <1>3, BitsFinite, InjectionIsOnto
<1> QED
  BY <1>1, <1>2, <1>6, <1>7, <1>8, WidthAssumption

\* A permutation of a list of bits is one too, of the same bits.
LEMMA PermutedBits ==
  ASSUME NEW bits \in BitLists(Width),
         NEW order \in [1 .. Len(bits) -> 1 .. Len(bits)],
         \A p, q \in 1 .. Len(bits) : order[p] = order[q] => p = q
  PROVE  /\ Reordered(bits, order) \in BitLists(Width)
         /\ {Reordered(bits, order)[k] : k \in DOMAIN Reordered(bits, order)}
              = {bits[k] : k \in DOMAIN bits}
<1> DEFINE n == Len(bits)
           new == Reordered(bits, order)
<1>1. n \in 0 .. Width /\ n \in Nat /\ bits \in [1 .. n -> Bits]
  BY WidthAssumption, BitListsFit
<1>2. \A k, l \in 1 .. n : bits[k] = bits[l] => k = l
  BY <1>1 DEF BitLists, Picks
<1>3. new = [p \in 1 .. n |-> bits[order[p]]]
  BY DEF Reordered
<1>4. {order[p] : p \in 1 .. n} = 1 .. n
  BY <1>1, IntervalSize, InjectionIsOnto
<1> HIDE DEF n, new
<1>5. new \in [1 .. n -> Bits] /\ \A k, l \in 1 .. n : new[k] = new[l] => k = l
  BY <1>1, <1>2, <1>3 DEF n
<1>6. new \in BitLists(Width)
  BY <1>1, <1>5 DEF BitLists, Picks
<1>7. {new[k] : k \in 1 .. n} = {bits[k] : k \in 1 .. n}
  <2>1. \A p \in 1 .. n : order[p] \in 1 .. n /\ new[p] = bits[order[p]]
    BY <1>3, <1>4
  <2>2. \A k \in 1 .. n : \E p \in 1 .. n : order[p] = k
    BY <1>4
  <2>3. ASSUME NEW x \in {new[k] : k \in 1 .. n} PROVE x \in {bits[k] : k \in 1 .. n}
    BY <2>1
  <2>4. ASSUME NEW x \in {bits[k] : k \in 1 .. n} PROVE x \in {new[k] : k \in 1 .. n}
    <3>1. PICK k \in 1 .. n : x = bits[k]
      OBVIOUS
    <3>2. PICK p \in 1 .. n : order[p] = k
      BY <2>2
    <3>3. x = new[p]
      BY <2>1, <3>1, <3>2
    <3> QED
      BY <3>3
  <2> QED
    BY <2>3, <2>4
<1> QED
  BY <1>1, <1>5, <1>6, <1>7 DEF new

-----------------------------------------------------------------------------
(* One group.                                                              *)

SameRules(G) == {e.rule : e \in G.entries} = G.indices

SameWidth(G) == \A e \in G.entries : DOMAIN e.filter = DOMAIN G.bits

Disjoint(G) == \A d, e \in G.entries : d # e => DisjointFilters(d.filter, e.filter)

Sharper(rules, G) ==
  \A e \in G.entries : \A k \in DOMAIN G.bits :
     rules[e.rule][G.bits[k]] \in {ANY, e.filter[k]}

Complete(rules, G) ==
  \A i \in G.indices : \A h \in Header :
     Matches(h, rules[i]) =>
       \E e \in G.entries : e.rule = i /\ Covers(e.filter, h, G.bits)

Sound(rules, G) ==
  SameRules(G) /\ SameWidth(G) /\ Disjoint(G) /\ Sharper(rules, G) /\ Complete(rules, G)

\* The entries can be made prefixes by one order of the bits,
Chained(G) == IsChain({Exact(e.filter) : e \in G.entries})

\* and are prefixes in the order the group has.
InOrder(G) == \A e \in G.entries : IsPrefix(e.filter)

LPMGroup(G) == Chained(G) /\ (call.kind = OI_LPM => InOrder(G))

AllSound ==
  call.kind # OI =>
    \A g \in DOMAIN groups : Sound(call.rules, groups[g]) /\ LPMGroup(groups[g])

IInv ==
  /\ TypeOK
  /\ Accounted
  /\ AllSound

LEMMA RulesFinite ==
  ASSUME TypeOK
  PROVE  /\ call.rules \in Seq(Filter) /\ Len(call.rules) \in Nat
         /\ Rules = 1 .. Len(call.rules)
         /\ \A i \in Rules : call.rules[i] \in Filter
         /\ IsFiniteSet(Rules)
<1>1. call.rules \in Seq(Filter)
  BY DEF TypeOK, Call
<1>2. Len(call.rules) \in Nat /\ Rules = 1 .. Len(call.rules)
  BY <1>1 DEF Rules
<1>3. \A i \in Rules : call.rules[i] \in Filter
  BY <1>1 DEF Rules
<1>4. IsFiniteSet(1 .. Len(call.rules))
  BY <1>2, IntervalSize
<1>5. IsFiniteSet(Rules)
  BY <1>2, <1>4
<1> QED
  BY <1>1, <1>2, <1>3, <1>5

\* An entry of a rule on some bits.
LEMMA EntryIsTyped ==
  ASSUME TypeOK, NEW i \in Rules, NEW bits \in BitLists(Width)
  PROVE  /\ Entry(i, bits) \in EntryType
         /\ DOMAIN Entry(i, bits).filter = DOMAIN bits
         /\ \A k \in DOMAIN bits : Entry(i, bits).filter[k] = call.rules[i][bits[k]]
         /\ Entry(i, bits).rule = i
<1>1. DOMAIN bits = 1 .. Len(bits) /\ Len(bits) \in 0 .. Width /\ bits \in [1 .. Len(bits) -> Bits]
  BY BitListsFit, WidthAssumption
<1>2. call.rules[i] \in [Bits -> {ONE, ZERO, ANY}]
  BY RulesFinite DEF Filter
<1>3. Reordered(call.rules[i], bits) \in [1 .. Len(bits) -> {ONE, ZERO, ANY}]
  BY <1>1, <1>2 DEF Reordered
<1>4. Reordered(call.rules[i], bits) \in UNION {[1 .. k -> {ONE, ZERO, ANY}] : k \in 0 .. Width}
  BY <1>1, <1>3
<1> QED
  BY <1>4 DEF Entry, EntryType, Reordered

\* A group of rules that are order independent on its bits.
LEMMA PlainGroupSound ==
  ASSUME TypeOK, NEW S \in SUBSET Rules, NEW bits \in BitLists(Width), Independent(S, bits),
         NEW G, G = [bits |-> bits, entries |-> {Entry(i, bits) : i \in S}, indices |-> S]
  PROVE  G \in Group /\ Sound(call.rules, G)
<1>1. \A i \in S : /\ Entry(i, bits) \in EntryType /\ Entry(i, bits).rule = i
                   /\ DOMAIN Entry(i, bits).filter = DOMAIN bits
                   /\ \A k \in DOMAIN bits : Entry(i, bits).filter[k] = call.rules[i][bits[k]]
  BY EntryIsTyped
<1>2. G.bits = bits /\ G.entries = {Entry(i, bits) : i \in S} /\ G.indices = S
  OBVIOUS
<1>3. G \in Group
  BY <1>1 DEF Group
<1>4. SameRules(G) /\ SameWidth(G) /\ Sharper(call.rules, G)
  BY <1>1, <1>2 DEF SameRules, SameWidth, Sharper
<1>5. Disjoint(G)
  <2> SUFFICES ASSUME NEW i \in S, NEW j \in S, Entry(i, bits) # Entry(j, bits)
               PROVE  DisjointFilters(Entry(i, bits).filter, Entry(j, bits).filter)
    BY <1>2 DEF Disjoint
  <2>1. i # j
    OBVIOUS
  <2>2. ~ Intersect(call.rules[i], call.rules[j], {bits[k] : k \in DOMAIN bits})
    BY <2>1 DEF Independent
  <2>3. PICK k \in DOMAIN bits : /\ call.rules[i][bits[k]] # ANY /\ call.rules[j][bits[k]] # ANY
                                 /\ call.rules[i][bits[k]] # call.rules[j][bits[k]]
    BY <2>2 DEF Intersect, Differences
  <2> QED
    BY <1>1, <2>3 DEF DisjointFilters
<1>6. Complete(call.rules, G)
  <2> SUFFICES ASSUME NEW i \in S, NEW h \in Header, Matches(h, call.rules[i])
               PROVE  Covers(Entry(i, bits).filter, h, bits)
    BY <1>1, <1>2 DEF Complete
  <2>1. \A k \in DOMAIN bits : bits[k] \in Bits
    BY BitListsFit, WidthAssumption
  <2> QED
    BY <1>1, <2>1 DEF Covers, Matches, Support
<1> QED
  BY <1>3, <1>4, <1>5, <1>6 DEF Sound

\* Filters that are prefixes have supports of which one is part of the other.
LEMMA PrefixesAreChained ==
  ASSUME NEW G \in Group, SameWidth(G), InOrder(G)
  PROVE  Chained(G)
<1> SUFFICES ASSUME NEW d \in G.entries, NEW e \in G.entries,
                    NEW k \in Exact(d.filter), k \notin Exact(e.filter),
                    NEW l \in Exact(e.filter), l \notin Exact(d.filter)
             PROVE  FALSE
  BY DEF Chained, IsChain
<1>1. DOMAIN G.bits = 1 .. Len(G.bits) /\ Len(G.bits) \in Nat
  BY BitListsFit, WidthAssumption DEF Group
<1>2. /\ DOMAIN d.filter = DOMAIN G.bits /\ DOMAIN e.filter = DOMAIN G.bits
      /\ IsPrefix(d.filter) /\ IsPrefix(e.filter)
  BY DEF SameWidth, InOrder
<1>3. k \in 1 .. Len(G.bits) /\ l \in 1 .. Len(G.bits)
  BY <1>1, <1>2 DEF Exact
<1>4. /\ d.filter[k] # ANY /\ e.filter[k] = ANY
      /\ e.filter[l] # ANY /\ d.filter[l] = ANY
  BY <1>1, <1>2, <1>3 DEF Exact
<1>5. ~ (k < l) /\ ~ (l < k)
  BY <1>1, <1>2, <1>3, <1>4 DEF IsPrefix
<1>6. k = l
  BY <1>1, <1>3, <1>5
<1> QED
  BY <1>4, <1>6

\* The order computed from the chain of their supports makes entries prefixes.
LEMMA ChainOrdersEntries ==
  ASSUME TypeOK, NEW P \in SUBSET Rules, NEW bits \in BitLists(Width), NEW chain,
         chain = {SupportOf(i, bits) : i \in P}, IsFiniteSet(chain), IsChain(chain),
         NEW i \in P
  PROVE  IsPrefix(Entry(i, Reordered(bits, Chain2Bits(chain, Len(bits)))).filter)
<1> DEFINE n == Len(bits)
           order == Chain2Bits(chain, n)
           f == Reordered(call.rules[i], bits)
<1>1. n \in Nat /\ DOMAIN bits = 1 .. n
  BY BitListsFit, WidthAssumption
<1>2. DOMAIN f = 1 .. n /\ \A k \in 1 .. n : f[k] = call.rules[i][bits[k]]
  BY <1>1 DEF Reordered
<1>3. Exact(f) \in chain
  BY DEF SupportOf
<1> HIDE DEF f, n
<1>4. IsPrefix(Reordered(f, order))
  BY <1>1, <1>2, <1>3, ChainMakesPrefixes
<1>5. order \in [1 .. n -> 1 .. n]
  BY <1>1, Chain2BitsPermutes
<1> HIDE DEF order
<1>6. Reordered(f, order) = Reordered(call.rules[i], Reordered(bits, order))
  BY <1>2, <1>5 DEF Reordered
<1> QED
  BY <1>4, <1>6 DEF Entry, order, n

\* Chains of supports of rules are finite.
LEMMA ChainFinite ==
  ASSUME TypeOK, NEW P \in SUBSET Rules, NEW bits
  PROVE  IsFiniteSet({SupportOf(i, bits) : i \in P})
<1>1. IsFiniteSet(P)
  BY RulesFinite, FS_Subset
<1> DEFINE f == [i \in P |-> SupportOf(i, bits)]
           T == {SupportOf(i, bits) : i \in P}
<1>2. f \in Surjection(P, T)
  BY DEF Surjection
<1> HIDE DEF f, T
<1>3. IsFiniteSet(T)
  BY <1>1, <1>2, FS_Surjection
<1> QED
  BY <1>3 DEF T

\* Reordering the bits by a chain changes nothing about independence.
LEMMA ReorderedIndependent ==
  ASSUME TypeOK, NEW S, NEW P \in SUBSET S, NEW chain, IsFiniteSet(chain),
         NEW bits \in BitLists(Width), Independent(S, bits)
  PROVE  /\ Reordered(bits, Chain2Bits(chain, Len(bits))) \in BitLists(Width)
         /\ Independent(P, Reordered(bits, Chain2Bits(chain, Len(bits))))
<1> DEFINE order == Chain2Bits(chain, Len(bits))
           new == Reordered(bits, order)
<1>1. Len(bits) \in Nat
  BY BitListsFit, WidthAssumption
<1>2. /\ order \in [1 .. Len(bits) -> 1 .. Len(bits)]
      /\ \A p, q \in 1 .. Len(bits) : order[p] = order[q] => p = q
  BY <1>1, Chain2BitsPermutes
<1> HIDE DEF order
<1>3. /\ new \in BitLists(Width)
      /\ {new[k] : k \in DOMAIN new} = {bits[k] : k \in DOMAIN bits}
  BY <1>2, PermutedBits
<1> HIDE DEF new
<1>4. Independent(P, new)
  BY <1>3 DEF Independent
<1> QED
  BY <1>3, <1>4 DEF order, new

\* Entries expanded to a chain of supports that are disjoint where the rules
\* are.
LEMMA ExpandedGroupSound ==
  ASSUME TypeOK, NEW S \in SUBSET Rules, NEW bits \in BitLists(Width), Independent(S, bits),
         NEW exp, DOMAIN exp \subseteq S,
         NEW G, G = [bits |-> bits,
                     entries |-> UNION { {[rule |-> i, filter |-> f] :
                             f \in Expand(Reordered(call.rules[i], bits), exp[i])}
                          : i \in DOMAIN exp },
                     indices |-> DOMAIN exp]
  PROVE  G \in Group /\ Sound(call.rules, G)
<1> DEFINE D == DOMAIN bits
           R(i) == Reordered(call.rules[i], bits)
           X(i) == Expand(R(i), exp[i])
           E == UNION { {[rule |-> i, filter |-> f] : f \in X(i)} : i \in DOMAIN exp }
<1>1. /\ bits \in [1 .. Len(bits) -> Bits] /\ D = 1 .. Len(bits) /\ Len(bits) \in 0 .. Width
      /\ \A k \in D : bits[k] \in Bits
  BY BitListsFit, WidthAssumption
<1>2. ASSUME NEW i \in DOMAIN exp
      PROVE  /\ i \in Rules /\ call.rules[i] \in [Bits -> {ONE, ZERO, ANY}]
             /\ R(i) = [k \in D |-> call.rules[i][bits[k]]]
             /\ DOMAIN R(i) = D
             /\ \A k \in D : R(i)[k] = call.rules[i][bits[k]] /\ R(i)[k] \in {ONE, ZERO, ANY}
  BY <1>1, RulesFinite DEF Filter, Reordered
<1>3. ASSUME NEW i \in DOMAIN exp, NEW f
      PROVE  f \in X(i) <=>
               /\ f \in [D -> {ONE, ZERO, ANY}]
               /\ \A k \in D : IF R(i)[k] = ANY /\ k \in exp[i] THEN f[k] # ANY ELSE f[k] = R(i)[k]
  BY <1>2 DEF Expand
<1> HIDE DEF X
\* An exact bit keeps its value.
<1>14. ASSUME NEW i \in DOMAIN exp, NEW f \in X(i), NEW k \in D, call.rules[i][bits[k]] # ANY
       PROVE  f[k] = call.rules[i][bits[k]]
  <2>1. R(i)[k] = call.rules[i][bits[k]]
    BY <1>2
  <2>2. IF R(i)[k] = ANY /\ k \in exp[i] THEN f[k] # ANY ELSE f[k] = R(i)[k]
    BY <1>3
  <2> HIDE DEF R
  <2> QED
    BY <1>14, <2>1, <2>2
<1>4. /\ G.bits = bits /\ G.indices = DOMAIN exp /\ G.entries = E
  BY DEF X
<1>5. \A e \in E : e.rule \in DOMAIN exp /\ e.filter \in X(e.rule)
  OBVIOUS
<1>6. \A i \in DOMAIN exp : \A f \in X(i) : [rule |-> i, filter |-> f] \in E
  OBVIOUS
<1>7. \A d, e \in E : d.rule = e.rule /\ d.filter = e.filter => d = e
  OBVIOUS
<1>8. G \in Group
  <2>1. \A i \in DOMAIN exp : \A f \in X(i) : [rule |-> i, filter |-> f] \in EntryType
    <3> SUFFICES ASSUME NEW i \in DOMAIN exp, NEW f \in X(i)
                 PROVE  [rule |-> i, filter |-> f] \in EntryType
      OBVIOUS
    <3>1. f \in [1 .. Len(bits) -> {ONE, ZERO, ANY}]
      BY <1>1, <1>3
    <3>2. f \in UNION {[1 .. k -> {ONE, ZERO, ANY}] : k \in 0 .. Width}
      BY <1>1, <3>1
    <3> QED
      BY <1>2, <3>2 DEF EntryType
  <2>2. E \subseteq EntryType
    BY <2>1
  <2>3. DOMAIN exp \subseteq Rules
    BY <1>2
  <2> QED
    BY <2>2, <2>3 DEF Group, X
<1>9. SameWidth(G)
  BY <1>1, <1>3, <1>4, <1>5 DEF SameWidth
<1>10. Sharper(call.rules, G)
  <2> SUFFICES ASSUME NEW e \in E, NEW k \in D
               PROVE  call.rules[e.rule][bits[k]] \in {ANY, e.filter[k]}
    BY <1>4 DEF Sharper
  <2>1. e.rule \in DOMAIN exp /\ e.filter \in X(e.rule)
    BY <1>5
  <2> HIDE DEF E
  <2>2. call.rules[e.rule][bits[k]] # ANY => e.filter[k] = call.rules[e.rule][bits[k]]
    BY <1>14, <2>1
  <2> QED
    BY <2>2
<1>11. Complete(call.rules, G)
  <2> SUFFICES ASSUME NEW i \in DOMAIN exp, NEW h \in Header, Matches(h, call.rules[i])
               PROVE  \E e \in E : e.rule = i /\ Covers(e.filter, h, bits)
    BY <1>4 DEF Complete
  <2> DEFINE f == [k \in D |-> IF R(i)[k] = ANY /\ k \in exp[i] THEN h[bits[k]] ELSE R(i)[k]]
  <2>1. \A k \in D : h[bits[k]] \in {ONE, ZERO} /\ (R(i)[k] # ANY => h[bits[k]] = R(i)[k])
    BY <1>1, <1>2 DEF Header, Matches, Support
  <2>2. f \in X(i)
    BY <1>2, <1>3, <2>1, SymbolsDiffer
  <2>3. Covers(f, h, bits)
    BY <2>1 DEF Covers
  <2> QED
    BY <1>6, <2>2, <2>3
<1>12. SameRules(G)
  <2>1. ASSUME NEW i \in DOMAIN exp PROVE \E e \in E : e.rule = i
    <3> DEFINE f == [k \in D |-> IF R(i)[k] = ANY /\ k \in exp[i] THEN ONE ELSE R(i)[k]]
    <3>1. f \in X(i)
      BY <1>2, <1>3, SymbolsDiffer
    <3> QED
      BY <1>6, <3>1
  <2> HIDE DEF E
  <2>2. {e.rule : e \in E} = DOMAIN exp
    BY <1>5, <2>1
  <2> QED
    BY <1>4, <2>2 DEF SameRules
<1>13. Disjoint(G)
  <2> SUFFICES ASSUME NEW d \in E, NEW e \in E, d # e
               PROVE  DisjointFilters(d.filter, e.filter)
    BY <1>4 DEF Disjoint
  <2> HIDE DEF E
  <2>0. d.filter \in [D -> {ONE, ZERO, ANY}] /\ e.filter \in [D -> {ONE, ZERO, ANY}]
    BY <1>3, <1>5
  <2>1. CASE d.rule = e.rule
    <3>1. d.filter # e.filter
      BY <1>7, <2>1
    <3>2. PICK k \in D : d.filter[k] # e.filter[k]
      BY <2>0, <3>1
    <3>3. d.filter[k] # ANY /\ e.filter[k] # ANY
      BY <1>3, <1>5, <2>1, <3>2
    <3> QED
      BY <2>0, <3>2, <3>3 DEF DisjointFilters
  <2>2. CASE d.rule # e.rule
    <3>1. ~ Intersect(call.rules[d.rule], call.rules[e.rule], {bits[k] : k \in DOMAIN bits})
      BY <1>5, <2>2 DEF Independent
    <3>2. PICK k \in D : /\ call.rules[d.rule][bits[k]] # ANY /\ call.rules[e.rule][bits[k]] # ANY
                         /\ call.rules[d.rule][bits[k]] # call.rules[e.rule][bits[k]]
      BY <3>1 DEF Intersect, Differences
    <3>3. d.filter[k] = call.rules[d.rule][bits[k]] /\ e.filter[k] = call.rules[e.rule][bits[k]]
      BY <1>5, <1>14, <3>2
    <3> QED
      BY <2>0, <3>2, <3>3 DEF DisjointFilters
  <2> QED
    BY <2>1, <2>2
<1> QED
  BY <1>8, <1>9, <1>10, <1>11, <1>12, <1>13 DEF Sound

\* An expanded entry is exact on the bits it was to be expanded to.
LEMMA ExpandedGroupChained ==
  ASSUME NEW bits, NEW wide, IsChain({wide[i] : i \in DOMAIN wide}),
         \A i \in DOMAIN wide : wide[i] \subseteq DOMAIN bits /\ SupportOf(i, bits) \subseteq wide[i],
         NEW G, G.entries = UNION { {[rule |-> i, filter |-> f] :
                             f \in Expand(Reordered(call.rules[i], bits), wide[i])}
                          : i \in DOMAIN wide }
  PROVE  Chained(G)
<1>1. ASSUME NEW e \in G.entries PROVE \E i \in DOMAIN wide : Exact(e.filter) = wide[i]
  <2>1. PICK i \in DOMAIN wide : e.filter \in Expand(Reordered(call.rules[i], bits), wide[i])
    OBVIOUS
  <2> DEFINE R == Reordered(call.rules[i], bits)
  <2>2. DOMAIN R = DOMAIN bits
    BY DEF Reordered
  <2>3. Exact(R) \subseteq wide[i] /\ wide[i] \subseteq DOMAIN bits
    BY DEF SupportOf
  <2>4. /\ DOMAIN e.filter = DOMAIN R
        /\ \A k \in DOMAIN R : IF R[k] = ANY /\ k \in wide[i] THEN e.filter[k] # ANY
                                                           ELSE e.filter[k] = R[k]
    BY <2>1 DEF Expand
  <2> HIDE DEF R
  <2>5. \A k \in DOMAIN R : e.filter[k] # ANY <=> k \in wide[i]
    BY <2>3, <2>4 DEF Exact
  <2>6. Exact(e.filter) = wide[i]
    BY <2>2, <2>3, <2>4, <2>5 DEF Exact
  <2> QED
    BY <2>6
<1> QED
  BY <1>1 DEF Chained, IsChain

-----------------------------------------------------------------------------
(* The loop.                                                               *)

\* A group of rules that no other group has yet.
LEMMA AddGroupKeeps ==
  ASSUME IInv, pc = "loop",
         NEW bits, NEW entries, NEW current_indices, current_indices \subseteq indices,
         NEW G, G = [bits |-> bits, entries |-> entries, indices |-> current_indices],
         G \in Group, call.kind # OI => Sound(call.rules, G) /\ LPMGroup(G),
         AddGroup(bits, entries, current_indices)
  PROVE  IInv'
<1>1. /\ groups' = Append(groups, G) /\ indices' = indices \ current_indices
      /\ UNCHANGED <<call, selected, rest, pc>>
  BY DEF AddGroup
<1>2. /\ groups \in Seq(Group) /\ call \in Call /\ indices \subseteq Rules
      /\ selected \subseteq DOMAIN groups /\ rest \subseteq Rules
  BY DEF IInv, TypeOK
<1> DEFINE n == Len(groups)
<1>3. /\ n \in Nat /\ DOMAIN groups = 1 .. n
      /\ groups' \in Seq(Group) /\ DOMAIN groups' = 1 .. n + 1
      /\ \A g \in 1 .. n : groups'[g] = groups[g]
      /\ groups'[n + 1] = G
  BY <1>1, <1>2
<1>4. Rules' = Rules /\ Group' = Group
  BY <1>1 DEF Rules, Group, EntryType
<1> HIDE DEF n
<1>5. TypeOK'
  <2>1. groups' \in Seq(Group')
    BY <1>3, <1>4
  <2>2. selected' \subseteq DOMAIN groups'
    BY <1>1, <1>2, <1>3
  <2>3. indices' \subseteq Rules' /\ rest' \subseteq Rules' /\ call' \in Call /\ pc' \in {"loop", "done"}
    BY <1>1, <1>2, <1>4
  <2> QED
    BY <2>1, <2>2, <2>3 DEF TypeOK
<1>6. G.indices = current_indices
  OBVIOUS
<1>7. /\ \A g, h \in 1 .. n : g # h => groups[g].indices \cap groups[h].indices = {}
      /\ \A g \in 1 .. n : groups[g].indices \cap indices = {}
      /\ Rules = indices \cup UNION {groups[g].indices : g \in 1 .. n}
  BY <1>3 DEF IInv, Accounted
<1>8. \A g \in 1 .. n + 1 : g \in 1 .. n \/ g = n + 1
  BY <1>3
<1>9. Accounted'
  <2>1. ASSUME NEW g \in 1 .. n + 1, NEW h \in 1 .. n + 1, g # h
        PROVE  groups'[g].indices \cap groups'[h].indices = {}
    BY <1>3, <1>6, <1>7, <1>8, <2>1
  <2>2. ASSUME NEW g \in 1 .. n + 1
        PROVE  groups'[g].indices \cap indices' = {}
    BY <1>1, <1>3, <1>6, <1>7, <1>8
  <2>3. Rules = indices' \cup UNION {groups'[g].indices : g \in 1 .. n + 1}
    <3>1. ASSUME NEW i \in Rules
          PROVE  i \in indices' \/ \E g \in 1 .. n + 1 : i \in groups'[g].indices
      <4>1. i \in indices \/ \E g \in 1 .. n : i \in groups[g].indices
        BY <1>7
      <4>2. n + 1 \in 1 .. n + 1 /\ 1 .. n \subseteq 1 .. n + 1
        BY <1>3
      <4> QED
        BY <1>1, <1>3, <1>6, <4>1, <4>2
    <3>2. \A g \in 1 .. n + 1 : groups'[g].indices \subseteq Rules
      BY <1>2, <1>3, <1>6, <1>7, <1>8
    <3>3. indices' \subseteq Rules
      BY <1>1, <1>2
    <3> QED
      BY <3>1, <3>2, <3>3
  <2>4. pc' # "done"
    BY <1>1
  <2> QED
    BY <1>3, <1>4, <2>1, <2>2, <2>3, <2>4 DEF Accounted
<1>10. AllSound'
  <2> SUFFICES ASSUME call.kind # OI, NEW g \in 1 .. n + 1
               PROVE  Sound(call.rules, groups'[g]) /\ LPMGroup(groups'[g])
    BY <1>1, <1>3 DEF AllSound, LPMGroup
  <2> QED
    BY <1>3, <1>8 DEF IInv, AllSound
<1> QED
  BY <1>5, <1>9, <1>10 DEF IInv

\* The state before the first iteration, for whatever is to be grouped.
Fresh ==
  call \in Call /\ indices = Rules /\ groups = <<>> /\ selected = {} /\ rest = {} /\ pc = "loop"

LEMMA FreshIInv == Fresh => IInv
<1> SUFFICES ASSUME Fresh PROVE IInv
  OBVIOUS
<1>1. groups \in Seq(Group) /\ DOMAIN groups = {}
  BY DEF Fresh
<1>2. TypeOK
  BY <1>1 DEF Fresh, TypeOK
<1>3. Accounted
  BY <1>1 DEF Fresh, Accounted
<1> QED
  BY <1>1, <1>2, <1>3 DEF IInv, AllSound

LEMMA InitIInv ==
  ASSUME Init
  PROVE  IInv
BY FreshIInv, InputsAssumption DEF Init, Fresh

\* The positions of the rules left: each is that of one rule.
LEMMA ListedIs ==
  ASSUME NEW n \in Nat, NEW S, S \subseteq 1 .. n
  PROVE  /\ Cardinality(S) \in 0 .. n
         /\ Listed(S) \in [1 .. Cardinality(S) -> S]
         /\ \A k, m \in 1 .. Cardinality(S) : Listed(S)[k] = Listed(S)[m] => k = m
<1> DEFINE before(i) == {j \in S : j < i}
           c == Cardinality(S)
           T == 0 .. c - 1
           rank == [i \in S |-> Cardinality(before(i))]
<1>0. IsFiniteSet(S) /\ Cardinality(S) \in 0 .. n
  BY SubsetSize
<1> HIDE DEF before, rank
<1>1. IsFiniteSet(S) /\ c \in 0 .. n /\ c \in Nat
  BY <1>0
<1>2. IsFiniteSet(T) /\ Cardinality(T) = c
  <2> HIDE DEF c
  <2> QED
    BY <1>1, FS_Interval
<1> USE DEF before, rank
<1>3. \A i \in S : i \in Nat
  OBVIOUS
<1>4. ASSUME NEW i \in S
      PROVE  IsFiniteSet(before(i)) /\ Cardinality(before(i)) \in T
  <2>1. before(i) \subseteq S /\ i \notin before(i)
    BY <1>3
  <2> HIDE DEF before, c
  <2>2. IsFiniteSet(before(i)) /\ Cardinality(before(i)) <= Cardinality(S)
    BY <1>1, <2>1, FS_Subset
  <2>3. Cardinality(before(i)) # Cardinality(S)
    BY <1>1, <2>1, FS_Subset
  <2>4. Cardinality(before(i)) \in Nat
    BY <2>2, FS_CardinalityType
  <2> QED
    BY <1>1, <2>2, <2>3, <2>4 DEF c
<1>5. ASSUME NEW i \in S, NEW j \in S, i < j
      PROVE  Cardinality(before(i)) # Cardinality(before(j))
  <2>1. ASSUME NEW k \in before(i) PROVE k \in before(j)
    <3>1. k \in Nat /\ i \in Nat /\ j \in Nat /\ k < i /\ k \in S
      BY <1>3
    <3>2. k < j
      BY <1>5, <3>1
    <3> QED
      BY <3>1, <3>2
  <2>2. i \in before(j) /\ i \notin before(i)
    BY <1>3, <1>5
  <2> HIDE DEF before
  <2> QED
    BY <1>4, <2>1, <2>2, FS_Subset
<1>6. ASSUME NEW i \in S, NEW j \in S, rank[i] = rank[j] PROVE i = j
  <2>1. Cardinality(before(i)) = Cardinality(before(j))
    BY <1>6
  <2>2. ~ (i < j) /\ ~ (j < i)
    BY <1>5, <2>1
  <2> QED
    BY <1>3, <2>2
<1> HIDE DEF before
<1>7. rank \in [S -> T]
  BY <1>4
<1>8. rank \in Injection(S, T)
  BY <1>6, <1>7 DEF Injection, IsInjective
<1>9. rank \in Surjection(S, T)
  <2> HIDE DEF rank, T, c
  <2> QED
    BY <1>1, <1>2, <1>8, FS_Injection DEF c
<1> DEFINE at(k) == CHOOSE i \in S : Cardinality(before(i)) = k - 1
<1>10. ASSUME NEW k \in 1 .. c PROVE at(k) \in S /\ Cardinality(before(at(k))) = k - 1
  <2>1. k - 1 \in T
    BY <1>1
  <2>2. \E i \in S : rank[i] = k - 1
    BY <1>9, <2>1 DEF Surjection
  <2>3. \E i \in S : Cardinality(before(i)) = k - 1
    BY <2>2
  <2> QED
    BY <2>3
<1>11. Listed(S) = [k \in 1 .. c |-> at(k)]
  BY DEF Listed, before
<1> HIDE DEF at, c
<1>12. ASSUME NEW k \in 1 .. c, NEW m \in 1 .. c, Listed(S)[k] = Listed(S)[m] PROVE k = m
  <2>1. at(k) = at(m)
    BY <1>11, <1>12
  <2>2. k - 1 = m - 1
    BY <1>10, <2>1
  <2> QED
    BY <2>2
<1> QED
  BY <1>1, <1>10, <1>11, <1>12 DEF c

\* What a call of best_subgroup gives: positions of distinct rules that are
\* left, whichever way they are ordered.
Fits(bits, oi_indices, oi) ==
  /\ bits \in BitLists(Width)
  /\ DOMAIN oi = DOMAIN oi_indices
  /\ \A k \in DOMAIN oi : /\ oi_indices[k] \in 1 .. Cardinality(indices)
                          /\ oi[k] = Listed(indices)[oi_indices[k]]
                          /\ oi[k] \in indices /\ oi[k] \in Rules
  /\ \A k, m \in DOMAIN oi : oi[k] = oi[m] => k = m
  /\ Cardinality(indices) \in 0 .. Len(call.rules)
  /\ Independent({oi[k] : k \in DOMAIN oi}, bits)

LEMMA SubgroupFits ==
  ASSUME TypeOK, NEW s \in Subgroups
  PROVE  Fits(s.bits, s.oi_indices, Subset(Listed(indices), s.oi_indices))
<1> DEFINE c == Cardinality(indices)
           oi == Subset(Listed(indices), s.oi_indices)
           q == s.oi_indices
<1>1. s.bits \in BitLists(call.max_width) /\ call.max_width \in Nat
  BY DEF Subgroups, TypeOK, Call
<1>2. s.bits \in BitLists(Width)
  BY <1>1, BitListsFit
<1>3. Len(call.rules) \in Nat /\ Rules = 1 .. Len(call.rules) /\ indices \subseteq Rules
  BY RulesFinite DEF TypeOK
<1>4. /\ c \in 0 .. Len(call.rules)
      /\ Listed(indices) \in [1 .. c -> indices]
      /\ \A k, m \in 1 .. c : Listed(indices)[k] = Listed(indices)[m] => k = m
  BY <1>3, ListedIs
<1>5. q \in Picks(DOMAIN Listed(indices), c)
  BY DEF Subgroups
<1>10. Independent({oi[k] : k \in DOMAIN oi}, s.bits)
  BY DEF Subgroups
<1> HIDE DEF c, q, oi
<1>6. /\ \A k \in DOMAIN q : q[k] \in 1 .. c
      /\ \A k, m \in DOMAIN q : q[k] = q[m] => k = m
  BY <1>4, <1>5 DEF Picks
<1>7. DOMAIN oi = DOMAIN q /\ \A k \in DOMAIN q : oi[k] = Listed(indices)[q[k]]
  BY DEF Subset, oi, q
<1>8. \A k \in DOMAIN oi : oi[k] \in indices
  BY <1>4, <1>6, <1>7
<1>9. \A k, m \in DOMAIN oi : oi[k] = oi[m] => k = m
  BY <1>4, <1>6, <1>7
<1>11. Fits(s.bits, q, oi)
  BY <1>2, <1>3, <1>4, <1>6, <1>7, <1>8, <1>9, <1>10 DEF Fits, c
<1> QED
  BY <1>11 DEF q, oi

\* What is taken away are the rules the group is made of.
LEMMA TakenAway ==
  ASSUME NEW bits, NEW oi_indices, NEW oi, Fits(bits, oi_indices, oi),
         NEW P \in SUBSET DOMAIN oi
  PROVE  /\ CurrentIndices(oi_indices, P) = {oi[k] : k \in P}
         /\ {oi[k] : k \in P} \subseteq indices
         /\ {oi[k] : k \in P} \in SUBSET Rules
         /\ {oi[k] : k \in P} \in SUBSET {oi[k] : k \in DOMAIN oi}
<1>1. \A k \in P : /\ oi[k] = Listed(indices)[oi_indices[k]]
                   /\ oi[k] \in indices /\ oi[k] \in Rules
  BY DEF Fits
<1>2. CurrentIndices(oi_indices, P) = {oi[k] : k \in P}
  BY <1>1 DEF CurrentIndices
<1> QED
  BY <1>1, <1>2

LEMMA PeelOIKeeps ==
  ASSUME IInv, PeelOI
  PROVE  IInv'
<1>1. PICK s \in Subgroups :
        LET oi_indices == {s.oi_indices[k] : k \in DOMAIN s.oi_indices}
        IN  AddGroup(s.bits, {Entry(k, s.bits) : k \in oi_indices},
                     {Listed(indices)[k] : k \in oi_indices})
  BY DEF PeelOI
<1> DEFINE T == {s.oi_indices[k] : k \in DOMAIN s.oi_indices}
           E == {Entry(k, s.bits) : k \in T}
           S == {Listed(indices)[k] : k \in T}
           oi == Subset(Listed(indices), s.oi_indices)
           G == [bits |-> s.bits, entries |-> E, indices |-> S]
<1>2. TypeOK /\ pc = "loop" /\ call.kind = OI
  BY DEF IInv, PeelOI
<1> HIDE DEF T, E, S
<1>0. Fits(s.bits, s.oi_indices, oi)
  BY <1>2, SubgroupFits
<1> HIDE DEF oi
<1>3. /\ s.bits \in BitLists(Width)
      /\ DOMAIN oi = DOMAIN s.oi_indices
      /\ \A k \in DOMAIN oi : /\ s.oi_indices[k] \in 1 .. Cardinality(indices)
                              /\ oi[k] = Listed(indices)[s.oi_indices[k]]
                              /\ oi[k] \in indices
      /\ Cardinality(indices) \in 0 .. Len(call.rules)
  BY <1>0 DEF Fits
<1>4. T \subseteq 1 .. Cardinality(indices) /\ S \subseteq indices
  BY <1>3 DEF T, S
<1>5. Len(call.rules) \in Nat /\ Rules = 1 .. Len(call.rules) /\ indices \subseteq Rules
  BY <1>2, RulesFinite DEF TypeOK
<1>6. T \subseteq Rules
  BY <1>3, <1>4, <1>5
<1>7. E \subseteq EntryType
  BY <1>2, <1>3, <1>6, EntryIsTyped DEF E
<1>8. AddGroup(s.bits, E, S)
  BY <1>1 DEF T, E, S
<1>9. G \in Group
  BY <1>3, <1>4, <1>5, <1>7 DEF Group
<1> QED
  BY <1>2, <1>4, <1>8, <1>9, AddGroupKeeps

LEMMA PeelLPMKeeps ==
  ASSUME IInv, PeelLPM
  PROVE  IInv'
<1>1. PICK s \in Subgroups :
        LET oi == Subset(Listed(indices), s.oi_indices)
        IN  \E P \in LongestChains(oi, s.bits) :
              LET chain == {SupportOf(oi[k], s.bits) : k \in P}
                  bits  == Reordered(s.bits, Chain2Bits(chain, Len(s.bits)))
              IN  AddGroup(bits, {Entry(oi[k], bits) : k \in P},
                           CurrentIndices(s.oi_indices, P))
  BY DEF PeelLPM
<1> DEFINE oi == Subset(Listed(indices), s.oi_indices)
<1>2. PICK P \in LongestChains(oi, s.bits) :
        LET chain == {SupportOf(oi[k], s.bits) : k \in P}
            bits  == Reordered(s.bits, Chain2Bits(chain, Len(s.bits)))
        IN  AddGroup(bits, {Entry(oi[k], bits) : k \in P}, CurrentIndices(s.oi_indices, P))
  BY <1>1
<1>3. TypeOK /\ pc = "loop"
  BY DEF IInv, PeelLPM
<1> DEFINE all == {oi[k] : k \in DOMAIN oi}
<1>0. Fits(s.bits, s.oi_indices, oi)
  BY <1>3, SubgroupFits
<1> HIDE DEF oi
<1>4. s.bits \in BitLists(Width) /\ Independent(all, s.bits)
  BY <1>0 DEF Fits
<1>5. P \in SUBSET DOMAIN oi /\ IsChain({SupportOf(oi[k], s.bits) : k \in P})
  BY DEF LongestChains
<1> DEFINE T == {oi[k] : k \in P}
           chain == {SupportOf(i, s.bits) : i \in T}
           new   == Reordered(s.bits, Chain2Bits(chain, Len(s.bits)))
           G     == [bits |-> new, entries |-> {Entry(i, new) : i \in T}, indices |-> T]
<1>6. /\ CurrentIndices(s.oi_indices, P) = T
      /\ T \subseteq indices /\ T \in SUBSET Rules /\ T \in SUBSET all
  BY <1>0, <1>5, TakenAway
<1>7. chain = {SupportOf(oi[k], s.bits) : k \in P}
  OBVIOUS
<1>8. {Entry(i, new) : i \in T} = {Entry(oi[k], new) : k \in P}
  <2> HIDE DEF new
  <2> QED
    OBVIOUS
<1>9. AddGroup(new, {Entry(i, new) : i \in T}, T)
  BY <1>2, <1>6, <1>7, <1>8 DEF oi
<1> HIDE DEF T, all
<1>10. G \in Group /\ Sound(call.rules, G) /\ LPMGroup(G)
  <2>1. IsFiniteSet(chain)
    BY <1>3, <1>6, ChainFinite
  <2>2. IsChain(chain)
    BY <1>5, <1>7
  <2>3. new = Reordered(s.bits, Chain2Bits(chain, Len(s.bits)))
    OBVIOUS
  <2>4. chain = {SupportOf(i, s.bits) : i \in T}
    OBVIOUS
  <2> HIDE DEF chain, new
  <2>5. new \in BitLists(Width) /\ Independent(T, new)
    BY <1>3, <1>4, <1>6, <2>1, <2>3, ReorderedIndependent
  <2>6. G \in Group /\ Sound(call.rules, G)
    BY <1>3, <1>6, <2>5, PlainGroupSound
  <2>7. \A i \in T : IsPrefix(Entry(i, new).filter)
    BY <1>3, <1>4, <1>6, <2>1, <2>2, <2>3, <2>4, ChainOrdersEntries
  <2>8. InOrder(G)
    BY <2>7 DEF InOrder
  <2>9. Chained(G)
    BY <2>6, <2>8, PrefixesAreChained DEF Sound
  <2> QED
    BY <2>6, <2>8, <2>9 DEF LPMGroup
<1> HIDE DEF new
<1> QED
  BY <1>3, <1>6, <1>9, <1>10, AddGroupKeeps

LEMMA PeelExpandedKeeps ==
  ASSUME IInv, PeelExpanded
  PROVE  IInv'
<1>1. PICK s \in Subgroups :
        LET oi == Subset(Listed(indices), s.oi_indices)
        IN  \E exp \in Expansions(oi, s.bits) :
              AddGroup(s.bits,
                       UNION { {[rule |-> oi[k], filter |-> f] :
                                  f \in Expand(Reordered(call.rules[oi[k]], s.bits), exp[k])}
                               : k \in DOMAIN exp },
                       CurrentIndices(s.oi_indices, DOMAIN exp))
  BY DEF PeelExpanded
<1> DEFINE oi == Subset(Listed(indices), s.oi_indices)
<1>2. PICK exp \in Expansions(oi, s.bits) :
        AddGroup(s.bits,
                 UNION { {[rule |-> oi[k], filter |-> f] :
                            f \in Expand(Reordered(call.rules[oi[k]], s.bits), exp[k])}
                         : k \in DOMAIN exp },
                 CurrentIndices(s.oi_indices, DOMAIN exp))
  BY <1>1
<1>3. TypeOK /\ pc = "loop"
  BY DEF IInv, PeelExpanded
<1> DEFINE all == {oi[k] : k \in DOMAIN oi}
<1>0. Fits(s.bits, s.oi_indices, oi)
  BY <1>3, SubgroupFits
<1> HIDE DEF oi
<1>4. /\ s.bits \in BitLists(Width) /\ Independent(all, s.bits)
      /\ \A k, m \in DOMAIN oi : oi[k] = oi[m] => k = m
      /\ \A k \in DOMAIN oi : oi[k] \in Rules
  BY <1>0 DEF Fits
<1>5. /\ DOMAIN exp \in SUBSET DOMAIN oi
      /\ \A k \in DOMAIN exp : exp[k] \in SUBSET DOMAIN s.bits
      /\ IsChain({exp[k] : k \in DOMAIN exp})
      /\ \A k \in DOMAIN exp : SupportOf(oi[k], s.bits) \subseteq exp[k]
  <2>1. exp \in UNION {[P -> SUBSET DOMAIN s.bits] : P \in (SUBSET DOMAIN oi) \ {{}}}
    BY DEF Expansions
  <2>2. PICK P \in (SUBSET DOMAIN oi) \ {{}} : exp \in [P -> SUBSET DOMAIN s.bits]
    BY <2>1
  <2>3. IsChain({exp[k] : k \in DOMAIN exp})
    BY DEF Expansions
  <2>4. \A k \in DOMAIN exp : SupportOf(oi[k], s.bits) \subseteq exp[k]
    BY DEF Expansions
  <2> QED
    BY <2>2, <2>3, <2>4
<1> DEFINE T == {oi[k] : k \in DOMAIN exp}
           place(i) == CHOOSE k \in DOMAIN exp : oi[k] = i
           wide == [i \in T |-> exp[place(i)]]
           R(i) == Reordered(call.rules[i], s.bits)
           E == UNION { {[rule |-> i, filter |-> f] : f \in Expand(R(i), wide[i])}
                        : i \in DOMAIN wide }
           G == [bits |-> s.bits, entries |-> E, indices |-> DOMAIN wide]
<1>6. /\ CurrentIndices(s.oi_indices, DOMAIN exp) = T
      /\ T \subseteq indices /\ T \in SUBSET Rules /\ T \in SUBSET all
  BY <1>0, <1>5, TakenAway
<1>7. all \in SUBSET Rules
  BY <1>4
\* The rules of the group and their expansions, by rule instead of position.
<1>8. ASSUME NEW k \in DOMAIN exp PROVE oi[k] \in T /\ wide[oi[k]] = exp[k]
  <2>1. oi[k] \in T
    OBVIOUS
  <2>2. place(oi[k]) \in DOMAIN exp /\ oi[place(oi[k])] = oi[k]
    OBVIOUS
  <2>3. place(oi[k]) = k
    BY <1>4, <1>5, <2>2
  <2> QED
    BY <2>1, <2>3
<1>9. \A i \in T : \E k \in DOMAIN exp : i = oi[k]
  OBVIOUS
<1>10. DOMAIN wide = T
  OBVIOUS
<1> HIDE DEF T, place, wide, R
<1>11. E = UNION { {[rule |-> oi[k], filter |-> f] : f \in Expand(R(oi[k]), exp[k])}
                   : k \in DOMAIN exp }
  BY <1>8, <1>9, <1>10
<1>12. AddGroup(s.bits, E, DOMAIN wide)
  BY <1>2, <1>6, <1>10, <1>11 DEF R, oi
<1>13. G \in Group /\ Sound(call.rules, G)
  <2>1. DOMAIN wide \subseteq all
    BY <1>6, <1>10
  <2> HIDE DEF all
  <2> QED
    BY <1>3, <1>4, <1>7, <2>1, ExpandedGroupSound DEF R
<1>14. LPMGroup(G)
  <2>1. call.kind # OI_LPM
    BY DEF PeelExpanded, OI_LPM, OI_LPM_EXP
  <2>2. /\ {wide[i] : i \in DOMAIN wide} = {exp[k] : k \in DOMAIN exp}
        /\ \A i \in DOMAIN wide : /\ wide[i] \subseteq DOMAIN s.bits
                                  /\ SupportOf(i, s.bits) \subseteq wide[i]
    BY <1>5, <1>8, <1>9, <1>10
  <2>3. IsChain({wide[i] : i \in DOMAIN wide})
    BY <1>5, <2>2
  <2>4. G.entries = E /\ G.bits = s.bits
    OBVIOUS
  <2>5. Chained(G)
    BY <2>2, <2>3, <2>4, ExpandedGroupChained DEF R
  <2> QED
    BY <2>1, <2>5 DEF LPMGroup
<1>15. DOMAIN wide \subseteq indices
  BY <1>6, <1>10
<1> HIDE DEF E
<1> QED
  BY <1>3, <1>12, <1>13, <1>14, <1>15, AddGroupKeeps

LEMMA FinishKeeps ==
  ASSUME IInv, Finish
  PROVE  IInv'
<1>1. /\ selected' \subseteq DOMAIN groups
      /\ rest' = Rules \ UNION {groups[g].indices : g \in selected'}
      /\ pc' = "done" /\ UNCHANGED <<call, indices, groups>>
  BY DEF Finish
<1>2. Rules' = Rules /\ Group' = Group
  BY <1>1 DEF Rules, Group, EntryType
<1>3. TypeOK'
  BY <1>1, <1>2 DEF IInv, TypeOK
<1>4. Rules = indices \cup UNION {groups[g].indices : g \in DOMAIN groups}
  BY DEF IInv, Accounted
<1>5. UNION {groups[g].indices : g \in selected'} \subseteq Rules
  BY <1>1, <1>4
<1>6. /\ Rules = rest' \cup UNION {groups[g].indices : g \in selected'}
      /\ \A g \in selected' : groups[g].indices \cap rest' = {}
  BY <1>1, <1>5
<1>7. Accounted'
  BY <1>1, <1>2, <1>6 DEF IInv, Accounted
<1>8. AllSound'
  BY <1>1 DEF IInv, AllSound, LPMGroup
<1> QED
  BY <1>1, <1>3, <1>7, <1>8 DEF IInv

LEMMA NextKeepsIInv ==
  ASSUME IInv, [Next]_vars
  PROVE  IInv'
<1>1. CASE UNCHANGED vars
  <2>1. UNCHANGED <<call, indices, groups, selected, rest, pc>>
    BY <1>1 DEF vars
  <2>2. Rules' = Rules /\ Group' = Group
    BY <2>1 DEF Rules, Group, EntryType
  <2>3. TypeOK'
    BY <2>1, <2>2 DEF IInv, TypeOK
  <2>4. Accounted'
    BY <2>1, <2>2 DEF IInv, Accounted
  <2>5. AllSound'
    BY <2>1 DEF IInv, AllSound, LPMGroup
  <2> QED
    BY <2>1, <2>3, <2>4, <2>5 DEF IInv
<1>2. CASE Return
  BY <1>1, <1>2 DEF Return
<1> QED
  BY <1>1, <1>2, PeelOIKeeps, PeelLPMKeeps, PeelExpandedKeeps, FinishKeeps DEF Next, Step

\* No state of a call breaks the inductive invariant.
THEOREM Invariance == Spec => []IInv
<1>1. Init => IInv
  BY InitIInv
<1>2. IInv /\ [Next]_vars => IInv'
  BY NextKeepsIInv
<1> QED
  BY <1>1, <1>2, PTL DEF Spec

\* Rules, groups and bits stay what they are.
THEOREM TypeCorrect == Spec => []TypeOK
<1>1. IInv => TypeOK
  BY DEF IInv
<1> QED
  BY <1>1, Invariance, PTL

\* No rule is taken by two groups or lost by the bookkeeping of indices,
\* whatever best_subgroup and min_bmgr choose.
THEOREM RulesAccounted == Spec => []Accounted
<1>1. IInv => Accounted
  BY DEF IInv
<1> QED
  BY <1>1, Invariance, PTL

-----------------------------------------------------------------------------
(* The result.                                                             *)

\* minimize_oi_lpm leaves every rule in one of the classifiers it returns.
THEOREM NoRuleLost == Spec => []LPMRulesKept
<1>1. ASSUME IInv PROVE LPMRulesKept
  <2> SUFFICES ASSUME pc = "done", call.kind # OI
               PROVE  Rules = rest \cup {e.rule : e \in UNION {groups[g].entries : g \in selected}}
    BY DEF LPMRulesKept, EveryRuleKept
  <2>1. Rules = rest \cup UNION {groups[g].indices : g \in selected}
    BY <1>1 DEF IInv, Accounted
  <2>2. \A g \in selected : {e.rule : e \in groups[g].entries} = groups[g].indices
    BY <1>1 DEF IInv, AllSound, TypeOK, Sound, SameRules
  <2> QED
    BY <2>1, <2>2
<1> QED
  BY <1>1, Invariance, PTL

\* The groups of minimize_oi_lpm are order independent, the expanded ones
\* included.
THEOREM GroupsAreOI == Spec => []GroupsOI
<1>1. ASSUME IInv PROVE GroupsOI
  BY <1>1 DEF IInv, AllSound, Sound, Disjoint, GroupsOI
<1> QED
  BY <1>1, Invariance, PTL

\* The bits of a group put its entries in prefix order, or can be reordered
\* to do so when the entries were expanded.
THEOREM GroupsArePrefixes == Spec => []GroupsLPM
<1>1. ASSUME IInv PROVE GroupsLPM
  <2> SUFFICES ASSUME call.kind # OI, NEW g \in DOMAIN groups,
                      NEW e \in groups[g].entries
               PROVE  /\ IsPrefix(Reordered(e.filter,
                            Chain2Bits({Exact(d.filter) : d \in groups[g].entries},
                                       Len(groups[g].bits))))
                      /\ call.kind = OI_LPM => IsPrefix(e.filter)
    BY DEF GroupsLPM
  <2> DEFINE G == groups[g]
             chain == {Exact(d.filter) : d \in G.entries}
             n == Len(G.bits)
  <2>1. G \in Group /\ SameWidth(G) /\ LPMGroup(G)
    BY <1>1 DEF IInv, TypeOK, AllSound, Sound
  <2>2. n \in Nat /\ DOMAIN G.bits = 1 .. n
    BY <2>1, BitListsFit, WidthAssumption DEF Group
  <2>3. \A d \in G.entries : DOMAIN d.filter = 1 .. n
    BY <2>1, <2>2 DEF SameWidth
  <2>4. IsChain(chain)
    BY <2>1 DEF LPMGroup, Chained
  <2>5. IsFiniteSet(chain)
    <3>1. IsFiniteSet(SUBSET (1 .. n))
      BY <2>2, IntervalSize, FS_SUBSET
    <3>2. chain \subseteq SUBSET (1 .. n)
      BY <2>3 DEF Exact
    <3> HIDE DEF chain
    <3> QED
      BY <3>1, <3>2, FS_Subset
  <2>6. Exact(e.filter) \in chain
    OBVIOUS
  <2>7. call.kind = OI_LPM => IsPrefix(e.filter)
    BY <2>1 DEF LPMGroup, InOrder
  <2> HIDE DEF chain, n
  <2>8. IsPrefix(Reordered(e.filter, Chain2Bits(chain, n)))
    BY <2>2, <2>3, <2>4, <2>5, <2>6, ChainMakesPrefixes
  <2> QED
    BY <2>7, <2>8 DEF chain, n
<1> QED
  BY <1>1, Invariance, PTL

\* What a lookup yields in a sound group: the rules taken away that match.
LEMMA YieldIsExact ==
  ASSUME IInv, call.kind # OI, NEW g \in DOMAIN groups, NEW h \in Header
  PROVE  Yield(h, g) = {i \in groups[g].indices : Matches(h, call.rules[i])}
<1> DEFINE G == groups[g]
           candidates == {e \in G.entries : Covers(e.filter, h, G.bits)}
<1>1. TypeOK /\ Sound(call.rules, G) /\ G \in Group
  BY DEF IInv, AllSound, TypeOK
<1>2. /\ G.bits \in BitLists(Width) /\ G.entries \subseteq EntryType /\ G.indices \subseteq Rules
  BY <1>1 DEF Group
<1>3. /\ DOMAIN G.bits = 1 .. Len(G.bits)
      /\ Len(G.bits) = Width => {G.bits[k] : k \in DOMAIN G.bits} = Bits
  BY <1>2, BitListsFit, WidthAssumption
<1>4. \A e \in G.entries : e.rule \in G.indices /\ e.rule \in Int
  BY <1>1, <1>2, RulesFinite DEF Sound, SameRules
<1>5. Yield(h, g) = {e.rule : e \in {c \in candidates : /\ \A d \in candidates : c.rule <= d.rule
                                                       /\ Verified(h, g, c)}}
  BY DEF Yield
<1>6. ASSUME NEW c \in candidates, Verified(h, g, c) PROVE Matches(h, call.rules[c.rule])
  <2>1. CASE Len(G.bits) = Width
    <3> SUFFICES ASSUME NEW b \in Bits, call.rules[c.rule][b] # ANY
                 PROVE  h[b] = call.rules[c.rule][b]
      BY DEF Matches, Support
    <3>1. PICK k \in DOMAIN G.bits : G.bits[k] = b
      BY <1>3, <2>1
    <3>2. c.filter[k] = call.rules[c.rule][b]
      BY <1>1, <3>1 DEF Sound, Sharper
    <3>3. c.filter[k] \in {ANY, h[b]}
      BY <1>1, <3>1 DEF Sound, SameWidth, Covers
    <3> QED
      BY <3>2, <3>3
  <2> QED
    BY <1>6, <2>1 DEF Verified
<1>7. ASSUME NEW c \in candidates, NEW d \in candidates PROVE c = d
  <2> SUFFICES ASSUME c # d PROVE FALSE
    OBVIOUS
  <2>1. PICK k \in DOMAIN c.filter : ANY \notin {c.filter[k], d.filter[k]} /\ c.filter[k] # d.filter[k]
    BY <1>1 DEF Sound, Disjoint, DisjointFilters
  <2>2. k \in DOMAIN d.filter
    BY <1>1 DEF Sound, SameWidth
  <2> QED
    BY <2>1, <2>2 DEF Covers
<1>8. ASSUME NEW i \in G.indices, Matches(h, call.rules[i])
      PROVE  \E e \in candidates : e.rule = i /\ Verified(h, g, e)
  <2>1. PICK e \in G.entries : e.rule = i /\ Covers(e.filter, h, G.bits)
    BY <1>1, <1>8 DEF Sound, Complete
  <2> QED
    BY <1>8, <2>1 DEF Verified
<1> HIDE DEF G
<1>9. ASSUME NEW i \in Yield(h, g) PROVE i \in G.indices /\ Matches(h, call.rules[i])
  BY <1>4, <1>5, <1>6
<1>10. ASSUME NEW i \in G.indices, Matches(h, call.rules[i]) PROVE i \in Yield(h, g)
  <2>1. PICK e \in candidates : e.rule = i /\ Verified(h, g, e)
    BY <1>8, <1>10
  <2>2. \A d \in candidates : e.rule <= d.rule
    BY <1>4, <1>7
  <2> QED
    BY <1>5, <2>1, <2>2
<1> QED
  BY <1>9, <1>10 DEF G

\* The classifiers minimize_oi_lpm returns decide every header as the one it
\* was given.
THEOREM DecisionsKept == Spec => []Equivalent
<1>1. ASSUME IInv PROVE Equivalent
  <2> SUFFICES ASSUME pc = "done", call.kind # OI, NEW h \in Header
               PROVE  {i \in Rules : Matches(h, call.rules[i])}
                        = {i \in rest : Matches(h, call.rules[i])}
                            \cup UNION {Yield(h, g) : g \in selected}
    BY DEF Equivalent
  <2>1. /\ Rules = rest \cup UNION {groups[g].indices : g \in selected}
        /\ selected \subseteq DOMAIN groups /\ call.kind # OI
    BY <1>1 DEF IInv, Accounted, TypeOK
  <2>2. \A g \in selected :
          Yield(h, g) = {i \in groups[g].indices : Matches(h, call.rules[i])}
    BY <1>1, <2>1, YieldIsExact
  <2> QED
    BY <2>1, <2>2
<1> QED
  BY <1>1, Invariance, PTL
=============================================================================
