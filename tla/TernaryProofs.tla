---------------------------- MODULE TernaryProofs ----------------------------
(***************************************************************************)
(* Facts about the operators the components share, cited by the proofs of  *)
(* the algorithms: the extreme elements of sets of positions, ternary      *)
(* filters, and the passes over lists of rules; and that filters may be    *)
(* taken for functions of bits although they are stored in chunks.         *)
(***************************************************************************)
EXTENDS PackedFilter, RuleLists, Groups, FiniteSetTheorems, FunctionTheorems,
        WellFoundedInduction, TLAPS

\* Every non-empty set of naturals has a least element, and First names it.
\* The scans of the code ("the first rule that ...") are stated with First.
LEMMA FirstIsLeast ==
  ASSUME NEW S, S \subseteq Nat, S # {}
  PROVE  First(S) \in S /\ \A y \in S : First(S) <= y
<1>1. PICK x \in S : \A y \in S : <<y, x>> \notin OpToRel(<, Nat)
  BY WFMin, NatLessThanWellFounded
<1>2. \A y \in S : ~ (y < x)
  BY <1>1, Zenon DEF OpToRel
<1>3. \A y \in S : x <= y
  BY <1>2
<1> QED
  BY <1>3 DEF First

\* The least element is unique, so exhibiting it determines First.
LEMMA FirstUnique ==
  ASSUME NEW S, S \subseteq Nat, NEW x \in S, \A y \in S : x <= y
  PROVE  First(S) = x
<1>1. First(S) \in S /\ First(S) <= x
  BY FirstIsLeast
<1>2. First(S) \in Nat /\ x \in Nat /\ x <= First(S)
  BY <1>1
<1> QED
  BY <1>1, <1>2

\* A non-empty set of positions of a list has a last element.
LEMMA LastExists ==
  ASSUME NEW n \in Nat, NEW S, S \subseteq 1 .. n, S # {}
  PROVE  \E z \in S : \A y \in S : y <= z
<1> DEFINE T == {n - y : y \in S}
<1>1. T \subseteq Nat /\ T # {}
  <2>1. ASSUME NEW y \in S PROVE n - y \in Nat
    <3>1. y \in 1 .. n
      OBVIOUS
    <3> QED
      BY <3>1
  <2> QED
    BY <2>1
<1>2. First(T) \in T /\ \A y \in T : First(T) <= y
  BY <1>1, FirstIsLeast
<1>3. PICK z \in S : First(T) = n - z
  BY <1>2
<1>4. ASSUME NEW y \in S PROVE y <= z
  <2>1. n - y \in T
    OBVIOUS
  <2>2. n - z <= n - y
    BY <2>1, <1>2, <1>3
  <2>3. y \in 1 .. n /\ z \in 1 .. n
    OBVIOUS
  <2> QED
    BY <2>2, <2>3
<1> QED
  BY <1>4

-----------------------------------------------------------------------------
(* Filters and the headers they match.                                     *)

\* A more general filter matches every header the covered filter matches
\* (what Filter::subsums is used for).
LEMMA SubsumsCovers ==
  ASSUME NEW f \in Filter, NEW g \in Filter, Subsums(f, g),
         NEW h \in Header, Matches(h, g)
  PROVE  Matches(h, f)
BY DEF Filter, Header, Matches, Subsums, Support, Bits

\* Two filters that match one header agree on the bits both care about, so
\* Filter::intersect reports them.
LEMMA CommonHeaderIntersect ==
  ASSUME NEW f \in Filter, NEW g \in Filter, NEW mask \in SUBSET Bits,
         NEW h \in Header, Matches(h, f), Matches(h, g)
  PROVE  Intersect(f, g, mask)
BY DEF Filter, Header, Matches, Intersect, Differences, Support, Bits

-----------------------------------------------------------------------------
(* The passes over a list of rules.                                        *)
(*                                                                         *)
(* Both passes remove all their rules at once, so a rule may be removed    *)
(* because of another one that is removed in the same pass.  The proofs    *)
(* look at one header h.  Forward: the first rule that matches h is never  *)
(* removed.  Backward: let k be the first rule that matches h and x the    *)
(* first matching rule with another action; the last matching rule before  *)
(* x is never removed, and it has k's action.                              *)

\* Positions are natural numbers and the rules at them are rules.
LEMMA Positions ==
  ASSUME NEW list \in Seq(Rule)
  PROVE  /\ Len(list) \in Nat
         /\ DOMAIN list = 1 .. Len(list)
         /\ DOMAIN list \subseteq Nat
         /\ IsFiniteSet(DOMAIN list)
         /\ \A k \in DOMAIN list : list[k].filter \in Filter /\ list[k].action \in Actions
<1>1. Len(list) \in Nat /\ DOMAIN list = 1 .. Len(list)
  OBVIOUS
<1>2. IsFiniteSet(DOMAIN list)
  BY <1>1, FS_Interval
<1>3. \A k \in DOMAIN list : list[k] \in Rule
  OBVIOUS
<1>4. \A k \in DOMAIN list : list[k].filter \in Filter /\ list[k].action \in Actions
  BY <1>3 DEF Rule
<1> QED
  BY <1>1, <1>2, <1>4

-----------------------------------------------------------------------------
\* Forward subsumption changes no decision: a rule that an earlier one
\* covers is never the first to match.
LEMMA ForwardSound ==
  ASSUME NEW list \in Seq(Rule), NEW S \in SUBSET DOMAIN list, NEW h \in Header
  PROVE  Decide(list, ForwardPass(list, S), h) = Decide(list, S, h)
<1> DEFINE F == ForwardPass(list, S)
           M == Matching(list, S, h)
           N == Matching(list, F, h)
<1>1. F \subseteq S /\ N \subseteq M /\ M \subseteq S /\ M \subseteq Nat
  BY Positions DEF ForwardPass, Matching
<1>2. CASE M = {}
  BY <1>1, <1>2 DEF Decide
<1>3. CASE M # {}
  <2> DEFINE k == First(M)
  <2>1. k \in M /\ \A o \in M : k <= o
    BY <1>1, <1>3, FirstIsLeast
  <2>2. ~ ForwardSubsumed(list, k, S)
    <3>1. SUFFICES ASSUME NEW m \in Masks(list, S), m \subseteq Support(list[k].filter),
                          NEW o \in Hits(list, k, m, S, FALSE)
                   PROVE  FALSE
      BY DEF ForwardSubsumed
    <3>2. o \in S /\ Support(list[o].filter) = m /\ o < k
          /\ \A b \in m \cap Support(list[k].filter) : list[o].filter[b] = list[k].filter[b]
      BY <3>1 DEF Hits, Agree
    <3>3. Subsums(list[o].filter, list[k].filter)
      BY <3>1, <3>2 DEF Subsums
    <3>4. k \in S /\ Matches(h, list[k].filter)
      BY <2>1 DEF Matching
    <3>5. Matches(h, list[o].filter)
      BY <3>2, <3>3, <3>4, Positions, SubsumsCovers
    <3>6. o \in M
      BY <3>2, <3>5 DEF Matching
    <3>7. o \in Nat /\ k \in Nat /\ k <= o
      BY <1>1, <2>1, <3>6
    <3> QED
      BY <3>2, <3>7
  <2>3. k \in N
    BY <2>1, <2>2 DEF ForwardPass, Matching
  <2>4. First(N) = k
    BY <1>1, <2>1, <2>3, FirstUnique
  <2> QED
    BY <1>3, <2>3, <2>4 DEF Decide
<1> QED
  BY <1>2, <1>3

-----------------------------------------------------------------------------
\* The subsumer a class offers is a later rule of the same action that
\* matches every header the rule matches.
LEMMA SubsumerCovers ==
  ASSUME NEW list \in Seq(Rule), NEW S \in SUBSET DOMAIN list, NEW h \in Header,
         NEW k \in Matching(list, S, h), NEW s \in Subsumers(list, k, S)
  PROVE  s \in Matching(list, S, h) /\ k < s /\ list[s].action = list[k].action
<1>1. PICK m \in Masks(list, S) : OffersSubsumer(list, k, m, S)
                            /\ s = First(Hits(list, k, m, S, TRUE))
  BY DEF Subsumers
<1> DEFINE H == Hits(list, k, m, S, TRUE)
<1>2. H # {} /\ m \subseteq Support(list[k].filter) /\ list[s].action = list[k].action
  BY <1>1 DEF OffersSubsumer
<1>3. H \subseteq Nat
  BY Positions DEF Hits, Agree
<1>4. s \in H
  BY <1>1, <1>2, <1>3, FirstIsLeast
<1>5. s \in S /\ Support(list[s].filter) = m /\ s > k
      /\ \A b \in m \cap Support(list[k].filter) : list[s].filter[b] = list[k].filter[b]
  BY <1>4 DEF Hits, Agree
<1>6. k \in S /\ Matches(h, list[k].filter) /\ k \in Nat /\ s \in Nat
  BY <1>3, <1>4, Positions DEF Matching
<1>7. Subsums(list[s].filter, list[k].filter)
  BY <1>2, <1>5 DEF Subsums
<1>8. Matches(h, list[s].filter)
  BY <1>5, <1>6, <1>7, Positions, SubsumsCovers
<1> QED
  BY <1>2, <1>5, <1>6, <1>8 DEF Matching

\* A later rule of another action that shares a header with k is either
\* recorded as a conflict or preceded by a subsumer of its own class.
LEMMA ConflictFound ==
  ASSUME NEW list \in Seq(Rule), NEW S \in SUBSET DOMAIN list, NEW h \in Header,
         NEW k \in Matching(list, S, h), NEW o \in Matching(list, S, h),
         k < o, list[o].action # list[k].action, o \notin Conflicts(list, k, S)
  PROVE  \E s \in Subsumers(list, k, S) : s < o
<1> DEFINE m == Support(list[o].filter)
           H == Hits(list, k, m, S, TRUE)
<1>1. m \in Masks(list, S) /\ o \in S /\ k \in S
  BY DEF Masks, Matching
<1>2. \A b \in m \cap Support(list[k].filter) : list[o].filter[b] = list[k].filter[b]
  BY DEF Matching, Matches
<1>3. o \in Nat /\ k \in Nat /\ o > k
  BY <1>1, Positions
<1>4. o \in H
  BY <1>1, <1>2, <1>3 DEF Hits, Agree
<1>5. H \subseteq Nat
  BY Positions DEF Hits, Agree
<1> HIDE DEF m
<1>6. OffersSubsumer(list, k, m, S)
  <2>1. SUFFICES ASSUME ~ OffersSubsumer(list, k, m, S) PROVE FALSE
    OBVIOUS
  <2>2. m \in {n \in Masks(list, S) : ~ OffersSubsumer(list, k, n, S)}
    BY <1>1, <2>1
  <2>3. o \in {p \in H : list[p].action # list[k].action}
    BY <1>4
  <2> QED
    BY <2>2, <2>3, Zenon DEF Conflicts
<1>7. First(H) \in Subsumers(list, k, S)
  BY <1>1, <1>6 DEF Subsumers
<1>8. First(H) <= o /\ First(H) \in Nat
  BY <1>4, <1>5, FirstIsLeast
<1>9. First(H) # o
  BY <1>6 DEF OffersSubsumer
<1>10. First(H) < o
  <2> HIDE DEF H
  <2> QED
    BY <1>3, <1>8, <1>9
<1> QED
  BY <1>7, <1>10, Zenon

\* Whatever removes k, a subsumer of k stands before every matching rule of
\* another action.
LEMMA RemovedIsCovered ==
  ASSUME NEW list \in Seq(Rule), NEW S \in SUBSET DOMAIN list, NEW h \in Header,
         NEW k \in Matching(list, S, h), BackwardSubsumed(list, k, S),
         NEW o \in Matching(list, S, h), k < o, list[o].action # list[k].action
  PROVE  \E s \in Matching(list, S, h) : k < s /\ s < o
<1>1. \E s \in Subsumers(list, k, S) : s < o
  <2>1. CASE o \in Conflicts(list, k, S)
    BY <2>1 DEF BackwardSubsumed
  <2>2. CASE o \notin Conflicts(list, k, S)
    BY <2>2, ConflictFound
  <2> QED
    BY <2>1, <2>2
<1> QED
  BY <1>1, SubsumerCovers

\* Backward subsumption changes no decision.
LEMMA BackwardSound ==
  ASSUME NEW list \in Seq(Rule), NEW S \in SUBSET DOMAIN list, NEW h \in Header
  PROVE  Decide(list, BackwardPass(list, S), h) = Decide(list, S, h)
<1> DEFINE B == BackwardPass(list, S)
           M == Matching(list, S, h)
           N == Matching(list, B, h)
<1>1. B \subseteq S /\ N \subseteq M /\ M \subseteq S /\ M \subseteq Nat
      /\ M \subseteq 1 .. Len(list) /\ Len(list) \in Nat
  BY Positions DEF BackwardPass, Matching
<1>2. \A y \in M : ~ BackwardSubsumed(list, y, S) => y \in N
  BY DEF BackwardPass, Matching
<1>3. CASE M = {}
  BY <1>1, <1>3 DEF Decide
<1>4. CASE M # {}
  <2> DEFINE k == First(M)
             X == {o \in M : list[o].action # list[k].action}
  <2>1. k \in M /\ \A o \in M : k <= o
    BY <1>1, <1>4, FirstIsLeast
  <2>2. Decide(list, S, h) = list[k].action
    BY <1>4 DEF Decide
  <2>3. SUFFICES Decide(list, B, h) = list[k].action
    BY <2>2
  <2>4. CASE X = {}
    <3>1. CASE N # {}
      <4>1. First(N) \in M
        BY <1>1, <3>1, FirstIsLeast
      <4> QED
        BY <2>4, <3>1, <4>1 DEF Decide
    <3>2. CASE N = {}
      <4>1. PICK z \in M : \A y \in M : y <= z
        BY <1>1, <1>4, LastExists
      <4>2. BackwardSubsumed(list, z, S)
        BY <1>2, <3>2
      <4>3. Subsumers(list, z, S) = {}
        <5>1. SUFFICES ASSUME NEW s \in Subsumers(list, z, S) PROVE FALSE
          OBVIOUS
        <5>2. s \in M /\ z < s
          BY SubsumerCovers
        <5> QED
          BY <1>1, <4>1, <5>2
      <4>4. list[z].action = NOP
        BY <4>2, <4>3 DEF BackwardSubsumed
      <4>5. list[z].action = list[k].action
        BY <2>4
      <4> QED
        BY <3>2, <4>4, <4>5 DEF Decide
    <3> QED
      BY <3>1, <3>2
  <2>5. CASE X # {}
    <3> DEFINE x == First(X)
               Y == {y \in M : y < x}
    <3>1. x \in X /\ \A o \in X : x <= o
      BY <1>1, <2>5, FirstIsLeast
    <3>2. k \in Y
      BY <1>1, <2>1, <3>1
    <3>3. Y \subseteq 1 .. Len(list)
      BY <1>1
    <3>4. PICK y \in Y : \A z \in Y : z <= y
      BY <1>1, <3>2, <3>3, LastExists
    <3>5. \A z \in Y : z \in M /\ z < x /\ list[z].action = list[k].action
      <4>1. ASSUME NEW z \in Y, list[z].action # list[k].action PROVE FALSE
        <5>1. z \in X /\ z < x /\ z \in Nat /\ x \in Nat
          BY <1>1, <3>1, <4>1
        <5> QED
          BY <3>1, <5>1
      <4> QED
        BY <4>1
    <3>6. ~ BackwardSubsumed(list, y, S)
      <4>1. SUFFICES ASSUME BackwardSubsumed(list, y, S) PROVE FALSE
        OBVIOUS
      <4>2. x \in M /\ list[x].action # list[y].action /\ y < x
        BY <3>1, <3>4, <3>5
      <4>3. PICK s \in M : y < s /\ s < x
        BY <3>5, <4>1, <4>2, RemovedIsCovered
      <4>4. s \in Y /\ s <= y
        BY <3>4, <4>3
      <4> QED
        BY <1>1, <3>5, <4>3, <4>4
    <3>7. y \in N
      BY <1>2, <3>5, <3>6
    <3>8. First(N) \in N /\ First(N) <= y
      BY <1>1, <3>7, FirstIsLeast
    <3>9. First(N) \in M /\ First(N) < x
      BY <1>1, <3>1, <3>5, <3>8
    <3>10. list[First(N)].action = list[k].action
      BY <3>5, <3>9
    <3> QED
      BY <3>7, <3>10 DEF Decide
  <2> QED
    BY <2>4, <2>5
<1> QED
  BY <1>3, <1>4

-----------------------------------------------------------------------------
(* Filters as they are stored.                                             *)

\* Every bit has a chunk and an offset of its own.
LEMMA BitHasPlace ==
  ASSUME NEW b \in Bits
  PROVE  /\ b \div ChunkBits \in ChunkIds
         /\ b % ChunkBits \in Offsets
         /\ (b \div ChunkBits) * ChunkBits + (b % ChunkBits) = b
<1>1. ChunkBits \in Nat /\ ChunkBits > 0 /\ MaxWidth \in Nat /\ Width \in Nat /\ Width <= MaxWidth
  BY PackingAssumption, WidthAssumption
<1>2. b \in Nat /\ b <= MaxWidth - 1
  BY <1>1 DEF Bits
<1> DEFINE c == b \div ChunkBits
           n == (MaxWidth + ChunkBits - 1) \div ChunkBits
<1>3. b % ChunkBits \in 0 .. ChunkBits - 1 /\ c \in Int
  BY <1>1, <1>2
<1>4. b = ChunkBits * c + (b % ChunkBits)
  BY <1>1, <1>2
<1>5. c >= 0
  BY <1>1, <1>2
<1>6. n \in Int /\ MaxWidth + ChunkBits - 1 = ChunkBits * n + ((MaxWidth + ChunkBits - 1) % ChunkBits)
      /\ (MaxWidth + ChunkBits - 1) % ChunkBits \in 0 .. ChunkBits - 1
  BY <1>1
<1>7. c <= n - 1
  <2>1. ChunkBits * n >= MaxWidth
    BY <1>1, <1>6
  <2>2. ChunkBits * c < ChunkBits * n
    BY <2>1, <1>1, <1>2, <1>3, <1>4, <1>6
  <2> QED
    BY <2>2, <1>1, <1>3, <1>6
<1> QED
  BY <1>1, <1>3, <1>4, <1>5, <1>6, <1>7 DEF ChunkIds, Offsets, NumChunks

\* And every chunk and offset a bit of its own, padding included.
LEMMA PlaceHasBit ==
  ASSUME NEW c \in ChunkIds, NEW o \in Offsets
  PROVE  /\ c * ChunkBits + o \in Nat
         /\ (c * ChunkBits + o) \div ChunkBits = c
         /\ (c * ChunkBits + o) % ChunkBits = o
<1>1. ChunkBits \in Nat /\ ChunkBits > 0 /\ c \in Nat /\ o \in Nat /\ o < ChunkBits
  BY PackingAssumption DEF ChunkIds, Offsets
<1> DEFINE b == c * ChunkBits + o
<1>2. b \in Nat
  BY <1>1
<1>3. b = ChunkBits * (b \div ChunkBits) + (b % ChunkBits)
      /\ b \div ChunkBits \in Int /\ b % ChunkBits \in 0 .. ChunkBits - 1
  BY <1>1, <1>2
<1>4. b \div ChunkBits = c
  BY <1>1, <1>3
<1> QED
  BY <1>1, <1>2, <1>3, <1>4

\* The chunks of what is built from bit arrays.
LEMMA PackedChunks ==
  ASSUME NEW p \in PackedFilter, NEW c \in ChunkIds
  PROVE  p.mask[c] \subseteq Offsets /\ p.value[c] \subseteq Offsets
BY DEF PackedFilter, BitArray

\* How a bit of a filter is read from the two arrays.
LEMMA BitReads ==
  ASSUME NEW f \in Filter, NEW p, Represents(p, f), NEW b \in Bits
  PROVE  /\ (b % ChunkBits \in p.mask[b \div ChunkBits]) <=> f[b] # ANY
         /\ f[b] # ANY => ((b % ChunkBits \in p.value[b \div ChunkBits]) <=> f[b] = ONE)
<1>1. PackedAt(p, b) = f[b]
  BY DEF Represents
<1> QED
  BY <1>1 DEF PackedAt, GetBit, ONE, ZERO, ANY

\* The difference of two chunks holds the offsets of the bits that differ.
LEMMA DifferencesByChunk ==
  ASSUME NEW f \in Filter, NEW g \in Filter, NEW p, NEW q,
         Represents(p, f), Represents(q, g),
         NEW mask \in SUBSET Bits, NEW c \in ChunkIds, NEW o \in Offsets
  PROVE  o \in PackedDifferences(p, q, BitsToMask(mask), c)
           <=> c * ChunkBits + o \in Differences(f, g, mask)
<1> DEFINE b == c * ChunkBits + o
<1>1. b \div ChunkBits = c /\ b % ChunkBits = o
  BY PlaceHasBit
<1>2. o \in BitsToMask(mask)[c] <=> b \in mask
  BY DEF BitsToMask
<1>3. CASE b \notin mask
  BY <1>2, <1>3 DEF PackedDifferences, Differences
<1>4. CASE b \in mask
  <2>1. b \in Bits
    BY <1>4
  <2>2. /\ o \in p.mask[c] <=> f[b] # ANY
        /\ f[b] # ANY => (o \in p.value[c] <=> f[b] = ONE)
    BY <1>1, <2>1, BitReads
  <2>3. /\ o \in q.mask[c] <=> g[b] # ANY
        /\ g[b] # ANY => (o \in q.value[c] <=> g[b] = ONE)
    BY <1>1, <2>1, BitReads
  <2>4. f[b] \in {ONE, ZERO, ANY} /\ g[b] \in {ONE, ZERO, ANY}
    BY <2>1 DEF Filter
  <2>5. b \in Differences(f, g, mask) <=> f[b] # ANY /\ g[b] # ANY /\ f[b] # g[b]
    BY <1>4 DEF Differences
  <2>6. o \in PackedDifferences(p, q, BitsToMask(mask), c)
          <=> /\ o \in Xor(p.value[c], q.value[c])
              /\ o \in p.mask[c] /\ o \in q.mask[c]
    BY <1>2, <1>4 DEF PackedDifferences
  <2>7. o \in Xor(p.value[c], q.value[c])
          <=> (o \in p.value[c] /\ o \notin q.value[c]) \/ (o \notin p.value[c] /\ o \in q.value[c])
    BY DEF Xor
  <2>8. o \in PackedDifferences(p, q, BitsToMask(mask), c) <=> b \in Differences(f, g, mask)
    <3> HIDE DEF b
    <3> QED
      BY <2>2, <2>3, <2>4, <2>5, <2>6, <2>7 DEF ONE, ZERO, ANY
  <2> QED
    BY <2>8
<1> QED
  BY <1>3, <1>4

\* Chunks hold offsets only, and every difference is a bit of the mask.
LEMMA DifferencesAreOffsets ==
  ASSUME NEW p \in PackedFilter, NEW q, NEW m, NEW c \in ChunkIds
  PROVE  PackedDifferences(p, q, m, c) \subseteq Offsets
BY PackedChunks DEF PackedDifferences

\* PackedBitArray::set changes the one bit it is given.
LEMMA SetBitChangesOne ==
  ASSUME NEW arr \in BitArray, NEW i \in Bits, NEW x \in BOOLEAN
  PROVE  /\ SetBit(arr, i, x) \in BitArray
         /\ \A c \in ChunkIds : \A o \in Offsets :
              o \in SetBit(arr, i, x)[c]
                <=> IF c * ChunkBits + o = i THEN x ELSE o \in arr[c]
<1> DEFINE ci == i \div ChunkBits
           oi == i % ChunkBits
<1>1. ci \in ChunkIds /\ oi \in Offsets /\ ci * ChunkBits + oi = i
  BY BitHasPlace
<1>2. SetBit(arr, i, x) =
        [arr EXCEPT ![ci] = IF x THEN arr[ci] \cup {oi} ELSE arr[ci] \ {oi}]
  BY DEF SetBit, BitArray
<1>3. SetBit(arr, i, x) \in BitArray
  BY <1>1, <1>2 DEF BitArray
<1>4. ASSUME NEW c \in ChunkIds, NEW o \in Offsets
      PROVE  o \in SetBit(arr, i, x)[c]
               <=> IF c * ChunkBits + o = i THEN x ELSE o \in arr[c]
  <2>1. c * ChunkBits + o = i <=> c = ci /\ o = oi
    BY <1>1, PlaceHasBit
  <2> HIDE DEF ci, oi
  <2> QED
    BY <1>1, <1>2, <2>1 DEF BitArray
<1> QED
  BY <1>3, <1>4

\* A new filter reads as ANY everywhere (Filter(width)).
THEOREM NewFilterIsAny == Represents(AllAny, [b \in Bits |-> ANY])
<1>1. AllAny \in PackedFilter
  BY DEF AllAny, NoBits, PackedFilter, BitArray
<1>2. ASSUME NEW b \in Bits PROVE PackedAt(AllAny, b) = ANY
  BY BitHasPlace DEF PackedAt, GetBit, AllAny, NoBits
<1>3. \A c \in ChunkIds : AllAny.mask[c] = {}
  BY DEF AllAny, NoBits
<1> QED
  BY <1>1, <1>2, <1>3 DEF Represents

\* Filter::set sets the one position it is given and leaves the others, also
\* where an earlier value is still stored under an ANY; so every filter built
\* from an entry bit by bit reads as that entry.
THEOREM SetIsPointwise ==
  ASSUME NEW f \in Filter, NEW p, Represents(p, f),
         NEW i \in Bits, NEW x \in {ONE, ZERO, ANY}
  PROVE  Represents(PackedSet(p, i, x), [f EXCEPT ![i] = x])
<1> DEFINE r  == PackedSet(p, i, x)
           rm == SetBit(p.mask, i, x # ANY)
           rv == IF x = ANY THEN p.value ELSE SetBit(p.value, i, x = ONE)
<1>1. p \in PackedFilter /\ p.mask \in BitArray /\ p.value \in BitArray
  BY DEF Represents, PackedFilter
<1>2. r = [value |-> rv, mask |-> rm]
  <2>1. CASE x = ANY
    <3>1. (x # ANY) = FALSE
      BY <2>1
    <3> QED
      BY <2>1, <3>1 DEF PackedSet
  <2>2. CASE x # ANY
    <3>1. (x # ANY) = TRUE
      BY <2>2
    <3> QED
      BY <2>2, <3>1 DEF PackedSet
  <2> QED
    BY <2>1, <2>2
<1>3. r.value = rv /\ r.mask = rm
  BY <1>2
<1>4. /\ rm \in BitArray
      /\ \A c \in ChunkIds : \A o \in Offsets :
           o \in rm[c] <=> IF c * ChunkBits + o = i THEN x # ANY ELSE o \in p.mask[c]
  BY <1>1, SetBitChangesOne
<1>5. /\ rv \in BitArray
      /\ \A c \in ChunkIds : \A o \in Offsets :
           o \in rv[c] <=> IF c * ChunkBits + o = i /\ x # ANY THEN x = ONE ELSE o \in p.value[c]
  <2>1. CASE x = ANY
    BY <1>1, <2>1
  <2>2. CASE x # ANY
    <3>1. PICK one \in BOOLEAN : one = (x = ONE)
      OBVIOUS
    <3>2. /\ SetBit(p.value, i, one) \in BitArray
          /\ \A c \in ChunkIds : \A o \in Offsets :
               o \in SetBit(p.value, i, one)[c]
                 <=> IF c * ChunkBits + o = i THEN one ELSE o \in p.value[c]
      BY <1>1, SetBitChangesOne
    <3>3. rv = SetBit(p.value, i, one)
      BY <2>2, <3>1
    <3> HIDE DEF rv
    <3> QED
      BY <2>2, <3>1, <3>2, <3>3
  <2> QED
    BY <2>1, <2>2
<1>6. r \in PackedFilter
  BY <1>2, <1>4, <1>5 DEF PackedFilter
<1>7. ASSUME NEW b \in Bits PROVE PackedAt(r, b) = [f EXCEPT ![i] = x][b]
  <2> DEFINE c == b \div ChunkBits
             o == b % ChunkBits
  <2>1. c \in ChunkIds /\ o \in Offsets /\ c * ChunkBits + o = b
    BY BitHasPlace
  <2>2. o \in rm[c] <=> IF b = i THEN x # ANY ELSE o \in p.mask[c]
    BY <1>4, <2>1
  <2>3. o \in rv[c] <=> IF b = i /\ x # ANY THEN x = ONE ELSE o \in p.value[c]
    BY <1>5, <2>1
  <2>4. PackedAt(r, b) = IF o \notin rm[c] THEN ANY ELSE IF o \in rv[c] THEN ONE ELSE ZERO
    BY <1>3 DEF PackedAt, GetBit
  <2>5. f[b] = IF o \notin p.mask[c] THEN ANY ELSE IF o \in p.value[c] THEN ONE ELSE ZERO
    BY DEF Represents, PackedAt, GetBit
  <2>6. [f EXCEPT ![i] = x][b] = IF b = i THEN x ELSE f[b]
    BY DEF Filter
  <2> HIDE DEF c, o, rm, rv, r
  <2>7. CASE b = i
    BY <2>2, <2>3, <2>4, <2>6, <2>7 DEF ONE, ZERO, ANY
  <2>8. CASE b # i
    BY <2>2, <2>3, <2>4, <2>5, <2>6, <2>8
  <2> QED
    BY <2>7, <2>8
<1>8. ASSUME NEW c \in ChunkIds, NEW o \in r.mask[c] PROVE c * ChunkBits + o \in Bits
  <2>1. o \in rm[c] /\ o \in Offsets
    BY <1>3, <1>4 DEF BitArray
  <2>2. CASE c * ChunkBits + o = i
    BY <2>2
  <2>3. CASE c * ChunkBits + o # i
    <3>1. o \in p.mask[c]
      BY <1>4, <2>1, <2>3
    <3> QED
      BY <3>1 DEF Represents
  <2> QED
    BY <2>2, <2>3
<1> QED
  BY <1>6, <1>7, <1>8 DEF Represents

\* Setting the bits of an entry one after the other, up to bit n.
Setting(f, n, after) ==
  after = [m \in 0 .. n |->
             IF m = 0 THEN AllAny ELSE PackedSet(after[m - 1], m - 1, f[m - 1])]

SetUpTo(f, n) == [b \in Bits |-> IF b < n THEN f[b] ELSE ANY]

LEMMA SettingExists ==
  ASSUME NEW f, NEW n \in Nat
  PROVE  \E after : Setting(f, n, after)
<1> DEFINE S == {m \in Nat : ~ \E after : Setting(f, m, after)}
<1> SUFFICES ASSUME S # {} PROVE FALSE
  OBVIOUS
<1>1. /\ First(S) \in Nat /\ ~ \E after : Setting(f, First(S), after)
      /\ \A y \in S : First(S) <= y
  BY FirstIsLeast
<1>2. PICK k \in Nat : k = First(S)
  BY <1>1
<1>3. CASE k = 0
  <2> DEFINE a == [m \in 0 .. 0 |-> AllAny]
  <2>1. Setting(f, 0, a)
    BY DEF Setting
  <2> QED
    BY <1>1, <1>2, <1>3, <2>1
<1>4. CASE k # 0
  <2>1. k - 1 \in Nat /\ k - 1 \notin S
    <3>1. k - 1 \in Nat /\ ~ (k <= k - 1)
      BY <1>4
    <3> HIDE DEF S
    <3> QED
      BY <1>1, <1>2, <3>1
  <2>2. PICK a : Setting(f, k - 1, a)
    BY <2>1
  <2> DEFINE b == [m \in 0 .. k |->
                     IF m = k THEN PackedSet(a[k - 1], k - 1, f[k - 1]) ELSE a[m]]
  <2>3. \A m \in 0 .. k - 1 :
          a[m] = IF m = 0 THEN AllAny ELSE PackedSet(a[m - 1], m - 1, f[m - 1])
    BY <2>2 DEF Setting
  <2>4. ASSUME NEW m \in 0 .. k
        PROVE  b[m] = IF m = 0 THEN AllAny ELSE PackedSet(b[m - 1], m - 1, f[m - 1])
    <3>1. CASE m = 0
      BY <1>4, <2>3, <3>1
    <3>2. CASE m # 0
      <4>1. m - 1 \in 0 .. k /\ m - 1 # k /\ b[m - 1] = a[m - 1]
        BY <3>2
      <4>2. CASE m = k
        BY <3>2, <4>1, <4>2
      <4>3. CASE m # k
        <5>1. m \in 0 .. k - 1 /\ b[m] = a[m]
          BY <4>3
        <5> QED
          BY <2>3, <3>2, <4>1, <5>1
      <4> QED
        BY <4>2, <4>3
    <3> QED
      BY <3>1, <3>2
  <2>5. Setting(f, k, b)
    <3>1. b = [m \in 0 .. k |-> b[m]]
      OBVIOUS
    <3> HIDE DEF b
    <3> QED
      BY <2>4, <3>1 DEF Setting
  <2> QED
    BY <1>1, <1>2, <2>5
<1> QED
  BY <1>3, <1>4

\* After n of them the first n bits read as those of the entry.
LEMMA SettingRepresents ==
  ASSUME NEW f \in Filter, NEW after, Setting(f, Width, after), NEW n \in 0 .. Width
  PROVE  Represents(after[n], SetUpTo(f, n))
<1> DEFINE S == {m \in 0 .. Width : ~ Represents(after[m], SetUpTo(f, m))}
<1> SUFFICES ASSUME S # {} PROVE FALSE
  OBVIOUS
<1>0. Width \in Nat
  BY WidthAssumption
<1>1. First(S) \in S /\ \A y \in S : First(S) <= y
  BY <1>0, FirstIsLeast
<1>2. PICK k \in 0 .. Width : k = First(S)
  BY <1>1
<1>3. ~ Represents(after[k], SetUpTo(f, k))
  BY <1>1, <1>2
<1>4. CASE k = 0
  <2>1. after[0] = AllAny
    BY <1>0 DEF Setting
  <2>2. SetUpTo(f, 0) = [b \in Bits |-> ANY]
    BY <1>0 DEF SetUpTo, Bits
  <2> QED
    BY <1>3, <1>4, <2>1, <2>2, NewFilterIsAny
<1>5. CASE k # 0
  <2>1. k - 1 \in 0 .. Width /\ k - 1 \in Bits /\ k - 1 \notin S
    BY <1>0, <1>1, <1>2, <1>5 DEF Bits
  <2>2. Represents(after[k - 1], SetUpTo(f, k - 1))
    BY <2>1
  <2>3. after[k] = PackedSet(after[k - 1], k - 1, f[k - 1])
    BY <1>0, <1>5 DEF Setting
  <2>4. SetUpTo(f, k - 1) \in Filter /\ f[k - 1] \in {ONE, ZERO, ANY}
    BY <2>1 DEF SetUpTo, Filter
  <2>5. SetUpTo(f, k) = [SetUpTo(f, k - 1) EXCEPT ![k - 1] = f[k - 1]]
    <3>1. ASSUME NEW b \in Bits
          PROVE  SetUpTo(f, k)[b] = [SetUpTo(f, k - 1) EXCEPT ![k - 1] = f[k - 1]][b]
      BY <1>0, <2>1 DEF SetUpTo, Bits
    <3> QED
      BY <3>1 DEF SetUpTo
  <2>6. Represents(PackedSet(after[k - 1], k - 1, f[k - 1]),
                   [SetUpTo(f, k - 1) EXCEPT ![k - 1] = f[k - 1]])
    BY <2>1, <2>2, <2>4, SetIsPointwise
  <2> QED
    BY <1>3, <2>3, <2>5, <2>6
<1> QED
  BY <1>4, <1>5

\* svmr_entry2filter stores the entry it is given.
LEMMA PackedRepresents ==
  ASSUME NEW f \in Filter
  PROVE  Represents(Packed(f), f)
<1>0. Width \in Nat
  BY WidthAssumption
<1> DEFINE after == CHOOSE a : Setting(f, Width, a)
<1>1. Setting(f, Width, after)
  BY <1>0, SettingExists
<1>2. Packed(f) = after[Width]
  BY DEF Packed, Setting
<1> HIDE DEF after
<1>3. Represents(after[Width], SetUpTo(f, Width))
  BY <1>0, <1>1, SettingRepresents
<1>4. SetUpTo(f, Width) = f
  <2>1. \A b \in Bits : SetUpTo(f, Width)[b] = f[b]
    BY <1>0 DEF SetUpTo, Bits
  <2> QED
    BY <2>1 DEF SetUpTo, Filter
<1> QED
  BY <1>2, <1>3, <1>4

\* The mask of a filter is the bit array of its support (Support(Filter)).
LEMMA MaskIsSupport ==
  ASSUME NEW f \in Filter, NEW p, Represents(p, f)
  PROVE  p.mask = BitsToMask(Support(f))
<1>1. p.mask \in BitArray
  BY DEF Represents, PackedFilter
<1>2. ASSUME NEW c \in ChunkIds, NEW o \in Offsets
      PROVE  o \in p.mask[c] <=> c * ChunkBits + o \in Support(f)
  <2> DEFINE b == c * ChunkBits + o
  <2>1. b \div ChunkBits = c /\ b % ChunkBits = o
    BY PlaceHasBit
  <2>2. o \in p.mask[c] => b \in Bits
    BY DEF Represents
  <2>3. b \in Bits => (o \in p.mask[c] <=> f[b] # ANY)
    BY <2>1, BitReads
  <2> HIDE DEF b
  <2> QED
    BY <2>2, <2>3 DEF Support, b
<1>3. ASSUME NEW c \in ChunkIds
      PROVE  p.mask[c] = {o \in Offsets : c * ChunkBits + o \in Support(f)}
  <2>1. p.mask[c] \subseteq Offsets
    BY <1>1 DEF BitArray
  <2> QED
    BY <1>2, <2>1
<1> QED
  BY <1>1, <1>3 DEF BitArray, BitsToMask

\* Filter::intersect: no chunk has a difference when no bit has one.
LEMMA IntersectByChunk ==
  ASSUME NEW f \in Filter, NEW g \in Filter, NEW p, NEW q,
         Represents(p, f), Represents(q, g), NEW mask \in SUBSET Bits
  PROVE  PackedIntersect(p, q, BitsToMask(mask)) <=> Intersect(f, g, mask)
<1> DEFINE diff(c) == PackedDifferences(p, q, BitsToMask(mask), c)
<1>1. ASSUME NEW c \in ChunkIds, NEW o \in diff(c)
      PROVE  c * ChunkBits + o \in Differences(f, g, mask)
  <2>1. o \in Offsets
    BY DifferencesAreOffsets DEF Represents
  <2> QED
    BY <2>1, DifferencesByChunk
<1>2. ASSUME NEW b \in Differences(f, g, mask)
      PROVE  b \div ChunkBits \in ChunkIds /\ b % ChunkBits \in diff(b \div ChunkBits)
  <2>1. b \in Bits
    BY DEF Differences
  <2> QED
    BY <2>1, BitHasPlace, DifferencesByChunk
<1>3. PackedIntersect(p, q, BitsToMask(mask)) <=> \A c \in ChunkIds : diff(c) = {}
  BY DEF PackedIntersect
<1> HIDE DEF diff
<1> QED
  BY <1>1, <1>2, <1>3 DEF Intersect

\* Filter::subsums: the complement of a mask is all ones in the padding, and
\* the mask it is met with all zeros.
LEMMA SubsumsByChunk ==
  ASSUME NEW f \in Filter, NEW g \in Filter, NEW p, NEW q,
         Represents(p, f), Represents(q, g)
  PROVE  PackedSubsums(p, q) <=> Subsums(f, g)
<1> DEFINE bad(c) == (Xor(p.value[c], q.value[c]) \cup Complement(q.mask[c])) \cap p.mask[c]
<1>0. p \in PackedFilter /\ q \in PackedFilter
  BY DEF Represents
<1>1. ASSUME NEW b \in Bits
      PROVE  /\ b \div ChunkBits \in ChunkIds
             /\ b % ChunkBits \in bad(b \div ChunkBits) <=> b \in Support(f) /\ g[b] # f[b]
  <2> DEFINE c == b \div ChunkBits
             o == b % ChunkBits
  <2>1. c \in ChunkIds /\ o \in Offsets
    BY BitHasPlace
  <2>2. /\ o \in p.mask[c] <=> f[b] # ANY
        /\ f[b] # ANY => (o \in p.value[c] <=> f[b] = ONE)
    BY BitReads
  <2>3. /\ o \in q.mask[c] <=> g[b] # ANY
        /\ g[b] # ANY => (o \in q.value[c] <=> g[b] = ONE)
    BY BitReads
  <2>4. f[b] \in {ONE, ZERO, ANY} /\ g[b] \in {ONE, ZERO, ANY}
    BY DEF Filter
  <2>5. o \in bad(c) <=> /\ o \in p.mask[c]
                         /\ \/ o \in p.value[c] /\ o \notin q.value[c]
                            \/ o \notin p.value[c] /\ o \in q.value[c]
                            \/ o \notin q.mask[c]
    BY <2>1 DEF Xor, Complement
  <2>6. b \in Support(f) <=> f[b] # ANY
    BY DEF Support
  <2> HIDE DEF c, o, bad
  <2>7. o \in bad(c) <=> b \in Support(f) /\ g[b] # f[b]
    BY <2>2, <2>3, <2>4, <2>5, <2>6 DEF ONE, ZERO, ANY
  <2> QED
    BY <2>1, <2>7 DEF c, o
<1>2. ASSUME NEW c \in ChunkIds, NEW o \in bad(c)
      PROVE  /\ c * ChunkBits + o \in Bits
             /\ (c * ChunkBits + o) \div ChunkBits = c
             /\ (c * ChunkBits + o) % ChunkBits = o
  <2>1. o \in p.mask[c]
    OBVIOUS
  <2>2. o \in Offsets
    BY <1>0, <2>1, PackedChunks
  <2> QED
    BY <2>1, <2>2, PlaceHasBit DEF Represents
<1>3. PackedSubsums(p, q) <=> \A c \in ChunkIds : bad(c) = {}
  BY DEF PackedSubsums
<1>4. Subsums(f, g) <=> \A b \in Bits : ~ (b \in Support(f) /\ g[b] # f[b])
  BY DEF Subsums, Support
<1> HIDE DEF bad
<1>5. ASSUME PackedSubsums(p, q) PROVE Subsums(f, g)
  BY <1>1, <1>3, <1>4, <1>5
<1>6. ASSUME Subsums(f, g), NEW c \in ChunkIds, NEW o \in bad(c) PROVE FALSE
  <2> DEFINE b == c * ChunkBits + o
  <2>1. b \in Bits /\ b \div ChunkBits = c /\ b % ChunkBits = o
    BY <1>2
  <2>2. o \in bad(c) <=> b \in Support(f) /\ g[b] # f[b]
    BY <1>1, <2>1
  <2> QED
    BY <2>1, <2>2, <1>4, <1>6
<1> QED
  BY <1>3, <1>5, <1>6

\* Filter::has_any.
LEMMA HasAnyByChunk ==
  ASSUME NEW f \in Filter, NEW p, Represents(p, f), NEW mask \in SUBSET Bits
  PROVE  PackedHasAny(p, BitsToMask(mask)) <=> \E b \in mask : f[b] = ANY
<1> DEFINE m == BitsToMask(mask)
<1>1. ASSUME NEW c \in ChunkIds, NEW o \in Offsets
      PROVE  o \in m[c] <=> c * ChunkBits + o \in mask
  BY DEF BitsToMask
<1>2. \A c \in ChunkIds : m[c] \subseteq Offsets
  BY DEF BitsToMask
<1>3. ASSUME NEW b \in mask, f[b] = ANY PROVE PackedHasAny(p, m)
  <2>1. b \in Bits /\ b \div ChunkBits \in ChunkIds /\ b % ChunkBits \in Offsets
        /\ (b \div ChunkBits) * ChunkBits + (b % ChunkBits) = b
    BY BitHasPlace
  <2>2. b % ChunkBits \notin p.mask[b \div ChunkBits]
    BY <1>3, <2>1, BitReads
  <2>3. b % ChunkBits \in m[b \div ChunkBits]
    BY <1>1, <2>1
  <2> HIDE DEF m
  <2> QED
    BY <2>1, <2>2, <2>3 DEF PackedHasAny, Complement
<1>4. ASSUME PackedHasAny(p, m) PROVE \E b \in mask : f[b] = ANY
  <2>1. PICK c \in ChunkIds : m[c] \cap Complement(p.mask[c]) # {}
    BY <1>4 DEF PackedHasAny
  <2>2. PICK o \in Offsets : o \in m[c] /\ o \notin p.mask[c]
    BY <1>2, <2>1 DEF Complement
  <2>3. c * ChunkBits + o \in mask
    BY <1>1, <2>2
  <2>4. f[c * ChunkBits + o] = ANY
    BY <2>2, <2>3, PlaceHasBit, BitReads
  <2> QED
    BY <2>3, <2>4
<1> QED
  BY <1>3, <1>4

\* Places are ordered as bits are: by their chunks first, then by offset.
LEMMA PlacesInOrder ==
  ASSUME NEW c \in ChunkIds, NEW o \in Offsets, NEW d \in ChunkIds, NEW r \in Offsets,
         c <= d, c = d => o <= r
  PROVE  c * ChunkBits + o <= d * ChunkBits + r
<1>1. ChunkBits \in Nat /\ c \in Nat /\ d \in Nat /\ o \in Nat /\ r \in Nat /\ o < ChunkBits
  BY PackingAssumption DEF ChunkIds, Offsets
<1>2. CASE c = d
  BY <1>1, <1>2
<1>3. CASE c # d
  <2>1. c + 1 <= d
    BY <1>1, <1>3
  <2>2. (c + 1) * ChunkBits <= d * ChunkBits
    BY <1>1, <2>1
  <2>3. (c + 1) * ChunkBits = c * ChunkBits + ChunkBits
    BY <1>1
  <2> QED
    BY <1>1, <2>2, <2>3
<1> QED
  BY <1>2, <1>3

\* A set with at most one element that has b has nothing but b.
LEMMA AtMostOne ==
  ASSUME NEW S, IsFiniteSet(S), NEW b \in S
  PROVE  Cardinality(S) <= 1 <=> S = {b}
<1>1. Cardinality(S) \in Nat /\ (Cardinality(S) = 0 <=> S = {})
  BY FS_CardinalityType, FS_EmptySet
<1>2. Cardinality(S) = 1 <=> \E x : S = {x}
  BY FS_Singleton
<1>3. Cardinality(S) <= 1 <=> Cardinality(S) = 1
  BY <1>1
<1>4. (\E x : S = {x}) <=> S = {b}
  OBVIOUS
<1> QED
  BY <1>2, <1>3, <1>4

\* Filter::fast_blocker: the first bit of the first chunk that differs is the
\* first bit that differs, and the only one when its chunk has no other and
\* no other chunk has any.
LEMMA FastBlockerByChunk ==
  ASSUME NEW f \in Filter, NEW g \in Filter, NEW p, NEW q,
         Represents(p, f), Represents(q, g), NEW mask \in SUBSET Bits
  PROVE  PackedFastBlocker(p, q, BitsToMask(mask)) = FastBlocker(f, g, mask)
<1> DEFINE D       == Differences(f, g, mask)
           diff(c) == PackedDifferences(p, q, BitsToMask(mask), c)
           nonzero == {c \in ChunkIds : diff(c) # {}}
           c0      == First(nonzero)
           i0      == First(diff(c0))
           b0      == c0 * ChunkBits + i0
<1>1. \A c \in ChunkIds : diff(c) \subseteq Offsets
  BY DifferencesAreOffsets DEF Represents
<1>2. \A c \in ChunkIds : \A o \in diff(c) :
        /\ c * ChunkBits + o \in D
        /\ (c * ChunkBits + o) \div ChunkBits = c
        /\ (c * ChunkBits + o) % ChunkBits = o
  BY <1>1, DifferencesByChunk, PlaceHasBit
<1>3. \A b \in D : /\ b \div ChunkBits \in nonzero
                   /\ b % ChunkBits \in diff(b \div ChunkBits)
                   /\ (b \div ChunkBits) * ChunkBits + (b % ChunkBits) = b
  <2> TAKE b \in D
  <2>1. b \in Bits
    BY DEF Differences
  <2>2. /\ b \div ChunkBits \in ChunkIds /\ b % ChunkBits \in Offsets
        /\ (b \div ChunkBits) * ChunkBits + (b % ChunkBits) = b
    BY <2>1, BitHasPlace
  <2>3. b % ChunkBits \in diff(b \div ChunkBits)
    BY <2>2, DifferencesByChunk
  <2> HIDE DEF diff
  <2> QED
    BY <2>2, <2>3
<1>4. IsFiniteSet(D) /\ D \subseteq Nat
  <2>1. D \subseteq Bits /\ Bits \subseteq Nat
    <3>1. Bits \subseteq Nat
      BY WidthAssumption DEF Bits
    <3>2. D \subseteq Bits
      BY DEF Differences
    <3> QED
      BY <3>1, <3>2
  <2>2. IsFiniteSet(Bits)
    BY FS_Interval, WidthAssumption DEF Bits
  <2> QED
    BY <2>1, <2>2, FS_Subset
<1>5. PackedFastBlocker(p, q, BitsToMask(mask)) =
        IF nonzero = {} THEN [only |-> TRUE, first |-> -1]
        ELSE [only |-> diff(c0) = {i0} /\ nonzero = {c0}, first |-> b0]
  BY DEF PackedFastBlocker
<1>6. FastBlocker(f, g, mask) =
        [only |-> Cardinality(D) <= 1, first |-> IF D = {} THEN -1 ELSE First(D)]
  BY DEF FastBlocker, First
<1>7. CASE nonzero = {}
  <2>1. D = {}
    BY <1>3, <1>7
  <2>2. Cardinality(D) = 0
    BY <2>1, FS_EmptySet
  <2>3. (Cardinality(D) <= 1) = TRUE
    BY <2>2
  <2> HIDE DEF D, nonzero
  <2> QED
    BY <1>5, <1>6, <1>7, <2>1, <2>3
<1>8. CASE nonzero # {}
  <2>1. nonzero \subseteq Nat /\ Offsets \subseteq Nat /\ nonzero \subseteq ChunkIds
    BY DEF ChunkIds, Offsets
  <2>2. c0 \in nonzero /\ \A c \in nonzero : c0 <= c
    <3> HIDE DEF nonzero
    <3> QED
      BY <1>8, <2>1, FirstIsLeast
  <2>3. c0 \in ChunkIds /\ diff(c0) # {}
    <3> HIDE DEF c0, diff
    <3> QED
      BY <2>2
  <2>4. diff(c0) \subseteq Nat
    BY <1>1, <2>1, <2>3
  <2>5. i0 \in diff(c0) /\ \A o \in diff(c0) : i0 <= o
    <3> HIDE DEF diff, c0
    <3> QED
      BY <2>3, <2>4, FirstIsLeast
  <2>6. b0 \in D /\ b0 \div ChunkBits = c0 /\ b0 % ChunkBits = i0
    <3> HIDE DEF D, diff, c0, i0
    <3> QED
      BY <1>2, <2>3, <2>5
  <2>7. ASSUME NEW b \in D PROVE b0 <= b
    <3> DEFINE c == b \div ChunkBits
               o == b % ChunkBits
    <3>1. c \in nonzero /\ o \in diff(c) /\ c * ChunkBits + o = b
      BY <1>3
    <3> HIDE DEF D, diff, c0, i0, nonzero, c, o
    <3>2. c \in ChunkIds /\ c0 <= c /\ o \in Offsets /\ i0 \in Offsets
      BY <1>1, <2>1, <2>2, <2>3, <2>5, <3>1
    <3>3. c0 = c => i0 <= o
      BY <2>5, <3>1
    <3> QED
      BY <2>3, <3>1, <3>2, <3>3, PlacesInOrder
  <2>8. First(D) = b0 /\ D # {}
    <3> HIDE DEF D, b0
    <3> QED
      BY <1>4, <2>6, <2>7, FirstUnique
  <2>9. Cardinality(D) <= 1 <=> D = {b0}
    <3> HIDE DEF D, b0
    <3> QED
      BY <1>4, <2>6, AtMostOne
  <2>10. D = {b0} <=> diff(c0) = {i0} /\ nonzero = {c0}
    <3>1. ASSUME D = {b0} PROVE diff(c0) = {i0} /\ nonzero = {c0}
      <4>1. ASSUME NEW o \in diff(c0) PROVE o = i0
        <5>1. c0 * ChunkBits + o \in D /\ (c0 * ChunkBits + o) % ChunkBits = o
          <6> HIDE DEF D, diff, c0
          <6> QED
            BY <1>2, <2>3
        <5>2. c0 * ChunkBits + o = b0
          BY <3>1, <5>1
        <5> QED
          BY <2>6, <5>1, <5>2
      <4>2. ASSUME NEW c \in nonzero PROVE c = c0
        <5>1. c \in ChunkIds /\ \E o \in diff(c) : TRUE
          OBVIOUS
        <5>2. PICK o \in diff(c) : TRUE
          BY <5>1
        <5>3. c * ChunkBits + o \in D /\ (c * ChunkBits + o) \div ChunkBits = c
          <6> HIDE DEF D, diff, nonzero
          <6> QED
            BY <1>2, <5>1
        <5>4. c * ChunkBits + o = b0
          BY <3>1, <5>3
        <5> QED
          BY <2>6, <5>3, <5>4
      <4> HIDE DEF diff, c0, i0, nonzero
      <4> QED
        BY <2>2, <2>5, <4>1, <4>2
    <3>2. ASSUME diff(c0) = {i0}, nonzero = {c0}, NEW b \in D PROVE b = b0
      <4> HIDE DEF D, diff, c0, i0, nonzero
      <4>1. b \div ChunkBits = c0 /\ b % ChunkBits = i0
        BY <1>3, <3>2
      <4> QED
        BY <1>3, <4>1 DEF b0
    <3> HIDE DEF diff, c0, i0, nonzero, D, b0
    <3> QED
      BY <2>6, <3>1, <3>2
  <2> HIDE DEF D, diff, c0, i0, nonzero, b0
  <2>11. PICK one \in BOOLEAN : one = (D = {b0})
    OBVIOUS
  <2>12. (Cardinality(D) <= 1) = one /\ (diff(c0) = {i0} /\ nonzero = {c0}) = one
    BY <2>9, <2>10, <2>11
  <2> QED
    BY <1>5, <1>6, <1>8, <2>8, <2>12
<1> QED
  BY <1>7, <1>8

\* is_submask: one array has nothing that the other has not.
LEMMA IsSubmaskByChunk ==
  ASSUME NEW S \in SUBSET Bits, NEW T \in SUBSET Bits
  PROVE  IsSubmask(BitsToMask(S), BitsToMask(T)) <=> S \subseteq T
<1>1. \A c \in ChunkIds : \A o \in Offsets :
        /\ o \in BitsToMask(S)[c] <=> c * ChunkBits + o \in S
        /\ o \in BitsToMask(T)[c] <=> c * ChunkBits + o \in T
  BY DEF BitsToMask
<1>2. \A c \in ChunkIds : BitsToMask(S)[c] \subseteq Offsets
  BY DEF BitsToMask
<1>3. \A b \in S : /\ b \div ChunkBits \in ChunkIds /\ b % ChunkBits \in Offsets
                   /\ (b \div ChunkBits) * ChunkBits + (b % ChunkBits) = b
  BY BitHasPlace
<1>4. ASSUME IsSubmask(BitsToMask(S), BitsToMask(T)), NEW b \in S PROVE b \in T
  BY <1>1, <1>3, <1>4 DEF IsSubmask, Complement
<1>5. ASSUME S \subseteq T PROVE IsSubmask(BitsToMask(S), BitsToMask(T))
  BY <1>1, <1>2, <1>5 DEF IsSubmask, Complement
<1> QED
  BY <1>4, <1>5

\* What the algorithms ask of filters has the same answer whether it is
\* computed from chunks or bit by bit: Filter::intersect, subsums, has_any and
\* fast_blocker, for chunks of any size, any number of them and any padding.
\* The other modules may therefore take filters for functions of bits.
THEOREM PackingFaithful ==
  ASSUME NEW f \in Filter, NEW g \in Filter, NEW p, NEW q,
         Represents(p, f), Represents(q, g), NEW mask \in SUBSET Bits
  PROVE  /\ PackedIntersect(p, q, BitsToMask(mask)) <=> Intersect(f, g, mask)
         /\ PackedFastBlocker(p, q, BitsToMask(mask)) = FastBlocker(f, g, mask)
         /\ PackedSubsums(p, q) <=> Subsums(f, g)
         /\ PackedHasAny(p, BitsToMask(mask)) <=> \E b \in mask : f[b] = ANY
BY IntersectByChunk, FastBlockerByChunk, SubsumsByChunk, HasAnyByChunk

\* What PackingFaithful says of any filters that stand for two entries, of the
\* filters stored for them, as one value each.
LEMMA StoredAsMeant ==
  ASSUME NEW f \in Filter, NEW g \in Filter, NEW mask \in SUBSET Bits
  PROVE  AnswersAlike(f, g, mask)
<1> DEFINE p == Packed(f)
           q == Packed(g)
<1>1. Represents(p, f) /\ Represents(q, g)
  BY PackedRepresents
<1> HIDE DEF p, q
<1>2. /\ PackedIntersect(p, q, BitsToMask(mask)) <=> Intersect(f, g, mask)
      /\ PackedFastBlocker(p, q, BitsToMask(mask)) = FastBlocker(f, g, mask)
      /\ PackedSubsums(p, q) <=> Subsums(f, g)
      /\ PackedHasAny(p, BitsToMask(mask)) <=> \E b \in mask : f[b] = ANY
  BY <1>1, PackingFaithful
<1>3. IsSubmask(p.mask, q.mask) <=> Support(f) \subseteq Support(g)
  <2>1. p.mask = BitsToMask(Support(f)) /\ q.mask = BitsToMask(Support(g))
    BY <1>1, MaskIsSupport
  <2>2. Support(f) \in SUBSET Bits /\ Support(g) \in SUBSET Bits
    BY DEF Support
  <2> QED
    BY <2>1, <2>2, IsSubmaskByChunk
<1>4. PackedIntersect(p, q, BitsToMask(mask)) = Intersect(f, g, mask)
  BY <1>2 DEF PackedIntersect, Intersect
<1>5. PackedSubsums(p, q) = Subsums(f, g)
  BY <1>2 DEF PackedSubsums, Subsums
<1>6. PackedHasAny(p, BitsToMask(mask)) = (\E b \in mask : f[b] = ANY)
  BY <1>2 DEF PackedHasAny
<1>7. IsSubmask(p.mask, q.mask) = (Support(f) \subseteq Support(g))
  BY <1>3 DEF IsSubmask
<1> QED
  BY <1>1, <1>2, <1>4, <1>5, <1>6, <1>7 DEF p, q, AnswersAlike

-----------------------------------------------------------------------------
(* Orders of bits.                                                         *)

LEMMA IntervalSize ==
  ASSUME NEW n \in Nat
  PROVE  IsFiniteSet(1 .. n) /\ Cardinality(1 .. n) = n
BY FS_Interval

\* An injection of 1 .. n into a set of n elements meets all of them.
LEMMA InjectionIsOnto ==
  ASSUME NEW n \in Nat, NEW T, IsFiniteSet(T), Cardinality(T) = n,
         NEW f \in [1 .. n -> T],
         \A k, l \in 1 .. n : f[k] = f[l] => k = l
  PROVE  {f[k] : k \in 1 .. n} = T
<1>1. f \in Injection(1 .. n, T)
  BY DEF Injection, IsInjective
<1>2. f \in Surjection(1 .. n, T)
  BY <1>1, IntervalSize, FS_Injection
<1> QED
  BY <1>2 DEF Surjection

\* A subset of 1 .. n is smaller unless it is all of it.
LEMMA SubsetSize ==
  ASSUME NEW n \in Nat, NEW S, S \subseteq 1 .. n
  PROVE  /\ IsFiniteSet(S) /\ Cardinality(S) \in 0 .. n
         /\ Cardinality(S) = n => S = 1 .. n
<1>1. IsFiniteSet(1 .. n) /\ Cardinality(1 .. n) = n
  BY IntervalSize
<1>2. /\ IsFiniteSet(S) /\ Cardinality(S) <= Cardinality(1 .. n)
      /\ Cardinality(1 .. n) = Cardinality(S) => 1 .. n = S
  BY <1>1, FS_Subset
<1>3. Cardinality(S) \in Nat
  BY <1>2, FS_CardinalityType
<1> QED
  BY <1>1, <1>2, <1>3

\* Distinct ranks below n are the ranks 0 .. n - 1.
LEMMA RanksAreOnto ==
  ASSUME NEW n \in Nat, NEW rank \in [1 .. n -> 0 .. n - 1],
         \A k, l \in 1 .. n : k # l => rank[k] # rank[l],
         NEW p \in 1 .. n
  PROVE  \E k \in 1 .. n : rank[k] = p - 1
<1> DEFINE next == [k \in 1 .. n |-> rank[k] + 1]
<1>1. next \in [1 .. n -> 1 .. n]
  OBVIOUS
<1>2. ASSUME NEW k \in 1 .. n, NEW l \in 1 .. n, next[k] = next[l] PROVE k = l
  <2>1. rank[k] \in Int /\ rank[l] \in Int /\ rank[k] + 1 = rank[l] + 1
    BY <1>2
  <2>2. rank[k] = rank[l]
    BY <2>1
  <2> QED
    BY <2>2
<1>3. \A k \in 1 .. n : next[k] = rank[k] + 1
  OBVIOUS
<1> HIDE DEF next
<1>4. {next[k] : k \in 1 .. n} = 1 .. n
  BY <1>1, <1>2, IntervalSize, InjectionIsOnto
<1>5. PICK k \in 1 .. n : next[k] = p
  BY <1>4
<1>6. rank[k] = p - 1
  BY <1>3, <1>5
<1> QED
  BY <1>6

\* In a strict total order of n coordinates each has its own rank, so the
\* order lists every coordinate once.
LEMMA Chain2BitsPermutes ==
  ASSUME NEW n \in Nat, NEW chain, IsFiniteSet(chain)
  PROVE  /\ Chain2Bits(chain, n) \in [1 .. n -> 1 .. n]
         /\ \A p, q \in 1 .. n : Chain2Bits(chain, n)[p] = Chain2Bits(chain, n)[q] => p = q
         /\ \A p \in 1 .. n :
              Cardinality({l \in 1 .. n : Precedes(chain, l, Chain2Bits(chain, n)[p])}) = p - 1
<1> DEFINE under(k) == {l \in 1 .. n : Precedes(chain, l, k)}
           rank == [k \in 1 .. n |-> Cardinality(under(k))]
           order == Chain2Bits(chain, n)
<1>1. \A k : Level(chain, k) \in Nat
  BY FS_Subset, FS_CardinalityType DEF Level
<1>2. ASSUME NEW k \in 1 .. n
      PROVE  IsFiniteSet(under(k)) /\ Cardinality(under(k)) \in 0 .. n - 1
  <2>1. under(k) \subseteq 1 .. n /\ k \notin under(k)
    BY <1>1 DEF Precedes
  <2>2. IsFiniteSet(under(k)) /\ Cardinality(under(k)) \in 0 .. n /\ Cardinality(under(k)) # n
    BY <2>1, SubsetSize
  <2> HIDE DEF under
  <2> QED
    BY <2>2
<1>3. ASSUME NEW k \in 1 .. n, NEW l \in 1 .. n, Precedes(chain, k, l)
      PROVE  Cardinality(under(k)) # Cardinality(under(l))
  <2>1. under(k) \subseteq under(l)
    BY <1>1, <1>3 DEF Precedes
  <2>2. k \in under(l) /\ k \notin under(k)
    BY <1>1, <1>3 DEF Precedes
  <2> HIDE DEF under
  <2> QED
    BY <1>2, <2>1, <2>2, FS_Subset
<1>4. \A k, l \in 1 .. n : k # l => rank[k] # rank[l]
  <2> SUFFICES ASSUME NEW k \in 1 .. n, NEW l \in 1 .. n, k # l
               PROVE  Cardinality(under(k)) # Cardinality(under(l))
    OBVIOUS
  <2>1. Precedes(chain, k, l) \/ Precedes(chain, l, k)
    BY <1>1 DEF Precedes
  <2> HIDE DEF under
  <2> QED
    BY <1>3, <2>1
<1>5. rank \in [1 .. n -> 0 .. n - 1]
  BY <1>2
<1> DEFINE at(p) == CHOOSE k \in 1 .. n : Cardinality(under(k)) = p - 1
<1>6. ASSUME NEW p \in 1 .. n
      PROVE  at(p) \in 1 .. n /\ Cardinality(under(at(p))) = p - 1
  <2>1. \E k \in 1 .. n : rank[k] = p - 1
    <3> HIDE DEF rank
    <3> QED
      BY <1>4, <1>5, RanksAreOnto
  <2>2. \E k \in 1 .. n : Cardinality(under(k)) = p - 1
    BY <2>1
  <2> HIDE DEF under
  <2> QED
    BY <2>2
<1>7. order = [p \in 1 .. n |-> at(p)]
  BY DEF Chain2Bits
<1> HIDE DEF at, order
<1>8. order \in [1 .. n -> 1 .. n]
  BY <1>6, <1>7
<1>9. ASSUME NEW p \in 1 .. n, NEW q \in 1 .. n, order[p] = order[q] PROVE p = q
  <2>1. at(p) = at(q)
    BY <1>7, <1>9
  <2>2. p - 1 = q - 1
    BY <1>6, <2>1
  <2> QED
    BY <2>2
<1>10. \A p \in 1 .. n : Cardinality(under(order[p])) = p - 1
  BY <1>6, <1>7
<1> QED
  BY <1>8, <1>9, <1>10 DEF order

\* The coordinates are listed from the lowest level to the highest.
LEMMA Chain2BitsAscends ==
  ASSUME NEW n \in Nat, NEW chain, IsFiniteSet(chain),
         NEW p \in 1 .. n, NEW q \in 1 .. n, p < q
  PROVE  Level(chain, Chain2Bits(chain, n)[p]) <= Level(chain, Chain2Bits(chain, n)[q])
<1> DEFINE under(k) == {l \in 1 .. n : Precedes(chain, l, k)}
           k == Chain2Bits(chain, n)[p]
           l == Chain2Bits(chain, n)[q]
<1>1. \A m : Level(chain, m) \in Nat
  BY FS_Subset, FS_CardinalityType DEF Level
<1> DEFINE order == Chain2Bits(chain, n)
<1>2. /\ k \in 1 .. n /\ l \in 1 .. n
      /\ Cardinality(under(k)) = p - 1 /\ Cardinality(under(l)) = q - 1
  <2>1. order[p] \in 1 .. n /\ order[q] \in 1 .. n
    BY Chain2BitsPermutes
  <2>2. \A r \in 1 .. n : Cardinality(under(order[r])) = r - 1
    BY Chain2BitsPermutes
  <2> HIDE DEF under, order
  <2> QED
    BY <2>1, <2>2 DEF order
<1> HIDE DEF k, l
<1>3. SUFFICES ASSUME Level(chain, l) < Level(chain, k) PROVE FALSE
  BY <1>1 DEF k, l
<1>4. under(l) \subseteq under(k)
  BY <1>1, <1>3 DEF Precedes
<1>5. IsFiniteSet(under(k))
  BY SubsetSize
<1> HIDE DEF under
<1>6. Cardinality(under(l)) <= Cardinality(under(k))
  BY <1>4, <1>5, FS_Subset
<1> QED
  BY <1>2, <1>6

\* In the order computed from a chain the bits of each of its supports come
\* first.
LEMMA SupportsComeFirst ==
  ASSUME NEW n \in Nat, NEW chain, IsFiniteSet(chain), IsChain(chain),
         NEW s \in chain,
         NEW p \in 1 .. n, NEW q \in 1 .. n, p < q,
         Chain2Bits(chain, n)[p] \notin s
  PROVE  Chain2Bits(chain, n)[q] \notin s
<1> DEFINE without(k) == {t \in chain : k \notin t}
           k == Chain2Bits(chain, n)[p]
           l == Chain2Bits(chain, n)[q]
<1>1. Level(chain, k) <= Level(chain, l)
  BY Chain2BitsAscends
<1> HIDE DEF k, l
<1>2. SUFFICES ASSUME l \in s PROVE FALSE
  BY DEF l
<1>3. without(l) \subseteq without(k)
  <2> SUFFICES ASSUME NEW t \in chain, l \notin t PROVE k \notin t
    OBVIOUS
  <2>1. t \subseteq s
    BY <1>2 DEF IsChain
  <2> QED
    BY <2>1 DEF k
<1>4. s \in without(k) /\ s \notin without(l)
  BY <1>2 DEF k
<1>5. IsFiniteSet(without(k)) /\ IsFiniteSet(without(l))
  BY FS_Subset
<1>6. Cardinality(without(k)) = Level(chain, k) /\ Cardinality(without(l)) = Level(chain, l)
  BY DEF Level
<1> HIDE DEF without
<1>7. Cardinality(without(l)) <= Cardinality(without(k)) /\ without(l) # without(k)
  BY <1>3, <1>4, <1>5, FS_Subset
<1>8. Cardinality(without(l)) # Cardinality(without(k))
  BY <1>3, <1>5, <1>7, FS_Subset
<1>9. Cardinality(without(k)) \in Nat /\ Cardinality(without(l)) \in Nat
  BY <1>5, FS_CardinalityType
<1> QED
  BY <1>1, <1>6, <1>7, <1>8, <1>9

\* So every filter on that support is a prefix then.
LEMMA ChainMakesPrefixes ==
  ASSUME NEW n \in Nat, NEW chain, IsFiniteSet(chain), IsChain(chain),
         NEW f, DOMAIN f = 1 .. n, Exact(f) \in chain
  PROVE  IsPrefix(Reordered(f, Chain2Bits(chain, n)))
<1> DEFINE order == Chain2Bits(chain, n)
<1>1. order \in [1 .. n -> 1 .. n]
  BY Chain2BitsPermutes
<1>2. \A p, q \in 1 .. n : p < q /\ order[p] \notin Exact(f) => order[q] \notin Exact(f)
  BY SupportsComeFirst
<1> HIDE DEF order
<1>3. DOMAIN Reordered(f, order) = 1 .. n /\ \A p \in 1 .. n : Reordered(f, order)[p] = f[order[p]]
  BY <1>1 DEF Reordered
<1>4. \A p \in 1 .. n : f[order[p]] = ANY <=> order[p] \notin Exact(f)
  BY <1>1 DEF Exact
<1>5. IsPrefix(Reordered(f, order))
  BY <1>2, <1>3, <1>4 DEF IsPrefix
<1> QED
  BY <1>5 DEF order

-----------------------------------------------------------------------------
(* Sums.                                                                   *)
(*                                                                         *)
(* A sum of naturals over a finite set counts its units: as many pairs for *)
(* each element as it weighs.                                              *)

Units(w, S) == {u \in S \X Nat : 1 <= u[2] /\ u[2] <= w[u[1]]}

\* What the folds of the community modules compute, taking the elements out
\* one by one.
Sums(w, S, sum) ==
  sum = [s \in SUBSET S |->
           IF s = {} THEN 0
           ELSE LET x == CHOOSE x \in s : TRUE
                IN  w[x] + sum[s \ {x}]]

LEMMA UnitsOfOne ==
  ASSUME NEW w, NEW s, NEW x \in s, w[x] \in Nat, IsFiniteSet(Units(w, s \ {x}))
  PROVE  /\ IsFiniteSet(Units(w, s))
         /\ Cardinality(Units(w, s)) = w[x] + Cardinality(Units(w, s \ {x}))
<1> DEFINE U == Units(w, s \ {x})
           V == {x} \X (1 .. w[x])
<1>1. Units(w, s) = U \cup V /\ U \cap V = {}
  <2>1. ASSUME NEW u \in Units(w, s) PROVE u \in U \cup V
    BY <2>1 DEF Units
  <2>2. ASSUME NEW u \in U PROVE u \in Units(w, s) /\ u \notin V
    BY <2>2 DEF Units
  <2>3. ASSUME NEW u \in V PROVE u \in Units(w, s)
    BY <2>3 DEF Units
  <2> QED
    BY <2>1, <2>2, <2>3, Zenon
<1>2. IsFiniteSet(V) /\ Cardinality(V) = w[x]
  <2> DEFINE A == {x}
             B == 1 .. w[x]
  <2>1. IsFiniteSet(B) /\ Cardinality(B) = w[x]
    BY IntervalSize
  <2>2. IsFiniteSet(A) /\ Cardinality(A) = 1
    BY FS_Singleton
  <2> HIDE DEF A, B
  <2>3. IsFiniteSet(A \X B) /\ Cardinality(A \X B) = 1 * w[x]
    BY <2>1, <2>2, FS_Product
  <2>4. V = A \X B
    BY DEF A, B
  <2> QED
    BY <2>3, <2>4
<1>3. IsFiniteSet(U) /\ Cardinality(U) \in Nat
  BY FS_CardinalityType
<1> HIDE DEF U, V
<1>4. IsFiniteSet(U \cup V)
      /\ Cardinality(U \cup V) = Cardinality(U) + Cardinality(V) - Cardinality(U \cap V)
  BY <1>2, <1>3, FS_Union
<1>5. Cardinality(U \cap V) = 0
  BY <1>1, FS_EmptySet
<1> QED
  BY <1>1, <1>2, <1>3, <1>4, <1>5 DEF U

LEMMA NoUnits ==
  ASSUME NEW w
  PROVE  Units(w, {}) = {} /\ IsFiniteSet(Units(w, {})) /\ Cardinality(Units(w, {})) = 0
<1>1. Units(w, {}) = {}
  BY DEF Units
<1> QED
  BY <1>1, FS_EmptySet

LEMMA UnitsFinite ==
  ASSUME NEW w, NEW S, IsFiniteSet(S), \A x \in S : w[x] \in Nat
  PROVE  IsFiniteSet(Units(w, S))
<1> DEFINE Bad == {n \in Nat : \E s \in SUBSET S : /\ Cardinality(s) = n
                                                  /\ ~ IsFiniteSet(Units(w, s))}
<1>1. CASE Bad = {}
  <2>1. Cardinality(S) \in Nat /\ S \in SUBSET S
    BY FS_CardinalityType
  <2> QED
    BY <1>1, <2>1
<1>2. CASE Bad # {}
  <2>1. PICK n \in Bad : \A m \in Bad : n <= m
    BY <1>2, FirstIsLeast
  <2>2. PICK s \in SUBSET S : Cardinality(s) = n /\ ~ IsFiniteSet(Units(w, s))
    BY <2>1
  <2>3. IsFiniteSet(s) /\ n \in Nat
    BY <2>1, FS_Subset
  <2>4. PICK x : x \in s
    BY <2>2, NoUnits
  <2>5. /\ s \ {x} \in SUBSET S /\ Cardinality(s \ {x}) = n - 1
        /\ Cardinality(s \ {x}) \in Nat
    BY <2>2, <2>3, <2>4, FS_RemoveElement, FS_CardinalityType
  <2>6. ~ IsFiniteSet(Units(w, s \ {x}))
    BY <2>2, <2>4, UnitsOfOne
  <2>7. n - 1 \in Bad
    BY <2>5, <2>6
  <2> HIDE DEF Bad
  <2>8. n <= n - 1
    BY <2>1, <2>7
  <2> QED
    BY <2>3, <2>8
<1> QED
  BY <1>1, <1>2

LEMMA UnitsStep ==
  ASSUME NEW w, NEW S, IsFiniteSet(S), \A y \in S : w[y] \in Nat,
         NEW s \in SUBSET S, NEW x \in s
  PROVE  /\ Cardinality(Units(w, s)) = w[x] + Cardinality(Units(w, s \ {x}))
         /\ Cardinality(Units(w, s)) \in Nat
<1>1. IsFiniteSet(s) /\ IsFiniteSet(s \ {x}) /\ w[x] \in Nat
  BY FS_Subset, FS_RemoveElement
<1>2. \A y \in s \ {x} : w[y] \in Nat
  OBVIOUS
<1>3. IsFiniteSet(Units(w, s \ {x}))
  BY <1>1, <1>2, UnitsFinite
<1>4. IsFiniteSet(Units(w, s))
      /\ Cardinality(Units(w, s)) = w[x] + Cardinality(Units(w, s \ {x}))
  BY <1>1, <1>3, UnitsOfOne
<1> QED
  BY <1>4, FS_CardinalityType

LEMMA SumsExist ==
  ASSUME NEW w, NEW S, IsFiniteSet(S), \A x \in S : w[x] \in Nat
  PROVE  \E sum : Sums(w, S, sum)
<1> DEFINE sum == [s \in SUBSET S |-> Cardinality(Units(w, s))]
<1>1. ASSUME NEW s \in SUBSET S
      PROVE  sum[s] = IF s = {} THEN 0
                      ELSE LET x == CHOOSE x \in s : TRUE
                           IN  w[x] + sum[s \ {x}]
  <2>1. CASE s = {}
    BY <2>1, NoUnits
  <2>2. CASE s # {}
    <3> DEFINE x == CHOOSE x \in s : TRUE
    <3>1. x \in s /\ s \ {x} \in SUBSET S
      BY <2>2
    <3> HIDE DEF x
    <3>2. Cardinality(Units(w, s)) = w[x] + Cardinality(Units(w, s \ {x}))
      BY <3>1, UnitsStep
    <3> QED
      BY <2>2, <3>1, <3>2 DEF x
  <2> QED
    BY <2>1, <2>2
<1>2. Sums(w, S, sum)
  BY <1>1, Zenon DEF Sums
<1> QED
  BY <1>2

LEMMA SumCountsUnits ==
  ASSUME NEW w, NEW S, IsFiniteSet(S), \A x \in S : w[x] \in Nat,
         NEW sum, Sums(w, S, sum)
  PROVE  sum[S] = Cardinality(Units(w, S))
<1> DEFINE Bad == {n \in Nat : \E s \in SUBSET S : /\ Cardinality(s) = n
                                                  /\ sum[s] # Cardinality(Units(w, s))}
<1>1. CASE Bad = {}
  <2>1. Cardinality(S) \in Nat /\ S \in SUBSET S
    BY FS_CardinalityType
  <2> QED
    BY <1>1, <2>1
<1>2. CASE Bad # {}
  <2>1. PICK n \in Bad : \A m \in Bad : n <= m
    BY <1>2, FirstIsLeast
  <2>2. PICK s \in SUBSET S : Cardinality(s) = n /\ sum[s] # Cardinality(Units(w, s))
    BY <2>1
  <2>3. IsFiniteSet(s) /\ n \in Nat
    BY <2>1, FS_Subset
  <2>4. sum[s] = IF s = {} THEN 0
                 ELSE LET x == CHOOSE x \in s : TRUE
                      IN  w[x] + sum[s \ {x}]
    BY DEF Sums
  <2>5. s # {}
    BY <2>2, <2>4, NoUnits
  <2> DEFINE x == CHOOSE x \in s : TRUE
  <2>6. x \in s /\ sum[s] = w[x] + sum[s \ {x}]
    BY <2>4, <2>5
  <2> HIDE DEF x
  <2>7. /\ s \ {x} \in SUBSET S /\ Cardinality(s \ {x}) = n - 1
        /\ Cardinality(s \ {x}) \in Nat
    BY <2>2, <2>3, <2>6, FS_RemoveElement, FS_CardinalityType
  <2>8. sum[s \ {x}] # Cardinality(Units(w, s \ {x}))
    BY <2>2, <2>6, UnitsStep
  <2>9. n - 1 \in Bad
    BY <2>7, <2>8
  <2> HIDE DEF Bad
  <2>10. n <= n - 1
    BY <2>1, <2>9
  <2> QED
    BY <2>3, <2>10
<1> QED
  BY <1>1, <1>2

\* What is covered by sets that are as large as the elements weigh is no more
\* than the elements weigh together.
LEMMA CoverBound ==
  ASSUME NEW w, NEW S, IsFiniteSet(S), NEW N, NEW cover,
         \A x \in S : IsFiniteSet(cover[x]) /\ w[x] = Cardinality(cover[x]),
         \A y \in N : \E x \in S : y \in cover[x]
  PROVE  IsFiniteSet(N) /\ Cardinality(N) <= Cardinality(Units(w, S))
<1>1. \A x \in S : /\ w[x] \in Nat
                   /\ \E e : e \in Surjection(1 .. w[x], cover[x])
  BY FS_CardinalityType DEF ExistsBijection, Bijection
<1>2. IsFiniteSet(Units(w, S))
  BY <1>1, UnitsFinite
<1> DEFINE nth == [x \in S |-> CHOOSE e : e \in Surjection(1 .. w[x], cover[x])]
           C == {u \in Units(w, S) : nth[u[1]][u[2]] \in N}
           f == [u \in C |-> nth[u[1]][u[2]]]
<1>3. \A x \in S : nth[x] \in Surjection(1 .. w[x], cover[x])
  BY <1>1
<1> HIDE DEF nth
<1>4. C \in SUBSET Units(w, S)
  OBVIOUS
<1>5. f \in [C -> N]
  OBVIOUS
<1>6. ASSUME NEW y \in N PROVE \E u \in C : f[u] = y
  <2>1. PICK x \in S : y \in cover[x]
    OBVIOUS
  <2>2. PICK i \in 1 .. w[x] : nth[x][i] = y
    BY <1>3, <2>1 DEF Surjection
  <2>3. <<x, i>> \in Units(w, S)
    BY <1>1, <2>2 DEF Units
  <2>4. <<x, i>> \in C
    BY <2>2, <2>3
  <2> QED
    BY <2>2, <2>4
<1> HIDE DEF C, f
<1>7. f \in Surjection(C, N)
  BY <1>5, <1>6 DEF Surjection
<1>8. IsFiniteSet(C) /\ Cardinality(C) <= Cardinality(Units(w, S))
  BY <1>2, <1>4, FS_Subset
<1>9. IsFiniteSet(N) /\ Cardinality(N) <= Cardinality(C)
  BY <1>7, <1>8, FS_Surjection
<1>10. Cardinality(N) \in Nat /\ Cardinality(C) \in Nat /\ Cardinality(Units(w, S)) \in Nat
  BY <1>2, <1>8, <1>9, FS_CardinalityType
<1> QED
  BY <1>8, <1>9, <1>10
=============================================================================
