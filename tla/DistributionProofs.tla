-------------------------- MODULE DistributionProofs --------------------------
(***************************************************************************)
(* A line of switches decides every header as the classifier it was cut    *)
(* from, for every classifier and all capacities.                          *)
(*                                                                         *)
(* Minimization enters as two facts about a list: it decides what the list *)
(* decided, and it leaves no list of NOP rules but the empty one.  For the *)
(* cut the proof looks at the first rule that matches a header: what the   *)
(* switch got are the rules before the cut, or one rule more when the last *)
(* probe was too long, and that rule is still in what is left.             *)
(***************************************************************************)
EXTENDS Distribution, TernaryProofs, SequenceTheorems

-----------------------------------------------------------------------------
(* utils::subset.                                                          *)

\* Positions are numbered in their order: the numbers grow,
LEMMA BeforeGrows ==
  ASSUME NEW S \in SUBSET Nat, IsFiniteSet(S), NEW i \in S, NEW j \in S, i < j
  PROVE  Before(S, i) < Before(S, j)
<1> DEFINE I == {k \in S : k < i}
           J == {k \in S : k < j}
<1>1. IsFiniteSet(I) /\ IsFiniteSet(J)
  BY FS_Subset
<1>2. I \subseteq J /\ i \in J /\ i \notin I
  <2>1. ASSUME NEW k \in I PROVE k \in J
    <3>1. k \in Nat /\ i \in Nat /\ j \in Nat /\ k < i /\ k \in S
      OBVIOUS
    <3>2. k < j
      BY <3>1
    <3> QED
      BY <3>1, <3>2
  <2>2. ~ (i < i)
    <3>1. i \in Nat
      OBVIOUS
    <3> QED
      BY <3>1
  <2> QED
    BY <2>1, <2>2
<1>3. I \cup {i} \subseteq J
  BY <1>2
<1> HIDE DEF I, J
<1>4. Cardinality(I \cup {i}) = Cardinality(I) + 1 /\ IsFiniteSet(I \cup {i})
  BY <1>1, <1>2, FS_AddElement
<1>5. Cardinality(I \cup {i}) <= Cardinality(J)
  BY <1>1, <1>3, FS_Subset
<1>6. Cardinality(I) \in Nat /\ Cardinality(J) \in Nat
  BY <1>1, FS_CardinalityType
<1> QED
  BY <1>4, <1>5, <1>6 DEF Before, I, J

\* and they are those from zero to one less than there are positions.
LEMMA BeforeFits ==
  ASSUME NEW S \in SUBSET Nat, IsFiniteSet(S), NEW i \in S
  PROVE  Before(S, i) \in 0 .. Cardinality(S) - 1
<1> DEFINE I == {k \in S : k < i}
<1>1. IsFiniteSet(I) /\ I \subseteq S /\ i \in S /\ i \notin I
  <2>1. i \in Nat
    OBVIOUS
  <2> QED
    BY <2>1, FS_Subset
<1> HIDE DEF I
<1>2. I # S
  BY <1>1
<1>3. Cardinality(I) <= Cardinality(S) /\ Cardinality(I) # Cardinality(S)
  BY <1>1, <1>2, FS_Subset
<1>4. Cardinality(I) \in Nat /\ Cardinality(S) \in Nat
  BY <1>1, FS_CardinalityType
<1> QED
  BY <1>3, <1>4 DEF Before, I

\* Every number is that of a position.
LEMMA PositionExists ==
  ASSUME NEW S \in SUBSET Nat, IsFiniteSet(S), NEW n \in 0 .. Cardinality(S) - 1
  PROVE  Position(S, n) \in S /\ Before(S, Position(S, n)) = n
<1> DEFINE T == 0 .. Cardinality(S) - 1
           rank == [i \in S |-> Before(S, i)]
<1>1. Cardinality(S) \in Nat
  BY FS_CardinalityType
<1>2. IsFiniteSet(T) /\ Cardinality(T) = Cardinality(S)
  BY <1>1, FS_Interval
<1>3. rank \in [S -> T]
  BY BeforeFits
<1>4. ASSUME NEW i \in S, NEW j \in S, rank[i] = rank[j]
      PROVE  i = j
  <2>1. rank[i] = Before(S, i) /\ rank[j] = Before(S, j)
    OBVIOUS
  <2>2. Before(S, i) \in Int /\ Before(S, j) \in Int
    BY BeforeFits
  <2>3. ~ (i < j) /\ ~ (j < i)
    BY <1>4, <2>1, <2>2, BeforeGrows
  <2>4. i \in Nat /\ j \in Nat
    OBVIOUS
  <2> QED
    BY <2>3, <2>4
<1>5. rank \in Injection(S, T)
  BY <1>3, <1>4 DEF Injection, IsInjective
<1>6. rank \in Surjection(S, T)
  BY <1>2, <1>5, FS_Injection
<1>7. \E i \in S : rank[i] = n
  BY <1>6 DEF Surjection
<1>8. \E i \in S : Before(S, i) = n
  BY <1>7
<1> QED
  BY <1>8 DEF Position

\* The rules kept are in their order.
LEMMA PositionGrows ==
  ASSUME NEW S \in SUBSET Nat, IsFiniteSet(S),
         NEW m \in 0 .. Cardinality(S) - 1, NEW n \in 0 .. Cardinality(S) - 1, m <= n
  PROVE  Position(S, m) <= Position(S, n)
<1> DEFINE x == Position(S, m)
           y == Position(S, n)
<1>1. x \in S /\ Before(S, x) = m /\ y \in S /\ Before(S, y) = n
  BY PositionExists
<1> HIDE DEF x, y
<1>2. ~ (y < x)
  <2>1. SUFFICES ASSUME y < x PROVE FALSE
    OBVIOUS
  <2>2. n < m
    BY <1>1, <2>1, BeforeGrows
  <2>3. m \in Int /\ n \in Int
    OBVIOUS
  <2> QED
    BY <2>2, <2>3
<1>3. x \in Nat /\ y \in Nat
  BY <1>1
<1> QED
  BY <1>2, <1>3 DEF x, y

\* A position that is kept is found under its number.
LEMMA PositionOfRank ==
  ASSUME NEW S \in SUBSET Nat, IsFiniteSet(S), NEW i \in S
  PROVE  Position(S, Before(S, i)) = i
<1> DEFINE x == Position(S, Before(S, i))
<1>1. x \in S /\ Before(S, x) = Before(S, i)
  BY BeforeFits, PositionExists
<1> HIDE DEF x
<1>2. Before(S, i) \in Int
  BY BeforeFits
<1>3. ~ (x < i) /\ ~ (i < x)
  BY <1>1, <1>2, BeforeGrows
<1>4. x \in Nat /\ i \in Nat
  BY <1>1
<1>5. x = i
  BY <1>3, <1>4
<1> QED
  BY <1>5 DEF x

\* The rules kept are a list, each of them at the number of its position.
LEMMA SubsetIsList ==
  ASSUME NEW list \in Seq(Rule), NEW S \in SUBSET DOMAIN list
  PROVE  /\ Subset(list, S) \in Seq(Rule)
         /\ Len(Subset(list, S)) = Cardinality(S)
         /\ \A k \in 1 .. Cardinality(S) :
              /\ Position(S, k - 1) \in S
              /\ Subset(list, S)[k] = list[Position(S, k - 1)]
         /\ \A i \in S : /\ Before(S, i) \in 0 .. Cardinality(S) - 1
                         /\ Position(S, Before(S, i) + 1 - 1) = i
                         /\ Subset(list, S)[Before(S, i) + 1] = list[i]
<1> DEFINE n == Cardinality(S)
           sub == Subset(list, S)
<1>1. S \in SUBSET Nat /\ IsFiniteSet(S) /\ n \in Nat
  BY Positions, FS_Subset, FS_CardinalityType
<1>2. ASSUME NEW k \in 1 .. n
      PROVE  /\ Position(S, k - 1) \in S
             /\ list[Position(S, k - 1)] \in Rule
             /\ sub[k] = list[Position(S, k - 1)]
  <2>1. k - 1 \in 0 .. n - 1
    BY <1>1
  <2>2. Position(S, k - 1) \in S
    BY <1>1, <2>1, PositionExists
  <2> QED
    BY <2>2 DEF Subset
<1>3. ASSUME NEW i \in S
      PROVE  /\ Before(S, i) \in 0 .. n - 1
             /\ Position(S, Before(S, i) + 1 - 1) = i
             /\ sub[Before(S, i) + 1] = list[i]
  <2>1. Before(S, i) \in 0 .. n - 1
    BY <1>1, BeforeFits
  <2>2. Before(S, i) + 1 - 1 = Before(S, i) /\ Before(S, i) + 1 \in 1 .. n
    BY <1>1, <2>1
  <2>3. Position(S, Before(S, i) + 1 - 1) = i
    BY <1>1, <2>2, PositionOfRank
  <2> QED
    BY <1>2, <2>1, <2>2, <2>3
<1>4. sub \in [1 .. n -> Rule]
  BY <1>2 DEF Subset
<1> HIDE DEF sub, n
<1>5. sub \in Seq(Rule) /\ Len(sub) = n
  BY <1>1, <1>4
<1> QED
  BY <1>2, <1>3, <1>5 DEF sub, n

\* The list of the rules kept decides what they decide where they were.
LEMMA SubsetDecides ==
  ASSUME NEW list \in Seq(Rule), NEW S \in SUBSET DOMAIN list, NEW h \in Header
  PROVE  DecideAll(Subset(list, S), h) = Decide(list, S, h)
<1> DEFINE n == Cardinality(S)
           sub == Subset(list, S)
           pos(k) == Position(S, k - 1)
           rank(i) == Before(S, i) + 1
           M == Matching(list, S, h)
           N == Matching(sub, 1 .. n, h)
<1>1. S \in SUBSET Nat /\ IsFiniteSet(S) /\ n \in Nat
  BY Positions, FS_Subset, FS_CardinalityType
<1>2. sub \in Seq(Rule) /\ Len(sub) = n /\ DOMAIN sub = 1 .. n
  BY <1>1, SubsetIsList, Positions
<1>3. \A k \in 1 .. n : pos(k) \in S /\ sub[k] = list[pos(k)]
  BY SubsetIsList
<1>4. ASSUME NEW i \in S
      PROVE  rank(i) \in 1 .. n /\ pos(rank(i)) = i /\ sub[rank(i)] = list[i]
  <2>1. /\ Before(S, i) \in 0 .. n - 1
        /\ pos(rank(i)) = i /\ sub[rank(i)] = list[i]
    BY SubsetIsList
  <2> QED
    BY <1>1, <2>1
<1>5. ASSUME NEW a \in 1 .. n, NEW b \in 1 .. n, a <= b
      PROVE  pos(a) <= pos(b)
  <2>1. a - 1 \in 0 .. n - 1 /\ b - 1 \in 0 .. n - 1 /\ a - 1 <= b - 1
    BY <1>1, <1>5
  <2> QED
    BY <1>1, <2>1, PositionGrows
<1> HIDE DEF sub, pos, rank, n
<1>6. ASSUME NEW k \in N PROVE k \in 1 .. n /\ pos(k) \in M
  BY <1>3 DEF Matching
<1>7. ASSUME NEW i \in M PROVE i \in S /\ rank(i) \in N
  BY <1>4 DEF Matching
<1>8. M \subseteq Nat /\ N \subseteq Nat
  BY <1>1 DEF Matching
<1>9. DecideAll(sub, h) = IF N = {} THEN NOP ELSE sub[First(N)].action
  BY <1>2 DEF DecideAll, Decide
<1>10. Decide(list, S, h) = IF M = {} THEN NOP ELSE list[First(M)].action
  BY DEF Decide
<1>11. CASE N = {}
  <2>1. M = {}
    BY <1>7, <1>11
  <2> QED
    BY <1>9, <1>10, <1>11, <2>1 DEF sub
<1>12. CASE N # {}
  <2> DEFINE k == First(N)
  <2>1. k \in N /\ \A o \in N : k <= o
    BY <1>8, <1>12, FirstIsLeast
  <2> HIDE DEF k
  <2>2. pos(k) \in M /\ k \in 1 .. n
    BY <1>6, <2>1
  <2>3. ASSUME NEW i \in M PROVE pos(k) <= i
    <3>1. i \in S /\ rank(i) \in N /\ rank(i) \in 1 .. n /\ pos(rank(i)) = i
      BY <1>4, <1>7
    <3>2. k <= rank(i)
      BY <2>1, <3>1
    <3>3. pos(k) <= pos(rank(i))
      BY <1>5, <2>2, <3>1, <3>2
    <3> QED
      BY <3>1, <3>3
  <2>4. First(M) = pos(k)
    BY <1>8, <2>2, <2>3, FirstUnique
  <2>5. sub[k] = list[pos(k)]
    BY <1>3, <2>2
  <2> QED
    BY <1>9, <1>10, <1>12, <2>2, <2>4, <2>5 DEF sub, k
<1> QED
  BY <1>11, <1>12

-----------------------------------------------------------------------------
(* Minimization.                                                           *)

\* Minimizing a list changes nothing that it decides.
LEMMA MinimizedDecides ==
  ASSUME NEW list \in Seq(Rule)
  PROVE  /\ Minimized(list) \in Seq(Rule)
         /\ \A h \in Header : DecideAll(Minimized(list), h) = DecideAll(list, h)
<1> DEFINE F == ForwardPass(list, DOMAIN list)
           B == BackwardPass(list, F)
<1>1. F \in SUBSET DOMAIN list /\ B \in SUBSET DOMAIN list
  BY DEF ForwardPass, BackwardPass
<1> HIDE DEF F, B
<1>2. Subset(list, B) \in Seq(Rule)
  BY <1>1, SubsetIsList
<1>3. ASSUME NEW h \in Header PROVE DecideAll(Subset(list, B), h) = DecideAll(list, h)
  <2>1. DecideAll(Subset(list, B), h) = Decide(list, B, h)
    BY <1>1, SubsetDecides
  <2>2. Decide(list, B, h) = Decide(list, F, h)
    BY <1>1, BackwardSound DEF B
  <2>3. Decide(list, F, h) = DecideAll(list, h)
    BY ForwardSound DEF F, DecideAll
  <2> QED
    BY <2>1, <2>2, <2>3
<1> QED
  BY <1>2, <1>3 DEF Minimized, F, B

\* The last rule that acts survives the backward pass: it is no NOP, and a
\* subsumer would be a later rule with its action.
LEMMA LastActingStays ==
  ASSUME NEW list \in Seq(Rule), NEW S \in SUBSET DOMAIN list,
         NEW k \in S, list[k].action # NOP,
         \A o \in S : list[o].action # NOP => o <= k
  PROVE  k \in BackwardPass(list, S)
<1> SUFFICES ASSUME NEW s \in Subsumers(list, k, S) PROVE FALSE
  BY DEF BackwardPass, BackwardSubsumed
<1>1. PICK m \in Masks(list, S) : /\ OffersSubsumer(list, k, m, S)
                                  /\ s = First(Hits(list, k, m, S, TRUE))
  BY DEF Subsumers
<1>2. Hits(list, k, m, S, TRUE) \subseteq Nat
  BY Positions DEF Hits
<1>3. Hits(list, k, m, S, TRUE) # {} /\ list[s].action = list[k].action
  BY <1>1 DEF OffersSubsumer
<1>4. s \in Hits(list, k, m, S, TRUE)
  BY <1>1, <1>2, <1>3, FirstIsLeast
<1>5. s \in S /\ s > k /\ s \in Nat /\ k \in Nat
  BY <1>4, Positions DEF Hits
<1>6. s <= k
  BY <1>3, <1>5
<1> QED
  BY <1>5, <1>6

\* Without a rule that acts there is no conflict, and every NOP goes.
LEMMA NopsGo ==
  ASSUME NEW list, NEW S, \A k \in S : list[k].action = NOP
  PROVE  BackwardPass(list, S) = {}
<1> SUFFICES ASSUME NEW k \in S PROVE BackwardSubsumed(list, k, S)
  BY DEF BackwardPass
<1>1. \A m : \A o \in Hits(list, k, m, S, TRUE) : list[o].action = list[k].action
  BY DEF Hits
<1>2. Conflicts(list, k, S) = {}
  BY <1>1 DEF Conflicts
<1> QED
  BY <1>2 DEF BackwardSubsumed

\* Minimization leaves no list of rules none of which acts.
LEMMA MinimizedActs ==
  ASSUME NEW list \in Seq(Rule),
         \A k \in DOMAIN Minimized(list) : Minimized(list)[k].action = NOP
  PROVE  Minimized(list) = <<>>
<1> DEFINE F == ForwardPass(list, DOMAIN list)
           B == BackwardPass(list, F)
           X == {k \in F : list[k].action # NOP}
<1>1. F \in SUBSET DOMAIN list /\ B \in SUBSET DOMAIN list
  BY DEF ForwardPass, BackwardPass
<1>2. Len(list) \in Nat /\ DOMAIN list = 1 .. Len(list) /\ IsFiniteSet(B)
      /\ Cardinality(B) \in Nat
  BY <1>1, Positions, FS_Subset, FS_CardinalityType
<1> HIDE DEF F
<1>3. Minimized(list) = Subset(list, B)
  BY DEF Minimized, F
<1>4. CASE X # {}
  <2>1. X \subseteq 1 .. Len(list)
    BY <1>1, <1>2
  <2>2. PICK k \in X : \A o \in X : o <= k
    BY <1>2, <1>4, <2>1, LastExists
  <2>3. k \in B
    BY <1>1, <2>2, LastActingStays
  <2> HIDE DEF B
  <2>4. /\ Before(B, k) \in 0 .. Cardinality(B) - 1
        /\ Subset(list, B)[Before(B, k) + 1] = list[k]
        /\ Subset(list, B) \in Seq(Rule) /\ Len(Subset(list, B)) = Cardinality(B)
    BY <1>1, <2>3, SubsetIsList
  <2>5. Before(B, k) + 1 \in DOMAIN Subset(list, B)
    BY <1>2, <2>4
  <2> QED
    BY <1>3, <2>4, <2>5
<1>5. CASE X = {}
  <2>1. B = {}
    BY <1>5, NopsGo
  <2>2. Cardinality(B) = 0
    BY <2>1, FS_EmptySet
  <2>3. Subset(list, B) \in Seq(Rule) /\ Len(Subset(list, B)) = 0
    BY <1>1, <2>2, SubsetIsList
  <2> QED
    BY <1>3, <2>3
<1> QED
  BY <1>4, <1>5

-----------------------------------------------------------------------------
(* The cut.                                                                *)

LEMMA PrefixDecides ==
  ASSUME NEW list \in Seq(Rule), NEW q \in 0 .. Len(list)
  PROVE  /\ SubSeq(list, 1, q) \in Seq(Rule)
         /\ \A h \in Header :
              DecideAll(SubSeq(list, 1, q), h) = Decide(list, 1 .. q, h)
<1> DEFINE prefix == SubSeq(list, 1, q)
<1>1. prefix \in Seq(Rule) /\ Len(prefix) = q /\ q \in Nat
  BY SubSeqProperties
<1>2. DOMAIN prefix = 1 .. q /\ \A k \in 1 .. q : prefix[k] = list[k]
  BY <1>1, SubSeqProperties
<1> HIDE DEF prefix
<1>3. ASSUME NEW h \in Header PROVE DecideAll(prefix, h) = Decide(list, 1 .. q, h)
  <2>1. Matching(prefix, 1 .. q, h) = Matching(list, 1 .. q, h)
    BY <1>2 DEF Matching
  <2>2. Matching(list, 1 .. q, h) \subseteq 1 .. q /\ 1 .. q \subseteq Nat
    BY DEF Matching
  <2>3. CASE Matching(list, 1 .. q, h) = {}
    BY <1>2, <2>1, <2>3 DEF DecideAll, Decide
  <2>4. CASE Matching(list, 1 .. q, h) # {}
    <3>1. First(Matching(list, 1 .. q, h)) \in 1 .. q
      BY <2>2, <2>4, FirstIsLeast
    <3> QED
      BY <1>2, <2>1, <3>1 DEF DecideAll, Decide
  <2> QED
    BY <2>3, <2>4
<1> QED
  BY <1>1, <1>3 DEF prefix

\* The rules of the list that match a header.
HitsOf(list, h) == Matching(list, DOMAIN list, h)

\* What the list, a prefix of it and the rules from the cut on decide, in
\* terms of the first rule that matches.
LEMMA FirstDecides ==
  ASSUME NEW list \in Seq(Rule), NEW h \in Header, NEW q \in 0 .. Len(list)
  PROVE  LET M == HitsOf(list, h)
         IN  /\ M \subseteq DOMAIN list
             /\ M = {} => DecideAll(list, h) = NOP /\ Decide(list, 1 .. q, h) = NOP
             /\ M # {} =>
                  /\ First(M) \in M
                  /\ DecideAll(list, h) = list[First(M)].action
                  /\ First(M) <= q => Decide(list, 1 .. q, h) = list[First(M)].action
                  /\ First(M) > q => Decide(list, 1 .. q, h) = NOP
<1> DEFINE M == HitsOf(list, h)
           N == Matching(list, 1 .. q, h)
<1>1. M \subseteq DOMAIN list /\ M \subseteq Nat /\ DOMAIN list = 1 .. Len(list)
      /\ Len(list) \in Nat /\ q \in Nat
  BY Positions DEF HitsOf, Matching
<1>2. N = {k \in M : k <= q}
  <2>1. 1 .. q \subseteq DOMAIN list
    BY <1>1
  <2>2. \A k \in N : k \in 1 .. q
    BY DEF HitsOf, Matching
  <2>3. \A k \in N : k \in M /\ k <= q
    BY <2>1, <2>2 DEF HitsOf, Matching
  <2>4. ASSUME NEW k \in M, k <= q PROVE k \in N
    <3>1. k \in 1 .. q
      BY <1>1, <2>4
    <3> QED
      BY <3>1 DEF HitsOf, Matching
  <2> QED
    BY <2>3, <2>4
<1>3. DecideAll(list, h) = IF M = {} THEN NOP ELSE list[First(M)].action
  BY DEF DecideAll, Decide, HitsOf
<1>4. Decide(list, 1 .. q, h) = IF N = {} THEN NOP ELSE list[First(N)].action
  BY DEF Decide
<1> HIDE DEF M, N
<1>5. CASE M = {}
  <2>1. N = {}
    BY <1>2, <1>5
  <2> QED
    BY <1>1, <1>3, <1>4, <1>5, <2>1 DEF M
<1>6. CASE M # {}
  <2> DEFINE k == First(M)
  <2>1. k \in M /\ \A o \in M : k <= o
    BY <1>1, <1>6, FirstIsLeast
  <2> HIDE DEF k
  <2>2. k \in Nat
    BY <1>1, <2>1
  <2>3. k <= q => First(N) = k /\ N # {}
    <3> SUFFICES ASSUME k <= q PROVE First(N) = k /\ N # {}
      OBVIOUS
    <3>1. k \in N /\ N \subseteq Nat /\ \A o \in N : k <= o
      BY <1>1, <1>2, <2>1
    <3> QED
      BY <3>1, FirstUnique
  <2>4. k > q => N = {}
    <3> SUFFICES ASSUME k > q, NEW o \in N PROVE FALSE
      OBVIOUS
    <3>1. o \in M /\ o <= q
      BY <1>2
    <3>2. o \in Nat /\ k <= o
      BY <1>1, <2>1, <3>1
    <3> QED
      BY <1>1, <2>2, <3>1, <3>2
  <2> QED
    BY <1>1, <1>3, <1>4, <1>6, <2>1, <2>3, <2>4 DEF k, M
<1> QED
  BY <1>5, <1>6 DEF M

\* The list with NOP rules before the cut, when the rules before first are NOP
\* already: it is as long, and only actions before the cut have changed.
LEMMA NopsAreRules ==
  ASSUME NEW list \in Seq(Rule), NEW first \in Nat, NEW last \in Nat,
         \A k \in DOMAIN list : k < first => list[k].action = NOP
  PROVE  LET nops == WithNops(list, first, last)
         IN  /\ nops \in Seq(Rule)
             /\ DOMAIN nops = DOMAIN list
             /\ \A k \in DOMAIN list :
                  /\ nops[k].filter = list[k].filter
                  /\ k < last => nops[k].action = NOP
                  /\ ~ (k < last) => nops[k].action = list[k].action
<1> DEFINE nops == WithNops(list, first, last)
<1>1. DOMAIN list = 1 .. Len(list) /\ Len(list) \in Nat
  BY Positions
<1>2. ASSUME NEW k \in DOMAIN list
      PROVE  /\ nops[k] \in Rule
             /\ nops[k].filter = list[k].filter
             /\ k < last => nops[k].action = NOP
             /\ ~ (k < last) => nops[k].action = list[k].action
  <2>1. list[k] \in Rule
    OBVIOUS
  <2>2. k \in Nat
    BY <1>1
  <2>3. CASE k \in first .. last - 1
    <3>1. nops[k] = [list[k] EXCEPT !.action = NOP] /\ k < last
      BY <2>2, <2>3 DEF WithNops
    <3> QED
      BY <2>1, <3>1, ActionsAssumption DEF Rule
  <2>4. CASE k \notin first .. last - 1
    <3>1. nops[k] = list[k]
      BY <2>4 DEF WithNops
    <3>2. k < last => k < first
      BY <2>2, <2>4
    <3> QED
      BY <2>1, <3>1, <3>2
  <2> QED
    BY <2>3, <2>4
<1>3. DOMAIN nops = DOMAIN list
  BY DEF WithNops
<1>4. nops \in [1 .. Len(list) -> Rule]
  BY <1>1, <1>2, <1>3 DEF WithNops
<1> HIDE DEF nops
<1>5. nops \in Seq(Rule)
  BY <1>1, <1>4
<1> QED
  BY <1>2, <1>3, <1>5 DEF nops

\* It decides what the first matching rule does, if that is not before the cut.
LEMMA NopsDecide ==
  ASSUME NEW list \in Seq(Rule), NEW first \in Nat, NEW last \in Nat,
         NEW h \in Header,
         \A k \in DOMAIN list : k < first => list[k].action = NOP
  PROVE  /\ HitsOf(list, h) = {} => DecideAll(WithNops(list, first, last), h) = NOP
         /\ HitsOf(list, h) # {} =>
              DecideAll(WithNops(list, first, last), h) =
                IF First(HitsOf(list, h)) < last THEN NOP
                ELSE list[First(HitsOf(list, h))].action
<1> DEFINE nops == WithNops(list, first, last)
           M == HitsOf(list, h)
<1>1. M \subseteq DOMAIN list /\ DOMAIN list \subseteq Nat
  BY Positions DEF HitsOf, Matching
<1>2. /\ DOMAIN nops = DOMAIN list
      /\ \A k \in DOMAIN list :
           /\ nops[k].filter = list[k].filter
           /\ k < last => nops[k].action = NOP
           /\ ~ (k < last) => nops[k].action = list[k].action
  BY NopsAreRules
<1> HIDE DEF nops
<1>3. Matching(nops, DOMAIN nops, h) = M
  <2>1. Matching(nops, DOMAIN nops, h) = {k \in DOMAIN list : Matches(h, nops[k].filter)}
    BY <1>2 DEF Matching
  <2>2. \A k \in DOMAIN list : nops[k].filter = list[k].filter
    BY <1>2
  <2> QED
    BY <2>1, <2>2 DEF HitsOf, Matching
<1> HIDE DEF M
<1>4. M # {} => First(M) \in DOMAIN list
  BY <1>1, FirstIsLeast
<1>5. DecideAll(nops, h) = IF M = {} THEN NOP ELSE nops[First(M)].action
  BY <1>3 DEF DecideAll, Decide
<1>6. M # {} => nops[First(M)].action =
                  IF First(M) < last THEN NOP ELSE list[First(M)].action
  BY <1>2, <1>4
<1> QED
  BY <1>5, <1>6 DEF nops, M

\* A cut before position last, after which the switch got the first q rules:
\* what was decided is decided by the switch or by what is left.
LEMMA CutDecides ==
  ASSUME NEW list \in Seq(Rule), NEW first \in Nat, NEW last \in DOMAIN list,
         NEW q \in Nat, q = last - 1 \/ q = last, NEW h \in Header,
         \A k \in DOMAIN list : k < first => list[k].action = NOP
  PROVE  /\ DecideAll(Minimized(SubSeq(list, 1, q)), h) \in {NOP, DecideAll(list, h)}
         /\ DecideAll(Minimized(WithNops(list, first, last)), h) \in {NOP, DecideAll(list, h)}
         /\ DecideAll(list, h) \in {DecideAll(Minimized(SubSeq(list, 1, q)), h),
                                   DecideAll(Minimized(WithNops(list, first, last)), h)}
<1> DEFINE M == HitsOf(list, h)
           before == SubSeq(list, 1, q)
           after == WithNops(list, first, last)
<1>1. last \in Nat /\ q \in 0 .. Len(list) /\ q \in Nat
  BY Positions
<1>2. /\ M \subseteq DOMAIN list
      /\ M = {} => DecideAll(list, h) = NOP /\ Decide(list, 1 .. q, h) = NOP
      /\ M # {} =>
           /\ First(M) \in M
           /\ DecideAll(list, h) = list[First(M)].action
           /\ First(M) <= q => Decide(list, 1 .. q, h) = list[First(M)].action
           /\ First(M) > q => Decide(list, 1 .. q, h) = NOP
  BY <1>1, FirstDecides
<1>3. /\ after \in Seq(Rule)
      /\ M = {} => DecideAll(after, h) = NOP
      /\ M # {} => DecideAll(after, h) = IF First(M) < last THEN NOP ELSE list[First(M)].action
  <2>1. after \in Seq(Rule)
    BY <1>1, NopsAreRules
  <2>2. /\ M = {} => DecideAll(after, h) = NOP
        /\ M # {} => DecideAll(after, h) = IF First(M) < last THEN NOP ELSE list[First(M)].action
    BY <1>1, NopsDecide
  <2> QED
    BY <2>1, <2>2
<1>4. before \in Seq(Rule) /\ DecideAll(before, h) = Decide(list, 1 .. q, h)
  BY <1>1, PrefixDecides
<1> HIDE DEF M, before, after
<1>5. /\ DecideAll(Minimized(before), h) = Decide(list, 1 .. q, h)
      /\ DecideAll(Minimized(after), h) = DecideAll(after, h)
  BY <1>3, <1>4, MinimizedDecides
<1>6. CASE M = {}
  BY <1>2, <1>3, <1>5, <1>6 DEF M, before, after
<1>7. CASE M # {}
  <2>1. First(M) \in Nat
    BY <1>2, <1>7, Positions
  <2>2. \/ First(M) <= q
        \/ First(M) > q /\ ~ (First(M) < last)
    BY <1>1, <2>1
  <2> QED
    BY <1>2, <1>3, <1>5, <1>7, <2>2 DEF M, before, after
<1> QED
  BY <1>6, <1>7

-----------------------------------------------------------------------------
(* The states of the algorithm.                                            *)

\* A rule appended to the line decides after the line.
LEMMA AppendOnTheWay ==
  ASSUME NEW stages \in Seq(Seq(Rule)), NEW stage \in Seq(Rule), NEW h
  PROVE  OnTheWay(Append(stages, stage), h)
           = OnTheWay(stages, h) \cup ({DecideAll(stage, h)} \ {NOP})
<1> DEFINE line == Append(stages, stage)
<1>1. /\ Len(stages) \in Nat /\ DOMAIN stages = 1 .. Len(stages)
      /\ DOMAIN line = 1 .. Len(stages) + 1
      /\ \A s \in 1 .. Len(stages) : line[s] = stages[s]
      /\ line[Len(stages) + 1] = stage
  BY AppendProperties
<1> HIDE DEF line
<1>2. \A s \in DOMAIN line : s \in DOMAIN stages \/ s = Len(stages) + 1
  BY <1>1
<1>3. Len(stages) + 1 \in DOMAIN line /\ DOMAIN stages \subseteq DOMAIN line
  BY <1>1
<1>4. ASSUME NEW a
      PROVE  a \in OnTheWay(line, h)
               <=> a \in OnTheWay(stages, h) \cup ({DecideAll(stage, h)} \ {NOP})
  BY <1>1, <1>2, <1>3 DEF OnTheWay
<1>5. OnTheWay(line, h) = OnTheWay(stages, h) \cup ({DecideAll(stage, h)} \ {NOP})
  BY <1>4, Zenon
<1> QED
  BY <1>5 DEF line

\* While a cut is searched there is a rule that acts, and once a rule fits
\* the switch holds what the last probe, at one of the bounds, left.
Searching ==
  pc = "search" =>
    /\ Switch \in DOMAIN call.capacities
    /\ NonNops # {}
    /\ First(NonNops) <= l
    /\ l > First(NonNops) =>
         /\ l < r
         /\ \E q \in {l, r} : here = Minimized(SubSeq(left, 1, q - 1))

\* Before the first switch the list is the classifier's; after it the list
\* has been minimized, and is empty or acts.
NothingCut ==
  \/ placed = <<>> /\ left = call.rules
  \/ left = <<>>
  \/ NonNops # {}

IInv ==
  /\ TypeOK
  /\ Searching
  /\ NothingCut
  /\ LineDecidesAlike
  /\ CutFits
  /\ ActsAfterACut

LEMMA FirstActing ==
  ASSUME TypeOK, NonNops # {}
  PROVE  /\ First(NonNops) \in DOMAIN left
         /\ First(NonNops) \in Nat
         /\ \A k \in DOMAIN left : k < First(NonNops) => left[k].action = NOP
<1>1. left \in Seq(Rule) /\ DOMAIN left \subseteq Nat
  <2>1. left \in Seq(Rule)
    BY DEF TypeOK
  <2> QED
    BY <2>1, Positions
<1>2. NonNops \subseteq Nat /\ NonNops \subseteq DOMAIN left
  BY <1>1 DEF NonNops
<1>3. First(NonNops) \in NonNops /\ \A k \in NonNops : First(NonNops) <= k
  BY <1>2, FirstIsLeast
<1>4. ASSUME NEW k \in DOMAIN left, k < First(NonNops), left[k].action # NOP
      PROVE  FALSE
  <2>1. k \in NonNops /\ k \in Nat /\ First(NonNops) \in Nat
    BY <1>1, <1>2, <1>3, <1>4 DEF NonNops
  <2>2. First(NonNops) <= k
    BY <1>3, <2>1
  <2> QED
    BY <1>4, <2>1, <2>2
<1> QED
  BY <1>1, <1>2, <1>3, <1>4

\* The probes are lists, and leave lists.
LEMMA ProbeIsList ==
  ASSUME NEW list \in Seq(Rule), NEW q \in 1 .. Len(list) + 1
  PROVE  Minimized(SubSeq(list, 1, q - 1)) \in Seq(Rule)
<1>1. Len(list) \in Nat
  BY Positions
<1>2. q - 1 \in 0 .. Len(list)
  BY <1>1
<1> QED
  BY <1>2, PrefixDecides, MinimizedDecides

\* What the next switch gets from a cut.
LEMMA CutIsList ==
  ASSUME TypeOK, NonNops # {}, l \in Nat
  PROVE  /\ Minimized(WithNops(left, First(NonNops), l)) \in Seq(Rule)
         /\ LET after == Minimized(WithNops(left, First(NonNops), l))
            IN  after = <<>> \/ {k \in DOMAIN after : after[k].action # NOP} # {}
<1> DEFINE nops == WithNops(left, First(NonNops), l)
<1>1. left \in Seq(Rule)
  BY DEF TypeOK
<1>2. nops \in Seq(Rule)
  <2>1. /\ First(NonNops) \in Nat
        /\ \A k \in DOMAIN left : k < First(NonNops) => left[k].action = NOP
    BY FirstActing
  <2> QED
    BY <1>1, <2>1, NopsAreRules
<1> HIDE DEF nops
<1>3. Minimized(nops) \in Seq(Rule)
  BY <1>2, MinimizedDecides
<1>4. Minimized(nops) # <<>> => {k \in DOMAIN Minimized(nops) : Minimized(nops)[k].action # NOP} # {}
  BY <1>2, MinimizedActs
<1> QED
  BY <1>3, <1>4 DEF nops

LEMMA SearchBounds ==
  ASSUME TypeOK, Searching, pc = "search"
  PROVE  /\ left \in Seq(Rule) /\ Len(left) \in Nat
         /\ l \in 1 .. Len(left) /\ r \in l .. Len(left) + 1
         /\ l \in DOMAIN left
         /\ First(NonNops) \in Nat
<1>1. left \in Seq(Rule) /\ l \in DOMAIN left /\ r \in l .. Len(left) + 1 /\ NonNops # {}
  BY DEF TypeOK, Searching
<1> QED
  BY <1>1, Positions, FirstActing

\* The middle of the bounds is between them.
LEMMA Middle ==
  ASSUME NEW a \in Nat, NEW b \in Nat, b - a > 1
  PROVE  (b + a) \div 2 \in a + 1 .. b - 1
OBVIOUS

LEMMA InitInv == Init => IInv
<1> SUFFICES ASSUME Init PROVE IInv
  OBVIOUS
<1> USE DEF Init
<1>1. call \in Call
  BY InputsAssumption
<1>2. call.rules \in Seq(Rule) /\ call.capacities \in Seq(Nat)
  BY <1>1 DEF Call
<1>3. <<>> \in Seq(Rule) /\ <<>> \in Seq(Seq(Rule)) /\ Len(placed) = 0
  BY EmptySeq
<1>4. TypeOK
  <2>1. Len(call.capacities) \in Nat
    BY <1>2, LenProperties
  <2> QED
    BY <1>1, <1>2, <1>3, <2>1 DEF TypeOK
<1>5. LineDecidesAlike
  <2> SUFFICES ASSUME NEW h \in Header
               PROVE  OnTheWay(Append(placed, left), h) = {DecideAll(call.rules, h)} \ {NOP}
    BY DEF LineDecidesAlike
  <2>1. OnTheWay(placed, h) = {}
    BY DEF OnTheWay
  <2>2. OnTheWay(Append(placed, left), h)
          = OnTheWay(placed, h) \cup ({DecideAll(left, h)} \ {NOP})
    BY <1>2, <1>3, AppendOnTheWay
  <2> QED
    BY <2>1, <2>2
<1> QED
  BY <1>4, <1>5 DEF IInv, Searching, NothingCut, CutFits, ActsAfterACut

\* The switch the search is for can hold no more than it says.
LEMMA CapacityIsNat ==
  ASSUME TypeOK, Switch \in DOMAIN call.capacities
  PROVE  /\ Capacity \in Nat
         /\ Len(placed) \in Nat /\ Len(call.capacities) \in Nat
         /\ Len(placed) + 1 <= Len(call.capacities)
<1>1. call.capacities \in Seq(Nat) /\ placed \in Seq(Seq(Rule))
  BY DEF TypeOK, Call
<1>2. DOMAIN call.capacities = 1 .. Len(call.capacities) /\ Len(call.capacities) \in Nat
      /\ Len(placed) \in Nat /\ \A i \in DOMAIN call.capacities : call.capacities[i] \in Nat
  BY <1>1, LenProperties, ElementOfSeq
<1> QED
  BY <1>2 DEF Capacity, Switch

\* A switch is done: the lists are lists, and the switch had its place.
LEMMA PlacedFits ==
  ASSUME TypeOK, Switch \in DOMAIN call.capacities, NEW list \in Seq(Rule)
  PROVE  /\ Append(placed, list) \in Seq(Seq(Rule))
         /\ Len(Append(placed, list)) = Len(placed) + 1
         /\ Len(Append(placed, list)) <= Len(call.capacities)
<1>1. placed \in Seq(Seq(Rule))
  BY DEF TypeOK
<1>2. Append(placed, list) \in Seq(Seq(Rule)) /\ Len(Append(placed, list)) = Len(placed) + 1
  BY <1>1, AppendProperties
<1> QED
  BY <1>2, CapacityIsNat

LEMMA StepKeepsTypes ==
  ASSUME TypeOK, Searching, Next
  PROVE  TypeOK'
<1>1. CASE PlaceAll
  <2>1. left \in Seq(Rule) /\ <<>> \in Seq(Rule)
    BY EmptySeq DEF TypeOK
  <2> QED
    BY <1>1, <2>1, PlacedFits DEF PlaceAll, TypeOK
<1>2. CASE ReadBeforeFirst
  BY <1>2 DEF ReadBeforeFirst, TypeOK
<1>3. CASE StartSearch
  <2> USE <1>3 DEF StartSearch
  <2>1. First(NonNops) \in DOMAIN left /\ First(NonNops) \in Nat
    BY FirstActing
  <2>2. left \in Seq(Rule) /\ Len(left) \in Nat /\ DOMAIN left = 1 .. Len(left)
        /\ Capacity \in Nat
    <3>1. left \in Seq(Rule)
      BY DEF TypeOK
    <3> QED
      BY <3>1, Positions, CapacityIsNat
  <2> DEFINE i == First(NonNops)
             ends == {i + Capacity, Len(left) + 1}
  <2>3. i \in 1 .. Len(left)
    BY <2>1, <2>2
  <2> HIDE DEF i
  <2>4. i \in Nat /\ ends \subseteq Nat /\ ends # {} /\ \A e \in ends : i <= e
    BY <2>2, <2>3
  <2>5. First(ends) \in ends /\ First(ends) <= Len(left) + 1
    BY <2>4, FirstIsLeast
  <2> HIDE DEF ends
  <2>6. First(ends) \in i .. Len(left) + 1
    <3>1. PICK e : e = First(ends)
      OBVIOUS
    <3>2. e \in Nat /\ i <= e /\ e <= Len(left) + 1
      BY <2>4, <2>5, <3>1
    <3>3. e \in i .. Len(left) + 1
      BY <2>2, <2>4, <3>2
    <3> QED
      BY <3>1, <3>3
  <2>7. l' = i /\ r' = First(ends)
    BY DEF i, ends
  <2>8. l' \in Nat /\ r' \in Nat /\ l' \in DOMAIN left /\ r' \in l' .. Len(left) + 1
    BY <2>2, <2>3, <2>4, <2>6, <2>7
  <2> QED
    BY <2>8, EmptySeq DEF TypeOK
<1>4. CASE Probe
  <2> USE <1>4 DEF Probe
  <2> DEFINE m == (r + l) \div 2
  <2>1. /\ left \in Seq(Rule) /\ Len(left) \in Nat
        /\ l \in 1 .. Len(left) /\ r \in l .. Len(left) + 1
    BY SearchBounds
  <2>2. l \in Nat /\ r \in Nat
    BY <2>1
  <2>3. m \in l + 1 .. r - 1
    BY <2>2, Middle
  <2>4. here' = Minimized(SubSeq(left, 1, m - 1))
    BY DEF Probed
  <2> HIDE DEF m
  <2>5. m \in Nat /\ m \in 1 .. Len(left) + 1 /\ m \in l .. r /\ m \in 1 .. Len(left)
    BY <2>1, <2>2, <2>3
  <2>6. here' \in Seq(Rule)
    BY <2>1, <2>4, <2>5, ProbeIsList
  <2>7. (r' = m /\ l' = l) \/ (l' = m /\ r' = r)
    BY DEF m
  <2>8. DOMAIN left = 1 .. Len(left)
    BY <2>1, Positions
  <2>9. l' \in Nat /\ r' \in Nat /\ l' \in DOMAIN left /\ r' \in l' .. Len(left) + 1
    BY <2>1, <2>2, <2>5, <2>7, <2>8
  <2> QED
    BY <2>6, <2>9 DEF TypeOK
<1>5. CASE NothingFits
  BY <1>5 DEF NothingFits, TypeOK
<1>6. CASE Cut
  <2>1. here \in Seq(Rule) /\ l \in Nat
    BY DEF TypeOK
  <2>2. NonNops # {} /\ Switch \in DOMAIN call.capacities
    BY <1>6 DEF Searching, Cut
  <2>3. left' \in Seq(Rule)
    BY <1>6, <2>1, <2>2, CutIsList DEF Cut
  <2>4. placed' \in Seq(Seq(Rule)) /\ Len(placed') <= Len(call.capacities)
    BY <1>6, <2>1, <2>2, PlacedFits DEF Cut
  <2> QED
    BY <1>6, <2>3, <2>4 DEF Cut, TypeOK
<1>7. CASE Finish
  BY <1>7 DEF Finish, TypeOK
<1>8. CASE Return
  BY <1>8 DEF Return, vars, TypeOK
<1> QED
  BY <1>1, <1>2, <1>3, <1>4, <1>5, <1>6, <1>7, <1>8 DEF Next, Step

LEMMA StepKeepsSearching ==
  ASSUME TypeOK, Searching, Next
  PROVE  Searching'
<1>1. CASE PlaceAll
  BY <1>1 DEF PlaceAll, Searching
<1>2. CASE ReadBeforeFirst
  BY <1>2 DEF ReadBeforeFirst, Searching
<1>3. CASE StartSearch
  <2>1. First(NonNops) \in Nat
    BY <1>3, FirstActing DEF StartSearch
  <2>2. NonNops' = NonNops /\ Switch' = Switch
    BY <1>3 DEF StartSearch, NonNops, Switch
  <2>3. ~ (First(NonNops) > First(NonNops)) /\ First(NonNops) <= First(NonNops)
    BY <2>1
  <2> QED
    BY <1>3, <2>2, <2>3 DEF StartSearch, Searching
<1>4. CASE Probe
  <2> USE <1>4 DEF Probe
  <2> DEFINE m == (r + l) \div 2
             i == First(NonNops)
  <2>1. l \in Nat /\ r \in Nat /\ i \in Nat
    BY SearchBounds
  <2>2. m \in l + 1 .. r - 1
    BY <2>1, Middle
  <2>3. NonNops' = NonNops /\ Switch' = Switch /\ left' = left
    BY DEF NonNops, Switch
  <2>4. here' = Minimized(SubSeq(left', 1, m - 1))
    BY DEF Probed
  <2>5. (r' = m /\ l' = l) \/ (l' = m /\ r' = r)
    OBVIOUS
  <2>6. i <= l /\ NonNops # {} /\ Switch \in DOMAIN call.capacities
    BY DEF Searching
  <2> HIDE DEF m, i
  <2>7. i <= l' /\ l' < r'
    BY <2>1, <2>2, <2>5, <2>6
  <2>8. m \in {l', r'}
    BY <2>5
  <2>9. First(NonNops)' = i
    BY <2>3 DEF i
  <2> QED
    BY <2>3, <2>4, <2>6, <2>7, <2>8, <2>9 DEF Searching
<1>5. CASE NothingFits
  BY <1>5 DEF NothingFits, Searching
<1>6. CASE Cut
  BY <1>6 DEF Cut, Searching
<1>7. CASE Finish
  BY <1>7 DEF Finish, Searching
<1>8. CASE Return
  <2>1. NonNops' = NonNops /\ Switch' = Switch
    BY <1>8 DEF Return, vars, NonNops, Switch
  <2> QED
    BY <1>8, <2>1 DEF Return, vars, Searching
<1> QED
  BY <1>1, <1>2, <1>3, <1>4, <1>5, <1>6, <1>7, <1>8 DEF Next, Step

LEMMA StepKeepsNothingCut ==
  ASSUME TypeOK, Searching, NothingCut, Next
  PROVE  NothingCut'
<1>1. CASE PlaceAll
  BY <1>1 DEF PlaceAll, NothingCut
<1>2. CASE Cut
  <2>1. NonNops # {} /\ l \in Nat
    BY <1>2 DEF Cut, Searching, TypeOK
  <2>2. left' = Minimized(WithNops(left, First(NonNops), l))
    BY <1>2 DEF Cut
  <2>3. left' = <<>> \/ {k \in DOMAIN left' : left'[k].action # NOP} # {}
    BY <2>1, <2>2, CutIsList
  <2> QED
    BY <2>3 DEF NothingCut, NonNops
<1>3. CASE UNCHANGED <<call, left, placed>>
  <2>1. NonNops' = NonNops
    BY <1>3 DEF NonNops
  <2> QED
    BY <1>3, <2>1 DEF NothingCut
<1> QED
  BY <1>1, <1>2, <1>3
     DEF Next, Step, ReadBeforeFirst, StartSearch, Probe, NothingFits, Finish, Return, vars

LEMMA StepDecidesAlike ==
  ASSUME TypeOK, Searching, LineDecidesAlike, Next
  PROVE  LineDecidesAlike'
<1> SUFFICES ASSUME NEW h \in Header
             PROVE  OnTheWay(Append(placed', left'), h) = {DecideAll(call'.rules, h)} \ {NOP}
  BY DEF LineDecidesAlike
<1>1. OnTheWay(Append(placed, left), h) = {DecideAll(call.rules, h)} \ {NOP}
  BY DEF LineDecidesAlike
<1>2. left \in Seq(Rule) /\ placed \in Seq(Seq(Rule)) /\ here \in Seq(Rule)
      /\ <<>> \in Seq(Rule)
  BY EmptySeq DEF TypeOK
<1>3. OnTheWay(Append(placed, left), h)
        = OnTheWay(placed, h) \cup ({DecideAll(left, h)} \ {NOP})
  BY <1>2, AppendOnTheWay
<1>4. CASE PlaceAll
  <2>1. placed' = Append(placed, left) /\ left' = <<>> /\ call' = call
    BY <1>4 DEF PlaceAll
  <2>2. Append(placed, left) \in Seq(Seq(Rule))
    BY <1>2, AppendProperties
  <2>3. OnTheWay(Append(Append(placed, left), <<>>), h)
          = OnTheWay(Append(placed, left), h) \cup ({DecideAll(<<>>, h)} \ {NOP})
    BY <1>2, <2>2, AppendOnTheWay
  <2>4. DecideAll(<<>>, h) = NOP
    BY DEF DecideAll, Decide, Matching
  <2> QED
    BY <1>1, <2>1, <2>3, <2>4
<1>5. CASE Cut
  <2> DEFINE after == Minimized(WithNops(left, First(NonNops), l))
  <2>1. placed' = Append(placed, here) /\ left' = after /\ call' = call
    BY <1>5 DEF Cut
  <2>2. /\ NonNops # {} /\ l \in Nat /\ l \in DOMAIN left /\ r \in Nat
        /\ l < r /\ r - l <= 1
        /\ \E q \in {l, r} : here = Minimized(SubSeq(left, 1, q - 1))
    BY <1>5, SearchBounds DEF Cut, Searching, TypeOK
  <2>3. PICK q \in Nat : (q = l - 1 \/ q = l) /\ here = Minimized(SubSeq(left, 1, q))
    <3>1. PICK q \in {l, r} : here = Minimized(SubSeq(left, 1, q - 1))
      BY <2>2
    <3>2. q - 1 \in Nat /\ (q - 1 = l - 1 \/ q - 1 = l)
      <4>1. l \in 1 .. Len(left)
        BY <1>5, SearchBounds DEF Cut
      <4> QED
        BY <2>2, <3>1, <4>1
    <3> QED
      BY <3>1, <3>2
  <2>4. /\ First(NonNops) \in Nat
        /\ \A k \in DOMAIN left : k < First(NonNops) => left[k].action = NOP
    BY <2>2, FirstActing
  <2>5. /\ DecideAll(here, h) \in {NOP, DecideAll(left, h)}
        /\ DecideAll(after, h) \in {NOP, DecideAll(left, h)}
        /\ DecideAll(left, h) \in {DecideAll(here, h), DecideAll(after, h)}
    <3>1. PICK first \in Nat : first = First(NonNops)
      BY <2>4
    <3>2. \A k \in DOMAIN left : k < first => left[k].action = NOP
      BY <2>4, <3>1
    <3>3. /\ DecideAll(Minimized(SubSeq(left, 1, q)), h) \in {NOP, DecideAll(left, h)}
          /\ DecideAll(Minimized(WithNops(left, first, l)), h) \in {NOP, DecideAll(left, h)}
          /\ DecideAll(left, h) \in {DecideAll(Minimized(SubSeq(left, 1, q)), h),
                                    DecideAll(Minimized(WithNops(left, first, l)), h)}
      BY <1>2, <2>2, <2>3, <3>2, CutDecides
    <3> QED
      BY <2>3, <3>1, <3>3
  <2>6. after \in Seq(Rule)
    BY <2>2, CutIsList
  <2> HIDE DEF after
  <2>7. Append(placed, here) \in Seq(Seq(Rule))
    BY <1>2, AppendProperties
  <2>8. OnTheWay(Append(placed, here), h)
          = OnTheWay(placed, h) \cup ({DecideAll(here, h)} \ {NOP})
    BY <1>2, AppendOnTheWay
  <2>9. OnTheWay(Append(Append(placed, here), after), h)
          = OnTheWay(Append(placed, here), h) \cup ({DecideAll(after, h)} \ {NOP})
    BY <2>6, <2>7, AppendOnTheWay
  <2>10. OnTheWay(Append(Append(placed, here), after), h)
           = OnTheWay(Append(placed, left), h)
    <3>1. ({DecideAll(here, h)} \ {NOP}) \cup ({DecideAll(after, h)} \ {NOP})
            = {DecideAll(left, h)} \ {NOP}
      BY <2>5
    <3> QED
      BY <1>3, <2>8, <2>9, <3>1
  <2> QED
    BY <1>1, <2>1, <2>10
<1>6. CASE UNCHANGED <<call, left, placed>>
  BY <1>1, <1>6
<1> QED
  BY <1>4, <1>5, <1>6
     DEF Next, Step, ReadBeforeFirst, StartSearch, Probe, NothingFits, Finish, Return, vars

LEMMA StepKeepsCutFits ==
  ASSUME TypeOK, Searching, CutFits, Next
  PROVE  CutFits'
<1>1. CASE StartSearch
  <2>1. First(NonNops) \in Nat /\ NonNops' = NonNops /\ l' = First(NonNops)
    BY <1>1, FirstActing DEF StartSearch, NonNops
  <2> QED
    BY <2>1 DEF CutFits
<1>2. CASE Probe
  <2> USE <1>2 DEF Probe
  <2> DEFINE m == (r + l) \div 2
  <2>1. NonNops' = NonNops /\ Capacity' = Capacity /\ left' = left
    BY DEF NonNops, Capacity, Switch
  <2>2. here' = Minimized(SubSeq(left, 1, m - 1))
    BY DEF Probed
  <2>3. CASE Len(here') > Capacity
    <3>1. l' = l
      BY <2>3
    <3> QED
      BY <2>1, <3>1 DEF CutFits
  <2>4. CASE ~ (Len(here') > Capacity)
    <3>1. l' = m
      BY <2>4
    <3>2. here' \in Seq(Rule) /\ Len(here') \in Nat /\ Capacity \in Nat
      <4>1. TypeOK'
        BY StepKeepsTypes
      <4>2. here' \in Seq(Rule)
        BY <4>1 DEF TypeOK
      <4>3. Capacity \in Nat
        BY CapacityIsNat DEF Searching
      <4> QED
        BY <4>2, <4>3, LenProperties
    <3>3. Len(here') <= Capacity
      BY <2>4, <3>2
    <3> HIDE DEF m
    <3>4. Len(Minimized(SubSeq(left', 1, l' - 1))) <= Capacity'
      BY <2>1, <2>2, <3>1, <3>3
    <3> QED
      BY <3>4 DEF CutFits
  <2> QED
    BY <2>3, <2>4
<1>3. CASE UNCHANGED <<call, left, placed, l>> /\ pc' = pc
  <2>1. NonNops' = NonNops /\ Capacity' = Capacity
    BY <1>3 DEF NonNops, Capacity, Switch
  <2> QED
    BY <1>3, <2>1 DEF CutFits
<1>4. CASE pc' # "search"
  BY <1>4 DEF CutFits
<1> QED
  BY <1>1, <1>2, <1>3, <1>4
     DEF Next, Step, PlaceAll, ReadBeforeFirst, NothingFits, Cut, Finish, Return, vars

LEMMA StepKeepsActsAfterACut ==
  ASSUME TypeOK, NothingCut, ActsAfterACut, Next
  PROVE  ActsAfterACut'
<1>1. CASE ReadBeforeFirst
  <2>1. Len(left) > Capacity /\ NonNops = {} /\ placed' = placed /\ call' = call
        /\ Capacity \in Nat
    BY <1>1, CapacityIsNat DEF ReadBeforeFirst
  <2>2. left # <<>>
    BY <2>1
  <2>3. placed = <<>> /\ left = call.rules
    BY <2>1, <2>2 DEF NothingCut
  <2>4. \A k \in DOMAIN left : left[k].action = NOP
    BY <2>1 DEF NonNops
  <2> QED
    BY <2>1, <2>3, <2>4 DEF ActsAfterACut
<1>2. CASE UNCHANGED <<call, placed>> /\ pc' = pc
  BY <1>2 DEF ActsAfterACut
<1>3. CASE pc' # "undefined"
  BY <1>3 DEF ActsAfterACut
<1> QED
  BY <1>1, <1>2, <1>3
     DEF Next, Step, PlaceAll, StartSearch, Probe, NothingFits, Cut, Finish, Return, vars

LEMMA StepKeepsInv == IInv /\ [Next]_vars => IInv'
<1>1. ASSUME IInv, Next PROVE IInv'
  BY <1>1, StepKeepsTypes, StepKeepsSearching, StepKeepsNothingCut, StepDecidesAlike,
     StepKeepsCutFits, StepKeepsActsAfterACut DEF IInv
<1>2. ASSUME IInv, UNCHANGED vars PROVE IInv'
  <2>1. UNCHANGED <<call, left, placed, l, r, here, pc>>
    BY <1>2 DEF vars
  <2>2. NonNops' = NonNops /\ Switch' = Switch /\ Capacity' = Capacity
    BY <2>1 DEF NonNops, Switch, Capacity
  <2>3. TypeOK' /\ NothingCut' /\ ActsAfterACut' /\ LineDecidesAlike'
    BY <1>2, <2>1, <2>2 DEF IInv, TypeOK, NothingCut, ActsAfterACut, LineDecidesAlike
  <2>4. Searching' /\ CutFits'
    BY <1>2, <2>1, <2>2 DEF IInv, Searching, CutFits
  <2> QED
    BY <2>3, <2>4 DEF IInv
<1> QED
  BY <1>1, <1>2

\* The variables keep their types: whatever the capacities, the bounds of the
\* search stay in the list and the splits never outnumber the switches.
THEOREM DistributionTypes == Spec => []TypeOK
<1>1. IInv => TypeOK
  BY DEF IInv
<1> QED
  BY <1>1, InitInv, StepKeepsInv, PTL DEF Spec

\* The line of switches, with what is left behind its end, decides every
\* header as the classifier did, and no header is decided twice differently.
THEOREM LineSound == Spec => []LineDecidesAlike
<1>1. IInv => LineDecidesAlike
  BY DEF IInv
<1> QED
  BY <1>1, InitInv, StepKeepsInv, PTL DEF Spec

\* Where the binary search cuts, the rules before the cut fit the switch, for
\* every capacity and however minimization shrinks the prefixes.
THEOREM CutSound == Spec => []CutFits
<1>1. IInv => CutFits
  BY DEF IInv
<1> QED
  BY <1>1, InitInv, StepKeepsInv, PTL DEF Spec

\* Only a classifier without an acting rule makes the code read rules[-1].
THEOREM UndefinedOnlyAtFirst == Spec => []ActsAfterACut
<1>1. IInv => ActsAfterACut
  BY DEF IInv
<1> QED
  BY <1>1, InitInv, StepKeepsInv, PTL DEF Spec

\* Every step of the loop over the switches and of the binary search is one
\* towards the return.
THEOREM StepsAdvance == Spec => EveryStepAdvances
<1> DEFINE Advance == \/ Len(placed') > Len(placed)
                      \/ pc = "place" /\ pc' # "place"
                      \/ pc = "search" /\ (pc' # "search" \/ r' - l' < r - l)
<1>1. ASSUME IInv, [Next]_vars PROVE [Advance]_vars
  <2> SUFFICES ASSUME Next, ~ UNCHANGED vars PROVE Advance
    BY <1>1
  <2>1. TypeOK /\ Searching
    BY <1>1 DEF IInv
  <2>2. CASE PlaceAll
    <3>1. left \in Seq(Rule) /\ Switch \in DOMAIN call.capacities
      BY <2>1, <2>2 DEF PlaceAll, TypeOK
    <3> QED
      BY <2>1, <2>2, <3>1, PlacedFits, CapacityIsNat DEF PlaceAll
  <2>3. CASE Probe
    <3>1. l \in Nat /\ r \in Nat
      BY <2>1, <2>3, SearchBounds DEF Probe
    <3>2. (r + l) \div 2 \in l + 1 .. r - 1
      BY <2>3, <3>1, Middle DEF Probe
    <3>3. (r' = (r + l) \div 2 /\ l' = l) \/ (l' = (r + l) \div 2 /\ r' = r)
      BY <2>3 DEF Probe
    <3> DEFINE m == (r + l) \div 2
    <3> HIDE DEF m
    <3>4. r' - l' < r - l
      BY <3>1, <3>2, <3>3 DEF m
    <3> QED
      BY <2>3, <3>4 DEF Probe
  <2>4. CASE Cut \/ NothingFits
    BY <2>4 DEF Cut, NothingFits
  <2>5. CASE ReadBeforeFirst \/ StartSearch \/ Finish
    BY <2>5 DEF ReadBeforeFirst, StartSearch, Finish
  <2>6. CASE Return
    BY <2>6 DEF Return
  <2> QED
    BY <2>2, <2>3, <2>4, <2>5, <2>6 DEF Next, Step
<1> QED
  BY <1>1, InitInv, StepKeepsInv, PTL DEF Spec, EveryStepAdvances

=============================================================================
