----------------------------- MODULE ChainsProofs -----------------------------
(***************************************************************************)
(* What the entry points over Chains promise, for every number of bits and *)
(* every call, whatever matching or flow the graph library finds and       *)
(* whatever the order of the candidates of try_expand_chain: no rule twice *)
(* or lost, groups that are LPM, and an expansion that keeps a chain, a    *)
(* sound cache and every covered support within the budget.  In the end,   *)
(* that the groups are as few, and cover as many rules, as they can.       *)
(***************************************************************************)
EXTENDS Chains, TernaryProofs, SequenceTheorems

-----------------------------------------------------------------------------
(* Supports.                                                               *)

LEMMA SupportsFinite ==
  ASSUME NEW s \in Supports
  PROVE  IsFiniteSet(s) /\ Cardinality(s) \in Nat
<1>1. IsFiniteSet(Coordinates)
  BY WidthAssumption, FS_Interval DEF Coordinates
<1> QED
  BY <1>1, FS_Subset, FS_CardinalityType DEF Supports

\* The bits a superset has more.
LEMMA MoreBits ==
  ASSUME NEW s \in Supports, NEW t \in Supports, s \subseteq t
  PROVE  /\ Cardinality(t) - Cardinality(s) \in Nat
         /\ Cardinality(t \ s) = Cardinality(t) - Cardinality(s)
<1>1. IsFiniteSet(t) /\ IsFiniteSet(s) /\ Cardinality(s) \in Nat
      /\ Cardinality(t) \in Nat
  BY SupportsFinite
<1>2. Cardinality(s) <= Cardinality(t)
  BY <1>1, FS_Subset
<1>3. t \cap s = s
  OBVIOUS
<1>4. Cardinality(t \ s) = Cardinality(t) - Cardinality(t \cap s)
  BY <1>1, FS_Difference
<1>5. Cardinality(t \ s) = Cardinality(t) - Cardinality(s)
  BY <1>3, <1>4
<1>6. Cardinality(t) - Cardinality(s) \in Nat
  BY <1>1, <1>2
<1> QED
  BY <1>5, <1>6

-----------------------------------------------------------------------------
(* The three changes of the chain.                                         *)

Monotone(ch) == \A p, q \in DOMAIN ch : p < q => ch[p] \subseteq ch[q]

LEMMA PrependChain ==
  ASSUME NEW ch \in Seq(Supports), Monotone(ch), NEW c \in Supports,
         \A p \in DOMAIN ch : c \subseteq ch[p]
  PROVE  /\ <<c>> \o ch \in Seq(Supports)
         /\ Monotone(<<c>> \o ch)
         /\ Range(<<c>> \o ch) = {c} \cup Range(ch)
<1> DEFINE new == <<c>> \o ch
<1>1. new \in Seq(Supports) /\ Len(new) = Len(ch) + 1
  OBVIOUS
<1>2. \A p \in DOMAIN new : new[p] = IF p = 1 THEN c ELSE ch[p - 1]
  OBVIOUS
<1>3. DOMAIN new = 1 .. Len(ch) + 1 /\ DOMAIN ch = 1 .. Len(ch) /\ Len(ch) \in Nat
  BY <1>1
<1> HIDE DEF new
<1>4. Monotone(new)
  BY <1>2, <1>3 DEF Monotone
<1>5. ASSUME NEW x \in Range(new) PROVE x \in {c} \cup Range(ch)
  BY <1>2, <1>3, <1>5 DEF Range
<1>6. c \in Range(new)
  BY <1>2, <1>3 DEF Range
<1>7. ASSUME NEW p \in DOMAIN ch PROVE ch[p] \in Range(new)
  <2>1. p + 1 \in DOMAIN new /\ new[p + 1] = ch[p]
    BY <1>2, <1>3
  <2> QED
    BY <2>1 DEF Range
<1> QED
  BY <1>1, <1>4, <1>5, <1>6, <1>7 DEF new, Range

LEMMA WidenChain ==
  ASSUME NEW ch \in Seq(Supports), Monotone(ch), NEW u \in Supports,
         NEW p \in DOMAIN ch, ch[p] \subseteq u,
         \A q \in DOMAIN ch : p < q => u \subseteq ch[q]
  PROVE  LET new == [ch EXCEPT ![p] = u]
         IN  /\ new \in Seq(Supports)
             /\ Monotone(new)
             /\ u \in Range(new)
             /\ \A x \in Range(new) : x = u \/ x \in Range(ch)
             /\ \A x \in Range(ch) : x # ch[p] => x \in Range(new)
<1> DEFINE new == [ch EXCEPT ![p] = u]
<1>1. new \in Seq(Supports) /\ DOMAIN new = DOMAIN ch /\ DOMAIN ch = 1 .. Len(ch)
  OBVIOUS
<1>2. new[p] = u /\ \A q \in DOMAIN ch : q # p => new[q] = ch[q]
  OBVIOUS
<1> HIDE DEF new
<1>3. ASSUME NEW q \in DOMAIN new, NEW r \in DOMAIN new, q < r
      PROVE  new[q] \subseteq new[r]
  <2>1. ch[q] \subseteq ch[r]
    BY <1>1, <1>3 DEF Monotone
  <2>2. CASE q = p
    BY <1>1, <1>2, <1>3, <2>2
  <2>3. CASE r = p
    BY <1>1, <1>2, <1>3, <2>1, <2>3
  <2>4. CASE q # p /\ r # p
    BY <1>1, <1>2, <2>1, <2>4
  <2> QED
    BY <2>2, <2>3, <2>4
<1>4. u \in Range(new)
  BY <1>1, <1>2 DEF Range
<1>5. \A x \in Range(new) : x = u \/ x \in Range(ch)
  BY <1>1, <1>2 DEF Range
<1>6. \A x \in Range(ch) : x # ch[p] => x \in Range(new)
  BY <1>1, <1>2 DEF Range
<1> QED
  BY <1>1, <1>3, <1>4, <1>5, <1>6 DEF Monotone, new

LEMMA EraseFromChain ==
  ASSUME NEW ch \in Seq(Supports), Monotone(ch), NEW p \in DOMAIN ch
  PROVE  LET new == Seqs!RemoveAt(ch, p)
         IN  /\ new \in Seq(Supports)
             /\ Monotone(new)
             /\ Range(new) \subseteq Range(ch)
             /\ \A x \in Range(ch) : x # ch[p] => x \in Range(new)
             /\ p < Len(ch) => ch[p + 1] \in Range(new)
<1> DEFINE new == Seqs!RemoveAt(ch, p)
<1>1. DOMAIN ch = 1 .. Len(ch) /\ Len(ch) \in Nat
  OBVIOUS
<1>2. new \in Seq(Supports) /\ Len(new) = Len(ch) - 1
  BY <1>1 DEF Seqs!RemoveAt
<1>3. \A q \in 1 .. Len(ch) - 1 : new[q] = IF q < p THEN ch[q] ELSE ch[q + 1]
  <2>1. /\ SubSeq(ch, 1, p - 1) \in Seq(Supports)
        /\ Len(SubSeq(ch, 1, p - 1)) = p - 1
        /\ \A q \in 1 .. p - 1 : SubSeq(ch, 1, p - 1)[q] = ch[q]
    BY <1>1
  <2>2. /\ SubSeq(ch, p + 1, Len(ch)) \in Seq(Supports)
        /\ Len(SubSeq(ch, p + 1, Len(ch))) = Len(ch) - p
        /\ \A q \in 1 .. Len(ch) - p : SubSeq(ch, p + 1, Len(ch))[q] = ch[q + p]
    BY <1>1
  <2>3. TAKE q \in 1 .. Len(ch) - 1
  <2>4. CASE q < p
    BY <1>1, <2>1, <2>2, <2>4 DEF Seqs!RemoveAt
  <2>5. CASE q >= p
    <3> DEFINE a == SubSeq(ch, 1, p - 1)
               b == SubSeq(ch, p + 1, Len(ch))
    <3>1. q - Len(a) \in 1 .. Len(b) /\ q - Len(a) = q + 1 - p /\ q > Len(a)
      BY <1>1, <2>1, <2>2, <2>5
    <3>2. b[q - Len(a)] = ch[q + 1]
      <4>1. q + 1 - p \in 1 .. Len(ch) - p /\ (q + 1 - p) + p = q + 1
        BY <1>1, <2>5
      <4>2. b[q + 1 - p] = ch[(q + 1 - p) + p]
        BY <2>2, <4>1
      <4> QED
        BY <3>1, <4>1, <4>2
    <3>3. a \in Seq(Supports) /\ b \in Seq(Supports) /\ new = a \o b
      BY <2>1, <2>2 DEF Seqs!RemoveAt
    <3> HIDE DEF a, b, new
    <3>4. (a \o b)[q] = b[q - Len(a)]
      BY <1>1, <3>1, <3>3
    <3> QED
      BY <1>1, <2>5, <3>2, <3>3, <3>4
  <2> QED
    BY <1>1, <2>4, <2>5
<1>4. DOMAIN new = 1 .. Len(ch) - 1
  BY <1>2
<1> HIDE DEF new
<1>5. ASSUME NEW q \in DOMAIN new, NEW r \in DOMAIN new, q < r
      PROVE  new[q] \subseteq new[r]
  <2> DEFINE place(k) == IF k < p THEN k ELSE k + 1
  <2>1. place(q) \in DOMAIN ch /\ place(r) \in DOMAIN ch /\ place(q) < place(r)
    BY <1>1, <1>4, <1>5
  <2>2. new[q] = ch[place(q)] /\ new[r] = ch[place(r)]
    BY <1>1, <1>3, <1>4
  <2> QED
    BY <2>1, <2>2 DEF Monotone
<1>6. Range(new) \subseteq Range(ch)
  BY <1>1, <1>3, <1>4 DEF Range
<1>7. ASSUME NEW q \in DOMAIN ch, q # p PROVE ch[q] \in Range(new)
  <2>1. CASE q < p
    <3>1. q \in DOMAIN new /\ new[q] = ch[q]
      BY <1>1, <1>3, <1>4, <2>1
    <3> QED
      BY <3>1 DEF Range
  <2>2. CASE q > p
    <3>1. q - 1 \in DOMAIN new /\ new[q - 1] = ch[q]
      BY <1>1, <1>3, <1>4, <2>2
    <3> QED
      BY <3>1 DEF Range
  <2> QED
    BY <1>1, <1>7, <2>1, <2>2
<1>8. \A x \in Range(ch) : x # ch[p] => x \in Range(new)
  BY <1>7 DEF Range
<1>9. p < Len(ch) => ch[p + 1] \in Range(new)
  BY <1>1, <1>7
<1> QED
  BY <1>2, <1>5, <1>6, <1>8, <1>9 DEF new, Monotone

-----------------------------------------------------------------------------
(* The inductive invariant.                                                *)

\* A support is expanded to itself or to a member, never to what a member
\* used to be.
Attached ==
  \A s \in unique_supports :
    /\ s \subseteq expansions[s]
    /\ expansions[s] = s \/ expansions[s] \in Range(chain)

CacheWithin == \A t \in Supports : bits_expanded[t] <= max_bits

ExpandInv == ExpandTypeOK /\ ChainMonotone /\ CacheSound /\ Attached /\ CacheWithin

\* A call with a chain of some of the supports.
LEMMA CallHolds ==
  ASSUME NEW supports, supports \subseteq Supports,
         NEW support_weights \in [supports -> Nat], NEW bits \in Nat,
         NEW ch \in Seq(supports),
         \A p, q \in DOMAIN ch : p < q => ch[p] \subseteq ch[q],
         ExpandCall(supports, support_weights, bits, ch)
  PROVE  ExpandInv' /\ Range(ch) \subseteq Covered'
<1>1. ch \in Seq(Supports)
  OBVIOUS
<1>2. /\ unique_supports' = supports /\ chain' = ch
      /\ weights' = support_weights /\ max_bits' = bits
      /\ expansions' = [s \in supports |-> s]
      /\ bits_expanded' = [s \in Supports |-> 0]
      /\ non_chain' \subseteq supports
  BY DEF ExpandCall, Supports
<1>3. ExpandTypeOK'
  BY <1>1, <1>2 DEF ExpandTypeOK
<1>4. ChainMonotone'
  BY <1>2 DEF ChainMonotone
<1>5. CacheSound'
  <2> SUFFICES ASSUME NEW s \in supports
               PROVE  Cardinality(expansions'[s]) - Cardinality(s)
                        <= bits_expanded'[expansions'[s]]
    BY <1>2 DEF CacheSound
  <2>1. s \in Supports /\ expansions'[s] = s /\ bits_expanded'[s] = 0
    BY <1>2
  <2> QED
    BY <2>1, SupportsFinite
<1>6. Attached' /\ CacheWithin'
  BY <1>2 DEF Attached, CacheWithin
<1>7. \A p \in DOMAIN ch : ch[p] \in supports
  OBVIOUS
<1>8. Range(ch) \subseteq Covered'
  BY <1>2, <1>7 DEF Covered, Range
<1> QED
  BY <1>3, <1>4, <1>5, <1>6, <1>8 DEF ExpandInv

-----------------------------------------------------------------------------
(* The steps.                                                              *)

\* Where a union belongs: above its member, not above the ones behind.
LEMMA UnionPlace ==
  ASSUME ExpandTypeOK, ChainMonotone,
         NEW c \in unique_supports, NEW p \in DOMAIN chain, InsertionPoint(c, p)
  PROVE  LET u == c \cup chain[p]
         IN  /\ c \in Supports /\ chain[p] \in Supports /\ u \in Supports
             /\ \A q \in DOMAIN chain : p < q => u \subseteq chain[q]
             /\ ~ (p < Len(chain) /\ chain[p + 1] = u) => u \notin Range(chain)
<1> DEFINE u == c \cup chain[p]
<1>1. c \in Supports /\ chain[p] \in Supports /\ DOMAIN chain = 1 .. Len(chain)
      /\ Len(chain) \in Nat
  BY DEF ExpandTypeOK
<1>2. u \in Supports
  BY <1>1 DEF Supports
<1>3. \A q \in DOMAIN chain : p < q => u \subseteq chain[q]
  <2> SUFFICES ASSUME NEW q \in DOMAIN chain, p < q PROVE u \subseteq chain[q]
    OBVIOUS
  <2>1. c \subseteq chain[q]
    BY <1>1 DEF InsertionPoint, Blocking
  <2>2. chain[p] \subseteq chain[q]
    BY DEF ChainMonotone
  <2> QED
    BY <2>1, <2>2
<1>4. ASSUME ~ (p < Len(chain) /\ chain[p + 1] = u),
             NEW q \in DOMAIN chain, chain[q] = u
      PROVE  FALSE
  <2>1. ~ c \subseteq chain[p]
    BY DEF InsertionPoint, Blocking
  <2>2. CASE q <= p
    <3>1. chain[q] \subseteq chain[p]
      BY <1>1, <2>2 DEF ChainMonotone
    <3> QED
      BY <1>4, <2>1, <3>1
  <2>3. CASE p < q
    <3>1. p + 1 \in DOMAIN chain /\ p < p + 1 /\ p + 1 <= q
      BY <1>1, <2>3
    <3>2. u \subseteq chain[p + 1]
      BY <1>3, <3>1
    <3>3. chain[p + 1] \subseteq chain[q]
      BY <1>1, <3>1 DEF ChainMonotone
    <3> QED
      BY <1>1, <1>4, <3>1, <3>2, <3>3
  <2> QED
    BY <1>1, <2>2, <2>3
<1> QED
  BY <1>1, <1>2, <1>3, <1>4 DEF Range

\* bits_to_expand bounds what the candidate and the member's worst would cost.
LEMMA Costs ==
  ASSUME ExpandTypeOK, NEW c \in Supports, NEW m \in Supports
  PROVE  LET u == c \cup m
         IN  /\ BitsToExpand(c, m) \in Nat
             /\ Cardinality(u) - Cardinality(c) <= BitsToExpand(c, m)
             /\ Cardinality(u) - Cardinality(m) + bits_expanded[m] <= BitsToExpand(c, m)
<1> DEFINE u == c \cup m
<1>1. u \in Supports
  BY DEF Supports
<1>2. Cardinality(u) - Cardinality(c) \in Nat
  BY <1>1, MoreBits
<1>3. Cardinality(u) - Cardinality(m) \in Nat
  BY <1>1, MoreBits
<1>4. bits_expanded[m] \in Nat
  BY DEF ExpandTypeOK
<1> QED
  BY <1>2, <1>3, <1>4 DEF BitsToExpand, Larger

\* A union taken into the chain, in the place of its member or for good.
LEMMA TakenIn ==
  ASSUME ExpandInv, NEW c \in unique_supports, NEW m \in Supports, NEW u \in Supports,
         u = c \cup m, BitsToExpand(c, m) <= max_bits,
         ExpandTo(c, m, u), UNCHANGED expand_args, chain' \in Seq(Supports),
         u \in Range(chain'),
         \A x \in Range(chain') : x = u \/ x \in Range(chain),
         \A x \in Range(chain) : x # m => x \in Range(chain'),
         NEW b \in Nat, b <= max_bits, BitsToExpand(c, m) <= b,
         u \in Range(chain) => bits_expanded[u] <= b,
         bits_expanded' = [bits_expanded EXCEPT ![u] = b]
  PROVE  /\ expansions' \in [unique_supports' -> Supports]
         /\ bits_expanded' \in [Supports -> Nat]
         /\ CacheSound' /\ Attached' /\ CacheWithin'
<1>1. /\ expansions \in [unique_supports -> Supports]
      /\ bits_expanded \in [Supports -> Nat] /\ max_bits \in Nat
      /\ unique_supports \subseteq Supports
  BY DEF ExpandInv, ExpandTypeOK
<1>2. c \in Supports
  BY <1>1
<1>3. /\ BitsToExpand(c, m) \in Nat
      /\ Cardinality(u) - Cardinality(c) <= BitsToExpand(c, m)
      /\ Cardinality(u) - Cardinality(m) + bits_expanded[m] <= BitsToExpand(c, m)
  BY <1>2, Costs DEF ExpandInv
<1>4. unique_supports' = unique_supports /\ max_bits' = max_bits
  BY DEF expand_args
<1>5. \A s \in unique_supports :
        expansions'[s] = IF s = c \/ expansions[s] = m THEN u ELSE expansions[s]
  BY <1>1 DEF ExpandTo
<1>6. expansions' \in [unique_supports' -> Supports]
  BY <1>1, <1>4 DEF ExpandTo
<1>7. /\ bits_expanded' \in [Supports -> Nat] /\ bits_expanded'[u] = b
      /\ \A t \in Supports : t # u => bits_expanded'[t] = bits_expanded[t]
  BY <1>1
<1>8. CacheWithin'
  BY <1>1, <1>4, <1>7 DEF CacheWithin, ExpandInv
<1>9. Attached'
  <2> SUFFICES ASSUME NEW s \in unique_supports
               PROVE  /\ s \subseteq expansions'[s]
                      /\ expansions'[s] = s \/ expansions'[s] \in Range(chain')
    BY <1>4 DEF Attached
  <2>1. s \subseteq expansions[s] /\ (expansions[s] = s \/ expansions[s] \in Range(chain))
    BY DEF ExpandInv, Attached
  <2>2. CASE s = c \/ expansions[s] = m
    BY <1>5, <2>1, <2>2
  <2>3. CASE ~ (s = c \/ expansions[s] = m)
    BY <1>5, <2>1, <2>3
  <2> QED
    BY <2>2, <2>3
<1>10. CacheSound'
  <2> SUFFICES ASSUME NEW s \in unique_supports, expansions'[s] \in Range(chain')
               PROVE  Cardinality(expansions'[s]) - Cardinality(s)
                        <= bits_expanded'[expansions'[s]]
    BY <1>4 DEF CacheSound
  <2>1. s \in Supports /\ expansions[s] \in Supports /\ expansions'[s] \in Supports
    BY <1>1, <1>5
  <2>2. Cardinality(s) \in Nat /\ Cardinality(u) \in Nat /\ Cardinality(m) \in Nat
        /\ bits_expanded[m] \in Nat /\ bits_expanded[u] \in Nat
    BY <1>1, <2>1, SupportsFinite
  <2>3. CASE s = c
    <3>1. expansions'[s] = u
      BY <1>5, <2>3
    <3>2. Cardinality(u) - Cardinality(s) <= b
      BY <1>3, <2>2, <2>3
    <3> QED
      BY <1>7, <3>1, <3>2
  <2>4. CASE s # c /\ expansions[s] = m
    <3>1. Cardinality(m) - Cardinality(s) <= bits_expanded[m]
      <4>1. CASE m \in Range(chain)
        BY <2>4, <4>1 DEF ExpandInv, CacheSound
      <4>2. CASE m = s
        BY <2>2, <4>2
      <4> QED
        BY <2>4, <4>1, <4>2 DEF ExpandInv, Attached
    <3>2. Cardinality(u) - Cardinality(s) <= b
      BY <1>3, <2>2, <3>1
    <3> QED
      BY <1>5, <1>7, <2>4, <3>2
  <2>5. CASE s # c /\ expansions[s] # m
    <3>1. expansions'[s] = expansions[s]
      BY <1>5, <2>5
    <3>2. CASE expansions[s] # u
      <4>1. expansions[s] \in Range(chain)
        BY <3>1, <3>2
      <4>2. Cardinality(expansions[s]) - Cardinality(s) <= bits_expanded[expansions[s]]
        BY <4>1 DEF ExpandInv, CacheSound
      <4> QED
        BY <1>7, <2>1, <3>1, <3>2, <4>2
    <3>3. CASE expansions[s] = u
      <4>1. CASE u = s
        <5>1. Cardinality(u) = Cardinality(s)
          BY <4>1
        <5>2. Cardinality(u) - Cardinality(s) <= b
          BY <2>2, <5>1
        <5> QED
          BY <1>7, <3>1, <3>3, <5>2
      <4>2. CASE u \in Range(chain)
        <5>1. Cardinality(u) - Cardinality(s) <= bits_expanded[u]
          BY <3>3, <4>2 DEF ExpandInv, CacheSound
        <5> QED
          BY <1>7, <2>2, <3>1, <3>3, <4>2, <5>1
      <4> QED
        BY <3>3, <4>1, <4>2 DEF ExpandInv, Attached
    <3> QED
      BY <3>2, <3>3
  <2> QED
    BY <2>3, <2>4, <2>5
<1> QED
  BY <1>6, <1>7, <1>8, <1>9, <1>10

LEMMA PrependHolds ==
  ASSUME ExpandInv, NEW c \in unique_supports, Prepend(c)
  PROVE  ExpandInv' /\ Range(chain) \subseteq Range(chain')
<1>1. /\ c \in Supports /\ chain \in Seq(Supports) /\ Monotone(chain)
      /\ expansions \in [unique_supports -> Supports]
      /\ bits_expanded \in [Supports -> Nat] /\ max_bits \in Nat
      /\ \A p \in DOMAIN chain : c \subseteq chain[p]
  BY DEF ExpandInv, ExpandTypeOK, ChainMonotone, Monotone, Prepend, Blocking
<1>2. chain' = <<c>> \o chain
  BY DEF Prepend
<1>3. /\ chain' \in Seq(Supports) /\ Monotone(chain')
      /\ Range(chain') = {c} \cup Range(chain)
  BY <1>1, <1>2, PrependChain
<1>4. /\ unique_supports' = unique_supports /\ weights' = weights
      /\ max_bits' = max_bits /\ expansions' = expansions
      /\ bits_expanded' = bits_expanded /\ non_chain' \subseteq non_chain
  BY DEF Prepend, Tried, expand_args
<1>5. ExpandTypeOK'
  BY <1>3, <1>4 DEF ExpandInv, ExpandTypeOK
<1>6. ChainMonotone'
  BY <1>3 DEF ChainMonotone, Monotone
<1>7. Attached' /\ CacheWithin'
  BY <1>3, <1>4 DEF ExpandInv, Attached, CacheWithin
<1>8. CacheSound'
  <2> SUFFICES ASSUME NEW s \in unique_supports, expansions[s] \in Range(chain')
               PROVE  Cardinality(expansions[s]) - Cardinality(s)
                        <= bits_expanded[expansions[s]]
    BY <1>4 DEF CacheSound
  <2>1. CASE expansions[s] \in Range(chain)
    BY <2>1 DEF ExpandInv, CacheSound
  <2>2. CASE expansions[s] = s
    <3>1. s \in Supports /\ Cardinality(s) \in Nat /\ bits_expanded[s] \in Nat
      BY <1>1, SupportsFinite DEF ExpandInv, ExpandTypeOK
    <3>2. Cardinality(s) - Cardinality(s) <= bits_expanded[s]
      BY <3>1
    <3> QED
      BY <2>2, <3>2
  <2> QED
    BY <2>1, <2>2 DEF ExpandInv, Attached
<1> QED
  BY <1>3, <1>5, <1>6, <1>7, <1>8 DEF ExpandInv

LEMMA WidenHolds ==
  ASSUME ExpandInv, NEW c \in unique_supports, NEW p \in DOMAIN chain, Widen(c, p)
  PROVE  ExpandInv' /\ ExpandTo(c, chain[p], c \cup chain[p])
         /\ c \cup chain[p] \in Range(chain')
         /\ \A x \in Range(chain) : x # chain[p] => x \in Range(chain')
<1> DEFINE m == chain[p]
           u == c \cup chain[p]
           b == BitsToExpand(c, m)
<1>1. ExpandTypeOK /\ ChainMonotone /\ chain \in Seq(Supports) /\ Monotone(chain)
  BY DEF ExpandInv, ExpandTypeOK, ChainMonotone, Monotone
<1>2. /\ InsertionPoint(c, p) /\ b <= max_bits
      /\ ~ (p < Len(chain) /\ chain[p + 1] = u)
      /\ ExpandTo(c, m, u) /\ chain' = [chain EXCEPT ![p] = u]
      /\ bits_expanded' = [bits_expanded EXCEPT ![u] = b]
      /\ UNCHANGED expand_args /\ non_chain' \subseteq non_chain
  BY DEF Widen, Tried
<1>3. /\ c \in Supports /\ m \in Supports /\ u \in Supports /\ m \subseteq u
      /\ \A q \in DOMAIN chain : p < q => u \subseteq chain[q]
      /\ u \notin Range(chain)
  BY <1>1, <1>2, UnionPlace
<1>4. b \in Nat /\ b <= b /\ b = BitsToExpand(c, m)
  BY <1>1, <1>3, Costs
<1> HIDE DEF m, u, b
<1>5. /\ chain' \in Seq(Supports) /\ Monotone(chain') /\ u \in Range(chain')
      /\ \A x \in Range(chain') : x = u \/ x \in Range(chain)
      /\ \A x \in Range(chain) : x # m => x \in Range(chain')
  BY <1>1, <1>2, <1>3, WidenChain DEF m
<1>6. u = c \cup m
  BY DEF m, u
<1>7. /\ expansions' \in [unique_supports' -> Supports]
      /\ bits_expanded' \in [Supports -> Nat]
      /\ CacheSound' /\ Attached' /\ CacheWithin'
  <2>1. BitsToExpand(c, m) <= max_bits /\ BitsToExpand(c, m) <= b
    BY <1>2, <1>4
  <2> QED
    BY <1>2, <1>3, <1>4, <1>5, <1>6, <2>1, TakenIn
<1>8. ExpandTypeOK'
  BY <1>1, <1>2, <1>5, <1>7 DEF ExpandTypeOK, expand_args
<1>9. ChainMonotone'
  BY <1>5 DEF ChainMonotone, Monotone
<1> QED
  BY <1>2, <1>5, <1>7, <1>8, <1>9 DEF ExpandInv, m, u

LEMMA MergeHolds ==
  ASSUME ExpandInv, NEW c \in unique_supports, NEW p \in DOMAIN chain, Merge(c, p)
  PROVE  ExpandInv' /\ ExpandTo(c, chain[p], c \cup chain[p])
         /\ c \cup chain[p] \in Range(chain')
         /\ \A x \in Range(chain) : x # chain[p] => x \in Range(chain')
<1> DEFINE m == chain[p]
           u == c \cup chain[p]
           b == Larger(bits_expanded[u], BitsToExpand(c, m))
<1>1. ExpandTypeOK /\ ChainMonotone /\ chain \in Seq(Supports) /\ Monotone(chain)
  BY DEF ExpandInv, ExpandTypeOK, ChainMonotone, Monotone
<1>2. /\ InsertionPoint(c, p) /\ BitsToExpand(c, m) <= max_bits
      /\ p < Len(chain) /\ chain[p + 1] = u
      /\ ExpandTo(c, m, u) /\ chain' = Seqs!RemoveAt(chain, p)
      /\ bits_expanded' = [bits_expanded EXCEPT ![u] = b]
      /\ UNCHANGED expand_args /\ non_chain' \subseteq non_chain
  BY DEF Merge, Tried
<1>3. c \in Supports /\ m \in Supports /\ u \in Supports /\ u = c \cup m
  BY <1>1, <1>2, UnionPlace
<1>4. BitsToExpand(c, m) \in Nat
  BY <1>1, <1>3, Costs
<1>5. bits_expanded[u] \in Nat /\ bits_expanded[u] <= max_bits /\ max_bits \in Nat
  BY <1>1, <1>3 DEF ExpandInv, ExpandTypeOK, CacheWithin
<1>6. b \in Nat /\ b <= max_bits /\ BitsToExpand(c, m) <= b /\ bits_expanded[u] <= b
  BY <1>2, <1>4, <1>5 DEF Larger
<1> HIDE DEF m, u, b
<1>7. /\ chain' \in Seq(Supports) /\ Monotone(chain') /\ u \in Range(chain')
      /\ Range(chain') \subseteq Range(chain)
      /\ \A x \in Range(chain) : x # m => x \in Range(chain')
  BY <1>1, <1>2, EraseFromChain DEF m
<1>8. /\ expansions' \in [unique_supports' -> Supports]
      /\ bits_expanded' \in [Supports -> Nat]
      /\ CacheSound' /\ Attached' /\ CacheWithin'
  BY <1>2, <1>3, <1>6, <1>7, TakenIn
<1>9. ExpandTypeOK'
  BY <1>1, <1>2, <1>7, <1>8 DEF ExpandTypeOK, expand_args
<1>10. ChainMonotone'
  BY <1>7 DEF ChainMonotone, Monotone
<1> QED
  BY <1>2, <1>7, <1>8, <1>9, <1>10 DEF ExpandInv, m, u

\* Nothing else changes what the invariant is about.
LEMMA StutterHolds ==
  ASSUME ExpandInv, UNCHANGED <<expand_args, chain, expansions, bits_expanded>>,
         non_chain' \subseteq non_chain
  PROVE  ExpandInv' /\ Covered' = Covered
  BY DEF ExpandInv, ExpandTypeOK, ChainMonotone, CacheSound, Attached, CacheWithin,
         Covered, expand_args

\* A support that a step moves goes where the union is.
LEMMA CoveredGrows ==
  ASSUME ExpandInv, UNCHANGED expand_args, NEW c, NEW m, NEW u,
         ExpandTo(c, m, u), u \in Range(chain'),
         \A x \in Range(chain) : x # m => x \in Range(chain')
  PROVE  Covered \subseteq Covered'
<1> SUFFICES ASSUME NEW s \in Covered PROVE s \in Covered'
  OBVIOUS
<1>1. s \in unique_supports /\ expansions[s] \in Range(chain)
      /\ unique_supports' = unique_supports
  BY DEF Covered, expand_args
<1>2. expansions'[s] = IF s = c \/ expansions[s] = m THEN u ELSE expansions[s]
  BY <1>1 DEF ExpandTo, ExpandInv, ExpandTypeOK
<1> QED
  BY <1>1, <1>2 DEF Covered

LEMMA StepHolds ==
  ASSUME ExpandInv, [ExpandNext]_expand_vars
  PROVE  ExpandInv' /\ Covered \subseteq Covered'
<1>1. CASE Try
  <2>1. PICK c \in Candidates :
          \/ Prepend(c)
          \/ \E p \in DOMAIN chain : Skip(c, p) \/ Merge(c, p) \/ Widen(c, p)
    BY <1>1 DEF Try
  <2>2. c \in unique_supports
    BY DEF Candidates, ExpandInv, ExpandTypeOK
  <2>3. CASE Prepend(c)
    <3>1. ExpandInv' /\ Range(chain) \subseteq Range(chain')
      BY <2>2, <2>3, PrependHolds
    <3> QED
      BY <2>3, <3>1 DEF Prepend, Tried, expand_args, Covered
  <2>4. ASSUME NEW p \in DOMAIN chain, Skip(c, p)
        PROVE  ExpandInv' /\ Covered \subseteq Covered'
    BY <2>4, StutterHolds DEF Skip, Tried
  <2>5. ASSUME NEW p \in DOMAIN chain, Merge(c, p)
        PROVE  ExpandInv' /\ Covered \subseteq Covered'
    <3>1. UNCHANGED expand_args
      BY <2>5 DEF Merge, Tried
    <3> QED
      BY <2>2, <2>5, <3>1, MergeHolds, CoveredGrows
  <2>6. ASSUME NEW p \in DOMAIN chain, Widen(c, p)
        PROVE  ExpandInv' /\ Covered \subseteq Covered'
    <3>1. UNCHANGED expand_args
      BY <2>6 DEF Widen, Tried
    <3> QED
      BY <2>2, <2>6, <3>1, WidenHolds, CoveredGrows
  <2> QED
    BY <2>1, <2>3, <2>4, <2>5, <2>6
<1>2. CASE ExpandReturn
  BY <1>2, StutterHolds DEF ExpandReturn
<1>3. CASE UNCHANGED expand_vars
  BY <1>3, StutterHolds DEF expand_vars
<1> QED
  BY <1>1, <1>2, <1>3 DEF ExpandNext

LEMMA ExpansionCovers == ExpandInv => Abstract!IsCover
<1> DEFINE cover == [s \in Covered |-> expansions[s]]
<1> SUFFICES ASSUME ExpandInv PROVE Abstract!IsCover
  OBVIOUS
<1>1. DOMAIN cover = Covered /\ \A s \in Covered : cover[s] = expansions[s]
  OBVIOUS
<1>2. Covered \subseteq unique_supports
  BY DEF Covered
<1>3. ASSUME NEW s \in Covered, NEW t \in Covered
      PROVE  expansions[s] \subseteq expansions[t] \/ expansions[t] \subseteq expansions[s]
  <2>1. PICK p \in DOMAIN chain : expansions[s] = chain[p]
    BY DEF Covered, Range
  <2>2. PICK q \in DOMAIN chain : expansions[t] = chain[q]
    BY DEF Covered, Range
  <2>3. p \in Nat /\ q \in Nat
    BY DEF ExpandInv, ExpandTypeOK
  <2> QED
    BY <2>1, <2>2, <2>3 DEF ExpandInv, ChainMonotone
<1>4. ASSUME NEW s \in Covered
      PROVE  s \subseteq expansions[s] /\ Cardinality(expansions[s] \ s) <= max_bits
  <2>1. s \in Supports /\ expansions[s] \in Supports /\ s \subseteq expansions[s]
    BY DEF Covered, ExpandInv, ExpandTypeOK, Attached
  <2>2. /\ Cardinality(expansions[s]) - Cardinality(s) <= bits_expanded[expansions[s]]
        /\ bits_expanded[expansions[s]] <= max_bits
        /\ bits_expanded[expansions[s]] \in Nat /\ max_bits \in Nat
    BY <2>1 DEF Covered, ExpandInv, ExpandTypeOK, CacheSound, CacheWithin
  <2>3. /\ Cardinality(expansions[s]) - Cardinality(s) \in Nat
        /\ Cardinality(expansions[s] \ s) = Cardinality(expansions[s]) - Cardinality(s)
    BY <2>1, MoreBits
  <2> QED
    BY <2>1, <2>2, <2>3
<1> QED
  BY <1>1, <1>2, <1>3, <1>4 DEF Abstract!IsCover

-----------------------------------------------------------------------------
(* Matchings.                                                              *)

\* No two edges of M share a left or a right side.
IsMatching(M) == \A d, e \in M : d[1] = e[1] \/ d[2] = e[2] => d = e

MatchingsFrom(edges, S) ==
  {M \in SUBSET {e \in edges : e[1] \in S} : IsMatching(M)}

\* What the fold of Matchings does for one vertex.
WithEdgesOf(edges, v, Ms) ==
  Ms \cup {p[1] \cup {p[2]} : p \in
            {q \in Ms \X {e \in edges : e[1] = v} : \A d \in q[1] : d[2] # q[2][2]}}

LEMMA OneMoreVertex ==
  ASSUME NEW edges, NEW S, NEW v \in S
  PROVE  MatchingsFrom(edges, S)
           = WithEdgesOf(edges, v, MatchingsFrom(edges, S \ {v}))
<1> DEFINE Ms == MatchingsFrom(edges, S \ {v})
           pairs == {q \in Ms \X {e \in edges : e[1] = v} : \A d \in q[1] : d[2] # q[2][2]}
           more == {p[1] \cup {p[2]} : p \in pairs}
<1>1. ASSUME NEW M \in MatchingsFrom(edges, S) PROVE M \in Ms \cup more
  <2>1. M \subseteq {e \in edges : e[1] \in S} /\ IsMatching(M)
    BY DEF MatchingsFrom
  <2>2. CASE \E e \in M : e[1] = v
    <3>1. PICK e \in M : e[1] = v
      BY <2>2
    <3> DEFINE N == M \ {e}
    <3>2. \A d \in N : d[1] # v /\ d[2] # e[2]
      BY <2>1, <3>1 DEF IsMatching
    <3>3. N \in Ms
      BY <2>1, <3>2 DEF MatchingsFrom, IsMatching
    <3>4. <<N, e>> \in pairs
      BY <2>1, <3>1, <3>2, <3>3
    <3>5. M = N \cup {e}
      BY <3>1
    <3> HIDE DEF N, pairs
    <3>6. M = <<N, e>>[1] \cup {<<N, e>>[2]}
      BY <3>5
    <3> QED
      BY <3>4, <3>6
  <2>3. CASE ~ \E e \in M : e[1] = v
    BY <2>1, <2>3 DEF MatchingsFrom
  <2> QED
    BY <2>2, <2>3
<1>2. ASSUME NEW M \in Ms PROVE M \in MatchingsFrom(edges, S)
  BY DEF MatchingsFrom
<1>3. ASSUME NEW p \in pairs PROVE p[1] \cup {p[2]} \in MatchingsFrom(edges, S)
  <2>1. /\ p[1] \subseteq {e \in edges : e[1] \in S \ {v}} /\ IsMatching(p[1])
        /\ p[2] \in edges /\ p[2][1] = v /\ \A d \in p[1] : d[2] # p[2][2]
    BY DEF MatchingsFrom
  <2> DEFINE M == p[1]
             e == p[2]
  <2>2. \A d \in M : d[1] # e[1] /\ d[2] # e[2]
    BY <2>1
  <2>3. IsMatching(M) /\ M \subseteq {d \in edges : d[1] \in S} /\ e \in {d \in edges : d[1] \in S}
    BY <2>1
  <2> HIDE DEF M, e
  <2>4. IsMatching(M \cup {e})
    BY <2>2, <2>3 DEF IsMatching
  <2>5. M \cup {e} \in MatchingsFrom(edges, S)
    BY <2>3, <2>4 DEF MatchingsFrom
  <2> QED
    BY <2>5 DEF M, e
<1>4. WithEdgesOf(edges, v, Ms) = Ms \cup more
  BY DEF WithEdgesOf
<1> HIDE DEF pairs, Ms
<1>5. MatchingsFrom(edges, S) = Ms \cup more
  BY <1>1, <1>2, <1>3
<1> QED
  BY <1>4, <1>5 DEF Ms

LEMMA FinitelyManyVertices ==
  ASSUME call \in Call
  PROVE  IsFiniteSet(Vertices)
<1>1. call.classifiers \in Seq(Seq(Entry))
  BY DEF Call
<1>2. IsFiniteSet(Classifiers)
  <2>1. Classifiers = 1 .. Len(call.classifiers) /\ Len(call.classifiers) \in Nat
    BY <1>1 DEF Classifiers
  <2> QED
    BY <2>1, IntervalSize
<1>3. IsFiniteSet(SUBSET Coordinates)
  BY WidthAssumption, IntervalSize, FS_SUBSET DEF Coordinates
<1>4. IsFiniteSet(Classifiers \X SUBSET Coordinates)
  BY <1>2, <1>3, FS_Product
<1>5. Vertices \subseteq Classifiers \X SUBSET Coordinates
  <2>1. ASSUME NEW c \in Classifiers, NEW i \in Rules(c) PROVE SupportOf(c, i) \subseteq Coordinates
    <3>1. call.classifiers[c] \in Seq(Entry)
      BY <1>1 DEF Classifiers
    <3>2. call.classifiers[c][i] \in Entry
      BY <3>1 DEF Rules
    <3> QED
      BY <3>2 DEF SupportOf, Exact, Entry
  <2> QED
    BY <2>1 DEF Vertices, Unique
<1> QED
  BY <1>4, <1>5, FS_Subset

\* What the two algorithms of Boost choose from are the matchings.
LEMMA MatchingsAre ==
  ASSUME call \in Call, NEW edges, edges \subseteq Vertices \X Vertices
  PROVE  Matchings(edges) = {M \in SUBSET edges : IsMatching(M)}
<1> DEFINE add(v, Ms) == WithEdgesOf(edges, v, Ms)
           some(S) == CHOOSE v \in S : TRUE
           body(f) == [S \in SUBSET Vertices |->
                         IF S = {} THEN {{}} ELSE add(some(S), f[S \ {some(S)}])]
           iter == CHOOSE f : f = body(f)
           all == [S \in SUBSET Vertices |-> MatchingsFrom(edges, S)]
<1>1. Matchings(edges) = iter[Vertices]
  BY DEF Matchings, FoldSet, MapThenFoldSet, WithEdgesOf
<1>2. \A S \in SUBSET Vertices : S # {} => some(S) \in S /\ S \ {some(S)} \in SUBSET Vertices
  OBVIOUS
<1>3. MatchingsFrom(edges, {}) = {{}}
  BY DEF MatchingsFrom, IsMatching
<1>4. \A S \in SUBSET Vertices : S # {} =>
        MatchingsFrom(edges, S) = add(some(S), MatchingsFrom(edges, S \ {some(S)}))
  <2> SUFFICES ASSUME NEW S \in SUBSET Vertices, S # {}
               PROVE  MatchingsFrom(edges, S)
                        = add(some(S), MatchingsFrom(edges, S \ {some(S)}))
    OBVIOUS
  <2>1. some(S) \in S
    BY <1>2
  <2> HIDE DEF some
  <2> QED
    BY <2>1, OneMoreVertex
<1> HIDE DEF add, some
<1>5. all = body(all)
  BY <1>2, <1>3, <1>4
<1>6. iter = body(iter)
  BY <1>5
<1> HIDE DEF iter, all
<1>7. \A S \in SUBSET Vertices :
        iter[S] = IF S = {} THEN {{}} ELSE add(some(S), iter[S \ {some(S)}])
  BY <1>6
<1> HIDE DEF body
<1> DEFINE Wrong == {S \in SUBSET Vertices : iter[S] # MatchingsFrom(edges, S)}
<1>8. Wrong = {}
  <2>1. SUFFICES ASSUME Wrong # {} PROVE FALSE
    OBVIOUS
  <2>2. \A S \in Wrong : IsFiniteSet(S) /\ Cardinality(S) \in Nat
    BY FinitelyManyVertices, FS_Subset, FS_CardinalityType
  <2> DEFINE sizes == {Cardinality(S) : S \in Wrong}
  <2>3. sizes \subseteq Nat /\ sizes # {}
    BY <2>1, <2>2
  <2>4. PICK n \in sizes : \A m \in sizes : n <= m
    BY <2>3, FirstIsLeast
  <2>5. PICK S \in Wrong : Cardinality(S) = n
    BY <2>4
  <2>6. S # {}
    BY <1>3, <1>7, <2>5
  <2> DEFINE T == S \ {some(S)}
  <2>7. some(S) \in S /\ T \in SUBSET Vertices
    BY <1>2, <2>6
  <2>8. Cardinality(T) = Cardinality(S) - 1
    BY <2>2, <2>7, FS_RemoveElement
  <2>9. T \notin Wrong
    <3> HIDE DEF Wrong, T
    <3>1. \A U \in Wrong : Cardinality(U) >= Cardinality(S) /\ Cardinality(S) \in Nat
      BY <2>2, <2>4, <2>5
    <3> QED
      BY <2>8, <3>1
  <2>10. iter[T] = MatchingsFrom(edges, T)
    BY <2>7, <2>9
  <2>11. iter[S] = MatchingsFrom(edges, S)
    BY <1>4, <1>7, <2>5, <2>6, <2>10
  <2> QED
    BY <2>5, <2>11
<1>9. iter[Vertices] = MatchingsFrom(edges, Vertices)
  BY <1>8
<1>10. {e \in edges : e[1] \in Vertices} = edges
  OBVIOUS
<1> QED
  BY <1>1, <1>9, <1>10 DEF MatchingsFrom
-----------------------------------------------------------------------------
(* Chains along the mates.                                                 *)

Loops == {<<v, v>> : v \in Vertices}

Mates ==
  /\ call \in Call
  /\ mate \subseteq DilworthsEdges \cup Loops
  /\ IsMatching(mate)

Follows(c, s, t) == <<<<c, s>>, <<c, t>>>> \in mate

\* The two kinds of supports of ChainsOf.
Starts(c)  == {s \in Unique(c) : \A e \in mate : e[2] # <<c, s>>}
Chained(c) == {s \in Unique(c) : ~ Follows(c, s, s)}

\* What the loop of calculate_chains goes through.
IsRun(c, q) ==
  /\ q \in Seq(Chained(c)) /\ q # <<>>
  /\ \A i \in 1 .. Len(q) - 1 : Follows(c, q[i], q[i + 1])
  /\ \A e \in mate : e[1] # <<c, q[Len(q)]>>

LEMMA UniqueSupports ==
  ASSUME call \in Call, NEW c \in Classifiers
  PROVE  /\ Unique(c) \subseteq SUBSET Coordinates
         /\ \A s \in Unique(c) : <<c, s>> \in Vertices
         /\ \A s \in SUBSET Coordinates : IsFiniteSet(s) /\ Cardinality(s) \in 0 .. Width
         /\ \A i \in Rules(c) : SupportOf(c, i) \in Unique(c)
<1>1. call.classifiers[c] \in Seq(Entry)
  BY DEF Call, Classifiers
<1>2. \A i \in Rules(c) : SupportOf(c, i) \subseteq Coordinates
  BY <1>1 DEF Rules, SupportOf, Exact, Entry
<1>3. \A s \in SUBSET Coordinates : IsFiniteSet(s) /\ Cardinality(s) \in 0 .. Width
  BY WidthAssumption, SubsetSize DEF Coordinates
<1> QED
  BY <1>2, <1>3 DEF Unique, Vertices

\* An edge goes from a support to one it is part of, in the same classifier.
LEMMA MateEdge ==
  ASSUME Mates, NEW e \in mate
  PROVE  \E c \in Classifiers : \E s, t \in Unique(c) :
           e = <<<<c, s>>, <<c, t>>>> /\ s \subseteq t
<1>1. PICK v \in Vertices, w \in Vertices :
        e = <<v, w>> /\ v[1] = w[1] /\ v[2] \subseteq w[2]
  <2>1. CASE e \in DilworthsEdges
    BY <2>1 DEF DilworthsEdges
  <2>2. CASE e \in Loops
    BY <2>2 DEF Loops
  <2> QED
    BY <2>1, <2>2 DEF Mates
<1>2. PICK c \in Classifiers : v \in {c} \X Unique(c)
  BY DEF Vertices
<1>3. PICK d \in Classifiers : w \in {d} \X Unique(d)
  BY DEF Vertices
<1>4. c = d /\ v = <<c, v[2]>> /\ w = <<c, w[2]>> /\ v[2] \in Unique(c) /\ w[2] \in Unique(c)
  BY <1>1, <1>2, <1>3
<1> QED
  BY <1>1, <1>4

LEMMA OneMate ==
  ASSUME Mates, NEW c, NEW s, NEW t, NEW u
  PROVE  /\ Follows(c, s, t) /\ Follows(c, s, u) => t = u
         /\ Follows(c, s, u) /\ Follows(c, t, u) => s = t
BY DEF Mates, Follows, IsMatching

\* Along the mates the supports of a chain grow.
LEMMA MatesGrow ==
  ASSUME Mates, NEW c \in Classifiers, NEW s \in Chained(c), NEW t, Follows(c, s, t)
  PROVE  /\ t \in Chained(c) /\ s \subseteq t
         /\ Cardinality(s) \in 0 .. Width /\ Cardinality(t) \in 0 .. Width
         /\ Cardinality(s) < Cardinality(t)
<1>1. PICK d \in Classifiers : \E x, y \in Unique(d) :
        <<<<c, s>>, <<c, t>>>> = <<<<d, x>>, <<d, y>>>> /\ x \subseteq y
  BY MateEdge DEF Follows
<1>2. s \in Unique(c) /\ t \in Unique(c) /\ s \subseteq t
  BY <1>1
<1>3. s # t
  BY DEF Chained
<1>4. ~ Follows(c, t, t)
  BY <1>3, OneMate
<1>5. /\ IsFiniteSet(s) /\ Cardinality(s) \in 0 .. Width
      /\ IsFiniteSet(t) /\ Cardinality(t) \in 0 .. Width
  BY <1>2, UniqueSupports DEF Mates
<1>6. Cardinality(s) <= Cardinality(t) /\ Cardinality(s) # Cardinality(t)
  BY <1>2, <1>3, <1>5, FS_Subset
<1> QED
  BY <1>2, <1>4, <1>5, <1>6 DEF Chained

\* The edge from a support, if there is one.
LEMMA TheMate ==
  ASSUME Mates, NEW c \in Classifiers, NEW s \in Chained(c), \E e \in mate : e[1] = <<c, s>>
  PROVE  Follows(c, s, (CHOOSE e \in mate : e[1] = <<c, s>>)[2][2])
<1> DEFINE e == CHOOSE d \in mate : d[1] = <<c, s>>
<1>1. e \in mate /\ e[1] = <<c, s>>
  OBVIOUS
<1> HIDE DEF e
<1>2. PICK d \in Classifiers : \E x, y \in Unique(d) : e = <<<<d, x>>, <<d, y>>>>
  BY <1>1, MateEdge
<1>3. e = <<<<c, s>>, <<c, e[2][2]>>>>
  BY <1>1, <1>2
<1>4. Follows(c, s, e[2][2])
  BY <1>1, <1>3 DEF Follows
<1> QED
  BY <1>4 DEF e

LEMMA LongerRun ==
  ASSUME Mates, NEW c \in Classifiers, NEW s \in Chained(c), NEW t, Follows(c, s, t),
         NEW q, IsRun(c, q), q[1] = t
  PROVE  IsRun(c, <<s>> \o q) /\ (<<s>> \o q)[1] = s
<1> DEFINE r == <<s>> \o q
<1>1. q \in Seq(Chained(c)) /\ q # <<>> /\ Len(q) \in Nat /\ Len(q) # 0
  BY DEF IsRun
<1>2. /\ r \in Seq(Chained(c)) /\ Len(r) = Len(q) + 1 /\ r[1] = s
      /\ \A i \in 1 .. Len(q) : r[i + 1] = q[i]
  BY <1>1
<1> HIDE DEF r
<1>3. r # <<>>
  BY <1>1, <1>2
<1>4. ASSUME NEW i \in 1 .. Len(r) - 1 PROVE Follows(c, r[i], r[i + 1])
  <2>1. i \in 1 .. Len(q) /\ r[i + 1] = q[i]
    BY <1>1, <1>2
  <2>2. CASE i = 1
    BY <1>2, <2>1, <2>2
  <2>3. CASE i # 1
    <3>1. i - 1 \in 1 .. Len(q) - 1 /\ i - 1 \in 1 .. Len(q) /\ (i - 1) + 1 = i
      BY <1>1, <2>1, <2>3
    <3>2. r[i] = q[i - 1] /\ Follows(c, q[i - 1], q[i])
      BY <1>2, <3>1 DEF IsRun
    <3> QED
      BY <2>1, <3>2
  <2> QED
    BY <2>2, <2>3
<1>5. r[Len(r)] = q[Len(q)]
  BY <1>1, <1>2
<1>6. \A e \in mate : e[1] # <<c, r[Len(r)]>>
  BY <1>5 DEF IsRun
<1>7. IsRun(c, r)
  BY <1>2, <1>3, <1>4, <1>6 DEF IsRun
<1> QED
  BY <1>2, <1>7 DEF r

LEMMA ShortestRun ==
  ASSUME NEW c, NEW s \in Chained(c), \A e \in mate : e[1] # <<c, s>>
  PROVE  IsRun(c, <<s>>) /\ <<s>>[1] = s
BY DEF IsRun

\* A property of all supports of Chained(c) may be shown from the largest to
\* the smallest: the counterexamples have a largest.
LEMMA LargestOf ==
  ASSUME call \in Call, NEW c \in Classifiers, NEW S, S \subseteq Unique(c), S # {}
  PROVE  \E s \in S : \A t \in S : Cardinality(t) <= Cardinality(s)
<1>1. \A s \in S : Cardinality(s) \in 0 .. Width
  BY UniqueSupports
<1> DEFINE rooms == {Width - Cardinality(s) : s \in S}
<1>2. rooms \subseteq Nat /\ rooms # {}
  BY <1>1, WidthAssumption
<1>3. PICK n \in rooms : \A m \in rooms : n <= m
  BY <1>2, FirstIsLeast
<1>4. PICK s \in S : Width - Cardinality(s) = n
  BY <1>3
<1>5. ASSUME NEW t \in S PROVE Cardinality(t) <= Cardinality(s)
  <2>1. Width - Cardinality(t) \in rooms
    OBVIOUS
  <2>2. n <= Width - Cardinality(t)
    BY <1>3, <2>1
  <2> QED
    BY <1>1, <1>4, <2>2, WidthAssumption
<1> QED
  BY <1>5

\* From every support of Chained(c) there is a run,
LEMMA RunsExist ==
  ASSUME Mates, NEW c \in Classifiers, NEW s \in Chained(c)
  PROVE  \E q : IsRun(c, q) /\ q[1] = s
<1> DEFINE Bad == {t \in Chained(c) : ~ \E q : IsRun(c, q) /\ q[1] = t}
<1>1. SUFFICES ASSUME Bad # {} PROVE FALSE
  OBVIOUS
<1>2. Bad \subseteq Unique(c)
  BY DEF Chained
<1>3. PICK t \in Bad : \A u \in Bad : Cardinality(u) <= Cardinality(t)
  BY <1>1, <1>2, LargestOf DEF Mates
<1>4. PICK e \in mate : e[1] = <<c, t>>
  BY ShortestRun
<1> DEFINE u == (CHOOSE d \in mate : d[1] = <<c, t>>)[2][2]
<1>5. t \in Chained(c) /\ Follows(c, t, u)
  BY <1>4, TheMate
<1> HIDE DEF u
<1>6. /\ u \in Chained(c) /\ Cardinality(t) \in Int /\ Cardinality(u) \in Int
      /\ Cardinality(t) < Cardinality(u)
  BY <1>5, MatesGrow
<1>7. u \notin Bad
  BY <1>3, <1>6
<1>8. PICK q : IsRun(c, q) /\ q[1] = u
  BY <1>6, <1>7
<1> QED
  BY <1>5, <1>8, LongerRun

\* and only one.
LEMMA RunsAreUnique ==
  ASSUME Mates, NEW c, NEW q, IsRun(c, q), NEW r, IsRun(c, r), q[1] = r[1]
  PROVE  q = r
<1>1. /\ q \in Seq(Chained(c)) /\ Len(q) \in Nat /\ Len(q) >= 1 /\ DOMAIN q = 1 .. Len(q)
      /\ r \in Seq(Chained(c)) /\ Len(r) \in Nat /\ Len(r) >= 1 /\ DOMAIN r = 1 .. Len(r)
  <2>1. q \in Seq(Chained(c)) /\ q # <<>> /\ r \in Seq(Chained(c)) /\ r # <<>>
    BY DEF IsRun
  <2> QED
    BY <2>1
<1> DEFINE Wrong == {i \in Nat : i \in 1 .. Len(q) /\ i \in 1 .. Len(r) /\ q[i] # r[i]}
<1>2. ASSUME NEW i \in 1 .. Len(q), i \in 1 .. Len(r) PROVE q[i] = r[i]
  <2>1. SUFFICES ASSUME Wrong # {} PROVE FALSE
    BY <1>2
  <2>2. PICK k \in Wrong : \A j \in Wrong : k <= j
    BY <2>1, FirstIsLeast
  <2>3. k # 1
    OBVIOUS
  <2>4. /\ k - 1 \in 1 .. Len(q) - 1 /\ k - 1 \in 1 .. Len(r) - 1 /\ (k - 1) + 1 = k
        /\ k - 1 \in 1 .. Len(q) /\ k - 1 \in 1 .. Len(r) /\ k - 1 \in Nat /\ ~ (k <= k - 1)
    BY <1>1, <2>3
  <2>5. q[k - 1] = r[k - 1]
    BY <2>2, <2>4
  <2>6. Follows(c, q[k - 1], q[k]) /\ Follows(c, r[k - 1], r[k])
    BY <2>4 DEF IsRun
  <2>7. q[k] = r[k]
    BY <2>5, <2>6, OneMate
  <2> QED
    BY <2>7
<1>3. ~ (Len(q) < Len(r))
  <2>1. SUFFICES ASSUME Len(q) < Len(r) PROVE FALSE
    OBVIOUS
  <2>2. Len(q) \in 1 .. Len(r) - 1 /\ Len(q) \in 1 .. Len(r) /\ Len(q) \in 1 .. Len(q)
    BY <1>1, <2>1
  <2>3. Follows(c, q[Len(q)], r[Len(q) + 1])
    BY <1>2, <2>2 DEF IsRun
  <2> QED
    BY <2>3 DEF IsRun, Follows
<1>4. ~ (Len(r) < Len(q))
  <2>1. SUFFICES ASSUME Len(r) < Len(q) PROVE FALSE
    OBVIOUS
  <2>2. Len(r) \in 1 .. Len(q) - 1 /\ Len(r) \in 1 .. Len(q) /\ Len(r) \in 1 .. Len(r)
    BY <1>1, <2>1
  <2>3. Follows(c, r[Len(r)], q[Len(r) + 1])
    BY <1>2, <2>2 DEF IsRun
  <2> QED
    BY <2>3 DEF IsRun, Follows
<1>5. Len(q) = Len(r)
  <2>1. Len(q) \in Nat /\ Len(r) \in Nat
    BY <1>1
  <2> QED
    BY <1>3, <1>4, <2>1
<1> QED
  BY <1>1, <1>2, <1>5

\* The chains are the runs from the supports that are nobody's mate.
LEMMA ChainsAreRuns ==
  ASSUME Mates, NEW c \in Classifiers
  PROVE  /\ \A ch \in ChainsOf(c) : IsRun(c, ch) /\ ch[1] \in Starts(c)
         /\ \A s \in Starts(c) : \E ch \in ChainsOf(c) : ch[1] = s
<1> DEFINE mated(s) == \E e \in mate : e[1] = <<c, s>>
           next(s) == (CHOOSE e \in mate : e[1] = <<c, s>>)[2][2]
           body(f) == [s \in Chained(c) |-> IF mated(s) THEN <<s>> \o f[next(s)] ELSE <<s>>]
           from == CHOOSE f : f = body(f)
           run(s) == CHOOSE q : IsRun(c, q) /\ q[1] = s
           runs == [s \in Chained(c) |-> run(s)]
<1>1. ChainsOf(c) = {from[s] : s \in Starts(c)}
  BY DEF ChainsOf, Starts, Chained, Follows
<1>2. \A s \in Chained(c) : IsRun(c, run(s)) /\ run(s)[1] = s
  BY RunsExist
<1>3. \A s \in Chained(c) : mated(s) => Follows(c, s, next(s))
  BY TheMate
<1>4. \A s \in Chained(c) : ~ mated(s) => IsRun(c, <<s>>) /\ <<s>>[1] = s
  BY ShortestRun
<1> HIDE DEF mated, next, run
<1>5. ASSUME NEW s \in Chained(c), mated(s)
      PROVE  /\ next(s) \in Chained(c) /\ run(s) = <<s>> \o run(next(s))
             /\ Cardinality(next(s)) \in Int /\ Cardinality(s) \in Int
             /\ Cardinality(s) < Cardinality(next(s))
  <2>1. /\ next(s) \in Chained(c)
        /\ Cardinality(next(s)) \in Int /\ Cardinality(s) \in Int
        /\ Cardinality(s) < Cardinality(next(s))
    BY <1>3, <1>5, MatesGrow
  <2>2. IsRun(c, <<s>> \o run(next(s))) /\ (<<s>> \o run(next(s)))[1] = s
    BY <1>2, <1>3, <1>5, <2>1, LongerRun
  <2> QED
    BY <1>2, <2>1, <2>2, RunsAreUnique
<1>6. ASSUME NEW s \in Chained(c), ~ mated(s) PROVE run(s) = <<s>>
  BY <1>2, <1>4, <1>6, RunsAreUnique
<1>7. runs = body(runs)
  BY <1>5, <1>6
<1>8. from = body(from)
  BY <1>7
<1> HIDE DEF from
<1>9. \A s \in Chained(c) : from[s] = IF mated(s) THEN <<s>> \o from[next(s)] ELSE <<s>>
  BY <1>8
<1> HIDE DEF body, runs
<1> DEFINE Wrong == {s \in Chained(c) : from[s] # run(s)}
<1>10. Wrong = {}
  <2>1. SUFFICES ASSUME Wrong # {} PROVE FALSE
    OBVIOUS
  <2>2. Wrong \subseteq Unique(c)
    BY DEF Chained
  <2>3. PICK s \in Wrong : \A t \in Wrong : Cardinality(t) <= Cardinality(s)
    BY <2>1, <2>2, LargestOf DEF Mates
  <2>4. mated(s)
    BY <1>6, <1>9
  <2>5. next(s) \notin Wrong /\ next(s) \in Chained(c)
    <3>1. s \in Chained(c)
      OBVIOUS
    <3> HIDE DEF Wrong
    <3> DEFINE t == next(s)
    <3>2. /\ t \in Chained(c) /\ Cardinality(t) \in Int /\ Cardinality(s) \in Int
          /\ Cardinality(s) < Cardinality(t)
      BY <1>5, <2>4, <3>1
    <3> HIDE DEF t
    <3>3. t \notin Wrong
      BY <2>3, <3>2
    <3> QED
      BY <3>2, <3>3 DEF t
  <2>6. from[next(s)] = run(next(s))
    BY <2>5
  <2> QED
    BY <1>5, <1>9, <2>4, <2>6
<1>11. Starts(c) \subseteq Chained(c)
  BY DEF Starts, Chained, Follows
<1>12. \A s \in Starts(c) : from[s] = run(s)
  BY <1>10, <1>11
<1> HIDE DEF Wrong
<1> QED
  BY <1>1, <1>2, <1>11, <1>12

LEMMA RunFacts ==
  ASSUME NEW c, NEW q, IsRun(c, q)
  PROVE  /\ Len(q) \in Nat /\ DOMAIN q = 1 .. Len(q) /\ 1 \in 1 .. Len(q)
         /\ \A i \in 1 .. Len(q) : q[i] \in Chained(c) /\ q[i] \in Unique(c)
         /\ Range(q) \subseteq Unique(c)
<1>1. q \in Seq(Chained(c)) /\ q # <<>>
  BY DEF IsRun
<1>2. /\ Len(q) \in Nat /\ DOMAIN q = 1 .. Len(q) /\ 1 \in 1 .. Len(q)
      /\ \A i \in 1 .. Len(q) : q[i] \in Chained(c)
  BY <1>1
<1> QED
  BY <1>2 DEF Chained, Range

\* A run grows from support to support,
LEMMA RunsGrow ==
  ASSUME Mates, NEW c \in Classifiers, NEW q, IsRun(c, q),
         NEW i \in 1 .. Len(q), NEW j \in 1 .. Len(q), i <= j
  PROVE  q[i] \subseteq q[j]
<1> DEFINE Bad == {k \in Nat : i <= k /\ k \in 1 .. Len(q) /\ ~ q[i] \subseteq q[k]}
<1>1. SUFFICES ASSUME Bad # {} PROVE FALSE
  BY RunFacts
<1>2. PICK k \in Bad : \A m \in Bad : k <= m
  BY <1>1, FirstIsLeast
<1>3. k # i /\ Len(q) \in Nat
  BY RunFacts
<1>4. /\ k - 1 \in 1 .. Len(q) - 1 /\ (k - 1) + 1 = k /\ k - 1 \in Nat
      /\ i <= k - 1 /\ ~ (k <= k - 1) /\ k - 1 \in 1 .. Len(q)
  BY <1>3
<1>5. q[i] \subseteq q[k - 1]
  BY <1>2, <1>4
<1>6. Follows(c, q[k - 1], q[k]) /\ q[k - 1] \in Chained(c)
  BY <1>4, RunFacts DEF IsRun
<1>7. q[k - 1] \subseteq q[k]
  BY <1>6, MatesGrow
<1> QED
  BY <1>5, <1>7

\* so the supports of a run are a chain.
LEMMA RunsAreChains ==
  ASSUME Mates, NEW c \in Classifiers, NEW q, IsRun(c, q)
  PROVE  /\ IsChain(Range(q)) /\ IsFiniteSet(Range(q))
         /\ q \in Seq(SUBSET Coordinates)
         /\ \A i, j \in DOMAIN q : i < j => q[i] \subseteq q[j]
<1>1. /\ Len(q) \in Nat /\ DOMAIN q = 1 .. Len(q)
      /\ \A i \in 1 .. Len(q) : q[i] \in Unique(c)
  BY RunFacts
<1>2. \A i, j \in 1 .. Len(q) : i <= j => q[i] \subseteq q[j]
  BY RunsGrow
<1>3. \A i, j \in 1 .. Len(q) : i <= j \/ j <= i
  BY <1>1
<1>4. IsChain(Range(q))
  BY <1>1, <1>2, <1>3 DEF IsChain, Range
<1>5. Unique(c) \subseteq SUBSET Coordinates
  BY UniqueSupports DEF Mates
<1>6. IsFiniteSet(Range(q))
  <2>1. IsFiniteSet(SUBSET Coordinates)
    BY WidthAssumption, IntervalSize, FS_SUBSET DEF Coordinates
  <2>2. Range(q) \subseteq SUBSET Coordinates
    BY <1>5, RunFacts
  <2> QED
    BY <2>1, <2>2, FS_Subset
<1>7. q \in Seq(SUBSET Coordinates)
  <2>1. q \in Seq(Chained(c))
    BY DEF IsRun
  <2>2. Chained(c) \subseteq SUBSET Coordinates
    BY <1>5 DEF Chained
  <2> QED
    BY <2>1, <2>2
<1>8. \A i, j \in DOMAIN q : i < j => q[i] \subseteq q[j]
  BY <1>1, <1>2
<1> QED
  BY <1>4, <1>6, <1>7, <1>8

\* Runs from supports that are nobody's mate meet only if they are the same:
\* going back from where they meet, both have the same support before it.
LEMMA RunsAreDisjoint ==
  ASSUME Mates, NEW c, NEW q, IsRun(c, q), q[1] \in Starts(c),
         NEW r, IsRun(c, r), r[1] \in Starts(c),
         NEW i \in 1 .. Len(q), NEW j \in 1 .. Len(r), q[i] = r[j]
  PROVE  q = r
<1> DEFINE Bad == {k \in Nat : k \in 1 .. Len(q) /\ \E m \in 1 .. Len(r) : q[k] = r[m]}
<1>1. Len(q) \in Nat /\ Len(r) \in Nat
  BY RunFacts
<1>2. i \in Bad
  BY <1>1
<1>3. PICK k \in Bad : \A m \in Bad : k <= m
  BY <1>2, FirstIsLeast
<1>4. PICK m \in 1 .. Len(r) : q[k] = r[m]
  OBVIOUS
<1>5. ASSUME k # 1
      PROVE  k - 1 \in 1 .. Len(q) /\ ~ (k <= k - 1) /\ k - 1 \in Nat /\ Follows(c, q[k - 1], q[k])
  <2>1. /\ k - 1 \in 1 .. Len(q) - 1 /\ (k - 1) + 1 = k /\ k - 1 \in 1 .. Len(q)
        /\ ~ (k <= k - 1) /\ k - 1 \in Nat
    BY <1>1, <1>5
  <2>2. Follows(c, q[k - 1], q[(k - 1) + 1])
    BY <2>1 DEF IsRun
  <2> QED
    BY <2>1, <2>2
<1>6. ASSUME m # 1 PROVE m - 1 \in 1 .. Len(r) /\ Follows(c, r[m - 1], r[m])
  <2>1. m - 1 \in 1 .. Len(r) - 1 /\ (m - 1) + 1 = m
    BY <1>1, <1>6
  <2> QED
    BY <1>1, <2>1 DEF IsRun
<1>7. \A s, t : Follows(c, s, t) => t \notin Starts(c)
  BY DEF Follows, Starts
<1>8. CASE k = 1
  <2>1. m = 1
    BY <1>4, <1>6, <1>7, <1>8
  <2> QED
    BY <1>4, <1>8, <2>1, RunsAreUnique
<1>9. CASE k # 1
  <2>1. m # 1
    BY <1>4, <1>5, <1>7, <1>9
  <2>2. q[k - 1] = r[m - 1]
    BY <1>4, <1>5, <1>6, <1>9, <2>1, OneMate
  <2>3. k - 1 \in Bad
    BY <1>5, <1>6, <1>9, <2>1, <2>2
  <2> QED
    BY <1>3, <1>5, <1>9, <2>3
<1> QED
  BY <1>8, <1>9

\* No support but those that are their own mates is outside the chains.
LEMMA ChainsCover ==
  ASSUME Mates, NEW c \in Classifiers, NEW s \in Chained(c)
  PROVE  \E ch \in ChainsOf(c) : s \in Range(ch)
<1> DEFINE Bad == {t \in Chained(c) : ~ \E ch \in ChainsOf(c) : t \in Range(ch)}
           sizes == {Cardinality(t) : t \in Bad}
<1>1. SUFFICES ASSUME Bad # {} PROVE FALSE
  OBVIOUS
<1>2. sizes \subseteq Nat /\ sizes # {}
  BY <1>1, UniqueSupports DEF Mates, Chained
<1>3. PICK n \in sizes : \A m \in sizes : n <= m
  BY <1>2, FirstIsLeast
<1>4. PICK t \in Bad : Cardinality(t) = n
  BY <1>3
<1>5. \A u \in Bad : Cardinality(t) <= Cardinality(u)
  BY <1>3, <1>4
<1> HIDE DEF sizes
<1>6. t \notin Starts(c)
  <2>1. \A ch \in ChainsOf(c) : ch[1] \in Range(ch)
    BY ChainsAreRuns, RunFacts DEF Range
  <2> QED
    BY <2>1, ChainsAreRuns
<1>7. PICK e \in mate : e[2] = <<c, t>>
  BY <1>6 DEF Starts, Chained
<1>8. PICK d \in Classifiers : \E x, y \in Unique(d) : e = <<<<d, x>>, <<d, y>>>>
  BY MateEdge
<1>9. PICK u \in Unique(c) : e = <<<<c, u>>, <<c, t>>>>
  BY <1>7, <1>8
<1>10. u \in Chained(c) /\ Follows(c, u, t)
  <2>1. Follows(c, u, t) /\ ~ Follows(c, t, t)
    BY <1>9 DEF Chained, Follows
  <2> QED
    BY <2>1, OneMate DEF Chained
<1>11. Cardinality(u) \in Int /\ Cardinality(t) \in Int /\ Cardinality(u) < Cardinality(t)
  <2> HIDE DEF Bad
  <2> QED
    BY <1>10, MatesGrow
<1>12. u \notin Bad
  BY <1>5, <1>11
<1>13. PICK ch \in ChainsOf(c) : u \in Range(ch)
  BY <1>10, <1>12
<1>14. IsRun(c, ch)
  BY ChainsAreRuns
<1>15. PICK i \in 1 .. Len(ch) : ch[i] = u
  BY <1>13, <1>14, RunFacts DEF Range
<1>16. i # Len(ch)
  BY <1>10, <1>14, <1>15 DEF IsRun, Follows
<1>17. i \in 1 .. Len(ch) - 1 /\ i + 1 \in 1 .. Len(ch)
  BY <1>14, <1>15, <1>16, RunFacts
<1>18. ch[i + 1] = t
  BY <1>10, <1>14, <1>15, <1>17, OneMate DEF IsRun
<1>19. t \in Range(ch)
  BY <1>14, <1>17, <1>18, RunFacts DEF Range
<1> QED
  BY <1>19

\* Edges of the first graph make no support its own mate.
LEMMA AllChained ==
  ASSUME mate \subseteq DilworthsEdges, NEW c
  PROVE  Chained(c) = Unique(c)
BY DEF Chained, Follows, DilworthsEdges

\* A flow of all vertices but one leaves one of them nobody's mate.
LEMMA OneStart ==
  ASSUME Mates, Cardinality(mate) = Cardinality(Vertices) - 1,
         NEW c \in Classifiers, NEW s \in Starts(c), NEW t \in Starts(c)
  PROVE  s = t
<1> DEFINE v == <<c, s>>
           w == <<c, t>>
           others == (Vertices \ {v}) \ {w}
           into == [e \in mate |-> e[2]]
<1>1. SUFFICES ASSUME s # t PROVE FALSE
  OBVIOUS
<1>2. v \in Vertices /\ w \in Vertices \ {v}
  BY <1>1, UniqueSupports DEF Mates, Starts
<1>3. IsFiniteSet(Vertices) /\ Cardinality(Vertices) \in Nat
  BY FinitelyManyVertices, FS_CardinalityType DEF Mates
<1>4. \A e \in mate : e[2] \in Vertices /\ e[2] # v /\ e[2] # w
  BY DEF Mates, DilworthsEdges, Loops, Starts
<1> HIDE DEF v, w
<1>5. IsFiniteSet(others) /\ Cardinality(others) = Cardinality(Vertices) - 2
  <2>1. IsFiniteSet(Vertices \ {v}) /\ Cardinality(Vertices \ {v}) = Cardinality(Vertices) - 1
    BY <1>2, <1>3, FS_RemoveElement
  <2>2. IsFiniteSet(others) /\ Cardinality(others) = Cardinality(Vertices \ {v}) - 1
    BY <1>2, <2>1, FS_RemoveElement
  <2> QED
    BY <1>3, <2>1, <2>2
<1>6. \A e \in mate : e[2] \in others
  BY <1>4
<1> HIDE DEF others
<1>7. into \in Injection(mate, others)
  BY <1>6 DEF Injection, IsInjective, Mates, IsMatching
<1>8. Cardinality(mate) <= Cardinality(others)
  BY <1>5, <1>7, FS_Injection
<1> QED
  BY <1>3, <1>5, <1>8
-----------------------------------------------------------------------------
(* The invariant of the entry points.                                      *)

AllChains == [c \in Classifiers |-> ChainsOf(c)]

AllGroups == UNION {{Group(c, ch) : ch \in ChainsOf(c)} : c \in Classifiers}

AllLeftover ==
  [c \in Classifiers |-> Rules(c) \ UNION {IndicesOf(c, ch) : ch \in ChainsOf(c)}]

Collected ==
  {[rule |-> i, support |-> expansions[SupportOf(1, i)]] :
     i \in {j \in Rules(1) : expansions[SupportOf(1, j)] \in Range(chain)}}

Phases ==
  /\ phase \in {"start", "chains", "first chain", "subclassifiers", "expand",
                "expanded", "done", "none"}
  /\ phase \in {"first chain", "expand", "expanded"} => call.kind = EXPANDED
  /\ phase = "subclassifiers" => call.kind # EXPANDED

Matched ==
  /\ Mates
  /\ call.kind = FEWEST => mate \subseteq DilworthsEdges
  /\ call.kind = EXPANDED /\ phase \notin {"start", "none"} =>
       Cardinality(mate) = Cardinality(Vertices) - 1

Partitioned ==
  partition = IF phase \in {"start", "none", "chains"} THEN <<>> ELSE AllChains

Built ==
  /\ leftover = IF phase = "done" /\ call.kind # EXPANDED THEN AllLeftover ELSE <<>>
  /\ phase = "done" => groups = IF call.kind = EXPANDED THEN Collected ELSE AllGroups

\* The chain that is expanded was the only one, and its supports are covered.
Expanding ==
  IF call.kind = EXPANDED /\ phase \in {"expand", "expanded", "done"}
  THEN /\ unique_supports = Unique(1)
       /\ max_bits = call.max_expanded_bits
       /\ \A ch \in ChainsOf(1) : Range(ch) \subseteq Covered
  ELSE unique_supports = {}

ChainsInv ==
  /\ call \in Inputs
  /\ ExpandInv
  /\ Phases
  /\ Matched
  /\ Partitioned
  /\ Built
  /\ Expanding

\* Matching and flow leave the arguments alone, the rest the mates too.
LEMMA SameCall ==
  ASSUME UNCHANGED call
  PROVE  /\ Classifiers' = Classifiers /\ Vertices' = Vertices
         /\ DilworthsEdges' = DilworthsEdges /\ Loops' = Loops
         /\ \A c : Rules(c)' = Rules(c) /\ Unique(c)' = Unique(c)
         /\ \A c, i : SupportOf(c, i)' = SupportOf(c, i)
<1>1. \A c, i : SupportOf(c, i)' = SupportOf(c, i)
  BY DEF SupportOf
<1>2. \A c : Rules(c)' = Rules(c)
  BY DEF Rules
<1>3. \A c : Unique(c)' = Unique(c)
  BY <1>1, <1>2 DEF Unique
<1>4. Classifiers' = Classifiers
  BY DEF Classifiers
<1>5. Vertices' = Vertices
  BY <1>3, <1>4 DEF Vertices
<1> QED
  BY <1>1, <1>2, <1>3, <1>4, <1>5 DEF DilworthsEdges, Loops

\* ChainsOf with what it reads for arguments.
ChainsFrom(c, supports, mates) ==
  LET starts  == {s \in supports : \A e \in mates : e[2] # <<c, s>>}
      chained == {s \in supports : <<<<c, s>>, <<c, s>>>> \notin mates}
      from[s \in chained] ==
        IF \E e \in mates : e[1] = <<c, s>>
        THEN <<s>> \o from[(CHOOSE e \in mates : e[1] = <<c, s>>)[2][2]]
        ELSE <<s>>
  IN  {from[s] : s \in starts}

LEMMA SameMates ==
  ASSUME UNCHANGED <<call, mate>>
  PROVE  /\ \A c : ChainsOf(c)' = ChainsOf(c)
         /\ AllChains' = AllChains /\ AllGroups' = AllGroups /\ AllLeftover' = AllLeftover
         /\ Mates' = Mates
<1>1. \A c : Unique(c)' = Unique(c) /\ Rules(c)' = Rules(c)
  BY SameCall
<1>2. \A c : ChainsOf(c)' = ChainsOf(c)
  <2>1. \A c : ChainsOf(c) = ChainsFrom(c, Unique(c), mate)
    BY DEF ChainsOf, ChainsFrom
  <2>2. \A c : ChainsOf(c)' = ChainsFrom(c, Unique(c)', mate')
    BY DEF ChainsOf, ChainsFrom
  <2> QED
    BY <1>1, <2>1, <2>2
<1>3. \A c, ch : IndicesOf(c, ch)' = IndicesOf(c, ch)
  BY SameCall DEF IndicesOf
<1>4. \A c, ch : Group(c, ch)' = Group(c, ch)
  BY <1>3 DEF Group
<1>5. AllChains' = AllChains /\ AllGroups' = AllGroups /\ AllLeftover' = AllLeftover
  BY <1>2, <1>3, <1>4, SameCall DEF AllChains, AllGroups, AllLeftover
<1>6. Mates' = Mates
  BY SameCall DEF Mates, IsMatching
<1> QED
  BY <1>2, <1>5, <1>6

LEMMA InitKeeps == Init => ChainsInv
<1> SUFFICES ASSUME Init PROVE ChainsInv
  OBVIOUS
<1>1. call \in Inputs /\ call \in Call
  BY InputsAssumption DEF Init
<1>2. ExpandInv
  <2>1. ExpandTypeOK
    BY DEF Init, ExpandTypeOK, Supports
  <2> QED
    BY <2>1 DEF Init, ExpandInv, ChainMonotone, CacheSound, Attached, CacheWithin, Supports
<1>3. Phases
  BY DEF Init, Phases
<1>4. Matched
  BY <1>1 DEF Init, Matched, Mates, IsMatching
<1>5. Partitioned /\ Built /\ Expanding
  BY DEF Init, Partitioned, Built, Expanding
<1> QED
  BY <1>1, <1>2, <1>3, <1>4, <1>5 DEF ChainsInv

LEMMA KindsDiffer == FEWEST # EXPANDED /\ FEWEST # BOUNDED /\ BOUNDED # EXPANDED
BY DEF FEWEST, EXPANDED, BOUNDED

LEMMA NothingToDoKeeps ==
  ASSUME ChainsInv, NothingToDo
  PROVE  ChainsInv'
<1>1. /\ phase = "start" /\ phase' = "none"
      /\ UNCHANGED <<call, mate, partition, groups, leftover, expand_args, chain,
                     expansions, bits_expanded, non_chain>>
  BY DEF NothingToDo
<1>2. ExpandInv'
  BY <1>1, StutterHolds DEF ChainsInv
<1>3. Matched'
  BY <1>1, SameMates, SameCall DEF ChainsInv, Matched
<1>4. Phases' /\ Partitioned' /\ Built' /\ Expanding'
  BY <1>1 DEF ChainsInv, Phases, Partitioned, Built, Expanding, expand_args
<1> QED
  BY <1>1, <1>2, <1>3, <1>4 DEF ChainsInv

LEMMA MatchKeeps ==
  ASSUME ChainsInv, Match
  PROVE  ChainsInv'
<1>1. /\ phase = "start" /\ phase' = "chains" /\ call.kind = FEWEST
      /\ mate' \in MaximumMatchings
      /\ UNCHANGED <<call, partition, groups, leftover, expand_args, chain,
                     expansions, bits_expanded, non_chain>>
  BY DEF Match
<1>2. ExpandInv'
  BY <1>1, StutterHolds DEF ChainsInv
<1>3. mate' \subseteq DilworthsEdges /\ IsMatching(mate')
  <2>1. mate' \in Matchings(DilworthsEdges)
    BY <1>1 DEF MaximumMatchings
  <2>2. DilworthsEdges \subseteq Vertices \X Vertices
    BY DEF DilworthsEdges
  <2> QED
    BY <2>1, <2>2, MatchingsAre DEF ChainsInv, Matched, Mates
<1>4. Matched'
  BY <1>1, <1>3, SameCall, KindsDiffer DEF ChainsInv, Matched, Mates
<1>5. Phases' /\ Partitioned' /\ Built' /\ Expanding'
  BY <1>1, KindsDiffer DEF ChainsInv, Phases, Partitioned, Built, Expanding, expand_args
<1> QED
  BY <1>1, <1>2, <1>4, <1>5 DEF ChainsInv

LEMMA FlowKeeps ==
  ASSUME ChainsInv, Flow
  PROVE  ChainsInv'
<1>1. /\ phase = "start" /\ phase' = "chains" /\ call.kind # FEWEST
      /\ call.kind = EXPANDED => Rules(1) # {}
      /\ mate' \in CheapestFlows
      /\ UNCHANGED <<call, partition, groups, leftover, expand_args, chain,
                     expansions, bits_expanded, non_chain>>
  BY DEF Flow
<1>2. ExpandInv'
  BY <1>1, StutterHolds DEF ChainsInv
<1>3. mate' \subseteq DilworthsEdges \cup Loops /\ IsMatching(mate')
      /\ Cardinality(mate') = FlowSize
  <2>1. mate' \in Matchings(DilworthsEdges \cup Loops) /\ Cardinality(mate') = FlowSize
    BY <1>1 DEF CheapestFlows, Loops
  <2>2. DilworthsEdges \cup Loops \subseteq Vertices \X Vertices
    BY DEF DilworthsEdges, Loops
  <2> QED
    BY <2>1, <2>2, MatchingsAre DEF ChainsInv, Matched, Mates
<1>4. call.kind = EXPANDED => FlowSize = Cardinality(Vertices) - 1
  <2> SUFFICES ASSUME call.kind = EXPANDED PROVE FlowSize = Cardinality(Vertices) - 1
    OBVIOUS
  <2>1. call \in Call /\ call.max_num_groups = 1 /\ Len(call.classifiers) = 1
    BY InputsAssumption, KindsDiffer DEF ChainsInv
  <2>2. 1 \in Classifiers
    BY <2>1 DEF Classifiers, Call
  <2>3. PICK i \in Rules(1) : TRUE
    BY <1>1
  <2>4. Vertices # {}
    BY <2>1, <2>2, <2>3, UniqueSupports
  <2>5. Cardinality(Vertices) \in Nat /\ Cardinality(Vertices) # 0
    BY <2>1, <2>4, FinitelyManyVertices, FS_CardinalityType, FS_EmptySet
  <2> QED
    BY <2>1, <2>5 DEF FlowSize, Larger
<1>5. Matched'
  BY <1>1, <1>3, <1>4, SameCall DEF ChainsInv, Matched, Mates
<1>6. Phases' /\ Partitioned' /\ Built' /\ Expanding'
  BY <1>1 DEF ChainsInv, Phases, Partitioned, Built, Expanding, expand_args
<1> QED
  BY <1>1, <1>2, <1>5, <1>6 DEF ChainsInv

LEMMA CalculateChainsKeeps ==
  ASSUME ChainsInv, CalculateChains
  PROVE  ChainsInv'
<1>1. /\ phase = "chains"
      /\ phase' = IF call.kind = EXPANDED THEN "first chain" ELSE "subclassifiers"
      /\ partition' = AllChains
      /\ UNCHANGED <<call, mate, groups, leftover, expand_args, chain,
                     expansions, bits_expanded, non_chain>>
  BY DEF CalculateChains, AllChains
<1>2. ExpandInv'
  BY <1>1, StutterHolds DEF ChainsInv
<1>3. Matched'
  BY <1>1, SameMates, SameCall DEF ChainsInv, Matched
<1>4. Partitioned'
  BY <1>1, SameMates DEF Partitioned
<1>5. Phases' /\ Built' /\ Expanding'
  BY <1>1 DEF ChainsInv, Phases, Built, Expanding, expand_args
<1> QED
  BY <1>1, <1>2, <1>3, <1>4, <1>5 DEF ChainsInv

LEMMA BuildGroupsKeeps ==
  ASSUME ChainsInv, BuildGroups
  PROVE  ChainsInv'
<1>1. /\ phase = "subclassifiers" /\ phase' = "done" /\ call.kind # EXPANDED
      /\ UNCHANGED <<call, mate, partition, expand_args, chain,
                     expansions, bits_expanded, non_chain>>
  BY DEF BuildGroups, ChainsInv, Phases
<1>2. ExpandInv'
  BY <1>1, StutterHolds DEF ChainsInv
<1>3. Matched'
  BY <1>1, SameMates, SameCall DEF ChainsInv, Matched
<1>4. \A c \in Classifiers : partition[c] = ChainsOf(c)
  BY <1>1 DEF ChainsInv, Partitioned, AllChains
<1>5. groups' = AllGroups
  BY <1>4 DEF BuildGroups, AllGroups
<1>6. leftover' = AllLeftover
  BY <1>4 DEF BuildGroups, AllLeftover
<1>7. Partitioned'
  BY <1>1, SameMates DEF ChainsInv, Partitioned
<1>8. Built'
  BY <1>1, <1>5, <1>6, SameMates DEF Built
<1>9. Phases' /\ Expanding'
  BY <1>1 DEF ChainsInv, Phases, Expanding, expand_args
<1> QED
  BY <1>1, <1>2, <1>3, <1>7, <1>8, <1>9 DEF ChainsInv

\* All chains of the one classifier are the same.
LEMMA OneChain ==
  ASSUME ChainsInv, call.kind = EXPANDED, phase \notin {"start", "none"},
         NEW q \in ChainsOf(1), NEW r \in ChainsOf(1)
  PROVE  1 \in Classifiers /\ q = r
<1>1. call \in Call /\ Len(call.classifiers) = 1
  BY InputsAssumption, KindsDiffer DEF ChainsInv
<1>2. 1 \in Classifiers
  BY <1>1 DEF Classifiers, Call
<1>3. Mates /\ Cardinality(mate) = Cardinality(Vertices) - 1
  BY DEF ChainsInv, Matched
<1>4. IsRun(1, q) /\ q[1] \in Starts(1) /\ IsRun(1, r) /\ r[1] \in Starts(1)
  BY <1>2, <1>3, ChainsAreRuns
<1>5. q[1] = r[1]
  BY <1>2, <1>3, <1>4, OneStart
<1> QED
  BY <1>2, <1>3, <1>4, <1>5, RunsAreUnique

LEMMA StartExpansionKeeps ==
  ASSUME ChainsInv, StartExpansion
  PROVE  ChainsInv'
<1>1. /\ phase = "first chain" /\ call.kind = EXPANDED
      /\ UNCHANGED <<call, mate, partition, groups, leftover>>
  BY DEF StartExpansion, ChainsInv, Phases
<1>2. call \in Call /\ Len(call.classifiers) = 1
  BY <1>1, InputsAssumption, KindsDiffer DEF ChainsInv
<1>3. 1 \in Classifiers
  BY <1>2 DEF Classifiers, Call
<1>4. Mates
  BY DEF ChainsInv, Matched
<1>5. partition[1] = ChainsOf(1)
  BY <1>1, <1>3 DEF ChainsInv, Partitioned, AllChains
<1> DEFINE ws == [s \in Unique(1) |-> Weight(1, s)]
<1>6. PICK ch \in ChainsOf(1) : ExpandCall(Unique(1), ws, call.max_expanded_bits, ch)
  BY <1>5 DEF StartExpansion
<1>7. IsRun(1, ch)
  BY <1>3, <1>4, ChainsAreRuns
<1>8. /\ ch \in Seq(Unique(1))
      /\ \A p, q \in DOMAIN ch : p < q => ch[p] \subseteq ch[q]
  <2>1. ch \in Seq(Chained(1)) /\ Chained(1) \subseteq Unique(1)
    BY <1>7 DEF IsRun, Chained
  <2> QED
    BY <1>3, <1>4, <1>7, <2>1, RunsAreChains
<1>9. /\ Unique(1) \subseteq Supports /\ ws \in [Unique(1) -> Nat]
      /\ call.max_expanded_bits \in Nat
  <2>1. \A s : Weight(1, s) \in Nat
    <3>1. call.classifiers[1] \in Seq(Entry)
      BY <1>2, <1>3 DEF Call, Classifiers
    <3>2. IsFiniteSet(Rules(1))
      BY <3>1, IntervalSize DEF Rules
    <3> QED
      BY <3>2, FS_Subset, FS_CardinalityType DEF Weight
  <2> QED
    BY <1>2, <1>3, <2>1, UniqueSupports DEF Call, Supports
<1> HIDE DEF ws
<1>10. ExpandInv' /\ Range(ch) \subseteq Covered'
  BY <1>6, <1>8, <1>9, CallHolds
<1>11. /\ unique_supports' = Unique(1) /\ max_bits' = call.max_expanded_bits /\ phase' = "expand"
  BY <1>6 DEF ExpandCall
<1>12. \A q \in ChainsOf(1) : Range(q) \subseteq Covered'
  BY <1>1, <1>6, <1>10, OneChain
<1>13. Expanding'
  BY <1>1, <1>11, <1>12, SameCall, SameMates DEF Expanding
<1>14. Matched' /\ Partitioned'
  BY <1>1, <1>11, SameMates, SameCall DEF ChainsInv, Matched, Partitioned
<1>15. Phases' /\ Built'
  BY <1>1, <1>11 DEF ChainsInv, Phases, Built
<1> QED
  BY <1>1, <1>10, <1>13, <1>14, <1>15 DEF ChainsInv

LEMMA ExpandKeeps ==
  ASSUME ChainsInv, Expand
  PROVE  ChainsInv' /\ Covered \subseteq Covered'
<1>1. /\ ExpandNext /\ phase = "expand" /\ phase' \in {"expand", "expanded"}
      /\ UNCHANGED <<call, mate, partition, groups, leftover, expand_args>>
  BY DEF Expand, ExpandNext, Try, ExpandReturn, Prepend, Skip, Merge, Widen, Tried
<1>2. call.kind = EXPANDED
  BY <1>1 DEF ChainsInv, Phases
<1>3. ExpandInv' /\ Covered \subseteq Covered'
  BY <1>1, StepHolds DEF ChainsInv
<1>4. Expanding'
  BY <1>1, <1>2, <1>3, SameCall, SameMates DEF ChainsInv, Expanding, expand_args
<1>5. Matched' /\ Partitioned'
  BY <1>1, SameMates, SameCall DEF ChainsInv, Matched, Partitioned
<1>6. Phases' /\ Built'
  BY <1>1, <1>2 DEF ChainsInv, Phases, Built
<1> QED
  BY <1>1, <1>3, <1>4, <1>5, <1>6 DEF ChainsInv

LEMMA CollectKeeps ==
  ASSUME ChainsInv, Collect
  PROVE  ChainsInv'
<1>1. /\ phase = "expanded" /\ phase' = "done" /\ groups' = Collected
      /\ UNCHANGED <<call, mate, partition, leftover, expand_args, chain,
                     expansions, bits_expanded, non_chain>>
  BY DEF Collect, Collected
<1>2. call.kind = EXPANDED
  BY <1>1 DEF ChainsInv, Phases
<1>3. ExpandInv' /\ Covered' = Covered
  BY <1>1, StutterHolds DEF ChainsInv
<1>4. Collected' = Collected
  BY <1>1, SameCall DEF Collected
<1>5. Expanding'
  BY <1>1, <1>2, <1>3, SameCall, SameMates DEF ChainsInv, Expanding, expand_args
<1>6. Matched' /\ Partitioned'
  BY <1>1, SameMates, SameCall DEF ChainsInv, Matched, Partitioned
<1>7. Phases' /\ Built'
  BY <1>1, <1>2, <1>4 DEF ChainsInv, Phases, Built
<1> QED
  BY <1>1, <1>3, <1>5, <1>6, <1>7 DEF ChainsInv

LEMMA StutterKeeps ==
  ASSUME ChainsInv, UNCHANGED vars
  PROVE  ChainsInv'
<1>1. UNCHANGED <<call, mate, partition, groups, leftover, expand_args, chain,
                  expansions, bits_expanded, non_chain, phase>>
  BY DEF vars, expand_vars
<1>2. ExpandInv' /\ Covered' = Covered
  BY <1>1, StutterHolds DEF ChainsInv
<1>3. Collected' = Collected
  BY <1>1, SameCall DEF Collected
<1>4. Matched' /\ Partitioned'
  BY <1>1, SameMates, SameCall DEF ChainsInv, Matched, Partitioned
<1>5. Phases' /\ Built'
  BY <1>1, <1>3, SameMates DEF ChainsInv, Phases, Built
<1>6. Expanding'
  BY <1>1, <1>2, SameMates, SameCall DEF ChainsInv, Expanding, expand_args
<1> QED
  BY <1>1, <1>2, <1>4, <1>5, <1>6 DEF ChainsInv

LEMMA NextKeeps ==
  ASSUME ChainsInv, [Next]_vars
  PROVE  ChainsInv'
BY NothingToDoKeeps, MatchKeeps, FlowKeeps, CalculateChainsKeeps, BuildGroupsKeeps,
   StartExpansionKeeps, ExpandKeeps, CollectKeeps, StutterKeeps DEF Next, Return

THEOREM Invariance == Spec => []ChainsInv
BY InitKeeps, NextKeeps, PTL DEF Spec

-----------------------------------------------------------------------------
(* The theorems.                                                           *)

\* Every variable keeps its type: chains are sequences of supports and what
\* is left over are positions of rules.
THEOREM TypeCorrect == Spec => []TypeOK
<1>1. ASSUME ChainsInv PROVE TypeOK
  <2>1. call \in Call /\ Mates /\ ExpandInv /\ Phases
    BY <1>1 DEF ChainsInv, Matched, Mates
  <2>2. mate \subseteq Vertices \X Vertices
    BY <2>1 DEF Mates, DilworthsEdges, Loops
  <2>3. \A c \in DOMAIN partition : \A ch \in partition[c] : ch \in Seq(SUBSET Coordinates)
    <3>1. CASE partition = <<>>
      BY <3>1
    <3>2. CASE partition = AllChains
      <4>1. \A c \in Classifiers : \A ch \in ChainsOf(c) : ch \in Seq(SUBSET Coordinates)
        BY <2>1, ChainsAreRuns, RunsAreChains
      <4> QED
        BY <3>2, <4>1 DEF AllChains
    <3> QED
      BY <1>1, <3>1, <3>2 DEF ChainsInv, Partitioned
  <2>4. \A c \in DOMAIN leftover : leftover[c] \subseteq Rules(c)
    <3>1. CASE leftover = <<>>
      BY <3>1
    <3>2. CASE leftover = AllLeftover
      BY <3>2 DEF AllLeftover
    <3> QED
      BY <1>1, <3>1, <3>2 DEF ChainsInv, Built
  <2> QED
    BY <2>1, <2>2, <2>3, <2>4 DEF TypeOK, Phases, ExpandInv
<1> QED
  BY <1>1, Invariance, PTL

\* What has become of the chain that is expanded is a chain.
THEOREM ChainStaysChain == Spec => []ChainMonotone
<1>1. ChainsInv => ChainMonotone
  BY DEF ChainsInv, ExpandInv
<1> QED
  BY <1>1, Invariance, PTL

\* bits_expanded never counts too little for a support expanded to a member.
THEOREM CacheStaysSound == Spec => []CacheSound
<1>1. ChainsInv => CacheSound
  BY DEF ChainsInv, ExpandInv
<1> QED
  BY <1>1, Invariance, PTL

\* No rule is in two subclassifiers or lost, and minimize_num_groups leaves
\* none over: chains are disjoint, and without a bound they cover everything.
THEOREM RulesArePartitioned == Spec => []EachRuleOnce
<1>1. ASSUME ChainsInv PROVE EachRuleOnce
  <2> SUFFICES ASSUME phase = "done", call.kind # EXPANDED, NEW c \in Classifiers
               PROVE  LET mine == {g \in groups : g.classifier = c}
                      IN  /\ \A g, h \in mine : g # h => g.indices \cap h.indices = {}
                          /\ Rules(c) \ leftover[c] = UNION {g.indices : g \in mine}
                          /\ call.kind = FEWEST => leftover[c] = {}
    BY DEF EachRuleOnce
  <2> DEFINE mine == {g \in groups : g.classifier = c}
             taken == UNION {IndicesOf(c, ch) : ch \in ChainsOf(c)}
  <2>1. Mates /\ groups = AllGroups /\ leftover = AllLeftover
    BY <1>1 DEF ChainsInv, Matched, Built
  <2>2. \A d \in Classifiers : \A ch :
          Group(d, ch).classifier = d /\ Group(d, ch).indices = IndicesOf(d, ch)
    BY DEF Group
  <2>3. \A g \in mine : \E ch \in ChainsOf(c) : g = Group(c, ch)
    BY <2>1, <2>2 DEF AllGroups
  <2>4. \A ch \in ChainsOf(c) : Group(c, ch) \in mine
    BY <2>1, <2>2 DEF AllGroups
  <2>5. leftover[c] = Rules(c) \ taken
    BY <2>1 DEF AllLeftover
  <2>6. taken \subseteq Rules(c)
    BY DEF IndicesOf
  <2>7. UNION {g.indices : g \in mine} = taken
    <3> HIDE DEF mine
    <3>1. \A g \in mine : \E ch \in ChainsOf(c) : g.indices = IndicesOf(c, ch)
      BY <2>2, <2>3
    <3>2. \A ch \in ChainsOf(c) : \E g \in mine : g.indices = IndicesOf(c, ch)
      BY <2>2, <2>4
    <3> QED
      BY <3>1, <3>2
  <2>8. ASSUME NEW g \in mine, NEW h \in mine, g # h PROVE g.indices \cap h.indices = {}
    <3>1. PICK q \in ChainsOf(c) : g = Group(c, q)
      BY <2>3
    <3>2. PICK r \in ChainsOf(c) : h = Group(c, r)
      BY <2>3
    <3>3. IsRun(c, q) /\ q[1] \in Starts(c) /\ IsRun(c, r) /\ r[1] \in Starts(c)
      BY <2>1, ChainsAreRuns
    <3>4. Range(q) \cap Range(r) = {}
      <4> SUFFICES ASSUME NEW i \in 1 .. Len(q), NEW j \in 1 .. Len(r), q[i] = r[j]
                   PROVE  FALSE
        BY <3>3, RunFacts DEF Range
      <4>1. q = r
        BY <2>1, <3>3, RunsAreDisjoint
      <4> QED
        BY <2>8, <3>1, <3>2, <4>1
    <3>5. IndicesOf(c, q) \cap IndicesOf(c, r) = {}
      BY <3>4 DEF IndicesOf
    <3> QED
      BY <2>2, <3>1, <3>2, <3>5
  <2>9. ASSUME call.kind = FEWEST PROVE taken = Rules(c)
    <3>1. mate \subseteq DilworthsEdges
      BY <1>1, <2>9 DEF ChainsInv, Matched
    <3> SUFFICES ASSUME NEW i \in Rules(c) PROVE i \in taken
      BY <2>6
    <3>2. SupportOf(c, i) \in Unique(c)
      BY DEF Unique
    <3>3. PICK ch \in ChainsOf(c) : SupportOf(c, i) \in Range(ch)
      BY <2>1, <3>1, <3>2, AllChained, ChainsCover
    <3>4. i \in IndicesOf(c, ch)
      BY <3>3 DEF IndicesOf
    <3> QED
      BY <3>4
  <2> HIDE DEF mine, taken
  <2>10. Rules(c) \ leftover[c] = taken
    BY <2>5, <2>6
  <2>11. call.kind = FEWEST => leftover[c] = {}
    BY <2>5, <2>9
  <2> QED
    BY <2>7, <2>8, <2>10, <2>11 DEF mine
<1> QED
  BY <1>1, Invariance, PTL

\* In the bit order of its chain every entry of a group is a prefix.
THEOREM ChainGroupsArePrefixes == Spec => []GroupsLPM
<1>1. ASSUME ChainsInv PROVE GroupsLPM
  <2> SUFFICES ASSUME phase = "done", call.kind # EXPANDED, NEW g \in groups, NEW i \in g.indices
               PROVE  IsPrefix(Reordered(call.classifiers[g.classifier][i], g.bits))
    BY DEF GroupsLPM
  <2>1. Mates /\ groups = AllGroups /\ call \in Call
    BY <1>1 DEF ChainsInv, Matched, Mates, Built
  <2>2. PICK c \in Classifiers : \E ch \in ChainsOf(c) : g = Group(c, ch)
    BY <2>1 DEF AllGroups
  <2>3. PICK ch \in ChainsOf(c) : g = Group(c, ch)
    BY <2>2
  <2>4. /\ g.classifier = c /\ g.bits = Chain2Bits(Range(ch), Width)
        /\ i \in Rules(c) /\ SupportOf(c, i) \in Range(ch)
    BY <2>3 DEF Group, IndicesOf
  <2>5. IsRun(c, ch)
    BY <2>1, ChainsAreRuns
  <2>6. IsFiniteSet(Range(ch)) /\ IsChain(Range(ch))
    BY <2>1, <2>5, RunsAreChains
  <2> DEFINE f == call.classifiers[c][i]
  <2>7. DOMAIN f = 1 .. Width /\ Exact(f) \in Range(ch)
    <3>1. call.classifiers[c] \in Seq(Entry)
      BY <2>1 DEF Call, Classifiers
    <3>2. f \in Entry
      BY <2>4, <3>1 DEF Rules
    <3> QED
      BY <2>4, <3>2 DEF Entry, Coordinates, SupportOf
  <2> HIDE DEF f
  <2>8. IsPrefix(Reordered(f, Chain2Bits(Range(ch), Width)))
    BY <2>6, <2>7, WidthAssumption, ChainMakesPrefixes
  <2> QED
    BY <2>4, <2>8 DEF f
<1> QED
  BY <1>1, Invariance, PTL

\* Of min_bmgr1_w_expansions the caller gets supports that form a chain, none
\* expanded too much, for all the rules of the chain of greatest weight.
THEOREM RulesExpandedAsAsked == Spec => []ExpandedAsAsked
<1>1. ASSUME ChainsInv PROVE ExpandedAsAsked
  <2> SUFFICES ASSUME phase = "done", call.kind = EXPANDED
               PROVE  /\ IsChain({g.support : g \in groups})
                      /\ \A g \in groups :
                           /\ SupportOf(1, g.rule) \subseteq g.support
                           /\ Cardinality(g.support \ SupportOf(1, g.rule)) <= call.max_expanded_bits
                      /\ \A ch \in partition[1] :
                           IndicesOf(1, ch) \subseteq {g.rule : g \in groups}
    BY DEF ExpandedAsAsked
  <2>1. /\ Mates /\ groups = Collected /\ partition = AllChains /\ call \in Call
        /\ unique_supports = Unique(1) /\ max_bits = call.max_expanded_bits
        /\ \A ch \in ChainsOf(1) : Range(ch) \subseteq Covered
    BY <1>1 DEF ChainsInv, Matched, Mates, Partitioned, Built, Expanding
  <2>2. 1 \in Classifiers
    <3>1. Len(call.classifiers) = 1
      BY <1>1, InputsAssumption, KindsDiffer DEF ChainsInv
    <3> QED
      BY <2>1, <3>1 DEF Classifiers, Call
  <2>3. Abstract!IsCover
    BY <1>1, ExpansionCovers DEF ChainsInv
  <2>4. /\ \A s, t \in Covered :
             expansions[s] \subseteq expansions[t] \/ expansions[t] \subseteq expansions[s]
        /\ \A s \in Covered : s \subseteq expansions[s] /\ Cardinality(expansions[s] \ s) <= max_bits
    BY <2>3 DEF Abstract!IsCover
  <2>5. \A j \in Rules(1) :
          SupportOf(1, j) \in Covered <=> expansions[SupportOf(1, j)] \in Range(chain)
    BY <2>1 DEF Covered, Unique
  <2>6. ASSUME NEW g \in groups
        PROVE  /\ SupportOf(1, g.rule) \in Covered
               /\ g.support = expansions[SupportOf(1, g.rule)]
    BY <2>1, <2>5 DEF Collected
  <2>7. ASSUME NEW j \in Rules(1), SupportOf(1, j) \in Covered
        PROVE  \E g \in groups : g.rule = j
    <3> DEFINE g == [rule |-> j, support |-> expansions[SupportOf(1, j)]]
    <3>1. g \in groups
      BY <2>1, <2>5, <2>7 DEF Collected
    <3> QED
      BY <3>1
  <2>8. ASSUME NEW ch \in partition[1] PROVE IndicesOf(1, ch) \subseteq {g.rule : g \in groups}
    <3>1. ch \in ChainsOf(1)
      BY <2>1, <2>2, <2>8 DEF AllChains
    <3>2. \A j \in IndicesOf(1, ch) : j \in Rules(1) /\ SupportOf(1, j) \in Covered
      BY <2>1, <3>1 DEF IndicesOf
    <3> QED
      BY <2>7, <3>2
  <2>9. IsChain({g.support : g \in groups})
    BY <2>4, <2>6 DEF IsChain
  <2> QED
    BY <2>1, <2>4, <2>6, <2>8, <2>9
<1> QED
  BY <1>1, Invariance, PTL

\* try_expand_chain implements the abstract expansion: no support that is
\* covered ever stops being covered, by a chain and within the budget.
THEOREM Refinement == Spec => RefinesChainCover
<1>1. Init => Abstract!Init
  BY InitKeeps, ExpansionCovers DEF Abstract!Init, ChainsInv
<1>2. ChainsInv => Abstract!IsCover
  BY ExpansionCovers DEF ChainsInv
<1>3. ASSUME ChainsInv, ChainsInv', Abstract!IsCover', [Next]_vars
      PROVE  [Abstract!Next]_(Abstract!vars)
  <2>1. ASSUME StartExpansion PROVE Abstract!Begin
    <3>1. unique_supports = {}
      BY <1>3, <2>1 DEF ChainsInv, Expanding, StartExpansion
    <3>2. expansions' = [s \in unique_supports' |-> s]
      BY <2>1 DEF StartExpansion, ExpandCall
    <3>3. \A s \in Covered' : expansions'[s] = s
      BY <3>2 DEF Covered
    <3> QED
      BY <1>3, <3>1, <3>3 DEF Abstract!Begin
  <2>2. ASSUME Covered \subseteq Covered', UNCHANGED expand_args PROVE Abstract!Extend
    BY <1>3, <2>2 DEF Abstract!Extend, expand_args
  <2>3. CASE Expand
    <3>1. UNCHANGED expand_args
      BY <2>3 DEF Expand, ExpandNext, Try, ExpandReturn, Prepend, Skip, Merge, Widen, Tried
    <3> QED
      BY <1>3, <2>2, <2>3, <3>1, ExpandKeeps DEF Abstract!Next
  <2>4. CASE UNCHANGED <<expand_args, chain, expansions>>
    <3>1. Covered' = Covered
      BY <2>4 DEF Covered, expand_args
    <3> QED
      BY <2>2, <2>4, <3>1 DEF Abstract!Next
  <2>5. CASE NothingToDo \/ Match \/ Flow \/ CalculateChains \/ BuildGroups \/ Collect
    BY <2>4, <2>5 DEF NothingToDo, Match, Flow, CalculateChains, BuildGroups, Collect
  <2>6. CASE Return \/ UNCHANGED vars
    BY <2>4, <2>6 DEF Return, vars, expand_vars
  <2> QED
    BY <1>3, <2>1, <2>3, <2>5, <2>6 DEF Next, Abstract!Next
<1> QED
  BY <1>1, <1>2, <1>3, Invariance, PTL DEF Spec, RefinesChainCover, Abstract!Spec

-----------------------------------------------------------------------------
(* As many chains as supports apart from each other (Dilworth).            *)

\* No matching of the graph has more edges.
Greatest(M, E) == \A N \in SUBSET E : IsMatching(N) => Cardinality(N) <= Cardinality(M)

GreatestMatching(V, E, M) ==
  /\ IsFiniteSet(V) /\ E \subseteq V \X V
  /\ M \in SUBSET E /\ IsMatching(M) /\ Greatest(M, E)

Unjoined(A, E) == \A v, w \in A : <<v, w>> \notin E

LeftOf(M)  == {e[1] : e \in M}
RightOf(M) == {e[2] : e \in M}

\* An edge with two free ends can be taken in.
LEMMA OneMoreEdge ==
  ASSUME NEW N, IsFiniteSet(N), IsMatching(N), NEW v, NEW w,
         v \notin LeftOf(N), w \notin RightOf(N)
  PROVE  /\ IsMatching(N \cup {<<v, w>>})
         /\ Cardinality(N \cup {<<v, w>>}) = Cardinality(N) + 1
<1> DEFINE e == <<v, w>>
<1>1. e[1] = v /\ e[2] = w
  OBVIOUS
<1>2. \A d \in N : d[1] # e[1] /\ d[2] # e[2]
  BY <1>1 DEF LeftOf, RightOf
<1> HIDE DEF e
<1>3. e \notin N
  BY <1>2
<1>4. IsMatching(N \cup {e})
  BY <1>2 DEF IsMatching
<1>5. Cardinality(N \cup {e}) = Cardinality(N) + 1
  BY <1>3, FS_AddElement
<1> QED
  BY <1>4, <1>5 DEF e

\* Another matching as large as M, with the same right sides, that leaves v
\* alone and differs from M on the left sides of X only: what an alternating
\* path from v leads to.
Detour(M, E, v, X, N) ==
  /\ N \in SUBSET E
  /\ IsMatching(N)
  /\ Cardinality(N) = Cardinality(M)
  /\ RightOf(N) = RightOf(M)
  /\ v \notin LeftOf(N)
  /\ \A e \in M : e[1] \notin X => e \in N

Reached(V, M, E, X) ==
  /\ X \in SUBSET V
  /\ V \ LeftOf(M) \subseteq X
  /\ \A v \in X : \E N : Detour(M, E, v, X, N)

\* Every neighbour of X is matched, and with a member of X.
Closed(E, M, X) ==
  \A v \in X : \A w : <<v, w>> \in E => \E u \in X : <<u, w>> \in M

\* Turning the detour of v at an edge of M reaches the left side of that edge.
LEMMA TurnedDetour ==
  ASSUME NEW M, IsMatching(M), NEW E, IsFiniteSet(E), NEW X, NEW v \in X, NEW N, Detour(M, E, v, X, N),
         NEW w, <<v, w>> \in E, NEW u, u \notin X, <<u, w>> \in M
  PROVE  \E N2 : Detour(M, E, u, X \cup {u}, N2)
<1> DEFINE d == <<u, w>>
           rest == N \ {d}
           N2 == rest \cup {<<v, w>>}
<1>1. d[1] = u /\ d[2] = w /\ d \in M /\ d[1] \notin X
  OBVIOUS
<1>2. /\ N \in SUBSET E /\ IsMatching(N) /\ Cardinality(N) = Cardinality(M)
      /\ RightOf(N) = RightOf(M) /\ v \notin LeftOf(N)
      /\ \A e \in M : e[1] \notin X => e \in N
  BY DEF Detour
<1>3. d \in N /\ u # v
  BY <1>1, <1>2
<1>4. IsFiniteSet(N) /\ Cardinality(N) \in Nat
  BY <1>2, FS_Subset, FS_CardinalityType
<1>5. \A e \in rest : e \in N /\ e[1] # u /\ e[2] # w /\ e[1] # v
  BY <1>1, <1>2, <1>3 DEF IsMatching, LeftOf
<1> HIDE DEF d
<1>6. IsFiniteSet(rest) /\ Cardinality(rest) = Cardinality(N) - 1 /\ IsMatching(rest)
  <2>1. IsFiniteSet(rest) /\ Cardinality(rest) = Cardinality(N) - 1
    BY <1>3, <1>4, FS_RemoveElement
  <2> QED
    BY <1>2, <2>1 DEF IsMatching
<1>7. v \notin LeftOf(rest) /\ w \notin RightOf(rest)
  BY <1>5 DEF LeftOf, RightOf
<1>8. IsMatching(N2) /\ Cardinality(N2) = Cardinality(M)
  <2> HIDE DEF rest
  <2>1. IsMatching(N2) /\ Cardinality(N2) = Cardinality(rest) + 1
    BY <1>6, <1>7, OneMoreEdge
  <2> HIDE DEF N2
  <2> QED
    BY <1>2, <1>4, <1>6, <2>1
<1>9. N2 \in SUBSET E
  BY <1>2
<1>10. <<v, w>>[1] = v /\ <<v, w>>[2] = w /\ <<v, w>> \in N2
  OBVIOUS
<1>11. \A e \in N2 : e = <<v, w>> \/ e \in rest
  OBVIOUS
<1>12. RightOf(N2) = RightOf(M)
  <2> HIDE DEF N2
  <2>1. ASSUME NEW x \in RightOf(N2) PROVE x \in RightOf(N)
    <3>1. PICK e \in N2 : x = e[2]
      BY DEF RightOf
    <3>2. w \in RightOf(N)
      BY <1>1, <1>3 DEF RightOf
    <3> QED
      BY <1>5, <1>10, <1>11, <3>1, <3>2 DEF RightOf
  <2>2. ASSUME NEW x \in RightOf(N) PROVE x \in RightOf(N2)
    <3>1. PICK e \in N : x = e[2]
      BY DEF RightOf
    <3>2. CASE e = d
      BY <1>1, <1>10, <3>1, <3>2 DEF RightOf
    <3>3. CASE e # d
      <4>1. e \in N2
        BY <3>1, <3>3 DEF N2
      <4> QED
        BY <3>1, <4>1 DEF RightOf
    <3> QED
      BY <3>2, <3>3
  <2> QED
    BY <1>2, <2>1, <2>2
<1>13. u \notin LeftOf(N2)
  <2> HIDE DEF N2, rest
  <2> QED
    BY <1>3, <1>5, <1>10, <1>11 DEF LeftOf
<1>14. \A e \in M : e[1] \notin X \cup {u} => e \in N2
  <2>1. \A e \in M : e[1] \notin X \cup {u} => e \in N /\ e # d
    BY <1>1, <1>2
  <2> QED
    BY <2>1
<1> HIDE DEF N2
<1>15. Detour(M, E, u, X \cup {u}, N2)
  BY <1>8, <1>9, <1>12, <1>13, <1>14 DEF Detour
<1> QED
  BY <1>15

\* The left sides that alternating paths reach from the unmatched ones: their
\* neighbours are all matched, with left sides that are reached as well.
LEMMA ReachedSides ==
  ASSUME NEW V, NEW E, NEW M, GreatestMatching(V, E, M)
  PROVE  \E X \in SUBSET V : V \ LeftOf(M) \subseteq X /\ Closed(E, M, X)
<1> USE DEF GreatestMatching
<1>1. /\ IsFiniteSet(E)
      /\ \A N \in SUBSET E : IsFiniteSet(N) /\ Cardinality(N) \in Nat
      /\ \A X \in SUBSET V : IsFiniteSet(X) /\ Cardinality(X) \in Nat /\ Cardinality(X) <= Cardinality(V)
      /\ Cardinality(V) \in Nat
  <2>1. IsFiniteSet(V \X V)
    BY FS_Product
  <2>2. IsFiniteSet(E)
    BY <2>1, FS_Subset
  <2>3. \A N \in SUBSET E : IsFiniteSet(N) /\ Cardinality(N) \in Nat
    BY <2>2, FS_Subset, FS_CardinalityType
  <2>4. \A X \in SUBSET V : IsFiniteSet(X) /\ Cardinality(X) \in Nat /\ Cardinality(X) <= Cardinality(V)
    BY FS_Subset, FS_CardinalityType
  <2> QED
    BY <2>2, <2>3, <2>4, FS_CardinalityType
<1> DEFINE some == {X \in SUBSET V : Reached(V, M, E, X)}
           rooms == {Cardinality(V) - Cardinality(X) : X \in some}
<1>2. V \ LeftOf(M) \in some
  <2> DEFINE X == V \ LeftOf(M)
  <2>1. \A v \in X : Detour(M, E, v, X, M)
    BY DEF Detour
  <2> QED
    BY <2>1 DEF Reached
<1>3. rooms \subseteq Nat /\ rooms # {}
  <2>1. \A X \in some : Cardinality(V) - Cardinality(X) \in Nat
    BY <1>1
  <2> HIDE DEF some
  <2> QED
    BY <1>2, <2>1
<1>4. PICK n \in rooms : \A m \in rooms : n <= m
  BY <1>3, FirstIsLeast
<1>5. PICK X \in some : n = Cardinality(V) - Cardinality(X)
  BY <1>4
<1>6. \A Y \in some : Cardinality(V) - Cardinality(X) <= Cardinality(V) - Cardinality(Y)
  BY <1>4, <1>5
<1>7. Reached(V, M, E, X) /\ X \in SUBSET V
  OBVIOUS
<1>8. ASSUME NEW v \in X, NEW w, <<v, w>> \in E
      PROVE  \E u \in X : <<u, w>> \in M
  <2>1. PICK N : Detour(M, E, v, X, N)
    BY <1>7 DEF Reached
  <2>2. w \in RightOf(M)
    <3>1. SUFFICES ASSUME w \notin RightOf(M) PROVE FALSE
      OBVIOUS
    <3>2. /\ N \in SUBSET E /\ IsMatching(N) /\ Cardinality(N) = Cardinality(M)
          /\ v \notin LeftOf(N) /\ w \notin RightOf(N)
      BY <2>1, <3>1 DEF Detour
    <3> DEFINE N2 == N \cup {<<v, w>>}
    <3>3. IsMatching(N2) /\ Cardinality(N2) = Cardinality(N) + 1
      BY <1>1, <3>2, OneMoreEdge
    <3>4. N2 \in SUBSET E
      BY <1>8, <3>2
    <3> HIDE DEF N2
    <3>5. Cardinality(N2) <= Cardinality(M)
      BY <3>3, <3>4 DEF Greatest
    <3> QED
      BY <1>1, <3>2, <3>3, <3>5
  <2>3. PICK e \in M : e[2] = w
    BY <2>2 DEF RightOf
  <2>4. PICK u \in V : e = <<u, w>>
    BY <2>3
  <2>5. SUFFICES ASSUME u \notin X PROVE FALSE
    BY <2>3, <2>4
  <2> DEFINE Y == X \cup {u}
  <2>6. \E N2 : Detour(M, E, u, Y, N2)
    BY <1>1, <1>8, <2>1, <2>3, <2>4, <2>5, TurnedDetour
  <2>7. ASSUME NEW x \in X PROVE \E N2 : Detour(M, E, x, Y, N2)
    <3>1. PICK N2 : Detour(M, E, x, X, N2)
      BY <1>7 DEF Reached
    <3>2. Detour(M, E, x, Y, N2)
      BY <3>1 DEF Detour
    <3> QED
      BY <3>2
  <2>8. Y \in SUBSET V /\ V \ LeftOf(M) \subseteq Y
    BY <1>7, <2>4 DEF Reached
  <2>9. \A x \in Y : \E N2 : Detour(M, E, x, Y, N2)
    BY <2>6, <2>7
  <2>10. Cardinality(Y) = Cardinality(X) + 1
    BY <1>1, <1>7, <2>5, FS_AddElement
  <2> HIDE DEF Y, rooms
  <2>11. Y \in some
    BY <2>8, <2>9 DEF Reached
  <2>12. Cardinality(V) - Cardinality(X) <= Cardinality(V) - Cardinality(Y)
    BY <1>6, <2>11
  <2> QED
    BY <1>1, <1>7, <2>10, <2>12
<1>9. V \ LeftOf(M) \subseteq X
  BY <1>7 DEF Reached
<1> HIDE DEF some, rooms
<1>10. X \in SUBSET V
  BY <1>7
<1>11. Closed(E, M, X)
  BY <1>8 DEF Closed
<1> QED
  BY <1>9, <1>10, <1>11

\* So vertices of which no two are joined are at least as many as have no
\* right side in the matching.
LEMMA ManyApart ==
  ASSUME NEW V, NEW E, NEW M, GreatestMatching(V, E, M)
  PROVE  \E A \in SUBSET V :
           /\ Unjoined(A, E)
           /\ Cardinality(V) - Cardinality(M) <= Cardinality(A)
<1>1. PICK X \in SUBSET V : V \ LeftOf(M) \subseteq X /\ Closed(E, M, X)
  BY ReachedSides
<1> USE DEF GreatestMatching
<1> DEFINE W  == {w \in V : \E v \in X : <<v, w>> \in E}
           A  == X \ W
           M1 == {e \in M : e[1] \notin X}
           M2 == {e \in M : e[1] \in X /\ e[2] \in W}
           O  == V \ X
           f  == [e \in M1 |-> e[1]]
           g  == [e \in M2 |-> e[2]]
<1>2. IsFiniteSet(M)
  <2>1. IsFiniteSet(V \X V)
    BY FS_Product
  <2> QED
    BY <2>1, FS_Subset
<1>3. /\ IsFiniteSet(M1) /\ Cardinality(M1) \in Nat
      /\ IsFiniteSet(M2) /\ Cardinality(M2) \in Nat
      /\ IsFiniteSet(M1 \cup M2) /\ Cardinality(M1 \cup M2) \in Nat
      /\ IsFiniteSet(M) /\ Cardinality(M) \in Nat /\ Cardinality(M1 \cup M2) <= Cardinality(M)
  <2>1. M1 \in SUBSET M /\ M2 \in SUBSET M /\ M1 \cup M2 \in SUBSET M
    OBVIOUS
  <2> HIDE DEF M1, M2
  <2> QED
    BY <1>2, <2>1, FS_Subset, FS_CardinalityType
<1>4. Cardinality(M1) + Cardinality(M2) = Cardinality(M1 \cup M2)
  <2>1. M1 \cap M2 = {}
    OBVIOUS
  <2> HIDE DEF M1, M2
  <2>2. Cardinality(M1 \cup M2) = Cardinality(M1) + Cardinality(M2) - Cardinality(M1 \cap M2)
    BY <1>3, FS_Union
  <2>3. Cardinality(M1 \cap M2) = 0
    BY <2>1, FS_EmptySet
  <2> QED
    BY <1>3, <2>2, <2>3
<1>5. Cardinality(O) <= Cardinality(M1)
  <2>1. \A e \in M1 : e[1] \in O
    OBVIOUS
  <2>2. \A v \in O : \E e \in M1 : e[1] = v
    BY <1>1 DEF LeftOf
  <2> HIDE DEF M1, O
  <2>3. f \in Surjection(M1, O)
    BY <2>1, <2>2 DEF Surjection
  <2> HIDE DEF f
  <2> QED
    BY <1>3, <2>3, FS_Surjection
<1>6. Cardinality(W) <= Cardinality(M2)
  <2>1. \A e \in M2 : e[2] \in W
    OBVIOUS
  <2>2. \A w \in W : \E e \in M2 : e[2] = w
    <3>1. ASSUME NEW w \in W PROVE \E e \in M2 : e[2] = w
      <4>1. PICK u \in X : <<u, w>> \in M
        BY <1>1, <3>1 DEF Closed
      <4>2. <<u, w>> \in M2 /\ <<u, w>>[2] = w
        BY <3>1, <4>1
      <4> QED
        BY <4>2
    <3> QED
      BY <3>1
  <2> HIDE DEF M2, W
  <2>3. g \in Surjection(M2, W)
    BY <2>1, <2>2 DEF Surjection
  <2> HIDE DEF g
  <2> QED
    BY <1>3, <2>3, FS_Surjection
<1>7. /\ Cardinality(V) = Cardinality(X) + Cardinality(O)
      /\ Cardinality(A) = Cardinality(X) - Cardinality(X \cap W)
      /\ Cardinality(X \cap W) <= Cardinality(W)
      /\ Cardinality(V) \in Nat /\ Cardinality(X) \in Nat /\ Cardinality(O) \in Nat
      /\ Cardinality(A) \in Nat /\ Cardinality(W) \in Nat /\ Cardinality(X \cap W) \in Nat
  <2>1. W \in SUBSET V /\ X \in SUBSET V /\ A \in SUBSET V /\ O \in SUBSET V /\ X \cap W \in SUBSET V
        /\ X \cap W \in SUBSET W
    OBVIOUS
  <2>2. /\ A = X \ W /\ O = V \ X
    OBVIOUS
  <2> HIDE DEF W, A, O
  <2>3. /\ IsFiniteSet(V) /\ IsFiniteSet(X) /\ IsFiniteSet(A) /\ IsFiniteSet(O) /\ IsFiniteSet(W)
        /\ IsFiniteSet(X \cap W)
    BY <2>1, FS_Subset
  <2>4. /\ Cardinality(V) \in Nat /\ Cardinality(X) \in Nat /\ Cardinality(O) \in Nat
        /\ Cardinality(A) \in Nat /\ Cardinality(W) \in Nat /\ Cardinality(X \cap W) \in Nat
    BY <2>3, FS_CardinalityType
  <2>5. Cardinality(X \cap W) <= Cardinality(W)
    BY <2>1, <2>3, FS_Subset
  <2>6. Cardinality(A) = Cardinality(X) - Cardinality(X \cap W)
    BY <2>2, <2>3, FS_Difference
  <2>7. Cardinality(O) = Cardinality(V) - Cardinality(X)
    <3>1. V \cap X = X
      BY <2>1
    <3>2. Cardinality(O) = Cardinality(V) - Cardinality(V \cap X)
      BY <2>2, <2>3, FS_Difference
    <3> QED
      BY <3>1, <3>2
  <2> QED
    BY <2>4, <2>5, <2>6, <2>7
<1>8. Unjoined(A, E)
  BY DEF Unjoined
<1>9. A \in SUBSET V
  OBVIOUS
<1> HIDE DEF A, W, O, M1, M2
<1>10. Cardinality(V) - Cardinality(M) <= Cardinality(A)
  BY <1>3, <1>4, <1>5, <1>6, <1>7
<1> QED
  BY <1>8, <1>9, <1>10

\* A finite graph has a greatest matching.
LEMMA GreatestExists ==
  ASSUME NEW V, IsFiniteSet(V), NEW E, E \subseteq V \X V
  PROVE  \E M : GreatestMatching(V, E, M)
<1> DEFINE all == {M \in SUBSET E : IsMatching(M)}
           rooms == {Cardinality(E) - Cardinality(M) : M \in all}
<1>1. IsFiniteSet(E)
  BY FS_Product, FS_Subset
<1>2. \A M \in all : /\ Cardinality(M) \in Nat /\ Cardinality(E) \in Nat
                     /\ Cardinality(M) <= Cardinality(E)
  BY <1>1, FS_Subset, FS_CardinalityType
<1>3. {} \in all
  BY DEF IsMatching
<1>4. \A M \in all : Cardinality(E) - Cardinality(M) \in Nat
  <2> HIDE DEF all
  <2> QED
    BY <1>2
<1> HIDE DEF all
<1>5. PICK n \in rooms : \A m \in rooms : n <= m
  <2>1. rooms \subseteq Nat /\ rooms # {}
    BY <1>3, <1>4
  <2> HIDE DEF rooms
  <2> QED
    BY <2>1, FirstIsLeast
<1>6. PICK M \in all : n = Cardinality(E) - Cardinality(M)
  BY <1>5
<1>7. \A N \in all : Cardinality(N) <= Cardinality(M)
  <2>1. \A N \in all : Cardinality(E) - Cardinality(M) <= Cardinality(E) - Cardinality(N)
    BY <1>5, <1>6
  <2> QED
    BY <1>2, <2>1
<1>8. M \in SUBSET E /\ IsMatching(M)
  BY DEF all
<1>9. Greatest(M, E)
  BY <1>7 DEF Greatest, all
<1> QED
  BY <1>8, <1>9 DEF GreatestMatching

\* A finite set has subsets of all sizes up to its own.
LEMMA SubsetOfSize ==
  ASSUME NEW S, IsFiniteSet(S), NEW k \in Nat, k <= Cardinality(S)
  PROVE  \E T \in SUBSET S : Cardinality(T) = k
<1> DEFINE large == {T \in SUBSET S : k <= Cardinality(T)}
           sizes == {Cardinality(T) : T \in large}
<1>1. \A T \in large : IsFiniteSet(T) /\ Cardinality(T) \in Nat
  BY FS_Subset, FS_CardinalityType
<1>2. S \in large
  OBVIOUS
<1>3. \A T \in large : T \in SUBSET S /\ k <= Cardinality(T)
  OBVIOUS
<1>4. PICK n \in sizes : \A m \in sizes : n <= m
  <2> HIDE DEF large
  <2>1. sizes \subseteq Nat /\ sizes # {}
    BY <1>1, <1>2
  <2> QED
    BY <2>1, FirstIsLeast
<1>5. PICK T \in large : n = Cardinality(T)
  BY <1>4
<1>6. CASE Cardinality(T) # k
  <2>1. Cardinality(T) \in Nat /\ k < Cardinality(T)
    BY <1>1, <1>3, <1>5, <1>6
  <2>2. T # {}
    BY <2>1, FS_EmptySet
  <2>3. PICK x \in T : TRUE
    BY <2>2
  <2>4. Cardinality(T \ {x}) = Cardinality(T) - 1
    BY <1>1, <2>3, FS_RemoveElement
  <2>5. k <= Cardinality(T \ {x}) /\ T \ {x} \in SUBSET S
    BY <1>3, <2>1, <2>4
  <2>6. T \ {x} \in large
    BY <2>5
  <2> HIDE DEF large
  <2>7. n <= Cardinality(T \ {x})
    BY <1>4, <2>6
  <2> QED
    BY <1>5, <2>1, <2>4, <2>7
<1> QED
  BY <1>3, <1>6

\* Supports none of which is part of another.
Apart(B) == \A s, t \in B : s \subseteq t => s = t

\* Antichain has the size of the largest such subset.
LEMMA LargestAntichain ==
  ASSUME NEW S, IsFiniteSet(S)
  PROVE  /\ Antichain(S) \in Nat
         /\ \A B \in SUBSET S : Apart(B) => Cardinality(B) <= Antichain(S)
         /\ \E B \in SUBSET S : Apart(B) /\ Cardinality(B) = Antichain(S)
<1> DEFINE all == {B \in SUBSET S : Apart(B)}
           sizes == {Cardinality(A) : A \in all}
           rooms == {Cardinality(S) - Cardinality(A) : A \in all}
<1>1. \A A \in all : /\ Cardinality(A) \in Nat /\ Cardinality(S) \in Nat
                     /\ Cardinality(A) <= Cardinality(S)
  BY FS_Subset, FS_CardinalityType
<1>2. {} \in all
  BY DEF Apart
<1>3. \A A \in all : Cardinality(S) - Cardinality(A) \in Nat
  <2> HIDE DEF all
  <2> QED
    BY <1>1
<1>4. Antichain(S) = CHOOSE n \in sizes : \A m \in sizes : n >= m
  BY DEF Antichain, Max, Apart
<1>5. \A A \in all : A \in SUBSET S /\ Apart(A)
  OBVIOUS
<1>6. \A B \in SUBSET S : Apart(B) => B \in all
  OBVIOUS
<1> HIDE DEF all
<1>7. PICK r \in rooms : \A q \in rooms : r <= q
  BY <1>2, <1>3, FirstIsLeast
<1>8. PICK A \in all : r = Cardinality(S) - Cardinality(A)
  BY <1>7
<1>9. \A B \in all : Cardinality(A) >= Cardinality(B)
  <2>1. \A B \in all : Cardinality(S) - Cardinality(A) <= Cardinality(S) - Cardinality(B)
    BY <1>7, <1>8
  <2> QED
    BY <1>1, <2>1
<1>10. \E n \in sizes : \A m \in sizes : n >= m
  BY <1>9
<1>11. Antichain(S) \in sizes /\ \A m \in sizes : Antichain(S) >= m
  BY <1>4, <1>10
<1>12. PICK B \in all : Cardinality(B) = Antichain(S)
  BY <1>11
<1>13. Antichain(S) \in Nat
  BY <1>1, <1>12
<1>14. \A C \in SUBSET S : Apart(C) => Cardinality(C) <= Antichain(S)
  <2>1. \A C \in all : Cardinality(C) \in Nat /\ Antichain(S) >= Cardinality(C)
    BY <1>1, <1>11
  <2> QED
    BY <1>6, <1>13, <2>1
<1> QED
  BY <1>5, <1>12, <1>13, <1>14

-----------------------------------------------------------------------------
(* What the matching and the flow are chosen for.                          *)

\* Each vertex with as many units as it has rules.
RuleWeight == [v \in Vertices |-> Weight(v[1], v[2])]

RulesIn(S) == Cardinality(Units(RuleWeight, S))

LeftOut(M) == {v \in Vertices : <<v, v>> \in M}

Cheapest(M) ==
  /\ Cardinality(M) = FlowSize
  /\ \A N \in SUBSET (DilworthsEdges \cup Loops) :
       IsMatching(N) /\ Cardinality(N) = FlowSize =>
         RulesIn(LeftOut(M)) <= RulesIn(LeftOut(N))

BestMates ==
  phase \notin {"start", "none"} =>
    IF call.kind = FEWEST THEN Greatest(mate, DilworthsEdges) ELSE Cheapest(mate)

LEMMA RuleWeights ==
  ASSUME call \in Call
  PROVE  \A v \in Vertices : RuleWeight[v] = Weight(v[1], v[2]) /\ RuleWeight[v] \in Nat
<1> SUFFICES ASSUME NEW v \in Vertices PROVE Weight(v[1], v[2]) \in Nat
  BY DEF RuleWeight
<1>1. v[1] \in Classifiers
  BY DEF Vertices
<1>2. call.classifiers[v[1]] \in Seq(Entry)
  BY <1>1 DEF Call, Classifiers
<1>3. Rules(v[1]) = 1 .. Len(call.classifiers[v[1]]) /\ Len(call.classifiers[v[1]]) \in Nat
  BY <1>2 DEF Rules
<1>4. IsFiniteSet(Rules(v[1]))
  BY <1>3, IntervalSize
<1> DEFINE T == {i \in Rules(v[1]) : SupportOf(v[1], i) = v[2]}
<1>5. IsFiniteSet(T)
  BY <1>4, FS_Subset
<1> HIDE DEF T
<1>6. Cardinality(T) \in Nat
  BY <1>5, FS_CardinalityType
<1> QED
  BY <1>6 DEF T, Weight

\* The folds over functions count units.
LEMMA SumOfFunction ==
  ASSUME NEW w, IsFiniteSet(DOMAIN w), \A x \in DOMAIN w : w[x] \in Nat
  PROVE  FoldFunction(+, 0, w) = Cardinality(Units(w, DOMAIN w))
<1> DEFINE sum == CHOOSE f : Sums(w, DOMAIN w, f)
<1>1. Sums(w, DOMAIN w, sum)
  BY SumsExist
<1>2. FoldFunction(+, 0, w) = sum[DOMAIN w]
  BY DEF FoldFunction, FoldFunctionOnSet, MapThenFoldSet, Sums
<1> HIDE DEF sum
<1> QED
  BY <1>1, <1>2, SumCountsUnits

LEMMA RulesInFacts ==
  ASSUME call \in Call, NEW S \in SUBSET Vertices
  PROVE  /\ IsFiniteSet(Units(RuleWeight, S)) /\ RulesIn(S) \in Nat
         /\ RuleCount(S) = RulesIn(S)
<1>1. IsFiniteSet(S)
  BY FinitelyManyVertices, FS_Subset
<1>2. \A v \in S : RuleWeight[v] = Weight(v[1], v[2]) /\ RuleWeight[v] \in Nat
  BY RuleWeights
<1>3. IsFiniteSet(Units(RuleWeight, S))
  BY <1>1, <1>2, UnitsFinite
<1> DEFINE w == [v \in S |-> Weight(v[1], v[2])]
<1>4. DOMAIN w = S /\ \A v \in S : w[v] = RuleWeight[v]
  BY <1>2
<1>5. RuleCount(S) = FoldFunction(+, 0, w)
  BY DEF RuleCount
<1> HIDE DEF w
<1>6. FoldFunction(+, 0, w) = Cardinality(Units(w, S))
  <2>1. IsFiniteSet(DOMAIN w) /\ \A v \in DOMAIN w : w[v] \in Nat
    BY <1>1, <1>2, <1>4
  <2>2. FoldFunction(+, 0, w) = Cardinality(Units(w, DOMAIN w))
    BY <2>1, SumOfFunction
  <2> QED
    BY <1>4, <2>2
<1>7. Units(w, S) = Units(RuleWeight, S)
  <2>1. \A u : u \in Units(w, S) <=> u \in Units(RuleWeight, S)
    BY <1>4 DEF Units
  <2> QED
    BY <2>1, Zenon
<1> QED
  BY <1>3, <1>5, <1>6, <1>7, FS_CardinalityType DEF RulesIn

LEMMA RulesInGrow ==
  ASSUME call \in Call, NEW S \in SUBSET Vertices, NEW T \in SUBSET S
  PROVE  RulesIn(T) <= RulesIn(S)
<1> DEFINE A == Units(RuleWeight, T)
           B == Units(RuleWeight, S)
<1>1. A \in SUBSET B
  BY DEF Units
<1>2. IsFiniteSet(B)
  BY RulesInFacts
<1> HIDE DEF A, B
<1>3. Cardinality(A) <= Cardinality(B)
  BY <1>1, <1>2, FS_Subset
<1> QED
  BY <1>3 DEF RulesIn, A, B

LEMMA RulesInSplit ==
  ASSUME call \in Call, NEW S \in SUBSET Vertices
  PROVE  RulesIn(Vertices) = RulesIn(S) + RulesIn(Vertices \ S)
<1> DEFINE A == Units(RuleWeight, S)
           B == Units(RuleWeight, Vertices \ S)
<1>1. /\ IsFiniteSet(A) /\ IsFiniteSet(B)
      /\ Cardinality(A) \in Nat /\ Cardinality(B) \in Nat
  BY RulesInFacts, FS_CardinalityType
<1>2. Units(RuleWeight, Vertices) = A \cup B /\ A \cap B = {}
  BY DEF Units
<1> HIDE DEF A, B
<1>3. Cardinality(A \cup B) = Cardinality(A) + Cardinality(B) - Cardinality(A \cap B)
  BY <1>1, FS_Union
<1>4. Cardinality(A \cap B) = 0
  BY <1>2, FS_EmptySet
<1>5. RulesIn(Vertices) = Cardinality(A) + Cardinality(B)
  BY <1>1, <1>2, <1>3, <1>4 DEF RulesIn
<1> QED
  BY <1>5 DEF RulesIn, A, B

LEMMA FlowCostIs ==
  ASSUME call \in Call, NEW M
  PROVE  FlowCost(M) = RulesIn(LeftOut(M)) /\ LeftOut(M) \in SUBSET Vertices
<1>1. LeftOut(M) \in SUBSET Vertices
  BY DEF LeftOut
<1> QED
  BY <1>1, RulesInFacts DEF FlowCost, LeftOut

LEMMA MatchIsBest ==
  ASSUME ChainsInv, Match
  PROVE  Greatest(mate', DilworthsEdges) /\ DilworthsEdges' = DilworthsEdges /\ call' = call
<1>1. mate' \in MaximumMatchings /\ call' = call
  BY DEF Match
<1>2. Matchings(DilworthsEdges) = {M \in SUBSET DilworthsEdges : IsMatching(M)}
  <2>1. DilworthsEdges \subseteq Vertices \X Vertices
    BY DEF DilworthsEdges
  <2> QED
    BY <2>1, MatchingsAre DEF ChainsInv, Matched, Mates
<1>3. \A N \in Matchings(DilworthsEdges) : Cardinality(N) <= Cardinality(mate')
  BY <1>1 DEF MaximumMatchings
<1>4. Greatest(mate', DilworthsEdges)
  BY <1>2, <1>3 DEF Greatest
<1> QED
  BY <1>1, <1>4, SameCall

LEMMA FlowIsBest ==
  ASSUME ChainsInv, Flow
  PROVE  Cheapest(mate') /\ call' = call
<1>1. mate' \in CheapestFlows /\ call' = call
  BY DEF Flow
<1>2. call \in Call
  BY DEF ChainsInv, Matched, Mates
<1> DEFINE edges == DilworthsEdges \cup Loops
<1>3. Matchings(edges) = {M \in SUBSET edges : IsMatching(M)}
  <2>1. edges \subseteq Vertices \X Vertices
    BY DEF DilworthsEdges, Loops
  <2> HIDE DEF edges
  <2> QED
    BY <1>2, <2>1, MatchingsAre
<1>4. /\ Cardinality(mate') = FlowSize
      /\ \A N \in Matchings(edges) : Cardinality(N) = FlowSize => FlowCost(mate') <= FlowCost(N)
  BY <1>1 DEF CheapestFlows, Loops
<1> HIDE DEF edges
<1>5. \A N \in SUBSET edges : IsMatching(N) => N \in Matchings(edges)
  BY <1>3
<1>6. ASSUME NEW N \in SUBSET edges, IsMatching(N), Cardinality(N) = FlowSize
      PROVE  RulesIn(LeftOut(mate')) <= RulesIn(LeftOut(N))
  <2>1. FlowCost(mate') <= FlowCost(N)
    BY <1>4, <1>5, <1>6
  <2> QED
    BY <1>2, <2>1, FlowCostIs
<1>7. Cheapest(mate')
  BY <1>4, <1>6 DEF Cheapest, edges
<1> QED
  BY <1>1, <1>7

LEMMA SameWeights ==
  ASSUME UNCHANGED call
  PROVE  /\ RuleWeight' = RuleWeight /\ FlowSize' = FlowSize
         /\ \A M : LeftOut(M)' = LeftOut(M)
<1>1. \A c, s : Weight(c, s)' = Weight(c, s)
  BY SameCall DEF Weight
<1>2. RuleWeight' = RuleWeight
  BY <1>1, SameCall DEF RuleWeight
<1>3. FlowSize' = FlowSize
  BY SameCall DEF FlowSize
<1>4. \A M : LeftOut(M)' = LeftOut(M)
  BY SameCall DEF LeftOut
<1> QED
  BY <1>2, <1>3, <1>4

\* Cheapest and Greatest are about the arguments only.
LEMMA SameBest ==
  ASSUME UNCHANGED call, NEW M, M = mate'
  PROVE  /\ Cheapest(M) => Cheapest(mate)'
         /\ Greatest(M, DilworthsEdges) => Greatest(mate, DilworthsEdges)'
<1>1. /\ RuleWeight' = RuleWeight /\ FlowSize' = FlowSize
      /\ DilworthsEdges' = DilworthsEdges /\ Loops' = Loops /\ Vertices' = Vertices
  BY SameCall, SameWeights
<1> QED
  BY <1>1 DEF Cheapest, Greatest, RulesIn, LeftOut, IsMatching

LEMMA BestMatesKept ==
  ASSUME ChainsInv, BestMates, [Next]_vars
  PROVE  BestMates'
<1>1. CASE Match
  <2>1. call.kind = FEWEST /\ call' = call
    BY <1>1 DEF Match
  <2>2. Greatest(mate, DilworthsEdges)'
    BY <1>1, <2>1, MatchIsBest, SameBest
  <2> QED
    BY <2>1, <2>2 DEF BestMates
<1>2. CASE Flow
  <2>1. call.kind # FEWEST /\ call' = call
    BY <1>2 DEF Flow
  <2>2. Cheapest(mate)'
    BY <1>2, <2>1, FlowIsBest, SameBest
  <2> QED
    BY <2>1, <2>2 DEF BestMates
<1>3. CASE NothingToDo
  BY <1>3 DEF NothingToDo, BestMates
<1>4. ASSUME UNCHANGED <<call, mate>>, phase \in {"start", "none"} => phase' = phase
      PROVE  BestMates'
  BY <1>4, SameBest DEF BestMates
<1>5. CASE CalculateChains \/ BuildGroups \/ StartExpansion \/ Expand \/ Collect
  <2>1. UNCHANGED <<call, mate>> /\ phase \notin {"start", "none"}
    BY <1>5
    DEF CalculateChains, BuildGroups, StartExpansion, Expand, Collect, ExpandNext, Try, ExpandReturn
  <2> QED
    BY <1>4, <2>1
<1>6. CASE Return \/ UNCHANGED vars
  <2>1. UNCHANGED <<call, mate>> /\ phase' = phase
    BY <1>6 DEF Return, vars, expand_vars
  <2> QED
    BY <1>4, <2>1
<1> QED
  BY <1>1, <1>2, <1>3, <1>5, <1>6 DEF Next

LEMMA MatesAreBest == Spec => []BestMates
<1>1. Init => BestMates
  BY DEF Init, BestMates
<1> QED
  BY <1>1, BestMatesKept, Invariance, PTL DEF Spec

-----------------------------------------------------------------------------
(* As few chains as the mates allow.                                       *)

\* The vertices that are nobody's mate: a chain starts at each.
Free == Vertices \ RightOf(mate)

LEMMA FreeSize ==
  ASSUME Mates
  PROVE  /\ IsFiniteSet(Vertices) /\ Cardinality(Vertices) \in Nat
         /\ IsFiniteSet(mate) /\ Cardinality(mate) \in Nat
         /\ IsFiniteSet(Free)
         /\ Cardinality(Free) = Cardinality(Vertices) - Cardinality(mate)
<1> DEFINE into == [e \in mate |-> e[2]]
           ends == RightOf(mate)
<1>1. IsFiniteSet(Vertices)
  BY FinitelyManyVertices DEF Mates
<1>2. IsFiniteSet(mate)
  <2>1. mate \in SUBSET (Vertices \X Vertices)
    BY DEF Mates, DilworthsEdges, Loops
  <2>2. IsFiniteSet(Vertices \X Vertices)
    BY <1>1, FS_Product
  <2> QED
    BY <2>1, <2>2, FS_Subset
<1>3. \A e \in mate : e[2] \in ends /\ e[2] \in Vertices
  BY DEF Mates, DilworthsEdges, Loops, RightOf
<1>4. \A w \in ends : \E e \in mate : e[2] = w
  BY DEF RightOf
<1>5. \A d, e \in mate : d[2] = e[2] => d = e
  BY DEF Mates, IsMatching
<1> HIDE DEF ends
<1>6. into \in Injection(mate, ends) /\ into \in Surjection(mate, ends)
  BY <1>3, <1>4, <1>5 DEF Injection, IsInjective, Surjection
<1> HIDE DEF into
<1>7. IsFiniteSet(ends) /\ Cardinality(ends) = Cardinality(mate)
  BY <1>2, <1>6, FS_Surjection
<1>8. Vertices \cap ends = ends
  BY <1>3, <1>4
<1>9. IsFiniteSet(Free) /\ Cardinality(Free) = Cardinality(Vertices) - Cardinality(ends)
  BY <1>1, <1>8, FS_Difference DEF Free, ends
<1> QED
  BY <1>1, <1>2, <1>7, <1>9, FS_CardinalityType

LEMMA FreeStarts ==
  ASSUME Mates, NEW c \in Classifiers, NEW s \in Starts(c)
  PROVE  <<c, s>> \in Free
<1>1. <<c, s>> \in Vertices
  BY UniqueSupports DEF Mates, Starts
<1> QED
  BY <1>1 DEF Free, RightOf, Starts

\* Chains start at different supports.
LEMMA ChainsCounted ==
  ASSUME Mates, NEW c \in Classifiers
  PROVE  /\ IsFiniteSet(ChainsOf(c)) /\ Cardinality(ChainsOf(c)) \in Nat
         /\ \A ch \in ChainsOf(c) : <<c, ch[1]>> \in Free
         /\ \A q, r \in ChainsOf(c) : q[1] = r[1] => q = r
         /\ Cardinality(ChainsOf(c)) <= Cardinality(Free)
<1> DEFINE first == [ch \in ChainsOf(c) |-> <<c, ch[1]>>]
<1>1. \A ch \in ChainsOf(c) : IsRun(c, ch) /\ ch[1] \in Starts(c)
  BY ChainsAreRuns
<1>2. \A ch \in ChainsOf(c) : <<c, ch[1]>> \in Free
  BY <1>1, FreeStarts
<1>3. \A q, r \in ChainsOf(c) : q[1] = r[1] => q = r
  BY <1>1, RunsAreUnique
<1>4. first \in Injection(ChainsOf(c), Free)
  BY <1>2, <1>3 DEF Injection, IsInjective
<1> HIDE DEF first
<1>5. IsFiniteSet(Free)
  BY FreeSize
<1>6. IsFiniteSet(ChainsOf(c)) /\ Cardinality(ChainsOf(c)) <= Cardinality(Free)
  BY <1>4, <1>5, FS_Injection
<1> QED
  BY <1>2, <1>3, <1>6, FS_CardinalityType

\* The chains of all classifiers start at different vertices.
LEMMA ChainsInAll ==
  ASSUME Mates, NEW w, \A c \in Classifiers : w[c] = Cardinality(ChainsOf(c))
  PROVE  Cardinality(Units(w, Classifiers)) <= Cardinality(Free)
<1> DEFINE nth(c) == CHOOSE f : f \in Bijection(1 .. w[c], ChainsOf(c))
           first == [u \in Units(w, Classifiers) |-> <<u[1], nth(u[1])[u[2]][1]>>]
<1>1. ASSUME NEW c \in Classifiers
      PROVE  nth(c) \in Bijection(1 .. w[c], ChainsOf(c))
  <2>1. ExistsBijection(1 .. w[c], ChainsOf(c))
    BY ChainsCounted, FS_CardinalityType
  <2> QED
    BY <2>1 DEF ExistsBijection
<1> HIDE DEF nth
<1>2. ASSUME NEW u \in Units(w, Classifiers)
      PROVE  u[1] \in Classifiers /\ u[2] \in 1 .. w[u[1]] /\ u = <<u[1], u[2]>>
  BY DEF Units
<1>3. \A c \in Classifiers : \A k \in 1 .. w[c] : nth(c)[k] \in ChainsOf(c)
  BY <1>1 DEF Bijection, Surjection
<1>4. \A c \in Classifiers : \A k, l \in 1 .. w[c] : nth(c)[k] = nth(c)[l] => k = l
  BY <1>1 DEF Bijection, Injection, IsInjective
<1>5. \A u \in Units(w, Classifiers) : first[u] \in Free
  BY <1>2, <1>3, ChainsCounted
<1>6. ASSUME NEW u \in Units(w, Classifiers), NEW v \in Units(w, Classifiers), first[u] = first[v]
      PROVE  u = v
  <2>1. u[1] = v[1] /\ nth(u[1])[u[2]][1] = nth(v[1])[v[2]][1]
    BY <1>6
  <2>2. nth(u[1])[u[2]] \in ChainsOf(u[1]) /\ nth(v[1])[v[2]] \in ChainsOf(u[1])
    BY <1>2, <1>3, <2>1
  <2>3. nth(u[1])[u[2]] = nth(v[1])[v[2]]
    BY <1>2, <2>1, <2>2, ChainsCounted
  <2>4. u[2] = v[2]
    BY <1>2, <1>4, <2>1, <2>3
  <2> QED
    BY <1>2, <2>1, <2>4
<1>7. first \in Injection(Units(w, Classifiers), Free)
  BY <1>5, <1>6 DEF Injection, IsInjective
<1> HIDE DEF first
<1> QED
  BY <1>7, FreeSize, FS_Injection

-----------------------------------------------------------------------------
(* Sizes of sets of supports.                                              *)

\* The supports of S that are of classifier c.
Part(c, S) == {s \in Unique(c) : <<c, s>> \in S}

LEMMA PartsFinite ==
  ASSUME call \in Call, NEW c \in Classifiers, NEW S
  PROVE  IsFiniteSet(Unique(c)) /\ IsFiniteSet(Part(c, S))
<1>1. Unique(c) \in SUBSET SUBSET Coordinates
  BY UniqueSupports
<1>2. IsFiniteSet(SUBSET Coordinates)
  BY WidthAssumption, IntervalSize, FS_SUBSET DEF Coordinates
<1>3. IsFiniteSet(Unique(c))
  BY <1>1, <1>2, FS_Subset
<1>4. Part(c, S) \in SUBSET Unique(c)
  BY DEF Part
<1> QED
  BY <1>3, <1>4, FS_Subset

\* Vertices that no edge joins are, in each classifier, supports apart.
LEMMA PartsApart ==
  ASSUME NEW A \in SUBSET Vertices, Unjoined(A, DilworthsEdges),
         NEW c \in Classifiers
  PROVE  Apart(Part(c, A))
<1> SUFFICES ASSUME NEW s \in Part(c, A), NEW t \in Part(c, A), s \subseteq t, s # t PROVE FALSE
  BY DEF Apart
<1>1. <<c, s>> \in A /\ <<c, t>> \in A
  BY DEF Part
<1>2. <<<<c, s>>, <<c, t>>>> \in DilworthsEdges
  BY <1>1 DEF DilworthsEdges
<1> QED
  BY <1>1, <1>2 DEF Unjoined

LEMMA ApartCounted ==
  ASSUME call \in Call, NEW S \in SUBSET Vertices, NEW A \in SUBSET S,
         Unjoined(A, DilworthsEdges)
  PROVE  ChainCount(S) \in Nat /\ Cardinality(A) <= ChainCount(S)
<1> DEFINE most == [c \in Classifiers |-> Antichain(Part(c, S))]
           size == [c \in Classifiers |-> Cardinality(Part(c, A))]
           cover == [c \in Classifiers |-> {<<c, s>> : s \in Part(c, A)}]
<1>1. IsFiniteSet(Classifiers)
  <2>1. call.classifiers \in Seq(Seq(Entry))
    BY DEF Call
  <2>2. Classifiers = 1 .. Len(call.classifiers) /\ Len(call.classifiers) \in Nat
    BY <2>1 DEF Classifiers
  <2> QED
    BY <2>2, IntervalSize
<1>2. \A c \in Classifiers : most[c] \in Nat /\ size[c] \in Nat /\ size[c] <= most[c]
  <2> SUFFICES ASSUME NEW c \in Classifiers
               PROVE  /\ Antichain(Part(c, S)) \in Nat
                      /\ Cardinality(Part(c, A)) \in Nat
                      /\ Cardinality(Part(c, A)) <= Antichain(Part(c, S))
    OBVIOUS
  <2>1. Part(c, A) \in SUBSET Part(c, S) /\ Apart(Part(c, A))
    BY PartsApart DEF Part
  <2>2. IsFiniteSet(Part(c, S)) /\ IsFiniteSet(Part(c, A))
    BY PartsFinite
  <2> QED
    BY <2>1, <2>2, LargestAntichain, FS_CardinalityType
<1>3. /\ IsFiniteSet(Units(most, Classifiers)) /\ Cardinality(Units(most, Classifiers)) \in Nat
      /\ ChainCount(S) = Cardinality(Units(most, Classifiers))
  <2>1. DOMAIN most = Classifiers
    OBVIOUS
  <2>2. most = [c \in Classifiers |-> Antichain({s \in Unique(c) : <<c, s>> \in S})]
    BY DEF Part
  <2> HIDE DEF most
  <2>3. ChainCount(S) = FoldFunction(+, 0, most)
    BY <2>2 DEF ChainCount
  <2>4. IsFiniteSet(DOMAIN most) /\ \A c \in DOMAIN most : most[c] \in Nat
    BY <1>1, <1>2, <2>1
  <2>5. FoldFunction(+, 0, most) = Cardinality(Units(most, DOMAIN most))
    BY <2>4, SumOfFunction
  <2>6. IsFiniteSet(Units(most, Classifiers))
    BY <2>1, <2>4, UnitsFinite
  <2> QED
    BY <2>1, <2>3, <2>5, <2>6, FS_CardinalityType
<1>4. Units(size, Classifiers) \in SUBSET Units(most, Classifiers)
  <2>1. ASSUME NEW x \in Units(size, Classifiers) PROVE x \in Units(most, Classifiers)
    <3>1. x \in Classifiers \X Nat /\ 1 <= x[2] /\ x[2] <= size[x[1]]
      BY DEF Units
    <3>2. x[1] \in Classifiers /\ x[2] \in Nat
      BY <3>1
    <3>3. most[x[1]] \in Nat /\ size[x[1]] \in Nat /\ size[x[1]] <= most[x[1]]
      BY <1>2, <3>2
    <3> HIDE DEF size, most
    <3>4. x[2] <= most[x[1]]
      BY <3>1, <3>2, <3>3
    <3> QED
      BY <3>1, <3>4 DEF Units
  <2> QED
    BY <2>1
<1>5. \A c \in Classifiers : IsFiniteSet(cover[c]) /\ size[c] = Cardinality(cover[c])
  <2> SUFFICES ASSUME NEW c \in Classifiers
               PROVE  /\ IsFiniteSet({<<c, s>> : s \in Part(c, A)})
                      /\ Cardinality(Part(c, A)) = Cardinality({<<c, s>> : s \in Part(c, A)})
    OBVIOUS
  <2> DEFINE f == [s \in Part(c, A) |-> <<c, s>>]
             T == {<<c, s>> : s \in Part(c, A)}
  <2>1. f \in Surjection(Part(c, A), T) /\ f \in Injection(Part(c, A), T)
    BY DEF Surjection, Injection, IsInjective
  <2>2. IsFiniteSet(Part(c, A))
    BY PartsFinite
  <2> HIDE DEF f, T
  <2>3. IsFiniteSet(T) /\ Cardinality(T) = Cardinality(Part(c, A))
    BY <2>1, <2>2, FS_Surjection
  <2> QED
    BY <2>3 DEF T
<1>6. \A v \in A : \E c \in Classifiers : v \in cover[c]
  <2> SUFFICES ASSUME NEW v \in A PROVE \E c \in Classifiers : v \in cover[c]
    OBVIOUS
  <2>1. PICK c \in Classifiers : v \in {c} \X Unique(c)
    BY DEF Vertices
  <2>2. v = <<c, v[2]>> /\ v[2] \in Part(c, A)
    BY <2>1 DEF Part
  <2> QED
    BY <2>2
<1> HIDE DEF size, most, cover
<1>7. Cardinality(A) <= Cardinality(Units(size, Classifiers)) /\ IsFiniteSet(A)
  BY <1>1, <1>5, <1>6, CoverBound
<1>8. Cardinality(Units(size, Classifiers)) <= Cardinality(Units(most, Classifiers))
  BY <1>3, <1>4, FS_Subset
<1>9. Cardinality(A) \in Nat /\ Cardinality(Units(size, Classifiers)) \in Nat
  BY <1>3, <1>4, <1>7, FS_Subset, FS_CardinalityType
<1> QED
  BY <1>3, <1>7, <1>8, <1>9

-----------------------------------------------------------------------------
(* No fewer groups, and no better choice of supports.                      *)

LEMMA OneClassifier ==
  ASSUME call \in Inputs, call.kind # BOUNDED
  PROVE  call \in Call /\ Classifiers = {1}
<1>1. call \in Call /\ Len(call.classifiers) = 1
  BY InputsAssumption
<1>2. Classifiers = 1 .. 1
  BY <1>1 DEF Classifiers, Call
<1> QED
  BY <1>1, <1>2

\* No more groups than supports apart from each other, by the matching,
LEMMA GroupsAtMost ==
  ASSUME Mates, Classifiers = {1}, mate \subseteq DilworthsEdges, Greatest(mate, DilworthsEdges)
  PROVE  /\ IsFiniteSet(AllGroups) /\ Cardinality(AllGroups) \in Nat
         /\ Cardinality(AllGroups) <= Antichain(Unique(1))
<1>1. PICK A \in SUBSET Vertices :
        /\ Unjoined(A, DilworthsEdges)
        /\ Cardinality(Vertices) - Cardinality(mate) <= Cardinality(A)
  <2>1. GreatestMatching(Vertices, DilworthsEdges, mate)
    <3>1. DilworthsEdges \subseteq Vertices \X Vertices
      BY DEF DilworthsEdges
    <3> QED
      BY <3>1, FreeSize DEF GreatestMatching, Mates
  <2> QED
    BY <2>1, ManyApart
<1>2. call \in Call /\ 1 \in Classifiers
  BY DEF Mates
<1>3. IsFiniteSet(Part(1, A)) /\ IsFiniteSet(Unique(1))
  BY <1>2, PartsFinite
<1>4. Cardinality(A) <= Cardinality(Part(1, A)) /\ IsFiniteSet(A)
  <2> DEFINE f == [v \in A |-> v[2]]
  <2>1. \A v \in A : v = <<1, v[2]>> /\ v[2] \in Part(1, A)
    BY DEF Vertices, Part
  <2>2. f \in Injection(A, Part(1, A))
    BY <2>1 DEF Injection, IsInjective
  <2> HIDE DEF f
  <2> QED
    BY <1>3, <2>2, FS_Injection
<1>5. Cardinality(Part(1, A)) <= Antichain(Unique(1)) /\ Antichain(Unique(1)) \in Nat
  <2>1. Part(1, A) \in SUBSET Unique(1) /\ Apart(Part(1, A))
    BY <1>1, <1>2, PartsApart DEF Part
  <2> QED
    BY <1>3, <2>1, LargestAntichain
<1>6. IsFiniteSet(AllGroups) /\ Cardinality(AllGroups) <= Cardinality(ChainsOf(1))
  <2> DEFINE group == [ch \in ChainsOf(1) |-> Group(1, ch)]
  <2>1. AllGroups = {Group(1, ch) : ch \in ChainsOf(1)}
    BY DEF AllGroups
  <2>2. group \in Surjection(ChainsOf(1), AllGroups)
    BY <2>1 DEF Surjection
  <2>3. IsFiniteSet(ChainsOf(1))
    BY <1>2, ChainsCounted
  <2> HIDE DEF group
  <2> QED
    BY <2>2, <2>3, FS_Surjection
<1>7. /\ Cardinality(ChainsOf(1)) <= Cardinality(Free) /\ Cardinality(ChainsOf(1)) \in Nat
      /\ Cardinality(Free) = Cardinality(Vertices) - Cardinality(mate)
      /\ Cardinality(Free) \in Nat
  BY <1>2, ChainsCounted, FreeSize, FS_CardinalityType
<1>8. /\ Cardinality(AllGroups) \in Nat /\ Cardinality(A) \in Nat
      /\ Cardinality(Part(1, A)) \in Nat
  BY <1>3, <1>4, <1>6, FS_CardinalityType
<1> QED
  BY <1>1, <1>4, <1>5, <1>6, <1>7, <1>8

\* and no fewer: two supports apart are not in the same chain.
LEMMA GroupsAtLeast ==
  ASSUME Mates, Classifiers = {1}, mate \subseteq DilworthsEdges, IsFiniteSet(AllGroups)
  PROVE  Antichain(Unique(1)) <= Cardinality(AllGroups)
<1>1. call \in Call /\ 1 \in Classifiers
  BY DEF Mates
<1>2. IsFiniteSet(Unique(1))
  BY <1>1, PartsFinite
<1>3. PICK B \in SUBSET Unique(1) : Apart(B) /\ Cardinality(B) = Antichain(Unique(1))
  BY <1>2, LargestAntichain
<1> DEFINE over(s) == CHOOSE ch \in ChainsOf(1) : s \in Range(ch)
           group == [s \in B |-> Group(1, over(s))]
<1>4. \A s \in B : over(s) \in ChainsOf(1) /\ s \in Range(over(s))
  BY <1>1, AllChained, ChainsCover
<1> HIDE DEF over
<1>5. ASSUME NEW s \in B, NEW t \in B, Group(1, over(s)) = Group(1, over(t))
      PROVE  s = t
  <2>1. IndicesOf(1, over(s)) = IndicesOf(1, over(t))
    BY <1>5 DEF Group
  <2>2. PICK i \in Rules(1) : SupportOf(1, i) = s
    BY DEF Unique
  <2>3. i \in IndicesOf(1, over(s))
    BY <1>4, <2>2 DEF IndicesOf
  <2>4. s \in Range(over(t)) /\ t \in Range(over(t))
    BY <1>4, <2>1, <2>2, <2>3 DEF IndicesOf
  <2>5. IsChain(Range(over(t)))
    BY <1>1, <1>4, ChainsAreRuns, RunsAreChains
  <2> QED
    BY <1>3, <2>4, <2>5 DEF IsChain, Apart
<1>6. \A s \in B : Group(1, over(s)) \in AllGroups
  BY <1>1, <1>4 DEF AllGroups
<1>7. group \in Injection(B, AllGroups)
  BY <1>5, <1>6 DEF Injection, IsInjective
<1> HIDE DEF group
<1> QED
  BY <1>3, <1>7, FS_Injection

\* "The minimal possible number of LPM classifiers": the maximum matching
\* leaves as many supports to start chains from as there are supports none of
\* which is part of another (Dilworth's theorem, from Koenig's), and each of
\* those has to be in a group of its own.
THEOREM GroupsAreFewest == Spec => []FewestGroups
<1>1. ASSUME ChainsInv, BestMates PROVE FewestGroups
  <2> SUFFICES ASSUME phase = "done", call.kind = FEWEST
               PROVE  Cardinality(groups) = Antichain(Unique(1))
    BY DEF FewestGroups
  <2>1. Mates /\ mate \subseteq DilworthsEdges /\ groups = AllGroups
    BY <1>1, KindsDiffer DEF ChainsInv, Matched, Built
  <2>2. Greatest(mate, DilworthsEdges)
    BY <1>1 DEF BestMates
  <2>3. Classifiers = {1}
    BY <1>1, KindsDiffer, OneClassifier DEF ChainsInv
  <2>4. /\ IsFiniteSet(AllGroups) /\ Cardinality(AllGroups) \in Nat
        /\ Cardinality(AllGroups) <= Antichain(Unique(1))
    BY <2>1, <2>2, <2>3, GroupsAtMost
  <2>5. Antichain(Unique(1)) <= Cardinality(AllGroups)
    BY <2>1, <2>3, <2>4, GroupsAtLeast
  <2>6. Antichain(Unique(1)) \in Nat
    <3>1. IsFiniteSet(Unique(1))
      BY <2>1, <2>3, PartsFinite DEF Mates
    <3> QED
      BY <3>1, LargestAntichain
  <2> QED
    BY <2>1, <2>4, <2>5, <2>6
<1> QED
  BY <1>1, Invariance, MatesAreBest, PTL

\* The flow leaves as many vertices nobody's mate as groups may be used.
LEMMA FreeWithinLimit ==
  ASSUME Mates, Cardinality(mate) = FlowSize
  PROVE  call.max_num_groups \in Nat /\ Cardinality(Free) <= call.max_num_groups
<1>1. call.max_num_groups \in Nat
  BY DEF Mates, Call
<1>2. FlowSize = Larger(0, Cardinality(Vertices) - call.max_num_groups)
  BY DEF FlowSize
<1>3. /\ Cardinality(Free) = Cardinality(Vertices) - Cardinality(mate)
      /\ Cardinality(Vertices) \in Nat
  BY FreeSize
<1> QED
  BY <1>1, <1>2, <1>3 DEF Larger

\* A choice of supports that is split into chains within the limit gives a
\* flow: its mates, and every other support its own.
LEMMA FlowOfChoice ==
  ASSUME Mates, NEW S \in SUBSET Vertices, ChainCount(S) <= call.max_num_groups
  PROVE  \E N \in SUBSET (DilworthsEdges \cup Loops) :
           IsMatching(N) /\ Cardinality(N) = FlowSize /\ LeftOut(N) \subseteq Vertices \ S
<1> DEFINE E == DilworthsEdges \cap (S \X S)
           rest == Vertices \ S
           loops == {<<v, v>> : v \in rest}
<1>1. /\ IsFiniteSet(Vertices) /\ IsFiniteSet(S) /\ IsFiniteSet(rest)
      /\ Cardinality(rest) = Cardinality(Vertices) - Cardinality(S)
      /\ Cardinality(Vertices) \in Nat /\ Cardinality(S) \in Nat /\ Cardinality(rest) \in Nat
  <2>1. IsFiniteSet(Vertices)
    BY FreeSize
  <2>2. Vertices \cap S = S
    OBVIOUS
  <2>3. IsFiniteSet(S)
    BY <2>1, FS_Subset
  <2>4. IsFiniteSet(rest) /\ Cardinality(rest) = Cardinality(Vertices) - Cardinality(S)
    BY <2>1, <2>2, FS_Difference
  <2> HIDE DEF rest
  <2> QED
    BY <2>1, <2>3, <2>4, FS_CardinalityType
<1>2. PICK M : GreatestMatching(S, E, M)
  <2>1. E \subseteq S \X S
    OBVIOUS
  <2> HIDE DEF E
  <2> QED
    BY <1>1, <2>1, GreatestExists
<1>3. PICK A \in SUBSET S :
        /\ Unjoined(A, E)
        /\ Cardinality(S) - Cardinality(M) <= Cardinality(A)
  <2> HIDE DEF E
  <2> QED
    BY <1>2, ManyApart
<1>4. ChainCount(S) \in Nat /\ Cardinality(A) <= ChainCount(S) /\ Cardinality(A) \in Nat
  <2>1. Unjoined(A, DilworthsEdges)
    <3> SUFFICES ASSUME NEW v \in A, NEW w \in A PROVE <<v, w>> \notin DilworthsEdges
      BY DEF Unjoined
    <3>1. <<v, w>> \in S \X S
      OBVIOUS
    <3>2. <<v, w>> \notin E
      BY <1>3 DEF Unjoined
    <3> QED
      BY <3>1, <3>2
  <2>2. call \in Call
    BY DEF Mates
  <2>3. ChainCount(S) \in Nat /\ Cardinality(A) <= ChainCount(S)
    BY <2>1, <2>2, ApartCounted
  <2> QED
    BY <1>1, <2>3, FS_Subset, FS_CardinalityType
<1>5. /\ M \subseteq DilworthsEdges /\ IsMatching(M) /\ IsFiniteSet(M)
      /\ \A e \in M : e[1] \in S /\ e[2] \in S /\ e \in S \X S
  <2>1. M \in SUBSET E /\ IsMatching(M)
    BY <1>2 DEF GreatestMatching
  <2>2. IsFiniteSet(S \X S)
    BY <1>1, FS_Product
  <2>3. M \in SUBSET (S \X S)
    BY <2>1
  <2> QED
    BY <2>1, <2>2, <2>3, FS_Subset
<1>6. IsFiniteSet(loops) /\ Cardinality(loops) = Cardinality(rest)
  <2> DEFINE f == [v \in rest |-> <<v, v>>]
  <2> HIDE DEF rest
  <2>1. f \in Surjection(rest, loops) /\ f \in Injection(rest, loops)
    BY DEF Surjection, Injection, IsInjective
  <2> HIDE DEF f, loops
  <2> QED
    BY <1>1, <2>1, FS_Surjection
<1>7. M \cap loops = {}
  BY <1>5
<1> DEFINE N == M \cup loops
<1>8. IsMatching(N)
  <2>1. \A e \in loops : e[1] = e[2] /\ e[1] \notin S /\ e = <<e[1], e[1]>>
    OBVIOUS
  <2> HIDE DEF loops
  <2> QED
    BY <1>5, <2>1 DEF IsMatching
<1>9. N \subseteq DilworthsEdges \cup Loops
  BY <1>5 DEF Loops
<1>10. LeftOut(N) \subseteq rest
  <2> SUFFICES ASSUME NEW v \in Vertices, <<v, v>> \in N PROVE v \in rest
    BY DEF LeftOut
  <2>1. <<v, v>> \notin DilworthsEdges
    BY DEF DilworthsEdges
  <2>2. <<v, v>> \in loops
    BY <1>5, <2>1
  <2> QED
    BY <2>2
<1> HIDE DEF E, rest, loops
<1>11. IsFiniteSet(N) /\ Cardinality(N) = Cardinality(M) + Cardinality(rest)
       /\ Cardinality(M) \in Nat
  <2>1. IsFiniteSet(N) /\ Cardinality(N) = Cardinality(M) + Cardinality(loops) - Cardinality(M \cap loops)
    BY <1>5, <1>6, FS_Union
  <2>2. Cardinality(M \cap loops) = 0
    BY <1>7, FS_EmptySet
  <2>3. Cardinality(M) \in Nat /\ Cardinality(loops) \in Nat
    BY <1>5, <1>6, FS_CardinalityType
  <2> QED
    BY <1>6, <2>1, <2>2, <2>3
<1> HIDE DEF N
<1>12. FlowSize \in Nat /\ FlowSize <= Cardinality(N)
  <2>1. call.max_num_groups \in Nat
    BY DEF Mates, Call
  <2>2. FlowSize = Larger(0, Cardinality(Vertices) - call.max_num_groups)
    BY DEF FlowSize
  <2>3. Cardinality(Vertices) - call.max_num_groups <= Cardinality(N)
    BY <1>1, <1>3, <1>4, <1>11, <2>1
  <2>4. Cardinality(N) \in Nat
    BY <1>1, <1>11
  <2> QED
    BY <1>1, <2>1, <2>2, <2>3, <2>4 DEF Larger
<1>13. PICK T \in SUBSET N : Cardinality(T) = FlowSize
  BY <1>11, <1>12, SubsetOfSize
<1>14. T \in SUBSET (DilworthsEdges \cup Loops) /\ IsMatching(T)
  BY <1>8, <1>9 DEF IsMatching
<1>15. LeftOut(T) \subseteq Vertices \ S
  BY <1>10 DEF LeftOut, rest
<1> QED
  BY <1>13, <1>14, <1>15

\* The rules that chains leave out are those of the supports that are their
\* own mates, whose weights the flow pays.
LEMMA NoBetterChoice ==
  ASSUME Mates, Cheapest(mate), NEW S \in SUBSET Vertices, ChainCount(S) <= call.max_num_groups,
         NEW covered \in SUBSET Vertices, Vertices \ LeftOut(mate) \subseteq covered
  PROVE  RuleCount(S) <= RuleCount(covered)
<1> DEFINE left == LeftOut(mate)
           met == Vertices \ left
<1>1. call \in Call
  BY DEF Mates
<1>2. PICK N \in SUBSET (DilworthsEdges \cup Loops) :
        IsMatching(N) /\ Cardinality(N) = FlowSize /\ LeftOut(N) \subseteq Vertices \ S
  BY FlowOfChoice
<1>3. RulesIn(left) <= RulesIn(LeftOut(N))
  BY <1>2 DEF Cheapest
<1>4. left \in SUBSET Vertices /\ met \in SUBSET Vertices /\ met \in SUBSET covered
      /\ Vertices \ S \in SUBSET Vertices /\ LeftOut(N) \in SUBSET (Vertices \ S)
      /\ LeftOut(N) \in SUBSET Vertices
  BY <1>2 DEF LeftOut
<1>5. RulesIn(LeftOut(N)) <= RulesIn(Vertices \ S) /\ RulesIn(met) <= RulesIn(covered)
  BY <1>1, <1>4, RulesInGrow
<1>6. RulesIn(Vertices) = RulesIn(S) + RulesIn(Vertices \ S)
  BY <1>1, RulesInSplit
<1>7. RulesIn(Vertices) = RulesIn(left) + RulesIn(met)
  BY <1>1, <1>4, RulesInSplit
<1>8. /\ RulesIn(S) \in Nat /\ RulesIn(Vertices \ S) \in Nat /\ RulesIn(left) \in Nat
      /\ RulesIn(met) \in Nat /\ RulesIn(covered) \in Nat /\ RulesIn(LeftOut(N)) \in Nat
      /\ RuleCount(S) = RulesIn(S) /\ RuleCount(covered) = RulesIn(covered)
  BY <1>1, <1>4, RulesInFacts
<1> HIDE DEF left, met
<1> QED
  BY <1>3, <1>5, <1>6, <1>7, <1>8

LEMMA TakenWithinLimit ==
  ASSUME Mates, Cardinality(mate) = FlowSize,
         NEW w, DOMAIN w = Classifiers, \A c \in Classifiers : w[c] = Cardinality(ChainsOf(c))
  PROVE  FoldFunction(+, 0, w) <= call.max_num_groups
<1>1. \A c \in Classifiers : w[c] \in Nat
  BY ChainsCounted
<1>2. IsFiniteSet(Classifiers)
  <2>1. call.classifiers \in Seq(Seq(Entry))
    BY DEF Mates, Call
  <2>2. Classifiers = 1 .. Len(call.classifiers) /\ Len(call.classifiers) \in Nat
    BY <2>1 DEF Classifiers
  <2> QED
    BY <2>2, IntervalSize
<1>3. FoldFunction(+, 0, w) = Cardinality(Units(w, DOMAIN w))
  <2>1. IsFiniteSet(DOMAIN w) /\ \A c \in DOMAIN w : w[c] \in Nat
    BY <1>1, <1>2
  <2> QED
    BY <2>1, SumOfFunction
<1>4. Cardinality(Units(w, Classifiers)) <= Cardinality(Free)
  BY ChainsInAll
<1>5. call.max_num_groups \in Nat /\ Cardinality(Free) <= call.max_num_groups
  BY FreeWithinLimit
<1>6. Cardinality(Free) \in Nat /\ Cardinality(Units(w, Classifiers)) \in Nat
  BY <1>1, <1>2, FreeSize, UnitsFinite, FS_CardinalityType
<1>7. Cardinality(Units(w, Classifiers)) <= call.max_num_groups
  BY <1>4, <1>5, <1>6
<1> QED
  BY <1>3, <1>7

\* The supports of the chains.
CoveredBy(chains) == {v \in Vertices : \E ch \in chains[v[1]] : v[2] \in Range(ch)}

LEMMA NothingElseLeftOut ==
  ASSUME Mates, NEW chains, \A c \in Classifiers : chains[c] = ChainsOf(c)
  PROVE  Vertices \ LeftOut(mate) \subseteq CoveredBy(chains)
<1> SUFFICES ASSUME NEW v \in Vertices, v \notin LeftOut(mate)
             PROVE  \E ch \in chains[v[1]] : v[2] \in Range(ch)
  BY DEF CoveredBy
<1>1. PICK c \in Classifiers : v \in {c} \X Unique(c)
  BY DEF Vertices
<1>2. v = <<c, v[2]>> /\ v[1] = c /\ v[2] \in Unique(c)
  BY <1>1
<1>3. v[2] \in Chained(c)
  BY <1>2 DEF LeftOut, Chained, Follows
<1> QED
  BY <1>2, <1>3, ChainsCover

\* No more chains than asked for, and no choice of supports that can be split
\* into as many chains has more rules than the chains of the cheapest flow.
THEOREM CoverageIsGreatest == Spec => []GreatestCoverage
<1>1. ASSUME ChainsInv, BestMates PROVE GreatestCoverage
  <2> DEFINE applies == (phase = "done" /\ call.kind = BOUNDED) \/ phase = "first chain"
             sizes == [c \in Classifiers |-> Cardinality(partition[c])]
  <2>1. ASSUME applies
        PROVE  /\ Mates /\ Cheapest(mate) /\ Cardinality(mate) = FlowSize
               /\ \A c \in Classifiers : partition[c] = ChainsOf(c)
    <3>1. Mates /\ partition = AllChains /\ phase \notin {"start", "none"} /\ call.kind # FEWEST
      BY <1>1, <2>1, KindsDiffer DEF ChainsInv, Matched, Partitioned, Phases
    <3>2. Cheapest(mate)
      BY <1>1, <3>1 DEF BestMates
    <3> QED
      BY <3>1, <3>2 DEF Cheapest, AllChains
  <2>2. ASSUME applies PROVE FoldFunction(+, 0, sizes) <= call.max_num_groups
    <3>1. DOMAIN sizes = Classifiers /\ \A c \in Classifiers : sizes[c] = Cardinality(ChainsOf(c))
      BY <2>1, <2>2
    <3> HIDE DEF sizes, applies
    <3> QED
      BY <2>1, <2>2, <3>1, TakenWithinLimit
  <2>3. ASSUME applies, NEW S \in SUBSET Vertices, ChainCount(S) <= call.max_num_groups
        PROVE  RuleCount(S) <= RuleCount(CoveredBy(partition))
    <3>1. CoveredBy(partition) \in SUBSET Vertices
      BY DEF CoveredBy
    <3>2. Vertices \ LeftOut(mate) \subseteq CoveredBy(partition)
      BY <2>1, <2>3, NothingElseLeftOut
    <3> QED
      BY <2>1, <2>3, <3>1, <3>2, NoBetterChoice
  <2> QED
    BY <2>2, <2>3 DEF GreatestCoverage, CoveredBy
<1> QED
  BY <1>1, Invariance, MatesAreBest, PTL
=============================================================================
