---------------------------- MODULE OISubsetProofs ----------------------------
(***************************************************************************)
(* find_maximal_oi_subset returns an order-independent and maximal subset  *)
(* for every list of filters and every mask, in both modes, whatever the   *)
(* order in which the parallel iterations run; it implements the abstract  *)
(* greedy algorithm of IndependentSet; the order of the iterations leaves  *)
(* no trace in the result, and MIN_DEGREE guarantees it a size.            *)
(*                                                                         *)
(* The key of the inductive invariant is LiveAreFree: what the code still  *)
(* has to look at, the rest of the scan or the part of "indices" before    *)
(* rm_it, is exactly what intersects no picked filter.  A picked filter is *)
(* therefore disjoint from the earlier ones, and when nothing is left      *)
(* every other filter intersects a picked one.                             *)
(***************************************************************************)
EXTENDS OISubset, TernaryProofs, SequenceTheorems

\* Filter::intersect is symmetric and every filter intersects itself.
LEMMA IsectSymmetric == \A i, j : Isect(i, j) = Isect(j, i)
<1>1. \A i, j : Differences(filters[i], filters[j], mask)
                  = Differences(filters[j], filters[i], mask)
  BY DEF Differences
<1> QED
  BY <1>1 DEF Isect, Intersect

LEMMA IsectReflexive == \A i : Isect(i, i)
BY DEF Isect, Intersect, Differences

Free == {k \in DOMAIN filters : \A p \in Picked : ~Isect(p, k)}

LiveAreFree == Live = Free

\* Where each mode is, and what it has done by then.
Phase ==
  /\ mode = TOP_DOWN => pc \in {"scan", "done"}
  /\ mode = MIN_DEGREE => pc \in {"count", "pick", "update", "done"}
  /\ pc \in {"count", "pick"} => removed = {}
  /\ pc = "done" => Live = {}

\* What the degrees are while the parallel loops run.
Degrees ==
  /\ pc = "count" =>
       /\ indices = DOMAIN filters
       /\ \A i \in DOMAIN filters :
            num_edges[i] = IF i \in pending THEN 0
                           ELSE Degree(filters, mask, i, DOMAIN filters)
       /\ mode = MIN_DEGREE
  /\ DegreesFresh
  /\ pc = "update" =>
       /\ pending \subseteq indices \ removed
       /\ \A i \in indices \ removed :
            num_edges[i] = Degree(filters, mask, i,
                                  IF i \in pending THEN indices ELSE indices \ removed)
       /\ mode = MIN_DEGREE

IInv == TypeOK /\ Phase /\ Independent /\ LiveAreFree /\ Degrees

-----------------------------------------------------------------------------
\* Picking a live filter keeps the result order independent.
LEMMA PickKeepsIndependence ==
  ASSUME IInv, NEW v \in Live, result' = Append(result, v), UNCHANGED args
  PROVE  /\ result' \in Seq(DOMAIN filters)
         /\ Independent'
         /\ Picked' = Picked \cup {v}
<1>1. /\ v \in DOMAIN filters /\ result \in Seq(DOMAIN filters)
      /\ \A p \in Picked : ~Isect(p, v)
  BY DEF IInv, TypeOK, LiveAreFree, Free
<1> DEFINE n == Len(result)
<1>2. /\ n \in Nat /\ DOMAIN result = 1 .. n
      /\ DOMAIN result' = 1 .. n + 1
      /\ result'[n + 1] = v
      /\ \A k \in 1 .. n : result'[k] = result[k]
  BY <1>1
<1>3. result' \in Seq(DOMAIN filters)
  BY <1>1
<1>4. Picked' = Picked \cup {v}
  BY <1>2 DEF Picked
<1>5. \A i, j : Isect(i, j)' = Isect(i, j)
  BY DEF args, Isect
<1>6. Independent'
  <2>1. SUFFICES ASSUME NEW k \in DOMAIN result', NEW l \in DOMAIN result', l < k
                 PROVE  ~Isect(result'[k], result'[l])
    BY <1>5 DEF Independent
  <2>2. l \in 1 .. n /\ result'[l] = result[l]
    BY <1>2, <2>1
  <2>3. CASE k = n + 1
    <3>1. result[l] \in Picked
      BY <1>2, <2>2 DEF Picked
    <3> QED
      BY <1>1, <1>2, <2>2, <2>3, <3>1, IsectSymmetric
  <2>4. CASE k # n + 1
    <3>1. k \in 1 .. n /\ result'[k] = result[k]
      BY <1>2, <2>4
    <3> QED
      BY <1>2, <2>1, <2>2, <3>1 DEF IInv, Independent
  <2> QED
    BY <2>3, <2>4
<1> QED
  BY <1>3, <1>4, <1>6

\* Degrees are natural numbers.
LEMMA DegreeIsNat ==
  ASSUME TypeOK, NEW S \in SUBSET DOMAIN filters, NEW i
  PROVE  Degree(filters, mask, i, S) \in Nat
<1>1. IsFiniteSet(DOMAIN filters)
  <2>1. DOMAIN filters = 1 .. Len(filters) /\ Len(filters) \in Nat
    BY DEF TypeOK
  <2> QED
    BY <2>1, FS_Interval
<1> DEFINE N == {j \in S : j # i /\ Intersect(filters[j], filters[i], mask)}
<1>2. IsFiniteSet(N)
  BY <1>1, FS_Subset
<1> QED
  BY <1>2, FS_CardinalityType DEF Degree

\* Taking a range out of the graph lowers a degree by the neighbours in it:
\* the arithmetic of the second parallel loop.
LEMMA DegreeSplit ==
  ASSUME TypeOK, NEW S \in SUBSET DOMAIN filters, NEW R \in SUBSET S,
         NEW i \in S \ R
  PROVE  Degree(filters, mask, i, S \ R)
           = Degree(filters, mask, i, S) - Cardinality({j \in R : Isect(i, j)})
<1>1. IsFiniteSet(DOMAIN filters)
  <2>1. DOMAIN filters = 1 .. Len(filters) /\ Len(filters) \in Nat
    BY DEF TypeOK
  <2> QED
    BY <2>1, FS_Interval
<1> DEFINE A == {j \in S \ R : j # i /\ Intersect(filters[j], filters[i], mask)}
           B == {j \in R : Isect(i, j)}
           C == {j \in S : j # i /\ Intersect(filters[j], filters[i], mask)}
<1>2. C = A \cup B
  <2>1. \A j \in R : j # i
    OBVIOUS
  <2>2. \A j : Isect(i, j) <=> Intersect(filters[j], filters[i], mask)
    BY IsectSymmetric DEF Isect
  <2> QED
    BY <2>1, <2>2
<1>3. A \cap B = {}
  OBVIOUS
<1>4. IsFiniteSet(A) /\ IsFiniteSet(B)
  BY <1>1, FS_Subset
<1> HIDE DEF A, B, C
<1>5. Cardinality(C) = Cardinality(A) + Cardinality(B) - Cardinality({})
  BY <1>2, <1>3, <1>4, FS_Union
<1>6. Cardinality({}) = 0
  BY FS_EmptySet
<1>7. Cardinality(A) \in Nat /\ Cardinality(B) \in Nat
  BY <1>4, FS_CardinalityType
<1>8. Cardinality(A) = Cardinality(C) - Cardinality(B)
  BY <1>5, <1>6, <1>7
<1> QED
  BY <1>8 DEF A, B, C, Degree

\* The minimum that is picked is one of the live positions.
LEMMA MinElementLive ==
  ASSUME IInv, pc = "pick", indices # {}
  PROVE  MinElement \in indices /\ MinElement \in Live
<1> DEFINE Least == {i \in indices : \A j \in indices : num_edges[i] <= num_edges[j]}
           Values == {num_edges[i] : i \in indices}
<1>1. indices \subseteq Nat /\ \A i \in indices : num_edges[i] \in Nat
  BY DegreeIsNat DEF IInv, TypeOK, Degrees, DegreesFresh
<1>2. Least # {}
  <2>1. Values \subseteq Nat /\ Values # {}
    BY <1>1
  <2>2. First(Values) \in Values /\ \A v \in Values : First(Values) <= v
    BY <2>1, FirstIsLeast
  <2> QED
    BY <2>2
<1>3. MinElement \in Least
  BY <1>1, <1>2, FirstIsLeast DEF MinElement
<1>4. mode = MIN_DEGREE /\ removed = {}
  BY DEF IInv, Phase, TypeOK, OIMode, TOP_DOWN, MIN_DEGREE
<1> QED
  BY <1>3, <1>4 DEF Live, TOP_DOWN, MIN_DEGREE

-----------------------------------------------------------------------------
LEMMA ModesDiffer == TOP_DOWN # MIN_DEGREE
BY DEF TOP_DOWN, MIN_DEGREE

\* Nothing is picked at first, so every filter is live.
LEMMA InitInv == Init => IInv
<1> SUFFICES ASSUME Init PROVE IInv
  OBVIOUS
<1>1. PICK in \in Inputs : filters = in.filters /\ mask = in.mask
  BY DEF Init
<1>2. filters \in Seq(Filter) /\ mask \in SUBSET Bits
  BY <1>1, InputsAssumption
<1>3. Len(filters) \in Nat /\ DOMAIN filters = 1 .. Len(filters)
  BY <1>2
<1>4. TypeOK
  BY <1>2, <1>3 DEF Init, TypeOK
<1>5. Picked = {} /\ Independent
  BY DEF Init, Picked, Independent
<1>6. LiveAreFree
  BY <1>3, <1>5 DEF Init, LiveAreFree, Live, Free
<1>7. Phase
  BY ModesDiffer DEF Init, Phase, OIMode
<1>8. Degrees
  BY ModesDiffer DEF Init, Degrees, DegreesFresh, OIMode
<1> QED
  BY <1>4, <1>5, <1>6, <1>7, <1>8 DEF IInv

\* One iteration of the scan.
LEMMA ScanInv == IInv /\ Scan => IInv'
<1> SUFFICES ASSUME IInv, Scan PROVE IInv'
  OBVIOUS
<1> USE ModesDiffer
<1>1. /\ mode = TOP_DOWN /\ pc = "scan" /\ cursor <= Len(filters)
      /\ cursor' = cursor + 1 /\ UNCHANGED args /\ pc' = pc
      /\ UNCHANGED <<indices, removed, num_edges, pending>>
  BY DEF Scan, IInv, Phase, TypeOK, OIMode
<1>2. /\ Len(filters) \in Nat /\ DOMAIN filters = 1 .. Len(filters)
      /\ cursor \in 1 .. Len(filters)
  BY <1>1 DEF IInv, TypeOK
<1>3. \A i, j : Isect(i, j)' = Isect(i, j)
  BY <1>1 DEF args, Isect
<1>4. Live = {k \in cursor .. Len(filters) : \A p \in Picked : ~Isect(p, k)}
      /\ Live' = {k \in cursor + 1 .. Len(filters) : \A p \in Picked' : ~Isect(p, k)}
  BY <1>1, <1>3 DEF Live, args
<1>5. Free' = {k \in DOMAIN filters : \A p \in Picked' : ~Isect(p, k)}
  BY <1>1, <1>3 DEF Free, args
<1>6. CASE \E j \in Picked : Isect(j, cursor)
  <2>1. result' = result
    BY <1>6 DEF Scan
  <2>2. Picked' = Picked
    BY <2>1 DEF Picked
  <2>3. Independent'
    BY <1>3, <2>1 DEF IInv, Independent
  <2>4. LiveAreFree'
    BY <1>2, <1>4, <1>5, <1>6, <2>2 DEF IInv, LiveAreFree, Free
  <2>5. TypeOK'
    BY <1>1, <1>2, <2>1 DEF IInv, TypeOK, args
  <2> QED
    BY <1>1, <2>3, <2>4, <2>5 DEF IInv, Phase, Degrees, DegreesFresh, args
<1>7. CASE ~ \E j \in Picked : Isect(j, cursor)
  <2>1. result' = Append(result, cursor)
    BY <1>7 DEF Scan
  <2>2. cursor \in Live
    BY <1>2, <1>4, <1>7
  <2>3. /\ result' \in Seq(DOMAIN filters)
        /\ Independent'
        /\ Picked' = Picked \cup {cursor}
    BY <1>1, <2>1, <2>2, PickKeepsIndependence
  <2>4. LiveAreFree'
    BY <1>2, <1>4, <1>5, <2>3, IsectReflexive DEF IInv, LiveAreFree, Free
  <2>5. TypeOK'
    BY <1>1, <1>2, <2>3 DEF IInv, TypeOK, args
  <2> QED
    BY <1>1, <2>3, <2>4, <2>5 DEF IInv, Phase, Degrees, DegreesFresh, args
<1> QED
  BY <1>6, <1>7

\* A step that changes neither the result nor what is live keeps the parts
\* of the invariant about them.
LEMMA SameResult ==
  ASSUME IInv, UNCHANGED <<args, result, cursor, indices, removed>>
  PROVE  Independent' /\ LiveAreFree' /\ Live' = Live
<1>1. \A i, j : Isect(i, j)' = Isect(i, j)
  BY DEF args, Isect
<1>2. Picked' = Picked
  BY DEF Picked
<1>3. Live' = Live /\ Free' = Free
  BY <1>1, <1>2 DEF Live, Free, args
<1>4. Independent'
  BY <1>1 DEF IInv, Independent
<1> QED
  BY <1>3, <1>4 DEF IInv, LiveAreFree

\* An iteration of the first parallel loop counts one degree.
LEMMA CountEdgesInv == \A i \in DOMAIN filters : IInv /\ CountEdges(i) => IInv'
<1> SUFFICES ASSUME NEW i \in DOMAIN filters, IInv, CountEdges(i) PROVE IInv'
  OBVIOUS
<1>1. /\ pc = "count" /\ pc' = pc /\ i \in pending
      /\ UNCHANGED <<args, result, cursor, indices, removed>>
      /\ pending' = pending \ {i}
  BY DEF CountEdges
<1>2. Independent' /\ LiveAreFree' /\ Live' = Live
  BY <1>1, SameResult
<1> DEFINE N == {j \in DOMAIN filters : j # i /\ Isect(j, i)}
<1>3. Cardinality(N) = Degree(filters, mask, i, DOMAIN filters)
  BY DEF Degree, Isect
<1>4. num_edges' = [num_edges EXCEPT ![i] = num_edges[i] + Cardinality(N)]
  BY DEF CountEdges
<1>5. num_edges[i] = 0 /\ Cardinality(N) \in Nat
  BY <1>1, <1>3, DegreeIsNat DEF IInv, Degrees
<1>6. num_edges' = [num_edges EXCEPT ![i] = Degree(filters, mask, i, DOMAIN filters)]
  <2>1. num_edges[i] + Cardinality(N) = Cardinality(N)
    BY <1>5
  <2> QED
    BY <1>3, <1>4, <2>1, Zenon
<1>7. TypeOK'
  BY <1>1, <1>3, <1>5, <1>6 DEF IInv, TypeOK, args
<1>8. Degrees'
  <2>1. num_edges \in [DOMAIN filters -> Int] /\ filters' = filters /\ mask' = mask
    BY <1>1 DEF IInv, TypeOK, args
  <2>2. \A k \in DOMAIN filters :
          num_edges'[k] = IF k \in pending' THEN 0
                          ELSE Degree(filters, mask, k, DOMAIN filters)
    BY <1>1, <1>6, <2>1 DEF IInv, Degrees
  <2> QED
    BY <1>1, <2>1, <2>2 DEF IInv, Degrees, DegreesFresh, args
<1> QED
  BY <1>1, <1>2, <1>7, <1>8 DEF IInv, Phase, args

\* The first barrier: every degree has been counted.
LEMMA CountedInv == IInv /\ Counted => IInv'
<1> SUFFICES ASSUME IInv, Counted PROVE IInv'
  OBVIOUS
<1>1. /\ pc = "count" /\ pc' = "pick" /\ pending = {}
      /\ UNCHANGED <<args, result, cursor, indices, removed, num_edges, pending>>
  BY DEF Counted
<1>2. Independent' /\ LiveAreFree' /\ Live' = Live
  BY <1>1, SameResult
<1>3. TypeOK'
  BY <1>1 DEF IInv, TypeOK, args
<1>4. Degrees'
  BY <1>1 DEF IInv, Degrees, DegreesFresh, args
<1>5. Phase'
  BY <1>1, ModesDiffer DEF IInv, Phase, Degrees, args
<1> QED
  BY <1>2, <1>3, <1>4, <1>5 DEF IInv

\* Picking the minimum and partitioning.
LEMMA PickInv == IInv /\ Pick => IInv'
<1> SUFFICES ASSUME IInv, Pick PROVE IInv'
  OBVIOUS
<1> DEFINE v == MinElement
<1>1. /\ pc = "pick" /\ pc' = "update" /\ indices # {}
      /\ UNCHANGED <<args, cursor, indices, num_edges>>
      /\ result' = Append(result, v)
      /\ removed' = {i \in indices : Isect(i, v)}
      /\ pending' = indices \ removed'
  BY DEF Pick
<1>2. v \in indices /\ v \in Live
  BY <1>1, MinElementLive
<1>3. mode = MIN_DEGREE /\ removed = {}
  BY <1>1, ModesDiffer DEF IInv, Phase, TypeOK, OIMode
<1> HIDE DEF v
<1>4. /\ result' \in Seq(DOMAIN filters)
      /\ Independent'
      /\ Picked' = Picked \cup {v}
  BY <1>1, <1>2, PickKeepsIndependence
<1>5. TypeOK'
  BY <1>1, <1>4 DEF IInv, TypeOK, args
<1>6. \A i, j : Isect(i, j)' = Isect(i, j)
  BY <1>1 DEF args, Isect
<1>7. LiveAreFree'
  <2>1. Live = indices /\ Live' = indices \ removed'
    BY <1>1, <1>3, ModesDiffer DEF Live, args
  <2>2. Free' = {k \in DOMAIN filters : \A p \in Picked' : ~Isect(p, k)}
    BY <1>1, <1>6 DEF Free, args
  <2>3. Free' = {k \in Free : ~Isect(v, k)}
    BY <1>4, <2>2 DEF Free
  <2>4. Live' = {k \in Live : ~Isect(v, k)}
    BY <1>1, <2>1, IsectSymmetric
  <2> QED
    BY <2>3, <2>4 DEF IInv, LiveAreFree
<1>8. Degrees'
  BY <1>1, <1>3 DEF IInv, Degrees, DegreesFresh, args
<1>9. Phase'
  BY <1>1, <1>3, ModesDiffer DEF IInv, Phase, args
<1> QED
  BY <1>4, <1>5, <1>7, <1>8, <1>9 DEF IInv

\* An iteration of the second parallel loop.
LEMMA UpdateEdgesInv == \A i \in DOMAIN filters : IInv /\ UpdateEdges(i) => IInv'
<1> SUFFICES ASSUME NEW i \in DOMAIN filters, IInv, UpdateEdges(i) PROVE IInv'
  OBVIOUS
<1>1. /\ pc = "update" /\ pc' = pc /\ i \in pending
      /\ UNCHANGED <<args, result, cursor, indices, removed>>
      /\ pending' = pending \ {i}
  BY DEF UpdateEdges
<1>2. Independent' /\ LiveAreFree' /\ Live' = Live
  BY <1>1, SameResult
<1>3. i \in indices \ removed /\ indices \in SUBSET DOMAIN filters
      /\ removed \in SUBSET indices /\ num_edges \in [DOMAIN filters -> Int]
      /\ num_edges[i] = Degree(filters, mask, i, indices)
  BY <1>1 DEF IInv, TypeOK, Degrees
<1> DEFINE d == Degree(filters, mask, i, indices \ removed)
<1>4. d = num_edges[i] - Cardinality({j \in removed : Isect(i, j)})
  BY <1>3, DegreeSplit DEF IInv
<1>5. num_edges' = [num_edges EXCEPT ![i] = d]
  BY <1>4 DEF UpdateEdges
<1>6. d \in Nat
  BY <1>3, DegreeIsNat DEF IInv
<1> HIDE DEF d
<1>7. TypeOK'
  BY <1>1, <1>5, <1>6 DEF IInv, TypeOK, args
<1>8. Degrees'
  <2>1. filters' = filters /\ mask' = mask
    BY <1>1 DEF args
  <2>2. ASSUME NEW k \in indices \ removed
        PROVE  num_edges'[k] = Degree(filters, mask, k,
                 IF k \in pending' THEN indices ELSE indices \ removed)
    <3>1. k \in DOMAIN filters
      BY <1>3
    <3>2. CASE k = i
      BY <1>1, <1>3, <1>5, <3>2 DEF d
    <3>3. CASE k # i
      <4>1. num_edges'[k] = num_edges[k] /\ (k \in pending' <=> k \in pending)
        BY <1>1, <1>3, <1>5, <3>1, <3>3
      <4> QED
        BY <1>1, <4>1 DEF IInv, Degrees
    <3> QED
      BY <3>2, <3>3
  <2> QED
    BY <1>1, <2>1, <2>2 DEF IInv, Degrees, DegreesFresh, args
<1> QED
  BY <1>1, <1>2, <1>7, <1>8 DEF IInv, Phase, args

\* The second barrier: the removed range is erased.
LEMMA EraseInv == IInv /\ Erase => IInv'
<1> SUFFICES ASSUME IInv, Erase PROVE IInv'
  OBVIOUS
<1>1. /\ pc = "update" /\ pc' = "pick" /\ pending = {}
      /\ UNCHANGED <<args, result, cursor, num_edges, pending>>
      /\ indices' = indices \ removed /\ removed' = {}
  BY DEF Erase
<1>2. mode = MIN_DEGREE
  BY <1>1 DEF IInv, Degrees
<1>3. TypeOK'
  BY <1>1 DEF IInv, TypeOK, args
<1>4. \A i, j : Isect(i, j)' = Isect(i, j)
  BY <1>1 DEF args, Isect
<1>5. Picked' = Picked
  BY <1>1 DEF Picked
<1>6. Independent'
  BY <1>1, <1>4 DEF IInv, Independent
<1>7. Live' = Live /\ Free' = Free
  BY <1>1, <1>2, <1>4, <1>5, ModesDiffer DEF Live, Free, args
<1>8. Degrees'
  BY <1>1 DEF IInv, Degrees, DegreesFresh, args
<1>9. Phase'
  BY <1>1, <1>2, ModesDiffer DEF Phase, args
<1> QED
  BY <1>3, <1>6, <1>7, <1>8, <1>9 DEF IInv, LiveAreFree

\* The function returns only when nothing is live.
LEMMA FinishInv == IInv /\ Finish => IInv'
<1> SUFFICES ASSUME IInv, Finish PROVE IInv'
  OBVIOUS
<1>1. /\ pc' = "done"
      /\ UNCHANGED <<args, result, cursor, indices, removed, num_edges, pending>>
  BY DEF Finish
<1>2. Independent' /\ LiveAreFree' /\ Live' = Live
  BY <1>1, SameResult
<1>3. TypeOK'
  BY <1>1 DEF IInv, TypeOK, args
<1>4. Live = {}
  <2>1. CASE pc = "scan" /\ cursor > Len(filters)
    <3>1. mode = TOP_DOWN /\ cursor \in Nat /\ Len(filters) \in Nat
      BY <2>1, ModesDiffer DEF IInv, Phase, TypeOK, OIMode
    <3> QED
      BY <2>1, <3>1 DEF Live
  <2>2. CASE pc = "pick" /\ indices = {}
    <3>1. mode = MIN_DEGREE
      BY <2>2, ModesDiffer DEF IInv, Phase, TypeOK, OIMode
    <3> QED
      BY <2>2, <3>1, ModesDiffer DEF Live
  <2> QED
    BY <2>1, <2>2 DEF Finish
<1>5. Degrees'
  BY <1>1 DEF Degrees, DegreesFresh
<1>6. Phase'
  BY <1>1, <1>2, <1>4, ModesDiffer DEF IInv, Phase, TypeOK, OIMode, args
<1> QED
  BY <1>2, <1>3, <1>5, <1>6 DEF IInv

LEMMA StepInv == IInv /\ [Next]_vars => IInv'
<1>1. IInv /\ (Return \/ UNCHANGED vars) => IInv'
  <2> SUFFICES ASSUME IInv, UNCHANGED vars PROVE IInv'
    BY DEF Return
  <2>1. Independent' /\ LiveAreFree' /\ Live' = Live
    BY SameResult DEF vars, args
  <2>2. TypeOK'
    BY DEF IInv, TypeOK, vars
  <2>3. Phase'
    BY <2>1 DEF IInv, Phase, vars
  <2>4. Degrees'
    BY DEF IInv, Degrees, DegreesFresh, vars
  <2> QED
    BY <2>1, <2>2, <2>3, <2>4 DEF IInv
<1> QED
  BY <1>1, ScanInv, CountEdgesInv, CountedInv, PickInv, UpdateEdgesInv,
     EraseInv, FinishInv DEF Next, Step, Iteration

-----------------------------------------------------------------------------
LEMMA Invariance == Spec => []IInv
BY InitInv, StepInv, PTL DEF Spec

\* Type correctness: degrees stay integers of the positions, the removed
\* range stays within the indices.
THEOREM TypeCorrect == Spec => []TypeOK
<1>1. IInv => TypeOK
  BY DEF IInv
<1> QED
  BY <1>1, Invariance, PTL

\* The result is order independent at every point of both loops.
THEOREM OrderIndependent == Spec => []Independent
<1>1. IInv => Independent
  BY DEF IInv
<1> QED
  BY <1>1, Invariance, PTL

\* The result returned cannot be extended.
THEOREM ResultMaximal == Spec => []Maximal
<1>1. IInv => Maximal
  <2> SUFFICES ASSUME IInv, pc = "done", NEW i \in DOMAIN filters, i \notin Picked
               PROVE  \E p \in Picked : Isect(i, p)
    BY DEF Maximal
  <2>1. i \notin Free
    BY DEF IInv, Phase, LiveAreFree
  <2> QED
    BY <2>1, IsectSymmetric DEF Free
<1> QED
  BY <1>1, Invariance, PTL

\* The parallel decrements keep the degrees fresh.
THEOREM DegreesStayFresh == Spec => []DegreesFresh
<1>1. IInv => DegreesFresh
  BY DEF IInv, Degrees
<1> QED
  BY <1>1, Invariance, PTL

-----------------------------------------------------------------------------
(* Refinement.                                                             *)

Edges == {e \in (DOMAIN filters) \X (DOMAIN filters) : Isect(e[1], e[2])}

\* Choosing a live filter and dropping from Live what intersects it is the
\* abstract step.
LEMMA ChooseStep ==
  ASSUME UNCHANGED args, NEW v \in Live, IInv, IInv',
         Picked' = Picked \cup {v}
  PROVE  Abstract!Next
<1>1. \A i, j : Isect(i, j)' = Isect(i, j)
  BY DEF args, Isect
<1>2. Live' = {w \in Live : ~Isect(v, w)}
  <2>1. Free' = {k \in DOMAIN filters : \A p \in Picked' : ~Isect(p, k)}
    BY <1>1 DEF Free, args
  <2>2. Free' = {k \in Free : ~Isect(v, k)}
    BY <2>1 DEF Free
  <2> QED
    BY <2>2 DEF IInv, LiveAreFree
<1>3. \A w \in Live : <<v, w>> \in Edges <=> Isect(v, w)
  BY DEF Edges, IInv, LiveAreFree, Free
<1>4. Live' = {w \in Live : <<v, w>> \notin Edges}
  BY <1>2, <1>3
<1>5. (DOMAIN filters)' = DOMAIN filters /\ Edges' = Edges
  BY <1>1 DEF Edges, args
<1>6. Abstract!Choose(v)
  BY <1>4, <1>5 DEF Abstract!Choose, Edges
<1> QED
  BY <1>6 DEF Abstract!Next

\* A step that keeps the arguments, the picks and the live set is a stutter.
LEMMA StutterStep ==
  ASSUME UNCHANGED args, Live' = Live, Picked' = Picked
  PROVE  UNCHANGED Abstract!vars
<1>1. \A i, j : Isect(i, j)' = Isect(i, j)
  BY DEF args, Isect
<1>2. (DOMAIN filters)' = DOMAIN filters /\ Edges' = Edges
  BY <1>1 DEF Edges, args
<1> QED
  BY <1>2 DEF Abstract!vars, Edges

\* Both modes implement the greedy construction of a maximal independent set.
THEOREM Refinement == Spec => RefinesIndependentSet
<1>1. Init => Abstract!Init
  <2> SUFFICES ASSUME Init PROVE Abstract!Init
    OBVIOUS
  <2>1. Picked = {}
    BY DEF Init, Picked
  <2>2. Live = DOMAIN filters
    BY <2>1, InitInv DEF IInv, LiveAreFree, Free
  <2>3. Abstract!IsGraph
    <3>1. \A v \in DOMAIN filters : <<v, v>> \in Edges
      BY IsectReflexive DEF Edges
    <3>2. \A e \in Edges : <<e[2], e[1]>> \in Edges
      BY IsectSymmetric DEF Edges
    <3> QED
      BY <3>1, <3>2 DEF Abstract!IsGraph, Edges
  <2> QED
    BY <2>1, <2>2, <2>3 DEF Abstract!Init
<1>2. IInv /\ IInv' /\ [Next]_vars => [Abstract!Next]_(Abstract!vars)
  <2> SUFFICES ASSUME IInv, IInv', [Next]_vars
               PROVE  Abstract!Next \/ UNCHANGED Abstract!vars
    OBVIOUS
  <2>1. CASE Scan
    <3>1. UNCHANGED args /\ cursor <= Len(filters) /\ pc = "scan"
      BY <2>1 DEF Scan
    <3>2. CASE \E j \in Picked : Isect(j, cursor)
      <4>1. Picked' = Picked
        BY <2>1, <3>2 DEF Scan, Picked
      <4>2. Free' = Free
        BY <3>1, <4>1 DEF Free, Isect, args
      <4> QED
        BY <3>1, <4>1, <4>2, StutterStep DEF IInv, LiveAreFree
    <3>3. CASE ~ \E j \in Picked : Isect(j, cursor)
      <4>1. result' = Append(result, cursor)
        BY <2>1, <3>3 DEF Scan
      <4>2. cursor \in Live
        BY <3>1, <3>3, ModesDiffer DEF IInv, Phase, TypeOK, OIMode, Live
      <4> QED
        BY <3>1, <4>1, <4>2, PickKeepsIndependence, ChooseStep
    <3> QED
      BY <3>2, <3>3
  <2>2. CASE Pick
    <3>1. /\ UNCHANGED args /\ pc = "pick" /\ indices # {}
          /\ result' = Append(result, MinElement)
      BY <2>2 DEF Pick
    <3> QED
      BY <3>1, MinElementLive, PickKeepsIndependence, ChooseStep
  <2>3. CASE Erase
    <3>1. UNCHANGED args /\ Picked' = Picked
      BY <2>3 DEF Erase, Picked
    <3>2. Free' = Free
      BY <3>1 DEF Free, Isect, args
    <3> QED
      BY <3>1, <3>2, StutterStep DEF IInv, LiveAreFree
  <2>4. CASE Iteration \/ Counted \/ Finish
    <3>1. UNCHANGED <<args, result, cursor, indices, removed>>
      BY <2>4 DEF Iteration, CountEdges, UpdateEdges, Counted, Finish
    <3>2. Picked' = Picked /\ Live' = Live
      BY <3>1, SameResult DEF Picked
    <3> QED
      BY <3>1, <3>2, StutterStep
  <2>5. CASE Return \/ UNCHANGED vars
    <3>1. UNCHANGED <<args, result, cursor, indices, removed>>
      BY <2>5 DEF Return, vars, args
    <3>2. Picked' = Picked /\ Live' = Live
      BY <3>1, SameResult DEF Picked
    <3> QED
      BY <3>1, <3>2, StutterStep
  <2> QED
    BY <2>1, <2>2, <2>3, <2>4, <2>5 DEF Next, Step
<1> QED
  BY <1>1, <1>2, Invariance, PTL DEF Spec, RefinesIndependentSet, Abstract!Spec

-----------------------------------------------------------------------------
(* The abstract algorithm itself, on a graph of its own.                   *)
VARIABLES vertices, edges, chosen, live

Greedy == INSTANCE IndependentSet

GreedyInv ==
  /\ Greedy!IsGraph
  /\ chosen \subseteq vertices
  /\ Greedy!LiveAreFree
  /\ Greedy!IndependentChosen

\* Whatever order the vertices are chosen in, the choice is independent, and
\* maximal once nothing is live: the promise both modes of
\* find_maximal_oi_subset inherit by implementing this algorithm.
THEOREM GreedyCorrect ==
  Greedy!Spec => [](Greedy!IndependentChosen /\ Greedy!MaximalChosen)
<1> USE DEF GreedyInv, Greedy!IsGraph, Greedy!LiveAreFree, Greedy!IndependentChosen
<1>1. Greedy!Init => GreedyInv
  BY DEF Greedy!Init
<1>2. GreedyInv /\ [Greedy!Next]_(Greedy!vars) => GreedyInv'
  <2>1. ASSUME GreedyInv, NEW v \in live, Greedy!Choose(v) PROVE GreedyInv'
    <3>1. v \in vertices /\ \A c \in chosen : <<c, v>> \notin edges
      BY <2>1
    <3>2. \A c \in chosen : <<v, c>> \notin edges
      <4>1. ASSUME NEW c \in chosen, <<v, c>> \in edges PROVE FALSE
        <5>1. <<c, v>> \in edges
          BY <2>1, <4>1
        <5> QED
          BY <3>1, <5>1
      <4> QED
        BY <4>1
    <3>3. Greedy!IndependentChosen'
      BY <2>1, <3>1, <3>2 DEF Greedy!Choose
    <3>4. Greedy!LiveAreFree'
      BY <2>1, <3>1 DEF Greedy!Choose
    <3>5. Greedy!IsGraph' /\ (chosen \subseteq vertices)'
      BY <2>1, <3>1 DEF Greedy!Choose
    <3> QED
      BY <3>3, <3>4, <3>5
  <2>2. ASSUME GreedyInv, UNCHANGED Greedy!vars PROVE GreedyInv'
    BY <2>2 DEF Greedy!vars
  <2> QED
    BY <2>1, <2>2 DEF Greedy!Next
<1>3. GreedyInv => Greedy!IndependentChosen /\ Greedy!MaximalChosen
  BY DEF Greedy!MaximalChosen
<1> QED
  BY <1>1, <1>2, <1>3, PTL DEF Greedy!Spec

-----------------------------------------------------------------------------
(* The result is the run of the greedy algorithm.                          *)

\* Every pick so far was the one the greedy algorithm prefers.
PicksPreferred ==
  \A k \in DOMAIN result :
    LET S == Remaining(filters, mask, Before(result, k))
    IN  result[k] \in S /\ result[k] = Preferred(filters, mask, mode, S)

LEMMA RemainingIsFree == Remaining(filters, mask, Picked) = Free
<1>1. \A k, p : Intersect(filters[k], filters[p], mask) <=> Isect(p, k)
  BY IsectSymmetric DEF Isect
<1> QED
  BY <1>1 DEF Remaining, Free

\* The scan takes the first live filter, min_element the first of the least
\* degree, as counted in the live part of the graph.
LEMMA CursorPreferred ==
  ASSUME IInv, mode = TOP_DOWN, cursor \in Live
  PROVE  cursor = Preferred(filters, mask, mode, Live)
<1>1. Live \subseteq Nat /\ \A k \in Live : cursor <= k
  BY DEF IInv, TypeOK, Live
<1>2. First(Live) = cursor
  BY <1>1, FirstUnique
<1> QED
  BY <1>2 DEF Preferred

LEMMA MinElementPreferred ==
  ASSUME IInv, pc = "pick"
  PROVE  MinElement = Preferred(filters, mask, mode, Live) /\ Live = indices
         /\ mode = MIN_DEGREE
<1>1. mode = MIN_DEGREE /\ removed = {}
  BY ModesDiffer DEF IInv, Phase, TypeOK, OIMode
<1>2. Live = indices
  BY <1>1, ModesDiffer DEF Live
<1>3. \A i \in indices : num_edges[i] = Degree(filters, mask, i, indices)
  BY DEF IInv, Degrees, DegreesFresh
<1>4. {i \in indices : \A j \in indices : num_edges[i] <= num_edges[j]}
        = {i \in indices : \A j \in indices :
             Degree(filters, mask, i, indices) <= Degree(filters, mask, j, indices)}
  BY <1>3
<1> QED
  BY <1>1, <1>2, <1>4, ModesDiffer DEF MinElement, Preferred

LEMMA AppendPreferred ==
  ASSUME IInv, PicksPreferred, NEW v \in Live, v = Preferred(filters, mask, mode, Live),
         result' = Append(result, v), UNCHANGED args
  PROVE  PicksPreferred'
<1>1. result \in Seq(DOMAIN filters) /\ filters' = filters /\ mask' = mask /\ mode' = mode
  BY DEF IInv, TypeOK, args
<1> DEFINE n == Len(result)
<1>2. /\ n \in Nat /\ DOMAIN result = 1 .. n /\ DOMAIN result' = 1 .. n + 1
      /\ result'[n + 1] = v
      /\ \A k \in 1 .. n : result'[k] = result[k]
  BY <1>1
<1> HIDE DEF n
<1>3. ASSUME NEW k \in 1 .. n
      PROVE  LET S == Remaining(filters, mask, Before(result', k))
             IN  result'[k] \in S /\ result'[k] = Preferred(filters, mask, mode, S)
  <2>1. Before(result', k) = Before(result, k)
    <3>1. \A i \in 1 .. k - 1 : i \in 1 .. n
      BY <1>2
    <3> QED
      BY <1>2, <3>1 DEF Before
  <2> QED
    BY <1>2, <2>1 DEF PicksPreferred
<1>4. Remaining(filters, mask, Before(result', n + 1)) = Live
  <2>1. Before(result', n + 1) = Picked
    <3>1. 1 .. (n + 1) - 1 = 1 .. n
      BY <1>2
    <3> QED
      BY <1>2, <3>1 DEF Before, Picked
  <2> QED
    BY <2>1, RemainingIsFree DEF IInv, LiveAreFree
<1>5. ASSUME NEW k \in 1 .. n + 1
      PROVE  LET S == Remaining(filters, mask, Before(result', k))
             IN  result'[k] \in S /\ result'[k] = Preferred(filters, mask, mode, S)
  <2>1. CASE k = n + 1
    BY <1>2, <1>4, <2>1
  <2>2. CASE k # n + 1
    <3>1. k \in 1 .. n
      BY <1>2, <2>2
    <3> QED
      BY <1>3, <3>1
  <2> QED
    BY <2>1, <2>2
<1> QED
  BY <1>1, <1>2, <1>5 DEF PicksPreferred

LEMMA PreferredUnchanged ==
  ASSUME PicksPreferred, UNCHANGED <<args, result>>
  PROVE  PicksPreferred'
BY DEF PicksPreferred, args

LEMMA PreferredStep ==
  ASSUME IInv, PicksPreferred, [Next]_vars
  PROVE  PicksPreferred'
<1>1. CASE Scan
  <2>1. CASE result' = result
    BY <1>1, <2>1, PreferredUnchanged DEF Scan
  <2>2. CASE result' # result
    <3>1. /\ ~ \E j \in Picked : Isect(j, cursor)
          /\ result' = Append(result, cursor)
          /\ UNCHANGED args /\ pc = "scan" /\ cursor <= Len(filters)
      BY <1>1, <2>2 DEF Scan
    <3>2. mode = TOP_DOWN /\ cursor \in cursor .. Len(filters)
      BY <3>1, ModesDiffer DEF IInv, Phase, TypeOK, OIMode
    <3>3. cursor \in Live
      BY <3>1, <3>2 DEF Live
    <3> QED
      BY <3>1, <3>2, <3>3, CursorPreferred, AppendPreferred
  <2> QED
    BY <2>1, <2>2
<1>2. CASE Pick
  <2>1. pc = "pick" /\ indices # {} /\ result' = Append(result, MinElement) /\ UNCHANGED args
    BY <1>2 DEF Pick
  <2> QED
    BY <2>1, MinElementLive, MinElementPreferred, AppendPreferred
<1>3. CASE Iteration \/ Counted \/ Erase \/ Finish \/ Return \/ UNCHANGED vars
  <2>1. UNCHANGED <<args, result>>
    BY <1>3 DEF Iteration, CountEdges, UpdateEdges, Counted, Erase, Finish, Return, vars, args
  <2> QED
    BY <2>1, PreferredUnchanged
<1> QED
  BY <1>1, <1>2, <1>3 DEF Next, Step

\* No filter is picked twice: it intersects itself.
LEMMA NoMorePicksThanFilters ==
  ASSUME TypeOK, Independent
  PROVE  Len(result) \in 0 .. Len(filters)
<1>1. /\ result \in [1 .. Len(result) -> DOMAIN filters]
      /\ Len(result) \in Nat /\ DOMAIN result = 1 .. Len(result)
      /\ Len(filters) \in Nat /\ DOMAIN filters = 1 .. Len(filters)
  BY DEF TypeOK
<1>2. result \in Injection(1 .. Len(result), DOMAIN filters)
  <2>1. ASSUME NEW k \in 1 .. Len(result), NEW l \in 1 .. Len(result), k # l
        PROVE  result[k] # result[l]
    <3>1. \A i, j \in DOMAIN result : j < i => result[i] # result[j]
      BY IsectReflexive DEF Independent
    <3>2. l < k \/ k < l
      BY <1>1, <2>1
    <3> QED
      BY <1>1, <3>1, <3>2
  <2> QED
    BY <1>1, <2>1 DEF Injection, IsInjective
<1>3. /\ IsFiniteSet(DOMAIN filters) /\ Cardinality(DOMAIN filters) = Len(filters)
      /\ Cardinality(1 .. Len(result)) = Len(result)
  BY <1>1, IntervalSize
<1>4. Cardinality(1 .. Len(result)) <= Cardinality(DOMAIN filters)
  BY <1>2, <1>3, FS_Injection
<1> QED
  BY <1>1, <1>3, <1>4

\* Whatever the order in which the parallel iterations run, what is returned
\* is the one run of the greedy algorithm on these arguments: the callers may
\* be modelled with GreedyRuns.
THEOREM ResultDeterministic == Spec => []Deterministic
<1>1. Init => PicksPreferred
  BY DEF Init, PicksPreferred
<1>2. IInv /\ PicksPreferred /\ [Next]_vars => PicksPreferred'
  BY PreferredStep
<1>3. IInv /\ PicksPreferred => Deterministic
  <2> SUFFICES ASSUME IInv, PicksPreferred, pc = "done"
               PROVE  result \in GreedyRuns(filters, mask, mode)
    BY DEF Deterministic
  <2>1. /\ result \in [1 .. Len(result) -> 1 .. Len(filters)]
        /\ Len(result) \in Nat /\ DOMAIN result = 1 .. Len(result)
    BY DEF IInv, TypeOK
  <2>2. result \in PickOrders(Len(filters))
    <3>1. Len(result) \in 0 .. Len(filters)
      BY NoMorePicksThanFilters DEF IInv
    <3> QED
      BY <2>1, <3>1 DEF PickOrders
  <2>3. Remaining(filters, mask, Before(result, Len(result) + 1)) = {}
    <3>1. 1 .. (Len(result) + 1) - 1 = 1 .. Len(result)
      BY <2>1
    <3>2. Before(result, Len(result) + 1) = Picked
      BY <2>1, <3>1 DEF Before, Picked
    <3>3. Free = {}
      BY DEF IInv, LiveAreFree, Phase
    <3> QED
      BY <3>2, <3>3, RemainingIsFree
  <2>4. IsGreedyRun(filters, mask, mode, result)
    BY <2>3 DEF IsGreedyRun, PicksPreferred
  <2> QED
    BY <2>2, <2>4 DEF GreedyRuns
<1> QED
  BY <1>1, <1>2, <1>3, Invariance, PTL DEF Spec

-----------------------------------------------------------------------------
(* The size of the result of MIN_DEGREE.                                   *)
(*                                                                         *)
(* A pick takes itself and its live neighbours away.  None of these has a  *)
(* smaller degree, in the live graph and so in the whole one; their shares *)
(* of Scale, divided by degree + 1, add up to no more than Scale.          *)

Share == [i \in DOMAIN filters |->
            Scale \div (Degree(filters, mask, i, DOMAIN filters) + 1)]

Gone == DOMAIN filters \ Live

SharesPaid ==
  mode = MIN_DEGREE => Cardinality(Units(Share, Gone)) <= Scale * Len(result)

LEMMA ShareIsNat ==
  ASSUME TypeOK
  PROVE  /\ \A i \in DOMAIN filters : Share[i] \in Nat
         /\ IsFiniteSet(DOMAIN filters)
<1>1. \A i : Degree(filters, mask, i, DOMAIN filters) \in Nat
  BY DegreeIsNat
<1>2. Scale \in Nat
  BY ScaleAssumption
<1>3. \A d \in Nat : Scale \div (d + 1) \in Nat
  BY <1>2
<1>4. DOMAIN filters = 1 .. Len(filters) /\ Len(filters) \in Nat
  BY DEF TypeOK
<1> QED
  BY <1>1, <1>3, <1>4, IntervalSize DEF Share

\* A degree counted in a part of the graph is no greater.
LEMMA DegreeGrows ==
  ASSUME TypeOK, NEW S \in SUBSET DOMAIN filters, NEW i
  PROVE  Degree(filters, mask, i, S) <= Degree(filters, mask, i, DOMAIN filters)
<1> DEFINE A == {j \in S : j # i /\ Intersect(filters[j], filters[i], mask)}
           B == {j \in DOMAIN filters : j # i /\ Intersect(filters[j], filters[i], mask)}
<1>1. IsFiniteSet(DOMAIN filters)
  BY ShareIsNat
<1>2. IsFiniteSet(B)
  BY <1>1, FS_Subset
<1>3. A \in SUBSET B
  OBVIOUS
<1>4. Cardinality(A) <= Cardinality(B)
  BY <1>2, <1>3, FS_Subset
<1> QED
  BY <1>4 DEF Degree

\* The range that is removed: the pick and its neighbours.
LEMMA RangeSize ==
  ASSUME TypeOK, NEW S \in SUBSET DOMAIN filters, NEW v \in S
  PROVE  LET R == {i \in S : Isect(i, v)}
         IN  IsFiniteSet(R) /\ Cardinality(R) = Degree(filters, mask, v, S) + 1
<1> DEFINE R == {i \in S : Isect(i, v)}
           N == {j \in S : j # v /\ Intersect(filters[j], filters[v], mask)}
<1>1. IsFiniteSet(N)
  BY ShareIsNat, FS_Subset
<1>2. R = N \cup {v} /\ v \notin N
  BY IsectReflexive DEF Isect
<1>3. Cardinality(N) = Degree(filters, mask, v, S)
  BY DEF Degree
<1> HIDE DEF R, N
<1>4. IsFiniteSet(N \cup {v}) /\ Cardinality(N \cup {v}) = Cardinality(N) + 1
  BY <1>1, <1>2, FS_AddElement
<1> QED
  BY <1>2, <1>3, <1>4 DEF R

\* m shares of at most n \div m each are no more than n.
LEMMA ShareOut ==
  ASSUME NEW n \in Nat, NEW m \in Nat, m > 0
  PROVE  m * (n \div m) <= n /\ n \div m \in Nat
<1>1. n = m * (n \div m) + (n % m) /\ n % m \in 0 .. m - 1 /\ n \div m \in Int
  OBVIOUS
<1>2. n \div m >= 0
  OBVIOUS
<1> QED
  BY <1>1, <1>2

LEMMA ShareFalls ==
  ASSUME NEW n \in Nat, NEW m \in Nat, NEW d \in Nat, m > 0, m <= d
  PROVE  n \div d <= n \div m
<1> DEFINE p == n \div d
           q == n \div m
<1>1. d * p <= n /\ p \in Nat
  BY ShareOut
<1>2. n = m * q + (n % m) /\ n % m \in 0 .. m - 1 /\ q \in Nat
  BY ShareOut
<1> HIDE DEF p, q
<1>3. SUFFICES ASSUME p >= q + 1 PROVE FALSE
  BY <1>1, <1>2 DEF p, q
<1>4. m * p <= d * p
  BY <1>1
<1>5. m * (q + 1) <= m * p
  BY <1>1, <1>2, <1>3
<1>6. m * (q + 1) = m * q + m
  BY <1>2
<1>7. n < m * q + m
  BY <1>2
<1>8. m * q \in Nat /\ m * p \in Nat /\ d * p \in Nat /\ m * (q + 1) \in Nat
  BY <1>1, <1>2
<1> QED
  BY <1>1, <1>4, <1>5, <1>6, <1>7, <1>8

\* What is removed with a pick of least degree is worth one pick.
LEMMA RangePaid ==
  ASSUME TypeOK, NEW S \in SUBSET DOMAIN filters, NEW v \in S,
         \A i \in S : Degree(filters, mask, v, S) <= Degree(filters, mask, i, S)
  PROVE  Cardinality(Units(Share, {i \in S : Isect(i, v)})) <= Scale
<1> DEFINE R == {i \in S : Isect(i, v)}
           m == Cardinality(R)
           q == Scale \div m
<1>1. IsFiniteSet(R) /\ m = Degree(filters, mask, v, S) + 1
  BY RangeSize
<1>2. m \in Nat /\ m > 0 /\ Scale \in Nat
  BY <1>1, DegreeIsNat, ScaleAssumption
<1>3. R \subseteq S /\ R \subseteq DOMAIN filters
  OBVIOUS
<1>4. m * q <= Scale /\ q \in Nat
  BY <1>2, ShareOut
<1>5. ASSUME NEW i \in R PROVE Share[i] <= q /\ Share[i] \in Nat
  <2> DEFINE d == Degree(filters, mask, i, DOMAIN filters)
  <2>1. /\ Degree(filters, mask, v, S) <= Degree(filters, mask, i, S)
        /\ Degree(filters, mask, i, S) <= d
    BY <1>3, DegreeGrows
  <2>2. /\ Degree(filters, mask, v, S) \in Nat /\ Degree(filters, mask, i, S) \in Nat
        /\ d \in Nat
    BY DegreeIsNat
  <2>3. Share[i] = Scale \div (d + 1)
    BY <1>3 DEF Share
  <2> HIDE DEF d, R
  <2>4. d + 1 \in Nat /\ m <= d + 1
    BY <1>1, <2>1, <2>2
  <2> HIDE DEF m
  <2>5. Scale \div (d + 1) <= q
    BY <1>2, <2>4, ShareFalls
  <2>6. Scale \div (d + 1) \in Nat
    BY <1>2, <2>2, ShareOut
  <2> QED
    BY <2>3, <2>5, <2>6
<1> HIDE DEF R, m, q
<1>6. Units(Share, R) \in SUBSET (R \X (1 .. q))
  BY <1>4, <1>5 DEF Units
<1>7. IsFiniteSet(1 .. q) /\ Cardinality(1 .. q) = q
  BY <1>4, IntervalSize
<1>8. IsFiniteSet(R \X (1 .. q)) /\ Cardinality(R \X (1 .. q)) = m * q
  <2> DEFINE Q == 1 .. q
  <2>1. IsFiniteSet(Q) /\ Cardinality(Q) = q
    BY <1>7
  <2> HIDE DEF Q
  <2>2. IsFiniteSet(R \X Q) /\ Cardinality(R \X Q) = m * q
    BY <1>1, <2>1, FS_Product DEF m
  <2> QED
    BY <2>2 DEF Q
<1>9. /\ IsFiniteSet(Units(Share, R))
      /\ Cardinality(Units(Share, R)) <= m * q
  BY <1>6, <1>8, FS_Subset
<1>10. Cardinality(Units(Share, R)) \in Nat /\ m * q \in Nat
  BY <1>2, <1>4, <1>9, FS_CardinalityType
<1> QED
  BY <1>2, <1>4, <1>9, <1>10 DEF R

\* Disjoint sets have the units of both together.
LEMMA UnitsOfBoth ==
  ASSUME NEW w, NEW S, NEW T, IsFiniteSet(S), IsFiniteSet(T),
         \A x \in S \cup T : w[x] \in Nat
  PROVE  Cardinality(Units(w, S \cup T)) <= Cardinality(Units(w, S)) + Cardinality(Units(w, T))
<1> DEFINE A == Units(w, S)
           B == Units(w, T)
<1>1. Units(w, S \cup T) = A \cup B
  BY DEF Units
<1>2. IsFiniteSet(A) /\ IsFiniteSet(B)
  BY UnitsFinite
<1> HIDE DEF A, B
<1>3. /\ IsFiniteSet(A \cup B)
      /\ Cardinality(A \cup B) = Cardinality(A) + Cardinality(B) - Cardinality(A \cap B)
  BY <1>2, FS_Union
<1>4. /\ IsFiniteSet(A \cap B)
      /\ Cardinality(A) \in Nat /\ Cardinality(B) \in Nat /\ Cardinality(A \cap B) \in Nat
  BY <1>2, FS_Subset, FS_CardinalityType
<1>5. Cardinality(A \cup B) <= Cardinality(A) + Cardinality(B)
  BY <1>3, <1>4
<1>6. Cardinality(Units(w, S \cup T)) <= Cardinality(A) + Cardinality(B)
  BY <1>1, <1>5 DEF A, B
<1> QED
  BY <1>6 DEF A, B

LEMMA LeastDegreePicked ==
  ASSUME IInv, pc = "pick", indices # {}
  PROVE  \A i \in indices : Degree(filters, mask, MinElement, indices)
                              <= Degree(filters, mask, i, indices)
<1> DEFINE Least == {i \in indices : \A j \in indices : num_edges[i] <= num_edges[j]}
           Values == {num_edges[i] : i \in indices}
<1>1. /\ indices \subseteq Nat
      /\ \A i \in indices : /\ num_edges[i] = Degree(filters, mask, i, indices)
                            /\ num_edges[i] \in Nat
  BY DegreeIsNat DEF IInv, TypeOK, Degrees, DegreesFresh
<1>2. Least # {}
  <2>1. Values \subseteq Nat /\ Values # {}
    BY <1>1
  <2>2. First(Values) \in Values /\ \A v \in Values : First(Values) <= v
    BY <2>1, FirstIsLeast
  <2> QED
    BY <2>2
<1>3. MinElement \in Least
  BY <1>1, <1>2, FirstIsLeast DEF MinElement
<1> QED
  BY <1>1, <1>3

LEMMA SharesUnchanged ==
  ASSUME SharesPaid, UNCHANGED <<args, result>>, Live' = Live
  PROVE  SharesPaid'
<1>1. filters' = filters /\ mask' = mask /\ mode' = mode
  BY DEF args
<1>2. Share' = Share /\ Gone' = Gone
  BY <1>1 DEF Share, Gone
<1> QED
  BY <1>1, <1>2 DEF SharesPaid, Units

LEMMA PickPaid ==
  ASSUME IInv, SharesPaid, Pick
  PROVE  SharesPaid'
<1> DEFINE v == MinElement
           R == {i \in indices : Isect(i, v)}
<1>1. /\ pc = "pick" /\ indices # {} /\ indices' = indices
      /\ removed' = R /\ result' = Append(result, v) /\ UNCHANGED args
  BY DEF Pick
<1>2. /\ filters' = filters /\ mask' = mask /\ mode' = mode /\ Share' = Share
      /\ TypeOK
  BY <1>1 DEF args, Share, IInv
<1>3. /\ mode = MIN_DEGREE /\ Live = indices
  BY <1>1, MinElementPreferred
<1>4. Live' = indices \ R
  BY <1>1, <1>2, <1>3, ModesDiffer DEF Live
<1>5. /\ v \in indices /\ indices \in SUBSET DOMAIN filters
      /\ \A i \in indices : Degree(filters, mask, v, indices)
                              <= Degree(filters, mask, i, indices)
  BY <1>1, <1>2, MinElementLive, LeastDegreePicked DEF TypeOK
<1> HIDE DEF v
<1>6. Gone' = Gone \cup R
  BY <1>2, <1>3, <1>4, <1>5 DEF Gone
<1>7. Cardinality(Units(Share, R)) <= Scale
  BY <1>2, <1>5, RangePaid
<1>8. /\ Gone \in SUBSET DOMAIN filters /\ R \in SUBSET DOMAIN filters
  BY <1>5 DEF Gone
<1>9. /\ IsFiniteSet(Gone) /\ IsFiniteSet(R)
      /\ \A x \in Gone \cup R : Share[x] \in Nat
      /\ \A x \in Gone : Share[x] \in Nat
      /\ \A x \in R : Share[x] \in Nat
  BY <1>2, <1>8, ShareIsNat, FS_Subset
<1> HIDE DEF R
<1>10. Cardinality(Units(Share, Gone \cup R))
         <= Cardinality(Units(Share, Gone)) + Cardinality(Units(Share, R))
  BY <1>9, UnitsOfBoth
<1>11. /\ Cardinality(Units(Share, Gone)) \in Nat /\ Cardinality(Units(Share, R)) \in Nat
       /\ Cardinality(Units(Share, Gone \cup R)) \in Nat
  <2>1. IsFiniteSet(Gone \cup R)
    BY <1>9, FS_Union
  <2>2. /\ IsFiniteSet(Units(Share, Gone)) /\ IsFiniteSet(Units(Share, R))
        /\ IsFiniteSet(Units(Share, Gone \cup R))
    BY <1>9, <2>1, UnitsFinite
  <2> QED
    BY <2>2, FS_CardinalityType
<1>12. Len(result') = Len(result) + 1 /\ Len(result) \in Nat /\ Scale \in Nat
  BY <1>1, <1>2, ScaleAssumption DEF TypeOK
<1>13. Cardinality(Units(Share, Gone)) <= Scale * Len(result)
  BY <1>3 DEF SharesPaid
<1>14. Scale * (Len(result) + 1) = Scale * Len(result) + Scale /\ Scale * Len(result) \in Nat
  BY <1>12
<1>15. Cardinality(Units(Share, Gone \cup R)) <= Scale * (Len(result) + 1)
  BY <1>7, <1>10, <1>11, <1>12, <1>13, <1>14
<1>16. Cardinality(Units(Share', Gone')) <= Scale * Len(result')
  BY <1>2, <1>6, <1>12, <1>15
<1> QED
  BY <1>16 DEF SharesPaid, Units

LEMMA SharesStep ==
  ASSUME IInv, SharesPaid, [Next]_vars
  PROVE  SharesPaid'
<1>1. CASE Scan
  <2>1. mode = TOP_DOWN /\ mode' = mode
    BY <1>1, ModesDiffer DEF Scan, args, IInv, Phase, TypeOK, OIMode
  <2> QED
    BY <2>1, ModesDiffer DEF SharesPaid
<1>2. CASE Pick
  BY <1>2, PickPaid
<1>3. CASE Iteration \/ Counted \/ Finish \/ Return \/ UNCHANGED vars
  <2>1. UNCHANGED <<args, result, cursor, indices, removed>>
    BY <1>3 DEF Iteration, CountEdges, UpdateEdges, Counted, Finish, Return, vars, args
  <2> QED
    BY <2>1, SameResult, SharesUnchanged
<1>4. CASE Erase
  <2>1. /\ UNCHANGED <<args, result>> /\ mode' = mode /\ mode = MIN_DEGREE
        /\ indices' = indices \ removed /\ removed' = {}
    BY <1>4 DEF Erase, args, IInv, Degrees
  <2>2. Live' = Live
    BY <2>1, ModesDiffer DEF Live
  <2> QED
    BY <2>1, <2>2, SharesUnchanged
<1> QED
  BY <1>1, <1>2, <1>3, <1>4 DEF Next, Step

\* The fold over the shares counts their units.
LEMMA SumOfShares ==
  ASSUME TypeOK
  PROVE  FoldFunction(+, 0, Share) = Cardinality(Units(Share, DOMAIN filters))
<1>1. /\ IsFiniteSet(DOMAIN filters) /\ DOMAIN Share = DOMAIN filters
      /\ \A i \in DOMAIN filters : Share[i] \in Nat
  BY ShareIsNat DEF Share
<1> DEFINE sum == CHOOSE f : Sums(Share, DOMAIN filters, f)
<1>2. Sums(Share, DOMAIN filters, sum)
  BY <1>1, SumsExist
<1>3. FoldFunction(+, 0, Share) = sum[DOMAIN filters]
  <2> HIDE DEF Share
  <2> QED
    BY <1>1 DEF FoldFunction, FoldFunctionOnSet, MapThenFoldSet, Sums
<1> HIDE DEF sum
<1> QED
  BY <1>1, <1>2, <1>3, SumCountsUnits

\* Picking by least degree pays: the result has at least as many filters as
\* the fractions 1 / (degree + 1) of all the filters add up to, for every
\* list, mask and order of the parallel iterations.
THEOREM LeastDegreePays == Spec => []MinDegreeBound
<1>1. Init => SharesPaid
  <2> SUFFICES ASSUME Init, mode = MIN_DEGREE PROVE SharesPaid
    BY DEF SharesPaid
  <2>1. Gone = {} /\ Len(result) = 0
    BY ModesDiffer DEF Init, Gone, Live
  <2> QED
    BY <2>1, NoUnits, ScaleAssumption DEF SharesPaid
<1>2. IInv /\ SharesPaid /\ [Next]_vars => SharesPaid'
  BY SharesStep
<1>3. IInv /\ SharesPaid => MinDegreeBound
  <2> SUFFICES ASSUME IInv, SharesPaid, pc = "done", mode = MIN_DEGREE
               PROVE  Scale * Len(result) >= FoldFunction(+, 0, Share)
    BY DEF MinDegreeBound, Share
  <2>1. Gone = DOMAIN filters /\ TypeOK
    BY DEF IInv, Phase, Gone
  <2>2. FoldFunction(+, 0, Share) = Cardinality(Units(Share, Gone))
    BY <2>1, SumOfShares
  <2>3. Cardinality(Units(Share, Gone)) \in Nat /\ Scale * Len(result) \in Nat
    <3>1. IsFiniteSet(Units(Share, Gone))
      BY <2>1, ShareIsNat, UnitsFinite
    <3>2. Len(result) \in Nat /\ Scale \in Nat
      BY <2>1, ScaleAssumption DEF TypeOK
    <3> QED
      BY <3>1, <3>2, FS_CardinalityType
  <2> QED
    BY <2>2, <2>3 DEF SharesPaid
<1> QED
  BY <1>1, <1>2, <1>3, Invariance, PTL DEF Spec
=============================================================================
